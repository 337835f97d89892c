-------------------------------- MODULE Buffer --------------------------------
(***************************************************************************)
(* The layout of an expression: next_expression of lio.c puts its items    *)
(* into a buffer of bytes, each with the distance to the next one of its   *)
(* list, which is patched while the list grows and when it ends.           *)
(***************************************************************************)
EXTENDS Integers, Sequences

CONSTANTS
    BufferSize,     \* LIOBUFSIZE
    RestValues,     \* the distance to the next item is a uint8_t: 256
    STRBUFSIZE,     \* the place for a word, with the 0 behind it
    MAXDEPTH

\* LISTITEM_SIZE; what is left for the rest fields of the last items
LISTITEM_SIZE == 2

ASSUME BufferAssumption ==
    /\ MAXDEPTH \in Nat \ {0}
    /\ RestValues \in Nat /\ BufferSize \in 5..(RestValues - 1)
    /\ STRBUFSIZE \in 2..(RestValues - LISTITEM_SIZE - 1)

VARIABLES
    buffer,             \* items by address
    current, depth,
    enclosing, last,    \* addresses by depth
    first_in_list

reading == <<buffer, current, depth, enclosing, last, first_in_list>>

ValueSize(item) ==
    CASE item.type \in {"variable", "function", "uint16"} -> 2
      [] item.type = "uint8" -> 1
      [] item.type \in {"string", "atom"} -> Len(item.value) + 1
      [] item.type = "list" -> 0

NoItem == -1     \* a null pointer
EndBare == BufferSize     \* mutant: nothing is left
End == BufferSize - 2
Room == current < End

\* the lists that are open, the expression itself among them, have a place each
Depths == 0..(MAXDEPTH - 1)

StartExpression ==
    /\ buffer' = <<>> /\ current' = 0 /\ depth' = 0 /\ first_in_list' = TRUE
    /\ enclosing' = [i \in Depths |-> NoItem]
    /\ last' = [i \in Depths |-> NoItem]

\* set_current: a value that does not fit is not stored.  It is the byte that is compared,
\* and reading goes on behind it; only words that are too long for str_buf make it wrap.
RestOf(item) == (ValueSize(item) + LISTITEM_SIZE) % RestValues
Reaches(item) == current + RestOf(item) >= End
Cell(rest, item, stored) ==
    [rest |-> rest, type |-> item.type, value |-> item.value, stored |-> stored]
Storing(b, a, cell) == [x \in DOMAIN b \cup {a} |-> IF x = a THEN cell ELSE b[x]]
SetCurrent(item) ==
    Storing(buffer, current,
            Cell(RestOf(item), item, IF Reaches(item) THEN 0 ELSE ValueSize(item)))

\* the lists that are open reach behind what was added
Enlarged(b, size) ==
    [a \in DOMAIN b |-> IF \E i \in 0..(depth - 1) : enclosing[i] = a
                        THEN [b[a] EXCEPT !.rest = (@ + size) % RestValues] ELSE b[a]]

\* current->rest = 0: the list has no item yet.  last[depth + 1] is written before depth is
\* compared with MAXDEPTH, at the next list: a list there has no place for it.
AList == [type |-> "list", value |-> 0]
OpenList ==
    /\ depth + 1 \in Depths /\ ~Reaches(AList)
    /\ buffer' = Storing(Enlarged(SetCurrent(AList), LISTITEM_SIZE), current + LISTITEM_SIZE,
                         Cell(0, [type |-> "unknown", value |-> 0], 0))
    /\ enclosing' = [enclosing EXCEPT ![depth] = current]
    /\ last' = [last EXCEPT ![depth] = current, ![depth + 1] = NoItem]
    /\ current' = current + LISTITEM_SIZE /\ depth' = depth + 1 /\ first_in_list' = TRUE

\* the last item of the list that ends has none behind it
EndedOutside ==     \* mutant: only at the end of the expression
    IF depth > 0 \/ last[depth] = NoItem THEN buffer ELSE [buffer EXCEPT ![last[depth]].rest = 0]
Ended == IF last[depth] = NoItem THEN buffer ELSE [buffer EXCEPT ![last[depth]].rest = 0]

CloseList ==
    /\ depth > 0
    /\ buffer' = Ended /\ depth' = depth - 1 /\ first_in_list' = FALSE
    /\ UNCHANGED <<current, enclosing, last>>

\* the end of the expression: the loop returns
CloseExpression ==
    /\ depth = 0
    /\ buffer' = Ended /\ UNCHANGED <<current, depth, enclosing, last, first_in_list>>

AddItem(item) ==
    /\ buffer' = Enlarged(SetCurrent(item), RestOf(item)) /\ current' = current + RestOf(item)
    /\ last' = [last EXCEPT ![depth] = current]
    /\ first_in_list' = FALSE
    /\ UNCHANGED <<depth, enclosing>>

-----------------------------------------------------------------------------
\* the items, and where first and rest lead from them
Addresses == {a \in DOMAIN buffer : a < current}
Leading == {a \in Addresses : buffer[a].rest # 0}
NextOf(a) == a + buffer[a].rest
Nexts == {NextOf(a) : a \in Leading}
Firsts == {a + LISTITEM_SIZE : a \in {l \in Addresses : buffer[l].type = "list"}}

(***************************************************************************)
(* Nothing is stored behind the buffer: no value that a wrapped distance   *)
(* lets through, and not the header of an item that does not fit.          *)
(***************************************************************************)
InBuffer == \A a \in DOMAIN buffer : a + LISTITEM_SIZE + buffer[a].stored <= BufferSize

(***************************************************************************)
(* The expression that eval gets: all values are stored and none reaches   *)
(* into the item behind; first and rest lead to items only, and to each    *)
(* of them in exactly one way, so a walk through the lists comes by every  *)
(* item once, whichever of them were open when it was added.               *)
(***************************************************************************)
Ends(a) == a + LISTITEM_SIZE + ValueSize(buffer[a])
WellLaid ==
    /\ \A a \in Addresses : buffer[a].stored = ValueSize(buffer[a]) /\ Ends(a) <= current
    /\ \A a, b \in Addresses : a < b => Ends(a) <= b
    /\ Nexts \cup Firsts = Addresses \ {0} /\ Nexts \cap Firsts = {}
    /\ \A a, b \in Leading : NextOf(a) = NextOf(b) => a = b
ExpressionWellLaid == [][CloseExpression => WellLaid']_reading
=============================================================================
