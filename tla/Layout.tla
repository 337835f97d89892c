-------------------------------- MODULE Layout --------------------------------
(***************************************************************************)
(* What next_expression does to the buffer, whatever the text is: words    *)
(* of any type that fit into str_buf, in at most MAXDEPTH lists around     *)
(* each other, expression after expression.  What the C program leaves     *)
(* undefined is no step of the buffer: of a text with a longer word or     *)
(* with a deeper list, nothing is said from there on.                      *)
(***************************************************************************)
EXTENDS Buffer

VARIABLE open     \* an expression has begun and not ended

IsItem(item) ==
    \/ item.type \in {"variable", "function", "uint8", "uint16"}
    \/ item.type \in {"string", "atom"} /\ Len(item.value) \in 0..(STRBUFSIZE - 1)

InitLayout ==
    /\ buffer = <<>> /\ current = 0 /\ depth = 0 /\ first_in_list = TRUE
    /\ enclosing = [i \in Depths |-> NoItem]
    /\ last = [i \in Depths |-> NoItem]
    /\ open = FALSE

\* an item of any type and of a value that str_buf can hold: it is what is then at current
AddWord ==
    /\ current \in DOMAIN buffer' /\ IsItem(buffer'[current])
    /\ AddItem(buffer'[current])

Begin == StartExpression /\ open' = TRUE
Continue ==
    /\ open /\ Room
    /\ OpenList \/ CloseList \/ AddWord
    /\ UNCHANGED open
Complete == open /\ Room /\ CloseExpression /\ open' = FALSE

\* refused, or lost
GiveUp == open /\ open' = FALSE /\ UNCHANGED reading

NextLayout == Begin \/ Continue \/ Complete \/ GiveUp

LayoutSpec == InitLayout /\ [][NextLayout]_<<reading, open>>

\* no list is empty: () is a header that the next item of the list around it gets as well
NoEmptyList == [][~(CloseList /\ last[depth] = NoItem)]_reading
=============================================================================
