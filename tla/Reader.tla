-------------------------------- MODULE Reader --------------------------------
(***************************************************************************)
(* The reader of lio.c: next_token takes the text apart, next_expression   *)
(* gives words their types and lays them out in the buffer.  One action is *)
(* one turn of the loop of next_expression, with the token it reads.       *)
(***************************************************************************)
EXTENDS Evaluator, Buffer

CONSTANT BuiltinNames     \* builtin_names, each a word

Comments == {"#", ";"}
Blanks == {" ", "\n"}
Parens == {"(", ")"}

VARIABLES text, position   \* the source of characters, and what is read of it

-----------------------------------------------------------------------------
(***************************************************************************)
(* next_token from a position: the word, and where reading goes on.  A     *)
(* comment does not end a word that was begun before it, and a word that   *)
(* the end of the text ends is not returned.  A word is put into str_buf   *)
(* with a 0 behind it, whatever its length: tmp_len is not looked at.      *)
(***************************************************************************)
Token(word, end) == [found |-> TRUE, word |-> word, end |-> end, bytes |-> Len(word) + 1]
Exhausted(s, begun) ==
    [found |-> FALSE, word |-> begun, end |-> Len(s) + 1, bytes |-> Len(begun) + 1]

\* the first place from p of which something holds, or the end
FirstFrom(s, p, Is(_)) ==
    LET at == {i \in p..Len(s) : Is(i)}
    IN  IF at = {} THEN Len(s) + 1 ELSE CHOOSE i \in at : \A j \in at : i <= j

\* a quotation, to its end or that of the source, which has a 0 of its own
QuoteEndPlain(s, p) ==   \* mutant: the backslash is not looked at
    FirstFrom(s, p + 1, LAMBDA i : s[i] = Quote)
QuoteEnd(s, p) == FirstFrom(s, p + 1, LAMBDA i : s[i] = Quote /\ s[i - 1] # "\\")
Quotation(s, p) ==
    LET end == QuoteEnd(s, p)
    IN  IF end <= Len(s) THEN Token(SubSeq(s, p, end), end + 1)
        ELSE [Token(SubSeq(s, p, Len(s)), end) EXCEPT !.bytes = @ + 1]

RECURSIVE Scan(_, _, _)
Scan(s, p, begun) ==
    IF p > Len(s) THEN Exhausted(s, begun)
    ELSE CASE s[p] \in Comments ->
                Scan(s, FirstFrom(s, p, LAMBDA i : s[i] = "\n") + 1, begun)
           [] s[p] \in Blanks /\ begun = <<>> -> Scan(s, p + 1, begun)
           [] s[p] \in Blanks /\ begun # <<>> -> Token(begun, p + 1)
           [] s[p] \in Parens \cup {Quote} /\ begun # <<>> -> Token(begun, p)
           [] s[p] \in Parens /\ begun = <<>> -> Token(<<s[p]>>, p + 1)
           [] s[p] = Quote /\ begun = <<>> -> Quotation(s, p)
           [] OTHER -> Scan(s, p + 1, Append(begun, s[p]))

NextToken == Scan(text, position, <<>>)

\* what is longer than str_buf is written behind it
InStrBuf(token) == token.bytes <= STRBUFSIZE

-----------------------------------------------------------------------------
\* resolve_reference, and the types of words; a string loses its last character
Typed(word, st) ==
    CASE Lookup(st, word) # Null -> Item("variable", Lookup(st, word))
      [] Lookup(st, word) = Null /\ word \in BuiltinNames -> Item("function", word[1])
      [] Lookup(st, word) = Null /\ word \notin BuiltinNames ->
           CASE word[1] = Quote -> Item("string", SubSeq(word, 2, Len(word) - 1))
             [] word[1] # Quote /\ NumberIn(word) # -1 ->
                  Item(IF NumberIn(word) < Byte THEN "uint8" ELSE "uint16", NumberIn(word))
             [] OTHER -> Item("atom", word)

MisplacedNever(token, st) == FALSE     \* mutant: any word may begin a list
Misplaced(token, st) ==
    first_in_list /\ Typed(token.word, st).type \notin {"variable", "function"}

\* one turn of the loop: a list begins or ends, or a word is added
Turn(token, st) ==
    \/ token.word = <<"(">> /\ OpenList
    \/ token.word = <<")">> /\ CloseList
    \/ token.word[1] \notin Parens /\ ~Misplaced(token, st) /\ AddItem(Typed(token.word, st))

\* no room, nothing more to read, or no function at the start of a list
Refused(token, st) ==
    \/ ~Room
    \/ /\ InStrBuf(token)
       /\ \/ ~token.found
          \/ token.found /\ token.word = <<"(">> /\ Reaches(AList)
          \/ token.found /\ token.word[1] \notin Parens /\ Misplaced(token, st)

\* a list for which last has no place; the test for it comes after the write, so no list is
\* refused for its depth
TooDeep(token) == token.word = <<"(">> /\ depth = MAXDEPTH - 1 /\ ~Reaches(AList)

-----------------------------------------------------------------------------
\* first and rest: the items of the list at an address
RECURSIVE Items(_, _)
Items(b, a) ==
    LET item == IF b[a].type = "list" THEN Item("list", Items(b, a + LISTITEM_SIZE))
                                      ELSE Item(b[a].type, b[a].value)
    IN  <<item>> \o (IF b[a].rest = 0 THEN <<>> ELSE Items(b, a + b[a].rest))

\* list_size, item_size
RECURSIVE ListSize(_)
ListSize(items) ==
    FoldLeft(LAMBDA size, item : size + LISTITEM_SIZE
                                 + (IF item.type = "list" THEN ListSize(item.value)
                                    ELSE ValueSize(item)), 0, items)
=============================================================================
