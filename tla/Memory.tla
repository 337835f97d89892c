-------------------------------- MODULE Memory --------------------------------
(***************************************************************************)
(* What scripts do with the memory of data_alloc: they define variables    *)
(* and store into them, are stopped at any point, and are started again    *)
(* wherever free_data then stands.  The builtins of lio_references.c are   *)
(* made of these steps; what is evaluated between two of them is left      *)
(* open.  Scripts define numbers, texts and functions, and store within    *)
(* the length of their variables: setvar does not compare the index with   *)
(* it, and an item of another type gets no memory.  Names are not longer   *)
(* than a header.                                                          *)
(***************************************************************************)
EXTENDS References

CONSTANT Symbols    \* that names are made of

Names == {name \in Seq(Symbols) : NameSize(name) <= HeaderSize}
Lengths == Nat      \* of arrays and strings
Values == Nat       \* numbers, and codes of characters
Texts == Seq(Nat)   \* codes of strings

VARIABLE defined    \* history: the headers of this run, each with its two blocks

Init == references = NoReferences /\ defined = {}

Types == {"string", "uint16", "list"}
SizeOf(type) == CASE type = "string" -> 1 [] type = "uint16" -> 2 [] type = "list" -> 0

Define(name, type, length) ==
    LET size  == HeaderSize + length * SizeOf(type)
        named == Allocate(references, NameSize(name))
        new   == DefineVariable(references, name, type, length, SizeOf(type), <<>>)
    IN  /\ references' = new.st
        /\ defined' = IF new.ref = Null THEN defined
                      ELSE defined \cup {[ref   |-> new.ref,
                                          name  |-> NewBlock(references.heap, NameSize(name)),
                                          whole |-> NewBlock(named.heap, size)]}

\* a number of an array, defvar's as well as setvar's
StoreNumber(d, index, n) ==
    /\ d.ref.type = "uint16" /\ InRange(d.ref, index)
    /\ references' = PokeNumber(references, DataOf(d.ref) + 2 * index, n)
    /\ UNCHANGED defined
StoreCharacter(d, index, n) ==
    /\ d.ref.type = "string" /\ InRange(d.ref, index)
    /\ references' = PokeText(references, DataOf(d.ref) + index, <<n>>)
    /\ UNCHANGED defined
StoreText(d, codes) ==
    /\ d.ref.type = "string"
    /\ references' = PokeString(references, d.ref, codes)
    /\ UNCHANGED defined

\* defvar links the header when the values are stored
Link(d) ==
    /\ d.ref \notin Range(references.refs)
    /\ references' = StoreNext(references, d.ref) /\ UNCHANGED defined

Return(type, value) ==
    references' = [references EXCEPT !.held[type] = value] /\ UNCHANGED defined

\* a mistake, or no memory: what is being evaluated is finished
Stop == references' = Stopped(references) /\ UNCHANGED defined

Start ==
    /\ references' = [Stopped(references) EXCEPT !.stopped = FALSE, !.held = NoReferences.held]
    /\ defined' = {}

Next ==
    \/ \E name \in Names, type \in Types, length \in Lengths : Define(name, type, length)
    \/ \E d \in defined, n \in Values : \E index \in 0..(d.ref.length - 1) :
           StoreNumber(d, index, n) \/ StoreCharacter(d, index, n)
    \/ \E d \in defined, codes \in Texts : StoreText(d, codes)
    \/ \E d \in defined : Link(d)
    \/ \E type \in DOMAIN references.held, value \in Values : Return(type, value)
    \/ Stop \/ Start

Spec == Init /\ [][Next]_<<references, defined>>
=============================================================================
