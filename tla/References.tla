------------------------------ MODULE References ------------------------------
(***************************************************************************)
(* lio_references.c: variables, constants and functions of scripts, in     *)
(* memory from data_alloc.  A store of references is                       *)
(*   heap     the allocator                                                *)
(*   ram      the cells of data[]: a byte, or a part of a name or header   *)
(*   refs     the list `references`, as the headers that it links          *)
(*   stopped  lio_stopped                                                  *)
(*   held     the values in the three items that functions return          *)
(* Functions are stored in flash: a header has their expressions.          *)
(***************************************************************************)
EXTENDS Heap, Sequences, SequencesExt

CONSTANTS
    Byte,           \* 256: a number has two bytes
    HeaderSize,     \* sizeof(reference)
    Alphabet        \* the characters of strings; the code of a character is its place

ASSUME ReferencesAssumption == HeaderSize \in Nat \ {0}

VARIABLE references

Word == Byte * Byte
NUL == 0
Code(c) == SelectInSeq(Alphabet, LAMBDA x : x = c)
Codes(s) == [i \in DOMAIN s |-> Code(s[i])]
Chars(codes) == [i \in DOMAIN codes |-> Alphabet[codes[i]]]

Data(n) == <<"data", n>>
NameCell(word) == <<"name", word>>
HeaderCell(ref) == <<"ref", ref>>

Null == [name |-> <<>>]
NoReferences == [heap |-> [free |-> 0, blocks |-> {}, taken |-> 0],
                 ram |-> [a \in 0..(DATASIZE - 1) |-> Data(0)],
                 refs |-> <<>>, stopped |-> FALSE,
                 held |-> [uint8 |-> 0, uint16 |-> 0, string |-> <<>>]]

\* a store to memory; past the end of data[] it changes other variables of the firmware
Poke(st, at, cells) ==
    [st EXCEPT !.ram = [a \in DOMAIN @ |-> IF a \in at..(at + Len(cells) - 1)
                                           THEN cells[a - at + 1] ELSE @[a]]]
\* a byte of data[]; a cell that is no byte is some byte
Peek(st, a) == IF a < DATASIZE /\ st.ram[a][1] = "data" THEN st.ram[a][2] ELSE NUL

Low(n) == n % Byte
High(n) == n \div Byte
PokeNumber(st, at, n) == Poke(st, at, <<Data(Low(n)), Data(High(n))>>)
PeekNumber(st, at) == Peek(st, at) + Byte * Peek(st, at + 1)
PokeText(st, at, codes) == Poke(st, at, [i \in DOMAIN codes |-> Data(codes[i])])

\* lio_stop
Stopped(st) == [st EXCEPT !.stopped = TRUE, !.refs = <<>>, !.heap = Cleared(@)]

-----------------------------------------------------------------------------
\* define_variable: a block for the name, one for the header and the data behind it
DataOf(ref) == ref.at + HeaderSize

Allocate(st, size) ==
    IF Fits(st.heap, size) THEN [st EXCEPT !.heap = DataAlloc(@, size)] ELSE Stopped(st)

NameSizeBare(name) == Len(name)     \* mutant: without its NUL
NameSize(name) == Len(name) + 1

\* A name whose block does not fit stops lio; no name here is longer than a header.
DefineVariable(st, name, type, length, size, body) ==
    LET named == Allocate(st, NameSize(name))
        whole == Allocate(named, HeaderSize + length * size)
        ref   == [name |-> name, name_at |-> st.heap.free, at |-> named.heap.free,
                  type |-> type, length |-> length, body |-> body]
        fits  == Fits(st.heap, NameSize(name)) /\ Fits(named.heap, HeaderSize + length * size)
    IN  IF ~fits THEN [st |-> whole, ref |-> Null]
        ELSE [ref |-> ref,
              st  |-> Poke(Poke(whole, ref.name_at,
                                [i \in 1..(Len(name) + 1) |-> NameCell(name)]),
                           ref.at, [i \in 1..HeaderSize |-> HeaderCell(ref)])]

\* store_next: behind the last one
StoreNext(st, ref) == [st EXCEPT !.refs = Append(@, ref)]

\* get_variable_by_name: the first of that name
Lookup(st, name) ==
    LET i == SelectInSeq(st.refs, LAMBDA r : r.name = name)
    IN  IF i = 0 THEN Null ELSE st.refs[i]

\* a string of a variable: to its NUL
TextAt(st, at, length) ==
    LET codes == [i \in 1..length |-> Peek(st, at + i - 1)]
        nul   == SelectInSeq(codes, LAMBDA c : c = NUL)
    IN  Chars(SubSeq(codes, 1, IF nul = 0 THEN length ELSE nul - 1))

\* strncpy: padded with NULs, and cut
Padded(codes, length) ==
    [i \in 1..length |-> IF i <= Len(codes) THEN codes[i] ELSE NUL]
PokeString(st, ref, codes) ==
    PokeText(st, DataOf(ref), [Padded(codes, ref.length) EXCEPT ![ref.length] = NUL])

InRange(ref, index) == index < ref.length

-----------------------------------------------------------------------------
\* Each header and name of the list is in memory as it was written.
Intact(st) ==
    \A i \in DOMAIN st.refs : LET r == st.refs[i] IN
        /\ \A a \in r.at..(r.at + HeaderSize - 1) : st.ram[a] = HeaderCell(r)
        /\ \A a \in r.name_at..(r.name_at + Len(r.name)) : st.ram[a] = NameCell(r.name)

(***************************************************************************)
(* Until it is stopped, a script finds its variables where they are: no    *)
(* name or header is in the memory of another, however they are defined    *)
(* and stored to, and wherever free_data was left by the scripts before.   *)
(* (What is defined while a stopped script is finished is never found.)    *)
(***************************************************************************)
MemoryApart ==
    ~references.stopped /\ references.heap.taken <= Position =>
        BlocksApart(references.heap) /\ Intact(references)
=============================================================================
