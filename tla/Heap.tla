--------------------------------- MODULE Heap ---------------------------------
(***************************************************************************)
(* data_alloc of util.c: blocks are taken one behind the other, and their  *)
(* memory comes back only when a stop of lio drops all that points to it.  *)
(* The position free_data has 8 bits, so it wraps before DATASIZE.  Used   *)
(* by variables, conditions and device handlers.                           *)
(***************************************************************************)
EXTENDS Integers

CONSTANTS
    DATASIZE,       \* bytes of data[]
    Position        \* values of free_data

ASSUME HeapAssumption ==
    /\ DATASIZE \in Nat /\ Position \in Nat
    /\ 0 < Position /\ Position <= DATASIZE /\ DATASIZE < 2 * Position

(***************************************************************************)
(* A heap: free_data; the blocks in use, each with what had been taken     *)
(* before it since the last stop; and how much has been taken.             *)
(***************************************************************************)
Block == [at : Nat, size : Nat, before : Nat]
Heaps == [free : 0..(Position - 1), blocks : SUBSET Block, taken : Nat]

\* what the uint8_t is after it has moved on
Wrap(n) == IF n >= Position THEN n - Position ELSE n

Fits(heap, size) == heap.free + size <= DATASIZE

NewBlock(heap, size) == [at |-> heap.free, size |-> size, before |-> heap.taken]

\* data_alloc, when the block fits; else it stops lio
DataAlloc(heap, size) ==
    [free   |-> Wrap(heap.free + size),
     blocks |-> heap.blocks \cup {NewBlock(heap, size)},
     taken  |-> heap.taken + size]

\* references_clear, conditions_clear, device_handlers_clear: free_data stays
Cleared(heap) == [heap EXCEPT !.blocks = {}, !.taken = 0]

Apart(b, c) == b.at + b.size <= c.at \/ c.at + c.size <= b.at

(***************************************************************************)
(* The memory of what a run keeps is its own, wherever in data[] the run   *)
(* has begun, as long as it takes no more than free_data can tell apart:   *)
(* data_alloc has no way to see that it hands out memory in use.           *)
(***************************************************************************)
BlocksApart(heap) ==
    heap.taken <= Position => \A b, c \in heap.blocks : b = c \/ Apart(b, c)
=============================================================================
