----------------------------- MODULE Memory_proofs ------------------------------
(***************************************************************************)
(* The memory of scripts, for scripts of any length and texts of any kind: *)
(* the blocks of data_alloc, the variables in them, and the buffer that    *)
(* expressions are read into.                                              *)
(***************************************************************************)
EXTENDS Memory, Layout, SequenceTheorems, TLAPS

(***************************************************************************)
(* Blocks, for any sequence of data_alloc and lio_stop: those since a stop *)
(* lie one behind the other from where that stop found free_data, around   *)
(* the end of its values, so they meet only when more has been taken than  *)
(* those values tell apart.                                                *)
(***************************************************************************)
VARIABLE heap

InitHeap == heap = [free |-> 0, blocks |-> {}, taken |-> 0]
TakeBlock == \E size \in Nat : Fits(heap, size) /\ heap' = DataAlloc(heap, size)
DropBlocks == heap' = Cleared(heap)
NextHeap == TakeBlock \/ DropBlocks
HeapSpec == InitHeap /\ [][NextHeap]_heap

-----------------------------------------------------------------------------
\* a place that is a distance behind where the run has begun
Behind(start, distance, at) ==
    at \in 0..(Position - 1) /\ (at = start + distance \/ at = start + distance - Position)

InOrder(b, c) == b.before + b.size <= c.before \/ c.before + c.size <= b.before

PlacedFrom(h, start) ==
    /\ start \in 0..(Position - 1)
    /\ Behind(start, h.taken, h.free)
    /\ \A b \in h.blocks :
           Behind(start, b.before, b.at) /\ b.before + b.size <= h.taken
    /\ \A b, c \in h.blocks : b = c \/ InOrder(b, c)

HeapInv(h) ==
    h \in Heaps /\ (h.taken <= Position => \E start \in Nat : PlacedFrom(h, start))

(***************************************************************************)
(* A block in front of which less was taken ends before the next one, or   *)
(* that one has wrapped and ends before the start of the run.              *)
(***************************************************************************)
LEMMA OrderedApart ==
    ASSUME NEW start \in 0..(Position - 1), NEW taken \in 0..Position,
           NEW b \in Block, NEW c \in Block,
           Behind(start, b.before, b.at), Behind(start, c.before, c.at),
           b.before + b.size <= c.before, c.before + c.size <= taken
    PROVE  Apart(b, c)
BY HeapAssumption DEF Behind, Apart, Block

(***************************************************************************)
(* Blocks that lie behind each other from a start are apart, up to as much *)
(* as free_data tells apart.                                               *)
(***************************************************************************)
LEMMA PlacedApart ==
    ASSUME NEW h, HeapInv(h)
    PROVE  BlocksApart(h)
<1>1. SUFFICES ASSUME h.taken <= Position, NEW b \in h.blocks, NEW c \in h.blocks, b # c
               PROVE  Apart(b, c)
  BY DEF BlocksApart
<1>2. PICK start \in Nat : PlacedFrom(h, start)
  BY <1>1 DEF HeapInv
<1>3. /\ b \in Block /\ c \in Block
      /\ start \in 0..(Position - 1) /\ h.taken \in 0..Position
  BY <1>1, <1>2, HeapAssumption DEF HeapInv, Heaps, PlacedFrom
<1>4. /\ Behind(start, b.before, b.at) /\ Behind(start, c.before, c.at)
      /\ b.before + b.size <= h.taken /\ c.before + c.size <= h.taken
      /\ InOrder(b, c)
  BY <1>1, <1>2 DEF PlacedFrom
<1>5. CASE b.before + b.size <= c.before
  BY <1>3, <1>4, <1>5, OrderedApart
<1>6. CASE c.before + c.size <= b.before
  <2>1. Apart(c, b)
    BY <1>3, <1>4, <1>6, OrderedApart
  <2> QED BY <2>1 DEF Apart
<1> QED BY <1>4, <1>5, <1>6 DEF InOrder

(***************************************************************************)
(* data_alloc puts a block behind the others; free_data wraps once.        *)
(***************************************************************************)
LEMMA AllocKeeps ==
    ASSUME NEW h, HeapInv(h), NEW size \in Nat, Fits(h, size)
    PROVE  HeapInv(DataAlloc(h, size))
<1> DEFINE g == DataAlloc(h, size)
           new == NewBlock(h, size)
<1>1. /\ h.free \in 0..(Position - 1) /\ h.taken \in Nat /\ h.blocks \subseteq Block
      /\ h.free + size <= DATASIZE
  BY DEF HeapInv, Heaps, Fits
<1>2. /\ g.free = Wrap(h.free + size) /\ g.taken = h.taken + size
      /\ g.blocks = h.blocks \cup {new}
      /\ new.at = h.free /\ new.size = size /\ new.before = h.taken
  BY DEF DataAlloc, NewBlock
<1>3. Wrap(h.free + size) \in 0..(Position - 1)
  BY <1>1, HeapAssumption DEF Wrap
<1>4. new \in Block
  BY <1>1, HeapAssumption DEF NewBlock, Block
<1>5. g \in Heaps
  BY <1>1, <1>3, <1>4 DEF DataAlloc, Heaps
<1>6. SUFFICES ASSUME g.taken <= Position
               PROVE  \E start \in Nat : PlacedFrom(g, start)
  BY <1>5 DEF HeapInv
<1>7. h.taken <= Position
  BY <1>1, <1>2, <1>6, HeapAssumption
<1>8. PICK start \in Nat : PlacedFrom(h, start)
  BY <1>7 DEF HeapInv
<1>9. /\ start \in 0..(Position - 1) /\ Behind(start, h.taken, h.free)
      /\ \A b \in h.blocks : Behind(start, b.before, b.at) /\ b.before + b.size <= h.taken
      /\ \A b, c \in h.blocks : b = c \/ InOrder(b, c)
  BY <1>8 DEF PlacedFrom
<1>10. Behind(start, g.taken, g.free)
  <2>1. g.free \in 0..(Position - 1)
    BY <1>2, <1>3
  <2>2. h.free = start + h.taken \/ h.free = start + h.taken - Position
    BY <1>9 DEF Behind
  <2>3. g.taken <= Position /\ g.taken = h.taken + size /\ start \in 0..(Position - 1)
    BY <1>2, <1>6, <1>9
  <2>4. g.free = h.free + size \/ g.free = h.free + size - Position
    BY <1>1, <1>2, HeapAssumption DEF Wrap
  <2>5. g.free = start + g.taken \/ g.free = start + g.taken - Position
    BY <1>1, <2>1, <2>2, <2>3, <2>4, HeapAssumption
  <2> QED BY <2>1, <2>5 DEF Behind
<1>11. ASSUME NEW b \in g.blocks
       PROVE  Behind(start, b.before, b.at) /\ b.before + b.size <= g.taken
  <2>1. CASE b = new
    BY <2>1, <1>1, <1>2, <1>9
  <2>2. CASE b \in h.blocks
    <3>1. b.before \in Nat /\ b.size \in Nat
      BY <1>1, <2>2 DEF Block
    <3> QED BY <3>1, <2>2, <1>1, <1>2, <1>9
  <2> QED BY <1>2, <1>11, <2>1, <2>2
<1>12. ASSUME NEW b \in h.blocks
       PROVE  InOrder(b, new) /\ InOrder(new, b)
  BY <1>2, <1>9 DEF InOrder
<1>13. \A b, c \in g.blocks : b = c \/ InOrder(b, c)
  BY <1>2, <1>9, <1>12
<1> QED BY <1>8, <1>9, <1>10, <1>11, <1>13 DEF PlacedFrom

(***************************************************************************)
(* A stop drops all blocks; the next run begins where free_data is.        *)
(***************************************************************************)
LEMMA ClearKeeps ==
    ASSUME NEW h, HeapInv(h)
    PROVE  HeapInv(Cleared(h))
<1> DEFINE g == Cleared(h)
<1>1. g.blocks = {} /\ g.taken = 0 /\ g.free = h.free /\ g \in Heaps
  BY DEF HeapInv, Heaps, Cleared
<1>2. h.free \in 0..(Position - 1)
  BY DEF HeapInv, Heaps
<1>3. Behind(h.free, g.taken, g.free)
  BY <1>1, <1>2, HeapAssumption DEF Behind
<1>4. PlacedFrom(g, h.free) /\ h.free \in Nat
  BY <1>1, <1>2, <1>3, HeapAssumption DEF PlacedFrom
<1> QED BY <1>1, <1>4 DEF HeapInv

LEMMA FirstHeap == HeapInv([free |-> 0, blocks |-> {}, taken |-> 0])
<1> DEFINE h == [free |-> 0, blocks |-> {}, taken |-> 0]
<1>1. h \in Heaps /\ h.taken = 0 /\ h.free = 0 /\ h.blocks = {}
  BY HeapAssumption DEF Heaps
<1>2. PlacedFrom(h, 0)
  BY <1>1, HeapAssumption DEF PlacedFrom, Behind
<1> QED BY <1>1, <1>2 DEF HeapInv

(***************************************************************************)
(* However often scripts were stopped and started, the blocks of the one   *)
(* that runs do not meet while it takes no more than free_data tells       *)
(* apart: a wrapped block never reaches one of the same run.               *)
(***************************************************************************)
THEOREM RunsKeepTheirMemory == HeapSpec => []BlocksApart(heap)
<1>1. InitHeap => HeapInv(heap)
  BY FirstHeap DEF InitHeap
<1>2. HeapInv(heap) /\ [NextHeap]_heap => HeapInv(heap)'
  <2> SUFFICES ASSUME HeapInv(heap), [NextHeap]_heap PROVE HeapInv(heap')
    BY DEF HeapInv, Heaps, PlacedFrom, Behind, InOrder
  <2>1. CASE TakeBlock
    BY <2>1, AllocKeeps DEF TakeBlock
  <2>2. CASE DropBlocks
    BY <2>2, ClearKeeps DEF DropBlocks
  <2>3. CASE UNCHANGED heap
    BY <2>3
  <2> QED BY <2>1, <2>2, <2>3 DEF NextHeap
<1>3. HeapInv(heap) => BlocksApart(heap)
  BY PlacedApart
<1> QED BY <1>1, <1>2, <1>3, PTL DEF HeapSpec

-----------------------------------------------------------------------------
(***************************************************************************)
(* Variables: each has its two blocks, no block has two, and what is       *)
(* written in them is their name and header.                               *)
(***************************************************************************)
\* What the names and values of scripts are.
LEMMA MemoryBounds ==
    /\ HeaderSize \in Nat \ {0}
    /\ \A name \in Names : Len(name) \in Nat /\ NameSize(name) <= HeaderSize
    /\ Lengths \subseteq Nat /\ Values \subseteq Nat
  BY ReferencesAssumption, LenProperties DEF Names, Lengths, Values

IsStore(st) ==
    st = [heap |-> st.heap, ram |-> st.ram, refs |-> st.refs, stopped |-> st.stopped,
          held |-> st.held]

Home(heap_, d) ==
    /\ d.name \in heap_.blocks /\ d.whole \in heap_.blocks
    /\ d.ref.name_at = d.name.at /\ d.name.size = NameSize(d.ref.name)
    /\ d.ref.at = d.whole.at /\ d.whole.size = HeaderSize + d.ref.length * SizeOf(d.ref.type)
    /\ d.ref.length \in Nat /\ d.ref.type \in Types /\ Len(d.ref.name) \in Nat
HasHeader(ram, d) == \A a \in d.ref.at..(d.ref.at + HeaderSize - 1) : ram[a] = HeaderCell(d.ref)
HasName(ram, d) ==
    \A a \in d.ref.name_at..(d.ref.name_at + Len(d.ref.name)) : ram[a] = NameCell(d.ref.name)

Kept ==
    /\ \A d \in defined : /\ Home(references.heap, d)
                          /\ HasHeader(references.ram, d) /\ HasName(references.ram, d)
    /\ \A d, e \in defined : d.name # e.whole
    /\ \A d, e \in defined : d # e => d.name # e.name /\ d.whole # e.whole
    /\ references.refs \in Seq({d.ref : d \in defined})

InData(h) == \A b \in h.blocks : b.size > 0 /\ b.at + b.size <= DATASIZE

MemoryInv ==
    /\ IsStore(references) /\ HeapInv(references.heap) /\ InData(references.heap)
    /\ DOMAIN references.ram = 0..(DATASIZE - 1)
    /\ ~references.stopped /\ references.heap.taken <= Position => Kept

-----------------------------------------------------------------------------
LEMMA PokeIs ==
    ASSUME NEW st, IsStore(st), NEW at, NEW cells
    PROVE  LET g == Poke(st, at, cells)
           IN  /\ IsStore(g) /\ g.heap = st.heap /\ g.refs = st.refs /\ g.stopped = st.stopped
               /\ DOMAIN g.ram = DOMAIN st.ram
               /\ \A a \in DOMAIN st.ram :
                      g.ram[a] = IF a \in at..(at + Len(cells) - 1) THEN cells[a - at + 1]
                                                                    ELSE st.ram[a]
<1> DEFINE new == [a \in DOMAIN st.ram |-> IF a \in at..(at + Len(cells) - 1)
                                           THEN cells[a - at + 1] ELSE st.ram[a]]
<1>1. Poke(st, at, cells) = [st EXCEPT !.ram = new]
  BY DEF Poke
<1> HIDE DEF new
<1>2. [st EXCEPT !.ram = new]
         = [heap |-> st.heap, ram |-> new, refs |-> st.refs, stopped |-> st.stopped, held |-> st.held]
  BY DEF IsStore
<1>3. /\ IsStore(Poke(st, at, cells)) /\ Poke(st, at, cells).ram = new
      /\ Poke(st, at, cells).heap = st.heap
      /\ Poke(st, at, cells).refs = st.refs /\ Poke(st, at, cells).stopped = st.stopped
  BY <1>1, <1>2 DEF IsStore
<1> QED BY <1>3 DEF new

LEMMA StopIs ==
    ASSUME NEW st, IsStore(st)
    PROVE  /\ IsStore(Stopped(st)) /\ Stopped(st).heap = Cleared(st.heap)
           /\ Stopped(st).stopped = TRUE /\ Stopped(st).refs = <<>> /\ Stopped(st).ram = st.ram
           /\ Stopped(st).held = st.held
<1> DEFINE h == Cleared(st.heap)
           none == <<>>
<1>1. Stopped(st) = [st EXCEPT !.stopped = TRUE, !.refs = none, !.heap = h]
  BY DEF Stopped
<1> HIDE DEF h, none
<1>2. Stopped(st) = [heap |-> h, ram |-> st.ram, refs |-> none, stopped |-> TRUE,
                     held |-> st.held]
  BY <1>1 DEF IsStore
<1>3. /\ IsStore(Stopped(st)) /\ Stopped(st).heap = h
      /\ Stopped(st).stopped = TRUE /\ Stopped(st).refs = none /\ Stopped(st).ram = st.ram
      /\ Stopped(st).held = st.held
  BY <1>2 DEF IsStore
<1> QED BY <1>3 DEF h, none

\* data_alloc: the block is new, or lio is stopped.
LEMMA AllocateIs ==
    ASSUME NEW st, IsStore(st), HeapInv(st.heap), InData(st.heap), NEW size \in Nat \ {0}
    PROVE  LET g == Allocate(st, size)
           IN  /\ IsStore(g) /\ HeapInv(g.heap) /\ InData(g.heap) /\ g.ram = st.ram
               /\ IF Fits(st.heap, size)
                  THEN /\ g.heap = DataAlloc(st.heap, size)
                       /\ g.refs = st.refs /\ g.stopped = st.stopped
                  ELSE g.stopped = TRUE /\ g.refs = <<>>
<1>1. CASE Fits(st.heap, size)
  <2>1. Allocate(st, size) = [heap |-> DataAlloc(st.heap, size), ram |-> st.ram,
                              refs |-> st.refs, stopped |-> st.stopped, held |-> st.held]
    BY <1>1 DEF Allocate, IsStore
  <2>2. HeapInv(DataAlloc(st.heap, size))
    BY <1>1, AllocKeeps
  <2>3. InData(DataAlloc(st.heap, size))
    <3>1. /\ DataAlloc(st.heap, size).blocks = st.heap.blocks \cup {NewBlock(st.heap, size)}
          /\ NewBlock(st.heap, size).at = st.heap.free /\ NewBlock(st.heap, size).size = size
      BY DEF DataAlloc, NewBlock
    <3> QED BY <1>1, <3>1 DEF InData, Fits
  <2>4. IsStore(Allocate(st, size)) /\ Allocate(st, size).heap = DataAlloc(st.heap, size)
        /\ Allocate(st, size).ram = st.ram /\ Allocate(st, size).refs = st.refs
        /\ Allocate(st, size).stopped = st.stopped
    BY <2>1 DEF IsStore
  <2> QED BY <1>1, <2>2, <2>3, <2>4
<1>2. CASE ~Fits(st.heap, size)
  <2>1. Allocate(st, size) = Stopped(st)
    BY <1>2 DEF Allocate
  <2>2. HeapInv(Cleared(st.heap)) /\ InData(Cleared(st.heap))
    BY ClearKeeps DEF Cleared, InData, HeapInv, Heaps
  <2> QED BY <1>2, <2>1, <2>2, StopIs
<1> QED BY <1>1, <1>2

LEMMA LenIs == ASSUME NEW n \in Nat, NEW f, f = [i \in 1..n |-> f[i]] PROVE Len(f) = n
<1> DEFINE S == {f[i] : i \in 1..n}
<1>1. f \in [1..n -> S]
  OBVIOUS
<1>2. f \in Seq(S)
  BY <1>1
<1>3. 1..Len(f) = 1..n /\ Len(f) \in Nat
  BY <1>1, <1>2, LenProperties
<1> QED BY <1>3

\* What is stored in one of two blocks is not in the other.
LEMMA Outside ==
    ASSUME NEW a \in Nat, NEW at \in Nat, NEW size \in Nat,
           NEW p \in Nat, NEW q \in Nat, NEW m \in Nat, NEW n \in Nat,
           p + q <= m \/ m + n <= p, a >= p, a < p + q, at >= m, at + size <= m + n
    PROVE  a \notin at..(at + size - 1)
  OBVIOUS

\* What is in one of two blocks is not in the other.
LEMMA Beyond ==
    ASSUME NEW a \in Nat, NEW p \in Nat, NEW q \in Nat, NEW m \in Nat, NEW n \in Nat,
           p + q <= m \/ m + n <= p, a >= p, a < p + q
    PROVE  a \notin m..(m + n - 1)
  OBVIOUS

\* Where a variable is.
LEMMA HomeIs ==
    ASSUME NEW h, HeapInv(h), InData(h), NEW d, Home(h, d)
    PROVE  /\ d.ref.at \in Nat /\ d.ref.name_at \in Nat /\ HeaderSize \in Nat \ {0}
           /\ d.name \in Block /\ d.whole \in Block
           /\ d.whole.size \in Nat /\ d.whole.size >= HeaderSize
           /\ \A a \in d.ref.at..(d.ref.at + HeaderSize - 1) :
                  a \in 0..(DATASIZE - 1) /\ a >= d.whole.at /\ a < d.whole.at + d.whole.size
           /\ \A a \in d.ref.name_at..(d.ref.name_at + Len(d.ref.name)) :
                  a \in 0..(DATASIZE - 1) /\ a >= d.name.at /\ a < d.name.at + d.name.size
<1>1. /\ d.name \in h.blocks /\ d.whole \in h.blocks
      /\ d.ref.name_at = d.name.at /\ d.name.size = Len(d.ref.name) + 1
      /\ d.ref.at = d.whole.at /\ d.whole.size = HeaderSize + d.ref.length * SizeOf(d.ref.type)
      /\ d.ref.length \in Nat /\ d.ref.type \in Types /\ Len(d.ref.name) \in Nat
  BY DEF Home, NameSize
<1>2. /\ d.name \in Block /\ d.whole \in Block
      /\ d.name.at \in Nat /\ d.whole.at \in Nat /\ d.name.size \in Nat /\ d.whole.size \in Nat
  BY <1>1 DEF HeapInv, Heaps, Block
<1>3. d.ref.length * SizeOf(d.ref.type) \in Nat
  <2>1. SizeOf(d.ref.type) \in {0, 1, 2}
    BY <1>1 DEF SizeOf, Types
  <2> QED BY <1>1, <2>1
<1>4. HeaderSize \in Nat \ {0} /\ d.whole.size >= HeaderSize
  BY <1>1, <1>3, MemoryBounds
<1>5. d.name.at + d.name.size <= DATASIZE /\ d.whole.at + d.whole.size <= DATASIZE
  BY <1>1 DEF InData
<1>6. DATASIZE \in Nat
  BY HeapAssumption
<1>7. ASSUME NEW a \in d.ref.at..(d.ref.at + HeaderSize - 1)
      PROVE  a \in 0..(DATASIZE - 1) /\ a >= d.whole.at /\ a < d.whole.at + d.whole.size
  BY <1>1, <1>2, <1>4, <1>5, <1>6, <1>7
<1>8. ASSUME NEW a \in d.ref.name_at..(d.ref.name_at + Len(d.ref.name))
      PROVE  a \in 0..(DATASIZE - 1) /\ a >= d.name.at /\ a < d.name.at + d.name.size
  BY <1>1, <1>2, <1>5, <1>6, <1>8
<1> QED BY <1>1, <1>2, <1>4, <1>7, <1>8

\* A store in the memory behind a header changes no name and no header.
LEMMA StoreKeeps ==
    ASSUME MemoryInv, NEW d \in defined, NEW at, NEW cells, NEW size \in Nat,
           Len(cells) = size,
           Home(references.heap, d) => /\ at \in Nat /\ at >= DataOf(d.ref)
                                       /\ at + size <= d.whole.at + d.whole.size,
           references' = Poke(references, at, cells), defined' = defined
    PROVE  MemoryInv'
<1> DEFINE ram == references.ram
           h == references.heap
<1>1. /\ IsStore(references') /\ references'.heap = h /\ references'.refs = references.refs
      /\ references'.stopped = references.stopped /\ DOMAIN references'.ram = DOMAIN ram
      /\ \A a \in DOMAIN ram :
             references'.ram[a] = IF a \in at..(at + size - 1) THEN cells[a - at + 1] ELSE ram[a]
  <2> DEFINE g == Poke(references, at, cells)
  <2>1. IsStore(references) /\ references' = g
    BY DEF MemoryInv
  <2>2. /\ IsStore(g) /\ g.heap = h /\ g.refs = references.refs
        /\ g.stopped = references.stopped /\ DOMAIN g.ram = DOMAIN ram
        /\ \A a \in DOMAIN ram :
               g.ram[a] = IF a \in at..(at + size - 1) THEN cells[a - at + 1] ELSE ram[a]
    BY <2>1, PokeIs
  <2> HIDE DEF g
  <2> QED BY <2>1, <2>2
<1>2. HeapInv(h) /\ InData(h) /\ DOMAIN ram = 0..(DATASIZE - 1)
  BY DEF MemoryInv
<1>3. ASSUME ~references.stopped, h.taken <= Position PROVE Kept'
  <2>1. Kept
    BY <1>3 DEF MemoryInv
  <2>2. Home(h, d)
    BY <2>1 DEF Kept
  <2>3. /\ at \in Nat /\ at >= DataOf(d.ref) /\ at + size <= d.whole.at + d.whole.size
        /\ at >= d.ref.at + HeaderSize
    BY <2>2 DEF DataOf
  <2>4. \A b, c \in h.blocks : b = c \/ Apart(b, c)
    BY <1>2, <1>3, PlacedApart DEF BlocksApart
  <2>5. ASSUME NEW e \in defined PROVE HasHeader(references'.ram, e) /\ HasName(references'.ram, e)
    <3>1. Home(h, e) /\ HasHeader(ram, e) /\ HasName(ram, e)
      BY <2>1 DEF Kept
    <3>2. e.name # d.whole /\ (e # d => e.whole # d.whole)
      BY <2>1 DEF Kept
    <3>3. /\ d.whole \in h.blocks /\ e.whole \in h.blocks /\ e.name \in h.blocks
          /\ d.ref.at = d.whole.at
      BY <2>2, <3>1 DEF Home
    <3>4. Apart(e.name, d.whole) /\ (e # d => Apart(e.whole, d.whole))
      BY <2>4, <3>2, <3>3
    <3>5. /\ d.whole.at \in Nat /\ e.whole.at \in Nat /\ e.name.at \in Nat
          /\ d.whole.size \in Nat /\ e.whole.size \in Nat /\ e.name.size \in Nat
          /\ HeaderSize \in Nat
      BY <1>2, <2>2, <3>1, HomeIs DEF Block
    <3>6. ASSUME NEW a \in e.ref.at..(e.ref.at + HeaderSize - 1)
          PROVE  references'.ram[a] = HeaderCell(e.ref)
      <4>1. /\ a \in DOMAIN ram /\ a >= e.whole.at /\ a < e.whole.at + e.whole.size
            /\ ram[a] = HeaderCell(e.ref)
        BY <1>2, <3>1, <3>6, HomeIs DEF HasHeader
      <4>2. a \notin at..(at + size - 1)
        <5>1. CASE e = d
          <6>1. a < d.ref.at + HeaderSize
            BY <3>3, <3>5, <3>6, <5>1
          <6> QED BY <2>3, <3>3, <3>5, <6>1, <4>1
        <5>2. CASE e # d
          <6>1. /\ e.whole.at + e.whole.size <= d.whole.at
                   \/ d.whole.at + d.whole.size <= e.whole.at
                /\ a \in Nat /\ at \in Nat
            BY <1>2, <2>3, <3>4, <4>1, <5>2, HeapAssumption DEF Apart
          <6>2. at >= d.whole.at
            BY <2>3, <3>3, <3>5
          <6> QED BY <2>3, <3>5, <4>1, <6>1, <6>2, Outside
        <5> QED BY <5>1, <5>2
      <4> QED BY <1>1, <4>1, <4>2
    <3>7. ASSUME NEW a \in e.ref.name_at..(e.ref.name_at + Len(e.ref.name))
          PROVE  references'.ram[a] = NameCell(e.ref.name)
      <4>1. /\ a \in DOMAIN ram /\ a >= e.name.at /\ a < e.name.at + e.name.size
            /\ ram[a] = NameCell(e.ref.name)
        BY <1>2, <3>1, <3>7, HomeIs DEF HasName
      <4>2. a \notin at..(at + size - 1)
        <5>1. /\ e.name.at + e.name.size <= d.whole.at
                 \/ d.whole.at + d.whole.size <= e.name.at
              /\ a \in Nat /\ at \in Nat
          BY <1>2, <2>3, <3>4, <4>1, HeapAssumption DEF Apart
        <5>2. at >= d.whole.at
          BY <2>3, <3>3, <3>5
        <5> QED BY <2>3, <3>5, <4>1, <5>1, <5>2, Outside
      <4> QED BY <1>1, <4>1, <4>2
    <3> QED BY <3>6, <3>7 DEF HasHeader, HasName
  <2> QED BY <1>1, <2>1, <2>5 DEF Kept
<1> QED BY <1>1, <1>2, <1>3 DEF MemoryInv

\* What is written at two places of memory, when one does not reach into the other.
LEMMA PokedTwice ==
    ASSUME NEW st, IsStore(st), NEW at, NEW cells, NEW to, NEW others
    PROVE  LET g == Poke(Poke(st, at, cells), to, others)
           IN  /\ IsStore(g) /\ g.heap = st.heap /\ g.refs = st.refs /\ g.stopped = st.stopped
               /\ DOMAIN g.ram = DOMAIN st.ram
               /\ \A a \in DOMAIN st.ram :
                      g.ram[a] = IF a \in to..(to + Len(others) - 1) THEN others[a - to + 1]
                                 ELSE IF a \in at..(at + Len(cells) - 1) THEN cells[a - at + 1]
                                 ELSE st.ram[a]
<1> DEFINE f == Poke(st, at, cells)
           g == Poke(f, to, others)
<1>1. /\ IsStore(f) /\ f.heap = st.heap /\ f.refs = st.refs /\ f.stopped = st.stopped
      /\ DOMAIN f.ram = DOMAIN st.ram
      /\ \A a \in DOMAIN st.ram :
             f.ram[a] = IF a \in at..(at + Len(cells) - 1) THEN cells[a - at + 1] ELSE st.ram[a]
  BY PokeIs
<1> HIDE DEF f
<1>2. /\ IsStore(g) /\ g.heap = f.heap /\ g.refs = f.refs /\ g.stopped = f.stopped
      /\ DOMAIN g.ram = DOMAIN f.ram
      /\ \A a \in DOMAIN f.ram :
             g.ram[a] = IF a \in to..(to + Len(others) - 1) THEN others[a - to + 1] ELSE f.ram[a]
  BY <1>1, PokeIs
<1> HIDE DEF g
<1>3. \A a \in DOMAIN st.ram :
          g.ram[a] = IF a \in to..(to + Len(others) - 1) THEN others[a - to + 1]
                     ELSE IF a \in at..(at + Len(cells) - 1) THEN cells[a - at + 1]
                     ELSE st.ram[a]
  BY <1>1, <1>2
<1> QED BY <1>1, <1>2, <1>3 DEF f, g

\* A definition takes two new blocks, and writes the name and the header there; or there is
\* no memory for it, and lio is stopped.
LEMMA DefineIs ==
    ASSUME MemoryInv, NEW name \in Names, NEW type \in Types, NEW length \in Lengths
    PROVE  LET h     == references.heap
               n     == NameSize(name)
               size  == HeaderSize + length * SizeOf(type)
               named == Allocate(references, n)
               ref   == [name |-> name, name_at |-> h.free, at |-> named.heap.free,
                         type |-> type, length |-> length, body |-> <<>>]
               g     == DefineVariable(references, name, type, length, SizeOf(type), <<>>)
           IN  /\ n \in Nat \ {0} /\ size \in Nat \ {0}
               /\ IsStore(named) /\ HeapInv(named.heap) /\ InData(named.heap)
               /\ IsStore(g.st) /\ HeapInv(g.st.heap) /\ InData(g.st.heap)
               /\ DOMAIN g.st.ram = 0..(DATASIZE - 1)
               /\ \/ g.st.stopped = TRUE /\ g.ref = Null
                  \/ /\ g.ref = ref /\ g.st.refs = references.refs
                     /\ g.st.stopped = references.stopped
                     /\ Fits(h, n) /\ named.heap = DataAlloc(h, n)
                     /\ g.st.heap = DataAlloc(named.heap, size)
                     /\ \A a \in DOMAIN g.st.ram :
                            g.st.ram[a] = IF a \in ref.at..(ref.at + HeaderSize - 1)
                                          THEN HeaderCell(ref)
                                          ELSE IF a \in ref.name_at..(ref.name_at + Len(name))
                                          THEN NameCell(name) ELSE references.ram[a]
<1> DEFINE h     == references.heap
           n     == NameSize(name)
           size  == HeaderSize + length * SizeOf(type)
           named == Allocate(references, n)
           whole == Allocate(named, size)
           ref   == [name |-> name, name_at |-> h.free, at |-> named.heap.free,
                     type |-> type, length |-> length, body |-> <<>>]
           words == [i \in 1..(Len(name) + 1) |-> NameCell(name)]
           heads == [i \in 1..HeaderSize |-> HeaderCell(ref)]
           g     == DefineVariable(references, name, type, length, SizeOf(type), <<>>)
<1>1. /\ IsStore(references) /\ HeapInv(h) /\ InData(h)
      /\ DOMAIN references.ram = 0..(DATASIZE - 1)
  BY DEF MemoryInv
<1>2. /\ n \in Nat \ {0} /\ n = Len(name) + 1 /\ Len(name) \in Nat /\ HeaderSize \in Nat \ {0}
  BY MemoryBounds DEF NameSize
<1>3. size \in Nat \ {0}
  <2>1. SizeOf(type) \in {0, 1, 2} /\ length \in Nat
    BY MemoryBounds DEF SizeOf, Types
  <2>2. length * SizeOf(type) \in Nat
    BY <2>1
  <2> QED BY <1>2, <2>2
<1>4. g = IF ~(Fits(h, n) /\ Fits(named.heap, size)) THEN [st |-> whole, ref |-> Null]
          ELSE [ref |-> ref, st |-> Poke(Poke(whole, ref.name_at, words), ref.at, heads)]
  BY DEF DefineVariable
<1>5. ref.at = named.heap.free /\ ref.name_at = h.free
  OBVIOUS
<1> HIDE DEF g, n, size
<1>6. /\ IsStore(named) /\ HeapInv(named.heap) /\ InData(named.heap)
      /\ named.ram = references.ram
      /\ IF Fits(h, n) THEN /\ named.heap = DataAlloc(h, n) /\ named.refs = references.refs
                            /\ named.stopped = references.stopped
         ELSE named.stopped = TRUE
  BY <1>1, <1>2, AllocateIs
<1> HIDE DEF named
<1>7. /\ IsStore(whole) /\ HeapInv(whole.heap) /\ InData(whole.heap) /\ whole.ram = named.ram
      /\ IF Fits(named.heap, size) THEN /\ whole.heap = DataAlloc(named.heap, size)
                                        /\ whole.refs = named.refs /\ whole.stopped = named.stopped
         ELSE whole.stopped = TRUE
  BY <1>3, <1>6, AllocateIs
<1> HIDE DEF whole
<1>8. CASE ~(Fits(h, n) /\ Fits(named.heap, size))
  <2>1. g.st = whole /\ g.ref = Null
    BY <1>4, <1>8
  <2>2. whole.stopped = TRUE
    BY <1>6, <1>7, <1>8
  <2> QED BY <1>1, <1>2, <1>3, <1>6, <1>7, <2>1, <2>2 DEF n, size, named, g
<1>9. CASE Fits(h, n) /\ Fits(named.heap, size)
  <2> DEFINE p == Poke(Poke(whole, ref.name_at, words), ref.at, heads)
  <2>1. g.st = p /\ g.ref = ref
    BY <1>4, <1>9
  <2>2. Len(words) = Len(name) + 1 /\ Len(heads) = HeaderSize
    BY <1>2, LenIs
  <2> HIDE DEF ref, words, heads
  <2>3. /\ IsStore(p) /\ p.heap = whole.heap /\ p.refs = whole.refs /\ p.stopped = whole.stopped
        /\ DOMAIN p.ram = DOMAIN whole.ram
        /\ \A a \in DOMAIN whole.ram :
               p.ram[a] = IF a \in ref.at..(ref.at + Len(heads) - 1) THEN heads[a - ref.at + 1]
                          ELSE IF a \in ref.name_at..(ref.name_at + Len(words) - 1)
                          THEN words[a - ref.name_at + 1] ELSE whole.ram[a]
    BY <1>7, PokedTwice
  <2> HIDE DEF p
  <2>4. ref.at \in Nat /\ ref.name_at \in Nat
    BY <1>1, <1>5, <1>6 DEF HeapInv, Heaps
  <2>5. \A a \in ref.at..(ref.at + HeaderSize - 1) : heads[a - ref.at + 1] = HeaderCell(ref)
    BY <1>2, <2>4 DEF heads
  <2>6. \A a \in ref.name_at..(ref.name_at + Len(name)) : words[a - ref.name_at + 1] = NameCell(name)
    BY <1>2, <2>4 DEF words
  <2>7. ref.name_at + Len(words) - 1 = ref.name_at + Len(name)
    BY <1>2, <2>2, <2>4
  <2>8. \A a \in DOMAIN p.ram :
            p.ram[a] = IF a \in ref.at..(ref.at + HeaderSize - 1) THEN HeaderCell(ref)
                       ELSE IF a \in ref.name_at..(ref.name_at + Len(name))
                       THEN NameCell(name) ELSE references.ram[a]
    BY <1>6, <1>7, <2>2, <2>3, <2>5, <2>6, <2>7
  <2>9. /\ named.heap = DataAlloc(h, n) /\ p.heap = DataAlloc(named.heap, size)
        /\ p.refs = references.refs /\ p.stopped = references.stopped
    BY <1>6, <1>7, <1>9, <2>3
  <2>10. IsStore(p) /\ HeapInv(p.heap) /\ InData(p.heap) /\ DOMAIN p.ram = 0..(DATASIZE - 1)
    BY <1>1, <1>6, <1>7, <2>3
  <2> HIDE DEF h
  <2> QED BY <1>2, <1>3, <1>6, <1>9, <2>1, <2>8, <2>9, <2>10 DEF n, size, named, g, ref, h
<1> QED BY <1>8, <1>9

LEMMA DefineKeeps ==
    ASSUME MemoryInv, NEW name \in Names, NEW type \in Types, NEW length \in Lengths,
           Define(name, type, length)
    PROVE  MemoryInv'
<1> DEFINE h     == references.heap
           n     == NameSize(name)
           size  == HeaderSize + length * SizeOf(type)
           named == Allocate(references, n)
           ref   == [name |-> name, name_at |-> h.free, at |-> named.heap.free,
                     type |-> type, length |-> length, body |-> <<>>]
           g     == DefineVariable(references, name, type, length, SizeOf(type), <<>>)
           nb    == NewBlock(h, n)
           wb    == NewBlock(named.heap, size)
           new   == [ref |-> g.ref, name |-> nb, whole |-> wb]
<1>1. /\ references' = g.st
      /\ defined' = IF g.ref = Null THEN defined ELSE defined \cup {new}
  BY DEF Define
<1>2. /\ n \in Nat \ {0} /\ size \in Nat \ {0}
      /\ IsStore(named) /\ HeapInv(named.heap) /\ InData(named.heap)
      /\ IsStore(g.st) /\ HeapInv(g.st.heap) /\ InData(g.st.heap)
      /\ DOMAIN g.st.ram = 0..(DATASIZE - 1)
      /\ \/ g.st.stopped = TRUE /\ g.ref = Null
         \/ /\ g.ref = ref /\ g.st.refs = references.refs
            /\ g.st.stopped = references.stopped
            /\ Fits(h, n) /\ named.heap = DataAlloc(h, n)
            /\ g.st.heap = DataAlloc(named.heap, size)
            /\ \A a \in DOMAIN g.st.ram :
                   g.st.ram[a] = IF a \in ref.at..(ref.at + HeaderSize - 1)
                                 THEN HeaderCell(ref)
                                 ELSE IF a \in ref.name_at..(ref.name_at + Len(name))
                                 THEN NameCell(name) ELSE references.ram[a]
  BY DefineIs
<1>3. /\ ref.name = name /\ ref.name_at = h.free /\ ref.at = named.heap.free
      /\ ref.type = type /\ ref.length = length
      /\ new.ref = g.ref /\ new.name = nb /\ new.whole = wb
      /\ n = Len(name) + 1 /\ size = HeaderSize + length * SizeOf(type)
  BY DEF NameSize
<1>4. /\ nb.at = h.free /\ nb.size = n /\ nb.before = h.taken
      /\ wb.at = named.heap.free /\ wb.size = size /\ wb.before = named.heap.taken
  BY DEF NewBlock
<1>5. /\ length \in Nat /\ Len(name) \in Nat /\ HeaderSize \in Nat \ {0}
      /\ DATASIZE \in Nat /\ Position \in Nat
  BY MemoryBounds, HeapAssumption
<1>6. /\ HeapInv(h) /\ InData(h) /\ h.taken \in Nat /\ DOMAIN references.ram = 0..(DATASIZE - 1)
      /\ \A b \in h.blocks : b \in Block
  BY DEF MemoryInv, HeapInv, Heaps
<1>7. DataAlloc(h, n).taken = h.taken + n /\ DataAlloc(h, n).blocks = h.blocks \cup {nb}
  BY DEF DataAlloc
<1>8. /\ DataAlloc(named.heap, size).taken = named.heap.taken + size
      /\ DataAlloc(named.heap, size).blocks = named.heap.blocks \cup {wb}
  BY DEF DataAlloc
<1> HIDE DEF h, n, size, named, ref, g, nb, wb, new
<1>9. CASE g.st.stopped = TRUE /\ g.ref = Null
  BY <1>1, <1>2, <1>9 DEF MemoryInv
<1>10. CASE /\ g.ref = ref /\ g.st.refs = references.refs
            /\ g.st.stopped = references.stopped
            /\ Fits(h, n) /\ named.heap = DataAlloc(h, n)
            /\ g.st.heap = DataAlloc(named.heap, size)
            /\ \A a \in DOMAIN g.st.ram :
                   g.st.ram[a] = IF a \in ref.at..(ref.at + HeaderSize - 1)
                                 THEN HeaderCell(ref)
                                 ELSE IF a \in ref.name_at..(ref.name_at + Len(name))
                                 THEN NameCell(name) ELSE references.ram[a]
  <2> DEFINE k == g.st.heap
             ram == g.st.ram
  <2>1. /\ k.blocks = h.blocks \cup {nb, wb} /\ k.taken = h.taken + n + size
        /\ wb.before = h.taken + n
    BY <1>4, <1>7, <1>8, <1>10
  <2>2. SUFFICES ASSUME ~references.stopped, k.taken <= Position
                 PROVE  Kept'
    BY <1>1, <1>2, <1>10 DEF MemoryInv
  <2>3. h.taken <= Position
    BY <1>2, <1>5, <1>6, <2>1, <2>2
  <2>4. Kept
    BY <2>2, <2>3 DEF MemoryInv, h
  <2>5. \A b, c \in k.blocks : b = c \/ Apart(b, c)
    BY <1>2, <2>2, PlacedApart DEF BlocksApart
  <2>6. ASSUME NEW b \in h.blocks PROVE b # nb /\ b # wb
    <3>1. PICK start \in Nat : PlacedFrom(h, start)
      BY <1>6, <2>3 DEF HeapInv
    <3>2. b.before + b.size <= h.taken /\ b.size > 0 /\ b.before \in Nat /\ b.size \in Nat
      BY <1>6, <2>6, <3>1 DEF PlacedFrom, InData, Block
    <3>3. b.before < h.taken
      BY <1>6, <3>2
    <3>4. b.before # nb.before /\ b.before # wb.before
      BY <1>2, <1>4, <1>6, <2>1, <3>2, <3>3
    <3> QED BY <3>4
  <2>7. nb # wb
    BY <1>2, <1>4, <1>6, <2>1
  <2>8. ASSUME NEW e \in defined
        PROVE  /\ Home(k, e) /\ HasHeader(ram, e) /\ HasName(ram, e)
               /\ e.name \in h.blocks /\ e.whole \in h.blocks
    <3>1. Home(h, e) /\ HasHeader(references.ram, e) /\ HasName(references.ram, e)
      BY <2>4 DEF Kept, h
    <3>2. e.name \in h.blocks /\ e.whole \in h.blocks
      BY <3>1 DEF Home
    <3>3. Home(k, e)
      BY <2>1, <3>1 DEF Home
    <3>4. /\ Apart(e.name, nb) /\ Apart(e.name, wb)
          /\ Apart(e.whole, nb) /\ Apart(e.whole, wb)
      BY <2>1, <2>5, <2>6, <3>2
    <3>5. /\ e.name.at \in Nat /\ e.name.size \in Nat /\ e.whole.at \in Nat /\ e.whole.size \in Nat
          /\ nb.at \in Nat /\ nb.size \in Nat /\ wb.at \in Nat /\ wb.size \in Nat
      <4>1. k.blocks \subseteq Block
        BY <1>2 DEF HeapInv, Heaps
      <4> QED BY <2>1, <3>2, <4>1 DEF Block
    <3>6. ASSUME NEW a \in Nat, NEW b \in {e.name, e.whole},
                 a \in 0..(DATASIZE - 1), a >= b.at, a < b.at + b.size
          PROVE  ram[a] = references.ram[a]
      <4>1. /\ b.at + b.size <= nb.at \/ nb.at + nb.size <= b.at
            /\ b.at + b.size <= wb.at \/ wb.at + wb.size <= b.at
            /\ b.at \in Nat /\ b.size \in Nat
        BY <3>4, <3>5, <3>6 DEF Apart
      <4> n \in Nat /\ size \in Nat /\ nb.size = n /\ wb.size = size
        BY <1>2, <1>4
      <4>2. a \notin nb.at..(nb.at + n - 1)
        <5>1. b.at + b.size <= nb.at \/ nb.at + n <= b.at
          BY <4>1
        <5>2. a >= b.at /\ a < b.at + b.size /\ nb.at \in Nat
          BY <3>5, <3>6
        <5> QED BY <4>1, <5>1, <5>2, Beyond
      <4>3. a \notin wb.at..(wb.at + size - 1)
        <5>1. b.at + b.size <= wb.at \/ wb.at + size <= b.at
          BY <4>1
        <5>2. a >= b.at /\ a < b.at + b.size /\ wb.at \in Nat
          BY <3>5, <3>6
        <5> QED BY <4>1, <5>1, <5>2, Beyond
      <4>4. HeaderSize <= size
        <5>1. SizeOf(type) \in {0, 1, 2}
          BY DEF SizeOf, Types
        <5>2. length * SizeOf(type) \in Nat
          BY <1>5, <5>1
        <5> QED BY <1>3, <1>5, <5>2
      <4>5. a \notin ref.at..(ref.at + HeaderSize - 1) /\ a \notin ref.name_at..(ref.name_at + Len(name))
        <5>1. ref.at = wb.at /\ ref.name_at = nb.at
          BY <1>3, <1>4
        <5>2. nb.at + n - 1 = nb.at + Len(name)
          BY <1>2, <1>3, <1>5, <3>5
        <5>3. a \notin wb.at..(wb.at + HeaderSize - 1)
          <6>1. \A x, y \in Int : x <= y => \A z \in wb.at..(wb.at + x - 1) : z \in wb.at..(wb.at + y - 1)
            BY <3>5
          <6> QED BY <1>2, <1>5, <4>3, <4>4, <6>1
        <5> QED BY <4>2, <5>1, <5>2, <5>3
      <4> QED BY <1>2, <1>10, <3>6, <4>5
    <3>7. HasHeader(ram, e)
      <4> SUFFICES ASSUME NEW a \in e.ref.at..(e.ref.at + HeaderSize - 1)
                   PROVE  ram[a] = HeaderCell(e.ref)
        BY DEF HasHeader
      <4>1. a \in 0..(DATASIZE - 1) /\ a \in Nat /\ a >= e.whole.at /\ a < e.whole.at + e.whole.size
        BY <1>5, <1>6, <3>1, HomeIs
      <4> QED BY <3>1, <3>6, <4>1 DEF HasHeader
    <3>8. HasName(ram, e)
      <4> SUFFICES ASSUME NEW a \in e.ref.name_at..(e.ref.name_at + Len(e.ref.name))
                   PROVE  ram[a] = NameCell(e.ref.name)
        BY DEF HasName
      <4>1. a \in 0..(DATASIZE - 1) /\ a \in Nat /\ a >= e.name.at /\ a < e.name.at + e.name.size
        BY <1>5, <1>6, <3>1, HomeIs
      <4> QED BY <3>1, <3>6, <4>1 DEF HasName
    <3> QED BY <3>2, <3>3, <3>7, <3>8
  <2>9. new.ref = ref /\ Home(k, new)
    BY <1>3, <1>4, <1>5, <1>10, <2>1 DEF Home, NameSize
  <2>10. HasHeader(ram, new) /\ HasName(ram, new)
    <3>1. \A a \in ref.at..(ref.at + HeaderSize - 1) : a \in DOMAIN ram
      BY <1>2, <2>9, HomeIs
    <3>2. \A a \in ref.name_at..(ref.name_at + Len(name)) :
              a \in DOMAIN ram /\ a \notin ref.at..(ref.at + HeaderSize - 1)
      <4> SUFFICES ASSUME NEW a \in ref.name_at..(ref.name_at + Len(name))
                   PROVE  a \in DOMAIN ram /\ a \notin ref.at..(ref.at + HeaderSize - 1)
        OBVIOUS
      <4>1. /\ a \in 0..(DATASIZE - 1) /\ a \in Nat /\ a >= nb.at /\ a < nb.at + nb.size
            /\ nb \in Block /\ wb \in Block /\ wb.size >= HeaderSize
        BY <1>2, <1>3, <1>5, <2>9, HomeIs
      <4>2. nb.at + nb.size <= wb.at \/ wb.at + wb.size <= nb.at
        BY <2>1, <2>5, <2>7 DEF Apart
      <4>3. nb.at \in Nat /\ nb.size \in Nat /\ wb.at \in Nat /\ wb.size \in Nat
        BY <4>1 DEF Block
      <4>4. a \notin wb.at..(wb.at + HeaderSize - 1)
        BY <1>5, <4>1, <4>2, <4>3, Outside
      <4> QED BY <1>2, <1>3, <1>4, <4>1, <4>4
    <3> QED BY <1>3, <1>10, <2>9, <3>1, <3>2 DEF HasHeader, HasName
  <2>11. defined' \subseteq defined \cup {new}
    BY <1>1
  <2>12. new.name = nb /\ new.whole = wb /\ nb \notin h.blocks /\ wb \notin h.blocks
    BY <1>3, <2>6
  <2>13. \A d \in defined' : Home(k, d) /\ HasHeader(ram, d) /\ HasName(ram, d)
    BY <2>8, <2>9, <2>10, <2>11
  <2>14. \A d, e \in defined' : d.name # e.whole
    BY <2>4, <2>7, <2>8, <2>11, <2>12 DEF Kept
  <2>15. \A d, e \in defined' : d # e => d.name # e.name /\ d.whole # e.whole
    BY <2>4, <2>8, <2>11, <2>12 DEF Kept
  <2>16. g.st.refs \in Seq({d.ref : d \in defined'})
    <3>1. {d.ref : d \in defined} \subseteq {d.ref : d \in defined'}
      BY <1>1
    <3>2. references.refs \in Seq({d.ref : d \in defined})
      BY <2>4 DEF Kept
    <3> QED BY <1>10, <3>1, <3>2, SeqMonotonic
  <2> QED BY <1>1, <2>13, <2>14, <2>15, <2>16 DEF Kept
<1> QED BY <1>2, <1>9, <1>10

LEMMA TextKeeps ==
    ASSUME MemoryInv, NEW d \in defined, NEW codes, StoreText(d, codes)
    PROVE  MemoryInv'
<1> DEFINE length == d.ref.length
           text  == [Padded(codes, length) EXCEPT ![length] = NUL]
           cells == [i \in DOMAIN text |-> Data(text[i])]
           at    == DataOf(d.ref)
<1>1. references' = Poke(references, at, cells) /\ defined' = defined /\ d.ref.type = "string"
  BY DEF StoreText, PokeString, PokeText
<1>2. DOMAIN text = 1..length
  BY DEF Padded
<1> HIDE DEF text
<1>3. CASE Home(references.heap, d)
  <2>1. /\ d.ref.at \in Nat /\ HeaderSize \in Nat /\ d.ref.at = d.whole.at
        /\ d.whole.size = HeaderSize + length * 1 /\ length \in Nat
    BY <1>1, <1>3, HomeIs DEF MemoryInv, Home, SizeOf
  <2>2. Len(cells) = length
    BY <1>2, <2>1, LenIs
  <2>3. at \in Nat /\ at + length <= d.whole.at + d.whole.size
    BY <2>1 DEF DataOf
  <2> HIDE DEF cells, at, length
  <2>4. Home(references.heap, d) => /\ at \in Nat /\ at >= DataOf(d.ref)
                                    /\ at + length <= d.whole.at + d.whole.size
    BY <2>3 DEF at
  <2> QED BY <1>1, <2>1, <2>2, <2>4, StoreKeeps DEF length
<1>4. CASE ~Home(references.heap, d)
  <2> HIDE DEF cells, at
  <2>1. /\ IsStore(references') /\ references'.heap = references.heap
        /\ references'.stopped = references.stopped
        /\ DOMAIN references'.ram = DOMAIN references.ram
    BY <1>1, PokeIs DEF MemoryInv
  <2>2. ~Kept
    BY <1>4 DEF Kept
  <2> QED BY <2>1, <2>2 DEF MemoryInv
<1> QED BY <1>3, <1>4

-----------------------------------------------------------------------------
LEMMA NextKeeps == ASSUME MemoryInv, [Next]_<<references, defined>> PROVE MemoryInv'
<1>1. CASE UNCHANGED <<references, defined>>
  BY <1>1 DEF MemoryInv, Kept, IsStore, HeapInv, PlacedFrom, Behind, InOrder, InData, Home,
              HasHeader, HasName
<1>2. ASSUME NEW name \in Names, NEW type \in Types, NEW length \in Lengths,
             Define(name, type, length)
      PROVE  MemoryInv'
  BY <1>2, DefineKeeps
<1>3. ASSUME NEW d \in defined, NEW n \in Values, NEW index \in 0..(d.ref.length - 1),
             StoreNumber(d, index, n)
      PROVE  MemoryInv'
  <2> DEFINE cells == <<Data(Low(n)), Data(High(n))>>
             at == DataOf(d.ref) + 2 * index
  <2>1. Len(cells) = 2
    OBVIOUS
  <2>2. references' = Poke(references, at, cells) /\ defined' = defined /\ d.ref.type = "uint16"
    BY <1>3 DEF StoreNumber, PokeNumber
  <2> HIDE DEF cells
  <2>3. Home(references.heap, d) => /\ at \in Nat /\ at >= DataOf(d.ref)
                                    /\ at + 2 <= d.whole.at + d.whole.size
    <3> SUFFICES ASSUME Home(references.heap, d)
                 PROVE  /\ at \in Nat /\ at >= DataOf(d.ref)
                        /\ at + 2 <= d.whole.at + d.whole.size
      OBVIOUS
    <3>1. /\ d.ref.at \in Nat /\ HeaderSize \in Nat /\ d.ref.at = d.whole.at
          /\ d.whole.size = HeaderSize + d.ref.length * 2 /\ d.ref.length \in Nat
      BY <2>2, HomeIs DEF MemoryInv, Home, SizeOf
    <3>2. index \in Nat /\ index <= d.ref.length - 1
      BY <3>1
    <3> QED BY <3>1, <3>2 DEF DataOf
  <2> HIDE DEF at
  <2> QED BY <2>1, <2>2, <2>3, StoreKeeps
<1>4. ASSUME NEW d \in defined, NEW n \in Values, NEW index \in 0..(d.ref.length - 1),
             StoreCharacter(d, index, n)
      PROVE  MemoryInv'
  <2> DEFINE codes == <<n>>
             cells == [i \in DOMAIN codes |-> Data(codes[i])]
             at == DataOf(d.ref) + index
  <2>1. Len(cells) = 1
    <3>1. DOMAIN codes = 1..1
      OBVIOUS
    <3> HIDE DEF codes
    <3> QED BY <3>1, LenIs
  <2>2. references' = Poke(references, at, cells) /\ defined' = defined /\ d.ref.type = "string"
    BY <1>4 DEF StoreCharacter, PokeText
  <2> HIDE DEF cells
  <2>3. Home(references.heap, d) => /\ at \in Nat /\ at >= DataOf(d.ref)
                                    /\ at + 1 <= d.whole.at + d.whole.size
    <3> SUFFICES ASSUME Home(references.heap, d)
                 PROVE  /\ at \in Nat /\ at >= DataOf(d.ref)
                        /\ at + 1 <= d.whole.at + d.whole.size
      OBVIOUS
    <3>1. /\ d.ref.at \in Nat /\ HeaderSize \in Nat /\ d.ref.at = d.whole.at
          /\ d.whole.size = HeaderSize + d.ref.length * 1 /\ d.ref.length \in Nat
      BY <2>2, HomeIs DEF MemoryInv, Home, SizeOf
    <3>2. index \in Nat /\ index <= d.ref.length - 1
      BY <3>1
    <3> QED BY <3>1, <3>2 DEF DataOf
  <2> HIDE DEF at
  <2> QED BY <2>1, <2>2, <2>3, StoreKeeps
<1>5. ASSUME NEW d \in defined, NEW codes \in Texts, StoreText(d, codes)
      PROVE  MemoryInv'
  BY <1>5, TextKeeps
<1>6. ASSUME NEW d \in defined, Link(d) PROVE MemoryInv'
  <2>1. references' = [references EXCEPT !.refs = Append(references.refs, d.ref)] /\ defined' = defined
    BY <1>6 DEF Link, StoreNext
  <2> DEFINE more == Append(references.refs, d.ref)
  <2>2. Kept => more \in Seq({e.ref : e \in defined})
    BY DEF Kept
  <2> HIDE DEF more
  <2>3. references' = [heap |-> references.heap, ram |-> references.ram, refs |-> more,
                       stopped |-> references.stopped, held |-> references.held]
    BY <2>1 DEF MemoryInv, IsStore, more
  <2>4. /\ IsStore(references') /\ references'.heap = references.heap
        /\ references'.ram = references.ram /\ references'.refs = more
        /\ references'.stopped = references.stopped
    BY <2>3 DEF IsStore
  <2>5. Kept => Kept'
    BY <2>1, <2>2, <2>4 DEF Kept
  <2> QED BY <2>4, <2>5 DEF MemoryInv
<1>7. ASSUME NEW type, NEW value, Return(type, value) PROVE MemoryInv'
  <2> DEFINE held == [references.held EXCEPT ![type] = value]
  <2>1. references' = [references EXCEPT !.held = held] /\ defined' = defined
    BY <1>7 DEF Return
  <2> HIDE DEF held
  <2>2. references' = [heap |-> references.heap, ram |-> references.ram, refs |-> references.refs,
                       stopped |-> references.stopped, held |-> held]
    BY <2>1 DEF MemoryInv, IsStore
  <2>3. /\ IsStore(references') /\ references'.heap = references.heap
        /\ references'.ram = references.ram /\ references'.refs = references.refs
        /\ references'.stopped = references.stopped
    BY <2>2 DEF IsStore
  <2>4. Kept => Kept'
    BY <2>1, <2>3 DEF Kept
  <2> QED BY <2>3, <2>4 DEF MemoryInv
<1>8. /\ IsStore(Stopped(references)) /\ HeapInv(Stopped(references).heap)
      /\ InData(Stopped(references).heap) /\ Stopped(references).stopped = TRUE
      /\ Stopped(references).refs = <<>> /\ Stopped(references).ram = references.ram
  <2>1. IsStore(references) /\ HeapInv(references.heap)
    BY DEF MemoryInv
  <2>2. HeapInv(Cleared(references.heap))
    BY <2>1, ClearKeeps
  <2>3. InData(Cleared(references.heap))
    BY <2>1 DEF HeapInv, Heaps, Cleared, InData
  <2> QED BY <2>1, <2>2, <2>3, StopIs
<1>9. CASE Stop
  BY <1>8, <1>9 DEF Stop, MemoryInv
<1>10. CASE Start
  <2> DEFINE st == Stopped(references)
             none == NoReferences.held
  <2>1. references' = [st EXCEPT !.stopped = FALSE, !.held = none] /\ defined' = {}
    BY <1>10 DEF Start
  <2> HIDE DEF st, none
  <2>2. references' = [heap |-> st.heap, ram |-> st.ram, refs |-> st.refs, stopped |-> FALSE,
                       held |-> none]
    BY <1>8, <2>1 DEF IsStore, st
  <2>3. /\ IsStore(references') /\ references'.heap = st.heap
        /\ references'.ram = st.ram /\ references'.refs = st.refs
    BY <2>2 DEF IsStore
  <2>4. references'.refs = <<>> /\ references'.ram = references.ram
    BY <1>8, <2>3 DEF st
  <2>5. Kept'
    <3>1. <<>> \in Seq({d.ref : d \in defined'})
      BY EmptySeq
    <3>2. defined' = {}
      BY <2>1
    <3> QED BY <2>4, <3>1, <3>2 DEF Kept
  <2> QED BY <1>8, <2>3, <2>4, <2>5 DEF MemoryInv, st
<1> QED BY <1>1, <1>2, <1>3, <1>4, <1>5, <1>6, <1>7, <1>9, <1>10 DEF Next

(***************************************************************************)
(* Whatever variables scripts define, whatever they store in them, and     *)
(* however often they are stopped, what they define is where it was put.   *)
(***************************************************************************)
THEOREM VariablesKept == Spec => []MemoryApart
<1>1. Init => MemoryInv
  <2> SUFFICES ASSUME Init PROVE MemoryInv
    OBVIOUS
  <2> DEFINE none == [a \in 0..(DATASIZE - 1) |-> Data(0)]
  <2>1. /\ references.heap = [free |-> 0, blocks |-> {}, taken |-> 0] /\ IsStore(references)
        /\ references.ram = none /\ references.refs = <<>> /\ defined = {}
    BY DEF Init, NoReferences, IsStore
  <2>2. HeapInv(references.heap)
    BY <2>1, FirstHeap
  <2> QED BY <2>1, <2>2 DEF MemoryInv, InData, Kept
<1>2. MemoryInv => MemoryApart
  <2> SUFFICES ASSUME MemoryInv, ~references.stopped, references.heap.taken <= Position
               PROVE  BlocksApart(references.heap) /\ Intact(references)
    BY DEF MemoryApart
  <2>1. BlocksApart(references.heap)
    BY PlacedApart DEF MemoryInv
  <2>2. ASSUME NEW i \in DOMAIN references.refs
        PROVE  \E d \in defined : references.refs[i] = d.ref
    <3>1. references.refs \in Seq({d.ref : d \in defined})
      BY DEF MemoryInv, Kept
    <3>2. references.refs[i] \in {d.ref : d \in defined}
      BY <2>2, <3>1, ElementOfSeq, LenProperties
    <3> QED BY <3>2
  <2>3. Intact(references)
    BY <2>2 DEF Intact, MemoryInv, Kept, HasHeader, HasName
  <2> QED BY <2>1, <2>3
<1> QED BY <1>1, <1>2, NextKeeps, PTL DEF Spec

-----------------------------------------------------------------------------
(***************************************************************************)
(* The buffer: words of any kind that str_buf holds, in lists that last    *)
(* has a place for.                                                        *)
(***************************************************************************)
Sizes == 0..STRBUFSIZE

LEMMA SizeIs ==
    ASSUME NEW item, IsItem(item)
    PROVE  ValueSize(item) \in Sizes /\ item.type # "list"
<1> USE BufferAssumption DEF Sizes
<1>1. CASE item.type \in {"variable", "function", "uint8", "uint16"}
  BY <1>1 DEF ValueSize
<1>2. CASE item.type \in {"string", "atom"} /\ Len(item.value) \in 0..(STRBUFSIZE - 1)
  BY <1>2 DEF ValueSize
<1> QED BY <1>1, <1>2 DEF IsItem

LEMMA ListSizeIs == ValueSize(AList) = 0 /\ AList.type = "list" /\ ValueSize(AList) \in Sizes
  BY BufferAssumption DEF ValueSize, AList, Sizes

\* A remainder of less than the divisor is the number itself.
LEMMA NotWrapped == ASSUME NEW n \in Nat, n < RestValues PROVE n % RestValues = n
  BY BufferAssumption

\* set_current: a word that str_buf held does not make rest wrap.
LEMMA RestIs ==
    ASSUME NEW item, ValueSize(item) \in Sizes
    PROVE  RestOf(item) = ValueSize(item) + LISTITEM_SIZE /\ RestOf(item) \in Nat
<1>1. /\ ValueSize(item) + LISTITEM_SIZE \in Nat
      /\ ValueSize(item) + LISTITEM_SIZE < RestValues
  BY BufferAssumption DEF Sizes, LISTITEM_SIZE
<1> QED BY <1>1, NotWrapped DEF RestOf

LEMMA CellIs ==
    ASSUME NEW r, NEW item, NEW s
    PROVE  /\ Cell(r, item, s).rest = r /\ Cell(r, item, s).type = item.type
           /\ Cell(r, item, s).value = item.value /\ Cell(r, item, s).stored = s
  BY DEF Cell

LEMMA SameSize ==
    ASSUME NEW c, NEW item, c.type = item.type, c.value = item.value
    PROVE  ValueSize(c) = ValueSize(item)
  BY Zenon DEF ValueSize

(***************************************************************************)
(* The first theorem needs little: what is stored ends in the buffer.      *)
(***************************************************************************)
Bounded ==
    /\ current \in Nat /\ InBuffer
    /\ \A a \in DOMAIN buffer : buffer[a] = Cell(buffer[a].rest, buffer[a], buffer[a].stored)

LEMMA RestSet ==
    ASSUME NEW r, NEW n, r = Cell(r.rest, r, r.stored)
    PROVE  LET c == [r EXCEPT !.rest = n]
           IN  /\ c = Cell(n, r, r.stored) /\ c = Cell(c.rest, c, c.stored)
               /\ c.rest = n /\ c.type = r.type /\ c.value = r.value /\ c.stored = r.stored
  BY DEF Cell

LEMMA AddBounded ==
    ASSUME Bounded, Room, NEW item, ValueSize(item) \in Sizes, NEW n
    PROVE  LET b == Enlarged(SetCurrent(item), n)
           IN  /\ DOMAIN b = DOMAIN buffer \cup {current}
               /\ \A a \in DOMAIN b : /\ b[a] = Cell(b[a].rest, b[a], b[a].stored)
                                      /\ a + LISTITEM_SIZE + b[a].stored <= BufferSize
<1> DEFINE new == Cell(RestOf(item), item, IF Reaches(item) THEN 0 ELSE ValueSize(item))
           s == SetCurrent(item)
           b == Enlarged(s, n)
<1>1. /\ DOMAIN s = DOMAIN buffer \cup {current}
      /\ s[current] = new /\ \A a \in DOMAIN buffer : a # current => s[a] = buffer[a]
  BY DEF SetCurrent, Storing
<1>2. new = Cell(new.rest, new, new.stored)
  BY DEF Cell
<1>3. current + LISTITEM_SIZE + new.stored <= BufferSize
  <2>1. new.stored = IF Reaches(item) THEN 0 ELSE ValueSize(item)
    BY CellIs
  <2>2. /\ RestOf(item) = ValueSize(item) + LISTITEM_SIZE
        /\ ValueSize(item) \in Nat /\ STRBUFSIZE \in Nat /\ BufferSize \in Nat
    BY RestIs, BufferAssumption DEF Sizes
  <2> HIDE DEF new
  <2> QED BY <2>1, <2>2 DEF Room, End, Reaches, LISTITEM_SIZE, Bounded
<1> HIDE DEF new
<1>4. \A a \in DOMAIN s : /\ s[a] = Cell(s[a].rest, s[a], s[a].stored)
                          /\ a + LISTITEM_SIZE + s[a].stored <= BufferSize
  BY <1>1, <1>2, <1>3 DEF Bounded, InBuffer
<1> HIDE DEF s
<1>5. /\ DOMAIN b = DOMAIN s
      /\ \A a \in DOMAIN s : b[a] = s[a] \/ b[a] = [s[a] EXCEPT !.rest = (@ + n) % RestValues]
  BY DEF Enlarged
<1>6. ASSUME NEW a \in DOMAIN b
      PROVE  /\ b[a] = Cell(b[a].rest, b[a], b[a].stored)
             /\ a + LISTITEM_SIZE + b[a].stored <= BufferSize
  <2>1. [s[a] EXCEPT !.rest = (@ + n) % RestValues]
            = [s[a] EXCEPT !.rest = (s[a].rest + n) % RestValues]
    OBVIOUS
  <2>2. s[a] = Cell(s[a].rest, s[a], s[a].stored) /\ a + LISTITEM_SIZE + s[a].stored <= BufferSize
    BY <1>4, <1>5, <1>6
  <2>3. CASE b[a] = s[a]
    BY <2>2, <2>3
  <2>4. CASE b[a] = [s[a] EXCEPT !.rest = (s[a].rest + n) % RestValues]
    <3>1. b[a] = Cell(b[a].rest, b[a], b[a].stored) /\ b[a].stored = s[a].stored
      BY <2>2, <2>4, RestSet
    <3> QED BY <2>2, <3>1
  <2> QED BY <1>5, <1>6, <2>1, <2>3, <2>4
<1> QED BY <1>1, <1>5, <1>6 DEF s

LEMMA BoundedStep == ASSUME Bounded, [NextLayout]_<<reading, open>> PROVE Bounded'
<1> USE BufferAssumption DEF Bounded, InBuffer
<1>1. CASE UNCHANGED reading
  BY <1>1 DEF reading
<1>2. CASE StartExpression
  BY <1>2 DEF StartExpression
<1>3. ASSUME Room, NEW item, IsItem(item), AddItem(item) PROVE Bounded'
  <2>1. ValueSize(item) \in Sizes
    BY <1>3, SizeIs
  <2>2. RestOf(item) \in Nat
    BY <2>1, RestIs
  <2> QED BY <1>3, <2>1, <2>2, AddBounded DEF AddItem, Bounded, InBuffer
<1>4. CASE Room /\ OpenList
  <2> DEFINE b == Enlarged(SetCurrent(AList), LISTITEM_SIZE)
             none == Cell(0, [type |-> "unknown", value |-> 0], 0)
  <2>1. /\ ValueSize(AList) = 0 /\ ValueSize(AList) \in Sizes
        /\ RestOf(AList) = 0 + LISTITEM_SIZE
    BY ListSizeIs, RestIs
  <2>2. \A a \in DOMAIN b : /\ b[a] = Cell(b[a].rest, b[a], b[a].stored)
                            /\ a + LISTITEM_SIZE + b[a].stored <= BufferSize
    BY <1>4, <2>1, AddBounded
  <2>3. none = Cell(none.rest, none, none.stored) /\ none.stored = 0
    BY DEF Cell
  <2>4. buffer' = Storing(b, current + LISTITEM_SIZE, none)
    BY <1>4 DEF OpenList
  <2>5. current' = current + LISTITEM_SIZE /\ ~Reaches(AList)
    BY <1>4 DEF OpenList
  <2> HIDE DEF b, none
  <2>6. \A a \in DOMAIN buffer' : \/ a = current + LISTITEM_SIZE /\ buffer'[a] = none
                                  \/ a \in DOMAIN b /\ buffer'[a] = b[a]
    BY <2>4 DEF Storing
  <2>7. current + LISTITEM_SIZE + LISTITEM_SIZE + 0 <= BufferSize
    BY <2>1, <2>5, BufferAssumption DEF Bounded, Reaches, End, LISTITEM_SIZE
  <2>8. InBuffer'
    BY <2>2, <2>3, <2>6, <2>7
  <2>9. current' \in Nat
    BY <2>5 DEF Bounded, LISTITEM_SIZE
  <2> QED BY <2>2, <2>3, <2>6, <2>8, <2>9 DEF Bounded
<1>5. CASE CloseList \/ CloseExpression
  <2>1. buffer' = Ended /\ current' = current
    BY <1>5 DEF CloseList, CloseExpression
  <2>2. /\ DOMAIN Ended = DOMAIN buffer
        /\ \A a \in DOMAIN buffer : Ended[a] = buffer[a] \/ Ended[a] = [buffer[a] EXCEPT !.rest = 0]
    BY DEF Ended
  <2>3. ASSUME NEW a \in DOMAIN buffer
        PROVE  /\ Ended[a] = Cell(Ended[a].rest, Ended[a], Ended[a].stored)
               /\ a + LISTITEM_SIZE + Ended[a].stored <= BufferSize
    <3>1. buffer[a] = Cell(buffer[a].rest, buffer[a], buffer[a].stored)
          /\ a + LISTITEM_SIZE + buffer[a].stored <= BufferSize
      BY <2>3 DEF Bounded, InBuffer
    <3>2. CASE Ended[a] = buffer[a]
      BY <3>1, <3>2
    <3>3. CASE Ended[a] = [buffer[a] EXCEPT !.rest = 0]
      <4>1. Ended[a] = Cell(Ended[a].rest, Ended[a], Ended[a].stored)
            /\ Ended[a].stored = buffer[a].stored
        BY <3>1, <3>3, RestSet
      <4> QED BY <3>1, <4>1
    <3> QED BY <2>2, <2>3, <3>2, <3>3
  <2> QED BY <2>1, <2>2, <2>3
<1>6. CASE Room /\ AddWord
  BY <1>3, <1>6 DEF AddWord
<1> QED BY <1>1, <1>2, <1>4, <1>5, <1>6 DEF NextLayout, Begin, Continue, Complete, GiveUp

\* Whatever words an expression has, of those that str_buf holds, and however long it is,
\* in lists that last has a place for: nothing is stored behind the buffer.
THEOREM BufferKept == LayoutSpec => []InBuffer
<1>1. InitLayout => Bounded
  BY BufferAssumption DEF InitLayout, Bounded, InBuffer
<1>2. Bounded => InBuffer
  BY DEF Bounded
<1> QED BY <1>1, <1>2, BoundedStep, PTL DEF LayoutSpec

-----------------------------------------------------------------------------
(***************************************************************************)
(* The second: what the lists that are open say of the item that is next.  *)
(***************************************************************************)
Shape ==
    /\ current \in Nat /\ depth \in Depths
    /\ enclosing \in [Depths -> Int] /\ last \in [Depths -> Int]
    /\ DOMAIN buffer \subseteq 0..current
    /\ \A a \in DOMAIN buffer :
           buffer[a].rest \in Nat /\ buffer[a] = Cell(buffer[a].rest, buffer[a], buffer[a].stored)
    /\ \A a \in Addresses : ValueSize(buffer[a]) \in Nat
Filled ==
    /\ \A a \in Addresses :
           Ends(a) <= current /\ buffer[a].stored = ValueSize(buffer[a])
    /\ \A a, b \in Addresses : a < b => Ends(a) <= b
OpenLists ==
    /\ \A i \in 0..(depth - 1) :
           last[i] # NoItem /\ enclosing[i] = last[i] /\ buffer[last[i]].type = "list"
    /\ \A i \in 0..depth : last[i] # NoItem => last[i] \in Leading /\ NextOf(last[i]) = current
    /\ \A i, j \in 0..depth : i < j /\ last[j] # NoItem => last[i] < last[j]
    /\ last[depth] = NoItem =>
           IF depth = 0 THEN current = 0 ELSE last[depth - 1] + LISTITEM_SIZE = current
IsList(a) == a \in Addresses /\ buffer[a].type = "list"
Ways ==
    /\ \A a \in Leading : NextOf(a) \in Addresses \/ \E i \in 0..depth : a = last[i]
    /\ \A a : IsList(a) => \/ a + LISTITEM_SIZE \in Addresses
                           \/ depth > 0 /\ last[depth] = NoItem /\ a = last[depth - 1]
    /\ \A b \in Addresses \ {0} : \/ \E a \in Leading : NextOf(a) = b
                                  \/ \E a : IsList(a) /\ a + LISTITEM_SIZE = b
    /\ \A a \in Leading : \A l : IsList(l) /\ NextOf(a) \in Addresses => NextOf(a) # l + LISTITEM_SIZE
    /\ \A a, b \in Leading : NextOf(a) \in Addresses /\ NextOf(a) = NextOf(b) => a = b
Tree == Shape /\ Filled /\ OpenLists /\ Ways

LEMMA AddressesAre ==
    ASSUME Shape
    PROVE  /\ Addresses \subseteq Nat /\ current \notin Addresses
           /\ \A a \in Addresses : a < current /\ a \in DOMAIN buffer
           /\ \A a \in Leading : a \in Addresses /\ buffer[a].rest \in Nat \ {0} /\ NextOf(a) \in Nat
           /\ \A a \in Addresses : buffer[a].rest # 0 => a \in Leading
  BY DEF Shape, Addresses, Leading, NextOf

\* the items of the lists that are open, but for the innermost
Outer(a) == \E i \in 0..(depth - 1) : last[i] = a

LEMMA OuterIs ==
    ASSUME Tree
    PROVE  /\ \A i \in 0..depth : \A a : a = last[i] /\ a # NoItem =>
                  a \in Leading /\ NextOf(a) = current /\ (Outer(a) <=> i < depth)
           /\ \A a \in Leading : NextOf(a) = current /\ ~Outer(a) => a = last[depth]
           /\ \A a : Outer(a) => a \in Leading /\ NextOf(a) = current
           /\ depth \in Nat /\ current \notin Addresses
<1>1. depth \in Nat /\ depth \in 0..depth /\ current \notin Addresses
  BY AddressesAre, BufferAssumption DEF Tree, Shape, Depths
<1>2. ASSUME NEW i \in 0..depth, NEW a, a = last[i], a # NoItem
      PROVE  a \in Leading /\ NextOf(a) = current /\ (Outer(a) <=> i < depth)
  <2>1. a \in Leading /\ NextOf(a) = current
    BY <1>2 DEF Tree, OpenLists
  <2>2. i < depth => Outer(a)
    BY <1>1, <1>2 DEF Outer
  <2>3. ASSUME NEW j \in 0..(depth - 1), last[j] = a, ~(i < depth) PROVE FALSE
    <3>1. i = depth /\ j \in 0..depth /\ j < i
      BY <1>1, <2>3
    <3>2. last[j] < last[i] /\ last[j] = last[i]
      BY <1>1, <1>2, <2>3, <3>1 DEF Tree, OpenLists
    <3>3. a \in Nat
      BY <2>1, AddressesAre DEF Tree
    <3> QED BY <1>2, <3>2, <3>3
  <2> QED BY <2>1, <2>2, <2>3 DEF Outer
<1>3. ASSUME NEW a \in Leading, NextOf(a) = current, ~Outer(a) PROVE a = last[depth]
  <2>1. PICK i \in 0..depth : a = last[i]
    BY <1>1, <1>3 DEF Tree, Ways
  <2>2. ~(i < depth)
    BY <1>1, <1>3, <2>1 DEF Outer
  <2> QED BY <1>1, <2>1, <2>2
<1>4. ASSUME NEW a, Outer(a) PROVE a \in Leading /\ NextOf(a) = current
  <2>1. PICK i \in 0..(depth - 1) : last[i] = a
    BY <1>4 DEF Outer
  <2>2. i \in 0..depth /\ a # NoItem
    BY <1>1, <2>1 DEF Tree, OpenLists
  <2> QED BY <1>2, <2>1, <2>2
<1> QED BY <1>1, <1>2, <1>3, <1>4

\* What becomes of the items when one is added: the distances of the lists around it do not
\* wrap while the item behind it is within a byte of the first.
LEMMA ItemAdded ==
    ASSUME Tree, NEW item, ValueSize(item) \in Sizes, NEW n \in Nat, current + n < RestValues
    PROVE  LET b == Enlarged(SetCurrent(item), n)
           IN  /\ DOMAIN b = DOMAIN buffer \cup {current}
               /\ b[current] = Cell(RestOf(item), item, IF Reaches(item) THEN 0 ELSE ValueSize(item))
               /\ \A a \in Addresses :
                      b[a] = Cell(IF Outer(a) THEN buffer[a].rest + n ELSE buffer[a].rest,
                                  buffer[a], buffer[a].stored)
<1> DEFINE new == Cell(RestOf(item), item, IF Reaches(item) THEN 0 ELSE ValueSize(item))
           s == SetCurrent(item)
           b == Enlarged(s, n)
<1>1. /\ DOMAIN s = DOMAIN buffer \cup {current}
      /\ s[current] = new /\ \A a \in DOMAIN buffer : a # current => s[a] = buffer[a]
  BY DEF SetCurrent, Storing
<1> HIDE DEF s, new
<1>2. \A a : Outer(a) <=> \E i \in 0..(depth - 1) : enclosing[i] = a
  BY DEF Outer, Tree, OpenLists
<1>3. /\ DOMAIN b = DOMAIN s
      /\ \A a \in DOMAIN s : b[a] = IF Outer(a) THEN [s[a] EXCEPT !.rest = (s[a].rest + n) % RestValues]
                             ELSE s[a]
  BY <1>2 DEF Enlarged
<1>4. ~Outer(current)
  <2> SUFFICES ASSUME NEW i \in 0..(depth - 1), last[i] = current PROVE FALSE
    BY DEF Outer
  <2>1. last[i] # NoItem /\ i \in 0..depth
    BY BufferAssumption DEF Tree, OpenLists, Shape, Depths
  <2>2. last[i] \in Leading
    BY <2>1 DEF Tree, OpenLists
  <2> QED BY <2>2, AddressesAre DEF Tree
<1>5. ASSUME NEW a \in Addresses
      PROVE  b[a] = Cell(IF Outer(a) THEN buffer[a].rest + n ELSE buffer[a].rest,
                         buffer[a], buffer[a].stored)
  <2>1. a \in DOMAIN buffer /\ a # current
    BY AddressesAre DEF Tree
  <2>2. s[a] = buffer[a] /\ a \in DOMAIN s
    BY <1>1, <2>1
  <2>3. buffer[a] = Cell(buffer[a].rest, buffer[a], buffer[a].stored)
    BY <2>1 DEF Tree, Shape
  <2>4. [buffer[a] EXCEPT !.rest = buffer[a].rest + n]
            = Cell(buffer[a].rest + n, buffer[a], buffer[a].stored)
    BY <2>3, RestSet
  <2>5. Outer(a) => (buffer[a].rest + n) % RestValues = buffer[a].rest + n
    <3> SUFFICES ASSUME Outer(a)
                 PROVE  (buffer[a].rest + n) % RestValues = buffer[a].rest + n
      OBVIOUS
    <3>1. a + buffer[a].rest = current /\ a \in Nat /\ buffer[a].rest \in Nat /\ current \in Nat
      BY OuterIs, AddressesAre DEF Tree, Shape, NextOf
    <3>2. buffer[a].rest + n \in Nat /\ buffer[a].rest + n < RestValues
      BY <3>1, BufferAssumption
    <3> QED BY <3>2, NotWrapped
  <2> QED BY <1>3, <2>2, <2>3, <2>4, <2>5
<1>6. b[current] = new
  BY <1>1, <1>3, <1>4
<1> QED BY <1>1, <1>3, <1>5, <1>6 DEF s, new

\* What is then true of an item and of where it leads.
Size(item) == LISTITEM_SIZE + ValueSize(item)
Grown(item, opened) ==
    /\ ValueSize(item) \in Nat /\ current' = current + Size(item)
    /\ Addresses' = Addresses \cup {current}
    /\ buffer'[current] = Cell(Size(item), item, ValueSize(item))
    /\ \A a \in Addresses :
           buffer'[a] = Cell(IF Outer(a) THEN buffer[a].rest + Size(item) ELSE buffer[a].rest,
                             buffer[a], buffer[a].stored)
    /\ last' \in [Depths -> Int] /\ enclosing' \in [Depths -> Int]
    /\ last'[depth] = current
    /\ \A i \in 0..(depth - 1) : last'[i] = last[i] /\ enclosing'[i] = enclosing[i]
    /\ \/ /\ opened /\ depth + 1 \in Depths /\ depth' = depth + 1 /\ last'[depth + 1] = NoItem
          /\ enclosing'[depth] = current /\ item.type = "list" /\ ValueSize(item) = 0
       \/ ~opened /\ depth' = depth /\ item.type # "list"

LEMMA GrownItems ==
    ASSUME Tree, NEW item, NEW opened, Grown(item, opened)
    PROVE  /\ \A a \in Addresses :
                  /\ a < current /\ a \in Nat /\ a \in Addresses'
                  /\ buffer'[a].type = buffer[a].type /\ buffer'[a].stored = buffer[a].stored
                  /\ ValueSize(buffer'[a]) = ValueSize(buffer[a]) /\ Ends(a)' = Ends(a)
                  /\ buffer'[a].rest = IF Outer(a) THEN buffer[a].rest + Size(item)
                                                  ELSE buffer[a].rest
           /\ buffer'[current].rest = Size(item) /\ buffer'[current].type = item.type
           /\ ValueSize(buffer'[current]) = ValueSize(item)
           /\ \A a : a = current => Ends(a)' = current'
           /\ current \in Nat /\ Size(item) \in Nat \ {0} /\ current' > current
<1>1. \A a \in Addresses : /\ a < current /\ a \in Nat
                           /\ buffer'[a].type = buffer[a].type /\ buffer'[a].value = buffer[a].value
                           /\ buffer'[a].stored = buffer[a].stored
                           /\ buffer'[a].rest = IF Outer(a) THEN buffer[a].rest + Size(item)
                                                           ELSE buffer[a].rest
  BY CellIs, AddressesAre DEF Tree, Grown
<1>2. /\ buffer'[current].rest = Size(item) /\ buffer'[current].type = item.type
      /\ buffer'[current].value = item.value
  BY CellIs DEF Grown
<1>3. \A a \in Addresses : ValueSize(buffer'[a]) = ValueSize(buffer[a])
  BY <1>1, SameSize
<1>4. ValueSize(buffer'[current]) = ValueSize(item)
  BY <1>2, SameSize
<1>5. /\ current \in Nat /\ Size(item) \in Nat \ {0} /\ current' > current
      /\ current' = current + Size(item) /\ Size(item) = LISTITEM_SIZE + ValueSize(item)
  BY DEF Grown, Tree, Shape, Size, LISTITEM_SIZE
<1>6. \A a \in Addresses : Ends(a)' = Ends(a) /\ a \in Addresses'
  BY <1>3 DEF Ends, Grown
<1>7. ASSUME NEW a, a = current PROVE Ends(a)' = current'
  <2>1. Ends(a)' = a + LISTITEM_SIZE + ValueSize(buffer'[a])
    BY DEF Ends
  <2> QED BY <1>4, <1>5, <1>7, <2>1 DEF LISTITEM_SIZE, Grown
<1> QED BY <1>1, <1>2, <1>3, <1>4, <1>5, <1>6, <1>7

LEMMA GrownFilled ==
    ASSUME Tree, NEW item, NEW opened, Grown(item, opened)
    PROVE  Filled'
<1>1. /\ Addresses' = Addresses \cup {current} /\ current' = current + Size(item)
      /\ ValueSize(item) \in Nat /\ Size(item) = LISTITEM_SIZE + ValueSize(item)
  BY DEF Grown, Size
<1>2. ASSUME NEW a \in Addresses'
      PROVE  Ends(a)' <= current' /\ buffer'[a].stored = ValueSize(buffer'[a])
  <2>1. CASE a \in Addresses
    <3>1. Ends(a) <= current /\ buffer[a].stored = ValueSize(buffer[a])
      BY <2>1 DEF Tree, Filled
    <3>2. Ends(a) \in Nat /\ current \in Nat
      BY <2>1, AddressesAre DEF Tree, Shape, Ends, LISTITEM_SIZE
    <3> QED BY <1>1, <2>1, <3>1, <3>2, GrownItems
  <2>2. CASE a = current
    <3>1. Ends(a)' = current' /\ current' \in Nat
      BY <1>1, <2>2, GrownItems
    <3>2. buffer'[a].stored = ValueSize(item)
      BY <2>2, CellIs DEF Grown
    <3>3. ValueSize(buffer'[a]) = ValueSize(item)
      BY <2>2, GrownItems
    <3> QED BY <3>1, <3>2, <3>3
  <2> QED BY <1>1, <1>2, <2>1, <2>2
<1>3. ASSUME NEW a \in Addresses', NEW b \in Addresses', a < b PROVE Ends(a)' <= b
  <2>1. CASE a \in Addresses /\ b \in Addresses
    <3>1. Ends(a) <= b
      BY <1>3, <2>1 DEF Tree, Filled
    <3> QED BY <2>1, <3>1, GrownItems
  <2>2. CASE a \in Addresses /\ b = current
    <3>1. Ends(a) <= current
      BY <2>2 DEF Tree, Filled
    <3> QED BY <2>2, <3>1, GrownItems
  <2>3. CASE a = current
    <3>1. b \in Nat /\ b <= current /\ current \in Nat
      BY <1>1, GrownItems
    <3> QED BY <1>3, <2>3, <3>1
  <2> QED BY <1>1, <1>3, <2>1, <2>2, <2>3
<1>4. /\ \A a \in Addresses' :
             Ends(a)' <= current' /\ buffer'[a].stored = ValueSize(buffer'[a])
      /\ \A a, b \in Addresses' : a < b => Ends(a)' <= b
  BY <1>2, <1>3
<1> QED BY <1>4 DEF Filled

\* which items lead where
LEMMA GrownLeads ==
    ASSUME Tree, NEW item, NEW opened, Grown(item, opened)
    PROVE  /\ Leading' = Leading \cup {current}
           /\ \A a \in Leading :
                  /\ a # current
                  /\ Outer(a) => NextOf(a) = current /\ NextOf(a)' = current'
                  /\ ~Outer(a) => NextOf(a)' = NextOf(a)
           /\ \A a : a = current => NextOf(a)' = current'
           /\ \A a : IsList(a)' <=> IsList(a) \/ (a = current /\ item.type = "list")
<1>1. /\ Addresses' = Addresses \cup {current} /\ current' = current + Size(item)
      /\ current \notin Addresses
  BY AddressesAre DEF Grown, Tree
<1>2. Leading' = {a \in Addresses' : buffer'[a].rest # 0}
  BY DEF Leading
<1>3. ASSUME NEW a \in Addresses PROVE a \in Leading' <=> a \in Leading
  <2>1. a \in Leading <=> buffer[a].rest # 0
    BY <1>3 DEF Leading
  <2>2. a \in Leading' <=> buffer'[a].rest # 0
    BY <1>1, <1>2, <1>3
  <2>3. buffer'[a].rest = IF Outer(a) THEN buffer[a].rest + Size(item) ELSE buffer[a].rest
    BY <1>3, GrownItems
  <2>4. Outer(a) => a \in Leading
    BY OuterIs
  <2>5. buffer[a].rest \in Nat /\ Size(item) \in Nat \ {0}
    BY <1>3, GrownItems, AddressesAre DEF Tree, Shape
  <2>6. Outer(a) => buffer'[a].rest # 0
    BY <2>3, <2>5
  <2> QED BY <2>1, <2>2, <2>3, <2>4, <2>6
<1>4. current \in Leading'
  BY <1>1, <1>2, GrownItems
<1>5. Leading' = Leading \cup {current}
  BY <1>1, <1>2, <1>3, <1>4 DEF Leading
<1>6. ASSUME NEW a \in Leading
      PROVE  /\ a # current
             /\ Outer(a) => NextOf(a) = current /\ NextOf(a)' = current'
             /\ ~Outer(a) => NextOf(a)' = NextOf(a)
  <2>1. a \in Addresses /\ buffer[a].rest \in Nat /\ NextOf(a) = a + buffer[a].rest
    BY <1>6, AddressesAre DEF Tree, NextOf
  <2>2. NextOf(a)' = a + buffer'[a].rest
    BY DEF NextOf
  <2>3. /\ buffer'[a].rest = IF Outer(a) THEN buffer[a].rest + Size(item) ELSE buffer[a].rest
        /\ a \in Nat /\ current \in Nat /\ Size(item) \in Nat
    BY <2>1, GrownItems
  <2>4. Outer(a) => NextOf(a) = current
    BY OuterIs
  <2> QED BY <1>1, <2>1, <2>2, <2>3, <2>4
<1>7. ASSUME NEW a, a = current PROVE NextOf(a)' = current'
  <2>1. NextOf(a)' = a + buffer'[a].rest
    BY DEF NextOf
  <2> QED BY <1>1, <1>7, <2>1, GrownItems
<1>8. ASSUME NEW a PROVE IsList(a)' <=> IsList(a) \/ (a = current /\ item.type = "list")
  <2>1. IsList(a)' <=> a \in Addresses' /\ buffer'[a].type = "list"
    BY DEF IsList
  <2> QED BY <1>1, <2>1, GrownItems DEF IsList
<1> QED BY <1>5, <1>6, <1>7, <1>8

LEMMA GrownWays ==
    ASSUME Tree, NEW item, NEW opened, Grown(item, opened)
    PROVE  Ways'
<1>1. /\ Leading' = Leading \cup {current} /\ Addresses' = Addresses \cup {current}
      /\ current \notin Addresses /\ current' \notin Addresses'
      /\ depth \in Nat /\ depth' \in Nat /\ depth <= depth' /\ current \in Nat
      /\ Leading \subseteq Addresses
  <2>1. current' \notin Addresses'
    <3>1. \A x \in Addresses' : x <= current /\ x \in Nat
      BY GrownItems DEF Grown
    <3> QED BY <3>1, GrownItems
  <2> QED BY <2>1, GrownLeads, GrownItems, OuterIs DEF Grown, Leading
<1>2. ASSUME NEW a \in Leading'
      PROVE  \/ NextOf(a)' = current' /\ \E i \in 0..depth' : a = last'[i]
             \/ /\ a \in Leading /\ ~Outer(a) /\ NextOf(a)' = NextOf(a)
                /\ NextOf(a) \in Addresses'
  <2>1. CASE a = current
    <3>1. depth \in 0..depth' /\ last'[depth] = current
      BY <1>1 DEF Grown
    <3> QED BY <2>1, <3>1, GrownLeads
  <2>2. CASE Outer(a)
    <3>1. PICK i \in 0..(depth - 1) : last[i] = a
      BY <2>2 DEF Outer
    <3>2. last'[i] = a /\ i \in 0..depth'
      BY <1>1, <3>1 DEF Grown
    <3> QED BY <2>2, <3>2, OuterIs, GrownLeads
  <2>3. CASE a # current /\ ~Outer(a)
    <3>1. a \in Leading /\ NextOf(a)' = NextOf(a)
      BY <1>1, <1>2, <2>3, GrownLeads
    <3>2. NextOf(a) \in Addresses \/ NextOf(a) = current
      <4>1. NextOf(a) \in Addresses \/ \E i \in 0..depth : a = last[i]
        BY <3>1 DEF Tree, Ways
      <4>2. a # NoItem
        BY <3>1, AddressesAre DEF Tree, NoItem
      <4> QED BY <4>1, <4>2, OuterIs
    <3> QED BY <1>1, <2>3, <3>1, <3>2
  <2> QED BY <2>1, <2>2, <2>3
<1>3. ASSUME NEW a, IsList(a)'
      PROVE  \/ a + LISTITEM_SIZE \in Addresses'
             \/ depth' > 0 /\ last'[depth'] = NoItem /\ a = last'[depth' - 1]
  <2>1. CASE IsList(a)
    <3>1. \/ a + LISTITEM_SIZE \in Addresses
          \/ depth > 0 /\ last[depth] = NoItem /\ a = last[depth - 1]
      BY <2>1 DEF Tree, Ways
    <3>2. depth > 0 /\ last[depth] = NoItem => last[depth - 1] + LISTITEM_SIZE = current
      BY <1>1 DEF Tree, OpenLists
    <3> QED BY <1>1, <3>1, <3>2
  <2>2. CASE a = current /\ item.type = "list"
    <3>1. depth' = depth + 1 /\ last'[depth + 1] = NoItem /\ last'[depth] = current
      BY <2>2 DEF Grown
    <3>2. depth' > 0 /\ depth' - 1 = depth
      BY <1>1, <3>1
    <3> QED BY <2>2, <3>1, <3>2
  <2> QED BY <1>3, <2>1, <2>2, GrownLeads
<1>4. ASSUME NEW b \in Addresses' \ {0}
      PROVE  \/ \E a \in Leading' : NextOf(a)' = b
             \/ \E a : IsList(a)' /\ a + LISTITEM_SIZE = b
  <2>1. CASE b \in Addresses
    <3>1. CASE \E a \in Leading : NextOf(a) = b
      <4>1. PICK a \in Leading : NextOf(a) = b
        BY <3>1
      <4>2. ~Outer(a)
        BY <1>1, <2>1, <4>1, OuterIs
      <4> QED BY <1>1, <4>1, <4>2, GrownLeads
    <3>2. CASE \E a : IsList(a) /\ a + LISTITEM_SIZE = b
      BY <3>2, GrownLeads
    <3> QED BY <1>4, <2>1, <3>1, <3>2 DEF Tree, Ways
  <2>2. CASE b = current /\ last[depth] # NoItem
    <3>1. depth \in 0..depth /\ ~(depth < depth)
      BY <1>1
    <3>2. last[depth] \in Leading /\ NextOf(last[depth]) = current /\ ~Outer(last[depth])
      BY <2>2, <3>1, OuterIs
    <3>3. PICK a \in Leading : a = last[depth]
      BY <3>2
    <3>4. NextOf(a)' = NextOf(a) /\ NextOf(a) = current /\ a \in Leading'
      BY <1>1, <3>2, <3>3, GrownLeads
    <3> QED BY <2>2, <3>4
  <2>3. CASE b = current /\ last[depth] = NoItem
    <3>1. depth # 0 /\ last[depth - 1] + LISTITEM_SIZE = current
      BY <1>4, <2>3 DEF Tree, OpenLists
    <3>2. depth - 1 \in 0..(depth - 1) /\ depth - 1 \in 0..depth
      BY <1>1, <3>1
    <3>3. last[depth - 1] \in Leading /\ buffer[last[depth - 1]].type = "list"
      BY <3>2 DEF Tree, OpenLists
    <3>4. IsList(last[depth - 1])
      BY <1>1, <3>3 DEF IsList
    <3>5. PICK a : a = last[depth - 1]
      OBVIOUS
    <3>6. IsList(a)' /\ a + LISTITEM_SIZE = b
      BY <2>3, <3>1, <3>4, <3>5, GrownLeads
    <3> QED BY <3>6
  <2> QED BY <1>1, <1>4, <2>1, <2>2, <2>3
<1>5. ASSUME NEW a \in Leading', NEW l, IsList(l)', NextOf(a)' \in Addresses'
      PROVE  NextOf(a)' # l + LISTITEM_SIZE
  <2>1. /\ a \in Leading /\ ~Outer(a) /\ NextOf(a)' = NextOf(a) /\ NextOf(a) \in Addresses'
    BY <1>1, <1>2, <1>5
  <2>2. CASE IsList(l) /\ NextOf(a) \in Addresses
    BY <2>1, <2>2 DEF Tree, Ways
  <2>3. CASE IsList(l) /\ NextOf(a) = current
    <3> SUFFICES ASSUME l + LISTITEM_SIZE = current PROVE FALSE
      BY <2>1, <2>3
    <3>1. last[depth] = NoItem
      BY <1>1, <2>3 DEF Tree, Ways
    <3>2. a = last[depth]
      BY <2>1, <2>3, OuterIs
    <3> QED BY <2>1, <3>1, <3>2, AddressesAre DEF Tree, NoItem
  <2>4. CASE l = current
    <3>1. current + LISTITEM_SIZE \notin Addresses'
      <4>1. \A x \in Addresses' : x <= current /\ x \in Nat
        BY <1>1, GrownItems
      <4> QED BY <1>1, <4>1 DEF LISTITEM_SIZE
    <3> QED BY <2>1, <2>4, <3>1
  <2> QED BY <1>1, <1>5, <2>1, <2>2, <2>3, <2>4, GrownLeads
<1>6. ASSUME NEW a \in Leading', NEW b \in Leading', NextOf(a)' \in Addresses',
             NextOf(a)' = NextOf(b)'
      PROVE  a = b
  <2>1. /\ a \in Leading /\ ~Outer(a) /\ NextOf(a)' = NextOf(a) /\ NextOf(a) \in Addresses'
        /\ b \in Leading /\ ~Outer(b) /\ NextOf(b)' = NextOf(b)
    BY <1>1, <1>2, <1>6
  <2>2. NextOf(a) = NextOf(b)
    BY <1>6, <2>1
  <2>3. CASE NextOf(a) \in Addresses
    BY <2>1, <2>2, <2>3 DEF Tree, Ways
  <2>4. CASE NextOf(a) = current
    BY <2>1, <2>2, <2>4, OuterIs
  <2> QED BY <1>1, <2>1, <2>3, <2>4
<1>7. \A a \in Leading' : NextOf(a)' \in Addresses' \/ \E i \in 0..depth' : a = last'[i]
  BY <1>2
<1>8. \A a : IsList(a)' => \/ a + LISTITEM_SIZE \in Addresses'
                           \/ depth' > 0 /\ last'[depth'] = NoItem /\ a = last'[depth' - 1]
  BY <1>3
<1>9. \A b \in Addresses' \ {0} : \/ \E a \in Leading' : NextOf(a)' = b
                                  \/ \E a : IsList(a)' /\ a + LISTITEM_SIZE = b
  BY <1>4
<1>10. \A a \in Leading' : \A l :
           IsList(l)' /\ NextOf(a)' \in Addresses' => NextOf(a)' # l + LISTITEM_SIZE
  BY <1>5
<1>11. \A a, b \in Leading' : NextOf(a)' \in Addresses' /\ NextOf(a)' = NextOf(b)' => a = b
  BY <1>6
<1> QED BY <1>7, <1>8, <1>9, <1>10, <1>11, Zenon DEF Ways

LEMMA GrownLists ==
    ASSUME Tree, NEW item, NEW opened, Grown(item, opened)
    PROVE  OpenLists'
<1>1. /\ Leading' = Leading \cup {current} /\ depth \in Nat /\ current \in Nat
      /\ last'[depth] = current /\ current # NoItem
      /\ \A i \in 0..(depth - 1) : last'[i] = last[i] /\ enclosing'[i] = enclosing[i]
  BY GrownLeads, OuterIs, GrownItems DEF Grown, NoItem
<1>2. ASSUME NEW i \in 0..(depth - 1)
      PROVE  /\ last'[i] = last[i] /\ last[i] # NoItem /\ enclosing[i] = last[i]
             /\ buffer'[last[i]].type = "list" /\ last[i] \in Leading /\ last[i] < current
             /\ \A a : a = last[i] => NextOf(a)' = current'
  <2>1. i \in 0..depth /\ last[i] # NoItem /\ enclosing[i] = last[i] /\ buffer[last[i]].type = "list"
    BY <1>1 DEF Tree, OpenLists
  <2>2. Outer(last[i]) /\ last[i] \in Leading
    BY <2>1, OuterIs DEF Outer
  <2>3. last[i] \in Addresses
    BY <2>2, AddressesAre DEF Tree
  <2> QED BY <1>1, <2>1, <2>2, <2>3, GrownItems, GrownLeads
<1>3. \/ opened /\ depth' = depth + 1 /\ last'[depth + 1] = NoItem
         /\ enclosing'[depth] = current /\ item.type = "list" /\ ValueSize(item) = 0
      \/ ~opened /\ depth' = depth
  BY DEF Grown
<1>4. ASSUME NEW i \in 0..(depth' - 1)
      PROVE  last'[i] # NoItem /\ enclosing'[i] = last'[i] /\ buffer'[last'[i]].type = "list"
  <2>1. CASE i \in 0..(depth - 1)
    BY <1>1, <1>2, <2>1
  <2>2. CASE i = depth /\ opened
    BY <1>1, <1>3, <2>2, GrownItems
  <2> QED BY <1>1, <1>3, <1>4, <2>1, <2>2
<1>5. ASSUME NEW i \in 0..depth', last'[i] # NoItem
      PROVE  /\ i \in 0..(depth - 1) \/ (i = depth /\ last'[i] = current)
             /\ last'[i] \in Leading' /\ \A a : a = last'[i] => NextOf(a)' = current'
  <2>1. i \in 0..(depth - 1) \/ i = depth
    BY <1>1, <1>3, <1>5
  <2>2. CASE i \in 0..(depth - 1)
    BY <1>1, <1>2, <2>2
  <2>3. CASE i = depth
    BY <1>1, <2>3, GrownLeads
  <2> QED BY <1>1, <2>1, <2>2, <2>3
<1>6. ASSUME NEW i \in 0..depth', NEW j \in 0..depth', i < j, last'[j] # NoItem
      PROVE  last'[i] < last'[j]
  <2>1. j \in 0..(depth - 1) \/ (j = depth /\ last'[j] = current)
    BY <1>5, <1>6
  <2>2. i \in 0..(depth - 1)
    BY <1>1, <1>3, <1>6, <2>1
  <2>3. CASE j \in 0..(depth - 1)
    <3>1. i \in 0..depth /\ j \in 0..depth /\ last[j] # NoItem
      BY <1>1, <1>2, <2>2, <2>3
    <3>2. last[i] < last[j]
      BY <1>6, <3>1 DEF Tree, OpenLists
    <3> QED BY <1>2, <2>2, <2>3, <3>2
  <2>4. CASE j = depth /\ last'[j] = current
    BY <1>2, <2>2, <2>4
  <2> QED BY <2>1, <2>3, <2>4
<1>7. last'[depth'] = NoItem =>
          IF depth' = 0 THEN current' = 0 ELSE last'[depth' - 1] + LISTITEM_SIZE = current'
  <2>1. CASE opened /\ depth' = depth + 1 /\ ValueSize(item) = 0
    <3>1. depth' # 0 /\ depth' - 1 = depth
      BY <1>1, <2>1
    <3>2. current' = current + LISTITEM_SIZE
      BY <2>1 DEF Grown, Size, LISTITEM_SIZE, Tree, Shape
    <3> QED BY <1>1, <3>1, <3>2
  <2>2. CASE depth' = depth
    BY <1>1, <2>2
  <2> QED BY <1>3, <2>1, <2>2
<1>8. \A i \in 0..depth' : last'[i] # NoItem =>
          /\ last'[i] \in Leading'
          /\ \A a : a = last'[i] => NextOf(a)' = current'
  BY <1>5
<1>9. \A a : NextOf(a)' = a + buffer'[a].rest
  BY DEF NextOf
<1>10. \A i \in 0..depth' : last'[i] # NoItem =>
          /\ last'[i] \in Leading'
          /\ last'[i] + buffer'[last'[i]].rest = current'
  BY <1>8, <1>9
<1>11. (\A i \in 0..depth : last[i] # NoItem => last[i] \in Leading /\ NextOf(last[i]) = current)'
  BY <1>10 DEF NextOf
<1>12. \A i, j \in 0..depth' : i < j /\ last'[j] # NoItem => last'[i] < last'[j]
  BY <1>6
<1>13. \A i \in 0..(depth' - 1) :
          last'[i] # NoItem /\ enclosing'[i] = last'[i] /\ buffer'[last'[i]].type = "list"
  BY <1>4
<1> QED BY <1>7, <1>11, <1>12, <1>13 DEF OpenLists

LEMMA GrownShape ==
    ASSUME Tree, NEW item, NEW opened, Grown(item, opened)
    PROVE  /\ current' \in Nat
           /\ \A a \in Addresses' :
                  /\ buffer'[a].rest \in Nat /\ ValueSize(buffer'[a]) \in Nat
                  /\ buffer'[a] = Cell(buffer'[a].rest, buffer'[a], buffer'[a].stored)
<1>1. current' \in Nat /\ Size(item) \in Nat /\ Addresses' = Addresses \cup {current}
  BY GrownItems DEF Grown
<1>2. ASSUME NEW r, NEW c, NEW s PROVE Cell(r, c, s) = Cell(r, Cell(r, c, s), s)
  BY DEF Cell
<1>3. ASSUME NEW a \in Addresses
      PROVE  /\ buffer'[a].rest \in Nat /\ ValueSize(buffer'[a]) \in Nat
             /\ buffer'[a] = Cell(buffer'[a].rest, buffer'[a], buffer'[a].stored)
  <2>1. buffer[a].rest \in Nat /\ ValueSize(buffer[a]) \in Nat
    BY AddressesAre DEF Tree, Shape
  <2>2. PICK r, c, s : buffer'[a] = Cell(r, c, s)
    BY DEF Grown
  <2>3. buffer'[a] = Cell(buffer'[a].rest, buffer'[a], buffer'[a].stored)
    BY <1>2, <2>2, CellIs
  <2> QED BY <1>1, <2>1, <2>3, GrownItems
<1>4. /\ buffer'[current].rest \in Nat /\ ValueSize(buffer'[current]) \in Nat
      /\ buffer'[current] = Cell(buffer'[current].rest, buffer'[current], buffer'[current].stored)
  <2>1. PICK r, c, s : buffer'[current] = Cell(r, c, s)
    BY DEF Grown
  <2>2. buffer'[current] = Cell(buffer'[current].rest, buffer'[current], buffer'[current].stored)
    BY <1>2, <2>1, CellIs
  <2> QED BY <1>1, <2>2, GrownItems DEF Grown
<1> QED BY <1>1, <1>3, <1>4

LEMMA AddItemGrows ==
    ASSUME Tree, NEW item, IsItem(item), AddItem(item), Room'
    PROVE  Tree'
<1> DEFINE b == Enlarged(SetCurrent(item), Size(item))
<1>1. ValueSize(item) \in Sizes /\ ValueSize(item) \in Nat /\ item.type # "list"
  BY SizeIs, BufferAssumption DEF Sizes
<1>2. Size(item) \in Nat /\ Size(item) = LISTITEM_SIZE + ValueSize(item) /\ LISTITEM_SIZE = 2
  BY <1>1 DEF Size, LISTITEM_SIZE
<1>3. /\ buffer' = b /\ current' = current + Size(item) /\ last' = [last EXCEPT ![depth] = current]
      /\ depth' = depth /\ enclosing' = enclosing
  <2>1. RestOf(item) = Size(item)
    BY <1>1, <1>2, RestIs
  <2> QED BY <2>1 DEF AddItem
<1>0. RestOf(item) = Size(item) /\ ~Reaches(item) /\ current + Size(item) < RestValues
  <2>1. RestOf(item) = Size(item)
    BY <1>1, <1>2, RestIs
  <2>2. current + Size(item) < BufferSize - 2
    BY <1>3 DEF Room, End
  <2> QED BY <1>2, <2>1, <2>2, BufferAssumption DEF Reaches, End, Tree, Shape
<1>4. /\ DOMAIN b = DOMAIN buffer \cup {current}
      /\ b[current] = Cell(Size(item), item, ValueSize(item))
      /\ \A a \in Addresses :
             b[a] = Cell(IF Outer(a) THEN buffer[a].rest + Size(item) ELSE buffer[a].rest,
                         buffer[a], buffer[a].stored)
  BY <1>1, <1>2, <1>0, ItemAdded
<1> HIDE DEF b
<1>5. /\ current \in Nat /\ depth \in Depths /\ depth \in Nat
      /\ enclosing \in [Depths -> Int] /\ last \in [Depths -> Int]
      /\ \A a \in DOMAIN buffer : a \in 0..current
  BY BufferAssumption DEF Tree, Shape, Depths
<1>6. Addresses' = Addresses \cup {current}
  <2>1. Addresses' = {a \in DOMAIN b : a < current'}
    BY <1>3 DEF Addresses
  <2>2. current < current'
    BY <1>1, <1>2, <1>3, <1>5
  <2> QED BY <1>1, <1>2, <1>3, <1>4, <1>5, <2>1, <2>2 DEF Addresses
<1>7. /\ last' \in [Depths -> Int] /\ enclosing' \in [Depths -> Int]
      /\ last'[depth] = current
      /\ \A i \in 0..(depth - 1) : last'[i] = last[i] /\ enclosing'[i] = enclosing[i]
  BY <1>3, <1>5
<1>8. Grown(item, FALSE)
  BY <1>1, <1>3, <1>4, <1>6, <1>7 DEF Grown
<1>9. Shape'
  <2>1. DOMAIN buffer' = Addresses'
    BY <1>3, <1>4, <1>5, <1>6 DEF Addresses
  <2>2. DOMAIN buffer' \subseteq 0..current'
    BY <1>1, <1>2, <1>3, <1>4, <1>5
  <2> QED BY <1>3, <1>5, <1>6, <1>7, <1>8, <2>1, <2>2, GrownShape DEF Shape
<1> QED BY <1>8, <1>9, GrownFilled, GrownLists, GrownWays DEF Tree

LEMMA OpenListGrows ==
    ASSUME Tree, Room, OpenList
    PROVE  Tree'
<1> DEFINE b == Enlarged(SetCurrent(AList), LISTITEM_SIZE)
           none == Cell(0, [type |-> "unknown", value |-> 0], 0)
<1>1. ValueSize(AList) = 0 /\ AList.type = "list" /\ ValueSize(AList) \in Sizes
  BY ListSizeIs
<1>2. /\ buffer' = Storing(b, current + LISTITEM_SIZE, none)
      /\ enclosing' = [enclosing EXCEPT ![depth] = current]
      /\ last' = [last EXCEPT ![depth] = current, ![depth + 1] = NoItem]
      /\ current' = current + LISTITEM_SIZE /\ depth' = depth + 1 /\ depth + 1 \in Depths
  BY DEF OpenList
<1>3. Size(AList) = LISTITEM_SIZE /\ LISTITEM_SIZE = 2
  BY <1>1 DEF Size, LISTITEM_SIZE
<1>0. /\ RestOf(AList) = Size(AList) /\ ~Reaches(AList)
      /\ current + LISTITEM_SIZE < RestValues
  <2>1. RestOf(AList) = Size(AList)
    BY <1>1, <1>3, RestIs
  <2>2. ~Reaches(AList)
    BY DEF OpenList
  <2> QED BY <1>3, <2>1, <2>2, BufferAssumption DEF Reaches, End, Tree, Shape
<1>4. /\ DOMAIN b = DOMAIN buffer \cup {current}
      /\ b[current] = Cell(Size(AList), AList, ValueSize(AList))
      /\ \A a \in Addresses :
             b[a] = Cell(IF Outer(a) THEN buffer[a].rest + LISTITEM_SIZE ELSE buffer[a].rest,
                         buffer[a], buffer[a].stored)
  BY <1>1, <1>3, <1>0, ItemAdded
<1>5. none.rest = 0 /\ none = Cell(none.rest, none, none.stored)
  BY DEF Cell
<1> HIDE DEF b, none
<1>6. /\ current \in Nat /\ depth \in Depths /\ depth \in Nat
      /\ enclosing \in [Depths -> Int] /\ last \in [Depths -> Int]
      /\ \A a \in DOMAIN buffer : a \in 0..current
  BY BufferAssumption DEF Tree, Shape, Depths
<1>7. /\ DOMAIN buffer' = DOMAIN buffer \cup {current, current + LISTITEM_SIZE}
      /\ buffer'[current + LISTITEM_SIZE] = none
      /\ \A a \in DOMAIN b : a # current + LISTITEM_SIZE => buffer'[a] = b[a]
  BY <1>2, <1>4 DEF Storing
<1>8. Addresses' = Addresses \cup {current}
  <2>1. Addresses' = {a \in DOMAIN buffer' : a < current + LISTITEM_SIZE}
    BY <1>2 DEF Addresses
  <2> QED BY <1>3, <1>6, <1>7, <2>1 DEF Addresses
<1>9. \A a \in Addresses \cup {current} : buffer'[a] = b[a]
  BY <1>3, <1>4, <1>6, <1>7 DEF Addresses
<1>10. /\ last' \in [Depths -> Int] /\ enclosing' \in [Depths -> Int]
       /\ last'[depth] = current /\ last'[depth + 1] = NoItem /\ enclosing'[depth] = current
       /\ \A i \in 0..(depth - 1) : last'[i] = last[i] /\ enclosing'[i] = enclosing[i]
  <2>1. /\ depth \in Depths /\ depth + 1 \in Depths /\ depth + 1 # depth
        /\ current \in Int /\ NoItem \in Int
        /\ \A i \in 0..(depth - 1) : i \in Depths /\ i # depth /\ i # depth + 1
    BY <1>2, <1>6, BufferAssumption DEF NoItem, Depths
  <2>2. \A f \in [Depths -> Int] : [f EXCEPT ![depth] = current] \in [Depths -> Int]
    BY <2>1
  <2>3. last' = [[last EXCEPT ![depth] = current] EXCEPT ![depth + 1] = NoItem]
    BY <1>2
  <2>4. last' \in [Depths -> Int] /\ enclosing' \in [Depths -> Int]
    BY <1>2, <1>6, <2>1, <2>2, <2>3
  <2>5. last'[depth] = current /\ last'[depth + 1] = NoItem /\ enclosing'[depth] = current
    BY <1>2, <1>6, <2>1, <2>3
  <2>6. ASSUME NEW i \in 0..(depth - 1) PROVE last'[i] = last[i] /\ enclosing'[i] = enclosing[i]
    BY <1>2, <1>6, <2>1, <2>3
  <2> QED BY <2>4, <2>5, <2>6
<1>11. Grown(AList, TRUE)
  <2>1. ValueSize(AList) \in Nat
    BY <1>1
  <2> QED BY <1>1, <1>2, <1>3, <1>4, <1>8, <1>9, <1>10, <2>1 DEF Grown
<1>12. Shape'
  <2>1. /\ DOMAIN buffer' = Addresses' \cup {current'} /\ buffer'[current'] = none
        /\ DOMAIN buffer' \subseteq 0..current'
    <3>1. \A a \in DOMAIN buffer : a \in Addresses \/ a = current
      BY <1>6 DEF Addresses
    <3>2. \A a \in Addresses : a \in DOMAIN buffer
      BY DEF Addresses
    <3>3. current' = current + LISTITEM_SIZE
      BY <1>2
    <3>4. DOMAIN buffer' = Addresses' \cup {current'}
      BY <1>7, <1>8, <3>1, <3>2, <3>3
    <3>5. \A a \in DOMAIN buffer' : a \in 0..current'
      BY <1>3, <1>6, <1>7, <3>3
    <3> QED BY <1>7, <3>3, <3>4, <3>5
  <2>2. depth' \in Depths
    BY <1>2
  <2>3. \A a \in DOMAIN buffer' :
            buffer'[a].rest \in Nat /\ buffer'[a] = Cell(buffer'[a].rest, buffer'[a], buffer'[a].stored)
    <3>1. none.rest \in Nat
      BY <1>5
    <3>2. \A a \in Addresses' :
            buffer'[a].rest \in Nat /\ buffer'[a] = Cell(buffer'[a].rest, buffer'[a], buffer'[a].stored)
      BY <1>11, GrownShape
    <3> QED BY <1>5, <2>1, <3>1, <3>2
  <2> QED BY <1>2, <1>3, <1>6, <1>10, <1>11, <2>1, <2>2, <2>3, GrownShape DEF Shape
<1> QED BY <1>11, <1>12, GrownFilled, GrownLists, GrownWays DEF Tree

-----------------------------------------------------------------------------
\* A list that ends: its last item leads nowhere.
LEMMA ListEnds ==
    ASSUME Tree, buffer' = Ended, current' = current, last[depth] # NoItem
    PROVE  /\ Addresses' = Addresses /\ Leading' = Leading \ {last[depth]}
           /\ last[depth] \in Leading /\ DOMAIN buffer' = DOMAIN buffer
           /\ \A a \in DOMAIN buffer :
                  /\ buffer'[a].type = buffer[a].type /\ buffer'[a].stored = buffer[a].stored
                  /\ a # last[depth] => buffer'[a] = buffer[a]
                  /\ buffer'[a].rest \in Nat
                  /\ buffer'[a] = Cell(buffer'[a].rest, buffer'[a], buffer'[a].stored)
           /\ \A a \in Addresses : ValueSize(buffer'[a]) = ValueSize(buffer[a])
           /\ \A a \in Leading' : NextOf(a)' = NextOf(a)
<1> DEFINE z == last[depth]
<1>1. depth \in Nat /\ depth \in 0..depth
  BY BufferAssumption DEF Tree, Shape, Depths
<1>2. z \in Leading /\ z \in Addresses /\ z \in DOMAIN buffer
  BY <1>1, OuterIs, AddressesAre DEF Tree
<1>3. buffer' = [buffer EXCEPT ![z].rest = 0]
  BY DEF Ended
<1> HIDE DEF z
<1>4. /\ DOMAIN buffer' = DOMAIN buffer /\ buffer'[z] = [buffer[z] EXCEPT !.rest = 0]
      /\ \A a \in DOMAIN buffer : a # z => buffer'[a] = buffer[a]
  BY <1>2, <1>3
<1>5. \A a \in DOMAIN buffer :
          buffer[a].rest \in Nat /\ buffer[a] = Cell(buffer[a].rest, buffer[a], buffer[a].stored)
  BY DEF Tree, Shape
<1>6. /\ buffer'[z].rest = 0 /\ buffer'[z].type = buffer[z].type
      /\ buffer'[z].value = buffer[z].value /\ buffer'[z].stored = buffer[z].stored
      /\ buffer'[z] = Cell(buffer'[z].rest, buffer'[z], buffer'[z].stored)
  BY <1>2, <1>4, <1>5, RestSet
<1>7. \A a \in DOMAIN buffer :
          /\ buffer'[a].type = buffer[a].type /\ buffer'[a].value = buffer[a].value
          /\ buffer'[a].stored = buffer[a].stored /\ buffer'[a].rest \in Nat
          /\ buffer'[a] = Cell(buffer'[a].rest, buffer'[a], buffer'[a].stored)
  <2> TAKE a \in DOMAIN buffer
  <2>1. CASE a = z
    BY <1>6, <2>1
  <2>2. CASE a # z
    <3>1. buffer'[a] = buffer[a]
      BY <1>4, <2>2
    <3> QED BY <1>5, <3>1
  <2> QED BY <2>1, <2>2
<1>8. Addresses' = Addresses
  BY <1>4 DEF Addresses
<1>9. \A a \in Addresses : ValueSize(buffer'[a]) = ValueSize(buffer[a])
  BY <1>7, SameSize, AddressesAre DEF Tree
<1>10. Leading' = Leading \ {z}
  <2>1. Leading' = {a \in Addresses' : buffer'[a].rest # 0}
    BY DEF Leading
  <2> QED BY <1>4, <1>6, <1>8, <2>1, AddressesAre DEF Leading, Tree
<1>11. ASSUME NEW a \in Leading' PROVE NextOf(a)' = NextOf(a)
  <2>1. a \in Leading /\ a # z /\ a \in DOMAIN buffer
    BY <1>10, <1>11, AddressesAre DEF Tree
  <2> QED BY <1>4, <2>1 DEF NextOf
<1> QED BY <1>2, <1>4, <1>7, <1>8, <1>9, <1>10, <1>11 DEF z

LEMMA EndWays ==
    ASSUME Tree, buffer' = Ended, current' = current, last[depth] # NoItem
    PROVE  /\ \A a \in Leading' : \/ NextOf(a)' \in Addresses
                                  \/ \E i \in 0..(depth - 1) : a = last[i]
           /\ \A a : IsList(a)' <=> IsList(a)
           /\ \A a : IsList(a) => a + LISTITEM_SIZE \in Addresses
           /\ \A b \in Addresses \ {0} : \/ \E a \in Leading' : NextOf(a)' = b
                                         \/ \E a : IsList(a) /\ a + LISTITEM_SIZE = b
           /\ \A a \in Leading' : \A l :
                  IsList(l) /\ NextOf(a)' \in Addresses => NextOf(a)' # l + LISTITEM_SIZE
           /\ \A a, b \in Leading' :
                  NextOf(a)' \in Addresses /\ NextOf(a)' = NextOf(b)' => a = b
<1>1. /\ Addresses' = Addresses /\ Leading' = Leading \ {last[depth]}
      /\ \A a \in Leading' : NextOf(a)' = NextOf(a)
      /\ \A a \in Addresses : buffer'[a].type = buffer[a].type
  BY ListEnds, AddressesAre DEF Tree
<1>2. \A a : IsList(a)' <=> IsList(a)
  BY <1>1 DEF IsList
<1>3. /\ depth \in Nat /\ depth \in 0..depth /\ current \notin Addresses
      /\ NextOf(last[depth]) = current
  BY OuterIs DEF Tree, Shape
<1>4. \A a \in Leading' : \/ NextOf(a)' \in Addresses
                          \/ \E i \in 0..(depth - 1) : a = last[i]
  <2> TAKE a \in Leading'
  <2>1. a \in Leading /\ a # last[depth] /\ NextOf(a)' = NextOf(a)
    BY <1>1
  <2>2. NextOf(a) \in Addresses \/ \E i \in 0..depth : a = last[i]
    BY <2>1 DEF Tree, Ways
  <2>3. \A i \in 0..depth : a = last[i] => i \in 0..(depth - 1)
    BY <1>3, <2>1
  <2> QED BY <2>1, <2>2, <2>3
<1>5. \A a : IsList(a) => a + LISTITEM_SIZE \in Addresses
  BY DEF Tree, Ways
<1>6. ASSUME NEW b \in Addresses \ {0}
      PROVE  \/ \E a \in Leading' : NextOf(a)' = b
             \/ \E a : IsList(a) /\ a + LISTITEM_SIZE = b
  <2>1. CASE \E a \in Leading : NextOf(a) = b
    <3>1. PICK a \in Leading : NextOf(a) = b
      BY <2>1
    <3>2. a # last[depth]
      BY <1>3, <1>6, <3>1
    <3> QED BY <1>1, <3>1, <3>2
  <2> QED BY <1>6, <2>1 DEF Tree, Ways
<1>7. \A a \in Leading' : \A l :
          IsList(l) /\ NextOf(a)' \in Addresses => NextOf(a)' # l + LISTITEM_SIZE
  BY <1>1 DEF Tree, Ways
<1>8. \A a, b \in Leading' : NextOf(a)' \in Addresses /\ NextOf(a)' = NextOf(b)' => a = b
  BY <1>1 DEF Tree, Ways
<1> QED BY <1>2, <1>4, <1>5, <1>6, <1>7, <1>8

LEMMA EndShape ==
    ASSUME Tree, buffer' = Ended, current' = current, last[depth] # NoItem
    PROVE  /\ DOMAIN buffer' \subseteq 0..current'
           /\ \A a \in Addresses' : ValueSize(buffer'[a]) \in Nat
           /\ Filled'
<1>1. /\ Addresses' = Addresses /\ DOMAIN buffer' = DOMAIN buffer
      /\ \A a \in Addresses : /\ buffer'[a].stored = buffer[a].stored
                             /\ ValueSize(buffer'[a]) = ValueSize(buffer[a])
  BY ListEnds, AddressesAre DEF Tree
<1>2. /\ \A a \in Addresses : Ends(a)' = Ends(a)
      /\ Room' <=> Room
  BY <1>1 DEF Ends, Room
<1>3. /\ \A a \in Addresses' :
             Ends(a)' <= current' /\ buffer'[a].stored = ValueSize(buffer'[a])
      /\ \A a, b \in Addresses' : a < b => Ends(a)' <= b
  BY <1>1, <1>2 DEF Tree, Filled
<1>4. Filled'
  BY <1>3 DEF Filled
<1> QED BY <1>1, <1>4 DEF Tree, Shape

LEMMA CloseListKeeps ==
    ASSUME Tree, CloseList, last[depth] # NoItem
    PROVE  Tree'
<1>1. /\ buffer' = Ended /\ current' = current /\ last' = last /\ enclosing' = enclosing
      /\ depth' = depth - 1 /\ depth > 0
  BY DEF CloseList
<1>2. /\ depth \in Depths /\ depth' \in Depths /\ depth \in 0..depth /\ depth' \in 0..depth
      /\ depth' < depth /\ depth \in Nat
  BY <1>1, BufferAssumption DEF Tree, Shape, Depths
<1>3. Shape'
  <2>1. \A a \in DOMAIN buffer' :
           buffer'[a].rest \in Nat /\ buffer'[a] = Cell(buffer'[a].rest, buffer'[a], buffer'[a].stored)
    BY <1>1, ListEnds
  <2> QED BY <1>1, <1>2, <2>1, EndShape DEF Shape, Tree
<1>4. ASSUME NEW i \in 0..depth'
      PROVE  /\ last[i] # NoItem /\ last[i] \in Leading' /\ enclosing[i] = last[i]
             /\ buffer'[last[i]].type = "list" /\ last[i] + buffer'[last[i]].rest = current
  <2>1. i \in 0..(depth - 1) /\ i \in 0..depth /\ i < depth
    BY <1>1, <1>2
  <2>2. /\ last[i] # NoItem /\ enclosing[i] = last[i] /\ buffer[last[i]].type = "list"
        /\ last[i] \in Leading /\ NextOf(last[i]) = current
    BY <2>1 DEF Tree, OpenLists
  <2>3. last[i] < last[depth] /\ last[i] \in DOMAIN buffer /\ last[i] \in Nat
    BY <1>2, <2>1, <2>2, AddressesAre DEF Tree, OpenLists
  <2>4. last[depth] \in Nat
    BY <1>1, ListEnds, AddressesAre DEF Tree
  <2>5. last[i] \in Leading' /\ buffer'[last[i]] = buffer[last[i]]
    BY <1>1, <2>2, <2>3, <2>4, ListEnds
  <2> QED BY <2>2, <2>5 DEF NextOf
<1>5. OpenLists'
  <2>1. \A i, j \in 0..depth' : i < j /\ last[j] # NoItem => last[i] < last[j]
    <3>1. depth \in Int /\ depth' \in Int
      BY <1>2
    <3>2. \A i \in 0..depth' : i \in 0..depth
      BY <1>2, <3>1
    <3> QED BY <3>2 DEF Tree, OpenLists
  <2>2. \A i \in 0..(depth' - 1) : i \in 0..depth'
    <3>1. \A n \in Int : \A i \in 0..(n - 1) : i \in 0..n
      OBVIOUS
    <3>2. depth' \in Int
      BY <1>2
    <3> QED BY <3>1, <3>2
  <2>3. last'[depth'] # NoItem
    BY <1>1, <1>2, <1>4
  <2>4. \A i \in 0..depth' : last'[i] # NoItem =>
            last'[i] \in Leading' /\ last'[i] + buffer'[last'[i]].rest = current'
    BY <1>1, <1>4
  <2>5. (\A i \in 0..depth : last[i] # NoItem => last[i] \in Leading /\ NextOf(last[i]) = current)'
    BY <2>4 DEF NextOf
  <2> QED BY <1>1, <1>4, <2>1, <2>2, <2>3, <2>5 DEF OpenLists
<1>6. Ways'
  <2>1. Addresses' = Addresses
    BY <1>1, ListEnds
  <2>2. \A a \in Leading' : NextOf(a)' \in Addresses' \/ \E i \in 0..depth' : a = last'[i]
    BY <1>1, <2>1, EndWays
  <2>3. \A a : IsList(a)' => a + LISTITEM_SIZE \in Addresses'
    BY <1>1, <2>1, EndWays
  <2>4. \A b \in Addresses' \ {0} : \/ \E a \in Leading' : NextOf(a)' = b
                                   \/ \E a : IsList(a)' /\ a + LISTITEM_SIZE = b
    BY <1>1, <2>1, EndWays
  <2>5. \A a \in Leading' : \A l :
           IsList(l)' /\ NextOf(a)' \in Addresses' => NextOf(a)' # l + LISTITEM_SIZE
    BY <1>1, <2>1, EndWays
  <2>6. \A a, b \in Leading' : NextOf(a)' \in Addresses' /\ NextOf(a)' = NextOf(b)' => a = b
    BY <1>1, <2>1, EndWays
  <2> QED BY <2>2, <2>3, <2>4, <2>5, <2>6 DEF Ways
<1> QED BY <1>1, <1>3, <1>5, <1>6, EndShape DEF Tree

LEMMA ExpressionEnds ==
    ASSUME Tree, Room, CloseExpression
    PROVE  WellLaid'
<1>1. buffer' = Ended /\ current' = current /\ depth = 0
  BY DEF CloseExpression
<1>2. CASE last[depth] = NoItem
  <2>1. current = 0
    BY <1>1, <1>2 DEF Tree, OpenLists
  <2>2. Addresses' = {}
    <3>1. DOMAIN buffer' = DOMAIN buffer
      BY <1>1, <1>2 DEF Ended
    <3>2. \A a \in DOMAIN buffer : ~(a < current)
      BY <2>1 DEF Tree, Shape
    <3> QED BY <1>1, <3>1, <3>2 DEF Addresses
  <2>3. Nexts' = {} /\ Firsts' = {} /\ Leading' = {}
    BY <2>2 DEF Nexts, Firsts, Leading
  <2> QED BY <2>2, <2>3 DEF WellLaid
<1>3. CASE last[depth] # NoItem
  <2>1. Filled' /\ Room'
    BY <1>1, <1>3, EndShape DEF Room
  <2>2. Addresses' = Addresses
    BY <1>1, <1>3, ListEnds
  <2>3. ~\E i \in 0..(depth - 1) : TRUE
    BY <1>1
  <2>4. \A a \in Leading' : NextOf(a)' \in Addresses'
    BY <1>1, <1>3, <2>2, <2>3, EndWays
  <2>5. Nexts' = {NextOf(a)' : a \in Leading'}
    BY DEF Nexts
  <2>6. \A x : x \in Firsts' <=> \E a : IsList(a)' /\ a + LISTITEM_SIZE = x
    BY DEF Firsts, IsList
  <2>7. /\ \A a : IsList(a)' => a + LISTITEM_SIZE \in Addresses'
        /\ \A b \in Addresses' \ {0} : \/ \E a \in Leading' : NextOf(a)' = b
                                       \/ \E a : IsList(a)' /\ a + LISTITEM_SIZE = b
        /\ \A a \in Leading' : \A l :
               IsList(l)' /\ NextOf(a)' \in Addresses' => NextOf(a)' # l + LISTITEM_SIZE
        /\ \A a, b \in Leading' : NextOf(a)' \in Addresses' /\ NextOf(a)' = NextOf(b)' => a = b
    BY <1>1, <1>3, <2>2, EndWays
  <2>8. \A x \in Nexts' : x \in Addresses' /\ x # 0
    <3> SUFFICES ASSUME NEW a \in Leading' PROVE NextOf(a)' # 0
      BY <2>4, <2>5
    <3>1. a \in Leading /\ NextOf(a)' = NextOf(a)
      BY <1>1, <1>3, ListEnds
    <3>2. a \in Nat /\ buffer[a].rest \in Nat \ {0} /\ NextOf(a) = a + buffer[a].rest
      BY <3>1, AddressesAre DEF Tree, NextOf
    <3> QED BY <3>1, <3>2
  <2>9. \A x \in Firsts' : x \in Addresses' /\ x # 0
    <3> SUFFICES ASSUME NEW a, IsList(a)' PROVE a + LISTITEM_SIZE \in Addresses' /\ a + LISTITEM_SIZE # 0
      BY <2>6
    <3>1. a \in Nat
      BY <2>2, AddressesAre DEF Tree, IsList
    <3> QED BY <2>7, <3>1 DEF LISTITEM_SIZE
  <2>10. Nexts' \cup Firsts' = Addresses' \ {0}
    BY <2>5, <2>6, <2>7, <2>8, <2>9
  <2>11. Nexts' \cap Firsts' = {}
    BY <2>4, <2>5, <2>6, <2>7
  <2>12. \A a, b \in Leading' : NextOf(a)' = NextOf(b)' => a = b
    BY <2>4, <2>7
  <2> QED BY <2>1, <2>10, <2>11, <2>12 DEF WellLaid, Filled
<1> QED BY <1>2, <1>3

LEMMA StartTree == ASSUME StartExpression PROVE Tree' /\ WellLaid'
<1>1. /\ buffer' = <<>> /\ current' = 0 /\ depth' = 0
      /\ enclosing' = [i \in Depths |-> NoItem] /\ last' = [i \in Depths |-> NoItem]
      /\ 0 \in Depths
  BY BufferAssumption DEF StartExpression, Depths
<1>2. DOMAIN buffer' = {} /\ Addresses' = {} /\ Leading' = {}
  BY <1>1 DEF Addresses, Leading
<1>3. Nexts' = {} /\ Firsts' = {}
  BY <1>2 DEF Nexts, Firsts
<1>4. \A a : ~IsList(a)'
  BY <1>2 DEF IsList
<1>5. Shape'
  BY <1>1, <1>2 DEF Shape, NoItem
<1>6. Filled'
  BY <1>2 DEF Filled
<1>7. OpenLists'
  BY <1>1 DEF OpenLists
<1>8. Ways'
  BY <1>2, <1>4 DEF Ways
<1> QED BY <1>2, <1>3, <1>5, <1>6, <1>7, <1>8 DEF Tree, WellLaid

\* An item that does not fit may make a distance wrap: then there is no room, and the
\* expression is given up.
TreeInv == open /\ Room => Tree

LEMMA TreeStep ==
    ASSUME TreeInv, [NextLayout]_<<reading, open>>, ~(CloseList /\ last[depth] = NoItem)
    PROVE  TreeInv'
<1>1. CASE UNCHANGED <<reading, open>>
  BY <1>1 DEF TreeInv, Tree, Shape, Filled, OpenLists, Ways, reading, IsList, Addresses,
              Leading, NextOf, Ends, Room
<1>2. CASE Begin
  BY <1>2, StartTree DEF TreeInv, Begin
<1>3. CASE Continue
  <2>1. CASE OpenList
    BY <1>3, <2>1, OpenListGrows DEF Continue, TreeInv
  <2>2. CASE CloseList
    BY <1>3, <2>2, CloseListKeeps DEF Continue, TreeInv
  <2>3. CASE AddWord
    BY <1>3, <2>3, AddItemGrows DEF Continue, AddWord, TreeInv
  <2> QED BY <1>3, <2>1, <2>2, <2>3 DEF Continue
<1>4. CASE Complete \/ GiveUp
  BY <1>4 DEF Complete, GiveUp, TreeInv
<1> QED BY <1>1, <1>2, <1>3, <1>4 DEF NextLayout

LEMMA TreeEnds ==
    ASSUME TreeInv, [NextLayout]_<<reading, open>>
    PROVE  [CloseExpression => WellLaid']_reading
<1> SUFFICES ASSUME CloseExpression, reading' # reading
             PROVE  WellLaid'
  OBVIOUS
<1>1. CASE StartExpression
  BY <1>1, StartTree
<1>2. CASE Complete
  BY <1>2, ExpressionEnds DEF Complete, TreeInv
<1>3. CASE Continue
  <2>1. current' = current /\ depth' = depth /\ current \in Nat /\ depth \in Nat
    BY <1>3, BufferAssumption DEF CloseExpression, Continue, TreeInv, Tree, Shape, Depths
  <2>2. ~OpenList /\ ~CloseList
    BY <2>1 DEF OpenList, CloseList
  <2>3. CASE AddWord
    <3>1. IsItem(buffer'[current]) /\ current' = current + RestOf(buffer'[current])
      BY <2>3 DEF AddWord, AddItem
    <3>2. /\ RestOf(buffer'[current]) = ValueSize(buffer'[current]) + LISTITEM_SIZE
          /\ ValueSize(buffer'[current]) \in Nat
      BY <3>1, SizeIs, RestIs, BufferAssumption DEF Sizes
    <3> QED BY <2>1, <3>1, <3>2 DEF LISTITEM_SIZE
  <2> QED BY <1>3, <2>2, <2>3 DEF Continue
<1> QED BY <1>1, <1>2, <1>3 DEF NextLayout, Begin, GiveUp

(***************************************************************************)
(* What eval gets is well laid: of any words that str_buf holds, in lists  *)
(* that last has a place for, as far as the buffer goes, when no list is   *)
(* empty.                                                                  *)
(***************************************************************************)
THEOREM ExpressionKept == LayoutSpec /\ NoEmptyList => ExpressionWellLaid
<1>1. InitLayout => TreeInv
  BY DEF InitLayout, TreeInv
<1>2. TreeInv /\ [NextLayout]_<<reading, open>> /\ [~(CloseList /\ last[depth] = NoItem)]_reading
          => TreeInv'
  <2> SUFFICES ASSUME TreeInv, [NextLayout]_<<reading, open>>,
                      [~(CloseList /\ last[depth] = NoItem)]_reading
               PROVE  TreeInv'
    OBVIOUS
  <2>1. CASE ~(CloseList /\ last[depth] = NoItem)
    BY <2>1, TreeStep
  <2>2. CASE UNCHANGED reading /\ CloseList
    <3>1. depth' = depth - 1 /\ depth' = depth
      BY <2>2 DEF CloseList, reading
    <3>2. open' /\ Room' => open /\ Room
      BY <2>2 DEF NextLayout, Begin, Continue, Complete, GiveUp, StartExpression, CloseList,
                  reading, Room
    <3>3. open' /\ Room' => depth \in Nat
      BY <3>2, BufferAssumption DEF TreeInv, Tree, Shape, Depths
    <3> QED BY <3>1, <3>3 DEF TreeInv
  <2> QED BY <2>1, <2>2
<1>3. TreeInv /\ [NextLayout]_<<reading, open>> => [CloseExpression => WellLaid']_reading
  BY TreeEnds
<1> QED BY <1>1, <1>2, <1>3, PTL DEF LayoutSpec, NoEmptyList, ExpressionWellLaid
=============================================================================
