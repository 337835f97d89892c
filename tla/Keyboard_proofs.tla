---------------------------- MODULE Keyboard_proofs ----------------------------
(***************************************************************************)
(* The keyboard, for every set of texts, length of the buffer and delay:   *)
(* the settings, the reports that keep two strokes apart, and, the largest *)
(* part, that the host gets the strokes that were printed.  For that the   *)
(* buffer is shown to hold, at every moment, the spelling of pieces whose  *)
(* strokes are owed; map_keys, put to such a buffer, reads the first piece *)
(* and stops where the next one begins.                                    *)
(***************************************************************************)
EXTENDS Keyboard, SequenceTheorems, WellFoundedInduction, TLAPS

-----------------------------------------------------------------------------
(***************************************************************************)
(* What FlattenSeq does: it puts the parts one behind the other.           *)
(***************************************************************************)
\* Induction over the natural numbers, stated with a set: a least number that is not in the
\* set would have one before it that is.
LEMMA SetInduction ==
    ASSUME NEW S, 0 \in S, \A n \in Nat : n \in S => n + 1 \in S
    PROVE  \A n \in Nat : n \in S
<1> SUFFICES ASSUME NEW n \in Nat, n \notin S PROVE FALSE
  OBVIOUS
<1> DEFINE T == {m \in Nat : m \notin S}
<1> DEFINE R == OpToRel(<, Nat)
<1>1. IsWellFoundedOn(R, Nat)
  BY NatLessThanWellFounded, Zenon
<1>2. \A x, y \in Nat : y < x => <<y, x>> \in R
  BY DEF OpToRel
<1> HIDE DEF R
<1>3. PICK m \in T : \A y \in T : ~ (<<y, m>> \in R)
  <2>1. n \in T /\ T \subseteq Nat
    OBVIOUS
  <2> HIDE DEF T
  <2> QED BY <1>1, <2>1, WFMin
<1>4. m \in Nat /\ m \notin S /\ m # 0
  OBVIOUS
<1>5. m - 1 \in Nat /\ m - 1 < m /\ (m - 1) + 1 = m
  BY <1>4
<1>6. m - 1 \notin T
  BY <1>2, <1>3, <1>4, <1>5
<1> QED BY <1>4, <1>5, <1>6

\* The recursion that FlattenSeq is defined by has a solution, step by step.
LEMMA FlattenSteps ==
    ASSUME NEW V, NEW s \in Seq(Seq(V)), s # <<>>
    PROVE  \E f \in [1..Len(s) -> Seq(V)] :
               /\ \A i \in 1..Len(s) : f[i] = IF i = 1 THEN s[i] ELSE f[i - 1] \o s[i]
               /\ FlattenSeq(s) = f[Len(s)]
<1>1. Len(s) \in Nat /\ Len(s) # 0 /\ s \in [1..Len(s) -> Seq(V)]
  OBVIOUS
<1> DEFINE Step(f, i) == IF i = 1 THEN s[i] ELSE f[i - 1] \o s[i]
<1> DEFINE Solved(f, n) == f \in [1..n -> Seq(V)] /\ \A i \in 1..n : f[i] = Step(f, i)
<1> DEFINE S == {n \in Nat : n <= Len(s) => \E f : Solved(f, n)}
<1>2. 0 \in S
  <2>1. Solved([i \in {} |-> <<>>], 0)
    OBVIOUS
  <2> QED BY <2>1
<1>3. ASSUME NEW n \in Nat, n \in S PROVE n + 1 \in S
  <2> SUFFICES ASSUME n + 1 <= Len(s) PROVE \E f : Solved(f, n + 1)
    OBVIOUS
  <2>0. n <= Len(s)
    BY <1>1
  <2>1. PICK f : Solved(f, n)
    BY <1>3, <2>0, Zenon
  <2> DEFINE g == [i \in 1..(n + 1) |-> IF i <= n THEN f[i] ELSE Step(f, i)]
  <2>2. \A i \in 1..(n + 1) : s[i] \in Seq(V)
    OBVIOUS
  <2>3. \A i \in 1..n : g[i] = f[i] /\ f[i] \in Seq(V)
    BY <2>1
  <2>4. g \in [1..(n + 1) -> Seq(V)]
    <3>1. Step(f, n + 1) \in Seq(V)
      <4>1. CASE n = 0
        BY <2>2, <4>1
      <4>2. CASE n # 0
        <5>0. n \in 1..n /\ n + 1 \in 1..(n + 1) /\ n + 1 # 1 /\ (n + 1) - 1 = n
          BY <4>2
        <5>1. f[n] \in Seq(V) /\ s[n + 1] \in Seq(V)
          BY <2>2, <2>3, <5>0
        <5>2. f[n] \o s[n + 1] \in Seq(V)
          BY <5>1, ConcatProperties
        <5> QED BY <5>0, <5>2
      <4> QED BY <4>1, <4>2
    <3>2. \A i \in 1..(n + 1) : i \in 1..n \/ (i = n + 1 /\ ~(i <= n))
      OBVIOUS
    <3>3. \A i \in 1..(n + 1) : g[i] \in Seq(V)
      BY <2>3, <3>1, <3>2
    <3> QED BY <3>3
  <2>5. ASSUME NEW i \in 1..(n + 1) PROVE g[i] = Step(g, i)
    <3>1. g[i] = Step(f, i)
      <4>1. CASE i \in 1..n
        BY <2>1, <4>1
      <4>2. CASE i \notin 1..n
        <5>1. ~(i <= n)
          BY <4>2
        <5> QED BY <5>1
      <4> QED BY <4>1, <4>2
    <3>2. i # 1 => i - 1 \in 1..n
      OBVIOUS
    <3>3. i # 1 => g[i - 1] = f[i - 1]
      BY <3>2, <2>3
    <3> QED BY <3>1, <3>3
  <2> HIDE DEF g
  <2> QED BY <2>4, <2>5
<1> HIDE DEF S
<1>4. Len(s) \in S
  BY <1>2, <1>3, <1>1, SetInduction
<1> USE DEF S
<1>5. PICK f : Solved(f, Len(s))
  BY <1>1, <1>4
<1> DEFINE F == CHOOSE h : h = [i \in 1..Len(s) |-> IF i = 1 THEN s[i] ELSE h[i - 1] \o s[i]]
<1>6. f = [i \in 1..Len(s) |-> IF i = 1 THEN s[i] ELSE f[i - 1] \o s[i]]
  BY <1>5
<1>7. F = [i \in 1..Len(s) |-> IF i = 1 THEN s[i] ELSE F[i - 1] \o s[i]]
  BY <1>6, Zenon
<1>8. FlattenSeq(s) = F[Len(s)]
  BY <1>1, Zenon DEF FlattenSeq
<1> HIDE DEF F
<1>9. \A i \in 1..Len(s) : F[i] = Step(F, i)
  BY <1>7
<1>10. F \in [1..Len(s) -> Seq(V)]
  <2> DEFINE R == {n \in Nat : n \in 1..Len(s) => F[n] \in Seq(V)}
  <2>1. 0 \in R
    OBVIOUS
  <2>2. ASSUME NEW n \in Nat, n \in R PROVE n + 1 \in R
    <3> SUFFICES ASSUME n + 1 \in 1..Len(s) PROVE F[n + 1] \in Seq(V)
      OBVIOUS
    <3>1. s[n + 1] \in Seq(V) /\ F[n + 1] = Step(F, n + 1)
      BY <1>9
    <3>2. CASE n = 0
      BY <3>1, <3>2
    <3>3. CASE n # 0
      <4>1. F[n] \in Seq(V)
        BY <2>2, <3>3
      <4> QED BY <3>1, <3>3, <4>1
    <3> QED BY <3>2, <3>3
  <2> HIDE DEF R
  <2>3. \A n \in Nat : n \in R
    BY <2>1, <2>2, SetInduction
  <2> USE DEF R
  <2>4. DOMAIN F = 1..Len(s) /\ F = [i \in 1..Len(s) |-> F[i]]
    BY <1>7
  <2>5. \A i \in 1..Len(s) : F[i] \in Seq(V)
    BY <2>3
  <2> QED BY <2>4, <2>5
<1> QED BY <1>8, <1>9, <1>10

LEMMA FlattenType ==
    ASSUME NEW V, NEW s \in Seq(Seq(V))
    PROVE  FlattenSeq(s) \in Seq(V)
<1>1. CASE s = <<>>
  BY <1>1 DEF FlattenSeq
<1>2. CASE s # <<>>
  <2>1. Len(s) \in 1..Len(s)
    BY <1>2
  <2> QED BY <1>2, <2>1, FlattenSteps
<1> QED BY <1>1, <1>2

LEMMA FlattenEmpty == FlattenSeq(<<>>) = <<>>
  BY DEF FlattenSeq

LEMMA ConcatThree ==
    ASSUME NEW W
    PROVE  \A a, b, c \in Seq(W) : (a \o b) \o c = a \o (b \o c)
<1> SUFFICES ASSUME NEW a \in Seq(W), NEW b \in Seq(W), NEW c \in Seq(W)
             PROVE  (a \o b) \o c = a \o (b \o c)
  OBVIOUS
<1> DEFINE l == (a \o b) \o c
<1> DEFINE r == a \o (b \o c)
<1>1. a \o b \in Seq(W) /\ b \o c \in Seq(W) /\ l \in Seq(W) /\ r \in Seq(W)
  OBVIOUS
<1>2. Len(l) = Len(a) + Len(b) + Len(c) /\ Len(r) = Len(l)
  OBVIOUS
<1>3. \A i \in 1..Len(l) : l[i] = r[i]
  OBVIOUS
<1> HIDE DEF l, r
<1>4. l = r
  BY <1>1, <1>2, <1>3, SeqEqual
<1> QED BY <1>4 DEF l, r

\* The same, for a sequence of n + 1 parts.
LEMMA FlattenParts ==
    ASSUME NEW V, NEW s \in Seq(Seq(V)), NEW n \in Nat, Len(s) = n + 1
    PROVE  \E f : /\ \A i \in 1..(n + 1) : f[i] \in Seq(V) /\ s[i] \in Seq(V)
                  /\ f[1] = s[1]
                  /\ \A i \in 1..n : f[i + 1] = f[i] \o s[i + 1]
                  /\ FlattenSeq(s) = f[n + 1]
<1>1. s # <<>>
  BY EmptySeq
<1>2. PICK f \in [1..Len(s) -> Seq(V)] :
          /\ \A i \in 1..Len(s) : f[i] = IF i = 1 THEN s[i] ELSE f[i - 1] \o s[i]
          /\ FlattenSeq(s) = f[Len(s)]
  BY <1>1, FlattenSteps
<1>3. \A i \in 1..(n + 1) : f[i] \in Seq(V) /\ s[i] \in Seq(V)
  BY ElementOfSeq
<1>4. f[1] = s[1]
  <2>1. 1 \in 1..Len(s)
    OBVIOUS
  <2> QED BY <1>2, <2>1
<1>5. ASSUME NEW i \in 1..n PROVE f[i + 1] = f[i] \o s[i + 1]
  <2>1. i + 1 \in 1..Len(s) /\ i + 1 # 1 /\ (i + 1) - 1 = i
    OBVIOUS
  <2>2. f[i + 1] = f[(i + 1) - 1] \o s[i + 1]
    BY <1>2, <2>1, Zenon
  <2> QED BY <2>1, <2>2, Zenon
<1>6. FlattenSeq(s) = f[n + 1]
  BY <1>2
<1> QED BY <1>3, <1>4, <1>5, <1>6

LEMMA FlattenFirst ==
    ASSUME NEW V, NEW s \in Seq(Seq(V)), s # <<>>
    PROVE  FlattenSeq(s) = s[1] \o FlattenSeq(Tail(s))
<1>1. PICK n \in Nat : Len(s) = n + 1
  <2>1. Len(s) \in Nat \ {0}
    BY EmptySeq
  <2>2. Len(s) - 1 \in Nat /\ Len(s) = (Len(s) - 1) + 1
    BY <2>1
  <2> QED BY <2>2, Zenon
<1>2. /\ Tail(s) \in Seq(Seq(V)) /\ Len(Tail(s)) = n
      /\ \A i \in 1..n : Tail(s)[i] = s[i + 1]
  BY <1>1, HeadTailProperties
<1>3. PICK f : /\ \A i \in 1..(n + 1) : f[i] \in Seq(V) /\ s[i] \in Seq(V)
               /\ f[1] = s[1]
               /\ \A i \in 1..n : f[i + 1] = f[i] \o s[i + 1]
               /\ FlattenSeq(s) = f[n + 1]
  BY <1>1, FlattenParts
<1>4. s[1] \in Seq(V)
  BY <1>3
<1>5. \A a, b, c \in Seq(V) : (a \o b) \o c = a \o (b \o c)
  BY ConcatThree, SMTT(20)
<1>6. CASE n = 0
  <2>1. Tail(s) = <<>>
    BY <1>2, <1>6, EmptySeq
  <2>2. FlattenSeq(s) = s[1]
    BY <1>3, <1>6
  <2>3. s[1] \o <<>> = s[1]
    BY <1>4, ConcatEmptySeq
  <2> QED BY <2>1, <2>2, <2>3, FlattenEmpty
<1>7. CASE n # 0
  <2>1. PICK m \in Nat : n = m + 1
    <3>1. n - 1 \in Nat /\ n = (n - 1) + 1
      BY <1>7
    <3> QED BY <3>1, Zenon
  <2>2. PICK g : /\ \A i \in 1..(m + 1) : g[i] \in Seq(V) /\ Tail(s)[i] \in Seq(V)
                 /\ g[1] = Tail(s)[1]
                 /\ \A i \in 1..m : g[i + 1] = g[i] \o Tail(s)[i + 1]
                 /\ FlattenSeq(Tail(s)) = g[m + 1]
    <3>1. Tail(s) \in Seq(Seq(V)) /\ Len(Tail(s)) = m + 1
      BY <1>2, <2>1
    <3> HIDE <1>2
    <3> QED BY <3>1, FlattenParts, Zenon
  <2> DEFINE Good == {i \in Nat : i <= m => f[(i + 1) + 1] = s[1] \o g[i + 1]}
  <2>3. 0 \in Good
    <3>1. 1 \in 1..n /\ 1 + 1 \in 1..(n + 1)
      BY <2>1
    <3>2. f[1 + 1] = f[1] \o s[1 + 1] /\ Tail(s)[1] = s[1 + 1]
      BY <1>2, <1>3, <3>1
    <3>3. f[1 + 1] = s[1] \o g[1]
      BY <1>3, <2>2, <3>2
    <3>4. (0 + 1) + 1 = 1 + 1 /\ 0 + 1 = 1
      OBVIOUS
    <3> QED BY <3>3, <3>4, Zenon
  <2>4. ASSUME NEW i \in Nat, i \in Good PROVE i + 1 \in Good
    <3>0. i + 1 \in Nat
      OBVIOUS
    <3>1. ASSUME i + 1 <= m PROVE f[((i + 1) + 1) + 1] = s[1] \o g[(i + 1) + 1]
      <4> DEFINE j == i + 1
      <4>1. i <= m /\ j \in 1..m /\ j + 1 \in 1..n /\ (j + 1) + 1 \in 1..(n + 1) /\ j \in 1..(m + 1)
        BY <2>1, <3>1
      <4>2. f[j + 1] = s[1] \o g[j]
        BY <2>4, <4>1
      <4> HIDE DEF j
      <4> DEFINE x == s[(j + 1) + 1]
      <4>3. f[(j + 1) + 1] = f[j + 1] \o x /\ x \in Seq(V)
        BY <1>3, <4>1
      <4>4. g[j + 1] = g[j] \o Tail(s)[j + 1] /\ Tail(s)[j + 1] = x /\ g[j] \in Seq(V)
        BY <1>2, <2>2, <4>1
      <4> HIDE DEF x
      <4>5. (s[1] \o g[j]) \o x = s[1] \o (g[j] \o x)
        <5>2. s[1] \in Seq(V) /\ g[j] \in Seq(V) /\ x \in Seq(V)
          BY <1>4, <4>3, <4>4
        <5> QED BY <1>5, <5>2
      <4>6. f[(j + 1) + 1] = s[1] \o g[j + 1]
        BY <4>2, <4>3, <4>4, <4>5
      <4> QED BY <4>6 DEF j
    <3> QED BY <3>0, <3>1
  <2> HIDE DEF Good
  <2>5. m \in Good
    BY <2>3, <2>4, SetInduction
  <2> USE DEF Good
  <2>6. f[(m + 1) + 1] = s[1] \o g[m + 1]
    <3>1. m <= m
      OBVIOUS
    <3> QED BY <2>5, <3>1, Zenon
  <2> QED BY <1>3, <2>1, <2>2, <2>6
<1> QED BY <1>6, <1>7

LEMMA TailOfConcat ==
    ASSUME NEW V, NEW s \in Seq(V), s # <<>>, NEW t \in Seq(V)
    PROVE  /\ s \o t \in Seq(V) /\ s \o t # <<>> /\ (s \o t)[1] = s[1]
           /\ Tail(s) \in Seq(V) /\ Tail(s \o t) = Tail(s) \o t
<1>1. Len(s) \in Nat /\ Len(s) # 0 /\ Len(t) \in Nat
  BY EmptySeq, LenProperties
<1> DEFINE u == s \o t
<1> DEFINE r == Tail(s)
<1>2. /\ u \in Seq(V) /\ Len(u) = Len(s) + Len(t)
      /\ \A i \in 1..Len(s) + Len(t) : u[i] = IF i <= Len(s) THEN s[i] ELSE t[i - Len(s)]
  BY ConcatProperties
<1>3. r \in Seq(V) /\ Len(r) = Len(s) - 1 /\ \A i \in 1..Len(s) - 1 : r[i] = s[i + 1]
  BY HeadTailProperties
<1> HIDE DEF u, r
<1>4. u # <<>> /\ u[1] = s[1]
  BY <1>1, <1>2, EmptySeq
<1>5. /\ Tail(u) \in Seq(V) /\ Len(Tail(u)) = Len(u) - 1
      /\ \A i \in 1..Len(u) - 1 : Tail(u)[i] = u[i + 1]
  BY <1>2, <1>4, HeadTailProperties
<1>6. /\ r \o t \in Seq(V) /\ Len(r \o t) = Len(r) + Len(t)
      /\ \A i \in 1..Len(r) + Len(t) : (r \o t)[i] = IF i <= Len(r) THEN r[i] ELSE t[i - Len(r)]
  BY <1>3, ConcatProperties
<1> DEFINE l == Tail(u)
<1> DEFINE w == r \o t
<1>7. Len(l) = Len(s) + Len(t) - 1 /\ Len(w) = Len(l)
  BY <1>1, <1>2, <1>3, <1>5, <1>6
<1>8. ASSUME NEW i \in 1..Len(l) PROVE l[i] = w[i]
  <2>1. i \in 1..Len(u) - 1 /\ i + 1 \in 1..Len(s) + Len(t) /\ i \in 1..Len(r) + Len(t)
    BY <1>1, <1>2, <1>3, <1>7
  <2>2. l[i] = u[i + 1]
    BY <1>5, <2>1
  <2>3. CASE i <= Len(r)
    <3>1. i + 1 <= Len(s) /\ i \in 1..Len(s) - 1
      BY <1>1, <1>3, <2>3
    <3>2. u[i + 1] = s[i + 1] /\ w[i] = r[i] /\ r[i] = s[i + 1]
      BY <1>2, <1>3, <1>6, <2>1, <2>3, <3>1
    <3> QED BY <2>2, <3>2
  <2>4. CASE ~(i <= Len(r))
    <3>1. ~(i + 1 <= Len(s)) /\ (i + 1) - Len(s) = i - Len(r)
      BY <1>1, <1>3, <2>4
    <3>2. u[i + 1] = t[(i + 1) - Len(s)] /\ w[i] = t[i - Len(r)]
      BY <1>2, <1>6, <2>1, <2>4, <3>1
    <3> QED BY <2>2, <3>1, <3>2
  <2> QED BY <2>3, <2>4
<1>9. l \in Seq(V) /\ w \in Seq(V)
  BY <1>5, <1>6
<1> HIDE DEF l, w
<1>10. l = w
  BY <1>7, <1>8, <1>9, SeqEqual
<1> QED BY <1>2, <1>3, <1>4, <1>10 DEF l, w, u, r

-----------------------------------------------------------------------------

\* EEPROM holds what scripts have made permanent, and item 0 is not among it, so that
\* no start takes the EEPROM for an erased one.
Stored ==
    /\ stored_bits = savedBits /\ LIO_CONFIG_INITIALIZED \notin savedBits
    /\ stored_byte = savedByte

\* The delay in RAM and in EEPROM is a byte; a stroke is due no earlier than the empty
\* reports that must come before it.
Paced ==
    /\ byte_config \in 0..MaxByte /\ stored_byte \in 0..MaxByte
    /\ count \in Nat /\ apart \in Nat /\ apart <= count

LEMMA InitStored == Init => Stored /\ Paced
  BY DelaysAssumption
  DEF Init, ConfigStart, AfterInit, BoolItems, LIO_CONFIG_INITIALIZED, Stored, Paced

\* A setting that is made permanent leaves the other bits of the EEPROM.
LEMMA ConfigStored == Stored /\ SetConfig => Stored'
<1> SUFFICES ASSUME Stored, SetConfig PROVE Stored'
  OBVIOUS
<1>1. PICK permanent \in BOOLEAN :
        \/ \E item \in Documented, value \in BOOLEAN : SetBool(item, value, permanent)
        \/ \E value \in Delays : SetByte(value, permanent)
  BY DEF SetConfig
<1>2. ASSUME NEW item \in Documented, NEW value \in BOOLEAN, SetBool(item, value, permanent)
      PROVE  Stored'
  <2>1. item # LIO_CONFIG_INITIALIZED
    BY DEF Documented, LIO_CONFIG_INITIALIZED, LIO_PRINT_ERRORS, LIO_NO_LED
  <2>2. stored_byte' = stored_byte /\ savedByte' = savedByte
    BY <1>2 DEF SetBool
  <2>3. CASE permanent
    <3>1. /\ stored_bits' = SetBoolValue(stored_bits, item, value)
          /\ savedBits' = SetBoolValue(savedBits, item, value)
      BY <1>2, <2>3 DEF SetBool, StoreItem
    <3>2. LIO_CONFIG_INITIALIZED \notin SetBoolValue(savedBits, item, value)
      BY <2>1 DEF SetBoolValue, Stored
    <3> QED BY <2>2, <3>1, <3>2, Zenon DEF Stored, LIO_CONFIG_INITIALIZED
  <2>4. CASE ~permanent
    BY <1>2, <2>2, <2>4 DEF SetBool, Stored, LIO_CONFIG_INITIALIZED
  <2> QED BY <2>3, <2>4
<1>3. ASSUME NEW value \in Delays, SetByte(value, permanent) PROVE Stored'
  BY <1>3 DEF SetByte, Stored, LIO_CONFIG_INITIALIZED
<1> QED BY <1>1, <1>2, <1>3

\* The start reads the EEPROM and does not change it.
LEMMA StartReads ==
    ASSUME Stored, ConfigInit
    PROVE  Stored' /\ bit_config' = savedBits /\ byte_config' = savedByte
  BY DEF Stored, ConfigInit, AfterInit, saved, LIO_CONFIG_INITIALIZED

LEMMA StoredStep == Stored /\ [Next]_vars => Stored'
<1> SUFFICES ASSUME Stored, [Next]_vars PROVE Stored'
  OBVIOUS
<1>1. CASE UNCHANGED vars \/ TypeText \/ TypeError \/ CreateReport
  BY <1>1 DEF vars, TypeText, TypeError, KeyPrintf, CreateReport, config, settings, eeprom,
              saved, Stored, LIO_CONFIG_INITIALIZED
<1>2. CASE Config
  BY <1>2, ConfigStored DEF Config
<1>3. CASE PowerCycle
  BY <1>3, StartReads DEF PowerCycle
<1> QED BY <1>1, <1>2, <1>3 DEF Next

\* For every sequence of settings, permanent or not: a reset brings back, item by item,
\* what was last made permanent.
THEOREM PermanentSettingsReturn == Spec => SettingsReturn
<1>1. Stored /\ [Next]_vars =>
        [PowerCycle => bit_config' = savedBits /\ byte_config' = savedByte]_vars
  BY StartReads DEF PowerCycle
<1> QED BY <1>1, InitStored, StoredStep, PTL DEF Spec, SettingsReturn

-----------------------------------------------------------------------------
\* The delay between strokes is a positive byte.
LEMMA DelayType == Paced => Delay \in 1..MaxByte
  BY TextsAssumption, DelaysAssumption DEF Paced, Delay

LEMMA PacedStep == Paced /\ [Next]_vars => Paced'
<1> SUFFICES ASSUME Paced, [Next]_vars PROVE Paced'
  OBVIOUS
<1>1. CASE UNCHANGED vars \/ TypeText \/ TypeError
  BY <1>1 DEF vars, TypeText, TypeError, KeyPrintf, config, settings, eeprom, promised, Paced
<1>2. CASE Config
  <2>1. UNCHANGED <<count, apart>>
    BY <1>2 DEF Config, promised
  <2>2. byte_config' \in 0..MaxByte /\ stored_byte' \in 0..MaxByte
    <3>1. PICK permanent \in BOOLEAN :
            \/ \E item \in Documented, value \in BOOLEAN : SetBool(item, value, permanent)
            \/ \E value \in Delays : SetByte(value, permanent)
      BY <1>2 DEF Config, SetConfig
    <3>2. CASE \E item \in Documented, value \in BOOLEAN : SetBool(item, value, permanent)
      BY <3>2 DEF SetBool, Paced
    <3>3. CASE \E value \in Delays : SetByte(value, permanent)
      BY <3>3, DelaysAssumption DEF SetByte, Paced
    <3> QED BY <3>1, <3>2, <3>3
  <2> QED BY <2>1, <2>2 DEF Paced
<1>3. CASE CreateReport
  <2>1. UNCHANGED <<byte_config, stored_byte>>
    BY <1>3 DEF CreateReport, config, settings, eeprom
  <2>2. Delay \in 1..MaxByte /\ MaxByte \in Nat
    BY DelayType, DelaysAssumption
  <2>3. apart' = IF report' = Empty THEN (IF apart = 0 THEN 0 ELSE apart - 1) ELSE Delay
    BY <1>3 DEF CreateReport, Reported
  <2>4. CASE count = 0
    <3>1. count' = Delay /\ apart = 0
      BY <1>3, <2>4 DEF CreateReport, Reloaded, Paced
    <3> QED BY <2>1, <2>2, <2>3, <3>1 DEF Paced
  <2>5. CASE count # 0
    <3>1. count' = count - 1 /\ report' = Empty
      BY <1>3, <2>5 DEF CreateReport
    <3> QED BY <2>1, <2>2, <2>3, <2>5, <3>1 DEF Paced
  <2> QED BY <2>4, <2>5
<1>4. CASE PowerCycle
  BY <1>4 DEF PowerCycle, ConfigInit, Paced
<1> QED BY <1>1, <1>2, <1>3, <1>4 DEF Next

\* For every delay, and however scripts change it in between: before a stroke come all
\* the empty reports that the stroke before it asked for.
THEOREM StrokesStayApart == Spec => StrokesApart
<1>1. Paced /\ [Next]_vars => [CreateReport /\ report' # Empty => apart = 0]_vars
  BY DEF CreateReport, Paced
<1> QED BY <1>1, InitStored, PacedStep, PTL DEF Spec, StrokesApart

-----------------------------------------------------------------------------
(***************************************************************************)
(* The block of an extension, read by map_extension_block.                 *)
(***************************************************************************)
\* The text as map_keys sees it: the buffer, and nothing behind it.
EndOfInput == BufferLen + 1
Inputs == {input \in [0..EndOfInput -> Symbols \cup {Nul}] :
               input[BufferLen] = Nul /\ input[EndOfInput] = Nul}

LEMMA Sizes ==
    /\ BufferLen \in Nat /\ BufferLen # 0
    /\ EndOfInput = BufferLen + 1 /\ EndOfInput \in Nat /\ EndOfInput - 1 = BufferLen
<1>1. BufferLen \in Nat \ {0}
  BY TextsAssumption, Zenon
<1> QED BY <1>1 DEF EndOfInput

\* What the loop of a block finds from a position on, given what it finds further on.
BlockStep(input, f, i) ==
    IF input[i] \in {Nul, Close} \/ i >= EndOfInput - 1
    THEN [used |-> TRUE, found |-> <<>>, end |-> i + 1]
    ELSE IF FoundAt(input, i) = <<>>
         THEN [used |-> FALSE, found |-> <<>>, end |-> i]
         ELSE LET rest == f[PastItem(input, i)]
              IN  [used |-> rest.used, found |-> FoundAt(input, i) \o rest.found,
                   end |-> rest.end]

\* The loop goes forward, and stops within the buffer.
LEMMA BlockForward ==
    ASSUME NEW input \in Inputs, NEW i \in 0..EndOfInput,
           ~(input[i] \in {Nul, Close} \/ i >= EndOfInput - 1), FoundAt(input, i) # <<>>
    PROVE  PastItem(input, i) \in (i + 1)..EndOfInput
<1>1. /\ BufferLen \in Nat /\ i < BufferLen /\ i \in Nat /\ EndOfInput = BufferLen + 1
      /\ input[BufferLen] = Nul /\ input[BufferLen + 1] = Nul
  BY Sizes DEF Inputs
<1>2. Nul # Plus /\ Nul # Close
  BY DEF Nul, Plus, Close
<1> DEFINE j == PastName(input, i)
<1>3. j \in i..BufferLen /\ j \in Nat
  BY <1>1 DEF PastName
<1>4. Single(input, i) => j < BufferLen
  <2> SUFFICES ASSUME Single(input, i), j = BufferLen PROVE FALSE
    BY <1>1, <1>3
  <2> QED BY <1>1, <1>2 DEF Single, IsSingle
<1>5. Named(input, i) \/ Single(input, i)
  BY DEF FoundAt
<1>6. Named(input, i) => j = i + 1
  BY DEF PastName
<1> DEFINE k == IF Single(input, i) THEN j + 1 ELSE j
<1> HIDE DEF j
<1>7. k \in (i + 1)..BufferLen
  BY <1>1, <1>3, <1>4, <1>5, <1>6
<1>8. PastItem(input, i) = PastPlus(input, k)
  BY DEF PastItem, j
<1> HIDE DEF k
<1>9. input[k] = Plus => k < BufferLen
  BY <1>1, <1>2, <1>7
<1> QED BY <1>1, <1>7, <1>8, <1>9 DEF PastPlus

\* The recursion of Block has a solution, from the end of the buffer back to any start.
LEMMA BlockSteps ==
    ASSUME NEW input \in Inputs, NEW start \in 0..EndOfInput
    PROVE  \E f : /\ \A i \in start..EndOfInput : f[i] = BlockStep(input, f, i)
                  /\ Block(input, start, EndOfInput) = f[start]
<1>1. EndOfInput \in Nat
  BY Sizes
<1> DEFINE Solved(f, a) == f = [i \in a..EndOfInput |-> BlockStep(input, f, i)]
<1> DEFINE Good == {n \in Nat : n <= EndOfInput => \E f : Solved(f, EndOfInput - n)}
<1>2. 0 \in Good
  <2> DEFINE f == [i \in EndOfInput..EndOfInput |-> BlockStep(input, input, i)]
  <2>1. \A g : BlockStep(input, g, EndOfInput) = [used |-> TRUE, found |-> <<>>, end |-> EndOfInput + 1]
    BY <1>1 DEF BlockStep
  <2>2. \A i \in EndOfInput..EndOfInput : i = EndOfInput
    BY <1>1
  <2>3. f = [i \in EndOfInput..EndOfInput |-> BlockStep(input, f, i)]
    BY <2>1, <2>2
  <2> HIDE DEF f
  <2>4. EndOfInput - 0 = EndOfInput
    BY <1>1
  <2> QED BY <2>3, <2>4
<1>3. ASSUME NEW n \in Nat, n \in Good PROVE n + 1 \in Good
  <2> SUFFICES ASSUME n + 1 <= EndOfInput PROVE \E f : Solved(f, EndOfInput - (n + 1))
    OBVIOUS
  <2> DEFINE b == EndOfInput - n
  <2> DEFINE a == EndOfInput - (n + 1)
  <2>1. a \in Nat /\ b \in Nat /\ b = a + 1 /\ b <= EndOfInput
    BY <1>1
  <2>2. PICK f : Solved(f, b)
    BY <1>1, <1>3
  <2> HIDE DEF a, b
  <2> DEFINE g == [i \in a..EndOfInput |-> IF i = a THEN BlockStep(input, f, i) ELSE f[i]]
  <2>3. \A i \in b..EndOfInput : g[i] = f[i]
    BY <2>1
  <2>4. ASSUME NEW i \in a..EndOfInput PROVE BlockStep(input, f, i) = BlockStep(input, g, i)
    <3>1. CASE \/ input[i] \in {Nul, Close} \/ i >= EndOfInput - 1
               \/ FoundAt(input, i) = <<>>
      BY <3>1 DEF BlockStep
    <3>2. CASE ~(input[i] \in {Nul, Close} \/ i >= EndOfInput - 1) /\ FoundAt(input, i) # <<>>
      <4>1. PastItem(input, i) \in (i + 1)..EndOfInput
        BY <1>1, <2>1, <3>2, BlockForward
      <4>2. g[PastItem(input, i)] = f[PastItem(input, i)]
        BY <2>1, <2>3, <4>1
      <4> QED BY <4>2 DEF BlockStep
    <3> QED BY <3>1, <3>2
  <2>5. \A i \in a..EndOfInput : g[i] = BlockStep(input, f, i)
    <3>1. \A i \in a..EndOfInput : i = a \/ i \in b..EndOfInput
      BY <2>1
    <3>2. \A i \in b..EndOfInput : f[i] = BlockStep(input, f, i)
      BY <2>2, Zenon
    <3> QED BY <3>1, <3>2
  <2>6. Solved(g, a)
    BY <2>4, <2>5
  <2> HIDE DEF g
  <2> QED BY <2>6 DEF a
<1> HIDE DEF Good
<1>4. EndOfInput - start \in Good
  BY <1>1, <1>2, <1>3, SetInduction
<1>5. PICK f : Solved(f, start)
  <2>1. EndOfInput - start <= EndOfInput /\ EndOfInput - (EndOfInput - start) = start
    BY <1>1
  <2> QED BY <1>4, <2>1 DEF Good
<1> DEFINE F == CHOOSE h : h = [i \in start..EndOfInput |-> BlockStep(input, h, i)]
<1>6. F = [i \in start..EndOfInput |-> BlockStep(input, F, i)]
  BY <1>5, Zenon
<1>7. Block(input, start, EndOfInput) = F[start]
  BY Zenon DEF Block, BlockStep
<1> HIDE DEF F
<1>8. start \in start..EndOfInput
  BY <1>1
<1>9. \A i \in start..EndOfInput : F[i] = BlockStep(input, F, i)
  BY <1>6, Zenon
<1> QED BY <1>7, <1>9

\* What is told apart by the loop of a block is different.
LEMMA SignsDiffer ==
    /\ Plus # Close /\ Percent # Backslash /\ Percent # Open /\ Percent # Close /\ Open # Backslash
    /\ Nul # Plus /\ Nul # Close /\ Nul # Open /\ Nul # Percent /\ Nul # Backslash
    /\ Plus # Backslash /\ Close # Backslash /\ Plus # Percent /\ Open # Close /\ Open # Plus
  BY DEF Plus, Close, Percent, Open, Backslash, Nul

\* An item of a block, followed by a sign and by something that does not end it twice.
LEMMA ItemRead ==
    ASSUME NEW input, NEW i \in Nat, input[i] \in BlockItems, input[i + 1] \in {Plus, Close},
           input[i + 2] # Close
    PROVE  /\ FoundAt(input, i) = <<input[i]>>
           /\ PastItem(input, i) = IF input[i + 1] = Plus THEN i + 2 ELSE i + 1
<1>1. input[i + 1] \notin Words /\ (i + 1) + 1 = i + 2
  BY SymbolsAssumption DEF Marks
<1>2. CASE Named(input, i)
  <2>1. PastName(input, i) = i + 1
    BY <1>2 DEF PastName
  <2>2. ~Single(input, i)
    BY <1>1, <1>2, <2>1 DEF Single, IsSingle
  <2>3. FoundAt(input, i) = <<input[i]>>
    BY <1>2, <2>2 DEF FoundAt
  <2>4. PastItem(input, i) = PastPlus(input, i + 1)
    BY <2>1, <2>2 DEF PastItem
  <2> QED BY <1>1, <2>3, <2>4 DEF PastPlus
<1>3. CASE ~Named(input, i)
  <2>1. PastName(input, i) = i
    BY <1>3 DEF PastName
  <2>2. input[i] \notin Words
    BY <1>3, SymbolsAssumption DEF Named, BlockItems
  <2>3. Single(input, i)
    BY <1>1, <1>3, <2>1, <2>2 DEF Single, IsSingle
  <2>4. FoundAt(input, i) = <<input[i]>>
    BY <1>3, <2>1, <2>3 DEF FoundAt
  <2>5. PastItem(input, i) = PastPlus(input, i + 1)
    BY <2>1, <2>3 DEF PastItem
  <2> QED BY <1>1, <2>4, <2>5 DEF PastPlus
<1> QED BY <1>2, <1>3

\* A block in the buffer, at a position.
BlockAt(input, at, items) ==
    LET n == Len(items)
    IN  /\ at + 2 * n + 2 <= BufferLen
        /\ input[at] = Percent /\ input[at + 1] = Open
        /\ \A q \in 1..n : /\ input[at + 2 * q] = items[q]
                          /\ input[at + 2 * q + 1] = IF q = n THEN Close ELSE Plus
        /\ input[at + 2 * n + 2] # Close

\* Its loop finds all its items, from the last one back to the first.
LEMMA BlockFinds ==
    ASSUME NEW input \in Inputs, NEW items \in Seq(BlockItems), items # <<>>, NEW at \in Nat,
           BlockAt(input, at, items)
    PROVE  Block(input, at + 2, EndOfInput)
               = [used |-> TRUE, found |-> items, end |-> at + 2 * Len(items) + 2]
<1> DEFINE n == Len(items)
<1>1. /\ n \in Nat /\ n # 0 /\ at + 2 * n + 2 <= BufferLen
      /\ BufferLen \in Nat /\ EndOfInput = BufferLen + 1 /\ EndOfInput - 1 = BufferLen
      /\ at + 2 \in 0..EndOfInput
  BY Sizes DEF BlockAt
<1>2. PICK f : /\ \A i \in (at + 2)..EndOfInput : f[i] = BlockStep(input, f, i)
               /\ Block(input, at + 2, EndOfInput) = f[at + 2]
  BY <1>1, BlockSteps
<1>3. /\ \A q \in 1..n : /\ input[at + 2 * q] = items[q] /\ items[q] \in BlockItems
                          /\ input[at + 2 * q + 1] = IF q = n THEN Close ELSE Plus
      /\ input[at + 2 * n + 2] # Close
  BY DEF BlockAt
<1>4. \A s \in BlockItems : s # Close /\ s # Nul
  BY SymbolsAssumption DEF BlockItems, Symbols, Words
<1> DEFINE Found(q) == [used |-> TRUE, found |-> SubSeq(items, q, n), end |-> at + 2 * n + 2]
<1> HIDE DEF n
<1>5. f[at + 2 * n + 1] = [used |-> TRUE, found |-> <<>>, end |-> at + 2 * n + 2]
  <2>1. at + 2 * n + 1 \in (at + 2)..EndOfInput /\ (at + 2 * n + 1) + 1 = at + 2 * n + 2
    BY <1>1
  <2>2. n \in 1..n
    BY <1>1
  <2>3. input[at + 2 * n + 1] = Close
    BY <1>3, <2>2
  <2> QED BY <1>2, <2>1, <2>3 DEF BlockStep
<1>6. ASSUME NEW q \in 1..n,
             q < n => f[at + 2 * (q + 1)] = Found(q + 1)
      PROVE  f[at + 2 * q] = Found(q)
  <2> DEFINE i == at + 2 * q
  <2>1. /\ i \in Nat /\ i \in (at + 2)..EndOfInput /\ ~(i >= EndOfInput - 1)
        /\ i + 1 = at + 2 * q + 1 /\ i + 2 = at + 2 * (q + 1)
    BY <1>1
  <2>2. input[i] = items[q] /\ items[q] \in BlockItems /\ input[i] \notin {Nul, Close}
    BY <1>3, <1>4
  <2>3. input[i + 1] = IF q = n THEN Close ELSE Plus
    BY <1>3, <2>1
  <2>4. input[i + 2] # Close
    <3>1. CASE q = n
      <4>1. i + 2 = at + 2 * n + 2
        BY <2>1, <3>1
      <4> QED BY <1>3, <4>1
    <3>2. CASE q # n
      <4>1. q + 1 \in 1..n
        BY <1>1, <3>2
      <4> QED BY <1>3, <1>4, <2>1, <4>1
    <3> QED BY <3>1, <3>2
  <2>5. /\ FoundAt(input, i) = <<items[q]>>
        /\ PastItem(input, i) = IF q = n THEN i + 1 ELSE i + 2
    BY <2>1, <2>2, <2>3, <2>4, ItemRead, SignsDiffer
  <2>6. <<items[q]>> # <<>>
    OBVIOUS
  <2> DEFINE rest == f[PastItem(input, i)]
  <2>7. f[i] = [used |-> rest.used, found |-> <<items[q]>> \o rest.found, end |-> rest.end]
    BY <1>2, <2>1, <2>2, <2>5, <2>6 DEF BlockStep
  <2>8. CASE q = n
    <3>1. PastItem(input, i) = at + 2 * n + 1
      BY <2>1, <2>5, <2>8
    <3>2. f[i] = [used |-> TRUE, found |-> <<items[q]>> \o <<>>, end |-> at + 2 * n + 2]
      <4>1. rest.used = TRUE /\ rest.found = <<>> /\ rest.end = at + 2 * n + 2
        BY <1>5, <3>1
      <4> QED BY <2>7, <4>1, Zenon
    <3>3. SubSeq(items, n, n) = <<items[n]>> \o <<>>
      <4>1. SubSeq(items, n, n) = <<items[n]>> \o SubSeq(items, n + 1, n)
        BY <1>1, SubSeqRecursiveFirst DEF n
      <4>2. SubSeq(items, n + 1, n) = <<>>
        BY <1>1, SubSeqEmpty
      <4> QED BY <4>1, <4>2
    <3> QED BY <2>8, <3>2, <3>3
  <2>9. CASE q # n
    <3>1. q < n /\ PastItem(input, i) = at + 2 * (q + 1)
      BY <1>1, <2>1, <2>5, <2>9
    <3>2. f[i] = [used |-> TRUE, found |-> <<items[q]>> \o SubSeq(items, q + 1, n),
                  end |-> at + 2 * n + 2]
      <4>1. /\ rest.used = TRUE /\ rest.found = SubSeq(items, q + 1, n)
            /\ rest.end = at + 2 * n + 2
        BY <1>6, <3>1
      <4> QED BY <2>7, <4>1, Zenon
    <3>3. SubSeq(items, q, n) = <<items[q]>> \o SubSeq(items, q + 1, n)
      BY <1>1, SubSeqRecursiveFirst DEF n
    <3> QED BY <3>2, <3>3
  <2> QED BY <2>8, <2>9
<1> DEFINE Good == {m \in Nat : m < n => f[at + 2 * (n - m)] = Found(n - m)}
<1>7. 0 \in Good
  <2>1. n \in 1..n /\ ~(n < n) /\ n - 0 = n
    BY <1>1
  <2>2. f[at + 2 * n] = Found(n)
    BY <1>6, <2>1
  <2> QED BY <2>1, <2>2
<1>8. ASSUME NEW m \in Nat, m \in Good PROVE m + 1 \in Good
  <2> DEFINE q == n - (m + 1)
  <2>1. m + 1 \in Nat
    OBVIOUS
  <2>2. ASSUME m + 1 < n PROVE f[at + 2 * q] = Found(q)
    <3>1. q \in 1..n /\ m < n /\ q + 1 = n - m
      BY <1>1, <2>2
    <3>2. f[at + 2 * (q + 1)] = Found(q + 1)
      BY <1>8, <3>1
    <3> HIDE DEF q
    <3> QED BY <1>6, <3>1, <3>2
  <2> QED BY <2>1, <2>2
<1> HIDE DEF Good
<1>9. n - 1 \in Good
  BY <1>1, <1>7, <1>8, SetInduction
<1>10. f[at + 2] = Found(1)
  <2>1. n - 1 < n /\ n - (n - 1) = 1 /\ 2 * 1 = 2
    BY <1>1
  <2> QED BY <1>9, <2>1 DEF Good
<1>11. SubSeq(items, 1, n) = items
  BY SubSeqFull DEF n
<1> QED BY <1>2, <1>10, <1>11 DEF n

LEMMA BlockRead ==
    ASSUME NEW input \in Inputs, NEW items \in Seq(BlockItems), items # <<>>, NEW at \in Nat,
           BlockAt(input, at, items)
    PROVE  MapKeys(input, at, EndOfInput)
               = [report |-> Pressed(items), read |-> 2 * Len(items) + 2]
<1>1. input[at] = Percent /\ input[at + 1] = Open /\ Len(items) \in Nat
  BY DEF BlockAt
<1>2. MapKeys(input, at, EndOfInput) = MapExtensionBlock(input, at, EndOfInput)
  BY <1>1 DEF MapKeys
<1>3. Block(input, at + 2, EndOfInput)
          = [used |-> TRUE, found |-> items, end |-> at + 2 * Len(items) + 2]
  BY BlockFinds
<1> DEFINE block == Block(input, at + 2, EndOfInput)
<1>4. MapExtensionBlock(input, at, EndOfInput)
          = [report |-> Pressed(items), read |-> (at + 2 * Len(items) + 2) - at]
  <2>1. block.used /\ block.found = items /\ block.end = at + 2 * Len(items) + 2
    BY <1>3
  <2> HIDE <1>3
  <2> QED BY <2>1, Zenon DEF MapExtensionBlock
<1>5. (at + 2 * Len(items) + 2) - at = 2 * Len(items) + 2
  BY <1>1
<1> QED BY <1>2, <1>4, <1>5
-----------------------------------------------------------------------------
\* A report that map_keys can have made.
Reports == {r \in Strokes : Len(r.keys) <= MaxKeys}

LEMMA EmptyReport == Empty \in Reports
<1>1. Empty.keys = <<>> /\ <<>> \in Seq(Codes)
  BY DEF Empty
<1>2. Empty \in Strokes
  BY <1>1 DEF Empty, Strokes
<1> QED BY <1>1, <1>2 DEF Reports, MaxKeys

LEMMA KeycodeAdded ==
    ASSUME NEW r \in Reports, NEW key \in Codes
    PROVE  /\ AddKeycode(r, key) \in Reports
           /\ AddKeycode(r, key).mods = r.mods
           /\ AddKeycode(r, key).keys # <<>>
<1>1. r.mods \in SUBSET Modifiers /\ r.keys \in Seq(Codes) /\ Len(r.keys) <= 6
  BY DEF Reports, Strokes, MaxKeys
<1>2. CASE Len(r.keys) = 6
  <2>1. AddKeycode(r, key) = r
    BY <1>2 DEF AddKeycode, MaxKeys
  <2>2. r.keys # <<>>
    BY <1>1, <1>2
  <2> QED BY <2>1, <2>2
<1>3. CASE Len(r.keys) # 6
  <2> DEFINE more == Append(r.keys, key)
  <2>1. more \in Seq(Codes) /\ Len(more) <= 6 /\ more # <<>>
    <3>1. more \in Seq(Codes) /\ Len(more) = Len(r.keys) + 1
      BY <1>1, AppendProperties
    <3>2. Len(r.keys) \in Nat /\ Len(<<>>) = 0
      BY <1>1
    <3> HIDE DEF more
    <3>3. Len(more) <= 6 /\ Len(more) # 0
      <4>1. \A n \in Nat : n <= 6 /\ n # 6 => n + 1 <= 6 /\ n + 1 # 0
        OBVIOUS
      <4> QED BY <1>1, <1>3, <3>1, <3>2, <4>1, Zenon
    <3> QED BY <3>1, <3>2, <3>3
  <2> HIDE DEF more
  <2>2. AddKeycode(r, key) = [r EXCEPT !.keys = more]
    BY <1>3 DEF AddKeycode, MaxKeys, more
  <2>3. [r EXCEPT !.keys = more] \in Strokes
    BY <2>1 DEF Reports, Strokes
  <2>4. [r EXCEPT !.keys = more].keys = more /\ [r EXCEPT !.keys = more].mods = r.mods
    BY <2>1 DEF Reports, Strokes
  <2> QED BY <2>1, <2>2, <2>3, <2>4 DEF Reports, MaxKeys
<1> QED BY <1>2, <1>3

LEMMA ModsSet ==
    ASSUME NEW r \in Reports, NEW mods \in SUBSET Modifiers
    PROVE  /\ [r EXCEPT !.mods = mods] \in Reports
           /\ [r EXCEPT !.mods = mods].mods = mods
           /\ [r EXCEPT !.mods = mods].keys = r.keys
<1>1. [r EXCEPT !.mods = mods] \in Strokes
  BY DEF Reports, Strokes
<1>2. [r EXCEPT !.mods = mods].mods = mods /\ [r EXCEPT !.mods = mods].keys = r.keys
  BY DEF Reports, Strokes
<1> QED BY <1>1, <1>2 DEF Reports

LEMMA TypedReport ==
    ASSUME NEW r \in Reports, NEW s \in Symbols, s # Backslash
    PROVE  /\ Typed(r, s) \in Reports /\ Typed(r, s).keys # <<>>
           /\ Typed(r, s).keys = AddKeycode(r, s).keys
           /\ r.mods = {} =>
                Typed(r, s).mods = IF s \in Marks \cup Capitals THEN {"LeftShift"} ELSE {}
<1>1. s # Nul /\ {"LeftShift"} \in SUBSET Modifiers
  BY SymbolsAssumption
<1>2. s \in Codes
  BY DEF Symbols, Codes
<1> DEFINE more == AddKeycode(r, s)
<1>3. more \in Reports /\ more.mods = r.mods /\ more.keys # <<>>
  BY <1>2, KeycodeAdded
<1> HIDE DEF more
<1>a. ASSUME NEW mods \in SUBSET Modifiers, Typed(r, s) = [more EXCEPT !.mods = mods]
      PROVE  Typed(r, s) \in Reports /\ Typed(r, s).mods = mods /\ Typed(r, s).keys = more.keys
  <2>1. /\ [more EXCEPT !.mods = mods] \in Reports
        /\ [more EXCEPT !.mods = mods].mods = mods
        /\ [more EXCEPT !.mods = mods].keys = more.keys
    BY <1>3, ModsSet
  <2> QED BY <1>a, <2>1
<1>4. CASE s \in Marks
  <2>1. Typed(r, s) = [more EXCEPT !.mods = {"LeftShift"}]
    BY <1>1, <1>4 DEF Typed, more
  <2>2. /\ Typed(r, s) \in Reports /\ Typed(r, s).mods = {"LeftShift"}
        /\ Typed(r, s).keys = more.keys
    BY <1>1, <1>a, <2>1
  <2> QED BY <1>3, <1>4, <2>2 DEF more
<1>5. CASE s \in Capitals /\ s \notin Marks
  <2> DEFINE mods == more.mods \cup {"LeftShift"}
  <2>1. Typed(r, s) = [more EXCEPT !.mods = mods]
    BY <1>1, <1>5 DEF Typed, more
  <2>2. mods \in SUBSET Modifiers /\ (r.mods = {} => mods = {"LeftShift"})
    BY <1>1, <1>3 DEF Reports, Strokes
  <2> HIDE DEF mods
  <2>3. Typed(r, s) \in Reports /\ Typed(r, s).mods = mods /\ Typed(r, s).keys = more.keys
    BY <1>a, <2>1, <2>2
  <2> QED BY <1>3, <1>5, <2>2, <2>3 DEF more
<1>6. CASE s \notin Marks \cup Capitals
  <2>1. Typed(r, s) = more
    BY <1>1, <1>6 DEF Typed, more
  <2> QED BY <1>3, <1>6, <2>1 DEF more
<1> QED BY <1>4, <1>5, <1>6

LEMMA InBlockReport ==
    ASSUME NEW r \in Reports, NEW s \in BlockItems
    PROVE  InBlock(r, s) \in Reports /\ InBlock(r, s) # Empty
<1>1. CASE s \in Modifiers
  <2> DEFINE mods == r.mods \cup {s}
  <2>1. mods \in SUBSET Modifiers /\ mods # {}
    BY <1>1 DEF Reports, Strokes
  <2>2. InBlock(r, s) = [r EXCEPT !.mods = mods]
    BY <1>1 DEF InBlock
  <2>3. Empty.mods = {}
    BY DEF Empty
  <2> HIDE DEF mods
  <2> QED BY <2>1, <2>2, <2>3, ModsSet
<1>2. CASE s \notin Modifiers
  <2>1. InBlock(r, s) = Typed(r, s)
    BY <1>2 DEF InBlock
  <2>2. s \in Symbols /\ s # Backslash
    BY SymbolsAssumption, SignsDiffer DEF BlockItems, Symbols, Words, Marks
  <2>3. Typed(r, s) \in Reports /\ Typed(r, s).keys # <<>>
    BY <2>2, TypedReport
  <2>4. Empty.keys = <<>>
    BY DEF Empty
  <2> QED BY <2>1, <2>3, <2>4
<1> QED BY <1>1, <1>2

\* The recursion of Pressed has a solution.
LEMMA PressedSteps ==
    ASSUME NEW items \in Seq(BlockItems)
    PROVE  \E f : /\ f[0] = Empty
                  /\ \A n \in 1..Len(items) : f[n] = InBlock(f[n - 1], items[n])
                  /\ Pressed(items) = f[Len(items)]
<1> DEFINE last == Len(items)
<1> DEFINE Step(f, n) == IF n = 0 THEN Empty ELSE InBlock(f[n - 1], items[n])
<1> DEFINE Good == {k \in Nat : k <= last => \E f : f = [n \in 0..k |-> Step(f, n)]}
<1>0. last \in Nat
  OBVIOUS
<1> HIDE DEF last
<1>1. 0 \in Good
  <2> DEFINE f == [n \in 0..0 |-> Empty]
  <2>1. f = [n \in 0..0 |-> Step(f, n)]
    OBVIOUS
  <2> HIDE DEF f
  <2> QED BY <2>1
<1>2. ASSUME NEW k \in Nat, k \in Good PROVE k + 1 \in Good
  <2> SUFFICES ASSUME k + 1 <= last PROVE \E f : f = [n \in 0..(k + 1) |-> Step(f, n)]
    OBVIOUS
  <2>1. PICK f : f = [n \in 0..k |-> Step(f, n)]
    BY <1>0, <1>2
  <2> DEFINE g == [n \in 0..(k + 1) |-> IF n \in 0..k THEN f[n] ELSE Step(f, n)]
  <2>2. \A n \in 0..k : g[n] = f[n] /\ f[n] = Step(f, n)
    <3>1. \A n \in 0..k : f[n] = Step(f, n)
      BY <2>1, Zenon
    <3> QED BY <3>1
  <2>3. \A n \in 0..(k + 1) : Step(g, n) = Step(f, n)
    <3> SUFFICES ASSUME NEW n \in 0..(k + 1), n # 0 PROVE g[n - 1] = f[n - 1]
      OBVIOUS
    <3>1. n - 1 \in 0..k
      OBVIOUS
    <3> QED BY <2>2, <3>1
  <2>4. \A n \in 0..(k + 1) : g[n] = Step(g, n)
    BY <2>2, <2>3
  <2>5. g = [n \in 0..(k + 1) |-> g[n]]
    OBVIOUS
  <2> HIDE DEF g
  <2>6. g = [n \in 0..(k + 1) |-> Step(g, n)]
    BY <2>4, <2>5
  <2> QED BY <2>6
<1> HIDE DEF Good
<1>3. last \in Good
  BY <1>0, <1>1, <1>2, SetInduction
<1>4. PICK f : f = [n \in 0..last |-> Step(f, n)]
  BY <1>0, <1>3 DEF Good
<1> DEFINE F == CHOOSE h : h = [n \in 0..last |-> Step(h, n)]
<1>5. F = [n \in 0..last |-> Step(F, n)]
  BY <1>4, Zenon
<1>6. Pressed(items) = F[last]
  BY Zenon DEF Pressed, last
<1> HIDE DEF F
<1>7. \A n \in 0..last : F[n] = Step(F, n)
  BY <1>5, Zenon
<1>8. F[0] = Empty /\ \A n \in 1..last : F[n] = InBlock(F[n - 1], items[n])
  BY <1>0, <1>7
<1> QED BY <1>6, <1>8 DEF last

LEMMA PressedNone == Pressed(<<>>) = Empty
<1>1. <<>> \in Seq(BlockItems) /\ Len(<<>>) = 0
  OBVIOUS
<1>2. PICK f : f[0] = Empty /\ Pressed(<<>>) = f[Len(<<>>)]
  BY <1>1, PressedSteps
<1> QED BY <1>1, <1>2

LEMMA PressedReport ==
    ASSUME NEW items \in Seq(BlockItems), items # <<>>
    PROVE  Pressed(items) \in Reports /\ Pressed(items) # Empty
<1> DEFINE last == Len(items)
<1>1. PICK f : /\ f[0] = Empty
               /\ \A n \in 1..last : f[n] = InBlock(f[n - 1], items[n])
               /\ Pressed(items) = f[last]
  BY PressedSteps
<1>2. last \in Nat /\ last # 0 /\ \A n \in 1..last : items[n] \in BlockItems
  BY EmptySeq, ElementOfSeq
<1> HIDE DEF last
<1>3. ASSUME NEW n \in Nat, n + 1 <= last, f[n] \in Reports
      PROVE  f[n + 1] \in Reports /\ f[n + 1] # Empty
  <2>1. n + 1 \in 1..last /\ (n + 1) - 1 = n
    BY <1>2, <1>3
  <2>2. f[n + 1] = InBlock(f[n], items[n + 1]) /\ items[n + 1] \in BlockItems
    BY <1>1, <1>2, <2>1
  <2> QED BY <1>3, <2>2, InBlockReport
<1> DEFINE Good == {n \in Nat : n <= last => f[n] \in Reports}
<1>4. 0 \in Good
  BY <1>1, EmptyReport
<1>5. ASSUME NEW n \in Nat, n \in Good PROVE n + 1 \in Good
  <2>1. n + 1 <= last => n <= last
    BY <1>2
  <2> QED BY <1>3, <1>5, <2>1
<1> HIDE DEF Good
<1>6. last - 1 \in Good /\ last - 1 \in Nat /\ (last - 1) + 1 = last
  BY <1>2, <1>4, <1>5, SetInduction
<1>7. f[last - 1] \in Reports
  BY <1>2, <1>6 DEF Good
<1> QED BY <1>1, <1>2, <1>3, <1>6, <1>7
-----------------------------------------------------------------------------
(***************************************************************************)
(* Pieces of a text, spelled out.                                          *)
(***************************************************************************)
LEMMA PieceKinds ==
    ASSUME NEW p \in Piece
    PROVE  \/ p.kind = "key" /\ \E s \in Symbols \ {Backslash} : p.of = <<s>> /\ p = Key(s)
           \/ p.kind = "escape" /\ \E s \in Letters \cap DOMAIN Escapes : p.of = <<s>>
           \/ p.kind = "block" /\ p.of \in Seq(BlockItems) /\ p.of # <<>>
<1>1. CASE p \in [kind : {"key"}, of : {<<s>> : s \in Symbols \ {Backslash}}]
  <2>1. PICK s \in Symbols \ {Backslash} : p.of = <<s>>
    BY <1>1
  <2>2. p = [kind |-> "key", of |-> <<s>>]
    BY <1>1, <2>1
  <2> QED BY <2>1, <2>2 DEF Key
<1>2. CASE p \in [kind : {"escape"}, of : {<<s>> : s \in Letters \cap DOMAIN Escapes}]
  BY <1>2
<1>3. CASE p \in [kind : {"block"}, of : Seq(BlockItems) \ {<<>>}]
  BY <1>3
<1> QED BY <1>1, <1>2, <1>3 DEF Piece

LEMMA JoinedItems ==
    ASSUME NEW items \in Seq(BlockItems)
    PROVE  /\ Joined(items) \in Seq(Symbols) /\ Len(Joined(items)) = 2 * Len(items)
           /\ \A q \in 1..Len(items) :
                 /\ Joined(items)[2 * q - 1] = items[q]
                 /\ Joined(items)[2 * q] = IF q = Len(items) THEN Close ELSE Plus
<1> DEFINE n == Len(items)
<1>1. n \in Nat /\ \A q \in 1..n : items[q] \in Symbols
  <2>1. BlockItems \subseteq Symbols
    BY DEF BlockItems, Symbols, Words
  <2> QED BY <2>1
<1> DEFINE j == [i \in 1..(2 * n) |-> IF i % 2 = 1 THEN items[(i + 1) \div 2]
                                      ELSE IF i = 2 * n THEN Close ELSE Plus]
<1>2. Joined(items) = j
  BY DEF Joined
<1> HIDE DEF n
<1>3. Close \in Symbols /\ Plus \in Symbols
  BY DEF Symbols, Marks
<1>4. ASSUME NEW i \in 1..(2 * n) PROVE j[i] \in Symbols
  <2>1. i % 2 = 1 => (i + 1) \div 2 \in 1..n
    BY <1>1
  <2> QED BY <1>1, <1>3, <2>1
<1>5. j \in Seq(Symbols) /\ Len(j) = 2 * n
  <2>1. 2 * n \in Nat
    BY <1>1
  <2>2. j \in [1..(2 * n) -> Symbols]
    BY <1>4
  <2> HIDE DEF j
  <2> QED BY <2>1, <2>2
<1>6. ASSUME NEW q \in 1..n
      PROVE  j[2 * q - 1] = items[q] /\ j[2 * q] = IF q = n THEN Close ELSE Plus
  <2>1. /\ 2 * q - 1 \in 1..(2 * n) /\ (2 * q - 1) % 2 = 1 /\ ((2 * q - 1) + 1) \div 2 = q
        /\ 2 * q \in 1..(2 * n) /\ (2 * q) % 2 # 1 /\ (2 * q = 2 * n <=> q = n)
    BY <1>1
  <2> QED BY <2>1
<1> HIDE DEF j
<1> QED BY <1>2, <1>5, <1>6 DEF n

LEMMA SpelledType ==
    ASSUME NEW p \in Piece
    PROVE  Spelled(p) \in Seq(Symbols) /\ Spelled(p) # <<>>
<1>1. {Backslash, Percent, Open} \subseteq Symbols
  BY DEF Symbols, Marks
<1>2. CASE p.kind = "key"
  <2>1. PICK s \in Symbols : p.of = <<s>>
    BY <1>2, PieceKinds
  <2>2. Spelled(p) = <<s>>
    BY <1>2, <2>1 DEF Spelled
  <2> QED BY <2>2
<1>3. CASE p.kind = "escape"
  <2>1. PICK s \in Symbols : p.of = <<s>>
    BY <1>3, PieceKinds DEF Symbols
  <2>2. Spelled(p) = <<Backslash>> \o <<s>>
    BY <1>3, <2>1 DEF Spelled
  <2> DEFINE sign == <<Backslash>>
  <2> DEFINE rest == <<s>>
  <2>3. sign \in Seq(Symbols) /\ sign # <<>> /\ rest \in Seq(Symbols)
    BY <1>1
  <2> HIDE DEF sign, rest
  <2>4. sign \o rest \in Seq(Symbols) /\ sign \o rest # <<>>
    BY <2>3, TailOfConcat
  <2> QED BY <2>2, <2>4 DEF sign, rest
<1>4. CASE p.kind = "block"
  <2>1. p.of \in Seq(BlockItems)
    BY <1>4, PieceKinds
  <2>2. Joined(p.of) \in Seq(Symbols)
    BY <2>1, JoinedItems
  <2> DEFINE sign == <<Percent, Open>>
  <2> DEFINE rest == Joined(p.of)
  <2>3. Spelled(p) = sign \o rest
    BY <1>4 DEF Spelled
  <2>4. sign \in Seq(Symbols) /\ sign # <<>> /\ rest \in Seq(Symbols)
    BY <1>1, <2>2
  <2> HIDE DEF sign, rest
  <2>5. sign \o rest \in Seq(Symbols) /\ sign \o rest # <<>>
    BY <2>4, TailOfConcat
  <2> QED BY <2>3, <2>5
<1> QED BY <1>2, <1>3, <1>4, PieceKinds

\* The parts that Spelling puts together.
Spellings(pieces) == [i \in DOMAIN pieces |-> Spelled(pieces[i])]

LEMMA SpellingsType ==
    ASSUME NEW ps \in Seq(Piece)
    PROVE  /\ Spellings(ps) \in Seq(Seq(Symbols)) /\ Len(Spellings(ps)) = Len(ps)
           /\ \A i \in 1..Len(ps) : Spellings(ps)[i] = Spelled(ps[i])
           /\ Spelling(ps) = FlattenSeq(Spellings(ps))
<1>1. \A i \in 1..Len(ps) : Spelled(ps[i]) \in Seq(Symbols)
  <2>1. \A i \in 1..Len(ps) : ps[i] \in Piece
    BY ElementOfSeq
  <2> QED BY <2>1, SpelledType
<1>2. DOMAIN ps = 1..Len(ps) /\ Len(ps) \in Nat
  OBVIOUS
<1>3. Spelling(ps) = FlattenSeq(Spellings(ps))
  BY Zenon DEF Spelling, Spellings
<1> QED BY <1>1, <1>2, <1>3 DEF Spellings

LEMMA SpellingType ==
    ASSUME NEW ps \in Seq(Piece)
    PROVE  Spelling(ps) \in Seq(Symbols) /\ Len(Spelling(ps)) \in Nat
<1>1. Spelling(ps) \in Seq(Symbols)
  BY SpellingsType, FlattenType, Zenon
<1> QED BY <1>1, LenProperties

LEMMA SpellingEmpty == Spelling(<<>>) = <<>>
<1>1. <<>> \in Seq(Piece) /\ Len(<<>>) = 0
  OBVIOUS
<1>2. Spellings(<<>>) \in Seq(Seq(Symbols)) /\ Len(Spellings(<<>>)) = 0
  BY <1>1, SpellingsType
<1>3. Spellings(<<>>) = <<>>
  BY <1>2, EmptySeq
<1> QED BY <1>1, <1>3, SpellingsType, FlattenEmpty, Zenon

LEMMA SpellingFirst ==
    ASSUME NEW ps \in Seq(Piece), ps # <<>>
    PROVE  /\ Tail(ps) \in Seq(Piece) /\ ps[1] \in Piece
           /\ Len(Tail(ps)) = Len(ps) - 1 /\ \A i \in 1..(Len(ps) - 1) : Tail(ps)[i] = ps[i + 1]
           /\ Spelling(ps) = Spelled(ps[1]) \o Spelling(Tail(ps))
<1>1. Len(ps) \in Nat /\ Len(ps) # 0
  BY EmptySeq, LenProperties
<1>2. /\ Tail(ps) \in Seq(Piece) /\ ps[1] \in Piece /\ Len(Tail(ps)) = Len(ps) - 1
      /\ \A i \in 1..(Len(ps) - 1) : Tail(ps)[i] = ps[i + 1]
  <2>1. ps[1] \in Piece
    BY <1>1
  <2> QED BY <2>1, HeadTailProperties
<1>3. /\ Spellings(ps) \in Seq(Seq(Symbols)) /\ Spelling(ps) = FlattenSeq(Spellings(ps))
      /\ Len(Spellings(ps)) = Len(ps)
      /\ \A i \in 1..Len(ps) : Spellings(ps)[i] = Spelled(ps[i])
  BY SpellingsType
<1>4. Spellings(ps) # <<>> /\ Spellings(ps)[1] = Spelled(ps[1])
  BY <1>1, <1>3, EmptySeq
<1>5. Tail(Spellings(ps)) = Spellings(Tail(ps))
  <2> DEFINE l == Tail(Spellings(ps))
  <2> DEFINE r == Spellings(Tail(ps))
  <2>1. /\ l \in Seq(Seq(Symbols)) /\ Len(l) = Len(ps) - 1
        /\ \A i \in 1..(Len(ps) - 1) : l[i] = Spellings(ps)[i + 1]
    BY <1>3, <1>4, HeadTailProperties
  <2>2. /\ r \in Seq(Seq(Symbols)) /\ Len(r) = Len(ps) - 1
        /\ \A i \in 1..(Len(ps) - 1) : r[i] = Spelled(Tail(ps)[i])
    BY <1>2, SpellingsType
  <2> HIDE DEF l, r
  <2>3. ASSUME NEW i \in 1..(Len(ps) - 1) PROVE l[i] = r[i]
    <3>1. i + 1 \in 1..Len(ps)
      BY <1>1
    <3> QED BY <1>2, <1>3, <2>1, <2>2, <3>1
  <2>4. l = r
    BY <2>1, <2>2, <2>3, SeqEqual
  <2> QED BY <2>4 DEF l, r
<1>6. FlattenSeq(Spellings(ps)) = Spellings(ps)[1] \o FlattenSeq(Tail(Spellings(ps)))
  BY <1>3, <1>4, FlattenFirst
<1>7. Spelling(Tail(ps)) = FlattenSeq(Spellings(Tail(ps)))
  BY <1>2, SpellingsType
<1>8. Spelling(ps) = Spelled(ps[1]) \o Spelling(Tail(ps))
  BY <1>3, <1>4, <1>5, <1>6, <1>7
<1> QED BY <1>2, <1>8

LEMMA SpellingConcat ==
    ASSUME NEW s \in Seq(Piece), NEW t \in Seq(Piece)
    PROVE  Spelling(s \o t) = Spelling(s) \o Spelling(t)
<1> DEFINE Good == {n \in Nat : \A ps \in Seq(Piece) :
                        Len(ps) = n => Spelling(ps \o t) = Spelling(ps) \o Spelling(t)}
<1>1. 0 \in Good
  <2> SUFFICES ASSUME NEW ps \in Seq(Piece), Len(ps) = 0
               PROVE  Spelling(ps \o t) = Spelling(ps) \o Spelling(t)
    OBVIOUS
  <2>1. ps = <<>> /\ <<>> \o t = t
    BY EmptySeq, ConcatEmptySeq
  <2>2. Spelling(t) \in Seq(Symbols)
    BY SpellingType
  <2>3. <<>> \o Spelling(t) = Spelling(t)
    BY <2>2, ConcatEmptySeq
  <2> QED BY <2>1, <2>3, SpellingEmpty
<1>2. \A a, b, c \in Seq(Symbols) : (a \o b) \o c = a \o (b \o c)
  BY ConcatThree
<1>3. ASSUME NEW n \in Nat, n \in Good PROVE n + 1 \in Good
  <2> SUFFICES ASSUME NEW ps \in Seq(Piece), Len(ps) = n + 1
               PROVE  Spelling(ps \o t) = Spelling(ps) \o Spelling(t)
    OBVIOUS
  <2>1. ps # <<>> /\ Len(Tail(ps)) = n
    BY EmptySeq, HeadTailProperties
  <2>2. /\ ps \o t \in Seq(Piece) /\ ps \o t # <<>> /\ (ps \o t)[1] = ps[1]
        /\ Tail(ps) \in Seq(Piece) /\ Tail(ps \o t) = Tail(ps) \o t
    BY <2>1, TailOfConcat
  <2>3. Spelling(Tail(ps) \o t) = Spelling(Tail(ps)) \o Spelling(t)
    BY <1>3, <2>1, <2>2
  <2> DEFINE first == Spelled(ps[1])
  <2>4. Spelling(ps) = first \o Spelling(Tail(ps)) /\ ps[1] \in Piece
    BY <2>1, SpellingFirst
  <2>5. Spelling(ps \o t) = first \o Spelling(Tail(ps \o t))
    BY <2>2, SpellingFirst
  <2>6. /\ first \in Seq(Symbols) /\ Spelling(Tail(ps)) \in Seq(Symbols)
        /\ Spelling(t) \in Seq(Symbols)
    BY <2>2, <2>4, SpelledType, SpellingType
  <2> HIDE DEF first
  <2>7. (first \o Spelling(Tail(ps))) \o Spelling(t)
            = first \o (Spelling(Tail(ps)) \o Spelling(t))
    BY <1>2, <2>6
  <2> QED BY <2>2, <2>3, <2>4, <2>5, <2>7
<1> HIDE DEF Good
<1>4. Len(s) \in Good
  BY <1>1, <1>3, SetInduction
<1> QED BY <1>4 DEF Good
-----------------------------------------------------------------------------
(***************************************************************************)
(* Reading a piece back.                                                   *)
(***************************************************************************)
\* The buffer holds a text from a position on, and nothing behind it.
Holds(input, at, text) ==
    /\ at + Len(text) < BufferLen
    /\ \A k \in 1..Len(text) : input[at + k - 1] = text[k]
    /\ input[at + Len(text)] = Nul

LEMMA HeldParts ==
    ASSUME NEW input, NEW at \in Nat, NEW s \in Seq(Symbols), NEW t \in Seq(Symbols),
           Holds(input, at, s \o t)
    PROVE  /\ \A k \in 1..Len(s) : input[at + k - 1] = s[k]
           /\ at + Len(s) \in Nat /\ at + Len(s) < BufferLen
           /\ Holds(input, at + Len(s), t)
<1>1. BufferLen \in Nat /\ Len(s) \in Nat /\ Len(t) \in Nat
  BY Sizes, LenProperties
<1> DEFINE u == s \o t
<1>2. /\ u \in Seq(Symbols) /\ Len(u) = Len(s) + Len(t)
      /\ \A i \in 1..Len(s) + Len(t) : u[i] = IF i <= Len(s) THEN s[i] ELSE t[i - Len(s)]
  BY ConcatProperties
<1> HIDE DEF u
<1>3. /\ at + Len(u) < BufferLen /\ \A k \in 1..Len(u) : input[at + k - 1] = u[k]
      /\ input[at + Len(u)] = Nul
  BY DEF Holds, u
<1>4. ASSUME NEW k \in 1..Len(s) PROVE input[at + k - 1] = s[k]
  <2>1. k \in 1..Len(u) /\ k \in 1..Len(s) + Len(t) /\ k <= Len(s)
    BY <1>1, <1>2
  <2> QED BY <1>2, <1>3, <2>1
<1>5. ASSUME NEW k \in 1..Len(t) PROVE input[(at + Len(s)) + k - 1] = t[k]
  <2> DEFINE m == Len(s) + k
  <2>1. /\ m \in 1..Len(u) /\ m \in 1..Len(s) + Len(t) /\ ~(m <= Len(s)) /\ m - Len(s) = k
        /\ (at + Len(s)) + k - 1 = at + m - 1
    BY <1>1, <1>2
  <2> HIDE DEF m
  <2> QED BY <1>2, <1>3, <2>1
<1>6. at + Len(u) = (at + Len(s)) + Len(t) /\ at + Len(s) \in Nat /\ at + Len(s) < BufferLen
  BY <1>1, <1>2, <1>3
<1> QED BY <1>3, <1>4, <1>5, <1>6 DEF Holds

\* The symbols that a piece is read by.
LEMMA SpelledSymbols ==
    ASSUME NEW p \in Piece
    PROVE  /\ p.kind = "key" =>
                /\ Len(Spelled(p)) = 1 /\ Spelled(p)[1] # Backslash
                /\ Spelled(p)[1] \in Symbols
                /\ p = Key(Spelled(p)[1])
           /\ p.kind = "escape" =>
                /\ Len(Spelled(p)) = 2 /\ Spelled(p)[1] = Backslash
                /\ Spelled(p)[2] \in Letters \cap DOMAIN Escapes
                /\ p.of = <<Spelled(p)[2]>>
           /\ p.kind = "block" =>
                /\ Len(Spelled(p)) = 2 * Len(p.of) + 2
                /\ Spelled(p)[1] = Percent /\ Spelled(p)[2] = Open
                /\ \A q \in 1..Len(p.of) :
                      /\ Spelled(p)[2 * q + 1] = p.of[q]
                      /\ Spelled(p)[2 * q + 2] = IF q = Len(p.of) THEN Close ELSE Plus
<1>1. CASE p.kind = "key"
  <2>1. PICK s \in Symbols \ {Backslash} : p.of = <<s>> /\ p = Key(s)
    BY <1>1, PieceKinds
  <2>2. Spelled(p) = <<s>>
    BY <1>1, <2>1 DEF Spelled
  <2> QED BY <1>1, <2>1, <2>2
<1>2. CASE p.kind = "escape"
  <2>1. PICK s \in Letters \cap DOMAIN Escapes : p.of = <<s>>
    BY <1>2, PieceKinds
  <2>2. Spelled(p) = <<Backslash>> \o <<s>>
    BY <1>2, <2>1 DEF Spelled
  <2>3. s \in Symbols /\ Backslash \in Symbols
    BY DEF Symbols
  <2> DEFINE sign == <<Backslash>>
  <2> DEFINE rest == <<s>>
  <2>4. /\ sign \in Seq(Symbols) /\ Len(sign) = 1 /\ sign[1] = Backslash
        /\ rest \in Seq(Symbols) /\ Len(rest) = 1 /\ rest[1] = s
    BY <2>3
  <2> HIDE DEF sign, rest
  <2>5. /\ Len(sign \o rest) = 2
        /\ \A i \in 1..2 : (sign \o rest)[i] = IF i <= 1 THEN sign[i] ELSE rest[i - 1]
    BY <2>4, ConcatProperties
  <2>6. (sign \o rest)[1] = Backslash /\ (sign \o rest)[2] = s
    <3>1. 1 \in 1..2 /\ 2 \in 1..2 /\ ~(2 <= 1) /\ 2 - 1 = 1
      OBVIOUS
    <3> QED BY <2>4, <2>5, <3>1
  <2> QED BY <1>2, <2>1, <2>2, <2>5, <2>6 DEF sign, rest
<1>3. CASE p.kind = "block"
  <2> DEFINE n == Len(p.of)
  <2> DEFINE sign == <<Percent, Open>>
  <2> DEFINE rest == Joined(p.of)
  <2>1. p.of \in Seq(BlockItems) /\ n \in Nat
    BY <1>3, PieceKinds
  <2>2. /\ rest \in Seq(Symbols) /\ Len(rest) = 2 * n
        /\ \A q \in 1..n : /\ rest[2 * q - 1] = p.of[q]
                          /\ rest[2 * q] = IF q = n THEN Close ELSE Plus
    BY <2>1, JoinedItems
  <2>3. Spelled(p) = sign \o rest
    BY <1>3 DEF Spelled
  <2>4. sign \in Seq(Symbols) /\ Len(sign) = 2 /\ sign[1] = Percent /\ sign[2] = Open
    BY DEF Symbols, Marks
  <2> HIDE DEF sign, rest, n
  <2> DEFINE u == sign \o rest
  <2>5. /\ Len(u) = 2 + 2 * n
        /\ \A i \in 1..2 + 2 * n : u[i] = IF i <= 2 THEN sign[i] ELSE rest[i - 2]
    <3>1. /\ Len(u) = Len(sign) + Len(rest)
          /\ \A i \in 1..Len(sign) + Len(rest) :
                u[i] = IF i <= Len(sign) THEN sign[i] ELSE rest[i - Len(sign)]
      BY <2>2, <2>4, ConcatProperties
    <3> HIDE DEF u
    <3> QED BY <2>2, <2>4, <3>1
  <2> HIDE DEF u
  <2>6. u[1] = Percent /\ u[2] = Open
    <3>1. 1 \in 1..2 + 2 * n /\ 2 \in 1..2 + 2 * n /\ 1 <= 2 /\ 2 <= 2
      BY <2>1
    <3> QED BY <2>4, <2>5, <3>1
  <2>7. ASSUME NEW q \in 1..n
        PROVE  u[2 * q + 1] = p.of[q] /\ u[2 * q + 2] = IF q = n THEN Close ELSE Plus
    <3>1. /\ 2 * q + 1 \in 1..2 + 2 * n /\ ~(2 * q + 1 <= 2) /\ (2 * q + 1) - 2 = 2 * q - 1
          /\ 2 * q + 2 \in 1..2 + 2 * n /\ ~(2 * q + 2 <= 2) /\ (2 * q + 2) - 2 = 2 * q
      BY <2>1
    <3>2. u[2 * q + 1] = rest[2 * q - 1] /\ u[2 * q + 2] = rest[2 * q]
      BY <2>5, <3>1
    <3> QED BY <2>2, <3>2
  <2>8. 2 + 2 * n = 2 * n + 2
    BY <2>1
  <2> QED BY <1>3, <2>3, <2>5, <2>6, <2>7, <2>8 DEF u, n
<1> QED BY <1>1, <1>2, <1>3, PieceKinds

\* What a text begins with.
LEMMA NextSymbol ==
    ASSUME NEW input, NEW at \in Nat, NEW ps \in Seq(Piece), Holds(input, at, Spelling(ps))
    PROVE  /\ ps = <<>> => input[at] = Nul
           /\ ps # <<>> => input[at] = Spelled(ps[1])[1]
           /\ \A s \in {Open, Close} : input[at] = s => ps # <<>> /\ ps[1] = Key(s)
<1>1. CASE ps = <<>>
  <2>1. Spelling(ps) = <<>> /\ Len(Spelling(ps)) = 0 /\ at + 0 = at
    BY <1>1, SpellingEmpty
  <2> QED BY <1>1, <2>1, SignsDiffer DEF Holds
<1>2. CASE ps # <<>>
  <2> DEFINE p == ps[1]
  <2>1. p \in Piece /\ Tail(ps) \in Seq(Piece) /\ Spelling(ps) = Spelled(p) \o Spelling(Tail(ps))
    BY <1>2, SpellingFirst
  <2>2. Spelled(p) \in Seq(Symbols) /\ Spelled(p) # <<>> /\ Spelling(Tail(ps)) \in Seq(Symbols)
    BY <2>1, SpelledType, SpellingType
  <2>3. 1 \in 1..Len(Spelled(p)) /\ at + 1 - 1 = at
    BY <2>2, EmptySeq, LenProperties
  <2> HIDE DEF p
  <2>4. input[at] = Spelled(p)[1]
    BY <2>1, <2>2, <2>3, HeldParts
  <2>5. ASSUME NEW s \in {Open, Close}, Spelled(p)[1] = s PROVE p = Key(s)
    BY <2>1, <2>5, SpelledSymbols, PieceKinds, SignsDiffer
  <2> QED BY <1>2, <2>4, <2>5 DEF p
<1> QED BY <1>1, <1>2
-----------------------------------------------------------------------------
LEMMA ReportOf ==
    ASSUME NEW r \in Reports, NEW mods, NEW pressed, r.mods = mods, r.keys = pressed
    PROVE  r = [mods |-> mods, keys |-> pressed]
<1>1. r \in [mods : SUBSET Modifiers, keys : Seq(Codes)]
  BY DEF Reports, Strokes
<1> QED BY <1>1

\* A key that is pressed alone.
LEMMA FirstKeycode ==
    ASSUME NEW key \in Codes
    PROVE  /\ AddKeycode(Empty, key) = [mods |-> {}, keys |-> <<key>>]
           /\ AddKeycode(Empty, key) \in Reports /\ AddKeycode(Empty, key) # Empty
<1> DEFINE r == AddKeycode(Empty, key)
<1>1. Empty \in Reports /\ Empty.mods = {} /\ Empty.keys = <<>>
  BY EmptyReport DEF Empty
<1>2. r \in Reports /\ r.mods = {} /\ r.keys # <<>>
  BY <1>1, KeycodeAdded
<1>3. r.keys = <<key>>
  <2>1. Len(<<>>) # 6 /\ Append(<<>>, key) = <<key>>
    OBVIOUS
  <2>2. r = [Empty EXCEPT !.keys = Append(@, key)]
    BY <1>1, <2>1 DEF AddKeycode, MaxKeys
  <2> QED BY <1>1, <2>1, <2>2 DEF Empty
<1> HIDE DEF r
<1>4. r # Empty
  BY <1>1, <1>2
<1> QED BY <1>2, <1>3, <1>4, ReportOf DEF r

LEMMA KeyStroke ==
    ASSUME NEW s \in Symbols, s # Backslash
    PROVE  /\ Typed(Empty, s) = Stroke(Key(s))
           /\ Stroke(Key(s)) \in Reports /\ Stroke(Key(s)) # Empty
<1> DEFINE r == Typed(Empty, s)
<1>1. Empty \in Reports /\ Empty.mods = {} /\ Empty.keys = <<>>
  BY EmptyReport DEF Empty
<1>2. /\ r \in Reports /\ r.keys = AddKeycode(Empty, s).keys /\ r.keys # <<>>
      /\ r.mods = IF s \in Marks \cup Capitals THEN {"LeftShift"} ELSE {}
  BY <1>1, TypedReport
<1>3. AddKeycode(Empty, s).keys = <<s>>
  <2>1. s \in Codes
    BY DEF Symbols, Codes
  <2> QED BY <2>1, FirstKeycode
<1> HIDE DEF r
<1>4. r = Stroke(Key(s))
  <2>1. /\ Key(s).kind = "key" /\ Key(s).of = <<s>> /\ <<s>>[1] = s
    BY DEF Key
  <2>2. Stroke(Key(s)) = [mods |-> IF s \in Marks \cup Capitals THEN {"LeftShift"} ELSE {},
                          keys |-> <<s>>]
    BY <2>1, Zenon DEF Stroke
  <2> QED BY <1>2, <1>3, <2>2, ReportOf
<1> QED BY <1>1, <1>2, <1>4 DEF r

LEMMA KeyRead ==
    ASSUME NEW input, NEW at \in Nat, NEW s \in Symbols, s # Backslash, input[at] = s
    PROVE  MapKey(Empty, input, at) = [report |-> Stroke(Key(s)), read |-> 1]
  BY KeyStroke DEF MapKey

LEMMA EscapeStroke ==
    ASSUME NEW p \in Piece, p.kind = "escape", NEW s \in DOMAIN Escapes, p.of = <<s>>
    PROVE  /\ Stroke(p) = AddKeycode(Empty, Escapes[s])
           /\ Stroke(p) \in Reports /\ Stroke(p) # Empty
<1>1. Stroke(p) = [mods |-> {}, keys |-> <<Escapes[s]>>]
  <2>1. <<s>>[1] = s
    OBVIOUS
  <2> QED BY <2>1, Zenon DEF Stroke
<1>2. Escapes[s] \in Codes
  BY DEF Escapes, Codes
<1> QED BY <1>1, <1>2, FirstKeycode

\* What a piece stands for is a report, and not the empty one.
LEMMA StrokeReport ==
    ASSUME NEW p \in Piece
    PROVE  Stroke(p) \in Reports /\ Stroke(p) # Empty
<1>1. CASE p.kind = "key"
  <2>1. PICK s \in Symbols \ {Backslash} : p = Key(s)
    BY <1>1, PieceKinds
  <2> QED BY <2>1, KeyStroke
<1>2. CASE p.kind = "escape"
  BY <1>2, PieceKinds, EscapeStroke
<1>3. CASE p.kind = "block"
  <2>1. p.of \in Seq(BlockItems) /\ p.of # <<>>
    BY <1>3, PieceKinds
  <2>2. Stroke(p) = Pressed(p.of)
    BY <1>3 DEF Stroke
  <2> QED BY <2>1, <2>2, PressedReport
<1> QED BY <1>1, <1>2, <1>3, PieceKinds

\* A block that the loop cannot use at once is a key.
LEMMA UnusableRead ==
    ASSUME NEW input \in Inputs, NEW at \in Nat, at + 2 < BufferLen,
           input[at] = Percent, input[at + 1] = Open, input[at + 2] \in OtherWords
    PROVE  MapKeys(input, at, EndOfInput) = [report |-> Stroke(Key(Percent)), read |-> 1]
<1>1. /\ BufferLen \in Nat /\ EndOfInput = BufferLen + 1
      /\ at + 2 \in 0..EndOfInput /\ ~(at + 2 >= EndOfInput - 1)
  BY Sizes
<1> DEFINE w == input[at + 2]
<1>2. w \in Words /\ w \notin Modifiers \cup Hexes /\ w # Nul /\ w # Close
  <2>1. w \in Words /\ w \notin Modifiers \cup Hexes
    BY SymbolsAssumption DEF Words
  <2> QED BY <2>1, SymbolsAssumption DEF Symbols, Marks
<1>3. FoundAt(input, at + 2) = <<>>
  <2>1. ~Named(input, at + 2) /\ PastName(input, at + 2) = at + 2
    BY <1>2 DEF Named, PastName
  <2>2. ~Single(input, at + 2)
    BY <1>2, <2>1 DEF Single, IsSingle
  <2> QED BY <2>1, <2>2 DEF FoundAt
<1> DEFINE block == Block(input, at + 2, EndOfInput)
<1>4. block = [used |-> FALSE, found |-> <<>>, end |-> at + 2]
  <2>1. PICK f : /\ \A i \in (at + 2)..EndOfInput : f[i] = BlockStep(input, f, i)
                 /\ block = f[at + 2]
    BY <1>1, BlockSteps
  <2>2. at + 2 \in (at + 2)..EndOfInput
    BY <1>1
  <2> HIDE DEF block
  <2> QED BY <1>1, <1>2, <1>3, <2>1, <2>2 DEF BlockStep
<1>5. MapExtensionBlock(input, at, EndOfInput) = MapKey(Pressed(<<>>), input, at)
  <2>1. block.used = FALSE /\ block.found = <<>>
    BY <1>4
  <2> HIDE <1>4
  <2> QED BY <2>1, Zenon DEF MapExtensionBlock
<1>6. MapKeys(input, at, EndOfInput) = MapKey(Empty, input, at)
  BY <1>5, PressedNone DEF MapKeys
<1>7. Percent \in Symbols /\ Percent # Backslash
  BY SignsDiffer DEF Symbols, Marks
<1> QED BY <1>6, <1>7, KeyRead

\* At the head of what is held, map_keys reads the first piece.
LEMMA PieceRead ==
    ASSUME NEW input \in Inputs, NEW at \in Nat, NEW ps \in Seq(Piece), ps # <<>>,
           Clear(ps), Holds(input, at, Spelling(ps))
    PROVE  MapKeys(input, at, EndOfInput)
               = [report |-> Stroke(ps[1]), read |-> Len(Spelled(ps[1]))]
<1> DEFINE p == ps[1]
<1> DEFINE rest == Tail(ps)
<1> DEFINE size == Len(Spelled(p))
<1>1. /\ p \in Piece /\ rest \in Seq(Piece) /\ Len(ps) \in Nat
      /\ Len(rest) = Len(ps) - 1 /\ \A i \in 1..(Len(ps) - 1) : rest[i] = ps[i + 1]
      /\ Spelling(ps) = Spelled(p) \o Spelling(rest)
  BY SpellingFirst, LenProperties
<1>2. Spelled(p) \in Seq(Symbols) /\ Spelled(p) # <<>> /\ Spelling(rest) \in Seq(Symbols)
  BY <1>1, SpelledType, SpellingType
<1>3. /\ \A k \in 1..size : input[at + k - 1] = Spelled(p)[k]
      /\ at + size \in Nat /\ at + size < BufferLen /\ Holds(input, at + size, Spelling(rest))
  BY <1>1, <1>2, HeldParts
<1>4. size \in Nat /\ size # 0
  BY <1>2, EmptySeq, LenProperties
<1>5. input[at] = Spelled(p)[1]
  <2>1. 1 \in 1..size /\ at + 1 - 1 = at
    BY <1>4
  <2> QED BY <1>3, <2>1
<1>6. /\ p.kind = "block" /\ 1 < Len(ps) => ps[2] # Key(Close)
      /\ p = Key(Percent) /\ 1 < Len(ps) /\ ps[2] = Key(Open) =>
             2 < Len(ps) /\ \E w \in OtherWords : ps[3] = Key(w)
  <2>1. 1 \in DOMAIN ps
    BY <1>1, EmptySeq
  <2>2. Separate(ps, 1)
    BY <2>1 DEF Clear
  <2>3. 1 + 1 = 2 /\ 1 + 2 = 3
    OBVIOUS
  <2> QED BY <2>2, <2>3, Zenon DEF Separate
<1>7. rest # <<>> => 1 < Len(ps) /\ rest[1] = ps[2]
  <2>1. rest # <<>> => Len(rest) # 0 /\ Len(rest) \in Nat
    BY <1>1, EmptySeq, LenProperties
  <2>2. 1 < Len(ps) => 1 \in 1..(Len(ps) - 1) /\ 1 + 1 = 2
    BY <1>1
  <2> QED BY <1>1, <2>1, <2>2
<1>8. \A s \in {Open, Close} : input[at + size] = s => 1 < Len(ps) /\ ps[2] = Key(s)
  BY <1>1, <1>3, <1>7, NextSymbol
<1> HIDE DEF p, rest, size
<1>9. CASE p.kind = "key"
  <2> DEFINE s == Spelled(p)[1]
  <2>1. size = 1 /\ s # Backslash /\ s \in Symbols /\ p = Key(s)
    BY <1>1, <1>9, SpelledSymbols DEF size
  <2> HIDE DEF s
  <2>2. MapKey(Empty, input, at) = [report |-> Stroke(p), read |-> 1]
    BY <1>5, <2>1, KeyRead DEF s
  <2>3. CASE input[at] = Percent /\ input[at + 1] = Open
    <3>1. p = Key(Percent) /\ 1 < Len(ps) /\ ps[2] = Key(Open)
      BY <1>5, <1>8, <2>1, <2>3 DEF s
    <3>2. PICK w \in OtherWords : 2 < Len(ps) /\ ps[3] = Key(w)
      BY <1>6, <3>1
    <3>3. input[at + 2] \in OtherWords /\ at + 2 < BufferLen
      <4> DEFINE b == Key(Open)
      <4> DEFINE c == Key(w)
      <4> DEFINE more == Tail(rest)
      <4>1. /\ b \in Piece /\ Spelled(b) = <<Open>> /\ Len(Spelled(b)) = 1
            /\ c \in Piece /\ Spelled(c)[1] = w
        <5>1. Open \in Symbols \ {Backslash} /\ w \in Symbols \ {Backslash}
          BY SignsDiffer, SymbolsAssumption DEF Symbols, Marks, Words
        <5>2. b.kind = "key" /\ b.of = <<Open>> /\ c.kind = "key" /\ c.of = <<w>>
          BY DEF Key
        <5>3. Spelled(b) = <<Open>> /\ Spelled(c) = <<w>>
          BY <5>2, Zenon DEF Spelled
        <5> QED BY <5>1, <5>3 DEF Piece, Key
      <4>2. rest # <<>> /\ rest[1] = b
        <5>1. Len(rest) # 0
          <6>1. Len(rest) = Len(ps) - 1 /\ Len(ps) \in Nat /\ 1 < Len(ps)
            BY <1>1, <3>1, Zenon
          <6> QED BY <6>1, SMTT(20)
        <5> QED BY <1>1, <1>7, <3>1, <5>1, EmptySeq
      <4> HIDE DEF b, c
      <4>3. /\ more \in Seq(Piece) /\ Len(more) = Len(rest) - 1
            /\ \A i \in 1..(Len(rest) - 1) : more[i] = rest[i + 1]
            /\ Spelling(rest) = Spelled(b) \o Spelling(more)
        BY <1>1, <4>2, SpellingFirst
      <4>4. more # <<>> /\ more[1] = c
        <5>1. /\ 1 \in 1..(Len(rest) - 1) /\ 1 + 1 \in 1..(Len(ps) - 1) /\ (1 + 1) + 1 = 3
              /\ Len(more) # 0
          BY <1>1, <3>2, <4>3
        <5>2. more[1] = rest[1 + 1] /\ rest[1 + 1] = ps[3]
          BY <1>1, <4>3, <5>1
        <5> QED BY <3>2, <4>3, <5>1, <5>2, EmptySeq DEF c
      <4> HIDE DEF more
      <4>5. /\ (at + 1) + 1 \in Nat /\ (at + 1) + 1 < BufferLen
            /\ Holds(input, (at + 1) + 1, Spelling(more))
        <5>1. Spelled(b) \in Seq(Symbols) /\ Spelling(more) \in Seq(Symbols)
          BY <4>1, <4>3, SpelledType, SpellingType
        <5>2. at + 1 \in Nat /\ Holds(input, at + 1, Spelled(b) \o Spelling(more))
          BY <1>3, <2>1, <4>3
        <5> QED BY <4>1, <5>1, <5>2, HeldParts
      <4>6. input[(at + 1) + 1] = w
        BY <4>1, <4>3, <4>4, <4>5, NextSymbol
      <4>7. (at + 1) + 1 = at + 2
        OBVIOUS
      <4> QED BY <4>5, <4>6, <4>7
    <3> QED BY <2>1, <2>3, <3>1, <3>3, UnusableRead DEF p, size
  <2>4. CASE ~(input[at] = Percent /\ input[at + 1] = Open)
    BY <2>1, <2>2, <2>4 DEF MapKeys, p, size
  <2> QED BY <2>3, <2>4 DEF p, size
<1>10. CASE p.kind = "escape"
  <2> DEFINE s == Spelled(p)[2]
  <2>1. /\ size = 2 /\ input[at] = Backslash /\ s \in DOMAIN Escapes /\ p.of = <<s>>
    BY <1>1, <1>5, <1>10, SpelledSymbols DEF size
  <2> HIDE DEF s
  <2>2. input[at + 1] = s
    <3>1. 2 \in 1..size /\ at + 2 - 1 = at + 1
      BY <2>1
    <3> QED BY <1>3, <3>1 DEF s
  <2>3. MapKeys(input, at, EndOfInput)
            = [report |-> AddKeycode(Empty, Escapes[s]), read |-> 2]
    BY <2>1, <2>2, SignsDiffer DEF MapKeys, MapKey, Escaped
  <2> QED BY <1>1, <1>10, <2>1, <2>3, EscapeStroke DEF p, size
<1>11. CASE p.kind = "block"
  <2> DEFINE n == Len(p.of)
  <2>1. p.of \in Seq(BlockItems) /\ p.of # <<>> /\ n \in Nat
    BY <1>1, <1>11, PieceKinds
  <2>2. /\ size = 2 * n + 2 /\ Spelled(p)[1] = Percent /\ Spelled(p)[2] = Open
        /\ \A q \in 1..n : /\ Spelled(p)[2 * q + 1] = p.of[q]
                            /\ Spelled(p)[2 * q + 2] = IF q = n THEN Close ELSE Plus
    BY <1>1, <1>11, SpelledSymbols DEF size
  <2> HIDE DEF n
  <2>3. input[at + 1] = Open
    <3>1. 2 \in 1..size /\ at + 2 - 1 = at + 1
      BY <2>1, <2>2
    <3> QED BY <1>3, <2>2, <3>1
  <2>4. ASSUME NEW q \in 1..n
        PROVE  /\ input[at + 2 * q] = p.of[q]
               /\ input[at + 2 * q + 1] = IF q = n THEN Close ELSE Plus
    <3>1. /\ 2 * q + 1 \in 1..size /\ at + (2 * q + 1) - 1 = at + 2 * q
          /\ 2 * q + 2 \in 1..size /\ at + (2 * q + 2) - 1 = at + 2 * q + 1
      BY <2>1, <2>2
    <3>2. input[at + (2 * q + 1) - 1] = p.of[q]
      BY <1>3, <2>2, <3>1
    <3>3. input[at + (2 * q + 2) - 1] = IF q = n THEN Close ELSE Plus
      BY <1>3, <2>2, <3>1
    <3> QED BY <3>1, <3>2, <3>3
  <2>5. input[at + 2 * n + 2] # Close /\ at + 2 * n + 2 <= BufferLen
    <3>1. at + size = at + 2 * n + 2 /\ at + size <= BufferLen
      BY <1>3, <2>1, <2>2, Sizes
    <3>2. input[at + size] # Close
      BY <1>6, <1>8, <1>11
    <3> QED BY <3>1, <3>2
  <2>6. BlockAt(input, at, p.of)
    BY <1>5, <2>2, <2>3, <2>4, <2>5 DEF BlockAt, n
  <2>7. Stroke(p) = Pressed(p.of)
    BY <1>11 DEF Stroke
  <2> QED BY <2>1, <2>2, <2>6, <2>7, BlockRead DEF p, size, n
<1> QED BY <1>1, <1>9, <1>10, <1>11, PieceKinds
-----------------------------------------------------------------------------
(***************************************************************************)
(* Texts one behind the other.                                             *)
(***************************************************************************)
LEMMA MeaningType ==
    ASSUME NEW ps \in Seq(Piece)
    PROVE  /\ Meaning(ps) \in Seq(Strokes) /\ Len(Meaning(ps)) = Len(ps)
           /\ \A i \in 1..Len(ps) : Meaning(ps)[i] = Stroke(ps[i])
<1>1. DOMAIN ps = 1..Len(ps) /\ Len(ps) \in Nat /\ \A i \in 1..Len(ps) : ps[i] \in Piece
  BY ElementOfSeq
<1>2. \A i \in 1..Len(ps) : Stroke(ps[i]) \in Strokes
  BY <1>1, StrokeReport DEF Reports
<1> QED BY <1>1, <1>2 DEF Meaning

LEMMA MeaningFirst ==
    ASSUME NEW ps \in Seq(Piece), ps # <<>>
    PROVE  /\ Meaning(ps) # <<>> /\ Head(Meaning(ps)) = Stroke(ps[1])
           /\ Tail(Meaning(ps)) = Meaning(Tail(ps))
<1>1. /\ Tail(ps) \in Seq(Piece) /\ Len(Tail(ps)) = Len(ps) - 1
      /\ \A i \in 1..(Len(ps) - 1) : Tail(ps)[i] = ps[i + 1]
      /\ Len(ps) \in Nat /\ Len(ps) # 0
  BY SpellingFirst, EmptySeq, LenProperties
<1> DEFINE m == Meaning(ps)
<1>2. m \in Seq(Strokes) /\ Len(m) = Len(ps) /\ \A i \in 1..Len(ps) : m[i] = Stroke(ps[i])
  BY MeaningType
<1> HIDE DEF m
<1>3. m # <<>>
  BY <1>1, <1>2, EmptySeq
<1>4. /\ Head(m) = m[1] /\ Tail(m) \in Seq(Strokes) /\ Len(Tail(m)) = Len(m) - 1
      /\ \A i \in 1..(Len(m) - 1) : Tail(m)[i] = m[i + 1]
  BY <1>2, <1>3, HeadTailProperties
<1>5. m[1] = Stroke(ps[1])
  BY <1>1, <1>2
<1> DEFINE l == Tail(m)
<1> DEFINE r == Meaning(Tail(ps))
<1>6. /\ r \in Seq(Strokes) /\ Len(r) = Len(ps) - 1
      /\ \A i \in 1..(Len(ps) - 1) : r[i] = Stroke(Tail(ps)[i])
  BY <1>1, MeaningType
<1>7. ASSUME NEW i \in 1..(Len(ps) - 1) PROVE l[i] = r[i]
  <2>1. i + 1 \in 1..Len(ps) /\ i \in 1..(Len(m) - 1)
    BY <1>1, <1>2
  <2> HIDE DEF r
  <2> QED BY <1>1, <1>2, <1>4, <1>6, <2>1
<1> HIDE DEF l, r
<1>8. l = r
  BY <1>2, <1>4, <1>6, <1>7, SeqEqual DEF l
<1> QED BY <1>3, <1>4, <1>5, <1>8 DEF l, r, m

\* The pieces of two texts.
LEMMA BothTexts ==
    ASSUME NEW s \in Seq(Piece), NEW t \in Seq(Piece)
    PROVE  /\ s \o t \in Seq(Piece) /\ Len(s \o t) = Len(s) + Len(t)
           /\ Len(s) \in Nat /\ Len(t) \in Nat
           /\ \A i \in 1..Len(s) : (s \o t)[i] = s[i]
           /\ \A i \in 1..Len(t) : (s \o t)[Len(s) + i] = t[i]
<1>1. /\ s \o t \in Seq(Piece) /\ Len(s \o t) = Len(s) + Len(t)
      /\ \A i \in 1..Len(s) + Len(t) : (s \o t)[i] = IF i <= Len(s) THEN s[i] ELSE t[i - Len(s)]
      /\ Len(s) \in Nat /\ Len(t) \in Nat
  BY ConcatProperties, LenProperties
<1>2. ASSUME NEW i \in 1..Len(s) PROVE (s \o t)[i] = s[i]
  <2>1. i \in 1..Len(s) + Len(t) /\ i <= Len(s)
    BY <1>1
  <2> QED BY <1>1, <2>1
<1>3. ASSUME NEW i \in 1..Len(t) PROVE (s \o t)[Len(s) + i] = t[i]
  <2>1. /\ Len(s) + i \in 1..Len(s) + Len(t) /\ ~(Len(s) + i <= Len(s))
        /\ (Len(s) + i) - Len(s) = i
    BY <1>1
  <2> QED BY <1>1, <2>1
<1> QED BY <1>1, <1>2, <1>3

LEMMA MeaningConcat ==
    ASSUME NEW s \in Seq(Piece), NEW t \in Seq(Piece)
    PROVE  Meaning(s \o t) = Meaning(s) \o Meaning(t)
<1> DEFINE a == Meaning(s)
<1> DEFINE b == Meaning(t)
<1> DEFINE u == s \o t
<1> DEFINE l == Meaning(u)
<1> DEFINE r == a \o b
<1>1. a \in Seq(Strokes) /\ Len(a) = Len(s) /\ \A i \in 1..Len(s) : a[i] = Stroke(s[i])
  BY MeaningType
<1>2. b \in Seq(Strokes) /\ Len(b) = Len(t) /\ \A i \in 1..Len(t) : b[i] = Stroke(t[i])
  BY MeaningType
<1>3. /\ u \in Seq(Piece) /\ Len(u) = Len(s) + Len(t) /\ Len(s) \in Nat /\ Len(t) \in Nat
      /\ \A i \in 1..Len(s) : u[i] = s[i]
      /\ \A i \in 1..Len(t) : u[Len(s) + i] = t[i]
  BY BothTexts
<1>4. l \in Seq(Strokes) /\ Len(l) = Len(u) /\ \A i \in 1..Len(u) : l[i] = Stroke(u[i])
  BY <1>3, MeaningType
<1> HIDE DEF a, b
<1>5. /\ r \in Seq(Strokes) /\ Len(r) = Len(a) + Len(b)
      /\ \A i \in 1..Len(a) + Len(b) : r[i] = IF i <= Len(a) THEN a[i] ELSE b[i - Len(a)]
  <2>1. a \in Seq(Strokes) /\ b \in Seq(Strokes)
    BY <1>1, <1>2
  <2> QED BY <2>1, ConcatProperties
<1> HIDE DEF u, l, r
<1>6. ASSUME NEW i \in 1..Len(l) PROVE l[i] = r[i]
  <2>1. i \in 1..Len(u) /\ i \in 1..Len(a) + Len(b)
    BY <1>1, <1>2, <1>3, <1>4
  <2>2. CASE i <= Len(s)
    <3>1. i \in 1..Len(s)
      BY <1>3, <2>2
    <3> QED BY <1>1, <1>3, <1>4, <1>5, <2>1, <2>2, <3>1
  <2>3. CASE ~(i <= Len(s))
    <3> DEFINE k == i - Len(s)
    <3>1. k \in 1..Len(t) /\ Len(s) + k = i
      BY <1>3, <2>1, <2>3
    <3>2. u[i] = t[k] /\ r[i] = b[k]
      BY <1>1, <1>3, <1>5, <2>1, <2>3, <3>1
    <3> HIDE DEF k
    <3> QED BY <1>2, <1>4, <2>1, <3>1, <3>2
  <2> QED BY <2>2, <2>3
<1>7. Len(l) = Len(r)
  BY <1>1, <1>2, <1>3, <1>4, <1>5
<1>8. l = r
  BY <1>4, <1>5, <1>6, <1>7, SeqEqual
<1> QED BY <1>8 DEF l, r, a, b, u

LEMMA ClearTail ==
    ASSUME NEW ps \in Seq(Piece), ps # <<>>, Clear(ps)
    PROVE  Clear(Tail(ps))
<1> DEFINE r == Tail(ps)
<1>1. /\ r \in Seq(Piece) /\ Len(r) = Len(ps) - 1 /\ Len(ps) \in Nat
      /\ \A i \in 1..(Len(ps) - 1) : r[i] = ps[i + 1]
  BY SpellingFirst, LenProperties
<1>2. DOMAIN r = 1..Len(r) /\ DOMAIN ps = 1..Len(ps)
  BY <1>1, LenProperties
<1> HIDE DEF r
<1> SUFFICES ASSUME NEW i \in 1..Len(r) PROVE Separate(r, i)
  BY <1>2 DEF Clear, r
<1>3. i \in 1..(Len(ps) - 1) /\ i + 1 \in 1..Len(ps)
  BY <1>1
<1>4. Separate(ps, i + 1) /\ r[i] = ps[i + 1]
  BY <1>1, <1>2, <1>3 DEF Clear
<1>5. i < Len(r) => i + 1 < Len(ps) /\ r[i + 1] = ps[(i + 1) + 1]
  BY <1>1, <1>3
<1>6. i + 1 < Len(r) <=> (i + 1) + 1 < Len(ps)
  BY <1>1, <1>3
<1>7. i + 1 < Len(r) => r[i + 2] = ps[(i + 1) + 2]
  <2>1. i + 1 < Len(r) => i + 2 \in 1..(Len(ps) - 1) /\ (i + 2) + 1 = (i + 1) + 2
    BY <1>1, <1>3
  <2> QED BY <1>1, <2>1
<1> QED BY <1>4, <1>5, <1>6, <1>7, Zenon DEF Separate

LEMMA ClearConcat ==
    ASSUME NEW s \in Seq(Piece), NEW t \in Seq(Piece), Clear(s), Clear(t),
           t # <<>> => t[1] \notin {Key(Open), Key(Close)}
    PROVE  Clear(s \o t)
<1> DEFINE u == s \o t
<1>1. /\ u \in Seq(Piece) /\ Len(u) = Len(s) + Len(t) /\ Len(s) \in Nat /\ Len(t) \in Nat
      /\ \A i \in 1..Len(s) : u[i] = s[i]
      /\ \A i \in 1..Len(t) : u[Len(s) + i] = t[i]
  BY BothTexts
<1>2. DOMAIN u = 1..Len(u) /\ DOMAIN s = 1..Len(s) /\ DOMAIN t = 1..Len(t)
  BY <1>1, LenProperties
<1> HIDE DEF u
<1> SUFFICES ASSUME NEW i \in 1..Len(u) PROVE Separate(u, i)
  BY <1>2 DEF Clear, u
<1>3. CASE i < Len(s)
  <2>1. i \in 1..Len(s) /\ i + 1 \in 1..Len(s) /\ i < Len(u)
    BY <1>1, <1>3
  <2>2. u[i] = s[i] /\ u[i + 1] = s[i + 1] /\ Separate(s, i)
    BY <1>1, <1>2, <2>1 DEF Clear
  <2>3. i + 1 < Len(s) => i + 1 < Len(u) /\ u[i + 2] = s[i + 2]
    BY <1>1, <2>1
  <2> QED BY <1>3, <2>2, <2>3, Zenon DEF Separate
<1>4. CASE i = Len(s)
  <2>1. i < Len(u) => 1 \in 1..Len(t) /\ t # <<>>
    BY <1>1, <1>4, EmptySeq
  <2>2. i < Len(u) => u[i + 1] \notin {Key(Open), Key(Close)}
    BY <1>1, <1>4, <2>1
  <2> QED BY <2>2 DEF Separate
<1>5. CASE i > Len(s)
  <2> DEFINE k == i - Len(s)
  <2>1. k \in 1..Len(t) /\ Len(s) + k = i /\ (k < Len(t) <=> i < Len(u))
    BY <1>1, <1>5
  <2>2. u[i] = t[k] /\ Separate(t, k)
    BY <1>1, <1>2, <2>1 DEF Clear
  <2>3. k < Len(t) => k + 1 \in 1..Len(t) /\ Len(s) + (k + 1) = i + 1
    BY <1>1, <2>1
  <2>4. k < Len(t) => u[i + 1] = t[k + 1]
    BY <1>1, <2>3
  <2>5. k + 1 < Len(t) => k + 2 \in 1..Len(t) /\ Len(s) + (k + 2) = i + 2 /\ i + 1 < Len(u)
    BY <1>1, <2>1
  <2>6. k + 1 < Len(t) => u[i + 2] = t[k + 2]
    BY <1>1, <2>5
  <2> HIDE DEF k
  <2> QED BY <2>1, <2>2, <2>4, <2>5, <2>6, Zenon DEF Separate
<1>6. i < Len(s) \/ i = Len(s) \/ i > Len(s)
  BY <1>1
<1> QED BY <1>3, <1>4, <1>5, <1>6

-----------------------------------------------------------------------------
(***************************************************************************)
(* What is printed into the buffer.                                        *)
(***************************************************************************)
Buffers == [0..(BufferLen - 1) -> Symbols \cup {Nul}]

LEMMA PutType ==
    ASSUME NEW b \in Buffers, NEW at \in Nat, NEW text \in Seq(Symbols)
    PROVE  Put(b, at, text) \in Buffers
<1> DEFINE end == IF at + Len(text) < BufferLen THEN at + Len(text) ELSE BufferLen - 1
<1>1. BufferLen \in Nat /\ BufferLen # 0 /\ Len(text) \in Nat
  BY Sizes, LenProperties
<1>2. end \in Int /\ end <= at + Len(text)
  BY <1>1
<1> HIDE DEF end
<1>3. \A i \in 0..(BufferLen - 1) : i \in at..(end - 1) => text[i - at + 1] \in Symbols
  <2> SUFFICES ASSUME NEW i \in at..(end - 1) PROVE text[i - at + 1] \in Symbols
    OBVIOUS
  <2>1. i - at + 1 \in 1..Len(text)
    BY <1>1, <1>2
  <2> QED BY <2>1
<1>4. Put(b, at, text)
          = [i \in 0..(BufferLen - 1) |-> IF i \in at..(end - 1) THEN text[i - at + 1]
                                          ELSE IF i = end THEN Nul ELSE b[i]]
  <2>1. DOMAIN b = 0..(BufferLen - 1)
    BY DEF Buffers
  <2> QED BY <2>1, Zenon DEF Put, end
<1> QED BY <1>3, <1>4 DEF Buffers

LEMMA PutHolds ==
    ASSUME NEW b \in Buffers, NEW read \in Nat, NEW at \in Nat,
           NEW s \in Seq(Symbols), NEW text \in Seq(Symbols),
           read + Len(s) = at, at + Len(text) < BufferLen,
           \A k \in 1..Len(s) : b[read + k - 1] = s[k]
    PROVE  Holds(Put(b, at, text), read, s \o text)
<1> DEFINE new == Put(b, at, text)
<1> DEFINE u == s \o text
<1> DEFINE end == at + Len(text)
<1>1. /\ BufferLen \in Nat /\ Len(s) \in Nat /\ Len(text) \in Nat /\ end \in Nat
      /\ end < BufferLen
  BY Sizes, LenProperties
<1>2. /\ u \in Seq(Symbols) /\ Len(u) = Len(s) + Len(text)
      /\ \A i \in 1..Len(s) + Len(text) :
            u[i] = IF i <= Len(s) THEN s[i] ELSE text[i - Len(s)]
  BY ConcatProperties
<1>3. \A i \in 0..(BufferLen - 1) :
          new[i] = IF i \in at..(end - 1) THEN text[i - at + 1]
                   ELSE IF i = end THEN Nul ELSE b[i]
  BY <1>1 DEF Put, Buffers
<1> HIDE DEF new, u, end
<1>a. \A l, n, k \in Nat :
          read + l = at /\ k <= l + n /\ ~(k <= l) =>
              /\ read + k - 1 \in at..((at + n) - 1)
              /\ (read + k - 1) - at + 1 = k - l
  OBVIOUS
<1>b. \A l, n \in Nat : read + l = at => /\ read + (l + n) = at + n
                                        /\ ~(at + n \in at..((at + n) - 1))
  OBVIOUS
<1>4. ASSUME NEW k \in 1..Len(u) PROVE new[read + k - 1] = u[k]
  <2> DEFINE i == read + k - 1
  <2>1. i \in 0..(BufferLen - 1) /\ k \in 1..Len(s) + Len(text)
    BY <1>1, <1>2 DEF end
  <2>2. CASE k <= Len(s)
    <3>1. ~(i \in at..(end - 1)) /\ i # end /\ k \in 1..Len(s)
      BY <1>1, <2>1, <2>2 DEF end
    <3>2. new[i] = b[i] /\ u[k] = s[k]
      BY <1>2, <1>3, <2>1, <2>2, <3>1
    <3> QED BY <3>1, <3>2
  <2>3. CASE ~(k <= Len(s))
    <3>1. i \in at..(end - 1) /\ i - at + 1 = k - Len(s)
      <4>1. k \in Nat /\ k <= Len(s) + Len(text)
        BY <1>2
      <4> HIDE DEF i
      <4>2. read + k - 1 \in at..((at + Len(text)) - 1)
            /\ (read + k - 1) - at + 1 = k - Len(s)
        BY <1>1, <1>a, <2>3, <4>1, Zenon
      <4> QED BY <4>2 DEF end, i
    <3>2. new[i] = text[i - at + 1] /\ u[k] = text[k - Len(s)]
      BY <1>2, <1>3, <2>1, <2>3, <3>1
    <3> QED BY <3>1, <3>2
  <2> QED BY <2>2, <2>3
<1>5. new[read + Len(u)] = Nul /\ read + Len(u) < BufferLen
  <2>1. read + Len(u) = end /\ ~(end \in at..(end - 1))
    <3>1. /\ read + (Len(s) + Len(text)) = at + Len(text)
          /\ ~(at + Len(text) \in at..((at + Len(text)) - 1))
      BY <1>1, <1>b
    <3> QED BY <1>2, <3>1 DEF end
  <2>2. end \in 0..(BufferLen - 1)
    BY <1>1
  <2> QED BY <1>1, <1>3, <2>1, <2>2
<1> QED BY <1>4, <1>5 DEF Holds, new, u
-----------------------------------------------------------------------------
(***************************************************************************)
(* The buffer holds, from read_position to write_position, the spelling of *)
(* pieces whose strokes are owed.                                          *)
(***************************************************************************)
Held(ps) ==
    /\ Clear(ps) /\ owed = Meaning(ps)
    /\ Holds(buffer, read_position, Spelling(ps))
    /\ write_position = read_position + Len(Spelling(ps))

KeyInv ==
    /\ buffer \in Buffers /\ read_position \in Nat /\ report \in Reports
    /\ \E ps \in Seq(Piece) : Held(ps)

\* A buffer that has been cleared holds no pieces.
LEMMA ClearedHeld ==
    /\ Cleared \in Buffers /\ Holds(Cleared, 0, Spelling(<<>>))
    /\ Clear(<<>>) /\ Meaning(<<>>) = <<>> /\ <<>> \in Seq(Piece) /\ Len(Spelling(<<>>)) = 0
<1>1. BufferLen \in Nat /\ BufferLen # 0
  BY Sizes
<1>2. Cleared \in Buffers /\ Cleared[0] = Nul
  BY <1>1 DEF Cleared, Buffers
<1>3. Spelling(<<>>) = <<>> /\ Len(<<>>) = 0
  BY SpellingEmpty
<1>4. Holds(Cleared, 0, <<>>)
  <2>1. Len(<<>>) = 0 /\ 1..0 = {} /\ 0 + 0 = 0 /\ 0 < BufferLen
    BY <1>1
  <2> QED BY <1>2, <2>1 DEF Holds
<1>5. Clear(<<>>)
  BY DEF Clear
<1>6. <<>> \in Seq(Piece)
  OBVIOUS
<1>7. Meaning(<<>>) = <<>>
  BY <1>3, <1>6, MeaningType, EmptySeq
<1> QED BY <1>2, <1>3, <1>4, <1>5, <1>6, <1>7

LEMMA InitKey == Init => KeyInv
<1> SUFFICES ASSUME Init PROVE KeyInv
  OBVIOUS
<1>1. /\ buffer = Cleared /\ write_position = 0 /\ read_position = 0
      /\ report = Empty /\ owed = <<>>
  BY DEF Init
<1>2. Held(<<>>)
  BY <1>1, ClearedHeld DEF Held
<1> QED BY <1>1, <1>2, ClearedHeld, EmptyReport DEF KeyInv

\* What key_printf writes comes behind what is held, or, where it does not fit, in its place.
LEMMA KeyPrintfHolds ==
    ASSUME KeyInv, NEW t \in Texts, KeyPrintf(t)
    PROVE  KeyInv'
<1>1. /\ t \in Seq(Piece) /\ Len(Spelling(t)) < BufferLen /\ Clear(t)
      /\ t # <<>> => t[1] \notin {Key(Open), Key(Close)}
  BY TextsAssumption
<1>2. Spelling(t) \in Seq(Symbols) /\ Len(Spelling(t)) \in Nat
  BY <1>1, SpellingType
<1>3. PICK ps \in Seq(Piece) : Held(ps)
  BY DEF KeyInv
<1>4. /\ buffer \in Buffers /\ read_position \in Nat /\ report \in Reports
      /\ Clear(ps) /\ owed = Meaning(ps) /\ Holds(buffer, read_position, Spelling(ps))
      /\ write_position = read_position + Len(Spelling(ps))
  BY <1>3 DEF KeyInv, Held
<1>5. Spelling(ps) \in Seq(Symbols) /\ Len(Spelling(ps)) \in Nat
  BY SpellingType
<1>6. /\ write_position \in Nat
      /\ \A k \in 1..Len(Spelling(ps)) : buffer[read_position + k - 1] = Spelling(ps)[k]
  BY <1>4, <1>5 DEF Holds
<1>7. report' = report
  BY DEF KeyPrintf
<1>8. CASE Fits(Spelling(t))
  <2>1. /\ buffer' = Put(buffer, write_position, Spelling(t))
        /\ write_position' = write_position + Len(Spelling(t))
        /\ owed' = owed \o Meaning(t) /\ read_position' = read_position
    BY <1>8 DEF KeyPrintf
  <2>2. write_position + Len(Spelling(t)) < BufferLen
    BY <1>2, <1>6, <1>8, Sizes DEF Fits
  <2> DEFINE new == ps \o t
  <2>3. new \in Seq(Piece) /\ Clear(new) /\ Meaning(new) = Meaning(ps) \o Meaning(t)
    BY <1>1, <1>4, ClearConcat, MeaningConcat, BothTexts
  <2>4. Spelling(new) = Spelling(ps) \o Spelling(t)
    BY <1>1, SpellingConcat
  <2>5. Len(Spelling(new)) = Len(Spelling(ps)) + Len(Spelling(t))
    BY <1>2, <1>5, <2>4, ConcatProperties
  <2>6. Put(buffer, write_position, Spelling(t)) \in Buffers
    BY <1>2, <1>4, <1>6, PutType
  <2>7. Holds(Put(buffer, write_position, Spelling(t)), read_position, Spelling(new))
    <3> HIDE DEF new
    <3>1. read_position + Len(Spelling(ps)) = write_position
      BY <1>4
    <3>2. Holds(Put(buffer, write_position, Spelling(t)), read_position,
                Spelling(ps) \o Spelling(t))
      BY <1>2, <1>4, <1>5, <1>6, <2>2, <3>1, PutHolds
    <3> QED BY <2>4, <3>2
  <2> HIDE DEF new
  <2>8. write_position' = read_position' + Len(Spelling(new))
    BY <1>2, <1>4, <1>5, <2>1, <2>5
  <2>9. Held(new)'
    BY <1>4, <2>1, <2>3, <2>7, <2>8 DEF Held
  <2> QED BY <1>4, <1>7, <2>1, <2>3, <2>6, <2>9 DEF KeyInv
<1>9. CASE ~Fits(Spelling(t))
  <2> DEFINE b == Put(buffer, write_position, Spelling(t))
  <2>1. /\ buffer' = Put(b, 0, Spelling(t)) /\ write_position' = Len(Spelling(t))
        /\ read_position' = 0 /\ owed' = Meaning(t)
    BY <1>9 DEF KeyPrintf, ReadAfterReset
  <2>2. b \in Buffers
    BY <1>2, <1>4, <1>6, PutType
  <2> HIDE DEF b
  <2>3. Put(b, 0, Spelling(t)) \in Buffers
    BY <1>2, <2>2, PutType
  <2>4. Holds(Put(b, 0, Spelling(t)), 0, Spelling(t))
    <3>1. <<>> \in Seq(Symbols) /\ 0 + Len(<<>>) = 0 /\ 1..Len(<<>>) = {}
      OBVIOUS
    <3>2. 0 + Len(Spelling(t)) < BufferLen /\ 0 \in Nat
      BY <1>1, <1>2
    <3>3. Holds(Put(b, 0, Spelling(t)), 0, <<>> \o Spelling(t))
      BY <1>2, <2>2, <3>1, <3>2, PutHolds
    <3>4. <<>> \o Spelling(t) = Spelling(t)
      BY <1>2, ConcatEmptySeq
    <3> QED BY <3>3, <3>4
  <2>5. Held(t)'
    BY <1>1, <1>2, <2>1, <2>4 DEF Held
  <2> QED BY <1>1, <1>4, <1>7, <2>1, <2>3, <2>5 DEF KeyInv
<1> QED BY <1>8, <1>9

\* A report takes the first stroke that is owed, or none.
LEMMA CreateReportHolds ==
    ASSUME KeyInv, CreateReport
    PROVE  /\ KeyInv'
           /\ report' # Empty => owed # <<>> /\ report' = Head(owed)
<1>1. PICK ps \in Seq(Piece) : Held(ps)
  BY DEF KeyInv
<1>2. /\ buffer \in Buffers /\ read_position \in Nat /\ report \in Reports
      /\ Clear(ps) /\ owed = Meaning(ps) /\ Holds(buffer, read_position, Spelling(ps))
      /\ write_position = read_position + Len(Spelling(ps))
  BY <1>1 DEF KeyInv, Held
<1>3. buffer' = buffer /\ write_position' = write_position
  BY DEF CreateReport
<1>4. CASE report' = Empty /\ read_position' = read_position
  <2>1. owed' = owed
    BY <1>4 DEF CreateReport, Reported
  <2>2. Held(ps)'
    BY <1>2, <1>3, <1>4, <2>1 DEF Held
  <2> QED BY <1>2, <1>3, <1>4, <2>2, EmptyReport DEF KeyInv
<1>5. CASE count = 0 /\ Waiting
  <2> DEFINE text == Spelling(ps)
  <2>1. text \in Seq(Symbols) /\ Len(text) \in Nat
    BY SpellingType
  <2>2. ps # <<>>
    <3>1. read_position < read_position + Len(text)
      BY <1>2, <1>5 DEF Waiting
    <3>2. ps = <<>> => Len(text) = 0
      BY ClearedHeld
    <3> HIDE DEF text
    <3> QED BY <1>2, <2>1, <3>1, <3>2
  <2> DEFINE p == ps[1]
  <2> DEFINE rest == Tail(ps)
  <2>3. p \in Piece /\ rest \in Seq(Piece) /\ text = Spelled(p) \o Spelling(rest)
    BY <2>2, SpellingFirst
  <2>4. Spelled(p) \in Seq(Symbols) /\ Spelling(rest) \in Seq(Symbols)
    BY <2>3, SpelledType, SpellingType
  <2>5. Input \in Inputs /\ Holds(Input, read_position, text)
    <3>1. BufferLen \in Nat /\ EndOfInput = BufferLen + 1
      BY Sizes
    <3>2. Input \in Inputs
      <4>1. \A i \in 0..EndOfInput : i < BufferLen => buffer[i] \in Symbols \cup {Nul}
        BY <1>2, <3>1 DEF Buffers
      <4> QED BY <3>1, <4>1 DEF Input, Inputs
    <3>3. \A i \in 0..(BufferLen - 1) : Input[i] = buffer[i]
      BY <3>1 DEF Input
    <3> HIDE DEF text
    <3>4. /\ read_position + Len(text) < BufferLen
          /\ \A k \in 1..Len(text) : buffer[read_position + k - 1] = text[k]
          /\ buffer[read_position + Len(text)] = Nul
      BY <1>2 DEF Holds, text
    <3>5. /\ read_position + Len(text) \in 0..(BufferLen - 1)
          /\ \A k \in 1..Len(text) : read_position + k - 1 \in 0..(BufferLen - 1)
      BY <1>2, <2>1, <3>1, <3>4
    <3> QED BY <3>2, <3>3, <3>4, <3>5 DEF Holds
  <2>6. MapKeys(Input, read_position, EndOfInput)
            = [report |-> Stroke(p), read |-> Len(Spelled(p))]
    BY <1>2, <2>2, <2>5, PieceRead
  <2>7. report' = Stroke(p) /\ read_position' = read_position + Len(Spelled(p))
    <3> HIDE DEF p
    <3>1. /\ MapKeys(Input, read_position, BufferLen + 1).report = Stroke(p)
          /\ MapKeys(Input, read_position, BufferLen + 1).read = Len(Spelled(p))
      BY <2>6 DEF EndOfInput
    <3>2. Consume
      BY <1>5 DEF CreateReport
    <3> QED BY <1>5, <3>1, <3>2 DEF Consume
  <2>8. Stroke(p) \in Reports /\ Stroke(p) # Empty
    BY <2>3, StrokeReport
  <2>9. owed # <<>> /\ Head(owed) = Stroke(p) /\ Tail(owed) = Meaning(rest)
    BY <1>2, <2>2, MeaningFirst
  <2>10. owed' = Meaning(rest)
    BY <2>7, <2>8, <2>9 DEF CreateReport, Reported
  <2>11. /\ read_position + Len(Spelled(p)) \in Nat
         /\ Holds(buffer, read_position + Len(Spelled(p)), Spelling(rest))
    BY <1>2, <2>3, <2>4, HeldParts
  <2>12. Clear(rest)
    BY <1>2, <2>2, ClearTail
  <2>13. write_position' = read_position' + Len(Spelling(rest))
    <3>1. Len(text) = Len(Spelled(p)) + Len(Spelling(rest))
      BY <2>3, <2>4, ConcatProperties
    <3>2. Len(Spelled(p)) \in Nat /\ Len(Spelling(rest)) \in Nat
      BY <2>4, LenProperties
    <3> HIDE DEF text, p, rest
    <3> QED BY <1>2, <1>3, <2>7, <3>1, <3>2 DEF text
  <2> HIDE DEF p, rest, text
  <2>14. Held(rest)'
    BY <1>3, <2>7, <2>10, <2>11, <2>12, <2>13 DEF Held
  <2> QED BY <1>2, <1>3, <2>3, <2>7, <2>8, <2>9, <2>11, <2>14 DEF KeyInv
<1>6. CASE ~(count = 0 /\ Waiting)
  <2>1. report' = Empty /\ read_position' = read_position
    BY <1>6 DEF CreateReport, Consume
  <2> QED BY <1>4, <2>1
<1> QED BY <1>5, <1>6

LEMMA KeyStep == KeyInv /\ [Next]_vars => KeyInv'
<1> SUFFICES ASSUME KeyInv, [Next]_vars PROVE KeyInv'
  OBVIOUS
<1>1. CASE TypeText \/ TypeError
  BY <1>1, KeyPrintfHolds DEF TypeText, TypeError
<1>2. CASE Config \/ UNCHANGED vars
  BY <1>2 DEF Config, vars, keys, promised, KeyInv, Held
<1>3. CASE CreateReport
  BY <1>3, CreateReportHolds
<1>4. CASE PowerCycle
  <2>1. /\ buffer' = Cleared /\ write_position' = 0 /\ read_position' = 0
        /\ report' = Empty /\ owed' = <<>>
    BY <1>4 DEF PowerCycle
  <2>2. Held(<<>>)'
    BY <2>1, ClearedHeld DEF Held
  <2> QED BY <2>1, <2>2, ClearedHeld, EmptyReport DEF KeyInv
<1> QED BY <1>1, <1>2, <1>3, <1>4 DEF Next

\* For every set of texts, length of the buffer and delay: each stroke that is reported is
\* the next one of what was printed, whatever is printed and configured between reports.
THEOREM StrokesInOrder == Spec => KeysAsTyped
<1>1. KeyInv /\ [Next]_vars =>
        [CreateReport /\ report' # Empty => owed # <<>> /\ report' = Head(owed)]_vars
  BY CreateReportHolds
<1> QED BY <1>1, InitKey, KeyStep, PTL DEF Spec, KeysAsTyped

-----------------------------------------------------------------------------
LEMMA ConfigTyped == ConfigTypeOK /\ [Next]_vars => ConfigTypeOK'
<1> SUFFICES ASSUME ConfigTypeOK, [Next]_vars PROVE ConfigTypeOK'
  OBVIOUS
<1>1. CASE UNCHANGED vars \/ TypeText \/ TypeError \/ CreateReport
  BY <1>1 DEF vars, TypeText, TypeError, KeyPrintf, CreateReport, config, settings, eeprom,
              saved, ConfigTypeOK
<1>2. CASE Config
  <2>1. PICK permanent \in BOOLEAN :
          \/ \E item \in Documented, value \in BOOLEAN : SetBool(item, value, permanent)
          \/ \E value \in Delays : SetByte(value, permanent)
    BY <1>2 DEF Config, SetConfig
  <2>2. ASSUME NEW item \in Documented, NEW value \in BOOLEAN, SetBool(item, value, permanent)
        PROVE  ConfigTypeOK'
    <3>1. item \in BoolItems
      BY DEF Documented, BoolItems, LIO_PRINT_ERRORS, LIO_NO_LED
    <3> QED BY <2>2, <3>1 DEF SetBool, StoreItem, SetBoolValue, ConfigTypeOK
  <2>3. ASSUME NEW value \in Delays, SetByte(value, permanent) PROVE ConfigTypeOK'
    BY <2>3, DelaysAssumption DEF SetByte, ConfigTypeOK
  <2> QED BY <2>1, <2>2, <2>3
<1>3. CASE PowerCycle
  BY <1>3 DEF PowerCycle, ConfigInit, AfterInit, saved, ConfigTypeOK
<1> QED BY <1>1, <1>2, <1>3 DEF Next

\* The counter of reports is a byte.
LEMMA CountStep == Paced /\ count \in 0..MaxByte /\ [Next]_vars => (count \in 0..MaxByte)'
<1> SUFFICES ASSUME Paced, count \in 0..MaxByte, [Next]_vars PROVE count' \in 0..MaxByte
  OBVIOUS
<1>1. CASE UNCHANGED vars \/ TypeText \/ TypeError \/ Config
  BY <1>1 DEF vars, TypeText, TypeError, KeyPrintf, Config
<1>2. CASE CreateReport
  BY <1>2, DelayType, DelaysAssumption DEF CreateReport, Reloaded
<1>3. CASE PowerCycle
  BY <1>3, DelaysAssumption DEF PowerCycle
<1> QED BY <1>1, <1>2, <1>3 DEF Next

\* For every set of texts, length of the buffer and delay: the positions stay within the
\* buffer and in order, what is written ends with a NUL, and a report has six keys at most.
THEOREM KeyboardTyped == Spec => []TypeOK
<1> DEFINE Inv == KeyInv /\ Paced /\ ConfigTypeOK /\ count \in 0..MaxByte
<1>1. Init => Inv
  <2> SUFFICES ASSUME Init PROVE Inv
    OBVIOUS
  <2>1. ConfigTypeOK
    BY DelaysAssumption DEF Init, ConfigStart, AfterInit, ConfigTypeOK, BoolItems,
                            LIO_CONFIG_INITIALIZED
  <2>2. count \in 0..MaxByte
    BY DelaysAssumption DEF Init
  <2> QED BY <2>1, <2>2, InitKey, InitStored
<1>2. Inv /\ [Next]_vars => Inv'
  BY KeyStep, PacedStep, ConfigTyped, CountStep
<1>3. Inv => TypeOK
  <2> SUFFICES ASSUME Inv PROVE TypeOK
    OBVIOUS
  <2>1. PICK ps \in Seq(Piece) : Held(ps)
    BY DEF KeyInv
  <2>2. /\ buffer \in Buffers /\ read_position \in Nat /\ report \in Reports
        /\ owed = Meaning(ps) /\ Holds(buffer, read_position, Spelling(ps))
        /\ write_position = read_position + Len(Spelling(ps))
    BY <2>1 DEF KeyInv, Held
  <2>3. Len(Spelling(ps)) \in Nat /\ BufferLen \in Nat
    BY SpellingType, Sizes
  <2>4. /\ write_position \in 0..(BufferLen - 1) /\ read_position \in 0..write_position
        /\ buffer[write_position] = Nul
    BY <2>2, <2>3 DEF Holds
  <2>5. apart \in 0..MaxByte
    BY DelaysAssumption DEF Paced
  <2>6. owed \in Seq(Strokes)
    BY <2>2, MeaningType
  <2> QED BY <2>2, <2>4, <2>5, <2>6 DEF TypeOK, Buffers, Reports
<1> QED BY <1>1, <1>2, <1>3, PTL DEF Spec
=============================================================================
