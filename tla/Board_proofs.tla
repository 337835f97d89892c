----------------------------- MODULE Board_proofs -----------------------------
(***************************************************************************)
(* What pins do, for every set of pins and timers, any values, and any     *)
(* interleaving of builtins: a pin in a state that fits its mode stays in  *)
(* one, whatever is done to it or to another pin.                          *)
(***************************************************************************)
EXTENDS Board, SequenceTheorems, WellFoundedInduction, TLAPS

-----------------------------------------------------------------------------
(***************************************************************************)
(* What FlattenSeq does: it puts the parts one behind the other.           *)
(***************************************************************************)
\* Induction over the natural numbers, stated with a set: a least number that is not in the
\* set would have one before it that is.
LEMMA SetInduction ==
    ASSUME NEW S, 0 \in S, \A n \in Nat : n \in S => n + 1 \in S
    PROVE  \A n \in Nat : n \in S
<1> SUFFICES ASSUME NEW n \in Nat, n \notin S PROVE FALSE
  OBVIOUS
<1> DEFINE T == {m \in Nat : m \notin S}
<1> DEFINE R == OpToRel(<, Nat)
<1>1. IsWellFoundedOn(R, Nat)
  BY NatLessThanWellFounded, Zenon
<1>2. \A x, y \in Nat : y < x => <<y, x>> \in R
  BY DEF OpToRel
<1> HIDE DEF R
<1>3. PICK m \in T : \A y \in T : ~ (<<y, m>> \in R)
  <2>1. n \in T /\ T \subseteq Nat
    OBVIOUS
  <2> HIDE DEF T
  <2> QED BY <1>1, <2>1, WFMin
<1>4. m \in Nat /\ m \notin S /\ m # 0
  OBVIOUS
<1>5. m - 1 \in Nat /\ m - 1 < m /\ (m - 1) + 1 = m
  BY <1>4
<1>6. m - 1 \notin T
  BY <1>2, <1>3, <1>4, <1>5
<1> QED BY <1>4, <1>5, <1>6

\* The recursion that FlattenSeq is defined by has a solution, step by step.
LEMMA FlattenSteps ==
    ASSUME NEW V, NEW s \in Seq(Seq(V)), s # <<>>
    PROVE  \E f \in [1..Len(s) -> Seq(V)] :
               /\ \A i \in 1..Len(s) : f[i] = IF i = 1 THEN s[i] ELSE f[i - 1] \o s[i]
               /\ FlattenSeq(s) = f[Len(s)]
<1>1. Len(s) \in Nat /\ Len(s) # 0 /\ s \in [1..Len(s) -> Seq(V)]
  OBVIOUS
<1> DEFINE Step(f, i) == IF i = 1 THEN s[i] ELSE f[i - 1] \o s[i]
<1> DEFINE Solved(f, n) == f \in [1..n -> Seq(V)] /\ \A i \in 1..n : f[i] = Step(f, i)
<1> DEFINE S == {n \in Nat : n <= Len(s) => \E f : Solved(f, n)}
<1>2. 0 \in S
  <2>1. Solved([i \in {} |-> <<>>], 0)
    OBVIOUS
  <2> QED BY <2>1
<1>3. ASSUME NEW n \in Nat, n \in S PROVE n + 1 \in S
  <2> SUFFICES ASSUME n + 1 <= Len(s) PROVE \E f : Solved(f, n + 1)
    OBVIOUS
  <2>0. n <= Len(s)
    BY <1>1
  <2>1. PICK f : Solved(f, n)
    BY <1>3, <2>0, Zenon
  <2> DEFINE g == [i \in 1..(n + 1) |-> IF i <= n THEN f[i] ELSE Step(f, i)]
  <2>2. \A i \in 1..(n + 1) : s[i] \in Seq(V)
    OBVIOUS
  <2>3. \A i \in 1..n : g[i] = f[i] /\ f[i] \in Seq(V)
    BY <2>1
  <2>4. g \in [1..(n + 1) -> Seq(V)]
    <3>1. Step(f, n + 1) \in Seq(V)
      <4>1. CASE n = 0
        BY <2>2, <4>1
      <4>2. CASE n # 0
        <5>0. n \in 1..n /\ n + 1 \in 1..(n + 1) /\ n + 1 # 1 /\ (n + 1) - 1 = n
          BY <4>2
        <5>1. f[n] \in Seq(V) /\ s[n + 1] \in Seq(V)
          BY <2>2, <2>3, <5>0
        <5>2. f[n] \o s[n + 1] \in Seq(V)
          BY <5>1, ConcatProperties
        <5> QED BY <5>0, <5>2
      <4> QED BY <4>1, <4>2
    <3>2. \A i \in 1..(n + 1) : i \in 1..n \/ (i = n + 1 /\ ~(i <= n))
      OBVIOUS
    <3>3. \A i \in 1..(n + 1) : g[i] \in Seq(V)
      BY <2>3, <3>1, <3>2
    <3> QED BY <3>3
  <2>5. ASSUME NEW i \in 1..(n + 1) PROVE g[i] = Step(g, i)
    <3>1. g[i] = Step(f, i)
      <4>1. CASE i \in 1..n
        BY <2>1, <4>1
      <4>2. CASE i \notin 1..n
        <5>1. ~(i <= n)
          BY <4>2
        <5> QED BY <5>1
      <4> QED BY <4>1, <4>2
    <3>2. i # 1 => i - 1 \in 1..n
      OBVIOUS
    <3>3. i # 1 => g[i - 1] = f[i - 1]
      BY <3>2, <2>3
    <3> QED BY <3>1, <3>3
  <2> HIDE DEF g
  <2> QED BY <2>4, <2>5
<1> HIDE DEF S
<1>4. Len(s) \in S
  BY <1>2, <1>3, <1>1, SetInduction
<1> USE DEF S
<1>5. PICK f : Solved(f, Len(s))
  BY <1>1, <1>4
<1> DEFINE F == CHOOSE h : h = [i \in 1..Len(s) |-> IF i = 1 THEN s[i] ELSE h[i - 1] \o s[i]]
<1>6. f = [i \in 1..Len(s) |-> IF i = 1 THEN s[i] ELSE f[i - 1] \o s[i]]
  BY <1>5
<1>7. F = [i \in 1..Len(s) |-> IF i = 1 THEN s[i] ELSE F[i - 1] \o s[i]]
  BY <1>6, Zenon
<1>8. FlattenSeq(s) = F[Len(s)]
  BY <1>1, Zenon DEF FlattenSeq
<1> HIDE DEF F
<1>9. \A i \in 1..Len(s) : F[i] = Step(F, i)
  BY <1>7
<1>10. F \in [1..Len(s) -> Seq(V)]
  <2> DEFINE R == {n \in Nat : n \in 1..Len(s) => F[n] \in Seq(V)}
  <2>1. 0 \in R
    OBVIOUS
  <2>2. ASSUME NEW n \in Nat, n \in R PROVE n + 1 \in R
    <3> SUFFICES ASSUME n + 1 \in 1..Len(s) PROVE F[n + 1] \in Seq(V)
      OBVIOUS
    <3>1. s[n + 1] \in Seq(V) /\ F[n + 1] = Step(F, n + 1)
      BY <1>9
    <3>2. CASE n = 0
      BY <3>1, <3>2
    <3>3. CASE n # 0
      <4>1. F[n] \in Seq(V)
        BY <2>2, <3>3
      <4> QED BY <3>1, <3>3, <4>1
    <3> QED BY <3>2, <3>3
  <2> HIDE DEF R
  <2>3. \A n \in Nat : n \in R
    BY <2>1, <2>2, SetInduction
  <2> USE DEF R
  <2>4. DOMAIN F = 1..Len(s) /\ F = [i \in 1..Len(s) |-> F[i]]
    BY <1>7
  <2>5. \A i \in 1..Len(s) : F[i] \in Seq(V)
    BY <2>3
  <2> QED BY <2>4, <2>5
<1> QED BY <1>8, <1>9, <1>10

LEMMA FlattenType ==
    ASSUME NEW V, NEW s \in Seq(Seq(V))
    PROVE  FlattenSeq(s) \in Seq(V)
<1>1. CASE s = <<>>
  BY <1>1 DEF FlattenSeq
<1>2. CASE s # <<>>
  <2>1. Len(s) \in 1..Len(s)
    BY <1>2
  <2> QED BY <1>2, <2>1, FlattenSteps
<1> QED BY <1>1, <1>2

LEMMA FlattenEmpty == FlattenSeq(<<>>) = <<>>
  BY DEF FlattenSeq

LEMMA ConcatThree ==
    ASSUME NEW W
    PROVE  \A a, b, c \in Seq(W) : (a \o b) \o c = a \o (b \o c)
<1> SUFFICES ASSUME NEW a \in Seq(W), NEW b \in Seq(W), NEW c \in Seq(W)
             PROVE  (a \o b) \o c = a \o (b \o c)
  OBVIOUS
<1> DEFINE l == (a \o b) \o c
<1> DEFINE r == a \o (b \o c)
<1>1. a \o b \in Seq(W) /\ b \o c \in Seq(W) /\ l \in Seq(W) /\ r \in Seq(W)
  OBVIOUS
<1>2. Len(l) = Len(a) + Len(b) + Len(c) /\ Len(r) = Len(l)
  OBVIOUS
<1>3. \A i \in 1..Len(l) : l[i] = r[i]
  OBVIOUS
<1> HIDE DEF l, r
<1>4. l = r
  BY <1>1, <1>2, <1>3, SeqEqual
<1> QED BY <1>4 DEF l, r

\* The same, for a sequence of n + 1 parts.
LEMMA FlattenParts ==
    ASSUME NEW V, NEW s \in Seq(Seq(V)), NEW n \in Nat, Len(s) = n + 1
    PROVE  \E f : /\ \A i \in 1..(n + 1) : f[i] \in Seq(V) /\ s[i] \in Seq(V)
                  /\ f[1] = s[1]
                  /\ \A i \in 1..n : f[i + 1] = f[i] \o s[i + 1]
                  /\ FlattenSeq(s) = f[n + 1]
<1>1. s # <<>>
  BY EmptySeq
<1>2. PICK f \in [1..Len(s) -> Seq(V)] :
          /\ \A i \in 1..Len(s) : f[i] = IF i = 1 THEN s[i] ELSE f[i - 1] \o s[i]
          /\ FlattenSeq(s) = f[Len(s)]
  BY <1>1, FlattenSteps
<1>3. \A i \in 1..(n + 1) : f[i] \in Seq(V) /\ s[i] \in Seq(V)
  BY ElementOfSeq
<1>4. f[1] = s[1]
  <2>1. 1 \in 1..Len(s)
    OBVIOUS
  <2> QED BY <1>2, <2>1
<1>5. ASSUME NEW i \in 1..n PROVE f[i + 1] = f[i] \o s[i + 1]
  <2>1. i + 1 \in 1..Len(s) /\ i + 1 # 1 /\ (i + 1) - 1 = i
    OBVIOUS
  <2>2. f[i + 1] = f[(i + 1) - 1] \o s[i + 1]
    BY <1>2, <2>1, Zenon
  <2> QED BY <2>1, <2>2, Zenon
<1>6. FlattenSeq(s) = f[n + 1]
  BY <1>2
<1> QED BY <1>3, <1>4, <1>5, <1>6

LEMMA FlattenFirst ==
    ASSUME NEW V, NEW s \in Seq(Seq(V)), s # <<>>
    PROVE  FlattenSeq(s) = s[1] \o FlattenSeq(Tail(s))
<1>1. PICK n \in Nat : Len(s) = n + 1
  <2>1. Len(s) \in Nat \ {0}
    BY EmptySeq
  <2>2. Len(s) - 1 \in Nat /\ Len(s) = (Len(s) - 1) + 1
    BY <2>1
  <2> QED BY <2>2, Zenon
<1>2. /\ Tail(s) \in Seq(Seq(V)) /\ Len(Tail(s)) = n
      /\ \A i \in 1..n : Tail(s)[i] = s[i + 1]
  BY <1>1, HeadTailProperties
<1>3. PICK f : /\ \A i \in 1..(n + 1) : f[i] \in Seq(V) /\ s[i] \in Seq(V)
               /\ f[1] = s[1]
               /\ \A i \in 1..n : f[i + 1] = f[i] \o s[i + 1]
               /\ FlattenSeq(s) = f[n + 1]
  BY <1>1, FlattenParts
<1>4. s[1] \in Seq(V)
  BY <1>3
<1>5. \A a, b, c \in Seq(V) : (a \o b) \o c = a \o (b \o c)
  BY ConcatThree, SMTT(20)
<1>6. CASE n = 0
  <2>1. Tail(s) = <<>>
    BY <1>2, <1>6, EmptySeq
  <2>2. FlattenSeq(s) = s[1]
    BY <1>3, <1>6
  <2>3. s[1] \o <<>> = s[1]
    BY <1>4, ConcatEmptySeq
  <2> QED BY <2>1, <2>2, <2>3, FlattenEmpty
<1>7. CASE n # 0
  <2>1. PICK m \in Nat : n = m + 1
    <3>1. n - 1 \in Nat /\ n = (n - 1) + 1
      BY <1>7
    <3> QED BY <3>1, Zenon
  <2>2. PICK g : /\ \A i \in 1..(m + 1) : g[i] \in Seq(V) /\ Tail(s)[i] \in Seq(V)
                 /\ g[1] = Tail(s)[1]
                 /\ \A i \in 1..m : g[i + 1] = g[i] \o Tail(s)[i + 1]
                 /\ FlattenSeq(Tail(s)) = g[m + 1]
    <3>1. Tail(s) \in Seq(Seq(V)) /\ Len(Tail(s)) = m + 1
      BY <1>2, <2>1
    <3> HIDE <1>2
    <3> QED BY <3>1, FlattenParts, Zenon
  <2> DEFINE Good == {i \in Nat : i <= m => f[(i + 1) + 1] = s[1] \o g[i + 1]}
  <2>3. 0 \in Good
    <3>1. 1 \in 1..n /\ 1 + 1 \in 1..(n + 1)
      BY <2>1
    <3>2. f[1 + 1] = f[1] \o s[1 + 1] /\ Tail(s)[1] = s[1 + 1]
      BY <1>2, <1>3, <3>1
    <3>3. f[1 + 1] = s[1] \o g[1]
      BY <1>3, <2>2, <3>2
    <3>4. (0 + 1) + 1 = 1 + 1 /\ 0 + 1 = 1
      OBVIOUS
    <3> QED BY <3>3, <3>4, Zenon
  <2>4. ASSUME NEW i \in Nat, i \in Good PROVE i + 1 \in Good
    <3>0. i + 1 \in Nat
      OBVIOUS
    <3>1. ASSUME i + 1 <= m PROVE f[((i + 1) + 1) + 1] = s[1] \o g[(i + 1) + 1]
      <4> DEFINE j == i + 1
      <4>1. i <= m /\ j \in 1..m /\ j + 1 \in 1..n /\ (j + 1) + 1 \in 1..(n + 1) /\ j \in 1..(m + 1)
        BY <2>1, <3>1
      <4>2. f[j + 1] = s[1] \o g[j]
        BY <2>4, <4>1
      <4> HIDE DEF j
      <4> DEFINE x == s[(j + 1) + 1]
      <4>3. f[(j + 1) + 1] = f[j + 1] \o x /\ x \in Seq(V)
        BY <1>3, <4>1
      <4>4. g[j + 1] = g[j] \o Tail(s)[j + 1] /\ Tail(s)[j + 1] = x /\ g[j] \in Seq(V)
        BY <1>2, <2>2, <4>1
      <4> HIDE DEF x
      <4>5. (s[1] \o g[j]) \o x = s[1] \o (g[j] \o x)
        <5>2. s[1] \in Seq(V) /\ g[j] \in Seq(V) /\ x \in Seq(V)
          BY <1>4, <4>3, <4>4
        <5> QED BY <1>5, <5>2
      <4>6. f[(j + 1) + 1] = s[1] \o g[j + 1]
        BY <4>2, <4>3, <4>4, <4>5
      <4> QED BY <4>6 DEF j
    <3> QED BY <3>0, <3>1
  <2> HIDE DEF Good
  <2>5. m \in Good
    BY <2>3, <2>4, SetInduction
  <2> USE DEF Good
  <2>6. f[(m + 1) + 1] = s[1] \o g[m + 1]
    <3>1. m <= m
      OBVIOUS
    <3> QED BY <2>5, <3>1, Zenon
  <2> QED BY <1>3, <2>1, <2>2, <2>6
<1> QED BY <1>6, <1>7

LEMMA ConcatHasPrefix ==
    ASSUME NEW V, NEW s \in Seq(V), NEW t \in Seq(V)
    PROVE  IsPrefix(s, s \o t)
<1> DEFINE u == s \o t
<1>1. u \in Seq(V) /\ Len(s) <= Len(u) /\ Len(s) \in Nat
  OBVIOUS
<1>2. \A i \in 1..Len(s) : s[i] = u[i] /\ s[i] \in V
  OBVIOUS
<1> HIDE DEF u
<1>3. SubSeq(s, 1, Len(s)) = SubSeq(u, 1, Len(s))
  BY <1>1, <1>2
<1> QED BY <1>1, <1>3 DEF IsPrefix, u

LEMMA PrefixOfLonger ==
    ASSUME NEW V, NEW s \in Seq(V), NEW t \in Seq(V), NEW u \in Seq(V), IsPrefix(s, t)
    PROVE  IsPrefix(s, t \o u)
<1> DEFINE w == t \o u
<1>1. w \in Seq(V) /\ Len(t) <= Len(w) /\ Len(s) \in Nat /\ Len(t) \in Nat /\ Len(w) \in Nat
  OBVIOUS
<1>2. Len(s) <= Len(t) /\ SubSeq(s, 1, Len(s)) = SubSeq(t, 1, Len(s))
  BY DEF IsPrefix
<1>3. \A i \in 1..Len(s) : t[i] = w[i] /\ t[i] \in V
  BY <1>2
<1> HIDE DEF w
<1>4. SubSeq(t, 1, Len(s)) = SubSeq(w, 1, Len(s))
  BY <1>1, <1>2, <1>3
<1> QED BY <1>1, <1>2, <1>4 DEF IsPrefix, w

-----------------------------------------------------------------------------

PinTypes ==
    /\ modes \in [Pin -> Modes] /\ dir \in [Pin -> {0, 1}] /\ out \in [Pin -> {0, 1}]
    /\ timer \in [Pin -> BOOLEAN] /\ DOMAIN duty = Pin /\ DOMAIN asked = Pin

(***************************************************************************)
(* A pin's direction and level are those of its mode; a timer runs only    *)
(* for a pin that has one and in the mode for it, which makes it an        *)
(* output; and each pin is as PinAsAsked says.                             *)
(***************************************************************************)
Fits(p) ==
    /\ modes[p] \in {"I", "A"} => dir[p] = 0 /\ out[p] = 0
    /\ modes[p] = "H" => dir[p] = 0 /\ out[p] = 1
    /\ modes[p] \in {"O", "P"} => dir[p] = 1
    /\ timer[p] => modes[p] = "P" /\ p \in PwmPins
    /\ modes[p] = "O" /\ asked[p] # Unasked => out[p] = Bit(asked[p])
    /\ modes[p] = "P" /\ p \in PwmPins /\ asked[p] # Unasked =>
           IF asked[p] = 0 THEN ~timer[p] /\ out[p] = 0
           ELSE timer[p] /\ duty[p] = IF asked[p] > Byte - 1 THEN Byte - 1 ELSE asked[p]

Ported == call = "port" => arguments \in Seq(Pin)

PinInv == PinTypes /\ (\A p \in Pin : Fits(p)) /\ Ported

USE DEF Modes

LEMMA BitIsOneOrNot == \A v : Bit(v) \in {0, 1}
  BY DEF Bit

LEMMA FitsIsAsked ==
    ASSUME PinTypes, NEW p \in Pin, Fits(p) PROVE PinAsAsked(p)
<1>1. dir[p] \in {0, 1} /\ out[p] \in {0, 1} /\ timer[p] \in BOOLEAN
  BY DEF PinTypes
<1>2. ASSUME modes[p] \in {"I", "A"} PROVE Drive(p) = "open"
  <2>1. dir[p] = 0 /\ out[p] = 0
    BY <1>2 DEF Fits
  <2> QED BY <2>1 DEF Drive
<1>3. ASSUME modes[p] = "H" PROVE Drive(p) = "pulled up"
  <2>1. dir[p] = 0 /\ out[p] = 1
    BY <1>3 DEF Fits
  <2> QED BY <2>1 DEF Drive
<1>4. timer[p] => modes[p] = "P"
  BY DEF Fits
<1>5. ASSUME modes[p] = "O", asked[p] # Unasked
      PROVE  Drive(p) = IF Bit(asked[p]) = 1 THEN "high" ELSE "low"
  <2>1. dir[p] = 1 /\ ~timer[p] /\ out[p] = Bit(asked[p])
    BY <1>5 DEF Fits
  <2> QED BY <2>1 DEF Drive
<1>6. ASSUME modes[p] = "P", p \in PwmPins, asked[p] # Unasked
      PROVE  IF asked[p] = 0 THEN Drive(p) = "low"
             ELSE Drive(p) = "timer"
                  /\ duty[p] = IF asked[p] > Byte - 1 THEN Byte - 1 ELSE asked[p]
  <2>1. dir[p] = 1
    BY <1>6 DEF Fits
  <2>2. CASE asked[p] = 0
    <3>1. ~timer[p] /\ out[p] = 0
      BY <1>6, <2>2 DEF Fits
    <3> QED BY <2>1, <2>2, <3>1 DEF Drive
  <2>3. CASE asked[p] # 0
    <3>1. timer[p] /\ duty[p] = IF asked[p] > Byte - 1 THEN Byte - 1 ELSE asked[p]
      BY <1>6, <2>3 DEF Fits
    <3> QED BY <2>1, <2>3, <3>1 DEF Drive
  <2> QED BY <2>2, <2>3
<1> QED BY <1>2, <1>3, <1>4, <1>5, <1>6 DEF PinAsAsked

-----------------------------------------------------------------------------
\* The three things that are done to a pin.

LEMMA PinModeFits ==
    ASSUME PinTypes, \A q \in Pin : Fits(q), NEW p \in Pin, NEW mode \in Modes,
           PinMode(p, mode)
    PROVE  PinTypes' /\ \A q \in Pin : Fits(q)'
<1>1. PinTypes'
  BY DEF PinTypes, PinMode
<1>2. ASSUME NEW q \in Pin, q # p PROVE Fits(q)'
  <2>1. /\ modes'[q] = modes[q] /\ dir'[q] = dir[q] /\ out'[q] = out[q]
        /\ timer'[q] = timer[q] /\ duty'[q] = duty[q] /\ asked'[q] = asked[q]
    BY <1>2 DEF PinTypes, PinMode
  <2> QED BY <2>1, <1>2 DEF Fits
<1>3. Fits(p)'
  <2>1. modes'[p] = mode /\ duty'[p] = duty[p]
    BY DEF PinTypes, PinMode
  <2>2. timer'[p] => mode = "P" /\ timer[p]
    BY DEF PinTypes, PinMode, WasPwm, Fits
  <2>3. /\ mode \in {"I", "A"} => dir'[p] = 0 /\ out'[p] = 0
        /\ mode = "H" => dir'[p] = 0 /\ out'[p] = 1
        /\ mode \in {"O", "P"} => dir'[p] = 1
    BY DEF PinTypes, PinMode
  <2>4. CASE mode = modes[p]
    <3>1. asked'[p] = asked[p]
      BY <2>4 DEF PinTypes, PinMode
    <3>2. ~WasPwm(p, mode)
      BY <2>4 DEF WasPwm
    <3>3. timer'[p] = timer[p]
      BY <3>2 DEF PinMode
    <3>4. mode \in {"O", "P"} => out'[p] = out[p]
      BY <3>2 DEF PinMode
    <3> QED BY <2>1, <2>2, <2>3, <2>4, <3>1, <3>3, <3>4 DEF Fits
  <2>5. CASE mode # modes[p]
    <3>1. asked'[p] = Unasked
      BY <2>5 DEF PinTypes, PinMode
    <3>2. timer'[p] => p \in PwmPins
      BY <2>2 DEF Fits
    <3> QED BY <2>1, <2>2, <2>3, <3>1, <3>2 DEF Fits
  <2> QED BY <2>4, <2>5
<1> QED BY <1>1, <1>2, <1>3

LEMMA SetPinValueFits ==
    ASSUME PinTypes, \A q \in Pin : Fits(q), NEW p \in Pin, NEW value,
           SetPinValue(p, value)
    PROVE  PinTypes' /\ \A q \in Pin : Fits(q)'
<1>1. PinTypes'
  <2>1. modes' = modes /\ modes' \in [Pin -> Modes] /\ DOMAIN asked' = Pin
    BY DEF PinTypes, SetPinValue
  <2>2. CASE modes[p] = "O"
    BY <2>1, <2>2, BitIsOneOrNot DEF PinTypes, SetPinValue
  <2>3. CASE modes[p] = "P"
    <3>1. Pwm(p, value)
      BY <2>3 DEF SetPinValue
    <3>2. dir' \in [Pin -> {0, 1}] /\ out' \in [Pin -> {0, 1}] /\ DOMAIN duty' = Pin
      BY <3>1 DEF PinTypes, Pwm
    <3>3. timer' \in [Pin -> BOOLEAN]
      BY <3>1, Zenon DEF PinTypes, Pwm
    <3> QED BY <2>1, <3>2, <3>3 DEF PinTypes
  <2>4. CASE modes[p] \notin {"O", "P"}
    BY <2>1, <2>4 DEF PinTypes, SetPinValue
  <2> QED BY <2>2, <2>3, <2>4
<1>2. ASSUME NEW q \in Pin, q # p PROVE Fits(q)'
  <2>1. /\ modes'[q] = modes[q] /\ dir'[q] = dir[q] /\ out'[q] = out[q]
        /\ timer'[q] = timer[q] /\ duty'[q] = duty[q] /\ asked'[q] = asked[q]
    BY <1>2 DEF PinTypes, SetPinValue, Pwm
  <2> QED BY <2>1, <1>2 DEF Fits
<1>3. Fits(p)'
  <2>1. modes' = modes
    BY DEF SetPinValue
  <2>2. CASE modes[p] = "O"
    <3>1. /\ out'[p] = Bit(value) /\ asked'[p] = value
          /\ dir'[p] = dir[p] /\ timer'[p] = timer[p]
      BY <2>2 DEF PinTypes, SetPinValue
    <3> QED BY <2>1, <2>2, <3>1 DEF Fits
  <2>3. CASE modes[p] = "P"
    <3>1. Pwm(p, value)
      BY <2>3 DEF SetPinValue
    <3>2. CASE p \notin PwmPins \/ value >= Word \div 2
      <4>1. /\ dir' = dir /\ timer' = timer /\ duty' = duty
        BY <3>1, <3>2 DEF Pwm
      <4>2. p \in PwmPins => asked'[p] = asked[p]
        BY <2>3, <3>2 DEF SetPinValue
      <4>3. CASE p \in PwmPins /\ value = 0
        <5>1. dir[p] = 1 /\ modes[p] = "P"
          BY <2>3 DEF Fits
        <5>2. out'[p] = 0
          BY <3>1, <4>3 DEF PinTypes, Pwm
        <5> QED BY <2>1, <4>1, <4>2, <4>3, <5>1, <5>2 DEF Fits
      <4>4. CASE ~(p \in PwmPins /\ value = 0)
        <5>1. out' = out
          BY <3>1, <4>4 DEF Pwm
        <5> QED BY <2>1, <2>3, <4>1, <4>2, <5>1 DEF Fits
      <4> QED BY <4>3, <4>4
    <3>3. CASE p \in PwmPins /\ ~(value >= Word \div 2)
      <4>1. asked'[p] = value
        BY <2>3, <3>3 DEF PinTypes, SetPinValue
      <4>2. CASE value = 0
        <5>1. out'[p] = 0 /\ dir' = dir /\ ~timer'[p]
          BY <3>1, <3>3, <4>2 DEF PinTypes, Pwm
        <5> QED BY <2>1, <2>3, <4>1, <4>2, <5>1 DEF Fits
      <4>3. CASE value # 0
        <5>1. /\ dir'[p] = 1 /\ timer'[p]
              /\ duty'[p] = IF value > Byte - 1 THEN Byte - 1 ELSE value
          BY <3>1, <3>3, <4>3 DEF PinTypes, Pwm
        <5> QED BY <2>1, <2>3, <3>3, <4>1, <4>3, <5>1 DEF Fits
      <4> QED BY <4>2, <4>3
    <3> QED BY <3>2, <3>3
  <2>4. CASE modes[p] \notin {"O", "P"}
    <3>1. UNCHANGED <<dir, out, timer, duty>> /\ asked' = asked
      BY <2>4 DEF SetPinValue
    <3> QED BY <2>1, <3>1 DEF Fits
  <2> QED BY <2>2, <2>3, <2>4
<1> QED BY <1>1, <1>2, <1>3

-----------------------------------------------------------------------------
LEMMA InitPins == Init => PinInv
<1> SUFFICES ASSUME Init PROVE PinInv
  OBVIOUS
<1>1. PinTypes
  BY DEF Init, PinInit, PinTypes
<1>2. ASSUME NEW p \in Pin PROVE Fits(p)
  BY <1>2 DEF Init, PinInit, Fits
<1>3. Ported
  BY DEF Init, Ported
<1> QED BY <1>1, <1>2, <1>3 DEF PinInv

LEMMA PinsUnchanged == PinInv /\ UNCHANGED pinVars => PinTypes' /\ \A q \in Pin : Fits(q)'
  BY DEF PinInv, PinTypes, Fits, pinVars

LEMMA BusKeepsPorted ==
    ASSUME Ported, BusStep PROVE Ported'
<1>1. ASSUME NEW s \in Statuses, TwiStart(s) PROVE Ported'
  BY <1>1 DEF TwiStart, Ported
<1>2. ASSUME NEW s \in Statuses, WriteByte(s) PROVE Ported'
  BY <1>2 DEF WriteByte, Argument, Ported
<1>3. ASSUME NEW s \in Statuses, WriteNested(s) PROVE Ported'
  BY <1>3 DEF WriteNested, Ported
<1>4. ASSUME NEW s \in Statuses, NEW c \in Calls, Twi(c, s) PROVE Ported'
  BY <1>4 DEF Twi, Ported
<1>5. ASSUME NEW bytes \in Writes, TwiWrite(bytes) PROVE Ported'
  BY <1>5 DEF TwiWrite, Ported
<1>6. TwiStop \/ SkipByte \/ EndTwi \/ NestedWrite \/ EndWrite => Ported'
  BY DEF TwiStop, SkipByte, EndTwi, NestedWrite, EndWrite, Argument, twiVars, Ported
<1> QED BY <1>1, <1>2, <1>3, <1>4, <1>5, <1>6 DEF BusStep

LEMMA NextPins == PinInv /\ [Next]_vars => PinInv'
<1> SUFFICES ASSUME PinInv, [Next]_vars PROVE PinInv'
  OBVIOUS
<1> USE DEF PinInv
<1>1. CASE BusStep /\ UNCHANGED <<pinVars, portVars>>
  BY <1>1, BusKeepsPorted, PinsUnchanged
<1>2. CASE PinStep /\ UNCHANGED <<call, twiVars, portVars>>
  <2>1. Ported'
    BY <1>2 DEF Ported, twiVars
  <2>2. ASSUME NEW p \in Pin, NEW mode \in Modes, LioPinMode(p, mode) PROVE PinInv'
    BY <2>1, <2>2, PinModeFits DEF LioPinMode
  <2>3. ASSUME NEW p \in Pin, NEW value \in Levels, LioSetPin(p, value) PROVE PinInv'
    BY <2>1, <2>3, SetPinValueFits DEF LioSetPin
  <2> QED BY <1>2, <2>2, <2>3 DEF PinStep
<1>3. ASSUME NEW value \in Levels, NEW pins \in Ports, Port(value, pins), UNCHANGED pinVars
      PROVE  PinInv'
  <2>1. Ported'
    BY <1>3, BoardAssumption DEF Port, Ported
  <2> QED BY <1>3, <2>1, PinsUnchanged
<1>4. CASE PortPin
  <2>1. arguments \in Seq(Pin) /\ arguments # <<>>
    BY <1>4 DEF PortPin, Ported
  <2>2. arguments[1] \in Pin /\ Tail(arguments) \in Seq(Pin)
    BY <2>1
  <2>3. Ported'
    BY <1>4, <2>2 DEF PortPin, Ported
  <2>4. SetPinValue(arguments[1], BitOf(port_value, port_bit))
    BY <1>4 DEF PortPin
  <2> QED BY <2>2, <2>3, <2>4, SetPinValueFits
<1>5. CASE EndPort /\ UNCHANGED pinVars
  <2>1. Ported'
    BY <1>5 DEF EndPort, Ported
  <2> QED BY <1>5, <2>1, PinsUnchanged
<1>6. CASE UNCHANGED vars
  <2>1. UNCHANGED pinVars /\ Ported'
    BY <1>6 DEF vars, pinVars, Ported
  <2> QED BY <2>1, PinsUnchanged
<1> QED BY <1>1, <1>2, <1>3, <1>4, <1>5, <1>6 DEF Next

(***************************************************************************)
(* pin_mode, set_pin_value and pwm leave no pin in a state of another mode *)
(* or of a value before the last, for any pins, timers and values, however *)
(* (pin_mode), (set_pin), (port) and the arguments of (twi) interleave.    *)
(***************************************************************************)
THEOREM PinsStayAsAsked == Spec => []PinsAsAsked
<1>1. PinInv => PinsAsAsked
  BY FitsIsAsked DEF PinInv, PinsAsAsked
<1> QED BY InitPins, NextPins, <1>1, PTL DEF Spec

(***************************************************************************)
(* The variables of a pin keep their types, and a (port) that is under way *)
(* has pins before it.                                                     *)
(***************************************************************************)
THEOREM PinInvariance == Spec => []PinInv
  BY InitPins, NextPins, PTL DEF Spec

-----------------------------------------------------------------------------
(***************************************************************************)
(* An answer that is an error comes with a released bus, also in the       *)
(* middle of a builtin; and only a (twi) holds a bus that no (twi_start)   *)
(* has opened.                                                             *)
(***************************************************************************)
BusInv ==
    /\ bus = "held" => answer = "nothing"
    /\ bus = "held" => call = "twi" \/ opened
    /\ bus \in {"idle", "held"}

LEMMA InitBus == Init => BusInv
  BY DEF Init, BusInv

LEMMA NextBus == BusInv /\ [Next]_vars => BusInv'
<1> SUFFICES ASSUME BusInv, [Next]_vars PROVE BusInv'
  OBVIOUS
<1> USE DEF BusInv
<1>1. ASSUME NEW s \in Statuses, TwiStart(s) PROVE BusInv'
  BY <1>1 DEF TwiStart, SendStart, Failed, Released
<1>2. ASSUME NEW s \in Statuses, WriteByte(s) PROVE BusInv'
  BY <1>2 DEF WriteByte, Argument, Failed, Released
<1>3. ASSUME NEW s \in Statuses, WriteNested(s) PROVE BusInv'
  BY <1>3 DEF WriteNested, Failed, Released
<1>4. ASSUME NEW s \in Statuses, NEW c \in Calls, Twi(c, s) PROVE BusInv'
  BY <1>4 DEF Twi, SendStart, Failed, Released
<1>5. ASSUME NEW bytes \in Writes, TwiWrite(bytes) PROVE BusInv'
  BY <1>5 DEF TwiWrite
<1>6. TwiStop \/ EndTwi => BusInv'
  BY DEF TwiStop, EndTwi
<1>7. SkipByte \/ NestedWrite \/ EndWrite => BusInv'
  BY DEF SkipByte, NestedWrite, EndWrite, Argument, twiVars
<1>8. BusStep => BusInv'
  BY <1>1, <1>2, <1>3, <1>4, <1>5, <1>6, <1>7 DEF BusStep
<1>9. PinStep /\ UNCHANGED <<call, twiVars, portVars>> => BusInv'
  BY DEF twiVars
<1>10. ASSUME NEW value \in Levels, NEW pins \in Ports, Port(value, pins) PROVE BusInv'
  BY <1>10 DEF Port
<1>11. PortPin \/ EndPort => BusInv'
  BY DEF PortPin, EndPort, twiVars
<1>12. UNCHANGED vars => BusInv'
  BY DEF vars
<1> QED BY <1>8, <1>9, <1>10, <1>11, <1>12 DEF Next

(***************************************************************************)
(* Every error path of the two wire builtins releases the bus, whatever    *)
(* the device answers at any byte, in nested writes too.                   *)
(***************************************************************************)
THEOREM ErrorsReleaseTheBus == Spec => []BusLeft
<1>1. BusInv => BusLeft
  BY DEF BusInv, BusLeft
<1> QED BY InitBus, NextBus, <1>1, PTL DEF Spec
-----------------------------------------------------------------------------
(***************************************************************************)
(* The order of the bytes.  As long as the bus is held, what was           *)
(* acknowledged, what is left of a (twi_write) and what is left of a (twi) *)
(* are together the bytes that were due.  A bus that was released takes no *)
(* byte until the next start, which begins a new count.                    *)
(***************************************************************************)
Left == IF call = "twi" THEN BytesLeft(arguments, wrote_from_twi_data) ELSE <<>>

OrderTypes ==
    /\ sent \in Seq(Nat) /\ due \in Seq(Nat) /\ nested \in Seq(Nat)
    /\ call = "twi" => arguments \in Seq(TwiArguments)
    /\ wrote_from_twi_data \in BOOLEAN

OrderInv ==
    /\ OrderTypes
    /\ IsPrefix(sent, due)
    /\ bus = "held" => sent \o (nested \o Left) = due
    /\ ~wrote_from_twi_data \/ call \in {"none", "port"} => nested = <<>>
    /\ call = "twi" /\ ~wrote_from_twi_data => bus = "held"
    /\ call = "write" => wrote_from_twi_data
    /\ call # "twi" /\ answer = "nothing" /\ ~wrote_from_twi_data => sent = due

LEMMA LeftType ==
    ASSUME NEW args \in Seq(TwiArguments), NEW wrote \in BOOLEAN
    PROVE  /\ [i \in DOMAIN args |-> BytesOf(args, i, wrote)] \in Seq(Seq(Nat))
           /\ BytesLeft(args, wrote) \in Seq(Nat)
<1> DEFINE parts == [i \in DOMAIN args |-> BytesOf(args, i, wrote)]
<1>1. \A i \in 1..Len(args) : args[i].bytes \in Seq(Nat)
  <2>1. \A i \in 1..Len(args) : args[i] \in TwiArguments
    BY ElementOfSeq
  <2> QED BY <2>1 DEF TwiArguments
<1>2. \A i \in 1..Len(args) : BytesOf(args, i, wrote) \in Seq(Nat)
  BY <1>1 DEF BytesOf
<1>3. DOMAIN args = 1..Len(args) /\ Len(args) \in Nat
  OBVIOUS
<1>4. parts \in Seq(Seq(Nat))
  BY <1>2, <1>3
<1> HIDE DEF parts
<1>5. FlattenSeq(parts) \in Seq(Nat)
  BY <1>4, FlattenType
<1> QED BY <1>4, <1>5 DEF BytesLeft, parts

\* The bytes of the first argument, and those of the rest.
LEMMA LeftFirst ==
    ASSUME NEW args \in Seq(TwiArguments), args # <<>>, NEW wrote \in BOOLEAN
    PROVE  BytesLeft(args, wrote) =
               (IF args[1].kind = "byte" /\ wrote THEN <<>> ELSE args[1].bytes)
                   \o BytesLeft(Tail(args), wrote \/ args[1].kind = "write")
<1> DEFINE after == wrote \/ args[1].kind = "write"
<1> DEFINE parts == [i \in DOMAIN args |-> BytesOf(args, i, wrote)]
<1> DEFINE rest == [i \in DOMAIN Tail(args) |-> BytesOf(Tail(args), i, after)]
<1>1. /\ Len(args) \in Nat /\ Len(args) # 0 /\ DOMAIN args = 1..Len(args)
      /\ Tail(args) \in Seq(TwiArguments) /\ DOMAIN Tail(args) = 1..(Len(args) - 1)
      /\ Len(Tail(args)) = Len(args) - 1
  OBVIOUS
<1>2. after \in BOOLEAN
  OBVIOUS
<1>3. parts \in Seq(Seq(Nat)) /\ rest \in Seq(Seq(Nat))
  BY <1>1, <1>2, LeftType
<1>4. Len(parts) = Len(args) /\ Len(rest) = Len(args) - 1 /\ parts # <<>>
  <2>1. DOMAIN parts = 1..Len(args) /\ DOMAIN rest = 1..(Len(args) - 1)
    BY <1>1
  <2> HIDE DEF parts, rest
  <2>2. Len(parts) = Len(args) /\ Len(rest) = Len(args) - 1
    <3>1. 1..Len(parts) = 1..Len(args) /\ Len(parts) \in Nat
      BY <1>3, <2>1, LenProperties
    <3>2. 1..Len(rest) = 1..(Len(args) - 1) /\ Len(rest) \in Nat
      BY <1>3, <2>1, LenProperties
    <3>3. \A m, n \in Nat : 1..m = 1..n => m = n
      OBVIOUS
    <3>4. Len(args) \in Nat /\ Len(args) - 1 \in Nat
      BY <1>1
    <3> QED BY <3>1, <3>2, <3>3, <3>4
  <2> QED BY <1>1, <1>3, <2>2, EmptySeq
<1>5. ASSUME NEW i \in 1..(Len(args) - 1) PROVE Tail(parts)[i] = rest[i]
  <2>1. Tail(args)[i] = args[i + 1] /\ Tail(parts)[i] = parts[i + 1]
    BY <1>1, <1>3, <1>4
  <2>2. parts[i + 1] = BytesOf(args, i + 1, wrote)
    <3>1. i + 1 \in DOMAIN args
      BY <1>1
    <3> QED BY <3>1
  <2>3. (\E j \in 1..((i + 1) - 1) : args[j].kind = "write")
            <=> (args[1].kind = "write" \/ \E j \in 1..(i - 1) : Tail(args)[j].kind = "write")
    <3>1. \A j \in 1..(i - 1) : Tail(args)[j] = args[j + 1] /\ j + 1 \in 1..i
      BY <1>1
    <3>2. \A j \in 1..i : j = 1 \/ (j - 1 \in 1..(i - 1) /\ (j - 1) + 1 = j)
      OBVIOUS
    <3>3. (i + 1) - 1 = i /\ 1 \in 1..i
      OBVIOUS
    <3>4. ASSUME NEW j \in 1..i, args[j].kind = "write", j # 1
          PROVE  \E k \in 1..(i - 1) : Tail(args)[k].kind = "write"
      BY <3>1, <3>2, <3>4
    <3>5. ASSUME NEW j \in 1..(i - 1), Tail(args)[j].kind = "write"
          PROVE  \E k \in 1..i : args[k].kind = "write"
      BY <3>1, <3>5
    <3> QED BY <3>3, <3>4, <3>5
  <2>4. BytesOf(args, i + 1, wrote) = BytesOf(Tail(args), i, after)
    BY <2>1, <2>3 DEF BytesOf
  <2> QED BY <1>1, <2>1, <2>2, <2>4
<1>6. parts[1] = IF args[1].kind = "byte" /\ wrote THEN <<>> ELSE args[1].bytes
  <2>1. parts[1] = BytesOf(args, 1, wrote)
    BY <1>1
  <2>2. ~\E j \in 1..(1 - 1) : args[j].kind = "write"
    OBVIOUS
  <2> QED BY <2>1, <2>2 DEF BytesOf
<1>7. FlattenSeq(parts) = parts[1] \o FlattenSeq(Tail(parts))
  BY <1>3, <1>4, FlattenFirst
<1>8. Tail(parts) = rest
  <2>1. Tail(parts) \in Seq(Seq(Nat)) /\ Len(Tail(parts)) = Len(rest)
    BY <1>3, <1>4
  <2> HIDE DEF parts, rest
  <2> QED BY <1>3, <1>4, <1>5, <2>1, SeqEqual
<1> HIDE DEF after
<1>9. BytesLeft(args, wrote) = FlattenSeq(parts) /\ BytesLeft(Tail(args), after) = FlattenSeq(rest)
  BY DEF BytesLeft
<1> HIDE DEF parts, rest
<1> QED BY <1>6, <1>7, <1>8, <1>9 DEF after
LEMMA InitOrder == Init => OrderInv
<1> SUFFICES ASSUME Init PROVE OrderInv
  OBVIOUS
<1>1. sent = <<>> /\ due = <<>> /\ nested = <<>> /\ bus = "idle" /\ call = "none"
      /\ wrote_from_twi_data = FALSE
  BY DEF Init
<1>2. <<>> \in Seq(Nat) /\ IsPrefix(<<>>, <<>>)
  BY DEF IsPrefix
<1> QED BY <1>1, <1>2 DEF OrderInv, OrderTypes

\* What is left to write, and what was due, are always sequences of bytes.
LEMMA LeftOfCall == OrderTypes => Left \in Seq(Nat)
<1> SUFFICES ASSUME OrderTypes PROVE Left \in Seq(Nat)
  OBVIOUS
<1>1. CASE call = "twi"
  BY <1>1, LeftType DEF OrderTypes, Left
<1>2. CASE call # "twi"
  BY <1>2 DEF Left
<1> QED BY <1>1, <1>2

\* A held bus has got the beginning of what was due.
LEMMA HeldIsPrefix ==
    ASSUME NEW s \in Seq(Nat), NEW n \in Seq(Nat), NEW l \in Seq(Nat)
    PROVE  IsPrefix(s, s \o (n \o l))
<1>1. n \o l \in Seq(Nat)
  OBVIOUS
<1> QED BY <1>1, ConcatHasPrefix

LEMMA EmptyEnds ==
    /\ <<>> \in Seq(Nat)
    /\ \A s \in Seq(Nat) : /\ s \o <<>> = s /\ <<>> \o s = s
                           /\ IsPrefix(<<>>, s) /\ IsPrefix(s, s)
<1>1. \A s \in Seq(Nat) : s \o <<>> = s /\ <<>> \o s = s
  BY ConcatEmptySeq
<1>2. <<>> \in Seq(Nat) /\ Len(<<>>) = 0
  OBVIOUS
<1>3. \A s : SubSeq(s, 1, 0) = <<>>
  BY SubSeqEmpty
<1>4. \A s \in Seq(Nat) : Len(s) \in Nat
  OBVIOUS
<1> QED BY <1>1, <1>2, <1>3, <1>4 DEF IsPrefix

LEMMA Regroup ==
    \A a, b, c \in Seq(Nat) :
        a \o (b \o c) = (a \o b) \o c /\ b \o c \in Seq(Nat) /\ a \o b \in Seq(Nat)
<1> TAKE a, b, c \in Seq(Nat)
<1>1. (a \o b) \o c = a \o (b \o c)
  BY ConcatThree
<1>2. b \o c \in Seq(Nat) /\ a \o b \in Seq(Nat)
  OBVIOUS
<1> QED BY <1>1, <1>2

-----------------------------------------------------------------------------
LEMMA NextOrder ==
    ASSUME OrderInv, BusInv, [Next]_vars PROVE OrderInv'
<1> USE DEF OrderInv
<1>0. /\ sent \in Seq(Nat) /\ due \in Seq(Nat) /\ nested \in Seq(Nat) /\ Left \in Seq(Nat)
      /\ wrote_from_twi_data \in BOOLEAN
  BY LeftOfCall DEF OrderTypes
<1>a. \A a, b, c \in Seq(Nat) :
          a \o (b \o c) = (a \o b) \o c /\ b \o c \in Seq(Nat) /\ a \o b \in Seq(Nat)
  BY Regroup
<1>1. ASSUME NEW s \in Statuses, TwiStart(s) PROVE OrderInv'
  <2>1. /\ call = "none" /\ call' = "none" /\ sent' = <<>> /\ due' = <<>>
        /\ UNCHANGED <<arguments, nested, wrote_from_twi_data>>
    BY <1>1 DEF TwiStart
  <2>2. nested' = <<>> /\ Left' = <<>>
    BY <2>1 DEF Left
  <2> QED BY <1>0, <2>1, <2>2, EmptyEnds DEF OrderTypes
<1>2. ASSUME TwiStop PROVE OrderInv'
  <2>1. /\ call = "none" /\ call' = "none" /\ sent' = <<>> /\ due' = <<>>
        /\ UNCHANGED <<arguments, nested, wrote_from_twi_data>>
    BY <1>2 DEF TwiStop
  <2>2. nested' = <<>> /\ Left' = <<>>
    BY <2>1 DEF Left
  <2> QED BY <1>0, <2>1, <2>2, EmptyEnds DEF OrderTypes
<1>3. ASSUME NEW s \in Statuses, NEW c \in Calls, Twi(c, s) PROVE OrderInv'
  <2>1. c \in Seq(TwiArguments)
    BY BoardAssumption
  <2>2. BytesLeft(c, FALSE) \in Seq(Nat)
    BY <2>1, LeftType
  <2>3. /\ call = "none" /\ sent' = <<>> /\ due' = BytesLeft(c, FALSE)
        /\ nested = <<>> /\ nested' = <<>>
    BY <1>3 DEF Twi
  <2>4. CASE s = "acknowledged"
    <3>1. call' = "twi" /\ arguments' = c /\ wrote_from_twi_data' = FALSE /\ bus' = "held"
      BY <1>3, <2>4 DEF Twi, SendStart
    <3>2. Left' = BytesLeft(c, FALSE)
      BY <3>1 DEF Left
    <3>3. sent' \o (nested' \o Left') = due'
      BY <2>2, <2>3, <3>2, EmptyEnds
    <3> QED BY <2>1, <2>2, <2>3, <3>1, <3>3, EmptyEnds DEF OrderTypes
  <2>5. CASE s # "acknowledged"
    <3>1. /\ UNCHANGED <<call, arguments, wrote_from_twi_data>>
          /\ bus' = "idle" /\ answer' # "nothing"
      BY <1>3, <2>5 DEF Twi, SendStart, Failed, Released, Statuses
    <3> QED BY <1>0, <2>2, <2>3, <3>1, EmptyEnds DEF OrderTypes
  <2> QED BY <2>4, <2>5
<1>4. ASSUME SkipByte PROVE OrderInv'
  <2>1. /\ call = "twi" /\ arguments # <<>> /\ arguments[1].kind = "byte" /\ nested = <<>>
        /\ wrote_from_twi_data /\ arguments' = Tail(arguments)
        /\ UNCHANGED <<call, nested, wrote_from_twi_data, bus, answer, sent, due>>
    BY <1>4 DEF SkipByte, Argument
  <2>2. arguments \in Seq(TwiArguments) /\ arguments' \in Seq(TwiArguments)
    BY <2>1 DEF OrderTypes
  <2>3. Left = <<>> \o BytesLeft(Tail(arguments), TRUE)
    BY <2>1, <2>2, LeftFirst DEF Left
  <2>4. BytesLeft(Tail(arguments), TRUE) \in Seq(Nat)
    BY <2>1, <2>2, LeftType
  <2>5. Left' = BytesLeft(Tail(arguments), TRUE)
    BY <1>0, <2>1 DEF Left
  <2>6. Left' = Left
    BY <2>3, <2>4, <2>5, EmptyEnds
  <2> QED BY <1>0, <2>1, <2>2, <2>6 DEF OrderTypes
<1>5. ASSUME NEW s \in Statuses, WriteByte(s) PROVE OrderInv'
  <2>1. /\ call = "twi" /\ arguments # <<>> /\ arguments[1].kind = "byte" /\ nested = <<>>
        /\ ~wrote_from_twi_data /\ bus = "held"
        /\ UNCHANGED <<nested, wrote_from_twi_data, due>>
    BY <1>5 DEF WriteByte, Argument
  <2>2. arguments \in Seq(TwiArguments) /\ Tail(arguments) \in Seq(TwiArguments)
    BY <2>1 DEF OrderTypes
  <2>3. CASE s = "acknowledged"
    <3> DEFINE b == arguments[1].bytes
    <3> DEFINE l == BytesLeft(Tail(arguments), FALSE)
    <3>1. sent' = sent \o b /\ arguments' = Tail(arguments) /\ UNCHANGED <<call, bus, answer>>
      BY <1>5, <2>3 DEF WriteByte
    <3>2. b \in Seq(Nat) /\ l \in Seq(Nat)
      <4>1. arguments[1] \in TwiArguments
        BY <2>1, <2>2
      <4> QED BY <2>2, <4>1, LeftType DEF TwiArguments
    <3>3. Left = b \o l
      BY <1>0, <2>1, <2>2, LeftFirst DEF Left
    <3>4. Left' = l
      BY <1>0, <2>1, <3>1 DEF Left
    <3> HIDE DEF b, l
    <3>5. nested \o Left = Left /\ nested' \o Left' = l
      BY <1>0, <2>1, <3>2, <3>4, EmptyEnds
    <3>6. due = sent \o (b \o l)
      BY <2>1, <3>3, <3>5
    <3>7. due = (sent \o b) \o l /\ sent \o b \in Seq(Nat)
      <4>1. sent \o (b \o l) = (sent \o b) \o l /\ sent \o b \in Seq(Nat)
        <5>1. sent \in Seq(Nat)
          BY <1>0
        <5> QED BY <1>a, <3>2, <5>1
      <4> QED BY <3>6, <4>1
    <3>8. IsPrefix(sent', due')
      BY <2>1, <3>1, <3>2, <3>7, ConcatHasPrefix
    <3>9. sent' \o (nested' \o Left') = due'
      BY <2>1, <3>1, <3>5, <3>7
    <3> QED BY <1>0, <2>1, <2>2, <3>1, <3>7, <3>8, <3>9 DEF OrderTypes
  <2>4. CASE s # "acknowledged"
    <3>1. bus' = "idle" /\ answer' # "nothing" /\ call' = "none" /\ sent' = sent
      BY <1>5, <2>4 DEF WriteByte, Failed, Released, Statuses
    <3> QED BY <1>0, <2>1, <3>1 DEF OrderTypes
  <2> QED BY <2>3, <2>4
<1>6. ASSUME EndTwi PROVE OrderInv'
  <2>1. /\ call = "twi" /\ nested = <<>> /\ arguments = <<>> /\ call' = "none" /\ bus' = "idle"
        /\ UNCHANGED <<nested, wrote_from_twi_data, sent, due>>
    BY <1>6 DEF EndTwi
  <2>2. Left = <<>>
    BY <2>1, FlattenEmpty DEF Left, BytesLeft
  <2>3. ~wrote_from_twi_data => sent = due
    BY <1>0, <2>1, <2>2, EmptyEnds
  <2> QED BY <1>0, <2>1, <2>3 DEF OrderTypes
<1>7. ASSUME NestedWrite PROVE OrderInv'
  <2> DEFINE b == arguments[1].bytes
  <2> DEFINE l == BytesLeft(Tail(arguments), TRUE)
  <2>1. /\ call = "twi" /\ arguments # <<>> /\ arguments[1].kind = "write" /\ nested = <<>>
        /\ nested' = b /\ arguments' = Tail(arguments) /\ wrote_from_twi_data' = TRUE
        /\ UNCHANGED <<call, bus, answer, sent, due>>
    BY <1>7 DEF NestedWrite, Argument
  <2>2. arguments \in Seq(TwiArguments) /\ Tail(arguments) \in Seq(TwiArguments)
    BY <2>1 DEF OrderTypes
  <2>3. b \in Seq(Nat) /\ l \in Seq(Nat)
    <3>1. arguments[1] \in TwiArguments
      BY <2>1, <2>2
    <3> QED BY <2>2, <3>1, LeftType DEF TwiArguments
  <2>4. Left = b \o l
    BY <1>0, <2>1, <2>2, LeftFirst DEF Left
  <2>5. Left' = l
    BY <2>1 DEF Left
  <2> HIDE DEF b, l
  <2>6. nested' \o Left' = nested \o Left
    BY <1>0, <2>1, <2>3, <2>4, <2>5, EmptyEnds
  <2> QED BY <1>0, <2>1, <2>2, <2>3, <2>6 DEF OrderTypes
<1>8. ASSUME NEW bytes \in Writes, TwiWrite(bytes) PROVE OrderInv'
  <2>1. /\ call = "none" /\ call' = "write" /\ nested' = bytes /\ wrote_from_twi_data' = TRUE
        /\ due' = due \o bytes /\ UNCHANGED <<bus, sent>> /\ nested = <<>>
    BY <1>8 DEF TwiWrite
  <2>2. bytes \in Seq(Nat) /\ due' \in Seq(Nat)
    BY <1>0, <2>1, BoardAssumption
  <2>3. IsPrefix(sent', due')
    BY <1>0, <2>1, <2>2, PrefixOfLonger
  <2>4. Left = <<>> /\ Left' = <<>>
    BY <2>1 DEF Left
  <2>5. bus = "held" => sent = due
    BY <1>0, <2>1, <2>4, EmptyEnds
  <2>6. bus' = "held" => sent' \o (nested' \o Left') = due'
    BY <2>1, <2>2, <2>4, <2>5, EmptyEnds
  <2> QED BY <1>0, <2>1, <2>2, <2>3, <2>6 DEF OrderTypes
<1>9. ASSUME NEW s \in Statuses, WriteNested(s) PROVE OrderInv'
  <2>1. /\ nested # <<>> /\ call \notin {"none", "port"} /\ wrote_from_twi_data
        /\ UNCHANGED <<call, arguments, wrote_from_twi_data, due>>
    BY <1>9 DEF WriteNested
  <2>2. CASE s = "acknowledged"
    <3> DEFINE x == nested[1]
    <3> DEFINE n == Tail(nested)
    <3>1. bus = "held" /\ sent' = Append(sent, x) /\ nested' = n /\ UNCHANGED <<bus, answer>>
      BY <1>9, <2>2 DEF WriteNested
    <3>2. x \in Nat /\ n \in Seq(Nat)
      BY <1>0, <2>1
    <3>3. nested = <<x>> \o n /\ <<x>> \in Seq(Nat)
      BY <1>0, <2>1, <3>2
    <3>4. Left' = Left
      BY <2>1, <3>1 DEF Left
    <3> HIDE DEF x, n
    <3>5. sent' = sent \o <<x>> /\ sent' \in Seq(Nat)
      BY <1>0, <3>1, <3>2, AppendIsConcat, AppendProperties
    <3>6. nested \o Left = <<x>> \o (n \o Left) /\ n \o Left \in Seq(Nat)
      BY <1>0, <3>2, <3>3, Regroup
    <3>7. due = sent \o (<<x>> \o (n \o Left))
      BY <3>1, <3>6
    <3>8. due = (sent \o <<x>>) \o (n \o Left)
      <4>1. sent \o (<<x>> \o (n \o Left)) = (sent \o <<x>>) \o (n \o Left)
        <5>1. sent \in Seq(Nat) /\ <<x>> \in Seq(Nat) /\ n \o Left \in Seq(Nat)
          BY <1>0, <3>3, <3>6
        <5> QED BY <1>a, <5>1, Zenon
      <4> QED BY <3>7, <4>1
    <3>9. IsPrefix(sent', due')
      BY <2>1, <3>5, <3>6, <3>8, ConcatHasPrefix
    <3>10. sent' \o (nested' \o Left') = due'
      BY <2>1, <3>1, <3>4, <3>5, <3>8
    <3> QED BY <1>0, <2>1, <3>1, <3>2, <3>5, <3>9, <3>10 DEF OrderTypes
  <2>3. CASE s # "acknowledged"
    <3>1. bus' = "idle" /\ answer' # "nothing" /\ nested' = <<>> /\ sent' = sent
      BY <1>9, <2>3 DEF WriteNested, Failed, Released, Statuses
    <3> QED BY <1>0, <2>1, <3>1 DEF OrderTypes
  <2> QED BY <2>2, <2>3
<1>10. ASSUME EndWrite PROVE OrderInv'
  <2>1. call = "write" /\ nested = <<>> /\ call' = "none" /\ UNCHANGED twiVars
    BY <1>10 DEF EndWrite
  <2>2. Left = <<>> /\ Left' = <<>>
    BY <2>1 DEF Left
  <2> QED BY <1>0, <2>1, <2>2 DEF OrderTypes, twiVars
<1>11. CASE UNCHANGED <<call, twiVars>>
  <2>1. UNCHANGED <<Left, OrderTypes>>
    BY <1>11 DEF Left, OrderTypes, twiVars
  <2> QED BY <1>11, <2>1 DEF twiVars
<1>12. ASSUME NEW value \in Levels, NEW pins \in Ports, Port(value, pins) PROVE OrderInv'
  <2>1. /\ call = "none" /\ call' = "port"
        /\ UNCHANGED <<nested, wrote_from_twi_data, bus, answer, sent, due>>
    BY <1>12 DEF Port
  <2>2. Left = <<>> /\ Left' = <<>>
    BY <2>1 DEF Left
  <2> QED BY <1>0, <2>1, <2>2 DEF OrderTypes
<1>13. ASSUME PortPin \/ EndPort PROVE OrderInv'
  <2>1. /\ call = "port" /\ call' \in {"none", "port"}
        /\ UNCHANGED <<nested, wrote_from_twi_data, bus, answer, sent, due>>
    BY <1>13 DEF PortPin, EndPort, twiVars
  <2>2. Left = <<>> /\ Left' = <<>>
    BY <2>1 DEF Left
  <2> QED BY <1>0, <2>1, <2>2 DEF OrderTypes
<1>14. CASE BusStep
  BY <1>14, <1>1, <1>2, <1>3, <1>4, <1>5, <1>6, <1>7, <1>8, <1>9, <1>10 DEF BusStep
<1>15. CASE UNCHANGED vars
  BY <1>11, <1>15 DEF vars, twiVars
<1> QED BY <1>11, <1>12, <1>13, <1>14, <1>15 DEF Next

(***************************************************************************)
(* For every set of calls, whatever the device answers to each byte, and   *)
(* with any writes of their own among the arguments of a (twi): the bytes  *)
(* that were acknowledged are a beginning of those that were due, all of   *)
(* them when nothing has failed, and the bus is left as the call says.     *)
(***************************************************************************)
THEOREM BytesInOrder == Spec => []BusAsWritten
<1>1. OrderInv /\ BusInv => BusAsWritten
  <2> SUFFICES ASSUME OrderInv, BusInv PROVE BusAsWritten
    OBVIOUS
  <2>1. BusLeft
    BY DEF BusInv, BusLeft
  <2>2. ASSUME call = "none", bus = "held" PROVE sent = due
    <3>1. nested = <<>> /\ Left = <<>> /\ sent \in Seq(Nat)
      BY <2>2 DEF OrderInv, OrderTypes, Left
    <3>2. sent \o (nested \o Left) = due
      BY <2>2 DEF OrderInv
    <3> QED BY <3>1, <3>2, EmptyEnds
  <2>3. IsPrefix(sent, due)
    BY DEF OrderInv
  <2>4. call = "none" /\ answer = "nothing" /\ ~wrote_from_twi_data => sent = due
    BY DEF OrderInv
  <2> QED BY <2>1, <2>2, <2>3, <2>4 DEF BusAsWritten
<1>2. OrderInv /\ BusInv /\ [Next]_vars => OrderInv' /\ BusInv'
  BY NextOrder, NextBus
<1> QED BY InitOrder, InitBus, <1>1, <1>2, PTL DEF Spec
=============================================================================
