------------------------------ MODULE BasicLemmas -----------------------------
(***************************************************************************)
(* Facts that the proofs of several components need and the library does   *)
(* not state: sequences, least numbers, sums, and what the loops of module  *)
(* Loops leave.                                                            *)
(***************************************************************************)
EXTENDS Loops, SequencesExt, SequenceTheorems, FiniteSetTheorems, WellFoundedInduction, TLAPS

\* A sequence of length 0 is the empty one.
LEMMA LenZero ==
  ASSUME NEW S, NEW s \in Seq(S), Len(s) = 0
  PROVE  s = <<>>
<1>1. s # <<>> => Len(s) \in Nat \ {0}
  BY EmptySeq
<1> QED BY <1>1

\* The only element of a sequence taken away.
LEMMA TailOfOne ==
  ASSUME NEW S, NEW s \in Seq(S), s # <<>>, Len(s) <= 1
  PROVE  Len(s) = 1 /\ Tail(s) = <<>>
<1>1. Len(s) \in Nat /\ Len(s) # 0
  BY EmptySeq
<1>2. Len(s) = 1
  BY <1>1
<1>3. Tail(s) \in Seq(S) /\ Len(Tail(s)) = Len(s) - 1
  BY HeadTailProperties
<1>4. Len(s) - 1 = 0
  BY <1>2
<1>5. Len(Tail(s)) = 0
  BY <1>3, <1>4
<1> QED BY <1>2, <1>3, <1>5, LenZero

\* An element more at the end: what is in the sequence, and that nothing is twice.
LEMMA AppendOne ==
  ASSUME NEW S, NEW s \in Seq(S), NEW e \in S
  PROVE  /\ Range(Append(s, e)) = Range(s) \cup {e}
         /\ IsInjective(s) /\ e \notin Range(s) => IsInjective(Append(s, e))
<1>1. /\ Append(s, e) \in Seq(S)
      /\ Len(Append(s, e)) = Len(s) + 1
      /\ \A i \in 1..Len(s) : Append(s, e)[i] = s[i]
      /\ Append(s, e)[Len(s) + 1] = e
  BY AppendProperties
<1>2. Len(s) \in Nat /\ DOMAIN s = 1..Len(s) /\ DOMAIN Append(s, e) = 1..(Len(s) + 1)
  BY <1>1, LenProperties
<1>3. Range(Append(s, e)) = Range(s) \cup {e}
  <2>1. ASSUME NEW x \in Range(Append(s, e)) PROVE x \in Range(s) \cup {e}
    <3>1. PICK i \in 1..(Len(s) + 1) : x = Append(s, e)[i]
      BY <1>2 DEF Range
    <3>2. CASE i = Len(s) + 1
      BY <3>1, <3>2, <1>1
    <3>3. CASE i # Len(s) + 1
      <4>1. i \in 1..Len(s)
        BY <1>2, <3>3
      <4> QED BY <3>1, <4>1, <1>1, <1>2 DEF Range
    <3> QED BY <3>2, <3>3
  <2>2. ASSUME NEW i \in 1..Len(s) PROVE s[i] \in Range(Append(s, e))
    <3>1. i \in 1..(Len(s) + 1) /\ Append(s, e)[i] = s[i]
      BY <1>1, <1>2
    <3> QED BY <3>1, <1>2 DEF Range
  <2>3. e \in Range(Append(s, e))
    <3>1. Len(s) + 1 \in 1..(Len(s) + 1)
      BY <1>2
    <3> QED BY <3>1, <1>1, <1>2 DEF Range
  <2> QED BY <2>1, <2>2, <2>3, <1>2 DEF Range
<1>4. ASSUME IsInjective(s), e \notin Range(s) PROVE IsInjective(Append(s, e))
  <2> SUFFICES ASSUME NEW i \in 1..(Len(s) + 1), NEW j \in 1..(Len(s) + 1),
                      Append(s, e)[i] = Append(s, e)[j]
               PROVE  i = j
    BY <1>2 DEF IsInjective
  <2>1. \A k \in 1..(Len(s) + 1) : k \in 1..Len(s) \/ k = Len(s) + 1
    BY <1>2
  <2>2. \A k \in 1..Len(s) : s[k] # e
    BY <1>4, <1>2 DEF Range
  <2>3. CASE i \in 1..Len(s) /\ j \in 1..Len(s)
    BY <2>3, <1>1, <1>2, <1>4 DEF IsInjective
  <2> QED BY <2>1, <2>2, <2>3, <1>1
<1> QED BY <1>3, <1>4

\* The first element taken away from a sequence without repetitions.
LEMMA TailOne ==
  ASSUME NEW S, NEW s \in Seq(S), s # <<>>, IsInjective(s)
  PROVE  /\ Range(Tail(s)) = Range(s) \ {Head(s)}
         /\ Head(s) \in Range(s)
         /\ IsInjective(Tail(s))
<1>1. /\ Tail(s) \in Seq(S)
      /\ Len(Tail(s)) = Len(s) - 1
      /\ \A i \in 1..Len(Tail(s)) : Tail(s)[i] = s[i + 1]
  BY HeadTailProperties
<1>2. /\ Len(s) \in Nat \ {0} /\ DOMAIN s = 1..Len(s)
      /\ DOMAIN Tail(s) = 1..(Len(s) - 1) /\ Head(s) = s[1]
  BY <1>1, LenProperties, EmptySeq
<1>3. \A i \in 1..(Len(s) - 1) : i + 1 \in 1..Len(s) /\ i + 1 # 1 /\ Tail(s)[i] = s[i + 1]
  BY <1>1, <1>2
<1>4. \A i, j \in 1..Len(s) : s[i] = s[j] => i = j
  BY <1>2 DEF IsInjective
<1>5. Range(Tail(s)) = Range(s) \ {Head(s)}
  <2>1. ASSUME NEW x \in Range(Tail(s)) PROVE x \in Range(s) /\ x # Head(s)
    <3>1. PICK i \in 1..(Len(s) - 1) : x = Tail(s)[i]
      BY <1>2 DEF Range
    <3>2. 1 \in 1..Len(s)
      BY <1>2
    <3>3. x = s[i + 1] /\ i + 1 \in 1..Len(s) /\ i + 1 # 1
      BY <3>1, <1>3
    <3>4. x # s[1]
      BY <3>2, <3>3, <1>4
    <3> QED BY <3>3, <3>4, <1>2 DEF Range
  <2>2. ASSUME NEW x \in Range(s), x # Head(s) PROVE x \in Range(Tail(s))
    <3>1. PICK i \in 1..Len(s) : x = s[i]
      BY <1>2 DEF Range
    <3>2. i # 1
      BY <3>1, <2>2, <1>2
    <3>3. i - 1 \in 1..(Len(s) - 1) /\ (i - 1) + 1 = i
      BY <3>2, <1>2
    <3>4. Tail(s)[i - 1] = x
      BY <3>1, <3>3, <1>3
    <3> QED BY <3>3, <3>4, <1>2 DEF Range
  <2> QED BY <2>1, <2>2
<1>6. Head(s) \in Range(s)
  <2>1. 1 \in 1..Len(s)
    BY <1>2
  <2> QED BY <2>1, <1>2 DEF Range
<1>7. IsInjective(Tail(s))
  <2> SUFFICES ASSUME NEW i \in 1..(Len(s) - 1), NEW j \in 1..(Len(s) - 1),
                      Tail(s)[i] = Tail(s)[j]
               PROVE  i = j
    BY <1>2 DEF IsInjective
  <2>1. i + 1 = j + 1
    BY <1>3, <1>4
  <2> QED BY <2>1
<1> QED BY <1>5, <1>6, <1>7

\* The first m elements of a sequence.
LEMMA FirstPart ==
  ASSUME NEW S, NEW s \in Seq(S), NEW m \in 0..Len(s)
  PROVE  /\ SubSeq(s, 1, m) \in Seq(S)
         /\ Len(SubSeq(s, 1, m)) = m
         /\ \A i \in 1..m : SubSeq(s, 1, m)[i] = s[i]
<1>1. Len(s) \in Nat /\ m \in Nat /\ \A i \in 1..m : i \in 1..Len(s) /\ s[i] \in S
  BY LenProperties, ElementOfSeq
<1> DEFINE p == SubSeq(s, 1, m)
<1>2. /\ p \in Seq(S) /\ Len(p) = IF 1 <= m THEN m - 1 + 1 ELSE 0
      /\ \A i \in 1..(m - 1 + 1) : p[i] = s[1 + i - 1]
  BY <1>1, SubSeqProperties
<1> HIDE DEF p
<1>3. Len(p) = m /\ \A i \in 1..m : p[i] = s[i]
  BY <1>1, <1>2
<1> QED BY <1>2, <1>3 DEF p

\* A sequence with its n-th element taken out.
LEMMA RemoveOne ==
  ASSUME NEW S, NEW s \in Seq(S), NEW n \in 1..Len(s)
  PROVE  /\ RemoveAt(s, n) \in Seq(S)
         /\ Len(RemoveAt(s, n)) = Len(s) - 1
         /\ \A i \in 1..(Len(s) - 1) : RemoveAt(s, n)[i] = IF i < n THEN s[i] ELSE s[i + 1]
<1> DEFINE a == SubSeq(s, 1, n - 1)
           b == SubSeq(s, n + 1, Len(s))
<1>1. Len(s) \in Nat /\ \A i \in 1..Len(s) : s[i] \in S
  BY LenProperties, ElementOfSeq
<1>2. /\ a \in Seq(S) /\ Len(a) = n - 1
      /\ \A i \in 1..(n - 1) : a[i] = s[i]
  <2>1. \A i \in 1..(n - 1) : s[i] \in S
    BY <1>1
  <2>2. /\ a \in Seq(S)
        /\ Len(a) = IF 1 <= n - 1 THEN n - 1 - 1 + 1 ELSE 0
        /\ \A i \in 1..(n - 1 - 1 + 1) : a[i] = s[1 + i - 1]
    BY <2>1, <1>1, SubSeqProperties
  <2> QED BY <2>2, <1>1
<1>3. /\ b \in Seq(S) /\ Len(b) = Len(s) - n
      /\ \A i \in 1..(Len(s) - n) : b[i] = s[n + i]
  <2>1. \A i \in (n + 1)..Len(s) : s[i] \in S
    BY <1>1
  <2>2. /\ b \in Seq(S)
        /\ Len(b) = IF n + 1 <= Len(s) THEN Len(s) - (n + 1) + 1 ELSE 0
        /\ \A i \in 1..(Len(s) - (n + 1) + 1) : b[i] = s[n + 1 + i - 1]
    BY <2>1, <1>1, SubSeqProperties
  <2> QED BY <2>2, <1>1
<1>4. /\ a \o b \in Seq(S)
      /\ Len(a \o b) = Len(a) + Len(b)
      /\ \A i \in 1..(Len(a) + Len(b)) : (a \o b)[i] = IF i <= Len(a) THEN a[i] ELSE b[i - Len(a)]
  BY <1>2, <1>3, ConcatProperties
<1>5. RemoveAt(s, n) = a \o b
  BY DEF RemoveAt
<1> HIDE DEF a, b
<1>6. ASSUME NEW i \in 1..(Len(s) - 1) PROVE (a \o b)[i] = IF i < n THEN s[i] ELSE s[i + 1]
  <2>1. CASE i < n
    BY <2>1, <1>1, <1>2, <1>3, <1>4
  <2>2. CASE ~(i < n)
    <3>1. i - (n - 1) \in 1..(Len(s) - n)
      BY <2>2, <1>1
    <3>2. (a \o b)[i] = b[i - (n - 1)]
      BY <2>2, <1>1, <1>2, <1>3, <1>4
    <3>3. b[i - (n - 1)] = s[n + (i - (n - 1))] /\ n + (i - (n - 1)) = i + 1
      BY <3>1, <1>1, <1>3
    <3> QED BY <3>2, <3>3, <2>2
  <2> QED BY <2>1, <2>2
<1>7. RemoveAt(s, n) \in Seq(S) /\ Len(RemoveAt(s, n)) = Len(s) - 1
  BY <1>1, <1>2, <1>3, <1>4, <1>5
<1> QED BY <1>5, <1>6, <1>7

-----------------------------------------------------------------------------

\* A set of numbers that has an element has a least one.
LEMMA LeastNumber ==
  ASSUME NEW T, T \subseteq Nat, T # {}
  PROVE  Min(T) \in T /\ \A n \in T : Min(T) <= n
<1>1. IsWellFoundedOn(OpToRel(<, Nat), Nat)
  BY NatLessThanWellFounded
<1>2. PICK x \in T : \A y \in T : ~ (<<y, x>> \in OpToRel(<, Nat))
  BY <1>1, WFMin
<1>3. ASSUME NEW y \in T PROVE x <= y
  <2>1. x \in Nat /\ y \in Nat
    OBVIOUS
  <2>2. y < x => <<y, x>> \in OpToRel(<, Nat)
    BY <2>1 DEF OpToRel
  <2>3. ~ (y < x)
    BY <1>2, <2>2
  <2> QED BY <2>1, <2>3
<1> QED BY <1>3 DEF Min

\* Of some subsets of a finite set there is one that contains no other.
LEMMA LeastSubset ==
  ASSUME NEW S, IsFiniteSet(S), NEW Q, Q \subseteq SUBSET S, Q # {}
  PROVE  \E s \in Q : \A t \in Q : t \subseteq s => t = s
<1>1. IsWellFoundedOn(StrictSubsetOrdering(S), SUBSET S)
  BY FS_StrictSubsetOrderingWellFounded, FS_FiniteSubsetsOfFinite
<1>2. PICK s \in Q : \A t \in Q : ~ (<<t, s>> \in StrictSubsetOrdering(S))
  BY <1>1, WFMin
<1>3. ASSUME NEW t \in Q, t \subseteq s PROVE t = s
  <2>1. t # s => <<t, s>> \in StrictSubsetOrdering(S)
    BY <1>3 DEF StrictSubsetOrdering
  <2> QED BY <1>2, <2>1
<1> QED BY <1>3

\* What SumFunction is defined by: sums over the subsets of S, each from a smaller one.
Pick(s) == CHOOSE x \in s : TRUE

AddsUp(f, S, g) ==
  g = [s \in SUBSET S |-> IF s = {} THEN 0 ELSE f[Pick(s)] + g[s \ {Pick(s)}]]

\* There is at most one such function, smaller sets included.
LEMMA AddsUpOnce ==
  ASSUME NEW S, IsFiniteSet(S), NEW f, NEW T \in SUBSET S, NEW U \in SUBSET S, NEW g, NEW h,
         AddsUp(f, T, g), AddsUp(f, U, h)
  PROVE  \A s \in SUBSET (T \cap U) : g[s] = h[s]
<1> DEFINE Q == {s \in SUBSET (T \cap U) : g[s] # h[s]}
<1> SUFFICES ASSUME Q # {} PROVE FALSE
  OBVIOUS
<1>1. PICK s \in Q : \A t \in Q : t \subseteq s => t = s
  <2>1. Q \subseteq SUBSET S /\ Q # {}
    OBVIOUS
  <2> HIDE DEF Q
  <2> QED BY <2>1, LeastSubset
<1>2. s \in SUBSET T /\ s \in SUBSET U /\ g[s] # h[s]
  OBVIOUS
<1>3. g[s] = IF s = {} THEN 0 ELSE f[Pick(s)] + g[s \ {Pick(s)}]
  BY <1>2 DEF AddsUp
<1>4. h[s] = IF s = {} THEN 0 ELSE f[Pick(s)] + h[s \ {Pick(s)}]
  BY <1>2 DEF AddsUp
<1>5. s # {}
  BY <1>2, <1>3, <1>4
<1>6. Pick(s) \in s
  BY <1>5 DEF Pick
<1>7. s \ {Pick(s)} \in SUBSET (T \cap U) /\ s \ {Pick(s)} # s /\ s \ {Pick(s)} \subseteq s
  BY <1>2, <1>6
<1>8. g[s \ {Pick(s)}] = h[s \ {Pick(s)}]
  BY <1>1, <1>7
<1> QED BY <1>2, <1>3, <1>4, <1>5, <1>8

\* There is one.
LEMMA AddsUpSomehow ==
  ASSUME NEW S, IsFiniteSet(S), NEW f
  PROVE  \E g : AddsUp(f, S, g)
<1> DEFINE Q == {T \in SUBSET S : ~ \E g : AddsUp(f, T, g)}
<1> SUFFICES ASSUME Q # {} PROVE FALSE
  OBVIOUS
<1>1. PICK T \in Q : \A t \in Q : t \subseteq T => t = T
  <2>1. Q \subseteq SUBSET S /\ Q # {}
    OBVIOUS
  <2> HIDE DEF Q
  <2> QED BY <2>1, LeastSubset
<1> DEFINE G(t) == CHOOSE g : AddsUp(f, t, g)
           h == [s \in SUBSET T |-> IF s = {} THEN 0
                                    ELSE f[Pick(s)] + G(s \ {Pick(s)})[s \ {Pick(s)}]]
<1>2. ASSUME NEW t \in SUBSET T, t # T PROVE AddsUp(f, t, G(t))
  <2>1. t \in SUBSET S /\ t \notin Q
    BY <1>1, <1>2
  <2>2. \E g : AddsUp(f, t, g)
    BY <2>1
  <2> HIDE DEF Q
  <2> QED BY <2>2
<1>3. ASSUME NEW s \in SUBSET T, s # {} PROVE s \ {Pick(s)} \in SUBSET T /\ s \ {Pick(s)} # T
                                   /\ s \ {Pick(s)} # s
  BY <1>3 DEF Pick
<1>4. ASSUME NEW s \in SUBSET T, s # T PROVE h[s] = G(s)[s]
  <2>1. G(s) = [u \in SUBSET s |-> IF u = {} THEN 0 ELSE f[Pick(u)] + G(s)[u \ {Pick(u)}]]
    BY <1>2, <1>4 DEF AddsUp
  <2>2. G(s)[s] = IF s = {} THEN 0 ELSE f[Pick(s)] + G(s)[s \ {Pick(s)}]
    <3> HIDE DEF G
    <3> QED BY <2>1
  <2>3. CASE s = {}
    <3> HIDE DEF G
    <3> QED BY <2>2, <2>3
  <2>4. CASE s # {}
    <3> DEFINE u == s \ {Pick(s)}
    <3>1. u \in SUBSET T /\ u # T /\ u \in SUBSET s /\ u \in SUBSET S /\ s \in SUBSET S
      BY <1>3, <2>4
    <3>2. AddsUp(f, s, G(s)) /\ AddsUp(f, u, G(u))
      BY <1>2, <1>4, <3>1
    <3> HIDE DEF G
    <3>3. \A v \in SUBSET (s \cap u) : G(s)[v] = G(u)[v]
      <4> HIDE DEF u
      <4> QED BY <3>1, <3>2, AddsUpOnce
    <3>4. G(s)[u] = G(u)[u]
      BY <3>1, <3>3
    <3> QED BY <2>2, <2>4, <3>4
  <2> QED BY <2>3, <2>4
<1>5. AddsUp(f, T, h)
  <2>1. ASSUME NEW s \in SUBSET T, s # {} PROVE h[s] = f[Pick(s)] + h[s \ {Pick(s)}]
    <3>1. h[s \ {Pick(s)}] = G(s \ {Pick(s)})[s \ {Pick(s)}]
      <4> HIDE DEF h, G
      <4> QED BY <1>3, <1>4, <2>1
    <3> HIDE DEF G
    <3> QED BY <3>1, <2>1
  <2>2. {} \in SUBSET T /\ h[{}] = 0
    OBVIOUS
  <2>3. h = [s \in SUBSET T |-> h[s]]
    OBVIOUS
  <2> HIDE DEF h
  <2> QED BY <2>1, <2>2, <2>3 DEF AddsUp
<1> QED BY <1>5

\* It gives the sum.
LEMMA SumAddsUp ==
  ASSUME NEW S, IsFiniteSet(S), NEW f
  PROVE  \E g : AddsUp(f, S, g) /\ SumFunctionOnSet(f, S) = g[S]
<1>1. SumFunctionOnSet(f, S) =
           (CHOOSE g : g = [s \in SUBSET S |-> IF s = {} THEN 0
              ELSE f[CHOOSE x \in s : TRUE] + g[s \ {CHOOSE x \in s : TRUE}]])[S]
  BY DEF SumFunctionOnSet, FoldFunctionOnSet, MapThenFoldSet
<1>2. SumFunctionOnSet(f, S) = (CHOOSE g : AddsUp(f, S, g))[S]
  BY <1>1 DEF AddsUp, Pick
<1>3. AddsUp(f, S, CHOOSE g : AddsUp(f, S, g))
  BY AddsUpSomehow
<1> QED BY <1>2, <1>3

\* A sum of numbers from a to b is from a to b times how many there are.
LEMMA SumBound ==
  ASSUME NEW S, IsFiniteSet(S), NEW f,
         NEW a \in Nat, NEW b \in Nat, \A x \in S : f[x] \in a..b
  PROVE  SumFunctionOnSet(f, S) \in (Cardinality(S) * a)..(Cardinality(S) * b)
<1>1. PICK g : AddsUp(f, S, g) /\ SumFunctionOnSet(f, S) = g[S]
  BY SumAddsUp
<1> DEFINE Q == {s \in SUBSET S : ~ (g[s] \in (Cardinality(s) * a)..(Cardinality(s) * b))}
<1>2. Q = {}
  <2> SUFFICES ASSUME Q # {} PROVE FALSE
    OBVIOUS
  <2>1. PICK s \in Q : \A t \in Q : t \subseteq s => t = s
    <3>1. Q \subseteq SUBSET S /\ Q # {}
      OBVIOUS
    <3> HIDE DEF Q
    <3> QED BY <3>1, LeastSubset
  <2>2. s \in SUBSET S /\ ~ (g[s] \in (Cardinality(s) * a)..(Cardinality(s) * b)) /\ IsFiniteSet(s)
    BY FS_Subset
  <2>3. g[s] = IF s = {} THEN 0 ELSE f[Pick(s)] + g[s \ {Pick(s)}]
    BY <1>1, <2>2 DEF AddsUp
  <2>4. CASE s = {}
    <3>1. g[s] = 0 /\ Cardinality(s) = 0
      BY <2>3, <2>4, FS_EmptySet
    <3> QED BY <2>2, <3>1
  <2>5. CASE s # {}
    <3> DEFINE u == s \ {Pick(s)}
               c == Cardinality(s)
    <3>1. Pick(s) \in s
      BY <2>5 DEF Pick
    <3>2. u \in SUBSET S /\ u \subseteq s /\ u # s
      BY <2>2, <3>1
    <3>3. g[u] \in (Cardinality(u) * a)..(Cardinality(u) * b)
      BY <2>1, <3>2
    <3>4. Cardinality(u) = c - 1 /\ c \in Nat /\ Cardinality(u) \in Nat
      BY <2>2, <3>1, <3>2, FS_RemoveElement, FS_CardinalityType, FS_Subset
    <3>5. f[Pick(s)] \in a..b
      BY <2>2, <3>1
    <3>6. g[s] = f[Pick(s)] + g[u]
      BY <2>3, <2>5
    <3>7. /\ (c - 1) * b + b = c * b /\ (c - 1) * b \in Int /\ c * b \in Int
          /\ (c - 1) * a + a = c * a /\ (c - 1) * a \in Int /\ c * a \in Int
      BY <3>4
    <3> HIDE DEF u
    <3>8. g[s] \in (c * a)..(c * b)
      BY <3>3, <3>4, <3>5, <3>6, <3>7
    <3> QED BY <2>2, <3>8
  <2> QED BY <2>4, <2>5
<1>3. S \in SUBSET S
  OBVIOUS
<1> QED BY <1>1, <1>2, <1>3

\* Of one number more the sum is larger by that number.
LEMMA SumOfMore ==
  ASSUME NEW S, IsFiniteSet(S), NEW x, x \notin S, NEW f, NEW h, h[x] \in Nat,
         \A y \in S : h[y] \in Nat /\ f[y] = h[y]
  PROVE  /\ SumFunctionOnSet(f, S) \in Nat
         /\ SumFunctionOnSet(h, S \cup {x}) = SumFunctionOnSet(f, S) + h[x]
<1> DEFINE U == S \cup {x}
<1>1. IsFiniteSet(U) /\ \A y \in U : h[y] \in Nat
  BY FS_AddElement
<1>2. PICK g : AddsUp(h, U, g) /\ SumFunctionOnSet(h, U) = g[U]
  <2> HIDE DEF U
  <2> QED BY <1>1, SumAddsUp
<1>3. PICK e : AddsUp(f, S, e) /\ SumFunctionOnSet(f, S) = e[S]
  BY SumAddsUp
<1>4. \A T \in SUBSET U : g[T] = IF T = {} THEN 0 ELSE h[Pick(T)] + g[T \ {Pick(T)}]
  BY <1>2 DEF AddsUp
<1>5. \A T \in SUBSET S : e[T] = IF T = {} THEN 0 ELSE f[Pick(T)] + e[T \ {Pick(T)}]
  BY <1>3 DEF AddsUp
<1>6. \A T : T # {} => Pick(T) \in T
  BY DEF Pick
<1>7. S \in SUBSET S /\ S \in SUBSET U /\ U \in SUBSET U /\ x \in U /\ U \ {x} = S
      /\ \A y \in S : y \in U
  OBVIOUS
<1> HIDE DEF U
<1>8. \A T \in SUBSET U : g[T] \in Nat
  <2> DEFINE Q == {T \in SUBSET U : g[T] \notin Nat}
  <2> SUFFICES ASSUME Q # {} PROVE FALSE
    OBVIOUS
  <2>1. PICK T \in Q : \A t \in Q : t \subseteq T => t = T
    <3>1. Q \subseteq SUBSET U /\ Q # {}
      OBVIOUS
    <3> HIDE DEF Q
    <3> QED BY <3>1, <1>1, LeastSubset
  <2>2. T \in SUBSET U /\ g[T] \notin Nat
    OBVIOUS
  <2>3. T # {}
    <3>1. T = {} => g[T] = 0
      BY <2>2, <1>4
    <3> QED BY <2>2, <3>1
  <2>4. Pick(T) \in T /\ T \ {Pick(T)} \in SUBSET U /\ T \ {Pick(T)} # T /\ T \ {Pick(T)} \subseteq T
    BY <2>2, <2>3, <1>6
  <2>5. g[T \ {Pick(T)}] \in Nat
    BY <2>1, <2>4
  <2>6. h[Pick(T)] \in Nat
    BY <2>2, <2>4, <1>1
  <2> QED BY <2>2, <2>3, <2>5, <2>6, <1>4
<1>9. \A T \in SUBSET U : \A y \in T : g[T] = h[y] + g[T \ {y}]
  <2> DEFINE Good(T) == \A y \in T : g[T] = h[y] + g[T \ {y}]
             Q == {T \in SUBSET U : ~ Good(T)}
  <2> SUFFICES ASSUME Q # {} PROVE FALSE
    OBVIOUS
  <2>1. PICK T \in Q : \A t \in Q : t \subseteq T => t = T
    <3>1. Q \subseteq SUBSET U /\ Q # {}
      OBVIOUS
    <3> HIDE DEF Q
    <3> QED BY <3>1, <1>1, LeastSubset
  <2>2. PICK y \in T : g[T] # h[y] + g[T \ {y}]
    OBVIOUS
  <2>3. T \in SUBSET U /\ y \in U /\ T # {}
    OBVIOUS
  <2> DEFINE p == Pick(T)
             A == T \ {p}
             B == T \ {y}
             C == (T \ {p}) \ {y}
  <2>4. p \in T /\ p \in U /\ g[T] = h[p] + g[A]
    BY <2>3, <1>4, <1>6
  <2>5. p # y
    BY <2>2, <2>4
  <2>6. /\ A \in SUBSET U /\ A # T /\ A \subseteq T /\ y \in A
        /\ B \in SUBSET U /\ B # T /\ B \subseteq T /\ p \in B
        /\ C \in SUBSET U /\ C = A \ {y} /\ C = B \ {p}
    BY <2>3, <2>4, <2>5
  <2> HIDE DEF p
  <2>7. Good(A) /\ Good(B)
    <3>1. A \notin Q /\ B \notin Q
      BY <2>1, <2>6
    <3> HIDE DEF A, B, Good
    <3> QED BY <3>1, <2>6
  <2> HIDE DEF Q
  <2>8. g[A] = h[y] + g[C] /\ g[B] = h[p] + g[C]
    <3> HIDE DEF A, B, C
    <3> QED BY <2>6, <2>7
  <2>9. h[y] \in Nat /\ h[p] \in Nat /\ g[C] \in Nat
    BY <1>1, <1>8, <2>3, <2>4, <2>6
  <2> HIDE DEF A, C
  <2> QED BY <2>2, <2>4, <2>8, <2>9
<1>10. \A T \in SUBSET S : e[T] = g[T]
  <2> DEFINE Q == {T \in SUBSET S : e[T] # g[T]}
  <2> SUFFICES ASSUME Q # {} PROVE FALSE
    OBVIOUS
  <2>1. PICK T \in Q : \A t \in Q : t \subseteq T => t = T
    <3>1. Q \subseteq SUBSET S /\ Q # {}
      OBVIOUS
    <3> HIDE DEF Q
    <3> QED BY <3>1, LeastSubset
  <2>2. T \in SUBSET S /\ T \in SUBSET U /\ e[T] # g[T]
    BY <1>7
  <2>3. T # {}
    BY <2>2, <1>4, <1>5
  <2>4. Pick(T) \in T /\ T \ {Pick(T)} \in SUBSET S /\ T \ {Pick(T)} # T /\ T \ {Pick(T)} \subseteq T
    BY <2>2, <2>3, <1>6
  <2>5. e[T \ {Pick(T)}] = g[T \ {Pick(T)}]
    BY <2>1, <2>4
  <2>6. f[Pick(T)] = h[Pick(T)]
    BY <2>2, <2>4
  <2> QED BY <2>2, <2>3, <2>5, <2>6, <1>4, <1>5
<1>11. e[S] = g[S] /\ g[S] \in Nat
  BY <1>7, <1>8, <1>10
<1>12. g[U] = h[x] + g[S]
  BY <1>7, <1>9
<1> QED BY <1>2, <1>3, <1>11, <1>12 DEF U

\* A sum of numbers is a number.
LEMMA SumInNat ==
  ASSUME NEW S, IsFiniteSet(S), NEW f, \A y \in S : f[y] \in Nat
  PROVE  SumFunctionOnSet(f, S) \in Nat
<1> DEFINE x == {y \in S : y \notin y}
           h == [y \in S \cup {x} |-> IF y \in S THEN f[y] ELSE 0]
<1>1. x \notin S
  <2>1. x \in S => (x \in x <=> x \notin x)
    OBVIOUS
  <2> QED BY <2>1
<1> HIDE DEF x
<1>2. h[x] \in Nat /\ \A y \in S : h[y] \in Nat /\ f[y] = h[y]
  BY <1>1
<1> HIDE DEF h
<1> QED BY <1>1, <1>2, SumOfMore

-----------------------------------------------------------------------------
(* Keep *)

\* Of the numbers up to m that satisfy what is asked for, given as a set, a least one.
LEMMA LeastOf ==
  ASSUME NEW m \in Nat, NEW Q, Q \subseteq 0..m, Q # {}
  PROVE  \E n \in Q : n - 1 \notin Q
<1>1. Q \subseteq Nat
  OBVIOUS
<1>2. Min(Q) \in Q /\ \A n \in Q : Min(Q) <= n
  BY <1>1, LeastNumber
<1>3. Min(Q) \in Nat /\ (Min(Q) - 1 \in Q => Min(Q) <= Min(Q) - 1)
  BY <1>1, <1>2
<1>4. Min(Q) - 1 \notin Q
  BY <1>3
<1> QED BY <1>2, <1>4

\* What Keep is defined by: what is kept of the first n elements.
Keeps(s, T, m, g) ==
  g = [n \in 0..m |-> IF n = 0 THEN <<>>
                      ELSE IF s[n] \in T THEN Append(g[n - 1], s[n]) ELSE g[n - 1]]

\* Of sequences that are the same up to m the same is kept up to m.
LEMMA KeepsOnce ==
  ASSUME NEW m \in Nat, NEW k \in m..m + 1, NEW s, NEW t, NEW T, \A i \in 1..m : s[i] = t[i],
         NEW g, NEW h, Keeps(s, T, m, g), Keeps(t, T, k, h)
  PROVE  \A n \in 0..m : g[n] = h[n]
<1> DEFINE Q == {n \in 0..m : g[n] # h[n]}
<1> SUFFICES ASSUME Q # {} PROVE FALSE
  OBVIOUS
<1>1. PICK n \in Q : n - 1 \notin Q
  <2>1. Q \subseteq 0..m
    OBVIOUS
  <2> HIDE DEF Q
  <2> QED BY <2>1, LeastOf
<1>2. n \in 0..m /\ n \in 0..k /\ g[n] # h[n]
  OBVIOUS
<1>3. g[n] = IF n = 0 THEN <<>> ELSE IF s[n] \in T THEN Append(g[n - 1], s[n]) ELSE g[n - 1]
  BY <1>2 DEF Keeps
<1>4. h[n] = IF n = 0 THEN <<>> ELSE IF t[n] \in T THEN Append(h[n - 1], t[n]) ELSE h[n - 1]
  BY <1>2 DEF Keeps
<1>5. n # 0
  BY <1>2, <1>3, <1>4
<1>6. n - 1 \in 0..m /\ n \in 1..m
  BY <1>2, <1>5
<1>7. g[n - 1] = h[n - 1] /\ s[n] = t[n]
  BY <1>1, <1>6
<1> QED BY <1>2, <1>3, <1>4, <1>7

\* Something is kept of the first m elements, whatever they are.
LEMMA KeepsSomehow ==
  ASSUME NEW m \in Nat, NEW s, NEW T
  PROVE  \E g : Keeps(s, T, m, g)
<1> DEFINE Q == {n \in 0..m : ~ \E g : Keeps(s, T, n, g)}
<1> SUFFICES ASSUME Q # {} PROVE FALSE
  <2>1. m \in 0..m
    OBVIOUS
  <2> QED BY <2>1
<1>1. PICK n \in Q : n - 1 \notin Q
  <2>1. Q \subseteq 0..m
    OBVIOUS
  <2> HIDE DEF Q
  <2> QED BY <2>1, LeastOf
<1>2. n \in 0..m /\ ~ \E g : Keeps(s, T, n, g)
  OBVIOUS
<1>3. CASE n = 0
  <2> DEFINE g == [i \in 0..0 |-> <<>>]
  <2>1. \A i \in 0..0 : i = 0
    OBVIOUS
  <2>2. Keeps(s, T, 0, g)
    BY <2>1 DEF Keeps
  <2> QED BY <2>2, <1>2, <1>3
<1>4. CASE n # 0
  <2>1. n - 1 \in 0..m /\ n - 1 \notin Q
    BY <1>1, <1>2, <1>4
  <2>2. PICK g : Keeps(s, T, n - 1, g)
    BY <2>1
  <2> DEFINE h == [i \in 0..n |-> IF i < n THEN g[i]
                                  ELSE IF s[n] \in T THEN Append(g[n - 1], s[n]) ELSE g[n - 1]]
  <2>3. \A i \in 0..(n - 1) : g[i] = IF i = 0 THEN <<>>
                       ELSE IF s[i] \in T THEN Append(g[i - 1], s[i]) ELSE g[i - 1]
    BY <2>2 DEF Keeps
  <2>4. \A i \in 0..n : h[i] = IF i = 0 THEN <<>>
                       ELSE IF s[i] \in T THEN Append(h[i - 1], s[i]) ELSE h[i - 1]
    <3>1. ASSUME NEW i \in 0..n, i < n
          PROVE  h[i] = IF i = 0 THEN <<>>
                       ELSE IF s[i] \in T THEN Append(h[i - 1], s[i]) ELSE h[i - 1]
      <4>1. i \in 0..(n - 1) /\ h[i] = g[i] /\ (i # 0 => i - 1 \in 0..n /\ i - 1 < n)
        BY <1>2, <3>1
      <4>2. i # 0 => h[i - 1] = g[i - 1]
        BY <4>1
      <4> HIDE DEF h
      <4> QED BY <4>1, <4>2, <2>3
    <3>2. h[n] = IF s[n] \in T THEN Append(h[n - 1], s[n]) ELSE h[n - 1]
      <4>1. n \in 0..n /\ ~ (n < n) /\ n - 1 \in 0..n /\ n - 1 < n
        BY <1>2, <1>4
      <4> QED BY <4>1
    <3>3. \A i \in 0..n : i < n \/ i = n
      BY <1>2
    <3> HIDE DEF h
    <3> QED BY <3>1, <3>2, <3>3, <1>4
  <2>5. h = [i \in 0..n |-> h[i]]
    OBVIOUS
  <2> HIDE DEF h
  <2>6. Keeps(s, T, n, h)
    BY <2>4, <2>5 DEF Keeps
  <2> QED BY <2>6, <1>2
<1> QED BY <1>3, <1>4

\* The function Keep chooses exists.
LEMMA KeepIs ==
  ASSUME NEW S, NEW s \in Seq(S), NEW T
  PROVE  \E g : Keeps(s, T, Len(s), g) /\ Keep(s, T) = g[Len(s)]
<1>1. Keep(s, T) = (CHOOSE g : Keeps(s, T, Len(s), g))[Len(s)]
  BY DEF Keep, Keeps
<1>2. Len(s) \in Nat
  BY LenProperties
<1>3. Keeps(s, T, Len(s), CHOOSE g : Keeps(s, T, Len(s), g))
  BY <1>2, KeepsSomehow
<1> QED BY <1>1, <1>3

\* Keep from one sequence to a longer one.
LEMMA KeepEmpty == \A T : Keep(<<>>, T) = <<>>
<1> SUFFICES ASSUME NEW T PROVE Keep(<<>>, T) = <<>>
  OBVIOUS
<1>1. <<>> \in Seq({}) /\ Len(<<>>) = 0
  BY EmptySeq
<1>2. PICK g : Keeps(<<>>, T, 0, g) /\ Keep(<<>>, T) = g[0]
  BY <1>1, KeepIs
<1>3. 0 \in 0..0
  OBVIOUS
<1> QED BY <1>2, <1>3 DEF Keeps

\* What is kept of one more.
LEMMA KeepAppend ==
  ASSUME NEW S, NEW s \in Seq(S), NEW e \in S, NEW T
  PROVE  Keep(Append(s, e), T) = IF e \in T THEN Append(Keep(s, T), e) ELSE Keep(s, T)
<1> DEFINE a == Append(s, e)
           m == Len(s)
<1>1. /\ a \in Seq(S) /\ Len(a) = m + 1 /\ m \in Nat
      /\ \A i \in 1..m : s[i] = a[i]
      /\ a[m + 1] = e
  BY AppendProperties, LenProperties
<1>2. PICK g : Keeps(s, T, m, g) /\ Keep(s, T) = g[m]
  BY KeepIs
<1> HIDE DEF a
<1>3. PICK h : Keeps(a, T, Len(a), h) /\ Keep(a, T) = h[Len(a)]
  BY <1>1, KeepIs
<1> HIDE DEF m
<1>4. m + 1 \in m..m + 1
  BY <1>1
<1>5. \A n \in 0..m : g[n] = h[n]
  BY <1>1, <1>2, <1>3, <1>4, KeepsOnce
<1>6. m \in 0..m /\ m + 1 \in 0..(m + 1) /\ m + 1 # 0 /\ (m + 1) - 1 = m
  BY <1>1
<1>7. h[m + 1] = IF a[m + 1] \in T THEN Append(h[m], a[m + 1]) ELSE h[m]
  BY <1>1, <1>3, <1>6 DEF Keeps
<1> QED BY <1>1, <1>2, <1>3, <1>5, <1>6, <1>7 DEF a

\* k consists of the elements of s that are in T, and at says where each of them stands.
KeptAt(k, s, T, at) ==
  /\ at \in [1..Len(k) -> 1..Len(s)]
  /\ \A i, j \in 1..Len(k) : i < j => at[i] < at[j]
  /\ \A i \in 1..Len(k) : k[i] = s[at[i]]
  /\ \A n \in 1..Len(s) : s[n] \in T => \E i \in 1..Len(k) : at[i] = n

\* One more element, and where it is kept.
LEMMA KeptAtStep ==
  ASSUME NEW S, NEW s \in Seq(S), NEW e \in S, NEW T,
         Keep(s, T) \in Seq(S \cap T), NEW at, KeptAt(Keep(s, T), s, T, at)
  PROVE  /\ Keep(Append(s, e), T) \in Seq(S \cap T)
         /\ \E b : KeptAt(Keep(Append(s, e), T), Append(s, e), T, b)
<1> DEFINE k == Keep(s, T)
           a == Append(s, e)
<1>1. /\ a \in Seq(S) /\ Len(a) = Len(s) + 1 /\ Len(s) \in Nat
      /\ \A i \in 1..Len(s) : a[i] = s[i]
      /\ a[Len(s) + 1] = e
  BY AppendProperties, LenProperties
<1>2. Len(k) \in Nat
  BY LenProperties
<1>3. \A n \in 1..Len(a) : n \in 1..Len(s) \/ n = Len(s) + 1
  BY <1>1
<1>4. \A n \in 1..Len(s) : n \in 1..Len(a) /\ n < Len(s) + 1
  BY <1>1
<1>5. CASE e \notin T
  <2>1. Keep(a, T) = k
    BY <1>5, KeepAppend
  <2> HIDE DEF a, k
  <2>2. /\ at \in [1..Len(k) -> 1..Len(a)]
        /\ \A i \in 1..Len(k) : k[i] = a[at[i]]
        /\ \A n \in 1..Len(a) : a[n] \in T => \E i \in 1..Len(k) : at[i] = n
    BY <1>1, <1>2, <1>3, <1>4, <1>5 DEF KeptAt, k
  <2>3. KeptAt(k, a, T, at)
    BY <2>2 DEF KeptAt, k
  <2> QED BY <2>1, <2>3 DEF a, k
<1>6. CASE e \in T
  <2> DEFINE q == Append(k, e)
             b == [i \in 1..(Len(k) + 1) |-> IF i \in 1..Len(k) THEN at[i] ELSE Len(s) + 1]
  <2>1. Keep(a, T) = q
    BY <1>6, KeepAppend
  <2>2. /\ q \in Seq(S \cap T) /\ Len(q) = Len(k) + 1
        /\ \A i \in 1..Len(k) : q[i] = k[i]
        /\ q[Len(k) + 1] = e
    BY <1>6, AppendProperties
  <2> HIDE DEF a, k, q
  <2>3. /\ at \in [1..Len(k) -> 1..Len(s)]
        /\ \A i, j \in 1..Len(k) : i < j => at[i] < at[j]
        /\ \A i \in 1..Len(k) : k[i] = s[at[i]]
        /\ \A n \in 1..Len(s) : s[n] \in T => \E i \in 1..Len(k) : at[i] = n
    BY DEF KeptAt, k
  <2>4. \A i \in 1..Len(q) : i \in 1..Len(k) \/ (i = Len(k) + 1 /\ i \notin 1..Len(k))
    BY <1>2, <2>2
  <2>5. \A i \in 1..Len(k) : b[i] = at[i] /\ at[i] \in 1..Len(s) /\ i \in 1..Len(q)
    BY <1>2, <2>2, <2>3
  <2>6. b[Len(k) + 1] = Len(s) + 1 /\ Len(k) + 1 \in 1..Len(q)
    BY <1>2, <2>2
  <2>7. b \in [1..Len(q) -> 1..Len(a)]
    BY <1>1, <2>2, <2>3, <2>4
  <2> HIDE DEF b
  <2>8. ASSUME NEW i \in 1..Len(q), NEW j \in 1..Len(q), i < j PROVE b[i] < b[j]
    <3>1. i \in 1..Len(k)
      BY <2>2, <2>4, <2>8, <1>2
    <3>2. CASE j \in 1..Len(k)
      BY <3>1, <3>2, <2>3, <2>5, <2>8
    <3>3. CASE j = Len(k) + 1
      <4>1. b[i] \in 1..Len(s) /\ b[j] = Len(s) + 1
        BY <3>1, <3>3, <2>5, <2>6
      <4> QED BY <4>1, <1>1
    <3> QED BY <3>2, <3>3, <2>4
  <2>9. \A i \in 1..Len(q) : q[i] = a[b[i]]
    BY <1>1, <2>2, <2>3, <2>4, <2>5, <2>6
  <2>10. \A n \in 1..Len(a) : a[n] \in T => \E i \in 1..Len(q) : b[i] = n
    BY <1>1, <1>3, <2>3, <2>5, <2>6
  <2>11. KeptAt(q, a, T, b)
    BY <2>7, <2>8, <2>9, <2>10 DEF KeptAt
  <2> QED BY <2>1, <2>2, <2>11 DEF a
<1> QED BY <1>5, <1>6

\* What is kept, and in which order.
LEMMA KeepFacts ==
  ASSUME NEW S, NEW s \in Seq(S), NEW T
  PROVE  /\ Keep(s, T) \in Seq(S \cap T)
         /\ \E at : KeptAt(Keep(s, T), s, T, at)
<1> DEFINE Good(r) == Keep(r, T) \in Seq(S \cap T) /\ \E at : KeptAt(Keep(r, T), r, T, at)
           Q == {n \in 0..Len(s) : \E r \in Seq(S) : Len(r) = n /\ ~ Good(r)}
<1>1. Len(s) \in Nat
  BY LenProperties
<1> SUFFICES ASSUME Q # {} PROVE FALSE
  <2>1. Len(s) \in 0..Len(s)
    BY <1>1
  <2>2. Len(s) \notin Q
    OBVIOUS
  <2>3. Good(s)
    <3> HIDE DEF Good
    <3> QED BY <2>1, <2>2
  <2> QED BY <2>3
<1> HIDE DEF Good
<1>2. PICK n \in Q : n - 1 \notin Q
  <2>1. Q \subseteq 0..Len(s)
    OBVIOUS
  <2> HIDE DEF Q
  <2> QED BY <1>1, <2>1, LeastOf
<1>3. PICK r \in Seq(S) : Len(r) = n /\ ~ Good(r)
  OBVIOUS
<1>4. CASE r = <<>>
  <2>1. Keep(r, T) = <<>> /\ Len(<<>>) = 0
    BY <1>4, KeepEmpty
  <2>2. \A i \in 1..0 : FALSE
    OBVIOUS
  <2>3. KeptAt(<<>>, <<>>, T, [i \in 1..0 |-> 0])
    BY <2>1, <2>2 DEF KeptAt
  <2>4. Good(<<>>)
    <3>1. Keep(<<>>, T) = <<>> /\ <<>> \in Seq(S \cap T)
      BY KeepEmpty, EmptySeq
    <3> QED BY <3>1, <2>3 DEF Good
  <2> QED BY <2>4, <1>3, <1>4
<1>5. CASE r # <<>>
  <2>1. PICK p \in Seq(S), e \in S : r = Append(p, e)
    BY <1>5, SequenceEmptyOrAppend
  <2>2. Len(p) \in Nat /\ Len(r) = Len(p) + 1
    BY <2>1, AppendProperties, LenProperties
  <2>3. Len(p) = n - 1 /\ Len(p) \in 0..Len(s)
    BY <1>1, <1>3, <2>2
  <2>4. Good(p)
    BY <1>2, <2>3
  <2>5. Good(r)
    BY <2>1, <2>4, KeptAtStep DEF Good
  <2> QED BY <2>5, <1>3
<1> QED BY <1>4, <1>5

\* As a set, Keep is an intersection.
LEMMA KeepRange ==
  ASSUME NEW S, NEW s \in Seq(S), NEW T
  PROVE  /\ Range(Keep(s, T)) = Range(s) \cap T
         /\ Len(Keep(s, T)) \in 0..Len(s)
<1> DEFINE k == Keep(s, T)
<1>1. PICK at : KeptAt(k, s, T, at)
  BY KeepFacts
<1>2. k \in Seq(S \cap T)
  BY KeepFacts
<1>3. /\ Len(k) \in Nat /\ DOMAIN k = 1..Len(k) /\ Len(s) \in Nat /\ DOMAIN s = 1..Len(s)
      /\ \A i \in 1..Len(k) : k[i] \in T
  BY <1>2, LenProperties, ElementOfSeq
<1> HIDE DEF k
<1>4. Range(k) = Range(s) \cap T
  BY <1>1, <1>3 DEF KeptAt, Range
<1>5. at \in [1..Len(k) -> 1..Len(s)] /\ \A i, j \in 1..Len(k) : i < j => at[i] < at[j]
  BY <1>1 DEF KeptAt
<1>6. at \in Injection(1..Len(k), 1..Len(s))
  <2>1. \A i, j \in 1..Len(k) : at[i] = at[j] => i = j
    <3> SUFFICES ASSUME NEW i \in 1..Len(k), NEW j \in 1..Len(k), at[i] = at[j] PROVE i = j
      OBVIOUS
    <3>1. at[i] \in Int /\ i \in Nat /\ j \in Nat
      BY <1>3, <1>5
    <3>2. ~ (i < j) /\ ~ (j < i)
      BY <3>1, <1>5
    <3> QED BY <3>1, <3>2
  <2> QED BY <2>1, <1>5 DEF Injection, IsInjective
<1>7. Cardinality(1..Len(k)) <= Cardinality(1..Len(s))
  <2>1. IsFiniteSet(1..Len(s))
    BY <1>3, FS_Interval
  <2> QED BY <2>1, <1>6, FS_Injection
<1>8. Len(k) <= Len(s)
  <2>1. ASSUME NEW n \in Nat PROVE Cardinality(1..n) = n
    <3>1. Cardinality(1..n) = IF 1 > n THEN 0 ELSE n - 1 + 1
      BY FS_Interval
    <3> QED BY <3>1
  <2> QED BY <2>1, <1>3, <1>7
<1> QED BY <1>3, <1>4, <1>8 DEF k

\* Where nothing is left out, everything stays.
LEMMA KeepAll ==
  ASSUME NEW S, NEW s \in Seq(S), NEW T, Range(s) \subseteq T
  PROVE  Keep(s, T) = s
<1> DEFINE Q == {n \in 0..Len(s) : \E r \in Seq(S \cap T) : Len(r) = n /\ Keep(r, T) # r}
<1>1. Len(s) \in Nat /\ Len(s) \in 0..Len(s)
  BY LenProperties
<1>2. s \in Seq(S \cap T)
  <2>1. \A i \in 1..Len(s) : s[i] \in S /\ s[i] \in T
    BY LenProperties, ElementOfSeq DEF Range
  <2>2. s \in [1..Len(s) -> S \cap T]
    BY <2>1, LenProperties
  <2> QED BY <1>1, <2>2
<1> SUFFICES ASSUME Q # {} PROVE FALSE
  BY <1>1, <1>2
<1>3. PICK n \in Q : n - 1 \notin Q
  <2>1. Q \subseteq 0..Len(s)
    OBVIOUS
  <2> HIDE DEF Q
  <2> QED BY <1>1, <2>1, LeastOf
<1>4. PICK r \in Seq(S \cap T) : Len(r) = n /\ Keep(r, T) # r
  OBVIOUS
<1>5. r # <<>>
  BY <1>4, KeepEmpty
<1>6. PICK p \in Seq(S \cap T), e \in S \cap T : r = Append(p, e)
  BY <1>5, SequenceEmptyOrAppend
<1>7. Len(p) \in Nat /\ Len(r) = Len(p) + 1
  BY <1>6, AppendProperties, LenProperties
<1>8. Len(p) = n - 1 /\ Len(p) \in 0..Len(s)
  BY <1>1, <1>4, <1>7
<1>9. Keep(p, T) = p
  BY <1>3, <1>8
<1>10. Keep(r, T) = Append(Keep(p, T), e)
  <2> DEFINE D == S \cap T
  <2>1. p \in Seq(D) /\ e \in D /\ e \in T
    OBVIOUS
  <2> HIDE DEF D
  <2>2. Keep(Append(p, e), T) = Append(Keep(p, T), e)
    BY <2>1, KeepAppend
  <2> QED BY <2>2, <1>6
<1> QED BY <1>4, <1>6, <1>9, <1>10

-----------------------------------------------------------------------------
(* Sequences in front of others, and FlattenSeq *)

\* What is in a sequence.
LEMMA RangeOf ==
  ASSUME NEW S, NEW s \in Seq(S)
  PROVE  /\ DOMAIN s = 1..Len(s) /\ Len(s) \in Nat
         /\ Range(s) = {s[i] : i \in 1..Len(s)}
         /\ Range(s) \subseteq S
         /\ s = <<>> <=> Range(s) = {}
         /\ s = <<>> <=> Len(s) = 0
<1>1. DOMAIN s = 1..Len(s) /\ Len(s) \in Nat
  BY LenProperties
<1>2. \A i \in 1..Len(s) : s[i] \in S
  BY ElementOfSeq
<1>3. s = <<>> <=> Len(s) = 0
  BY EmptySeq
<1>4. Len(s) = 0 <=> 1..Len(s) = {}
  <2>1. Len(s) # 0 => 1 \in 1..Len(s)
    BY <1>1
  <2> QED BY <2>1
<1>5. Range(s) = {s[i] : i \in 1..Len(s)}
  BY <1>1 DEF Range
<1>6. Range(s) = {} <=> 1..Len(s) = {}
  BY <1>5
<1> QED BY <1>1, <1>2, <1>3, <1>4, <1>5, <1>6

\* The first element and the rest.
LEMMA HeadAndTail ==
  ASSUME NEW S, NEW s \in Seq(S), s # <<>>
  PROVE  /\ Head(s) \in S /\ Head(s) = s[1] /\ Tail(s) \in Seq(S)
         /\ Len(s) \in Nat \ {0} /\ Len(Tail(s)) = Len(s) - 1
         /\ \A i \in 1..Len(Tail(s)) : Tail(s)[i] = s[i + 1]
         /\ Range(s) = {Head(s)} \cup Range(Tail(s))
<1> DEFINE t == Tail(s)
<1>1. /\ t \in Seq(S) /\ Len(t) = Len(s) - 1 /\ \A i \in 1..Len(t) : t[i] = s[i + 1]
  BY HeadTailProperties
<1>2. Len(s) \in Nat \ {0} /\ DOMAIN s = 1..Len(s) /\ Head(s) = s[1]
  BY EmptySeq, LenProperties
<1>3. Head(s) \in S
  BY <1>2, ElementOfSeq
<1> HIDE DEF t
<1>4. DOMAIN t = 1..(Len(s) - 1)
  BY <1>1, LenProperties
<1>5. ASSUME NEW e \in Range(s)
      PROVE  e \in {Head(s)} \cup Range(t)
  <2>1. PICK i \in 1..Len(s) : e = s[i]
    BY <1>2 DEF Range
  <2>2. CASE i = 1
    BY <2>1, <2>2, <1>2
  <2>3. CASE i # 1
    <3>1. i - 1 \in 1..Len(t) /\ (i - 1) + 1 = i
      BY <2>3, <1>1, <1>2
    <3>2. t[i - 1] = s[i]
      BY <3>1, <1>1
    <3> QED BY <2>1, <3>1, <3>2, <1>1, <1>4 DEF Range
  <2> QED BY <2>2, <2>3
<1>6. ASSUME NEW e \in {Head(s)} \cup Range(t)
      PROVE  e \in Range(s)
  <2>1. CASE e = Head(s)
    BY <2>1, <1>2 DEF Range
  <2>2. CASE e \in Range(t)
    <3>1. PICK i \in 1..(Len(s) - 1) : e = t[i]
      BY <2>2, <1>4 DEF Range
    <3>2. i + 1 \in 1..Len(s) /\ t[i] = s[i + 1]
      BY <1>1, <1>2
    <3> QED BY <3>1, <3>2, <1>2 DEF Range
  <2> QED BY <2>1, <2>2
<1>7. Range(s) = {Head(s)} \cup Range(t)
  BY <1>5, <1>6
<1> QED BY <1>1, <1>2, <1>3, <1>7 DEF t

\* Two sequences, one behind the other.
LEMMA ConcatTwo ==
  ASSUME NEW S, NEW s \in Seq(S), NEW t \in Seq(S)
  PROVE  /\ s \o t \in Seq(S)
         /\ Len(s \o t) = Len(s) + Len(t)
         /\ \A i \in 1..Len(s) : (s \o t)[i] = s[i]
         /\ \A i \in 1..Len(t) : (s \o t)[Len(s) + i] = t[i]
         /\ Range(s \o t) = Range(s) \cup Range(t)
<1> DEFINE c == s \o t
<1>1. /\ Len(s) \in Nat /\ DOMAIN s = 1..Len(s)
      /\ Len(t) \in Nat /\ DOMAIN t = 1..Len(t)
  BY LenProperties
<1>2. /\ c \in Seq(S) /\ Len(c) = Len(s) + Len(t)
      /\ \A i \in 1..(Len(s) + Len(t)) : c[i] = IF i <= Len(s) THEN s[i] ELSE t[i - Len(s)]
  BY ConcatProperties
<1>3. DOMAIN c = 1..(Len(s) + Len(t))
  BY <1>2, LenProperties
<1> HIDE DEF c
<1>4. \A i \in 1..Len(s) : i \in 1..(Len(s) + Len(t)) /\ c[i] = s[i]
  BY <1>1, <1>2
<1>5. \A i \in 1..Len(t) : Len(s) + i \in 1..(Len(s) + Len(t)) /\ c[Len(s) + i] = t[i]
  <2> TAKE i \in 1..Len(t)
  <2>1. Len(s) + i \in 1..(Len(s) + Len(t)) /\ ~ (Len(s) + i <= Len(s)) /\ Len(s) + i - Len(s) = i
    BY <1>1
  <2> QED BY <2>1, <1>2
<1>6. ASSUME NEW e \in Range(c)
      PROVE  e \in Range(s) \cup Range(t)
  <2>1. PICK i \in 1..(Len(s) + Len(t)) : e = c[i]
    BY <1>3 DEF Range
  <2>2. CASE i <= Len(s)
    BY <2>1, <2>2, <1>1, <1>2 DEF Range
  <2>3. CASE ~ (i <= Len(s))
    <3>1. i - Len(s) \in 1..Len(t)
      BY <2>3, <1>1
    <3> QED BY <2>1, <2>3, <3>1, <1>1, <1>2 DEF Range
  <2> QED BY <2>2, <2>3
<1>7. ASSUME NEW e \in Range(s) \cup Range(t)
      PROVE  e \in Range(c)
  <2>1. CASE e \in Range(s)
    <3>1. PICK i \in 1..Len(s) : e = s[i]
      BY <2>1, <1>1 DEF Range
    <3> QED BY <3>1, <1>4, <1>3 DEF Range
  <2>2. CASE e \in Range(t)
    <3>1. PICK i \in 1..Len(t) : e = t[i]
      BY <2>2, <1>1 DEF Range
    <3> QED BY <3>1, <1>5, <1>3 DEF Range
  <2> QED BY <2>1, <2>2
<1>8. Range(c) = Range(s) \cup Range(t)
  BY <1>6, <1>7
<1> QED BY <1>2, <1>4, <1>5, <1>8 DEF c

\* A sequence with one of a single element in front.
LEMMA OneInFront ==
  ASSUME NEW S, NEW s \in Seq(S), NEW one \in Seq(S), Len(one) = 1
  PROVE  /\ one \o s \in Seq(S)
         /\ Len(one \o s) = Len(s) + 1
         /\ (one \o s)[1] = one[1]
         /\ \A i \in 1..Len(s) : (one \o s)[i + 1] = s[i]
         /\ Range(one \o s) = Range(s) \cup {one[1]}
<1>1. Len(s) \in Nat
  BY LenProperties
<1>2. /\ one \o s \in Seq(S)
      /\ Len(one \o s) = Len(one) + Len(s)
      /\ \A i \in 1..Len(one) : (one \o s)[i] = one[i]
      /\ \A i \in 1..Len(s) : (one \o s)[Len(one) + i] = s[i]
      /\ Range(one \o s) = Range(one) \cup Range(s)
  BY ConcatTwo
<1>3. Range(one) = {one[1]}
  <2>1. 1..Len(one) = {1}
    OBVIOUS
  <2> QED BY <2>1, RangeOf
<1>4. \A i \in 1..Len(s) : i + 1 = Len(one) + i
  OBVIOUS
<1>5. Len(one \o s) = Len(s) + 1 /\ (one \o s)[1] = one[1]
  BY <1>1, <1>2
<1>6. \A i \in 1..Len(s) : (one \o s)[i + 1] = s[i]
  BY <1>2, <1>4
<1> QED BY <1>2, <1>3, <1>5, <1>6

\* A sequence with one more in front.
LEMMA InFront ==
  ASSUME NEW S, NEW s \in Seq(S), NEW e \in S
  PROVE  /\ <<e>> \o s \in Seq(S)
         /\ Len(<<e>> \o s) = Len(s) + 1
         /\ (<<e>> \o s)[1] = e
         /\ \A i \in 1..Len(s) : (<<e>> \o s)[i + 1] = s[i]
         /\ Range(<<e>> \o s) = Range(s) \cup {e}
<1>1. \E one : one = <<e>>
  OBVIOUS
<1>2. PICK one : one = <<e>>
  BY <1>1
<1>3. one \in Seq(S) /\ Len(one) = 1 /\ one[1] = e
  BY <1>2
<1>4. one \o s \in Seq(S) /\ Len(one \o s) = Len(s) + 1 /\ (one \o s)[1] = one[1]
  BY <1>3, OneInFront
<1>5. \A i \in 1..Len(s) : (one \o s)[i + 1] = s[i]
  BY <1>3, OneInFront
<1>6. Range(one \o s) = Range(s) \cup {one[1]}
  BY <1>3, OneInFront
<1>7. /\ <<e>> \o s \in Seq(S) /\ Len(<<e>> \o s) = Len(s) + 1 /\ (<<e>> \o s)[1] = e
      /\ Range(<<e>> \o s) = Range(s) \cup {e}
  BY <1>2, <1>3, <1>4, <1>6, Zenon
<1>8. \A i \in 1..Len(s) : (<<e>> \o s)[i + 1] = s[i]
  BY <1>2, <1>5, Zenon
<1> QED BY <1>7, <1>8

\* What FlattenSeq is defined by: the first n sequences, one behind the other.
Flattens(ss, m, g) ==
  g = [n \in 1..m |-> IF n = 1 THEN ss[n] ELSE g[n - 1] \o ss[n]]

\* The function FlattenSeq chooses exists.
LEMMA FlattensSomehow ==
  ASSUME NEW m \in Nat, NEW ss
  PROVE  \E g : Flattens(ss, m, g)
<1> DEFINE Q == {n \in 0..m : ~ \E g : Flattens(ss, n, g)}
<1> SUFFICES ASSUME Q # {} PROVE FALSE
  <2>1. m \in 0..m
    OBVIOUS
  <2> QED BY <2>1
<1>1. PICK n \in Q : n - 1 \notin Q
  <2>1. Q \subseteq 0..m
    OBVIOUS
  <2> HIDE DEF Q
  <2> QED BY <2>1, LeastOf
<1>2. n \in 0..m /\ ~ \E g : Flattens(ss, n, g)
  OBVIOUS
<1>3. CASE n = 0
  <2> DEFINE g == [i \in 1..0 |-> <<>>]
  <2>1. \A i \in 1..0 : FALSE
    OBVIOUS
  <2>2. g = [i \in 1..0 |-> IF i = 1 THEN ss[i] ELSE g[i - 1] \o ss[i]]
    BY <2>1
  <2> HIDE DEF g
  <2>3. Flattens(ss, 0, g)
    BY <2>2 DEF Flattens
  <2> QED BY <2>3, <1>2, <1>3
<1>4. CASE n # 0
  <2>1. n - 1 \in 0..m /\ n - 1 \notin Q
    BY <1>1, <1>2, <1>4
  <2>2. PICK g : Flattens(ss, n - 1, g)
    BY <2>1
  <2> DEFINE h == [i \in 1..n |-> IF i < n THEN g[i]
                                  ELSE IF i = 1 THEN ss[i] ELSE g[n - 1] \o ss[i]]
  <2>3. \A i \in 1..(n - 1) : g[i] = IF i = 1 THEN ss[i] ELSE g[i - 1] \o ss[i]
    BY <2>2 DEF Flattens
  <2>4. \A i \in 1..n : h[i] = IF i = 1 THEN ss[i] ELSE h[i - 1] \o ss[i]
    <3>1. ASSUME NEW i \in 1..n, i < n
          PROVE  h[i] = IF i = 1 THEN ss[i] ELSE h[i - 1] \o ss[i]
      <4>1. i \in 1..(n - 1) /\ h[i] = g[i] /\ (i # 1 => i - 1 \in 1..n /\ i - 1 < n)
        BY <1>2, <3>1
      <4>2. i # 1 => h[i - 1] = g[i - 1]
        BY <4>1
      <4> HIDE DEF h
      <4> QED BY <4>1, <4>2, <2>3
    <3>2. h[n] = IF n = 1 THEN ss[n] ELSE h[n - 1] \o ss[n]
      <4>1. n \in 1..n /\ ~ (n < n) /\ (n # 1 => n - 1 \in 1..n /\ n - 1 < n)
        BY <1>2, <1>4
      <4>2. h[n] = IF n = 1 THEN ss[n] ELSE g[n - 1] \o ss[n]
        BY <4>1
      <4>3. n # 1 => h[n - 1] = g[n - 1]
        BY <4>1
      <4> HIDE DEF h
      <4> QED BY <4>2, <4>3
    <3>3. \A i \in 1..n : i < n \/ i = n
      BY <1>2
    <3> HIDE DEF h
    <3> QED BY <3>1, <3>2, <3>3
  <2>5. h = [i \in 1..n |-> h[i]]
    OBVIOUS
  <2> HIDE DEF h
  <2>6. Flattens(ss, n, h)
    BY <2>4, <2>5 DEF Flattens
  <2> QED BY <2>6, <1>2
<1> QED BY <1>3, <1>4

\* What is in the sequences, and nothing else, is in FlattenSeq of them.
LEMMA FlattenFacts ==
  ASSUME NEW S, NEW ss \in Seq(Seq(S))
  PROVE  /\ FlattenSeq(ss) \in Seq(S)
         /\ Range(FlattenSeq(ss)) = UNION {Range(ss[i]) : i \in 1..Len(ss)}
<1>1. Len(ss) \in Nat /\ DOMAIN ss = 1..Len(ss) /\ \A i \in 1..Len(ss) : ss[i] \in Seq(S)
  BY LenProperties, ElementOfSeq
<1>2. CASE Len(ss) = 0
  <2>1. ss = <<>> /\ FlattenSeq(ss) = <<>>
    BY <1>2, EmptySeq DEF FlattenSeq
  <2>2. 1..Len(ss) = {}
    BY <1>2
  <2>3. <<>> \in Seq(S)
    OBVIOUS
  <2>4. Range(<<>>) = {}
    BY <2>3, RangeOf
  <2> QED BY <2>1, <2>2, <2>3, <2>4
<1>3. CASE Len(ss) # 0
  <2> DEFINE m == Len(ss)
             g == CHOOSE h : Flattens(ss, m, h)
  <2>1. FlattenSeq(ss) = g[m]
    BY <1>3 DEF FlattenSeq, Flattens
  <2>2. Flattens(ss, m, g)
    BY <1>1, FlattensSomehow
  <2> HIDE DEF g
  <2>3. \A i \in 1..m : g[i] = IF i = 1 THEN ss[i] ELSE g[i - 1] \o ss[i]
    BY <2>2 DEF Flattens
  <2> DEFINE Good(i) == /\ g[i] \in Seq(S)
                       /\ Range(g[i]) = UNION {Range(ss[j]) : j \in 1..i}
             Q == {i \in 1..m : ~ Good(i)}
  <2>4. Q = {}
    <3> SUFFICES ASSUME Q # {} PROVE FALSE
      OBVIOUS
    <3>1. PICK n \in Q : n - 1 \notin Q
      <4>1. Q \subseteq 0..m
        BY <1>1
      <4> HIDE DEF Q
      <4> QED BY <4>1, <1>1, LeastOf
    <3>2. n \in 1..m /\ ~ Good(n)
      OBVIOUS
    <3>3. CASE n = 1
      <4>1. g[1] = ss[1] /\ ss[1] \in Seq(S)
        BY <2>3, <3>2, <3>3, <1>1
      <4>2. 1..1 = {1}
        OBVIOUS
      <4>3. UNION {Range(ss[j]) : j \in 1..1} = Range(ss[1])
        BY <4>2
      <4> QED BY <4>1, <4>3, <3>2, <3>3
    <3>4. CASE n # 1
      <4>1. n - 1 \in 1..m
        BY <3>2, <3>4, <1>1
      <4>2. Good(n - 1)
        BY <3>1, <4>1
      <4>3. g[n] = g[n - 1] \o ss[n] /\ ss[n] \in Seq(S)
        BY <2>3, <3>2, <3>4, <1>1
      <4>4. g[n] \in Seq(S) /\ Range(g[n]) = Range(g[n - 1]) \cup Range(ss[n])
        BY <4>2, <4>3, ConcatTwo
      <4>5. 1..n = 1..(n - 1) \cup {n}
        BY <3>2
      <4>6. UNION {Range(ss[j]) : j \in 1..n} = (UNION {Range(ss[j]) : j \in 1..(n - 1)}) \cup Range(ss[n])
        BY <4>5
      <4> QED BY <4>2, <4>4, <4>6, <3>2
    <3> QED BY <3>3, <3>4
  <2>5. m \in 1..m
    BY <1>1, <1>3
  <2>6. Good(m)
    BY <2>4, <2>5
  <2> QED BY <2>1, <2>6
<1> QED BY <1>2, <1>3

-----------------------------------------------------------------------------
(* FoldWith *)

\* What FoldWith is defined by: what there is after n turns of the loop.
Turns(step, start, s, m, g) ==
  g = [n \in 0..m |-> IF n = 0 THEN start ELSE step[s[n]][g[n - 1]]]

\* Up to m there is no other.
LEMMA TurnsOnce ==
  ASSUME NEW m \in Nat, NEW k \in m..m + 1, NEW step, NEW start, NEW s, NEW t,
         \A i \in 1..m : s[i] = t[i],
         NEW g, NEW h, Turns(step, start, s, m, g), Turns(step, start, t, k, h)
  PROVE  \A n \in 0..m : g[n] = h[n]
<1> DEFINE Q == {n \in 0..m : g[n] # h[n]}
<1> SUFFICES ASSUME Q # {} PROVE FALSE
  OBVIOUS
<1>1. PICK n \in Q : n - 1 \notin Q
  <2>1. Q \subseteq 0..m
    OBVIOUS
  <2> HIDE DEF Q
  <2> QED BY <2>1, LeastOf
<1>2. n \in 0..m /\ n \in 0..k /\ g[n] # h[n]
  OBVIOUS
<1>3. g[n] = IF n = 0 THEN start ELSE step[s[n]][g[n - 1]]
  BY <1>2 DEF Turns
<1>4. h[n] = IF n = 0 THEN start ELSE step[t[n]][h[n - 1]]
  BY <1>2 DEF Turns
<1>5. n # 0
  BY <1>2, <1>3, <1>4
<1>6. n - 1 \in 0..m /\ n \in 1..m
  BY <1>2, <1>5
<1>7. g[n - 1] = h[n - 1] /\ s[n] = t[n]
  BY <1>1, <1>6
<1> QED BY <1>2, <1>3, <1>4, <1>5, <1>7

\* The loop has something after m turns, whatever its step.
LEMMA TurnsSomehow ==
  ASSUME NEW m \in Nat, NEW step, NEW start, NEW s
  PROVE  \E g : Turns(step, start, s, m, g)
<1> DEFINE Q == {n \in 0..m : ~ \E g : Turns(step, start, s, n, g)}
<1> SUFFICES ASSUME Q # {} PROVE FALSE
  <2>1. m \in 0..m
    OBVIOUS
  <2> QED BY <2>1
<1>1. PICK n \in Q : n - 1 \notin Q
  <2>1. Q \subseteq 0..m
    OBVIOUS
  <2> HIDE DEF Q
  <2> QED BY <2>1, LeastOf
<1>2. n \in 0..m /\ ~ \E g : Turns(step, start, s, n, g)
  OBVIOUS
<1>3. CASE n = 0
  <2> DEFINE g == [i \in 0..0 |-> start]
  <2>1. \A i \in 0..0 : i = 0
    OBVIOUS
  <2>2. Turns(step, start, s, 0, g)
    BY <2>1 DEF Turns
  <2> QED BY <2>2, <1>2, <1>3
<1>4. CASE n # 0
  <2>1. n - 1 \in 0..m /\ n - 1 \notin Q
    BY <1>1, <1>2, <1>4
  <2>2. PICK g : Turns(step, start, s, n - 1, g)
    BY <2>1
  <2> DEFINE h == [i \in 0..n |-> IF i < n THEN g[i] ELSE step[s[n]][g[n - 1]]]
  <2>3. \A i \in 0..(n - 1) : g[i] = IF i = 0 THEN start ELSE step[s[i]][g[i - 1]]
    BY <2>2 DEF Turns
  <2>4. \A i \in 0..n : h[i] = IF i = 0 THEN start ELSE step[s[i]][h[i - 1]]
    <3>1. ASSUME NEW i \in 0..n, i < n
          PROVE  h[i] = IF i = 0 THEN start ELSE step[s[i]][h[i - 1]]
      <4>1. i \in 0..(n - 1) /\ h[i] = g[i] /\ (i # 0 => i - 1 \in 0..n /\ i - 1 < n)
        BY <1>2, <3>1
      <4>2. i # 0 => h[i - 1] = g[i - 1]
        BY <4>1
      <4> HIDE DEF h
      <4> QED BY <4>1, <4>2, <2>3
    <3>2. h[n] = step[s[n]][h[n - 1]]
      <4>1. n \in 0..n /\ ~ (n < n) /\ n - 1 \in 0..n /\ n - 1 < n
        BY <1>2, <1>4
      <4> QED BY <4>1
    <3>3. \A i \in 0..n : i < n \/ i = n
      BY <1>2
    <3> HIDE DEF h
    <3> QED BY <3>1, <3>2, <3>3, <1>4
  <2>5. h = [i \in 0..n |-> h[i]]
    OBVIOUS
  <2> HIDE DEF h
  <2>6. Turns(step, start, s, n, h)
    BY <2>4, <2>5 DEF Turns
  <2> QED BY <2>6, <1>2
<1> QED BY <1>3, <1>4

\* The function FoldWith chooses exists.
LEMMA FoldIs ==
  ASSUME NEW S, NEW s \in Seq(S), NEW step, NEW start
  PROVE  \E g : Turns(step, start, s, Len(s), g) /\ FoldWith(step, start, s) = g[Len(s)]
<1>1. FoldWith(step, start, s) = (CHOOSE g : Turns(step, start, s, Len(s), g))[Len(s)]
  BY DEF FoldWith, Turns
<1>2. Len(s) \in Nat
  BY LenProperties
<1>3. Turns(step, start, s, Len(s), CHOOSE g : Turns(step, start, s, Len(s), g))
  BY <1>2, TurnsSomehow
<1> QED BY <1>1, <1>3

\* A loop over nothing, and one turn more.
LEMMA FoldEmpty == \A step, start : FoldWith(step, start, <<>>) = start
<1> SUFFICES ASSUME NEW step, NEW start PROVE FoldWith(step, start, <<>>) = start
  OBVIOUS
<1>1. <<>> \in Seq({}) /\ Len(<<>>) = 0
  BY EmptySeq
<1>2. PICK g : Turns(step, start, <<>>, 0, g) /\ FoldWith(step, start, <<>>) = g[0]
  BY <1>1, FoldIs
<1>3. 0 \in 0..0
  OBVIOUS
<1> QED BY <1>2, <1>3 DEF Turns

LEMMA FoldAppend ==
  ASSUME NEW S, NEW s \in Seq(S), NEW e \in S, NEW step, NEW start
  PROVE  FoldWith(step, start, Append(s, e)) = step[e][FoldWith(step, start, s)]
<1> DEFINE a == Append(s, e)
           m == Len(s)
<1>1. /\ a \in Seq(S) /\ Len(a) = m + 1 /\ m \in Nat
      /\ \A i \in 1..m : s[i] = a[i]
      /\ a[m + 1] = e
  BY AppendProperties, LenProperties
<1>2. PICK g : Turns(step, start, s, m, g) /\ FoldWith(step, start, s) = g[m]
  BY FoldIs
<1> HIDE DEF a
<1>3. PICK h : Turns(step, start, a, Len(a), h) /\ FoldWith(step, start, a) = h[Len(a)]
  BY <1>1, FoldIs
<1> HIDE DEF m
<1>4. m + 1 \in m..m + 1
  BY <1>1
<1>5. \A n \in 0..m : g[n] = h[n]
  BY <1>1, <1>2, <1>3, <1>4, TurnsOnce
<1>6. m \in 0..m /\ m + 1 \in 0..(m + 1) /\ m + 1 # 0 /\ (m + 1) - 1 = m
  BY <1>1
<1>7. h[m + 1] = step[a[m + 1]][h[m]]
  BY <1>1, <1>3, <1>6 DEF Turns
<1> QED BY <1>1, <1>2, <1>3, <1>5, <1>6, <1>7 DEF a

\* What holds at first, and after every turn if before it, holds at the end.
LEMMA LoopRule ==
  ASSUME NEW S, NEW s \in Seq(S), NEW step, NEW start, NEW I,
         start \in I[0],
         \A n \in 1..Len(s) : \A a \in I[n - 1] : step[s[n]][a] \in I[n]
  PROVE  FoldWith(step, start, s) \in I[Len(s)]
<1>1. Len(s) \in Nat
  BY LenProperties
<1>2. PICK g : Turns(step, start, s, Len(s), g) /\ FoldWith(step, start, s) = g[Len(s)]
  BY FoldIs
<1> DEFINE Q == {n \in 0..Len(s) : g[n] \notin I[n]}
<1> SUFFICES ASSUME Q # {} PROVE FALSE
  <2>1. Len(s) \in 0..Len(s)
    BY <1>1
  <2> QED BY <1>2, <2>1
<1>3. PICK n \in Q : n - 1 \notin Q
  <2>1. Q \subseteq 0..Len(s)
    OBVIOUS
  <2> HIDE DEF Q
  <2> QED BY <1>1, <2>1, LeastOf
<1>4. n \in 0..Len(s) /\ g[n] \notin I[n]
  OBVIOUS
<1>5. g[n] = IF n = 0 THEN start ELSE step[s[n]][g[n - 1]]
  BY <1>2, <1>4 DEF Turns
<1>6. n # 0
  BY <1>4, <1>5
<1>7. n - 1 \in 0..Len(s) /\ n \in 1..Len(s)
  BY <1>1, <1>4, <1>6
<1>8. g[n - 1] \in I[n - 1]
  BY <1>3, <1>7
<1> QED BY <1>4, <1>5, <1>6, <1>7, <1>8

\* The total of numbers: none, one more, and a number.
LEMMA TotalFacts ==
  /\ Total(<<>>) = 0
  /\ \A s \in Seq(Nat) : Total(s) \in Nat
  /\ \A s \in Seq(Nat), n \in Nat : Total(Append(s, n)) = Total(s) + n
<1> DEFINE step == [n \in Nat |-> [sum \in Nat |-> sum + n]]
<1>1. \A a, b \in Nat : step[b][a] = a + b
  OBVIOUS
<1>2. Total(<<>>) = 0
  BY FoldEmpty DEF Total
<1>3. ASSUME NEW s \in Seq(Nat) PROVE Total(s) \in Nat
  <2> DEFINE I == [n \in 0..Len(s) |-> Nat]
  <2>1. Len(s) \in Nat /\ \A n \in 1..Len(s) : s[n] \in Nat
    BY LenProperties, ElementOfSeq
  <2>2. 0 \in I[0] /\ Len(s) \in 0..Len(s)
    BY <2>1
  <2>3. ASSUME NEW n \in 1..Len(s), NEW a \in I[n - 1] PROVE step[s[n]][a] \in I[n]
    <3>1. n \in 0..Len(s) /\ n - 1 \in 0..Len(s)
      BY <2>1
    <3>2. a \in Nat /\ I[n] = Nat
      BY <3>1
    <3>3. s[n] \in Nat
      BY <2>1
    <3> HIDE DEF step, I
    <3>4. step[s[n]][a] = a + s[n]
      BY <3>2, <3>3, <1>1
    <3> QED BY <3>2, <3>3, <3>4
  <2> HIDE DEF step, I
  <2>4. FoldWith(step, 0, s) \in I[Len(s)]
    BY <2>2, <2>3, LoopRule
  <2> QED BY <2>2, <2>4 DEF Total, I, step
<1>4. ASSUME NEW s \in Seq(Nat), NEW n \in Nat PROVE Total(Append(s, n)) = Total(s) + n
  <2> HIDE DEF step
  <2>1. FoldWith(step, 0, Append(s, n)) = step[n][FoldWith(step, 0, s)]
    BY FoldAppend
  <2>2. Total(s) = FoldWith(step, 0, s) /\ Total(Append(s, n)) = FoldWith(step, 0, Append(s, n))
    BY DEF Total, step
  <2> QED BY <2>1, <2>2, <1>1, <1>3
<1> QED BY <1>2, <1>3, <1>4

\* The total of the first m numbers.
Upto(numbers, m) == Total(SubSeq(numbers, 1, m))

LEMMA UptoFacts ==
  ASSUME NEW s \in Seq(Nat)
  PROVE  /\ Upto(s, 0) = 0 /\ Upto(s, Len(s)) = Total(s)
         /\ \A m \in 0..Len(s) : Upto(s, m) \in Nat /\ Upto(s, m) <= Total(s)
         /\ \A m \in 1..Len(s) : Upto(s, m) = Upto(s, m - 1) + s[m]
<1>1. Len(s) \in Nat /\ 0 \in 0..Len(s) /\ Len(s) \in 0..Len(s) /\ \A m \in 1..Len(s) : s[m] \in Nat
  BY LenProperties, ElementOfSeq
<1>2. \A m \in 0..Len(s) : /\ SubSeq(s, 1, m) \in Seq(Nat) /\ Len(SubSeq(s, 1, m)) = m
                           /\ \A i \in 1..m : SubSeq(s, 1, m)[i] = s[i]
  BY FirstPart
<1>3. \A m \in 0..Len(s) : Upto(s, m) \in Nat
  BY <1>2, TotalFacts DEF Upto
<1>4. Upto(s, 0) = 0
  <2>1. SubSeq(s, 1, 0) = <<>>
    BY <1>1, <1>2, LenZero
  <2> QED BY <2>1, TotalFacts DEF Upto
<1>5. Upto(s, Len(s)) = Total(s)
  <2>1. SubSeq(s, 1, Len(s)) = s
    BY <1>1, <1>2, SeqEqual
  <2> QED BY <2>1 DEF Upto
<1>6. ASSUME NEW m \in 1..Len(s) PROVE Upto(s, m) = Upto(s, m - 1) + s[m]
  <2> DEFINE p == SubSeq(s, 1, m - 1)
             q == SubSeq(s, 1, m)
             a == Append(p, s[m])
  <2>1. m \in 0..Len(s) /\ m - 1 \in 0..Len(s) /\ s[m] \in Nat /\ (m - 1) + 1 = m
    BY <1>1
  <2>2. p \in Seq(Nat) /\ Len(p) = m - 1 /\ \A i \in 1..(m - 1) : p[i] = s[i]
    BY <2>1, <1>2
  <2>3. q \in Seq(Nat) /\ Len(q) = m /\ \A i \in 1..m : q[i] = s[i]
    BY <2>1, <1>2
  <2> HIDE DEF p, q
  <2>4. /\ a \in Seq(Nat) /\ Len(a) = Len(p) + 1
        /\ \A i \in 1..Len(p) : a[i] = p[i]
        /\ a[Len(p) + 1] = s[m]
    BY <2>1, <2>2, AppendProperties
  <2>5. Total(a) = Total(p) + s[m]
    BY <2>1, <2>2, TotalFacts
  <2> HIDE DEF a
  <2>6. \A i \in 1..m : i \in 1..(m - 1) \/ i = m
    OBVIOUS
  <2>7. q = a
    BY <2>1, <2>2, <2>3, <2>4, <2>6, SeqEqual
  <2> QED BY <2>5, <2>7 DEF Upto, p, q
<1>7. \A m \in 0..Len(s) : Upto(s, m) <= Total(s)
  <2> DEFINE Q == {n \in 0..Len(s) : ~ (Upto(s, Len(s) - n) <= Total(s))}
  <2>1. Q = {}
    <3> SUFFICES ASSUME Q # {} PROVE FALSE
      OBVIOUS
    <3>1. PICK n \in Q : n - 1 \notin Q
      <4>1. Q \subseteq 0..Len(s)
        OBVIOUS
      <4> HIDE DEF Q
      <4> QED BY <4>1, <1>1, LeastOf
    <3>2. n \in 0..Len(s) /\ ~ (Upto(s, Len(s) - n) <= Total(s))
      OBVIOUS
    <3>3. Total(s) \in Nat
      BY TotalFacts
    <3>4. n # 0
      <4>1. Len(s) - 0 = Len(s)
        BY <1>1
      <4> QED BY <4>1, <3>2, <3>3, <1>5
    <3> DEFINE m == Len(s) - (n - 1)
    <3>5. n - 1 \in 0..Len(s) /\ m \in 1..Len(s) /\ m - 1 = Len(s) - n /\ m \in 0..Len(s)
          /\ m - 1 \in 0..Len(s)
      BY <1>1, <3>2, <3>4
    <3>6. Upto(s, m) <= Total(s)
      BY <3>1, <3>5
    <3> HIDE DEF m
    <3>7. Upto(s, m) = Upto(s, m - 1) + s[m]
      BY <3>5, <1>6
    <3>8. Upto(s, m) \in Nat /\ Upto(s, m - 1) \in Nat /\ s[m] \in Nat
      BY <3>5, <1>1, <1>3
    <3>9. Upto(s, m - 1) <= Total(s)
      BY <3>3, <3>6, <3>7, <3>8
    <3> QED BY <3>2, <3>5, <3>9
  <2>2. ASSUME NEW m \in 0..Len(s) PROVE Upto(s, m) <= Total(s)
    <3>1. Len(s) - m \in 0..Len(s) /\ Len(s) - (Len(s) - m) = m
      BY <1>1
    <3> QED BY <3>1, <2>1
  <2> QED BY <2>2
<1> QED BY <1>3, <1>4, <1>5, <1>6, <1>7
=============================================================================
