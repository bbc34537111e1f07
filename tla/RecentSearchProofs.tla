-------------------------- MODULE RecentSearchProofs --------------------------
(***************************************************************************)
(* Proofs about RecentSearch, for any searches, files, MaxCount and        *)
(* faults: the record has no gap, its list goes back in time, and the      *)
(* handlers implement RecentStore.                                         *)
(***************************************************************************)
EXTENDS RecentSearch, BasicLemmas

-----------------------------------------------------------------------------
(* The last elements of a sequence *)

\* The last n of a sequence: how many they are, and which.
LEMMA LastFacts ==
  ASSUME NEW S, NEW s \in Seq(S), NEW n \in Nat
  PROVE  /\ LastOf(s, n) \in Seq(S)
         /\ Len(LastOf(s, n)) = IF Len(s) <= n THEN Len(s) ELSE n
         /\ \A i \in 1..Len(LastOf(s, n)) : LastOf(s, n)[i] = s[Len(s) - Len(LastOf(s, n)) + i]
<1>1. Len(s) \in Nat
  BY LenProperties
<1>2. CASE Len(s) <= n
  <2>1. \A i \in 1..Len(s) : Len(s) - Len(s) + i = i
    BY <1>1
  <2> QED BY <1>2, <2>1 DEF LastOf
<1>3. CASE ~ (Len(s) <= n)
  <2> DEFINE m == Len(s) - n + 1
             r == SubSeq(s, m, Len(s))
  <2>1. m \in Int /\ Len(s) \in Int /\ \A i \in m..Len(s) : s[i] \in S
    <3>1. \A i \in m..Len(s) : i \in 1..Len(s)
      BY <1>1, <1>3
    <3> QED BY <3>1, <1>1, ElementOfSeq
  <2>2. /\ r \in Seq(S)
        /\ Len(r) = IF m <= Len(s) THEN Len(s) - m + 1 ELSE 0
        /\ \A i \in 1..(Len(s) - m + 1) : r[i] = s[m + i - 1]
    <3> HIDE DEF m
    <3> QED BY <2>1, SubSeqProperties
  <2>3. LastOf(s, n) = r
    BY <1>3 DEF LastOf
  <2> HIDE DEF r
  <2>4. Len(r) = n
    BY <2>2, <1>1, <1>3
  <2>5. ASSUME NEW i \in 1..n PROVE r[i] = s[Len(s) - n + i]
    <3>1. i \in 1..(Len(s) - m + 1) /\ m + i - 1 = Len(s) - n + i
      BY <1>1
    <3> HIDE DEF m
    <3> QED BY <3>1, <2>2
  <2> QED BY <1>3, <2>2, <2>3, <2>4, <2>5
<1> QED BY <1>2, <1>3

\* What it means to be the last part of a sequence.
LEMMA SuffixIs ==
  ASSUME NEW S, NEW s \in Seq(S), NEW t \in Seq(S)
  PROVE  s = LastOf(t, Len(s)) <=> /\ Len(s) <= Len(t)
                                   /\ \A i \in 1..Len(s) : s[i] = t[Len(t) - Len(s) + i]
<1> DEFINE r == LastOf(t, Len(s))
<1>1. Len(s) \in Nat /\ Len(t) \in Nat
  BY LenProperties
<1>2. /\ r \in Seq(S)
      /\ Len(r) = IF Len(t) <= Len(s) THEN Len(t) ELSE Len(s)
      /\ \A i \in 1..Len(r) : r[i] = t[Len(t) - Len(r) + i]
  BY <1>1, LastFacts
<1> HIDE DEF r
<1>3. ASSUME s = r PROVE Len(s) <= Len(t) /\ \A i \in 1..Len(s) : s[i] = t[Len(t) - Len(s) + i]
  <2>1. Len(s) <= Len(t)
    BY <1>1, <1>2, <1>3
  <2>2. \A i \in 1..Len(s) : r[i] = t[Len(t) - Len(s) + i]
    BY <1>2, <1>3
  <2> QED BY <2>1, <2>2, <1>3
<1>4. ASSUME Len(s) <= Len(t), \A i \in 1..Len(s) : s[i] = t[Len(t) - Len(s) + i] PROVE s = r
  <2>1. Len(r) = Len(s)
    BY <1>1, <1>2, <1>4
  <2>2. \A i \in 1..Len(s) : s[i] = r[i]
    BY <2>1, <1>2, <1>4
  <2> QED BY <2>1, <2>2, <1>2, SeqEqual
<1> QED BY <1>3, <1>4 DEF r

\* The last part of a last part.
LEMMA SuffixTrans ==
  ASSUME NEW S, NEW s \in Seq(S), NEW t \in Seq(S), NEW n \in Nat, s = LastOf(t, Len(s))
  PROVE  LastOf(s, n) = LastOf(t, Len(LastOf(s, n)))
<1> DEFINE r == LastOf(s, n)
<1>1. /\ r \in Seq(S)
      /\ Len(r) = IF Len(s) <= n THEN Len(s) ELSE n
      /\ \A i \in 1..Len(r) : r[i] = s[Len(s) - Len(r) + i]
  BY LastFacts
<1> HIDE DEF r
<1>2. Len(s) \in Nat /\ Len(t) \in Nat /\ Len(r) \in Nat
  BY <1>1, LenProperties
<1>3. Len(s) <= Len(t) /\ \A i \in 1..Len(s) : s[i] = t[Len(t) - Len(s) + i]
  BY SuffixIs
<1>4. ASSUME NEW i \in 1..Len(r) PROVE r[i] = t[Len(t) - Len(r) + i]
  <2>1. Len(s) - Len(r) + i \in 1..Len(s)
    BY <1>1, <1>2
  <2>2. Len(t) - Len(s) + (Len(s) - Len(r) + i) = Len(t) - Len(r) + i
    BY <1>2
  <2>3. s[Len(s) - Len(r) + i] = t[Len(t) - Len(s) + (Len(s) - Len(r) + i)]
    BY <2>1, <1>3
  <2> QED BY <2>2, <2>3, <1>1
<1>5. Len(r) <= Len(t)
  BY <1>1, <1>2, <1>3
<1>6. r = LastOf(t, Len(r))
  BY <1>1, <1>4, <1>5, SuffixIs
<1> QED BY <1>6 DEF r

\* A new last element makes a last part of a last part.
LEMMA SuffixAppend ==
  ASSUME NEW S, NEW s \in Seq(S), NEW t \in Seq(S), NEW e \in S, s = LastOf(t, Len(s))
  PROVE  Append(s, e) = LastOf(Append(t, e), Len(Append(s, e)))
<1> DEFINE a == Append(s, e)
           b == Append(t, e)
<1>1. /\ a \in Seq(S) /\ Len(a) = Len(s) + 1 /\ Len(s) \in Nat
      /\ \A i \in 1..Len(s) : a[i] = s[i]
      /\ a[Len(s) + 1] = e
  BY AppendProperties, LenProperties
<1>2. /\ b \in Seq(S) /\ Len(b) = Len(t) + 1 /\ Len(t) \in Nat
      /\ \A i \in 1..Len(t) : b[i] = t[i]
      /\ b[Len(t) + 1] = e
  BY AppendProperties, LenProperties
<1> HIDE DEF a, b
<1>3. Len(s) <= Len(t) /\ \A i \in 1..Len(s) : s[i] = t[Len(t) - Len(s) + i]
  BY SuffixIs
<1>4. ASSUME NEW i \in 1..Len(a) PROVE a[i] = b[Len(b) - Len(a) + i]
  <2>1. Len(b) - Len(a) + i = Len(t) - Len(s) + i
    BY <1>1, <1>2
  <2>2. CASE i = Len(s) + 1
    <3>1. Len(t) - Len(s) + i = Len(t) + 1
      BY <2>2, <1>1, <1>2
    <3> QED BY <2>1, <2>2, <3>1, <1>1, <1>2
  <2>3. CASE i # Len(s) + 1
    <3>1. i \in 1..Len(s) /\ Len(t) - Len(s) + i \in 1..Len(t)
      BY <2>3, <1>1, <1>2, <1>3
    <3> QED BY <2>1, <3>1, <1>1, <1>2, <1>3
  <2> QED BY <2>2, <2>3
<1>5. Len(a) <= Len(b)
  BY <1>1, <1>2, <1>3
<1>6. a = LastOf(b, Len(a))
  BY <1>1, <1>2, <1>4, <1>5, SuffixIs
<1> QED BY <1>6 DEF a, b

\* The last n elements with a new one are the new last n + 1.
LEMMA LastAppend ==
  ASSUME NEW S, NEW s \in Seq(S), NEW e \in S, NEW n \in Nat
  PROVE  LastOf(Append(s, e), n + 1) = Append(LastOf(s, n), e)
<1> DEFINE k == LastOf(s, n)
           a == Append(k, e)
           b == Append(s, e)
<1>1. k \in Seq(S) /\ Len(k) = IF Len(s) <= n THEN Len(s) ELSE n
  BY LastFacts
<1>2. Len(s) \in Nat /\ Len(k) \in Nat
  BY <1>1, LenProperties
<1>3. k = LastOf(s, Len(k))
  <2>1. s = LastOf(s, Len(s))
    BY <1>2 DEF LastOf
  <2> QED BY <2>1, SuffixTrans
<1> HIDE DEF k
<1>4. a = LastOf(b, Len(a)) /\ Len(a) = Len(k) + 1 /\ Len(b) = Len(s) + 1
  BY <1>1, <1>3, SuffixAppend, AppendProperties
<1>5. CASE Len(s) <= n
  <2>1. Len(b) <= Len(a) /\ Len(b) <= n + 1
    BY <1>1, <1>2, <1>4, <1>5
  <2>2. LastOf(b, Len(a)) = b /\ LastOf(b, n + 1) = b
    BY <2>1 DEF LastOf
  <2> QED BY <2>2, <1>4 DEF k
<1>6. CASE ~ (Len(s) <= n)
  <2>1. Len(a) = n + 1
    BY <1>1, <1>4, <1>6
  <2> QED BY <2>1, <1>4 DEF k
<1> QED BY <1>5, <1>6

\* A new last element pushes out the first of n + 1, if there are so many.
LEMMA LastOfLast ==
  ASSUME NEW S, NEW s \in Seq(S), NEW e \in S, NEW n \in Nat
  PROVE  LastOf(Append(LastOf(s, n + 1), e), n + 1) = Append(LastOf(s, n), e)
<1> DEFINE k == LastOf(s, n + 1)
<1>1. /\ k \in Seq(S) /\ Len(k) = IF Len(s) <= n + 1 THEN Len(s) ELSE n + 1
      /\ Len(s) \in Nat
  BY LastFacts, LenProperties
<1>2. LastOf(Append(k, e), n + 1) = Append(LastOf(k, n), e)
  BY <1>1, LastAppend
<1>3. s = LastOf(s, Len(s))
  BY <1>1 DEF LastOf
<1>4. k = LastOf(s, Len(k))
  BY <1>3, SuffixTrans
<1> HIDE DEF k
<1>5. LastOf(k, n) = LastOf(s, Len(LastOf(k, n)))
  BY <1>1, <1>4, SuffixTrans
<1>6. Len(LastOf(k, n)) = IF Len(k) <= n THEN Len(k) ELSE n
  BY <1>1, LastFacts
<1>7. LastOf(k, n) = LastOf(s, n)
  <2>1. CASE Len(s) <= n
    <3>1. Len(LastOf(k, n)) = Len(s)
      BY <2>1, <1>1, <1>6
    <3>2. LastOf(s, n) = s
      BY <2>1 DEF LastOf
    <3> QED BY <3>1, <3>2, <1>3, <1>5
  <2>2. CASE ~ (Len(s) <= n)
    <3>1. Len(LastOf(k, n)) = n
      BY <2>2, <1>1, <1>6
    <3> QED BY <3>1, <1>5
  <2> QED BY <2>1, <2>2
<1> QED BY <1>2, <1>7 DEF k

-----------------------------------------------------------------------------
(* Lines that go forward in time *)

\* They still do when some are left out.
LEMMA ForwardPart ==
  ASSUME NEW s \in Seq(Lines), NEW t \in Seq(Lines), NEW n, GoesForward(t, n),
         NEW at \in [1..Len(s) -> 1..Len(t)],
         \A i, j \in 1..Len(s) : i < j => at[i] < at[j],
         \A i \in 1..Len(s) : s[i] = t[at[i]]
  PROVE  GoesForward(s, n)
<1>1. DOMAIN s = 1..Len(s) /\ DOMAIN t = 1..Len(t)
  BY LenProperties
<1>2. ASSUME NEW i \in 1..Len(s), s[i] \in Entries
      PROVE  /\ s[i].at <= n
             /\ \A j \in 1..Len(s) : s[j] \in Entries /\ i < j => s[i].at < s[j].at
  <2>1. at[i] \in 1..Len(t) /\ s[i] = t[at[i]]
    OBVIOUS
  <2>2. s[i].at <= n
    BY <1>1, <1>2, <2>1 DEF GoesForward
  <2>3. ASSUME NEW j \in 1..Len(s), s[j] \in Entries, i < j PROVE s[i].at < s[j].at
    <3>1. at[j] \in 1..Len(t) /\ s[j] = t[at[j]] /\ at[i] < at[j]
      BY <2>3
    <3> QED BY <1>1, <1>2, <2>1, <2>3, <3>1 DEF GoesForward
  <2> QED BY <2>2, <2>3
<1> QED BY <1>1, <1>2 DEF GoesForward

\* What goes forward still does when some of it is left out,
LEMMA ForwardKeep ==
  ASSUME NEW s \in Seq(Lines), NEW T, NEW n, GoesForward(s, n)
  PROVE  GoesForward(Keep(s, T), n)
<1> DEFINE k == Keep(s, T)
<1>1. k \in Seq(Lines \cap T)
  BY KeepFacts
<1>2. k \in Seq(Lines)
  <2> HIDE DEF k
  <2> QED BY <1>1, SeqMonotonic
<1>3. PICK at : KeptAt(k, s, T, at)
  BY KeepFacts
<1> HIDE DEF k
<1>4. GoesForward(k, n)
  BY <1>2, <1>3, ForwardPart DEF KeptAt
<1> QED BY <1>4 DEF k

\* in its last part,
LEMMA ForwardLast ==
  ASSUME NEW s \in Seq(Lines), NEW m \in Nat, NEW n, GoesForward(s, n)
  PROVE  GoesForward(LastOf(s, m), n)
<1> DEFINE r == LastOf(s, m)
           at == [i \in 1..Len(r) |-> Len(s) - Len(r) + i]
<1>1. /\ r \in Seq(Lines) /\ Len(r) = IF Len(s) <= m THEN Len(s) ELSE m
      /\ \A i \in 1..Len(r) : r[i] = s[Len(s) - Len(r) + i]
  BY LastFacts
<1> HIDE DEF r
<1>2. Len(s) \in Nat /\ Len(r) \in Nat /\ Len(r) <= Len(s)
  BY <1>1, LenProperties
<1>3. at \in [1..Len(r) -> 1..Len(s)]
  BY <1>2
<1>4. \A i \in 1..Len(r) : at[i] = Len(s) - Len(r) + i
  OBVIOUS
<1> HIDE DEF at
<1>5. \A i, j \in 1..Len(r) : i < j => at[i] < at[j]
  BY <1>2, <1>4
<1>6. GoesForward(r, n)
  BY <1>1, <1>3, <1>4, <1>5, ForwardPart
<1> QED BY <1>6 DEF r

\* and in its first.
LEMMA ForwardFirst ==
  ASSUME NEW s \in Seq(Lines), NEW m \in 0..Len(s), NEW n, GoesForward(s, n)
  PROVE  GoesForward(SubSeq(s, 1, m), n)
<1> DEFINE r == SubSeq(s, 1, m)
           at == [i \in 1..m |-> i]
<1>1. r \in Seq(Lines) /\ Len(r) = m /\ \A i \in 1..m : r[i] = s[i]
  BY FirstPart
<1> HIDE DEF r
<1>2. Len(s) \in Nat /\ m \in Nat
  BY LenProperties
<1>3. at \in [1..m -> 1..Len(s)] /\ \A i \in 1..m : at[i] = i
  BY <1>2
<1> HIDE DEF at
<1>4. GoesForward(r, n)
  BY <1>1, <1>3, ForwardPart
<1> QED BY <1>4 DEF r

\* And when a line is added that is newer, or that is no entry.
LEMMA ForwardAppend ==
  ASSUME NEW s \in Seq(Lines), NEW e \in Lines, NEW n \in Int, NEW m \in Int,
         GoesForward(s, n), n <= m, e \in Entries => n < e.at /\ e.at <= m
  PROVE  GoesForward(Append(s, e), m)
<1> DEFINE a == Append(s, e)
<1>1. /\ a \in Seq(Lines) /\ Len(a) = Len(s) + 1 /\ Len(s) \in Nat /\ DOMAIN s = 1..Len(s)
      /\ \A i \in 1..Len(s) : a[i] = s[i]
      /\ a[Len(s) + 1] = e
  BY AppendProperties, LenProperties
<1> HIDE DEF a
<1>2. DOMAIN a = 1..(Len(s) + 1)
  BY <1>1, LenProperties
<1>3. \A x \in Entries : x.at \in Int
  BY DEF Entries
<1>4. ASSUME NEW i \in 1..(Len(s) + 1), a[i] \in Entries
      PROVE  /\ a[i].at <= m
             /\ \A j \in 1..(Len(s) + 1) : a[j] \in Entries /\ i < j => a[i].at < a[j].at
  <2>1. CASE i = Len(s) + 1
    BY <2>1, <1>1, <1>4
  <2>2. CASE i # Len(s) + 1
    <3>1. i \in 1..Len(s) /\ a[i] = s[i]
      BY <2>2, <1>1
    <3>2. a[i].at <= n /\ a[i].at <= m
      <4>1. a[i].at <= n /\ a[i].at \in Int
        BY <3>1, <1>1, <1>3, <1>4 DEF GoesForward
      <4> QED BY <4>1
    <3>3. ASSUME NEW j \in 1..(Len(s) + 1), a[j] \in Entries, i < j PROVE a[i].at < a[j].at
      <4>1. a[i].at \in Int /\ a[j].at \in Int
        BY <1>3, <1>4, <3>3
      <4>2. CASE j = Len(s) + 1
        <5>1. a[j] = e
          BY <4>2, <1>1
        <5> QED BY <5>1, <3>2, <3>3, <4>1
      <4>3. CASE j # Len(s) + 1
        <5>1. j \in 1..Len(s) /\ a[j] = s[j]
          BY <4>3, <1>1
        <5> QED BY <3>1, <3>3, <5>1, <1>1, <1>4 DEF GoesForward
      <4> QED BY <4>2, <4>3
    <3> QED BY <3>2, <3>3
  <2> QED BY <2>1, <2>2
<1>5. GoesForward(a, m)
  BY <1>2, <1>4 DEF GoesForward
<1> QED BY <1>5 DEF a

\* Later is no harm.
LEMMA ForwardLater ==
  ASSUME NEW s, NEW n \in Int, NEW m \in Int, n <= m, GoesForward(s, n)
  PROVE  GoesForward(s, m)
<1>1. ASSUME NEW i \in DOMAIN s, s[i] \in Entries PROVE s[i].at <= m
  <2>1. s[i].at \in Int /\ s[i].at <= n
    BY <1>1 DEF Entries, GoesForward
  <2> QED BY <2>1
<1> QED BY <1>1 DEF GoesForward

-----------------------------------------------------------------------------
(* What the handlers make of a file *)

\* The lines of a file are lines.
LEMMA FileLines ==
  ASSUME NEW f \in Files
  PROVE  /\ LinesOf(f) \in Seq(Lines)
         /\ Keep(LinesOf(f), NotBlank) \in Seq(NotBlank)
         /\ f # NoFile => f \in Seq(Lines)
<1>1. LinesOf(f) \in Seq(Lines) /\ (f # NoFile => f \in Seq(Lines))
  BY EmptySeq DEF Files, LinesOf
<1>2. Keep(LinesOf(f), NotBlank) \in Seq(Lines \cap NotBlank)
  BY <1>1, KeepFacts
<1>3. Lines \cap NotBlank = NotBlank
  BY DEF NotBlank
<1> QED BY <1>1, <1>2, <1>3

\* The lines server_recent_add keeps, MaxCount - 1 of them at most.
LEMMA KeptFacts ==
  ASSUME NEW f \in Files, NEW n, GoesForward(LinesOf(f), n)
  PROVE  /\ Kept(f) \in Seq(NotBlank) /\ Len(Kept(f)) < MaxCount
         /\ GoesForward(Kept(f), n)
<1> DEFINE k == Keep(LinesOf(f), NotBlank)
<1>1. k \in Seq(NotBlank) /\ GoesForward(k, n)
  BY FileLines, ForwardKeep
<1> HIDE DEF k
<1>2. MaxCount - 1 \in Nat /\ MaxCount \in Nat
  BY RecentAssumption
<1>3. NotBlank \subseteq Lines
  BY DEF NotBlank
<1>4. k \in Seq(Lines)
  BY <1>1, <1>3, SeqMonotonic
<1>5. /\ LastOf(k, MaxCount - 1) \in Seq(NotBlank)
      /\ Len(LastOf(k, MaxCount - 1)) = IF Len(k) <= MaxCount - 1 THEN Len(k) ELSE MaxCount - 1
      /\ GoesForward(LastOf(k, MaxCount - 1), n)
  BY <1>1, <1>2, <1>4, LastFacts, ForwardLast
<1>6. Len(k) \in Nat
  BY <1>1, LenProperties
<1>7. Len(LastOf(k, MaxCount - 1)) < MaxCount
  BY <1>2, <1>5, <1>6
<1>8. Kept(f) = LastOf(k, MaxCount - 1)
  BY DEF Kept, k
<1> QED BY <1>5, <1>7, <1>8

\* The list: entries only, MaxCount of them at most, newest first.
LEMMA ListFacts ==
  ASSUME NEW f \in Files, NEW n, GoesForward(LinesOf(f), n)
  PROVE  /\ ListOf(f) \in Seq(Entries) /\ Len(ListOf(f)) <= MaxCount
         /\ \A i, j \in 1..Len(ListOf(f)) : i < j => ListOf(f)[i].at > ListOf(f)[j].at
<1> DEFINE k == Keep(LinesOf(f), Entries)
           r == LastOf(k, MaxCount)
           v == ListOf(f)
<1>1. k \in Seq(Entries) /\ k \in Seq(Lines) /\ GoesForward(k, n)
  <2>1. k \in Seq(Lines \cap Entries)
    BY FileLines, KeepFacts
  <2>2. Lines \cap Entries = Entries /\ Entries \subseteq Lines
    BY DEF Lines
  <2>3. GoesForward(k, n)
    BY FileLines, ForwardKeep
  <2> HIDE DEF k
  <2> QED BY <2>1, <2>2, <2>3, SeqMonotonic
<1> HIDE DEF k
<1>2. MaxCount \in Nat /\ Len(k) \in Nat
  BY <1>1, RecentAssumption, LenProperties
<1>3. /\ r \in Seq(Entries) /\ Len(r) = IF Len(k) <= MaxCount THEN Len(k) ELSE MaxCount
      /\ GoesForward(r, n)
  BY <1>1, <1>2, LastFacts, ForwardLast
<1>4. v = [i \in 1..Len(r) |-> r[Len(r) - i + 1]]
  BY DEF ListOf, Reverse, k
<1> HIDE DEF r, v
<1>5. Len(r) \in Nat /\ DOMAIN r = 1..Len(r) /\ Len(r) <= MaxCount
  BY <1>2, <1>3, LenProperties
<1>6. ASSUME NEW i \in 1..Len(r)
      PROVE  Len(r) - i + 1 \in 1..Len(r) /\ v[i] = r[Len(r) - i + 1] /\ v[i] \in Entries
  <2>1. Len(r) - i + 1 \in 1..Len(r) /\ v[i] = r[Len(r) - i + 1]
    BY <1>4, <1>5
  <2> QED BY <2>1, <1>3, ElementOfSeq
<1>7. v \in Seq(Entries) /\ Len(v) = Len(r)
  <2>1. v \in [1..Len(r) -> Entries]
    BY <1>4, <1>6
  <2>2. v \in Seq(Entries)
    BY <1>5, <2>1
  <2>3. DOMAIN v = 1..Len(r)
    BY <2>1
  <2> QED BY <1>5, <2>2, <2>3, LenProperties
<1>8. ASSUME NEW i \in 1..Len(r), NEW j \in 1..Len(r), i < j PROVE v[i].at > v[j].at
  <2>1. Len(r) - j + 1 < Len(r) - i + 1
    BY <1>5, <1>8
  <2>2. r[Len(r) - j + 1].at < r[Len(r) - i + 1].at
    <3> DEFINE a == Len(r) - j + 1
               b == Len(r) - i + 1
    <3>1. a \in DOMAIN r /\ b \in DOMAIN r /\ r[a] \in Entries /\ r[b] \in Entries /\ a < b
      BY <1>5, <1>6, <2>1
    <3> HIDE DEF a, b
    <3>2. r[a].at < r[b].at
      BY <1>3, <3>1 DEF GoesForward
    <3> QED BY <3>2 DEF a, b
  <2>3. v[i].at \in Int /\ v[j].at \in Int
    BY <1>6 DEF Entries
  <2> QED BY <2>2, <2>3, <1>6
<1> QED BY <1>5, <1>7, <1>8 DEF v

\* What may be in the temporary file.
LEMMA WrittenFacts ==
  ASSUME kept \in Seq(NotBlank), record \in Entries, record.at = made, made \in Nat,
         GoesForward(kept, made - 1), NEW w \in Written
  PROVE  /\ w \in Seq(Lines) /\ LinesOf(w) = w /\ w # NoFile
         /\ GoesForward(w, made)
<1>1. NotBlank \subseteq Lines /\ Entries \subseteq Lines /\ DAMAGED \in Lines /\ DAMAGED \notin Entries
  BY RecentAssumption DEF NotBlank, Lines
<1>2. kept \in Seq(Lines) /\ record \in Lines /\ Len(kept) \in Nat
  BY <1>1, SeqMonotonic, LenProperties
<1>3. NewLines \in Seq(Lines) /\ Len(NewLines) = Len(kept) + 1
  BY <1>2, AppendProperties DEF NewLines
<1>4. GoesForward(NewLines, made)
  <2>1. made - 1 \in Int /\ made \in Int /\ made - 1 <= made /\ made - 1 < record.at /\ record.at <= made
    OBVIOUS
  <2> QED BY <1>2, <2>1, ForwardAppend DEF NewLines
<1>5. ASSUME NEW n \in 0..Len(kept)
      PROVE  /\ SubSeq(NewLines, 1, n) \in Seq(Lines) /\ GoesForward(SubSeq(NewLines, 1, n), made)
             /\ Append(SubSeq(NewLines, 1, n), DAMAGED) \in Seq(Lines)
             /\ GoesForward(Append(SubSeq(NewLines, 1, n), DAMAGED), made)
  <2> DEFINE r == SubSeq(NewLines, 1, n)
  <2>1. n \in 0..Len(NewLines)
    BY <1>2, <1>3
  <2>2. r \in Seq(Lines) /\ GoesForward(r, made)
    BY <1>3, <1>4, <2>1, FirstPart, ForwardFirst
  <2> HIDE DEF r
  <2>3. Append(r, DAMAGED) \in Seq(Lines)
    BY <1>1, <2>2, AppendProperties
  <2>4. GoesForward(Append(r, DAMAGED), made)
    <3>1. made \in Int /\ made <= made
      OBVIOUS
    <3> QED BY <1>1, <2>2, <3>1, ForwardAppend
  <2> QED BY <2>2, <2>3, <2>4 DEF r
<1>6. w \in Seq(Lines) /\ GoesForward(w, made)
  BY <1>3, <1>4, <1>5 DEF Written
<1> QED BY <1>6, RecentAssumption DEF LinesOf

-----------------------------------------------------------------------------
(* The invariant *)

\* No lines go forward.
LEMMA NothingForward == \A n : GoesForward(<<>>, n)
<1>1. DOMAIN <<>> = {}
  OBVIOUS
<1> QED BY <1>1 DEF GoesForward

\* It holds at first.
LEMMA InitIInv == Init => IInv
<1> SUFFICES ASSUME Init PROVE IInv
  OBVIOUS
<1>1. file \in Files /\ file \in InitFiles /\ GoesForward(LinesOf(file), 0)
  BY RecentAssumption, FilesAssumption DEF Init
<1> DEFINE s == Keep(LinesOf(file), NotBlank)
<1>2. s \in Seq(NotBlank) /\ log = s /\ LinesOf(file) \in Seq(Lines)
  BY <1>1, FileLines DEF Init
<1>3. TypeOK
  <2>1. mishaps \subseteq {"damaged"}
    BY DEF Init
  <2>2. BLANK \in Lines /\ 0 \in 0..MaxSearches /\ NoFile \in Files
    BY RecentAssumption DEF Lines, Files
  <2> QED BY <1>1, <1>2, <2>1, <2>2, EmptySeq DEF Init, TypeOK, NotBlank
<1>4. FileInv
  <2>1. ASSUME mishaps = {} PROVE LinesOf(file) \in Seq(Entries)
    <3>1. CASE file = NoFile
      BY <3>1, EmptySeq DEF LinesOf
    <3>2. CASE file # NoFile
      <4>1. LinesOf(file) = file
        BY <3>2 DEF LinesOf
      <4>2. \A i \in DOMAIN file : file[i] \in Entries
        BY <2>1, <4>1 DEF Init
      <4>3. Len(file) \in Nat /\ DOMAIN file = 1..Len(file) /\ file \in [1..Len(file) -> Lines]
        BY <1>2, <4>1, LenProperties
      <4>4. file \in [1..Len(file) -> Entries]
        BY <4>2, <4>3
      <4> QED BY <4>1, <4>3, <4>4
    <3> QED BY <3>1, <3>2
  <2> QED BY <1>1, <2>1 DEF Init, FileInv
<1>5. RecordInv /\ TmpInv
  BY DEF Init, RecordInv, TmpInv
<1>6. HoldsTheLatest
  <2>1. s = LastOf(log, Len(s))
    <3>1. Len(s) <= Len(s)
      BY <1>2, LenProperties
    <3> HIDE DEF s
    <3> QED BY <1>2, <3>1 DEF LastOf
  <2>2. GoesForward(s, 0)
    BY <1>1, <1>2, ForwardKeep
  <2> HIDE DEF s
  <2>3. \A i \in DOMAIN s : s[i] \in Entries => ~ (s[i].at > 0)
    <3> SUFFICES ASSUME NEW i \in DOMAIN s, s[i] \in Entries PROVE ~ (s[i].at > 0)
      OBVIOUS
    <3>1. s[i].at <= 0 /\ s[i].at \in Int
      BY <2>2 DEF GoesForward, Entries
    <3> QED BY <3>1
  <2> QED BY <2>1, <2>3 DEF HoldsTheLatest, s
<1>7. ShowsNewestFirst
  <2>1. shown = <<>> /\ Len(<<>>) = 0 /\ MaxCount \in Nat
    BY EmptySeq, RecentAssumption DEF Init
  <2> QED BY <2>1 DEF ShowsNewestFirst
<1> QED BY <1>3, <1>4, <1>5, <1>6, <1>7 DEF IInv

\* What a file and the log say of one another stays, while neither changes.
LEMMA SameFile ==
  ASSUME IInv, file' = file, log' = log, made' \in {made, made + 1}, mishaps \subseteq mishaps'
  PROVE  FileInv' /\ HoldsTheLatest'
<1>1. made \in Int /\ made + 1 \in Int /\ made <= made + 1
  BY DEF IInv, TypeOK
<1>2. GoesForward(LinesOf(file), made')
  BY <1>1, ForwardLater DEF IInv, FileInv
<1> QED BY <1>2 DEF IInv, FileInv, HoldsTheLatest

\* server_recent_add begins, or is refused.
LEMMA ReadStep ==
  ASSUME IInv, NEW s \in Searches, RecentRead(s)
  PROVE  IInv'
<1>1. PICK f \in ReadsOf(file) : kept' = Kept(f) /\ Mishap("unread", f # file)
  BY DEF RecentRead
<1>2. /\ made < MaxSearches /\ made' = made + 1 /\ record' = [what |-> s, at |-> made']
      /\ shown' = <<>> /\ pc' = "open" /\ UNCHANGED <<file, tmp, log>>
      /\ made \in 0..MaxSearches /\ MaxSearches \in Nat /\ file \in Files
      /\ log \in Seq(NotBlank)
  BY RecentAssumption DEF RecentRead, IInv, TypeOK, NotBlank
<1>3. f \in Files /\ f \in {file, NoFile} /\ GoesForward(LinesOf(f), made)
  BY <1>2, NothingForward DEF ReadsOf, Files, LinesOf, IInv, FileInv
<1>4. /\ kept' \in Seq(NotBlank) /\ Len(kept') < MaxCount /\ GoesForward(kept', made)
  BY <1>1, <1>3, KeptFacts
<1>5. /\ mishaps' \in {mishaps, mishaps \cup {"unread"}} /\ mishaps \subseteq mishaps'
      /\ mishaps' = {} => f = file
  BY <1>1 DEF Mishap
<1>6. record' \in Entries /\ record'.at = made' /\ made' - 1 = made /\ made' \in 0..MaxSearches
  BY <1>2 DEF Entries
<1>7. TypeOK'
  <2>1. Entries \subseteq Lines /\ <<>> \in Seq(Entries)
    BY EmptySeq DEF Lines
  <2> QED BY <1>2, <1>4, <1>5, <1>6, <2>1 DEF IInv, TypeOK, NotBlank
<1>8. FileInv' /\ HoldsTheLatest'
  BY <1>2, <1>5, SameFile
<1>9. ASSUME "short" \notin mishaps' PROVE kept' = LastOf(log, Len(kept'))
  <2> DEFINE k == Keep(LinesOf(f), NotBlank)
  <2>1. k \in Seq(NotBlank)
    BY <1>3, FileLines
  <2>2. kept' = LastOf(k, MaxCount - 1) /\ MaxCount - 1 \in Nat
    BY <1>1, RecentAssumption DEF Kept
  <2>3. k = LastOf(log, Len(k))
    <3>1. CASE f = file
      BY <3>1, <1>5, <1>9 DEF IInv, HoldsTheLatest
    <3>2. CASE f = NoFile
      <4>1. k = <<>> /\ Len(<<>>) = 0
        BY <3>2, KeepEmpty, EmptySeq DEF LinesOf
      <4>2. Len(log) \in Nat
        BY <1>2, LenProperties
      <4> HIDE DEF k
      <4>3. Len(k) <= Len(log) /\ \A i \in 1..Len(k) : k[i] = log[Len(log) - Len(k) + i]
        BY <4>1, <4>2
      <4> QED BY <1>2, <2>1, <4>3, SuffixIs
    <3> QED BY <1>3, <3>1, <3>2
  <2> HIDE DEF k
  <2> QED BY <1>2, <2>1, <2>2, <2>3, SuffixTrans
<1>10. ASSUME mishaps' = {} PROVE kept' \in Seq(Entries) /\ kept' = Kept(file)
  <2> DEFINE k == Keep(LinesOf(file), NotBlank)
  <2>1. f = file /\ LinesOf(file) \in Seq(Entries)
    BY <1>5, <1>10 DEF IInv, FileInv
  <2>2. k \in Seq(Entries \cap NotBlank)
    BY <2>1, KeepFacts
  <2>3. kept' = LastOf(k, MaxCount - 1) /\ MaxCount - 1 \in Nat
    BY <1>1, <2>1, RecentAssumption DEF Kept
  <2> HIDE DEF k
  <2>4. k \in Seq(Entries)
    BY <2>2, SeqMonotonic
  <2> QED BY <1>1, <2>1, <2>3, <2>4, LastFacts
<1>11. RecordInv'
  BY <1>2, <1>4, <1>6, <1>9, <1>10 DEF RecordInv, Kept
<1>12. TmpInv'
  BY <1>2 DEF TmpInv
<1>13. ShowsNewestFirst'
  <2>1. shown' = <<>> /\ Len(<<>>) = 0 /\ MaxCount \in Nat
    BY <1>2, EmptySeq, RecentAssumption
  <2> QED BY <2>1 DEF ShowsNewestFirst
<1> QED BY <1>7, <1>8, <1>11, <1>12, <1>13 DEF IInv

\* The rest of server_recent_add, up to the renaming.
LEMMA OpenStep ==
  ASSUME IInv, RecentOpen
  PROVE  IInv'
<1>1. /\ pc = "open" /\ UNCHANGED <<file, kept, record, shown, log, made, mishaps>>
      /\ (tmp' = <<>> /\ pc' = "write") \/ (tmp' = tmp /\ pc' = "idle")
  BY DEF RecentOpen, Opened
<1>2. TypeOK'
  BY <1>1, EmptySeq DEF IInv, TypeOK, Files
<1>3. FileInv' /\ HoldsTheLatest'
  BY <1>1, SameFile
<1>4. RecordInv'
  BY <1>1 DEF IInv, RecordInv, Kept
<1>5. TmpInv' /\ ShowsNewestFirst'
  BY <1>1 DEF IInv, TmpInv, ShowsNewestFirst
<1> QED BY <1>2, <1>3, <1>4, <1>5 DEF IInv

\* The new file is written, in full or in part.
LEMMA WriteStep ==
  ASSUME IInv, RecentWrite
  PROVE  IInv'
<1>1. PICK new \in Written : tmp' = LinesOf(tmp) \o new /\ Mishap("short", new # NewLines)
  BY DEF RecentWrite
<1>2. /\ pc = "write" /\ pc' = "remove" /\ UNCHANGED <<file, kept, record, shown, log, made>>
      /\ LinesOf(tmp) = <<>>
  BY DEF RecentWrite, IInv, TmpInv, LinesOf
<1>3. new \in Seq(Lines)
  BY <1>2, WrittenFacts DEF IInv, TypeOK, RecordInv, NotBlank
<1>4. tmp' = new
  BY <1>1, <1>2, <1>3, ConcatEmptySeq
<1>5. /\ mishaps' \in {mishaps, mishaps \cup {"short"}} /\ mishaps \subseteq mishaps'
      /\ "short" \notin mishaps' => new = NewLines
  BY <1>1 DEF Mishap
<1>6. TypeOK'
  BY <1>2, <1>3, <1>4, <1>5 DEF IInv, TypeOK, Files
<1>7. FileInv' /\ HoldsTheLatest'
  BY <1>2, <1>5, SameFile
<1>8. RecordInv'
  BY <1>2, <1>5 DEF IInv, RecordInv, Kept
<1>9. TmpInv' /\ ShowsNewestFirst'
  BY <1>2, <1>4, <1>5 DEF IInv, TmpInv, ShowsNewestFirst, Written, NewLines
<1> QED BY <1>6, <1>7, <1>8, <1>9 DEF IInv

\* The old file goes, or stays.
LEMMA RemoveStep ==
  ASSUME IInv, RecentRemove
  PROVE  IInv'
<1>1. /\ pc = "remove" /\ pc' = "rename" /\ UNCHANGED <<tmp, kept, record, shown, log, made, mishaps>>
      /\ file' \in {NoFile, file}
  BY DEF RecentRemove
<1>2. TypeOK'
  BY <1>1 DEF IInv, TypeOK, Files
<1>3. FileInv' /\ HoldsTheLatest'
  <2>1. CASE file' = file
    BY <1>1, <2>1, SameFile
  <2>2. CASE file' = NoFile
    <3> DEFINE k == Keep(LinesOf(file'), NotBlank)
    <3>1. LinesOf(file') = <<>> /\ k = <<>> /\ Len(<<>>) = 0 /\ log \in Seq(NotBlank) /\ Len(log) \in Nat
      BY <2>2, KeepEmpty, EmptySeq, LenProperties DEF LinesOf, IInv, TypeOK, NotBlank
    <3> HIDE DEF k
    <3>2. k \in Seq(NotBlank) /\ Len(k) <= Len(log)
          /\ \A i \in 1..Len(k) : k[i] = log[Len(log) - Len(k) + i]
      BY <3>1, EmptySeq
    <3>3. k = LastOf(log', Len(k)) /\ DOMAIN k = {}
      <4>1. k = LastOf(log, Len(k))
        BY <3>1, <3>2, SuffixIs
      <4> QED BY <3>1, <4>1, <1>1
    <3>4. HoldsTheLatest'
      BY <3>3 DEF HoldsTheLatest, k
    <3>5. FileInv'
      BY <3>1, NothingForward, EmptySeq DEF FileInv
    <3> QED BY <3>4, <3>5
  <2> QED BY <1>1, <2>1, <2>2
<1>4. RecordInv'
  BY <1>1 DEF IInv, RecordInv, Kept
<1>5. TmpInv' /\ ShowsNewestFirst'
  BY <1>1 DEF IInv, TmpInv, ShowsNewestFirst, Written, NewLines
<1> QED BY <1>2, <1>3, <1>4, <1>5 DEF IInv

\* The new file, ready to get its name.
LEMMA ReadyToRename ==
  ASSUME IInv, pc = "rename"
  PROVE  /\ tmp \in Seq(Lines) /\ LinesOf(tmp) = tmp /\ tmp # NoFile /\ GoesForward(tmp, made)
         /\ "short" \notin mishaps =>
              /\ tmp = Append(kept, record) /\ tmp \in Seq(NotBlank)
              /\ tmp = LastOf(Append(log, record), Len(tmp)) /\ Len(tmp) <= MaxCount
              /\ Keep(tmp, NotBlank) = tmp
         /\ mishaps = {} => tmp \in Seq(Entries)
<1>1. /\ kept \in Seq(NotBlank) /\ log \in Seq(NotBlank) /\ made \in Nat
      /\ record \in Entries /\ record.at = made /\ GoesForward(kept, made - 1)
      /\ Len(kept) < MaxCount /\ tmp \in Written /\ MaxCount \in Nat
  BY RecentAssumption DEF IInv, TypeOK, RecordInv, TmpInv, NotBlank
<1>2. tmp \in Seq(Lines) /\ LinesOf(tmp) = tmp /\ tmp # NoFile /\ GoesForward(tmp, made)
  BY <1>1, WrittenFacts
<1>3. record \in NotBlank /\ NotBlank \subseteq Lines
  BY <1>1, RecentAssumption DEF NotBlank, Lines
<1>4. ASSUME "short" \notin mishaps
      PROVE  /\ tmp = Append(kept, record) /\ tmp \in Seq(NotBlank)
             /\ tmp = LastOf(Append(log, record), Len(tmp)) /\ Len(tmp) <= MaxCount
             /\ Keep(tmp, NotBlank) = tmp
  <2>1. tmp = Append(kept, record) /\ kept = LastOf(log, Len(kept))
    BY <1>4 DEF IInv, TmpInv, RecordInv, NewLines
  <2>2. tmp \in Seq(NotBlank) /\ Len(tmp) = Len(kept) + 1 /\ Len(kept) \in Nat
    BY <1>1, <1>3, <2>1, AppendProperties, LenProperties
  <2>3. tmp = LastOf(Append(log, record), Len(tmp))
    BY <1>1, <1>3, <2>1, SuffixAppend
  <2>4. Keep(tmp, NotBlank) = tmp
    <3>1. Range(tmp) \subseteq NotBlank
      BY <2>2, RangeOfSeq
    <3> QED BY <2>2, <3>1, KeepAll
  <2> QED BY <1>1, <2>1, <2>2, <2>3, <2>4
<1>5. ASSUME mishaps = {} PROVE tmp \in Seq(Entries)
  <2>1. tmp = Append(kept, record) /\ kept \in Seq(Entries)
    <3>1. "short" \notin mishaps
      BY <1>5
    <3>2. kept \in Seq(Entries)
      BY <1>5 DEF IInv, RecordInv
    <3> QED BY <3>1, <3>2, <1>4
  <2> QED BY <1>1, <2>1, AppendProperties
<1> QED BY <1>2, <1>4, <1>5

\* The new file takes its place, or it does not.
LEMMA RenameStep ==
  ASSUME IInv, RecentRename
  PROVE  IInv'
<1>1. pc = "rename" /\ pc' = "idle" /\ UNCHANGED <<kept, record, shown, made>>
  BY DEF RecentRename
<1>2. RecordInv' /\ TmpInv' /\ ShowsNewestFirst'
  BY <1>1 DEF IInv, RecordInv, TmpInv, ShowsNewestFirst
<1>3. CASE file' = tmp /\ tmp' = NoFile /\ log' = Append(log, record) /\ UNCHANGED mishaps
  <2>1. /\ tmp \in Seq(Lines) /\ LinesOf(tmp) = tmp /\ GoesForward(tmp, made)
        /\ "short" \notin mishaps =>
              /\ tmp = LastOf(Append(log, record), Len(tmp)) /\ Len(tmp) <= MaxCount
              /\ Keep(tmp, NotBlank) = tmp
        /\ mishaps = {} => tmp \in Seq(Entries)
    BY <1>1, ReadyToRename
  <2>2. TypeOK'
    <3>1. record \in Lines \ {BLANK}
      BY <1>1, RecentAssumption DEF IInv, RecordInv, Lines
    <3>2. Append(log, record) \in Seq(Lines \ {BLANK})
      BY <3>1, AppendProperties DEF IInv, TypeOK
    <3> QED BY <1>1, <1>3, <2>1, <3>2 DEF IInv, TypeOK, Files
  <2>3. FileInv'
    BY <1>1, <1>3, <2>1 DEF FileInv
  <2>4. HoldsTheLatest'
    BY <1>3, <2>1 DEF HoldsTheLatest
  <2> QED BY <1>2, <2>2, <2>3, <2>4 DEF IInv
<1>4. CASE /\ tmp' \in {NoFile, tmp} /\ UNCHANGED <<file, log>>
           /\ mishaps' \in {mishaps, mishaps \cup {"lost"}}
  <2>1. TypeOK'
    BY <1>1, <1>4 DEF IInv, TypeOK, Files
  <2>2. mishaps \subseteq mishaps'
    BY <1>4
  <2>3. FileInv' /\ HoldsTheLatest'
    BY <1>1, <1>4, <2>2, SameFile
  <2> QED BY <1>2, <2>1, <2>3 DEF IInv
<1>5. mishaps \cup {} = mishaps
  OBVIOUS
<1> QED BY <1>3, <1>4, <1>5 DEF RecentRename, Mishap

\* handle_recent_list changes no file.
LEMMA ListStep ==
  ASSUME IInv, handle_recent_list
  PROVE  IInv'
<1>1. PICK f \in ReadsOf(file) : shown' = ListOf(f) /\ Mishap("unread", f # file)
  BY DEF handle_recent_list
<1>2. pc = "idle" /\ UNCHANGED <<file, tmp, pc, kept, record, log, made>> /\ file \in Files
  BY DEF handle_recent_list, IInv, TypeOK
<1>3. f \in Files /\ GoesForward(LinesOf(f), made)
  BY <1>2, NothingForward DEF ReadsOf, Files, LinesOf, IInv, FileInv
<1>4. /\ shown' \in Seq(Entries) /\ Len(shown') <= MaxCount
      /\ \A i, j \in 1..Len(shown') : i < j => shown'[i].at > shown'[j].at
  BY <1>1, <1>3, ListFacts
<1>5. mishaps' \in {mishaps, mishaps \cup {"unread"}} /\ mishaps \subseteq mishaps'
  BY <1>1 DEF Mishap
<1>6. TypeOK'
  BY <1>2, <1>4, <1>5 DEF IInv, TypeOK
<1>7. FileInv' /\ HoldsTheLatest'
  BY <1>2, <1>5, SameFile
<1>8. ShowsNewestFirst'
  <2>1. DOMAIN shown' = 1..Len(shown')
    BY <1>4, LenProperties
  <2> QED BY <1>4, <2>1 DEF ShowsNewestFirst
<1>9. RecordInv' /\ TmpInv'
  BY <1>2 DEF RecordInv, TmpInv
<1> QED BY <1>6, <1>7, <1>8, <1>9 DEF IInv

\* The server ends wherever it is, the addition half done.
LEMMA CrashStep ==
  ASSUME IInv, Crash
  PROVE  IInv'
<1>1. /\ pc' = "idle" /\ UNCHANGED <<file, tmp, kept, record, shown, log, made>>
      /\ mishaps' \in {mishaps, mishaps \cup {"lost"}} /\ mishaps \subseteq mishaps'
  BY DEF Crash, Mishap
<1>2. TypeOK'
  BY <1>1 DEF IInv, TypeOK
<1>3. FileInv' /\ HoldsTheLatest'
  BY <1>1, SameFile
<1>4. RecordInv' /\ TmpInv' /\ ShowsNewestFirst'
  BY <1>1 DEF IInv, RecordInv, TmpInv, ShowsNewestFirst
<1> QED BY <1>2, <1>3, <1>4 DEF IInv

\* Every step keeps the invariant.
LEMMA NextIInv == IInv /\ [Next]_vars => IInv'
<1> SUFFICES ASSUME IInv, [Next]_vars PROVE IInv'
  OBVIOUS
<1>1. CASE UNCHANGED vars
  BY <1>1 DEF vars, IInv, TypeOK, FileInv, RecordInv, TmpInv, HoldsTheLatest, ShowsNewestFirst,
              Written, NewLines, Kept
<1>2. ASSUME NEW s \in Searches, RecentRead(s) PROVE IInv'
  BY <1>2, ReadStep
<1>3. CASE RecentOpen
  BY <1>3, OpenStep
<1>4. CASE RecentWrite
  BY <1>4, WriteStep
<1>5. CASE RecentRemove
  BY <1>5, RemoveStep
<1>6. CASE RecentRename
  BY <1>6, RenameStep
<1>7. CASE handle_recent_list
  BY <1>7, ListStep
<1>8. CASE Crash
  BY <1>8, CrashStep
<1> QED BY <1>1, <1>2, <1>3, <1>4, <1>5, <1>6, <1>7, <1>8 DEF Next

-----------------------------------------------------------------------------
(* The record of RecentStore *)

\* Without a mishap the record holds the last lines of the file.
LEMMA RecordState ==
  ASSUME IInv, mishaps = {}
  PROVE  /\ Recent = LastOf(IF pc = "rename" /\ file = NoFile THEN tmp ELSE LinesOf(file), MaxCount)
         /\ LinesOf(file) \in Seq(Entries)
         /\ Recent \in Seq(Entries) /\ Len(Recent) <= MaxCount
<1> DEFINE s == IF pc = "rename" /\ file = NoFile THEN tmp ELSE LinesOf(file)
<1>1. LinesOf(file) \in Seq(Entries)
  BY DEF IInv, FileInv
<1>2. s \in Seq(Entries)
  BY <1>1, ReadyToRename
<1>3. Recent = LastOf(s, MaxCount)
  BY DEF Recent
<1> HIDE DEF s
<1>4. MaxCount \in Nat /\ Len(s) \in Nat
  BY <1>2, RecentAssumption, LenProperties
<1>5. LastOf(s, MaxCount) \in Seq(Entries) /\ Len(LastOf(s, MaxCount)) <= MaxCount
  BY <1>2, <1>4, LastFacts
<1> QED BY <1>1, <1>3, <1>5 DEF s

\* The file maps to a record.
LEMMA RecordStarts == Init => Recents!RecentInit
<1> SUFFICES ASSUME Init PROVE Recents!RecentInit
  OBVIOUS
<1>1. Recent \in Seq(Entries) /\ Len(Recent) <= MaxCount
  <2>1. CASE mishaps = {}
    BY <2>1, InitIInv, RecordState
  <2>2. CASE mishaps # {}
    BY <2>2, EmptySeq, RecentAssumption DEF Recent
  <2> QED BY <2>1, <2>2
<1>2. Told = <<>>
  BY DEF Init, Told
<1>3. (mishaps = {}) \in BOOLEAN
  OBVIOUS
<1> QED BY <1>1, <1>2, <1>3 DEF Recents!RecentInit

\* After a mishap the record is forgotten.
LEMMA ForgottenStep ==
  ASSUME mishaps' # {}
  PROVE  Recents!RecentNext
<1>1. Recent' = <<>> /\ Told' = <<>>
  BY DEF Recent, Told
<1> QED BY <1>1 DEF Recents!RecentNext, Recents!Forgotten

\* A step without a mishap and without a list leaves the record alone ...
LEMMA HoldStep ==
  ASSUME mishaps = {}, mishaps' = {}, shown' = <<>>, Recent' = Recent
  PROVE  Recents!RecentNext
<1>1. Told' = <<>>
  BY DEF Told
<1> QED BY <1>1 DEF Recents!RecentNext, Recents!Hold

\* ... or puts one search behind the others.
LEMMA RecordStep ==
  ASSUME mishaps = {}, mishaps' = {}, shown' = <<>>, NEW s \in Seq(Entries), NEW e \in Entries,
         Recent = LastOf(s, MaxCount), Recent' = Append(LastOf(s, MaxCount - 1), e)
  PROVE  Recents!RecentNext
<1> DEFINE n == MaxCount - 1
<1>1. n \in Nat /\ n + 1 = MaxCount
  BY RecentAssumption
<1> HIDE DEF n
<1>2. LastOf(Append(LastOf(s, n + 1), e), n + 1) = Append(LastOf(s, n), e)
  BY <1>1, LastOfLast
<1>3. LastOf(Append(Recent, e), MaxCount) = Recent'
  BY <1>1, <1>2 DEF n
<1>4. LastOf(s, n) \in Seq(Entries)
  BY <1>1, LastFacts
<1>5. Recent' \in Seq(Entries) /\ Recent' # <<>> /\ Len(Recent') = Len(LastOf(s, n)) + 1
      /\ Recent'[Len(LastOf(s, n)) + 1] = e
  BY <1>4, AppendProperties DEF n
<1>6. Recents!Last(Recent') = e
  BY <1>5 DEF Recents!Last
<1>7. Told' = <<>>
  BY DEF Told
<1>8. Recents!Record(Recents!Last(Recent'))
  BY <1>3, <1>6, <1>7 DEF Recents!Record, Recents!LastOf, LastOf
<1> QED BY <1>5, <1>8 DEF Recents!RecentNext

\* While a search is recorded, no list is out.
LEMMA NothingShown ==
  ASSUME IInv, pc # "idle"
  PROVE  shown = <<>>
<1> QED BY DEF IInv, RecordInv

\* The temporary file when nothing went wrong: what is kept of the old one, and the
\* new line.
LEMMA NewFile ==
  ASSUME IInv, mishaps = {}, pc = "remove" \/ (pc = "rename" /\ file # NoFile)
  PROVE  /\ tmp = Append(LastOf(LinesOf(file), MaxCount - 1), record) /\ record \in Entries
         /\ LastOf(tmp, MaxCount) = tmp
<1>1. /\ tmp = NewLines /\ record \in Entries /\ Len(kept) < MaxCount
      /\ kept = Kept(file) /\ kept \in Seq(Entries) /\ LinesOf(file) \in Seq(Entries)
  BY DEF IInv, RecordInv, TmpInv, FileInv
<1>2. Keep(LinesOf(file), NotBlank) = LinesOf(file)
  <2>1. Range(LinesOf(file)) \subseteq Entries
    BY <1>1, RangeOfSeq
  <2>2. Entries \subseteq NotBlank
    BY RecentAssumption DEF NotBlank, Lines
  <2>3. Range(LinesOf(file)) \subseteq NotBlank
    BY <2>1, <2>2
  <2> QED BY <1>1, <2>3, KeepAll
<1>3. Len(tmp) = Len(kept) + 1 /\ Len(kept) \in Nat /\ MaxCount \in Nat
  BY <1>1, AppendProperties, LenProperties, RecentAssumption DEF NewLines
<1>4. LastOf(tmp, MaxCount) = tmp
  <2>1. Len(tmp) <= MaxCount
    BY <1>1, <1>3
  <2> QED BY <2>1 DEF LastOf
<1> QED BY <1>1, <1>2, <1>4 DEF NewLines, Kept

\* Once the old file is gone the new one counts: the search is recorded.
LEMMA RecordsRemove ==
  ASSUME IInv, RecentRemove
  PROVE  Recents!RecentNext
<1> SUFFICES ASSUME mishaps' = {} PROVE Recents!RecentNext
  BY ForgottenStep
<1>1. /\ pc = "remove" /\ pc' = "rename" /\ mishaps = {} /\ shown' = <<>> /\ tmp' = tmp
      /\ file' \in {NoFile, file}
  BY NothingShown DEF RecentRemove
<1>2. Recent = LastOf(LinesOf(file), MaxCount) /\ LinesOf(file) \in Seq(Entries)
  BY <1>1, RecordState
<1>3. CASE file' = NoFile
  <2>1. Recent' = LastOf(tmp, MaxCount)
    BY <1>1, <1>3 DEF Recent
  <2>2. Recent' = Append(LastOf(LinesOf(file), MaxCount - 1), record) /\ record \in Entries
    BY <1>1, <2>1, NewFile
  <2> QED BY <1>1, <1>2, <2>2, RecordStep
<1>4. CASE file' = file /\ file # NoFile
  <2>1. Recent' = Recent
    BY <1>1, <1>2, <1>4 DEF Recent
  <2> QED BY <1>1, <2>1, HoldStep
<1> QED BY <1>1, <1>3, <1>4

\* The renaming records it if the old file could not be removed.
LEMMA RecordsRename ==
  ASSUME IInv, RecentRename
  PROVE  Recents!RecentNext
<1> SUFFICES ASSUME mishaps' = {} PROVE Recents!RecentNext
  BY ForgottenStep
<1>1. pc = "rename" /\ pc' = "idle" /\ mishaps = {} /\ shown' = <<>>
  BY NothingShown DEF RecentRename, Mishap
<1>2. Recent = LastOf(IF file = NoFile THEN tmp ELSE LinesOf(file), MaxCount)
      /\ LinesOf(file) \in Seq(Entries)
  BY <1>1, RecordState
<1>3. CASE file' = tmp
  <2>1. Recent' = LastOf(tmp, MaxCount)
    <3>1. LinesOf(tmp) = tmp
      BY <1>1, ReadyToRename
    <3> QED BY <1>1, <1>3, <3>1 DEF Recent
  <2>2. CASE file = NoFile
    <3>1. Recent' = Recent
      BY <1>2, <2>1, <2>2
    <3> QED BY <1>1, <3>1, HoldStep
  <2>3. CASE file # NoFile
    <3>1. Recent' = Append(LastOf(LinesOf(file), MaxCount - 1), record) /\ record \in Entries
      BY <1>1, <2>1, <2>3, NewFile
    <3>2. Recent = LastOf(LinesOf(file), MaxCount)
      BY <1>2, <2>3
    <3> QED BY <1>1, <1>2, <3>1, <3>2, RecordStep
  <2> QED BY <2>2, <2>3
<1>4. CASE file' = file /\ file # NoFile
  <2>1. Recent' = Recent
    BY <1>1, <1>2, <1>4 DEF Recent
  <2> QED BY <1>1, <2>1, HoldStep
<1> QED BY <1>3, <1>4 DEF RecentRename, Mishap

\* A listing tells the record.
LEMMA RecordsList ==
  ASSUME IInv, handle_recent_list
  PROVE  Recents!RecentNext
<1> SUFFICES ASSUME mishaps' = {} PROVE Recents!RecentNext
  BY ForgottenStep
<1>1. pc = "idle" /\ pc' = pc /\ mishaps = {} /\ file' = file /\ shown' = ListOf(file)
  BY DEF handle_recent_list, Mishap
<1>2. Recent = LastOf(LinesOf(file), MaxCount) /\ LinesOf(file) \in Seq(Entries)
  BY <1>1, RecordState
<1>3. Recent' = Recent
  BY <1>1, <1>2 DEF Recent
<1>4. Keep(LinesOf(file), Entries) = LinesOf(file)
  BY <1>2, KeepAll, RangeOfSeq
<1>5. Told' = Recents!Reverse(Recent)
  BY <1>1, <1>2, <1>4 DEF Told, ListOf, Reverse, Recents!Reverse
<1> QED BY <1>1, <1>3, <1>5 DEF Recents!RecentNext, Recents!Tell

\* Every step is one of the record, or leaves it alone.
LEMMA RecordsNext ==
  ASSUME IInv, [Next]_vars
  PROVE  [Recents!RecentNext]_(Recents!recentVars)
<1>1. CASE UNCHANGED vars
  BY <1>1 DEF vars, Recents!recentVars, Recent, Told
<1>2. CASE RecentRemove
  BY <1>2, RecordsRemove
<1>3. CASE RecentRename
  BY <1>3, RecordsRename
<1>4. CASE handle_recent_list
  BY <1>4, RecordsList
<1>5. CASE \/ \E s \in Searches : RecentRead(s)
           \/ RecentOpen \/ RecentWrite \/ Crash
  <2>1. CASE mishaps' # {}
    BY <2>1, ForgottenStep
  <2>2. CASE mishaps' = {}
    <3>1. mishaps = {} /\ file' = file /\ (pc = "rename" => file # NoFile) /\ pc' # "rename"
      BY <1>5, <2>2 DEF RecentRead, RecentOpen, RecentWrite, Crash, Mishap
    <3>2. shown' = <<>>
      <4>1. shown' = <<>> \/ (pc # "idle" /\ shown' = shown)
        BY <1>5 DEF RecentRead, RecentOpen, RecentWrite, Crash
      <4> QED BY <4>1, NothingShown
    <3>3. Recent' = Recent
      BY <3>1, <2>2 DEF Recent
    <3> QED BY <2>2, <3>1, <3>2, <3>3, HoldStep
  <2> QED BY <2>1, <2>2
<1> QED BY <1>1, <1>2, <1>3, <1>4, <1>5 DEF Next

-----------------------------------------------------------------------------
\* Every reachable state satisfies the invariant.
THEOREM InvariantHolds == Spec => []IInv
<1> QED BY InitIInv, NextIInv, PTL DEF Spec

\* The files, the array and the list stay what they are declared to be.
THEOREM TypeCorrect == Spec => []TypeOK
<1>1. IInv => TypeOK
  BY DEF IInv
<1> QED BY <1>1, InvariantHolds, PTL

\* Whatever fails or is interrupted, short writes excepted, server_recent_add leaves
\* the latest part of all that was recorded, bounded once it has written the file.
THEOREM LatestAreKept == Spec => []HoldsTheLatest
<1>1. IInv => HoldsTheLatest
  BY DEF IInv
<1> QED BY <1>1, InvariantHolds, PTL

\* handle_recent_list goes back in time and is bounded, whatever is in the file.
THEOREM NewestComesFirst == Spec => []ShowsNewestFirst
<1>1. IInv => ShowsNewestFirst
  BY DEF IInv
<1> QED BY <1>1, InvariantHolds, PTL

\* Short of mishaps the handlers on recent_search.txt are the record of RecentStore: the
\* last MaxCount searches, none forgotten but for a newer one.
THEOREM ImplementsTheRecord == Spec => ImplementsRecents
<1>1. Init => Recents!RecentInit
  BY RecordStarts
<1>2. IInv /\ [Next]_vars => [Recents!RecentNext]_(Recents!recentVars)
  BY RecordsNext
<1> QED BY <1>1, <1>2, InvariantHolds, PTL DEF Spec, ImplementsRecents, Recents!RecentSpec
=============================================================================
