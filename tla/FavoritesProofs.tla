---------------------------- MODULE FavoritesProofs ---------------------------
(***************************************************************************)
(* Proofs about Favorites, for any favourites, files, numbers and faults:  *)
(* no favourite is stored twice, a deletion is all or nothing, nothing     *)
(* deleted comes back, and the handlers implement FavoriteStore.           *)
(***************************************************************************)
EXTENDS Favorites, BasicLemmas

AnyFile == File \cup {NoFile}

-----------------------------------------------------------------------------
(* Lines that come from other lines *)

\* The elements of s are elements of t, taken from different places.
Within(s, t) ==
  \E at \in [1..Len(s) -> 1..Len(t)] :
    /\ \A i, j \in 1..Len(s) : at[i] = at[j] => i = j
    /\ \A i \in 1..Len(s) : s[i] = t[at[i]]

\* What is within something within u is within u.
LEMMA WithinTrans ==
  ASSUME NEW s, NEW t, NEW u, Within(s, t), Within(t, u)
  PROVE  Within(s, u)
<1>1. PICK a \in [1..Len(s) -> 1..Len(t)] :
        /\ \A i, j \in 1..Len(s) : a[i] = a[j] => i = j
        /\ \A i \in 1..Len(s) : s[i] = t[a[i]]
  BY DEF Within
<1>2. PICK b \in [1..Len(t) -> 1..Len(u)] :
        /\ \A i, j \in 1..Len(t) : b[i] = b[j] => i = j
        /\ \A i \in 1..Len(t) : t[i] = u[b[i]]
  BY DEF Within
<1> DEFINE c == [i \in 1..Len(s) |-> b[a[i]]]
<1>3. c \in [1..Len(s) -> 1..Len(u)] /\ \A i \in 1..Len(s) : c[i] = b[a[i]] /\ a[i] \in 1..Len(t)
  OBVIOUS
<1> HIDE DEF c
<1>4. \A i, j \in 1..Len(s) : c[i] = c[j] => i = j
  BY <1>1, <1>2, <1>3
<1>5. ASSUME NEW i \in 1..Len(s) PROVE s[i] = u[c[i]]
  <2>1. s[i] = t[a[i]] /\ a[i] \in 1..Len(t) /\ c[i] = b[a[i]]
    BY <1>1, <1>3
  <2> QED BY <2>1, <1>2
<1> QED BY <1>3, <1>4, <1>5 DEF Within

\* What is kept of a sequence is within it,
LEMMA WithinKeep ==
  ASSUME NEW S, NEW s \in Seq(S), NEW T
  PROVE  Within(Keep(s, T), s)
<1> DEFINE k == Keep(s, T)
<1>1. PICK at : KeptAt(k, s, T, at)
  BY KeepFacts
<1>2. Len(k) \in Nat /\ Len(s) \in Nat
  <2>1. k \in Seq(S \cap T)
    BY KeepFacts
  <2> HIDE DEF k
  <2> QED BY <2>1, LenProperties
<1> HIDE DEF k
<1>3. /\ at \in [1..Len(k) -> 1..Len(s)]
      /\ \A i, j \in 1..Len(k) : i < j => at[i] < at[j]
      /\ \A i \in 1..Len(k) : k[i] = s[at[i]]
  BY <1>1 DEF KeptAt
<1>4. \A i, j \in 1..Len(k) : at[i] = at[j] => i = j
  <2> SUFFICES ASSUME NEW i \in 1..Len(k), NEW j \in 1..Len(k), at[i] = at[j] PROVE i = j
    OBVIOUS
  <2>1. at[i] \in Int /\ i \in Nat /\ j \in Nat
    BY <1>2, <1>3
  <2>2. ~ (i < j) /\ ~ (j < i)
    BY <2>1, <1>3
  <2> QED BY <2>1, <2>2
<1> QED BY <1>3, <1>4 DEF Within, k

\* as is what one element was taken out of,
LEMMA WithinRemove ==
  ASSUME NEW S, NEW s \in Seq(S), NEW n \in 1..Len(s)
  PROVE  Within(RemoveAt(s, n), s)
<1> DEFINE r == RemoveAt(s, n)
           at == [i \in 1..(Len(s) - 1) |-> IF i < n THEN i ELSE i + 1]
<1>1. /\ Len(r) = Len(s) - 1 /\ Len(s) \in Nat
      /\ \A i \in 1..(Len(s) - 1) : r[i] = IF i < n THEN s[i] ELSE s[i + 1]
  BY RemoveOne, LenProperties
<1> HIDE DEF r
<1>2. at \in [1..Len(r) -> 1..Len(s)]
  BY <1>1
<1>3. \A i \in 1..Len(r) : at[i] = IF i < n THEN i ELSE i + 1
  BY <1>1
<1> HIDE DEF at
<1>4. \A i, j \in 1..Len(r) : at[i] = at[j] => i = j
  BY <1>1, <1>3
<1>5. \A i \in 1..Len(r) : r[i] = s[at[i]]
  BY <1>1, <1>3
<1> QED BY <1>2, <1>4, <1>5 DEF Within, r

\* and every first part.
LEMMA WithinFirst ==
  ASSUME NEW S, NEW s \in Seq(S), NEW m \in 0..Len(s)
  PROVE  /\ SubSeq(s, 1, m) \in Seq(S)
         /\ Len(SubSeq(s, 1, m)) = m
         /\ \A i \in 1..m : SubSeq(s, 1, m)[i] = s[i]
         /\ Within(SubSeq(s, 1, m), s)
<1>1. Len(s) \in Nat /\ m \in Nat
  BY LenProperties
<1> DEFINE p == SubSeq(s, 1, m)
<1>2. p \in Seq(S) /\ Len(p) = m /\ \A i \in 1..m : p[i] = s[i]
  BY FirstPart
<1> HIDE DEF p
<1> DEFINE at == [i \in 1..m |-> i]
<1>4. at \in [1..m -> 1..Len(s)] /\ \A i \in 1..m : at[i] = i
  BY <1>1
<1> HIDE DEF at
<1>5. Within(p, s)
  BY <1>2, <1>4 DEF Within
<1> QED BY <1>2, <1>5 DEF p

-----------------------------------------------------------------------------
(* Prefixes *)

\* A sequence is a first part of itself,
LEMMA PrefixSelf ==
  ASSUME NEW S, NEW s \in Seq(S)
  PROVE  IsPrefix(s, s)
<1>1. Len(s) \in Nat
  BY LenProperties
<1> QED BY <1>1 DEF IsPrefix

\* and of itself with one more.
LEMMA PrefixAppend ==
  ASSUME NEW S, NEW s \in Seq(S), NEW e \in S
  PROVE  IsPrefix(s, Append(s, e))
<1> DEFINE a == Append(s, e)
<1>1. /\ a \in Seq(S) /\ Len(a) = Len(s) + 1 /\ Len(s) \in Nat
      /\ \A i \in 1..Len(s) : a[i] = s[i]
  BY AppendProperties, LenProperties
<1> HIDE DEF a
<1>2. Len(s) \in 0..Len(s) /\ Len(s) \in 0..Len(a)
  BY <1>1
<1>3. /\ SubSeq(s, 1, Len(s)) \in Seq(S) /\ Len(SubSeq(s, 1, Len(s))) = Len(s)
      /\ \A i \in 1..Len(s) : SubSeq(s, 1, Len(s))[i] = s[i]
  BY <1>2, WithinFirst
<1>4. /\ SubSeq(a, 1, Len(s)) \in Seq(S) /\ Len(SubSeq(a, 1, Len(s))) = Len(s)
      /\ \A i \in 1..Len(s) : SubSeq(a, 1, Len(s))[i] = a[i]
  BY <1>1, <1>2, WithinFirst
<1>5. SubSeq(s, 1, Len(s)) = SubSeq(a, 1, Len(s))
  BY <1>1, <1>3, <1>4, SeqEqual
<1> QED BY <1>1, <1>5 DEF IsPrefix, a

-----------------------------------------------------------------------------
(* Files *)

\* The lines of a file, those that are counted and those that are listed.
LEMMA FileLines ==
  ASSUME NEW f \in AnyFile
  PROVE  /\ LinesOf(f) \in Seq(Line)
         /\ DOMAIN LinesOf(f) = 1..Len(LinesOf(f)) /\ Len(LinesOf(f)) \in Nat
         /\ Counted(f) \in Seq(Line) /\ Len(Counted(f)) \in Nat
         /\ Within(Counted(f), LinesOf(f))
         /\ ListedKeys(f) \in Seq(Keys \cup {NoKey})
<1>1. LinesOf(f) \in Seq(Line)
  BY EmptySeq DEF LinesOf, AnyFile, File
<1>2. Counted(f) \in Seq(Line \cap NotBlank) /\ Within(Counted(f), LinesOf(f))
  BY <1>1, KeepFacts, WithinKeep DEF Counted
<1>3. Counted(f) \in Seq(Line)
  BY <1>2, SeqMonotonic
<1>4. ListedKeys(f) \in Seq(Keys \cup {NoKey})
  <2> DEFINE k == Keep(LinesOf(f), Listed)
  <2>1. k \in Seq(Line \cap Listed)
    BY <1>1, KeepFacts
  <2>2. ListedKeys(f) = [i \in DOMAIN k |-> k[i].key]
    BY DEF ListedKeys
  <2> HIDE DEF k
  <2>3. Len(k) \in Nat /\ DOMAIN k = 1..Len(k)
    BY <2>1, LenProperties
  <2>4. ASSUME NEW i \in 1..Len(k) PROVE k[i].key \in Keys \cup {NoKey}
    <3>1. k[i] \in Line \cap Listed
      BY <2>1, ElementOfSeq
    <3> QED BY <3>1 DEF Line
  <2>5. ListedKeys(f) \in [1..Len(k) -> Keys \cup {NoKey}]
    BY <2>2, <2>3, <2>4
  <2> QED BY <2>3, <2>5
<1> QED BY <1>1, <1>2, <1>3, <1>4, LenProperties

\* In a file as this server writes it, every line is counted and listed.
LEMMA IntactLines ==
  ASSUME NEW f \in AnyFile, Intact(f)
  PROVE  /\ Counted(f) = LinesOf(f)
         /\ ListedKeys(f) \in Seq(Keys) /\ Len(ListedKeys(f)) = Len(LinesOf(f))
         /\ \A i \in 1..Len(LinesOf(f)) : /\ ListedKeys(f)[i] = LinesOf(f)[i].key
                                         /\ LinesOf(f)[i] = Rec(ListedKeys(f)[i])
         /\ IsInjective(LinesOf(f)) /\ IsInjective(ListedKeys(f))
         /\ \A k \in Keys : favorite_exists(f, k) <=> k \in Range(ListedKeys(f))
<1> DEFINE s == LinesOf(f)
<1>1. s \in Seq(Line) /\ DOMAIN s = 1..Len(s) /\ Len(s) \in Nat
  BY FileLines
<1>2. ASSUME NEW i \in 1..Len(s) PROVE s[i] \in [kind : {"rec"}, key : Keys]
  <2>1. f # NoFile
    <3>1. Len(<<>>) = 0
      BY EmptySeq
    <3> QED BY <3>1, <1>2 DEF LinesOf
  <2> QED BY <1>1, <2>1 DEF Intact, LinesOf
<1>3. IsInjective(s)
  <2>1. CASE f = NoFile
    BY <2>1 DEF LinesOf, IsInjective
  <2>2. CASE f # NoFile
    BY <2>2 DEF LinesOf, Intact
  <2> QED BY <2>1, <2>2
<1>4. Counted(f) = s /\ Keep(s, Listed) = s
  <2>1. Range(s) \subseteq [kind : {"rec"}, key : Keys]
    BY <1>1, <1>2 DEF Range
  <2>2. Range(s) \subseteq NotBlank /\ Range(s) \subseteq Listed
    BY <2>1 DEF NotBlank, Listed, Kinds
  <2> HIDE DEF s
  <2>3. Keep(s, NotBlank) = s /\ Keep(s, Listed) = s
    BY <1>1, <2>2, KeepAll
  <2> QED BY <2>3 DEF s, Counted
<1> DEFINE e == ListedKeys(f)
<1>5. e = [i \in 1..Len(s) |-> s[i].key]
  BY <1>1, <1>4 DEF ListedKeys
<1> HIDE DEF s, e
<1>6. \A i \in 1..Len(s) : e[i] = s[i].key /\ e[i] \in Keys
  BY <1>2, <1>5
<1>7. \A i \in 1..Len(s) : s[i] = Rec(e[i])
  BY <1>2, <1>6 DEF Rec
<1>8. e \in Seq(Keys) /\ Len(e) = Len(s) /\ DOMAIN e = 1..Len(s)
  <2>1. e \in [1..Len(s) -> Keys]
    BY <1>5, <1>6
  <2>2. e \in Seq(Keys)
    BY <1>1, <2>1
  <2>3. DOMAIN e = 1..Len(s)
    BY <2>1
  <2> QED BY <1>1, <2>2, <2>3, LenProperties
<1>9. IsInjective(e)
  <2> SUFFICES ASSUME NEW i \in 1..Len(s), NEW j \in 1..Len(s), e[i] = e[j] PROVE i = j
    BY <1>8 DEF IsInjective
  <2>1. s[i] = s[j]
    BY <1>7
  <2> QED BY <2>1, <1>1, <1>3 DEF IsInjective
<1>10. ASSUME NEW k \in Keys PROVE favorite_exists(f, k) <=> k \in Range(e)
  <2>1. ASSUME NEW i \in 1..Len(s) PROVE HasTwoBars(s[i])
    <3>1. HasTwoBars(Rec(e[i]))
      BY DEF HasTwoBars, Rec
    <3> QED BY <3>1, <1>7
  <2> QED BY <2>1, <1>1, <1>6, <1>8 DEF favorite_exists, Range, s
<1> QED BY <1>3, <1>4, <1>6, <1>7, <1>8, <1>9, <1>10 DEF s, e

\* A file whose lines are some of the lines of another.
LEMMA SomeOfTheLines ==
  ASSUME NEW f \in AnyFile, NEW g \in AnyFile, Within(LinesOf(g), LinesOf(f))
  PROVE  /\ NoDuplicates(f) => NoDuplicates(g)
         /\ KeysIn(g) \subseteq KeysIn(f)
         /\ Intact(f) /\ (g # NoFile => g.nl) => Intact(g)
<1> DEFINE s == LinesOf(g)
           t == LinesOf(f)
<1>1. /\ DOMAIN s = 1..Len(s) /\ Len(s) \in Nat
      /\ DOMAIN t = 1..Len(t) /\ Len(t) \in Nat
  BY FileLines
<1>2. PICK at \in [1..Len(s) -> 1..Len(t)] :
        /\ \A i, j \in 1..Len(s) : at[i] = at[j] => i = j
        /\ \A i \in 1..Len(s) : s[i] = t[at[i]]
  BY DEF Within
<1>3. ASSUME NoDuplicates(f), NEW i \in 1..Len(s), NEW j \in 1..Len(s),
             HasTwoBars(s[i]), HasTwoBars(s[j]), s[i].key = s[j].key, s[i].key \in Keys
      PROVE  i = j
  <2>1. at[i] \in 1..Len(t) /\ at[j] \in 1..Len(t) /\ s[i] = t[at[i]] /\ s[j] = t[at[j]]
    BY <1>2
  <2>2. at[i] = at[j]
    BY <1>1, <1>3, <2>1 DEF NoDuplicates
  <2> QED BY <1>2, <2>2
<1>4. ASSUME Intact(f), g # NoFile => g.nl PROVE Intact(g)
  <2> SUFFICES ASSUME g # NoFile
               PROVE  (\A i \in DOMAIN s : s[i] \in [kind : {"rec"}, key : Keys]) /\ IsInjective(s)
    BY <1>4 DEF Intact, LinesOf
  <2>1. /\ \A i \in 1..Len(t) : t[i] = Rec(ListedKeys(f)[i]) /\ ListedKeys(f)[i] \in Keys
        /\ IsInjective(t)
    <3>1. /\ \A i \in 1..Len(t) : t[i] = Rec(ListedKeys(f)[i])
          /\ ListedKeys(f) \in Seq(Keys) /\ Len(ListedKeys(f)) = Len(t)
          /\ IsInjective(t)
      BY <1>4, IntactLines
    <3> QED BY <3>1, ElementOfSeq
  <2> HIDE DEF s, t
  <2>2. ASSUME NEW i \in 1..Len(s) PROVE s[i] \in [kind : {"rec"}, key : Keys]
    <3>1. at[i] \in 1..Len(t) /\ s[i] = t[at[i]]
      BY <1>2
    <3>2. t[at[i]] = Rec(ListedKeys(f)[at[i]]) /\ ListedKeys(f)[at[i]] \in Keys
      BY <3>1, <2>1
    <3>3. Rec(ListedKeys(f)[at[i]]) \in [kind : {"rec"}, key : Keys]
      BY <3>2 DEF Rec
    <3> QED BY <3>1, <3>2, <3>3
  <2>3. ASSUME NEW i \in 1..Len(s), NEW j \in 1..Len(s), s[i] = s[j] PROVE i = j
    <3>1. at[i] \in 1..Len(t) /\ at[j] \in 1..Len(t) /\ s[i] = t[at[i]] /\ s[j] = t[at[j]]
      BY <1>2
    <3>2. at[i] = at[j]
      BY <1>1, <2>1, <2>3, <3>1 DEF IsInjective
    <3> QED BY <1>2, <3>2
  <2> QED BY <1>1, <2>2, <2>3 DEF IsInjective
<1>5. KeysIn(g) \subseteq KeysIn(f)
  <2>1. ASSUME NEW i \in 1..Len(s) PROVE s[i].key \in KeysIn(f)
    <3>1. at[i] \in 1..Len(t) /\ s[i] = t[at[i]]
      BY <1>2
    <3> QED BY <3>1, <1>1 DEF KeysIn
  <2> QED BY <2>1, <1>1 DEF KeysIn
<1>6. NoDuplicates(f) => NoDuplicates(g)
  BY <1>1, <1>3 DEF NoDuplicates
<1> QED BY <1>4, <1>5, <1>6

\* What is appended becomes a line of its own, or part of a line that names nothing
\* or keeps the name it had.
LEMMA AppendedLines ==
  ASSUME NEW f \in AnyFile, NEW l \in Line, NEW ends \in BOOLEAN, NEW g \in Appended(f, l, ends)
  PROVE  /\ g \in File /\ LinesOf(g) = g.lines
         /\ \A i \in 1..Len(g.lines) :
              \/ /\ i \in 1..Len(LinesOf(f)) /\ g.lines[i].key = LinesOf(f)[i].key
                 /\ HasTwoBars(g.lines[i]) => HasTwoBars(LinesOf(f)[i])
              \/ g.lines[i].key = NoKey
              \/ i = Len(g.lines) /\ g.lines[i].key = l.key
<1> DEFINE s == LinesOf(f)
<1>1. s \in Seq(Line) /\ Len(s) \in Nat
  BY FileLines
<1>2. CASE s = <<>> \/ f.nl
  <2>1. g = [lines |-> Append(s, l), nl |-> ends]
    BY <1>2 DEF Appended
  <2>2. /\ Append(s, l) \in Seq(Line) /\ Len(Append(s, l)) = Len(s) + 1
        /\ \A i \in 1..Len(s) : Append(s, l)[i] = s[i]
        /\ Append(s, l)[Len(s) + 1] = l
    BY <1>1, AppendProperties
  <2>3. g.lines = Append(s, l) /\ g \in File
    BY <2>1, <2>2 DEF File
  <2>4. \A i \in 1..(Len(s) + 1) : i \in 1..Len(s) \/ i = Len(s) + 1
    BY <1>1
  <2> HIDE DEF s
  <2>5. LinesOf(g) = g.lines
    BY <2>3, FavAssumption DEF LinesOf
  <2> QED BY <2>2, <2>3, <2>4, <2>5 DEF s
<1>3. CASE ~(s = <<>> \/ f.nl)
  <2>1. f # NoFile /\ s = f.lines /\ Len(s) \in Nat \ {0}
    BY <1>1, <1>3, EmptySeq DEF LinesOf
  <2> DEFINE m == Len(s) - 1
  <2>2. PICK h \in Glued(s[Len(s)], l) : g = [lines |-> Append(SubSeq(s, 1, m), h), nl |-> ends]
    BY <1>3, <2>1 DEF Appended, Front, Last
  <2> HIDE DEF s
  <2>3. Len(s) \in 1..Len(s) /\ s[Len(s)] \in Line /\ m \in 0..Len(s) /\ m \in Nat /\ m + 1 = Len(s)
    BY <1>1, <2>1, ElementOfSeq
  <2> HIDE DEF m
  <2>4. /\ h \in Line
        /\ \/ HasTwoBars(s[Len(s)]) /\ h.key = s[Len(s)].key
           \/ h.key = NoKey
    <3>1. CASE HasTwoBars(s[Len(s)])
      <4>1. h = Rec(s[Len(s)].key)
        BY <2>2, <3>1 DEF Glued
      <4> QED BY <4>1, <2>3, <3>1 DEF Rec, Line, Kinds
    <3>2. CASE ~ HasTwoBars(s[Len(s)])
      <4>1. PICK kd \in {l.kind, "rec"} : h = [kind |-> kd, key |-> NoKey]
        BY <2>2, <3>2 DEF Glued
      <4> QED BY <4>1 DEF Line, Kinds
    <3> QED BY <3>1, <3>2
  <2> DEFINE p == SubSeq(s, 1, m)
  <2>5. p \in Seq(Line) /\ Len(p) = m /\ \A i \in 1..m : p[i] = s[i]
    BY <1>1, <2>3, WithinFirst
  <2> HIDE DEF p
  <2>6. /\ Append(p, h) \in Seq(Line) /\ Len(Append(p, h)) = Len(s)
        /\ \A i \in 1..m : Append(p, h)[i] = s[i]
        /\ Append(p, h)[Len(s)] = h
    <3>1. /\ Append(p, h) \in Seq(Line) /\ Len(Append(p, h)) = m + 1
          /\ \A i \in 1..m : Append(p, h)[i] = p[i]
          /\ Append(p, h)[m + 1] = h
      BY <2>4, <2>5, AppendProperties
    <3> QED BY <3>1, <2>3, <2>5
  <2>7. g.lines = Append(p, h) /\ g \in File
    BY <2>2, <2>6 DEF File, p
  <2>8. \A i \in 1..Len(s) : i \in 1..m \/ i = Len(s)
    BY <1>1, <2>3
  <2>9. LinesOf(g) = g.lines
    BY <2>7, FavAssumption DEF LinesOf
  <2>10. ASSUME NEW i \in 1..Len(s)
         PROVE  \/ /\ g.lines[i].key = s[i].key
                   /\ HasTwoBars(g.lines[i]) => HasTwoBars(s[i])
                \/ g.lines[i].key = NoKey
    <3>1. CASE i \in 1..m
      BY <3>1, <2>6, <2>7
    <3>2. CASE i = Len(s)
      BY <3>2, <2>4, <2>6, <2>7
    <3> QED BY <3>1, <3>2, <2>8
  <2> QED BY <2>6, <2>7, <2>9, <2>10 DEF s
<1> QED BY <1>2, <1>3

\* What an add leaves of a file: nothing it named is named twice, and it names nothing
\* it did not name before, but the new key.
LEMMA AddLines ==
  ASSUME NEW f \in AnyFile, NEW k \in Keys, NEW g \in AppendOutcomes(f, k)
  PROVE  /\ g \in File
         /\ NoDuplicates(f) /\ ~ favorite_exists(f, k) => NoDuplicates(g)
         /\ KeysIn(g) \subseteq KeysIn(f) \cup {NoKey, k}
<1> DEFINE s == LinesOf(f)
<1>1. DOMAIN s = 1..Len(s) /\ Len(s) \in Nat
  BY FileLines
<1>2. CASE \E l \in Line, ends \in BOOLEAN : l.key \in {k, NoKey} /\ g \in Appended(f, l, ends)
  <2>1. PICK l \in Line, ends \in BOOLEAN : l.key \in {k, NoKey} /\ g \in Appended(f, l, ends)
    BY <1>2
  <2> DEFINE r == g.lines
             Old(i)  == i \in 1..Len(s) /\ r[i].key = s[i].key /\ (HasTwoBars(r[i]) => HasTwoBars(s[i]))
             Last1(i) == i = Len(r) /\ r[i].key = l.key
  <2>2. g \in File /\ LinesOf(g) = r /\ \A i \in 1..Len(r) : Old(i) \/ r[i].key = NoKey \/ Last1(i)
    BY <2>1, AppendedLines
  <2>3. DOMAIN r = 1..Len(r)
    <3>1. g \in AnyFile
      BY <2>2 DEF AnyFile
    <3> QED BY <3>1, <2>2, FileLines
  <2>4. ASSUME NoDuplicates(f), ~ favorite_exists(f, k), NEW i \in 1..Len(r), NEW j \in 1..Len(r),
               HasTwoBars(r[i]), HasTwoBars(r[j]), r[i].key = r[j].key, r[i].key \in Keys
        PROVE  i = j
    <3> HIDE DEF s, r
    <3>1. \A n \in 1..Len(s) : HasTwoBars(s[n]) => s[n].key # k
      BY <1>1, <2>4 DEF favorite_exists, s
    <3>2. (Old(i) \/ Last1(i)) /\ (Old(j) \/ Last1(j))
      BY <2>2, <2>4, FavAssumption
    <3>3. l.key = NoKey => Old(i) /\ Old(j)
      BY <3>2, <2>4, FavAssumption
    <3>4. CASE Old(i) /\ Old(j)
      BY <3>4, <1>1, <2>4 DEF NoDuplicates, s
    <3>5. CASE l.key = k /\ Old(i) /\ Last1(j)
      BY <3>5, <3>1, <2>4
    <3>6. CASE l.key = k /\ Last1(i) /\ Old(j)
      BY <3>6, <3>1, <2>4
    <3>7. CASE Last1(i) /\ Last1(j)
      BY <3>7
    <3> QED BY <3>2, <3>3, <3>4, <3>5, <3>6, <3>7, <2>1
  <2>5. KeysIn(g) \subseteq KeysIn(f) \cup {NoKey, k}
    <3> HIDE DEF s, r
    <3>1. ASSUME NEW i \in 1..Len(r) PROVE r[i].key \in KeysIn(f) \cup {NoKey, k}
      <4>1. CASE Old(i)
        BY <4>1, <1>1 DEF KeysIn, s
      <4>2. CASE ~ Old(i)
        BY <4>2, <2>1, <2>2
      <4> QED BY <4>1, <4>2
    <3> QED BY <3>1, <2>2, <2>3 DEF KeysIn
  <2>6. NoDuplicates(f) /\ ~ favorite_exists(f, k) => NoDuplicates(g)
    <3> HIDE DEF s, r
    <3> QED BY <2>2, <2>3, <2>4 DEF NoDuplicates
  <2> QED BY <2>2, <2>5, <2>6
<1>3. CASE g = IF f = NoFile THEN Empty ELSE f
  <2>1. CASE f # NoFile
    BY <2>1, <1>3 DEF AnyFile
  <2>2. CASE f = NoFile
    <3>1. g = Empty /\ Empty \in File
      BY <2>2, <1>3, EmptySeq DEF Empty, File
    <3>2. LinesOf(g) = <<>>
      BY <3>1, FavAssumption DEF LinesOf, Empty
    <3> QED BY <3>1, <3>2 DEF NoDuplicates, KeysIn
  <2> QED BY <2>1, <2>2
<1>4. \/ g = IF f = NoFile THEN Empty ELSE f
      \/ \E l \in Fragments(k) : g \in Appended(f, l, FALSE)
      \/ g \in Appended(f, Rec(k), TRUE)
  BY DEF AppendOutcomes
<1>5. \A l \in Fragments(k) \cup {Rec(k)} : l \in Line /\ l.key \in {k, NoKey}
  <2>1. \A l \in Fragments(k) \cup {Rec(k)} : \E kd \in Kinds : \E kk \in {k, NoKey} :
           l = [kind |-> kd, key |-> kk]
    BY DEF Fragments, Rec, Kinds
  <2> QED BY <2>1 DEF Line
<1> QED BY <1>2, <1>3, <1>4, <1>5

\* An add that goes through appends one line to a file as this server writes it.
LEMMA AddToIntact ==
  ASSUME NEW f \in AnyFile, Intact(f), NEW k \in Keys, NEW g \in Appended(f, Rec(k), TRUE),
         ~ favorite_exists(f, k)
  PROVE  /\ g \in File /\ LinesOf(g) = Append(LinesOf(f), Rec(k))
         /\ Intact(g)
         /\ ListedKeys(g) = Append(ListedKeys(f), k)
         /\ IsPrefix(Counted(f), Counted(g))
<1> DEFINE s == LinesOf(f)
           e == ListedKeys(f)
<1>1. s \in Seq(Line) /\ Len(s) \in Nat /\ Rec(k) \in Line
  BY FileLines DEF Rec, Line, Kinds
<1>2. g = [lines |-> Append(s, Rec(k)), nl |-> TRUE]
  <2>1. s = <<>> \/ f.nl
    BY DEF Intact, LinesOf
  <2> QED BY <2>1 DEF Appended
<1>3. /\ Counted(f) = s /\ e \in Seq(Keys) /\ Len(e) = Len(s)
      /\ \A i \in 1..Len(s) : s[i] = Rec(e[i])
      /\ IsInjective(s) /\ k \notin Range(e)
  BY IntactLines
<1> DEFINE a == Append(s, Rec(k))
           b == Append(e, k)
<1> HIDE DEF s, e
<1>4. /\ a \in Seq(Line) /\ Len(a) = Len(s) + 1 /\ DOMAIN a = 1..(Len(s) + 1)
      /\ \A i \in 1..Len(s) : a[i] = s[i]
      /\ a[Len(s) + 1] = Rec(k)
  <2>1. /\ a \in Seq(Line) /\ Len(a) = Len(s) + 1
        /\ \A i \in 1..Len(s) : a[i] = s[i]
        /\ a[Len(s) + 1] = Rec(k)
    BY <1>1, AppendProperties
  <2> HIDE DEF a
  <2> QED BY <2>1, LenProperties
<1>5. /\ b \in Seq(Keys) /\ Len(b) = Len(s) + 1
      /\ \A i \in 1..Len(s) : b[i] = e[i]
      /\ b[Len(s) + 1] = k
  BY <1>3, AppendProperties
<1>6. \A i \in 1..(Len(s) + 1) : i \in 1..Len(s) \/ i = Len(s) + 1
  BY <1>1
<1>7. IsInjective(a)
  <2>1. Rec(k) \notin Range(s)
    <3> SUFFICES ASSUME NEW i \in 1..Len(s), s[i] = Rec(k) PROVE FALSE
      BY <1>1, LenProperties DEF Range
    <3>1. Rec(e[i]) = Rec(k)
      BY <1>3
    <3>2. e[i] = k
      BY <3>1 DEF Rec
    <3> QED BY <3>2, <1>3, LenProperties DEF Range
  <2> QED BY <2>1, <1>1, <1>3, AppendOne
<1>8. \A i \in 1..(Len(s) + 1) : a[i] = Rec(b[i])
  BY <1>3, <1>4, <1>5, <1>6
<1>9. g \in File /\ LinesOf(g) = a /\ g.lines = a /\ g.nl /\ g # NoFile
  <2>1. g \in File /\ g.lines = a /\ g.nl
    BY <1>2, <1>4 DEF File, s
  <2> QED BY <2>1, FavAssumption DEF LinesOf
<1> HIDE DEF a, b
<1>10. Intact(g)
  <2>1. ASSUME NEW i \in 1..(Len(s) + 1) PROVE a[i] \in [kind : {"rec"}, key : Keys]
    <3>1. a[i] = Rec(b[i]) /\ b[i] \in Keys
      BY <1>5, <1>8, ElementOfSeq
    <3> QED BY <3>1 DEF Rec
  <2> QED BY <2>1, <1>4, <1>7, <1>9 DEF Intact
<1>11. /\ ListedKeys(g) \in Seq(Keys) /\ Len(ListedKeys(g)) = Len(s) + 1
       /\ \A i \in 1..(Len(s) + 1) : a[i].key = ListedKeys(g)[i]
       /\ Counted(g) = a
  BY <1>4, <1>9, <1>10, IntactLines DEF AnyFile
<1>12. ListedKeys(g) = b
  <2>1. ASSUME NEW i \in 1..(Len(s) + 1) PROVE ListedKeys(g)[i] = b[i]
    <3>1. Rec(b[i]).key = b[i]
      BY DEF Rec
    <3> QED BY <3>1, <1>8, <1>11
  <2> QED BY <2>1, <1>5, <1>11, SeqEqual
<1>13. IsPrefix(Counted(f), Counted(g))
  BY <1>1, <1>3, <1>11, PrefixAppend DEF a
<1> QED BY <1>9, <1>10, <1>12, <1>13 DEF a, b, s, e

\* What a deletion copies: some of the lines, in a file of its own.
LEMMA CopyLines ==
  ASSUME NEW f \in AnyFile, NEW n \in 1..Len(Counted(f)),
         NEW m \in 0..Len(RemoveAt(Counted(f), n)), NEW g,
         g = [lines |-> SubSeq(RemoveAt(Counted(f), n), 1, m), nl |-> TRUE]
  PROVE  /\ g \in File /\ Len(g.lines) = m
         /\ Within(LinesOf(g), LinesOf(f))
<1> DEFINE c == Counted(f)
           r == RemoveAt(c, n)
<1>1. c \in Seq(Line) /\ Within(c, LinesOf(f))
  BY FileLines
<1> HIDE DEF c
<1>2. r \in Seq(Line) /\ Within(r, c)
  BY <1>1, RemoveOne, WithinRemove DEF c
<1> HIDE DEF r
<1>3. SubSeq(r, 1, m) \in Seq(Line) /\ Len(SubSeq(r, 1, m)) = m /\ Within(SubSeq(r, 1, m), r)
  BY <1>2, WithinFirst DEF r, c
<1>4. g.lines = SubSeq(r, 1, m) /\ g \in File
  BY <1>3 DEF File, r, c
<1>5. LinesOf(g) = SubSeq(r, 1, m)
  BY <1>4, FavAssumption DEF LinesOf
<1>6. Within(LinesOf(g), LinesOf(f))
  BY <1>1, <1>2, <1>3, <1>5, WithinTrans
<1> QED BY <1>3, <1>4, <1>6

\* The chosen line is gone from a file as this server writes it, and from its list.
LEMMA CopyOfIntact ==
  ASSUME NEW f \in AnyFile, Intact(f), NEW n \in 1..Len(Counted(f)), NEW g,
         g = [lines |-> SubSeq(RemoveAt(Counted(f), n), 1, Len(RemoveAt(Counted(f), n))), nl |-> TRUE]
  PROVE  /\ Counted(g) = RemoveAt(Counted(f), n)
         /\ ListedKeys(g) = RemoveAt(ListedKeys(f), n)
         /\ n \in DOMAIN ListedKeys(f)
<1> DEFINE s == LinesOf(f)
           e == ListedKeys(f)
           r == RemoveAt(s, n)
           q == RemoveAt(e, n)
<1>1. /\ s \in Seq(Line) /\ Len(s) \in Nat /\ Counted(f) = s
      /\ e \in Seq(Keys) /\ Len(e) = Len(s)
      /\ \A i \in 1..Len(s) : e[i] = s[i].key
      /\ n \in 1..Len(s)
  BY FileLines, IntactLines
<1>2. /\ r \in Seq(Line) /\ Len(r) = Len(s) - 1
      /\ \A i \in 1..(Len(s) - 1) : r[i] = IF i < n THEN s[i] ELSE s[i + 1]
  BY <1>1, RemoveOne
<1>3. /\ q \in Seq(Keys) /\ Len(q) = Len(s) - 1
      /\ \A i \in 1..(Len(s) - 1) : q[i] = IF i < n THEN e[i] ELSE e[i + 1]
  BY <1>1, RemoveOne
<1>4. g \in File /\ Within(LinesOf(g), s) /\ g.nl
  <2>1. Len(RemoveAt(Counted(f), n)) \in 0..Len(RemoveAt(Counted(f), n))
    BY <1>1, <1>2
  <2> QED BY <2>1, CopyLines
<1> HIDE DEF s, e, r, q
<1>5. LinesOf(g) = r
  <2>1. g.lines = SubSeq(r, 1, Len(r))
    BY <1>1 DEF r
  <2>2. SubSeq(r, 1, Len(r)) = r
    BY <1>2, SubSeqFull
  <2> QED BY <1>4, <2>1, <2>2, FavAssumption DEF LinesOf
<1>6. Intact(g) /\ g \in AnyFile
  BY <1>4, SomeOfTheLines DEF AnyFile, s
<1>7. /\ Counted(g) = r /\ ListedKeys(g) \in Seq(Keys) /\ Len(ListedKeys(g)) = Len(s) - 1
      /\ \A i \in 1..(Len(s) - 1) : ListedKeys(g)[i] = r[i].key
  BY <1>2, <1>5, <1>6, IntactLines
<1>8. ListedKeys(g) = q
  <2>1. ASSUME NEW i \in 1..(Len(s) - 1) PROVE ListedKeys(g)[i] = q[i]
    <3>1. i \in 1..Len(s) /\ i + 1 \in 1..Len(s)
      BY <1>1
    <3>2. CASE i < n
      <4>1. r[i] = s[i] /\ q[i] = e[i] /\ e[i] = s[i].key
        BY <3>1, <3>2, <1>1, <1>2, <1>3
      <4> QED BY <4>1, <1>7
    <3>3. CASE ~ (i < n)
      <4>1. r[i] = s[i + 1] /\ q[i] = e[i + 1] /\ e[i + 1] = s[i + 1].key
        BY <3>1, <3>3, <1>1, <1>2, <1>3
      <4> QED BY <4>1, <1>7
    <3> QED BY <3>2, <3>3
  <2> QED BY <2>1, <1>3, <1>7, SeqEqual
<1>9. n \in DOMAIN e
  BY <1>1, LenProperties
<1> QED BY <1>1, <1>7, <1>8, <1>9 DEF r, q, e

-----------------------------------------------------------------------------
(* The invariant *)

\* What can be read is a file or nothing; what is listed of it are keys.
LEMMA ReadFile ==
  ASSUME NEW f \in AnyFile, NEW seen \in ReadsOf(f)
  PROVE  /\ seen \in AnyFile
         /\ Shown(ListedKeys(seen)) \in Seq(Keys \cup {NoKey})
         /\ \E m \in 0..Len(ListedKeys(seen)) :
              Shown(ListedKeys(seen)) = SubSeq(ListedKeys(seen), 1, m)
<1>1. seen \in AnyFile
  BY DEF ReadsOf, AnyFile
<1> DEFINE e == ListedKeys(seen)
           m == IF Len(e) < MaxShown THEN Len(e) ELSE MaxShown
<1>2. e \in Seq(Keys \cup {NoKey}) /\ Len(e) \in Nat
  BY <1>1, FileLines, LenProperties
<1> HIDE DEF e
<1>3. m \in 0..Len(e) /\ Shown(e) = SubSeq(e, 1, m)
  BY <1>2, FavAssumption DEF Shown
<1> HIDE DEF m
<1>4. SubSeq(e, 1, m) \in Seq(Keys \cup {NoKey})
  BY <1>2, <1>3, WithinFirst
<1> QED BY <1>1, <1>3, <1>4 DEF e

\* A request that left favorites.txt as it found it took nothing away.
LEMMA NothingGone ==
  ASSUME before \in AnyFile, fav = before
  PROVE  AllOrNothing
<1>1. Counted(before) \in Seq(Line)
  BY FileLines
<1> QED BY <1>1, PrefixSelf DEF AllOrNothing, OnlyTheChosenLineGoes

\* The answers that list nothing.
LEMMA AnswerTypes ==
  ASSUME NEW op \in {"add", "list", "delete"}, NEW arg \in Int \cup Keys \cup {NoKey},
         NEW code \in Codes, NEW did \in BOOLEAN, Answer(op, arg, code, did)
  PROVE  /\ answer' \in [op : {"none", "add", "list", "delete"}, arg : Int \cup Keys \cup {NoKey},
                          code : Codes, did : BOOLEAN, items : Seq(Keys \cup {NoKey})]
         /\ answer'.op = op /\ answer'.arg = arg /\ answer'.code = code /\ answer'.did = did
         /\ answer'.items = <<>>
<1>1. <<>> \in Seq(Keys \cup {NoKey})
  BY EmptySeq
<1> QED BY <1>1 DEF Answer

\* No answer is of the type of answers.
LEMMA SilenceType ==
  Silence \in [op : {"none", "add", "list", "delete"}, arg : Int \cup Keys \cup {NoKey},
               code : Codes, did : BOOLEAN, items : Seq(Keys \cup {NoKey})]
<1>1. <<>> \in Seq(Keys \cup {NoKey})
  BY EmptySeq
<1> QED BY <1>1 DEF Silence, Codes

\* It holds at first.
LEMMA InitIInv == Init => IInv
<1> SUFFICES ASSUME Init PROVE IInv
  OBVIOUS
<1>1. fav \in AnyFile /\ before = fav /\ favTmp = NoFile /\ pc = "idle"
  BY FavAssumption DEF Init, AnyFile
<1>2. TypeOK
  <2>1. mishaps \subseteq {"damaged"}
    BY DEF Init
  <2> QED BY <1>1, <2>1, SilenceType DEF Init, TypeOK, AnyFile
<1>3. DeleteInv
  BY <1>1 DEF DeleteInv
<1>4. FilesInv
  <2>1. NoDuplicates(fav)
    BY FilesAssumption DEF Init
  <2>2. mishaps \subseteq {"lost"} => Intact(fav)
    BY DEF Init
  <2> QED BY <1>1, <2>1, <2>2 DEF FilesInv
<1>5. AllOrNothing
  BY <1>1, NothingGone
<1> QED BY <1>2, <1>3, <1>4, <1>5 DEF IInv

\* A request that leaves favorites.txt alone and is done.
LEMMA NoChangeStep ==
  ASSUME IInv, pc = "idle", pc' = "idle", fav' = fav, before' = fav,
         favTmp' = favTmp, typed' \in Int, target' \in Int,
         mishaps' \in {mishaps, mishaps \cup {"unread"}},
         answer' \in [op : {"none", "add", "list", "delete"}, arg : Int \cup Keys \cup {NoKey},
                      code : Codes, did : BOOLEAN, items : Seq(Keys \cup {NoKey})]
  PROVE  IInv'
<1> USE DEF IInv
<1>1. TypeOK'
  BY DEF TypeOK
<1>2. DeleteInv'
  BY DEF DeleteInv
<1>3. FilesInv'
  BY DEF FilesInv, Intact, NoDuplicates
<1>4. AllOrNothing'
  <2>1. before' \in AnyFile /\ fav' = before'
    BY DEF TypeOK, AnyFile
  <2>2. Counted(before') \in Seq(Line)
    BY <2>1, FileLines
  <2>3. IsPrefix(Counted(before'), Counted(fav'))
    BY <2>1, <2>2, PrefixSelf
  <2> QED BY <2>3 DEF AllOrNothing, OnlyTheChosenLineGoes
<1> QED BY <1>1, <1>2, <1>3, <1>4

\* handle_favorite_add, with whatever fails in it.
LEMMA AddStep ==
  ASSUME IInv, NEW p \in AddReqs, handle_favorite_add(p)
  PROVE  IInv'
<1> DEFINE k == normalize(p)
<1>1. k \in Keys \cup {NoKey}
  BY FavAssumption DEF normalize
<1>2. /\ pc = "idle" /\ before' = fav /\ typed' = 0 /\ target' = 0 /\ favTmp' = favTmp /\ pc' = pc
      /\ typed' \in Int /\ target' \in Int
  BY DEF handle_favorite_add
<1>3. fav \in AnyFile
  BY DEF IInv, TypeOK, AnyFile
<1>4. CASE /\ fav' = fav
           /\ mishaps' \in {mishaps, mishaps \cup {"unread"}}
           /\ \E code \in Codes : Answer("add", k, code, FALSE)
  <2> HIDE DEF k
  <2>1. answer' \in [op : {"none", "add", "list", "delete"}, arg : Int \cup Keys \cup {NoKey},
                      code : Codes, did : BOOLEAN, items : Seq(Keys \cup {NoKey})]
    BY <1>1, <1>4, AnswerTypes
  <2> QED BY <1>2, <1>4, <2>1, NoChangeStep
<1>5. CASE /\ k # NoKey
           /\ Answer("add", k, ERR_OK, TRUE)
           /\ \E seen \in ReadsOf(fav) :
                /\ ~favorite_exists(seen, k)
                /\ fav' \in AppendOutcomes(fav, k)
                /\ mishaps' = mishaps
                     \cup (IF seen # fav THEN {"unread"} ELSE {})
                     \cup (IF fav' \in Appended(fav, Rec(k), TRUE) THEN {} ELSE {"short"})
  <2> HIDE DEF k
  <2>1. PICK seen \in ReadsOf(fav) :
               /\ ~favorite_exists(seen, k)
               /\ fav' \in AppendOutcomes(fav, k)
               /\ mishaps' = mishaps
                    \cup (IF seen # fav THEN {"unread"} ELSE {})
                    \cup (IF fav' \in Appended(fav, Rec(k), TRUE) THEN {} ELSE {"short"})
    BY <1>5
  <2>2. k \in Keys /\ fav' \in File
    BY <1>1, <1>3, <1>5, <2>1, AddLines
  <2>3. answer' \in [op : {"none", "add", "list", "delete"}, arg : Int \cup Keys \cup {NoKey},
                      code : Codes, did : BOOLEAN, items : Seq(Keys \cup {NoKey})]
    BY <1>1, <1>5, AnswerTypes DEF Codes
  <2>4. mishaps' \subseteq mishaps \cup {"unread", "short"} /\ mishaps \subseteq mishaps'
    BY <2>1
  <2>5. TypeOK'
    BY <1>2, <2>2, <2>3, <2>4 DEF IInv, TypeOK
  <2>6. DeleteInv'
    BY <1>2 DEF IInv, DeleteInv
  <2>7. ASSUME mishaps' \subseteq {"lost"}
        PROVE  Intact(fav) /\ Intact(fav') /\ IsPrefix(Counted(fav), Counted(fav'))
    <3>1. seen = fav /\ fav' \in Appended(fav, Rec(k), TRUE)
      BY <2>1, <2>7
    <3>2. Intact(fav)
      BY <2>4, <2>7 DEF IInv, FilesInv
    <3> QED BY <3>1, <3>2, <1>3, <2>1, <2>2, AddToIntact
  <2>8. ASSUME "unread" \notin mishaps' PROVE NoDuplicates(fav) /\ NoDuplicates(fav')
    <3>1. seen = fav
      BY <2>1, <2>8
    <3>2. NoDuplicates(fav)
      BY <2>4, <2>8 DEF IInv, FilesInv
    <3> QED BY <3>1, <3>2, <1>3, <2>1, <2>2, AddLines
  <2>9. FilesInv'
    BY <2>7, <2>8, <1>2 DEF FilesInv, Intact, NoDuplicates
  <2>10. AllOrNothing'
    <3> SUFFICES ASSUME mishaps' \subseteq {"lost"}
                 PROVE  IsPrefix(Counted(before'), Counted(fav'))
      BY DEF AllOrNothing, OnlyTheChosenLineGoes
    <3> QED BY <2>7, <1>2
  <2> QED BY <2>5, <2>6, <2>9, <2>10 DEF IInv
<1>6. mishaps \cup {} = mishaps
  OBVIOUS
<1> QED BY <1>4, <1>5, <1>6 DEF handle_favorite_add, Mishap, Codes

\* handle_favorite_list changes no file.
LEMMA ListStep ==
  ASSUME IInv, handle_favorite_list
  PROVE  IInv'
<1>1. /\ pc = "idle" /\ before' = fav /\ typed' = 0 /\ target' = 0 /\ favTmp' = favTmp /\ pc' = pc
      /\ typed' \in Int /\ target' \in Int /\ fav' = fav
  BY DEF handle_favorite_list
<1>2. PICK seen \in ReadsOf(fav) :
        /\ answer' = [Silence EXCEPT !.op = "list", !.items = Shown(ListedKeys(seen))]
        /\ Mishap("unread", seen # fav)
  BY DEF handle_favorite_list
<1>3. Shown(ListedKeys(seen)) \in Seq(Keys \cup {NoKey})
  BY ReadFile DEF IInv, TypeOK, AnyFile
<1>4. answer' \in [op : {"none", "add", "list", "delete"}, arg : Int \cup Keys \cup {NoKey},
                    code : Codes, did : BOOLEAN, items : Seq(Keys \cup {NoKey})]
  <2>1. answer' = [op |-> "list", arg |-> 0, code |-> ERR_OK, did |-> FALSE,
                   items |-> Shown(ListedKeys(seen))]
    BY <1>2 DEF Silence
  <2> QED BY <2>1, <1>3 DEF Codes
<1>5. mishaps' \in {mishaps, mishaps \cup {"unread"}}
  BY <1>2 DEF Mishap
<1> QED BY <1>1, <1>4, <1>5, NoChangeStep

\* handle_favorite_delete refuses, or begins to copy.
LEMMA OpenStep ==
  ASSUME IInv, NEW n \in Numbers, DeleteOpen(n)
  PROVE  IInv'
<1>1. /\ pc = "idle" /\ before' = fav /\ typed' = n /\ target' = str_to_int(n) /\ fav' = fav
      /\ n \in Int /\ str_to_int(n) \in Int
  BY FavAssumption DEF DeleteOpen, str_to_int
<1>2. CASE /\ favTmp' = favTmp /\ pc' = pc
           /\ mishaps' \in {mishaps, mishaps \cup {"unread"}}
           /\ \E code \in Codes : Answer("delete", n, code, FALSE)
  <2>1. answer' \in [op : {"none", "add", "list", "delete"}, arg : Int \cup Keys \cup {NoKey},
                      code : Codes, did : BOOLEAN, items : Seq(Keys \cup {NoKey})]
    BY <1>1, <1>2, AnswerTypes
  <2> QED BY <1>1, <1>2, <2>1, NoChangeStep
<1>3. CASE /\ str_to_int(n) > 0 /\ fav # NoFile
           /\ favTmp' = OpenedTmp /\ pc' = "copy" /\ answer' = Silence
           /\ UNCHANGED mishaps
  <2>1. Empty \in File /\ favTmp' = Empty
    BY <1>3, EmptySeq DEF Empty, File, OpenedTmp
  <2>2. TypeOK'
    BY <1>1, <1>3, <2>1, SilenceType DEF IInv, TypeOK
  <2>3. DeleteInv'
    BY <1>1, <1>3, <2>1 DEF DeleteInv, str_to_int, Empty, Silence
  <2>4. FilesInv'
    BY <1>1, <1>3 DEF IInv, FilesInv, Intact, NoDuplicates
  <2>5. AllOrNothing'
    BY <1>3 DEF AllOrNothing, OnlyTheChosenLineGoes
  <2> QED BY <2>2, <2>3, <2>4, <2>5 DEF IInv
<1> QED BY <1>2, <1>3 DEF DeleteOpen, Mishap, Codes

\* A deletion that ends before the old file is removed.
LEMMA EndStep ==
  ASSUME IInv, pc \in {"copy", "remove"}, pc' = "idle", UNCHANGED <<fav, typed, target, before, mishaps>>,
         favTmp' \in AnyFile,
         answer' \in [op : {"none", "add", "list", "delete"}, arg : Int \cup Keys \cup {NoKey},
                      code : Codes, did : BOOLEAN, items : Seq(Keys \cup {NoKey})]
  PROVE  IInv'
<1> USE DEF IInv
<1>1. TypeOK'
  BY DEF TypeOK, AnyFile
<1>2. DeleteInv'
  BY DEF DeleteInv
<1>3. FilesInv'
  BY DEF FilesInv, Intact, NoDuplicates
<1>4. fav' = before' /\ before' \in AnyFile
  BY DEF DeleteInv, TypeOK, AnyFile
<1>5. AllOrNothing'
  <2>1. Counted(before') \in Seq(Line)
    BY <1>4, FileLines
  <2>2. IsPrefix(Counted(before'), Counted(fav'))
    BY <1>4, <2>1, PrefixSelf
  <2> QED BY <2>2 DEF AllOrNothing, OnlyTheChosenLineGoes
<1> QED BY <1>1, <1>2, <1>3, <1>5

\* What the copy loop puts behind nothing.
LEMMA CopyIs ==
  ASSUME favTmp = Empty, NEW kept \in Seq(Line), NEW g \in CopyOutcomes(kept)
  PROVE  \E m \in 0..Len(kept) : g = [lines |-> SubSeq(kept, 1, m), nl |-> TRUE]
                                 /\ g \in File /\ Len(g.lines) = m
<1>1. Len(kept) \in Nat
  BY LenProperties
<1>2. PICK m \in 0..Len(kept) : g = [lines |-> favTmp.lines \o SubSeq(kept, 1, m), nl |-> TRUE]
  <2> DEFINE M == IF "write" \in Faults THEN 0..Len(kept) ELSE {Len(kept)}
  <2>1. M \subseteq 0..Len(kept)
    BY <1>1
  <2>2. PICK m \in M : g = [lines |-> favTmp.lines \o SubSeq(kept, 1, m), nl |-> TRUE]
    BY DEF CopyOutcomes
  <2> HIDE DEF M
  <2> QED BY <2>1, <2>2
<1>3. SubSeq(kept, 1, m) \in Seq(Line) /\ Len(SubSeq(kept, 1, m)) = m
  BY WithinFirst
<1>4. favTmp.lines \o SubSeq(kept, 1, m) = SubSeq(kept, 1, m)
  BY <1>3, ConcatEmptySeq DEF Empty
<1>5. g = [lines |-> SubSeq(kept, 1, m), nl |-> TRUE]
  BY <1>2, <1>4
<1> QED BY <1>3, <1>5 DEF File

\* The lines but one are copied, or the number is missing.
LEMMA CopyStep ==
  ASSUME IInv, DeleteCopy
  PROVE  IInv'
<1>1. /\ pc = "copy" /\ UNCHANGED <<fav, typed, target, before>>
      /\ favTmp = Empty /\ fav = before /\ fav # NoFile /\ target > 0 /\ target \in Int
      /\ answer = Silence /\ fav \in AnyFile /\ before' = before /\ fav' = fav /\ target' = target
  BY DEF DeleteCopy, IInv, DeleteInv, TypeOK, AnyFile
<1>2. Counted(fav) \in Seq(Line) /\ Len(Counted(fav)) \in Nat
  BY <1>1, FileLines
<1>3. CASE /\ target > Len(Counted(fav))
           /\ favTmp' \in {NoFile} \cup (IF "remove" \in Faults THEN CopyOutcomes(Counted(fav)) ELSE {})
           /\ pc' = "idle"
           /\ Answer("delete", typed, ERR_OK, FALSE)
           /\ UNCHANGED mishaps
  <2>1. favTmp' \in AnyFile
    BY <1>1, <1>2, <1>3, CopyIs DEF AnyFile
  <2>2. answer' \in [op : {"none", "add", "list", "delete"}, arg : Int \cup Keys \cup {NoKey},
                      code : Codes, did : BOOLEAN, items : Seq(Keys \cup {NoKey})]
    BY <1>3, AnswerTypes DEF Codes, IInv, TypeOK
  <2> QED BY <1>1, <1>3, <2>1, <2>2, EndStep
<1>4. CASE /\ target <= Len(Counted(fav))
           /\ favTmp' \in CopyOutcomes(Copied(target))
           /\ pc' = "remove"
           /\ Mishap("short", Len(favTmp'.lines) < Len(Copied(target)))
           /\ UNCHANGED answer
  <2> DEFINE kept == RemoveAt(Counted(fav), target)
  <2>1. target \in 1..Len(Counted(fav)) /\ kept = Copied(target)
    BY <1>1, <1>2, <1>4 DEF Copied
  <2>2. kept \in Seq(Line)
    BY <1>2, <2>1, RemoveOne
  <2> HIDE DEF kept
  <2>3. PICK m \in 0..Len(kept) : /\ favTmp' = [lines |-> SubSeq(kept, 1, m), nl |-> TRUE]
                                  /\ favTmp' \in File /\ Len(favTmp'.lines) = m
    BY <1>1, <1>4, <2>1, <2>2, CopyIs
  <2>4. /\ mishaps' \in {mishaps, mishaps \cup {"short"}} /\ mishaps \subseteq mishaps'
        /\ m < Len(kept) => "short" \in mishaps'
    BY <1>4, <2>1, <2>3 DEF Mishap
  <2>5. TypeOK'
    BY <1>1, <1>4, <2>3, <2>4 DEF IInv, TypeOK
  <2>6. DeleteInv'
    <3>1. /\ before' # NoFile /\ answer' = Silence
          /\ typed' \in Numbers /\ target' = str_to_int(typed') /\ target' > 0
      BY <1>1, <1>4 DEF IInv, DeleteInv
    <3>2. kept = RemoveAt(Counted(before'), target') /\ target' <= Len(Counted(before'))
      BY <1>1, <1>4 DEF kept
    <3> QED BY <1>1, <1>4, <2>3, <2>4, <3>1, <3>2 DEF DeleteInv
  <2>7. FilesInv'
    BY <1>1, <2>4 DEF IInv, FilesInv, Intact, NoDuplicates
  <2>8. AllOrNothing'
    BY <1>4 DEF AllOrNothing, OnlyTheChosenLineGoes
  <2> QED BY <2>5, <2>6, <2>7, <2>8 DEF IInv
<1> QED BY <1>3, <1>4 DEF DeleteCopy

\* The old file goes, or the deletion is given up.
LEMMA RemoveStep ==
  ASSUME IInv, DeleteRemove
  PROVE  IInv'
<1>1. pc = "remove" /\ UNCHANGED <<typed, target, before, mishaps>> /\ favTmp \in AnyFile
  BY DEF DeleteRemove, IInv, TypeOK, AnyFile
<1>2. CASE fav' = NoFile /\ pc' = "rename" /\ UNCHANGED <<favTmp, answer>>
  <2>1. TypeOK'
    BY <1>1, <1>2 DEF IInv, TypeOK
  <2>2. DeleteInv'
    BY <1>1, <1>2 DEF IInv, DeleteInv
  <2>3. FilesInv'
    <3>1. NoDuplicates(NoFile) /\ Intact(NoFile)
      BY DEF NoDuplicates, Intact, LinesOf
    <3> QED BY <3>1, <1>1, <1>2 DEF IInv, FilesInv
  <2>4. AllOrNothing'
    BY <1>2 DEF AllOrNothing, OnlyTheChosenLineGoes
  <2> QED BY <2>1, <2>2, <2>3, <2>4 DEF IInv
<1>3. CASE /\ favTmp' \in AfterRemovingTmp /\ pc' = "idle"
           /\ Answer("delete", typed, ERR_SERVER_ERROR, FALSE)
           /\ UNCHANGED fav
  <2>1. favTmp' \in AnyFile
    BY <1>1, <1>3 DEF AfterRemovingTmp, AnyFile
  <2>2. answer' \in [op : {"none", "add", "list", "delete"}, arg : Int \cup Keys \cup {NoKey},
                      code : Codes, did : BOOLEAN, items : Seq(Keys \cup {NoKey})]
    BY <1>3, AnswerTypes DEF Codes, IInv, TypeOK
  <2> QED BY <1>1, <1>3, <2>1, <2>2, EndStep
<1> QED BY <1>2, <1>3 DEF DeleteRemove

\* The new file, ready to get its name.
LEMMA ReadyToRename ==
  ASSUME IInv, pc = "rename"
  PROVE  /\ fav = NoFile /\ before \in AnyFile /\ favTmp \in File
         /\ target \in 1..Len(Counted(before))
         /\ Within(LinesOf(favTmp), LinesOf(before))
         /\ "unread" \notin mishaps => NoDuplicates(favTmp)
         /\ mishaps \subseteq {"lost"} =>
              /\ Intact(before) /\ Intact(favTmp)
              /\ favTmp = [lines |-> SubSeq(RemoveAt(Counted(before), target), 1,
                                            Len(RemoveAt(Counted(before), target))), nl |-> TRUE]
<1>1. fav = NoFile /\ before \in AnyFile /\ target \in Int /\ target > 0 /\ target <= Len(Counted(before))
  BY DEF IInv, DeleteInv, TypeOK, AnyFile
<1>2. Counted(before) \in Seq(Line) /\ Len(Counted(before)) \in Nat
  BY <1>1, FileLines
<1>3. target \in 1..Len(Counted(before))
  BY <1>1, <1>2
<1> DEFINE kept == RemoveAt(Counted(before), target)
<1>4. Len(kept) \in Nat
  BY <1>2, <1>3, RemoveOne, LenProperties
<1>5. PICK m \in 0..Len(kept) : /\ favTmp = [lines |-> SubSeq(kept, 1, m), nl |-> TRUE]
                                /\ m < Len(kept) => "short" \in mishaps
  BY DEF IInv, DeleteInv
<1>6. favTmp \in File /\ Within(LinesOf(favTmp), LinesOf(before)) /\ favTmp.nl
  BY <1>1, <1>3, <1>5, CopyLines
<1>7. /\ NoDuplicates(before) => NoDuplicates(favTmp)
      /\ Intact(before) => Intact(favTmp)
  BY <1>1, <1>6, SomeOfTheLines DEF AnyFile
<1>8. "short" \notin mishaps => m = Len(kept)
  BY <1>4, <1>5
<1> HIDE DEF kept
<1>9. mishaps \subseteq {"lost"} => favTmp = [lines |-> SubSeq(kept, 1, Len(kept)), nl |-> TRUE]
  BY <1>5, <1>8
<1> QED BY <1>1, <1>3, <1>6, <1>7, <1>9 DEF IInv, FilesInv, kept

\* The new file takes its place, or it does not.
LEMMA RenameStep ==
  ASSUME IInv, DeleteRename
  PROVE  IInv'
<1>1. pc = "rename" /\ pc' = "idle" /\ UNCHANGED <<typed, target, before>> /\ favTmp \in AnyFile
      /\ before' = before /\ target' = target
  BY DEF DeleteRename, IInv, TypeOK, AnyFile
<1>2. /\ fav = NoFile /\ before \in AnyFile /\ favTmp \in File
      /\ target \in 1..Len(Counted(before))
      /\ "unread" \notin mishaps => NoDuplicates(favTmp)
      /\ mishaps \subseteq {"lost"} =>
           /\ Intact(before) /\ Intact(favTmp)
           /\ favTmp = [lines |-> SubSeq(RemoveAt(Counted(before), target), 1,
                                         Len(RemoveAt(Counted(before), target))), nl |-> TRUE]
  BY <1>1, ReadyToRename
<1>3. /\ Answer("delete", typed, ERR_OK, TRUE) \/ Answer("delete", typed, ERR_SERVER_ERROR, FALSE)
      /\ mishaps' \in {mishaps, mishaps \cup {"lost"}}
  BY DEF DeleteRename, Mishap
<1>4. answer' \in [op : {"none", "add", "list", "delete"}, arg : Int \cup Keys \cup {NoKey},
                    code : Codes, did : BOOLEAN, items : Seq(Keys \cup {NoKey})]
  <2>1. typed \in Int
    BY DEF IInv, TypeOK
  <2> QED BY <1>3, <2>1, AnswerTypes DEF Codes
<1>5. DeleteInv'
  BY <1>1 DEF DeleteInv
<1>6. CASE fav' = favTmp /\ favTmp' = NoFile /\ UNCHANGED mishaps
  <2>1. TypeOK'
    BY <1>1, <1>2, <1>4, <1>6 DEF IInv, TypeOK
  <2>2. FilesInv'
    BY <1>1, <1>2, <1>6 DEF IInv, FilesInv
  <2>3. AllOrNothing'
    <3> SUFFICES ASSUME mishaps \subseteq {"lost"} PROVE OnlyTheChosenLineGoes'
      BY <1>6 DEF AllOrNothing
    <3>1. Counted(fav') = RemoveAt(Counted(before'), target')
      BY <1>1, <1>2, <1>6, CopyOfIntact
    <3>2. Counted(fav') \in Seq(Line)
      BY <1>2, <1>6, FileLines DEF AnyFile
    <3>3. target' \in DOMAIN Counted(before')
      BY <1>1, <1>2, FileLines, LenProperties
    <3>4. IsPrefix(RemoveAt(Counted(before'), target'), Counted(fav'))
      BY <3>1, <3>2, PrefixSelf
    <3> QED BY <3>3, <3>4 DEF OnlyTheChosenLineGoes
  <2> QED BY <1>5, <2>1, <2>2, <2>3 DEF IInv
<1>7. CASE favTmp' \in AfterRemovingTmp /\ mishaps' = mishaps \cup {"lost"} /\ UNCHANGED fav
  <2>1. TypeOK'
    <3>1. favTmp' \in AnyFile
      BY <1>1, <1>7 DEF AfterRemovingTmp, AnyFile
    <3>2. mishaps' \subseteq {"damaged", "short", "unread", "lost"}
      BY <1>7 DEF IInv, TypeOK
    <3> QED BY <3>1, <3>2, <1>1, <1>4, <1>7 DEF IInv, TypeOK, AnyFile
  <2>2. FilesInv'
    BY <1>1, <1>7 DEF IInv, FilesInv
  <2>3. AllOrNothing'
    BY <1>2, <1>7 DEF AllOrNothing
  <2> QED BY <1>5, <2>1, <2>2, <2>3 DEF IInv
<1> QED BY <1>6, <1>7 DEF DeleteRename, Mishap

\* The server ends wherever it is, the deletion half done.
LEMMA CrashStep ==
  ASSUME IInv, Crash
  PROVE  IInv'
<1>1. /\ pc' = "idle" /\ answer' = Silence /\ UNCHANGED <<fav, favTmp, typed, target, before>>
      /\ mishaps' = mishaps \cup (IF pc = "rename" THEN {"lost"} ELSE {})
  BY DEF Crash, Mishap
<1>2. CASE pc \in {"copy", "remove"}
  <2>1. mishaps' = mishaps
    BY <1>1, <1>2
  <2> QED BY <1>1, <1>2, <2>1, SilenceType, EndStep DEF IInv, TypeOK, AnyFile
<1>3. CASE pc \notin {"copy", "remove"}
  <2>1. pc = "idle" \/ (pc = "rename" /\ fav = NoFile)
    BY <1>3 DEF IInv, TypeOK, DeleteInv
  <2>2. TypeOK'
    <3>1. mishaps' \subseteq {"damaged", "short", "unread", "lost"}
      BY <1>1 DEF IInv, TypeOK
    <3> QED BY <3>1, <1>1, SilenceType DEF IInv, TypeOK
  <2>3. DeleteInv'
    BY <1>1 DEF DeleteInv
  <2>4. FilesInv'
    BY <1>1 DEF IInv, FilesInv
  <2>5. AllOrNothing'
    <3>1. CASE pc = "idle"
      BY <1>1, <3>1 DEF IInv, AllOrNothing, OnlyTheChosenLineGoes
    <3>2. CASE pc = "rename" /\ fav = NoFile
      BY <1>1, <3>2 DEF AllOrNothing
    <3> QED BY <2>1, <3>1, <3>2
  <2> QED BY <2>2, <2>3, <2>4, <2>5 DEF IInv
<1> QED BY <1>2, <1>3

\* Every step keeps the invariant.
LEMMA NextIInv == IInv /\ [Next]_vars => IInv'
<1> SUFFICES ASSUME IInv, [Next]_vars PROVE IInv'
  OBVIOUS
<1>1. CASE UNCHANGED vars
  BY <1>1 DEF vars, IInv, TypeOK, DeleteInv, FilesInv, AllOrNothing, OnlyTheChosenLineGoes
<1>2. ASSUME NEW p \in AddReqs, handle_favorite_add(p) PROVE IInv'
  BY <1>2, AddStep
<1>3. CASE handle_favorite_list
  BY <1>3, ListStep
<1>4. ASSUME NEW n \in Numbers, DeleteOpen(n) PROVE IInv'
  BY <1>4, OpenStep
<1>5. CASE DeleteCopy
  BY <1>5, CopyStep
<1>6. CASE DeleteRemove
  BY <1>6, RemoveStep
<1>7. CASE DeleteRename
  BY <1>7, RenameStep
<1>8. CASE Crash
  BY <1>8, CrashStep
<1> QED BY <1>1, <1>2, <1>3, <1>4, <1>5, <1>6, <1>7, <1>8 DEF Next

-----------------------------------------------------------------------------
(* The store of FavoriteStore *)

\* The numbers asked for are ones an int holds.
FitAnInt == \A n \in Numbers : str_to_int(n) = n

\* Without a mishap the store holds what the files list.
LEMMA StoreState ==
  ASSUME IInv, mishaps = {}
  PROVE  /\ Entries = ListedKeys(IF pc = "rename" THEN before ELSE fav)
         /\ Entries \in Seq(Keys) /\ IsInjective(Entries)
         /\ pc # "rename" => Intact(fav) /\ Entries = ListedKeys(fav)
         /\ pc # "idle" => Intact(before) /\ Entries = ListedKeys(before)
         /\ fav \in AnyFile /\ before \in AnyFile
<1>1. Intact(fav) /\ Intact(before) /\ fav \in AnyFile /\ before \in AnyFile
  BY DEF IInv, FilesInv, TypeOK, AnyFile
<1>2. /\ ListedKeys(fav) \in Seq(Keys) /\ IsInjective(ListedKeys(fav))
      /\ ListedKeys(before) \in Seq(Keys) /\ IsInjective(ListedKeys(before))
  BY <1>1, IntactLines
<1>3. Entries = ListedKeys(IF pc = "rename" THEN before ELSE fav)
  BY DEF Entries
<1>4. pc # "idle" /\ pc # "rename" => fav = before
  BY DEF IInv, DeleteInv, TypeOK
<1> QED BY <1>1, <1>2, <1>3, <1>4

\* The files map to a store before its first request.
LEMMA StoreStarts == Init => Store!StoreInit
<1> SUFFICES ASSUME Init PROVE Store!StoreInit
  OBVIOUS
<1>1. Entries \in Seq(Keys) /\ IsInjective(Entries)
  <2>1. CASE mishaps = {}
    BY <2>1, InitIInv, StoreState
  <2>2. CASE mishaps # {}
    <3>1. Entries = <<>> /\ <<>> \in Seq(Keys)
      BY <2>2, EmptySeq DEF Entries
    <3> QED BY <3>1 DEF IsInjective
  <2> QED BY <2>1, <2>2
<1>2. Told = Store!Nothing
  BY DEF Init, Told, Silence, Store!Nothing
<1>3. (mishaps = {}) \in BOOLEAN
  OBVIOUS
<1> QED BY <1>1, <1>2, <1>3 DEF Store!StoreInit, Store!IsInjective, IsInjective

\* After a mishap the store is lost.
LEMMA LostStep ==
  ASSUME mishaps' # {}
  PROVE  Store!StoreNext
<1>1. Entries' = <<>> /\ Told' = Store!Nothing
  BY DEF Entries, Told, Store!Nothing
<1>2. Store!StoreLost
  BY <1>1 DEF Store!StoreLost
<1> QED BY <1>2 DEF Store!StoreNext

\* A step without a mishap is one of the store if it is a served request.
LEMMA ServedStep ==
  ASSUME mishaps = {}, mishaps' = {},
         \/ \E k \in Keys : Store!StoreAdd(k) \/ Store!StoreAddAgain(k)
         \/ Store!StoreDelete(Told'.arg)
         \/ Store!StoreDeleteMissing(Told'.arg)
         \/ Store!StoreList \/ Store!StoreRefuse \/ Store!StoreStart
  PROVE  Store!StoreNext
<1> QED BY DEF Store!StoreNext, Store!StoreServe

\* The answer as the store gives it: the request was done, or refused.
LEMMA ToldDone ==
  ASSUME mishaps' = {}, NEW op, NEW arg, NEW did, Answer(op, arg, ERR_OK, did)
  PROVE  Told' = [op |-> op, arg |-> arg, ok |-> TRUE, did |-> did, items |-> <<>>]
<1>1. /\ answer'.op = op /\ answer'.arg = arg /\ answer'.did = did /\ answer'.items = <<>>
      /\ (answer'.code = ERR_OK) = TRUE
  BY DEF Answer
<1> QED BY <1>1 DEF Told

\* What is refused did nothing.
LEMMA ToldRefused ==
  ASSUME mishaps' = {}, NEW op, NEW arg, NEW code, code # ERR_OK, Answer(op, arg, code, FALSE)
  PROVE  Told'.ok = FALSE /\ Told'.did = FALSE
<1>1. answer'.did = FALSE /\ (answer'.code = ERR_OK) = FALSE
  BY DEF Answer
<1> QED BY <1>1 DEF Told

\* The codes of refusals are not that of success.
LEMMA Refusals == \A code \in {ERR_INVALID_REQUEST, ERR_NOT_FOUND, ERR_SERVER_ERROR} : code # ERR_OK
<1> QED BY DEF ERR_OK, ERR_INVALID_REQUEST, ERR_NOT_FOUND, ERR_SERVER_ERROR

\* Without an answer nothing was told.
LEMMA ToldNothing ==
  ASSUME mishaps' = {}, answer' = Silence
  PROVE  Told' = Store!Nothing
<1> QED BY DEF Told, Silence, Store!Nothing

\* An addition is one of the store, or a refusal.
LEMMA StoreAdds ==
  ASSUME IInv, NEW p \in AddReqs, handle_favorite_add(p)
  PROVE  Store!StoreNext
<1> SUFFICES ASSUME mishaps' = {} PROVE Store!StoreNext
  BY LostStep
<1> DEFINE k == normalize(p)
<1>1. k \in Keys \cup {NoKey}
  BY FavAssumption DEF normalize
<1>2. pc = "idle" /\ pc' = "idle" /\ mishaps = {}
  BY DEF handle_favorite_add, Mishap
<1>3. /\ Intact(fav) /\ fav \in AnyFile
      /\ Entries = ListedKeys(fav) /\ Entries' = ListedKeys(fav')
  BY <1>2, StoreState DEF Entries
<1>4. CASE fav' = fav /\ (Answer("add", k, ERR_INVALID_REQUEST, FALSE) \/ Answer("add", k, ERR_NOT_FOUND, FALSE)
                           \/ Answer("add", k, ERR_SERVER_ERROR, FALSE))
  <2> HIDE DEF k
  <2>1. Told'.ok = FALSE /\ Told'.did = FALSE
    BY <1>4, ToldRefused, Refusals
  <2>2. Store!StoreRefuse
    BY <2>1, <1>3, <1>4 DEF Store!StoreRefuse
  <2> QED BY <1>2, <2>2, ServedStep
<1>5. CASE fav' = fav /\ k # NoKey /\ favorite_exists(fav, k) /\ Answer("add", k, ERR_OK, FALSE)
  <2> HIDE DEF k
  <2>1. k \in Keys /\ k \in Range(Entries)
    BY <1>1, <1>3, <1>5, IntactLines
  <2>2. Told' = [op |-> "add", arg |-> k, ok |-> TRUE, did |-> FALSE, items |-> <<>>]
    BY <1>5, ToldDone
  <2>3. Store!StoreAddAgain(k)
    BY <2>1, <2>2, <1>3, <1>5 DEF Store!StoreAddAgain, Store!Tell, Store!Range, Range
  <2> QED BY <1>2, <2>1, <2>3, ServedStep
<1>6. CASE /\ k # NoKey /\ ~ favorite_exists(fav, k) /\ fav' \in Appended(fav, Rec(k), TRUE)
           /\ Answer("add", k, ERR_OK, TRUE)
  <2> HIDE DEF k
  <2>1. k \in Keys /\ k \notin Range(Entries)
    BY <1>1, <1>3, <1>6, IntactLines
  <2>2. Told' = [op |-> "add", arg |-> k, ok |-> TRUE, did |-> TRUE, items |-> <<>>]
    BY <1>6, ToldDone
  <2>3. Entries' = Append(Entries, k)
    BY <1>3, <1>6, <2>1, AddToIntact
  <2>4. Store!StoreAdd(k)
    BY <2>1, <2>2, <2>3 DEF Store!StoreAdd, Store!Tell, Store!Range, Range
  <2> QED BY <1>2, <2>1, <2>4, ServedStep
<1>7. \A seen \in ReadsOf(fav) : Mishap("unread", seen # fav) => seen = fav
  BY DEF Mishap
<1> QED BY <1>4, <1>5, <1>6, <1>7 DEF handle_favorite_add

\* A listing is one of the store.
LEMMA StoreLists ==
  ASSUME IInv, handle_favorite_list
  PROVE  Store!StoreNext
<1> SUFFICES ASSUME mishaps' = {} PROVE Store!StoreNext
  BY LostStep
<1>1. pc = "idle" /\ pc' = "idle" /\ mishaps = {} /\ fav' = fav
      /\ answer' = [Silence EXCEPT !.op = "list", !.items = Shown(ListedKeys(fav))]
  BY DEF handle_favorite_list, Mishap
<1>2. fav \in AnyFile /\ fav \in ReadsOf(fav) /\ Entries = ListedKeys(fav) /\ Entries' = Entries
  BY <1>1, StoreState DEF Entries, ReadsOf
<1>3. PICK m \in 0..Len(Entries) : Shown(ListedKeys(fav)) = SubSeq(Entries, 1, m)
  BY <1>2, ReadFile
<1>4. Told' = [op |-> "list", arg |-> 0, ok |-> TRUE, did |-> FALSE, items |-> SubSeq(Entries, 1, m)]
  <2>1. /\ answer'.op = "list" /\ answer'.arg = 0 /\ answer'.did = FALSE
        /\ answer'.items = SubSeq(Entries, 1, m) /\ (answer'.code = ERR_OK) = TRUE
    BY <1>1, <1>3 DEF Silence
  <2> QED BY <2>1 DEF Told
<1>5. Store!StoreList
  BY <1>2, <1>4 DEF Store!StoreList
<1> QED BY <1>1, <1>5, ServedStep

\* A refused deletion is refused by the store too; one that begins is its StoreStart.
LEMMA StoreOpens ==
  ASSUME IInv, FitAnInt, NEW n \in Numbers, DeleteOpen(n)
  PROVE  Store!StoreNext
<1> SUFFICES ASSUME mishaps' = {} PROVE Store!StoreNext
  BY LostStep
<1>1. pc = "idle" /\ pc' \in {"idle", "copy"} /\ mishaps = {} /\ fav' = fav
  BY DEF DeleteOpen, Mishap
<1>2. Entries = ListedKeys(fav) /\ Entries' = Entries /\ Intact(fav) /\ fav \in AnyFile
  BY <1>1, StoreState DEF Entries
<1>3. CASE Answer("delete", n, ERR_INVALID_REQUEST, FALSE) \/ Answer("delete", n, ERR_SERVER_ERROR, FALSE)
  <2>1. Told'.ok = FALSE /\ Told'.did = FALSE
    BY <1>3, ToldRefused, Refusals
  <2>2. Store!StoreRefuse
    BY <2>1, <1>2 DEF Store!StoreRefuse
  <2> QED BY <1>1, <2>2, ServedStep
<1>4. CASE Answer("delete", n, ERR_OK, FALSE) /\ Mishap("unread", fav # NoFile)
  <2>1. fav = NoFile
    BY <1>4 DEF Mishap
  <2>2. n \notin DOMAIN Entries
    <3>1. Len(LinesOf(fav)) = 0
      BY <2>1, EmptySeq DEF LinesOf
    <3>2. Entries \in Seq(Keys) /\ Len(Entries) = 0
      BY <3>1, <1>2, IntactLines
    <3> QED BY <3>2, LenProperties
  <2>3. Told' = [op |-> "delete", arg |-> n, ok |-> TRUE, did |-> FALSE, items |-> <<>>]
    BY <1>4, ToldDone
  <2>4. Store!StoreDeleteMissing(Told'.arg)
    BY <2>2, <2>3, <1>2 DEF Store!StoreDeleteMissing, Store!Tell
  <2> QED BY <1>1, <2>4, ServedStep
<1>5. CASE answer' = Silence
  <2>1. Store!StoreStart
    BY <1>2, <1>5, ToldNothing DEF Store!StoreStart
  <2> QED BY <1>1, <2>1, ServedStep
<1> QED BY <1>3, <1>4, <1>5 DEF DeleteOpen

\* Copying goes on with the deletion, or finds that the number is missing.
LEMMA StoreCopies ==
  ASSUME IInv, FitAnInt, DeleteCopy
  PROVE  Store!StoreNext
<1> SUFFICES ASSUME mishaps' = {} PROVE Store!StoreNext
  BY LostStep
<1>1. /\ pc = "copy" /\ pc' \in {"idle", "remove"} /\ mishaps = {} /\ fav' = fav /\ fav = before
      /\ target = typed /\ answer = Silence
  BY DEF DeleteCopy, Mishap, IInv, DeleteInv, FitAnInt
<1>2. Entries = ListedKeys(fav) /\ Entries' = Entries /\ Intact(fav) /\ fav \in AnyFile
  BY <1>1, StoreState DEF Entries
<1>3. CASE target > Len(Counted(fav)) /\ Answer("delete", typed, ERR_OK, FALSE)
  <2>1. typed \notin DOMAIN Entries
    <3>1. Entries \in Seq(Keys) /\ Len(Entries) = Len(Counted(fav))
      BY <1>2, IntactLines
    <3> QED BY <3>1, <1>1, <1>3, LenProperties
  <2>2. Told' = [op |-> "delete", arg |-> typed, ok |-> TRUE, did |-> FALSE, items |-> <<>>]
    BY <1>3, ToldDone
  <2>3. Store!StoreDeleteMissing(Told'.arg)
    BY <2>1, <2>2, <1>2 DEF Store!StoreDeleteMissing, Store!Tell
  <2> QED BY <1>1, <2>3, ServedStep
<1>4. CASE UNCHANGED answer
  <2>1. Store!StoreStart
    BY <1>1, <1>2, <1>4, ToldNothing DEF Store!StoreStart
  <2> QED BY <1>1, <2>1, ServedStep
<1> QED BY <1>3, <1>4 DEF DeleteCopy

\* The old file is gone, but the store is as it was; or the deletion is refused.
LEMMA StoreRemoves ==
  ASSUME IInv, DeleteRemove
  PROVE  Store!StoreNext
<1> SUFFICES ASSUME mishaps' = {} PROVE Store!StoreNext
  BY LostStep
<1>1. /\ pc = "remove" /\ mishaps = {} /\ fav = before /\ before' = before /\ answer = Silence
  BY DEF DeleteRemove, IInv, DeleteInv
<1>2. Entries = ListedKeys(fav)
  BY <1>1 DEF Entries
<1>3. CASE pc' = "rename" /\ UNCHANGED answer
  <2>1. Entries' = Entries
    BY <1>1, <1>2, <1>3 DEF Entries
  <2>2. Store!StoreStart
    BY <1>1, <1>3, <2>1, ToldNothing DEF Store!StoreStart
  <2> QED BY <1>1, <2>2, ServedStep
<1>4. CASE pc' = "idle" /\ fav' = fav /\ Answer("delete", typed, ERR_SERVER_ERROR, FALSE)
  <2>1. Entries' = Entries
    BY <1>1, <1>2, <1>4 DEF Entries
  <2>2. Told'.ok = FALSE /\ Told'.did = FALSE
    BY <1>4, ToldRefused, Refusals
  <2>3. Store!StoreRefuse
    BY <2>1, <2>2 DEF Store!StoreRefuse
  <2> QED BY <1>1, <2>3, ServedStep
<1> QED BY <1>3, <1>4 DEF DeleteRemove

\* The renaming is the deletion of the store.
LEMMA StoreRenames ==
  ASSUME IInv, FitAnInt, DeleteRename
  PROVE  Store!StoreNext
<1> SUFFICES ASSUME mishaps' = {} PROVE Store!StoreNext
  BY LostStep
<1>1. /\ pc = "rename" /\ pc' = "idle" /\ mishaps = {} /\ target = typed
      /\ fav' = favTmp /\ Answer("delete", typed, ERR_OK, TRUE)
  BY DEF DeleteRename, Mishap, IInv, DeleteInv, FitAnInt
<1>2. /\ before \in AnyFile /\ Intact(before) /\ target \in 1..Len(Counted(before))
      /\ favTmp = [lines |-> SubSeq(RemoveAt(Counted(before), target), 1,
                                    Len(RemoveAt(Counted(before), target))), nl |-> TRUE]
  BY <1>1, ReadyToRename
<1>3. Entries = ListedKeys(before) /\ Entries' = ListedKeys(favTmp)
  BY <1>1 DEF Entries
<1>4. Entries' = RemoveAt(Entries, typed) /\ typed \in DOMAIN Entries
  BY <1>1, <1>2, <1>3, CopyOfIntact
<1>5. Told' = [op |-> "delete", arg |-> typed, ok |-> TRUE, did |-> TRUE, items |-> <<>>]
  BY <1>1, ToldDone
<1>6. Store!StoreDelete(Told'.arg)
  BY <1>4, <1>5 DEF Store!StoreDelete, Store!Tell, Store!RemoveAt, RemoveAt
<1> QED BY <1>1, <1>6, ServedStep

\* The end of the server leaves the store as it was.
LEMMA StoreCrashes ==
  ASSUME IInv, Crash
  PROVE  Store!StoreNext
<1> SUFFICES ASSUME mishaps' = {} PROVE Store!StoreNext
  BY LostStep
<1>1. pc # "rename" /\ pc' = "idle" /\ mishaps = {} /\ fav' = fav /\ answer' = Silence
  BY DEF Crash, Mishap
<1>2. Entries' = Entries
  BY <1>1 DEF Entries
<1>3. Store!StoreStart
  BY <1>1, <1>2, ToldNothing DEF Store!StoreStart
<1> QED BY <1>1, <1>3, ServedStep

\* Every step is one of the store, or leaves it alone.
LEMMA StoreStep ==
  ASSUME FitAnInt, IInv, [Next]_vars
  PROVE  [Store!StoreNext]_(Store!storeVars)
<1>1. CASE UNCHANGED vars
  BY <1>1 DEF vars, Store!storeVars, Entries, Told
<1>2. ASSUME NEW p \in AddReqs, handle_favorite_add(p) PROVE Store!StoreNext
  BY <1>2, StoreAdds
<1>3. CASE handle_favorite_list
  BY <1>3, StoreLists
<1>4. ASSUME NEW n \in Numbers, DeleteOpen(n) PROVE Store!StoreNext
  BY <1>4, StoreOpens
<1>5. CASE DeleteCopy
  BY <1>5, StoreCopies
<1>6. CASE DeleteRemove
  BY <1>6, StoreRemoves
<1>7. CASE DeleteRename
  BY <1>7, StoreRenames
<1>8. CASE Crash
  BY <1>8, StoreCrashes
<1> QED BY <1>1, <1>2, <1>3, <1>4, <1>5, <1>6, <1>7, <1>8 DEF Next

-----------------------------------------------------------------------------
\* Every reachable state satisfies the invariant.
THEOREM InvariantHolds == Spec => []IInv
<1> QED BY InitIInv, NextIInv, PTL DEF Spec

\* The files, the numbers and the answers stay what they are declared to be.
THEOREM TypeCorrect == Spec => []TypeOK
<1>1. IInv => TypeOK
  BY DEF IInv
<1> QED BY <1>1, InvariantHolds, PTL

\* Requirement FR-U03: handle_favorite_add and handle_favorite_delete never leave two
\* lines with one type and id, whatever fails, short of an unreadable file.
THEOREM NothingTwice == Spec => []NoDuplicateFavorites
<1>1. IInv => NoDuplicateFavorites
  BY DEF IInv, FilesInv, NoDuplicateFavorites
<1> QED BY <1>1, InvariantHolds, PTL

\* Requirement FR-U04: handle_favorite_delete takes the chosen line and no other, or
\* nothing; the whole list goes only with the calls that replace the file parted.
THEOREM AllGoesOrNothing == Spec => []AllOrNothing
<1>1. IInv => AllOrNothing
  BY DEF IInv
<1> QED BY <1>1, InvariantHolds, PTL

\* What handle_favorite_delete leaves in favorites.tmp, no later request brings back.
THEOREM DeletedStaysDeleted == Spec => NothingReappears
<1> DEFINE Old == KeysIn(IF pc = "rename" THEN before ELSE fav)
           Step == KeysIn(fav') \subseteq Old \cup {NoKey, answer'.arg}
<1>1. ASSUME IInv, [Next]_vars PROVE Step
  <2>1. CASE fav' = fav
    <3>1. CASE pc = "rename"
      <4>1. LinesOf(fav') = <<>>
        BY <1>1, <2>1, <3>1, ReadyToRename DEF LinesOf
      <4>2. KeysIn(fav') = {}
        BY <4>1 DEF KeysIn
      <4> QED BY <4>2
    <3>2. CASE pc # "rename"
      BY <2>1, <3>2
    <3> QED BY <3>1, <3>2
  <2>2. ASSUME NEW p \in AddReqs, handle_favorite_add(p), fav' # fav PROVE Step
    <3> DEFINE k == normalize(p)
    <3>1. /\ pc # "rename" /\ k # NoKey /\ Answer("add", k, ERR_OK, TRUE)
          /\ fav' \in AppendOutcomes(fav, k)
      BY <2>2 DEF handle_favorite_add
    <3>2. k \in Keys /\ fav \in AnyFile
      BY <1>1, <3>1, FavAssumption DEF normalize, IInv, TypeOK, AnyFile
    <3> HIDE DEF k
    <3>3. KeysIn(fav') \subseteq KeysIn(fav) \cup {NoKey, k}
      BY <3>1, <3>2, AddLines
    <3>4. answer'.arg = k
      BY <3>1 DEF Answer
    <3> QED BY <3>1, <3>3, <3>4
  <2>3. CASE DeleteRemove /\ fav' # fav
    <3>1. fav' = NoFile
      BY <2>3 DEF DeleteRemove
    <3>2. KeysIn(fav') = {}
      BY <3>1 DEF KeysIn, LinesOf
    <3> QED BY <3>2
  <2>4. CASE DeleteRename /\ fav' # fav
    <3>1. pc = "rename" /\ fav' = favTmp
      BY <2>4 DEF DeleteRename
    <3>2. before \in AnyFile /\ favTmp \in AnyFile /\ Within(LinesOf(favTmp), LinesOf(before))
      BY <1>1, <3>1, ReadyToRename DEF AnyFile
    <3>3. KeysIn(favTmp) \subseteq KeysIn(before)
      BY <3>2, SomeOfTheLines
    <3> QED BY <3>1, <3>3
  <2>5. Next /\ fav' # fav => \/ \E p \in AddReqs : handle_favorite_add(p)
                            \/ DeleteRemove \/ DeleteRename
    BY DEF Next, handle_favorite_list, DeleteOpen, DeleteCopy, Crash
  <2> QED BY <1>1, <2>1, <2>2, <2>3, <2>4, <2>5 DEF vars
<1>2. IInv /\ [Next]_vars => [Step]_vars
  BY <1>1
<1> HIDE DEF Step
<1>3. Spec => [][Step]_vars
  BY <1>2, InvariantHolds, PTL DEF Spec
<1> QED BY <1>3 DEF NothingReappears, Step

\* Short of the mishaps, the handlers on favorites.txt are the store of FavoriteStore,
\* for numbers an int holds.
THEOREM ImplementsTheStore == FitAnInt => (Spec => ImplementsStore)
<1> SUFFICES ASSUME FitAnInt PROVE Spec => ImplementsStore
  OBVIOUS
<1>1. Init => Store!StoreInit
  BY StoreStarts
<1>2. IInv /\ [Next]_vars => [Store!StoreNext]_(Store!storeVars)
  BY StoreStep
<1> QED BY <1>1, <1>2, InvariantHolds, PTL DEF Spec, ImplementsStore, Store!StoreSpec
=============================================================================
