------------------------- MODULE TransferServiceProofs -------------------------
(***************************************************************************)
(* Proofs about TransferService, for any graph, any names and sizes and    *)
(* any packet that ServiceAssumption allows: the answer starts and ends    *)
(* where it should, is never cut but at its end, and means the same to the *)
(* client as to the server.                                                *)
(***************************************************************************)
EXTENDS TransferService, BasicLemmas

-----------------------------------------------------------------------------
(* The places a keyword stands for *)

\* The least index in a set, or 0: what SelectInSeq returns.
First(I) == IF I # {} THEN Min(I) ELSE 0

\* The first of some numbers, or 0.
LEMMA FirstIn ==
  ASSUME NEW m \in Nat, NEW I \in SUBSET (1..m)
  PROVE  /\ First(I) \in Nat
         /\ First(I) = 0 <=> I = {}
         /\ First(I) # 0 => First(I) \in I
<1>1. I \subseteq Nat
  OBVIOUS
<1>2. I # {} => First(I) \in I
  BY <1>1, LeastNumber DEF First
<1>3. I = {} => First(I) = 0
  BY DEF First
<1>4. \A i \in I : i \in Nat /\ i # 0
  OBVIOUS
<1>5. CASE I = {}
  BY <1>3, <1>5
<1>6. CASE I # {}
  BY <1>2, <1>4, <1>6
<1> QED BY <1>5, <1>6

\* FirstFound over three and over two results.
LEMMA FirstOfThree ==
  ASSUME NEW a \in Nat, NEW b \in Nat, NEW c \in Nat
  PROVE  FirstFound(<<a, b, c>>) = IF a # 0 THEN a ELSE IF b # 0 THEN b ELSE c
<1> DEFINE is == <<a, b, c>>
           I  == {i \in 1..3 : is[i] # 0}
<1>1. DOMAIN is = 1..3 /\ Len(is) = 3 /\ is[1] = a /\ is[2] = b /\ is[3] = c
  OBVIOUS
<1>2. SelectInSeq(is, LAMBDA i : i # 0) = First(I)
  BY <1>1 DEF SelectInSeq, First
<1>3. FirstFound(is) = IF \E n \in 1..3 : is[n] # 0 THEN is[First(I)] ELSE 0
  BY <1>1, <1>2 DEF FirstFound
<1>4. I # {} => First(I) \in I /\ \A n \in I : First(I) <= n
  <2>1. I \subseteq Nat
    OBVIOUS
  <2> HIDE DEF I
  <2> QED BY <2>1, LeastNumber DEF First
<1>5. \A n \in 1..3 : n \in I <=> is[n] # 0
  OBVIOUS
<1>6. \A n \in I : n \in 1..3
  OBVIOUS
<1> HIDE DEF is, I
<1>7. CASE a # 0
  <2>1. 1 \in I
    BY <1>1, <1>5, <1>7
  <2>2. First(I) = 1
    BY <2>1, <1>4, <1>6
  <2> QED BY <2>1, <2>2, <1>1, <1>3, <1>5, <1>7 DEF is
<1>8. CASE a = 0 /\ b # 0
  <2>1. 2 \in I /\ 1 \notin I
    BY <1>1, <1>5, <1>8
  <2>2. First(I) = 2
    BY <2>1, <1>4, <1>6
  <2> QED BY <2>1, <2>2, <1>1, <1>3, <1>5, <1>8 DEF is
<1>9. CASE a = 0 /\ b = 0 /\ c # 0
  <2>1. 3 \in I /\ 2 \notin I /\ 1 \notin I
    BY <1>1, <1>5, <1>9
  <2>2. First(I) = 3
    BY <2>1, <1>4, <1>6
  <2> QED BY <2>1, <2>2, <1>1, <1>3, <1>5, <1>9 DEF is
<1>10. CASE a = 0 /\ b = 0 /\ c = 0
  <2>1. \A n \in 1..3 : is[n] = 0
    BY <1>1, <1>10
  <2> QED BY <2>1, <1>3, <1>10 DEF is
<1> QED BY <1>7, <1>8, <1>9, <1>10

\* The places are the indices of the graph.
LEMMA GraphIsSeq == Len(Graph) \in Nat /\ Places = 1..Len(Graph)
<1>1. Graph \in Seq(Range(Graph))
  BY ServiceAssumption
<1> QED BY <1>1, LenProperties DEF Places

\* What BestMatch finds: of the places with these names, one of the best kind there is.
LEMMA BestOf ==
  ASSUME NEW kw, NEW names
  PROVE  LET r == BestMatch(kw, names)
         IN  /\ r \in Nat
             /\ r = 0 <=> \A i \in Places : NameOf(i) \notin names
             /\ r # 0 =>
                  /\ r \in Places /\ NameOf(r) \in names
                  /\ \A i \in Places :
                       NameOf(i) \in names /\ kw \in StationLike /\ Graph[i].station
                         => kw \in StationLike /\ Graph[r].station
                  /\ \A i \in Places :
                       NameOf(i) \in names /\ Graph[i].located
                         => Graph[r].located \/ (kw \in StationLike /\ Graph[r].station)
<1> DEFINE A == {i \in 1..Len(Graph) :
                   Graph[i].name \in names /\ kw \in StationLike /\ Graph[i].station}
           B == {i \in 1..Len(Graph) : Graph[i].name \in names /\ Graph[i].located}
           C == {i \in 1..Len(Graph) : Graph[i].name \in names}
<1>1. /\ SelectInSeq(Graph, LAMBDA n : n.name \in names /\ kw \in StationLike /\ n.station) = First(A)
      /\ SelectInSeq(Graph, LAMBDA n : n.name \in names /\ n.located) = First(B)
      /\ SelectInSeq(Graph, LAMBDA n : n.name \in names) = First(C)
  BY DEF SelectInSeq, First
<1>2. /\ First(A) \in Nat /\ (First(A) = 0 <=> A = {}) /\ (First(A) # 0 => First(A) \in A)
      /\ First(B) \in Nat /\ (First(B) = 0 <=> B = {}) /\ (First(B) # 0 => First(B) \in B)
      /\ First(C) \in Nat /\ (First(C) = 0 <=> C = {}) /\ (First(C) # 0 => First(C) \in C)
  <2>1. A \in SUBSET (1..Len(Graph)) /\ B \in SUBSET (1..Len(Graph)) /\ C \in SUBSET (1..Len(Graph))
    OBVIOUS
  <2> HIDE DEF A, B, C
  <2> QED BY <2>1, GraphIsSeq, FirstIn
<1>3. BestMatch(kw, names) = IF First(A) # 0 THEN First(A) ELSE IF First(B) # 0 THEN First(B) ELSE First(C)
  BY <1>1, <1>2, FirstOfThree DEF BestMatch
<1> QED BY <1>2, <1>3, GraphIsSeq DEF NameOf

\* What resolve_node_by_keyword finds: a place of the least rank there is, if it is of
\* any rank at all.
LEMMA Resolves ==
  ASSUME NEW kw
  PROVE  LET r == resolve_node_by_keyword(kw)
         IN  /\ r = 0 <=> \A i \in Places : Rank(i, kw) = 7
             /\ r # 0 => /\ r \in Places /\ Rank(r, kw) < 7
                         /\ \A i \in Places : Rank(r, kw) <= Rank(i, kw)
<1> DEFINE A == {i \in 1..Len(Graph) : Graph[i].id = kw}
           b == BestMatch(kw, {kw})
           c == BestMatch(kw, NamesWith(Graph, kw))
<1>1. SelectInSeq(Graph, LAMBDA n : n.id = kw) = First(A)
  BY DEF SelectInSeq, First
<1>2. First(A) \in Nat /\ (First(A) = 0 <=> A = {}) /\ (First(A) # 0 => First(A) \in A)
  <2>1. A \in SUBSET (1..Len(Graph))
    OBVIOUS
  <2> HIDE DEF A
  <2> QED BY <2>1, GraphIsSeq, FirstIn
<1>3. /\ b \in Nat
      /\ b = 0 <=> \A i \in Places : NameOf(i) # kw
      /\ b # 0 =>
           /\ b \in Places /\ NameOf(b) = kw
           /\ \A i \in Places : NameOf(i) = kw /\ kw \in StationLike /\ Graph[i].station
                                  => kw \in StationLike /\ Graph[b].station
           /\ \A i \in Places : NameOf(i) = kw /\ Graph[i].located
                                  => Graph[b].located \/ (kw \in StationLike /\ Graph[b].station)
  <2>1. \A x : x \in {kw} <=> x = kw
    OBVIOUS
  <2> QED BY <2>1, BestOf
<1>4. \A i \in Places : NameOf(i) \in NamesWith(Graph, kw) <=> keyword_match(NameOf(i), kw)
  BY DEF NamesWith, NameOf, Places
<1>5. /\ c \in Nat
      /\ c = 0 <=> \A i \in Places : ~ keyword_match(NameOf(i), kw)
      /\ c # 0 =>
           /\ c \in Places /\ keyword_match(NameOf(c), kw)
           /\ \A i \in Places : keyword_match(NameOf(i), kw) /\ kw \in StationLike /\ Graph[i].station
                                  => kw \in StationLike /\ Graph[c].station
           /\ \A i \in Places : keyword_match(NameOf(i), kw) /\ Graph[i].located
                                  => Graph[c].located \/ (kw \in StationLike /\ Graph[c].station)
  BY <1>4, BestOf
<1> HIDE DEF b, c
<1>6. resolve_node_by_keyword(kw) =
        IF kw = Blank THEN 0
        ELSE IF First(A) # 0 THEN First(A) ELSE IF b # 0 THEN b ELSE c
  BY <1>1, <1>2, <1>3, <1>5, FirstOfThree DEF resolve_node_by_keyword, b, c
<1>7. ASSUME NEW i \in Places
      PROVE  /\ Rank(i, kw) \in 0..7
             /\ Rank(i, kw) = 0 <=> Graph[i].id = kw
             /\ Rank(i, kw) \in 1..3 <=> Graph[i].id # kw /\ NameOf(i) = kw
             /\ Rank(i, kw) \in 4..6 <=> Graph[i].id # kw /\ NameOf(i) # kw /\ keyword_match(NameOf(i), kw)
             /\ Rank(i, kw) \in {1, 4} => kw \in StationLike /\ Graph[i].station
             /\ kw \in StationLike /\ Graph[i].station => Rank(i, kw) \in {0, 1, 4, 7}
             /\ Rank(i, kw) \in {2, 5} => Graph[i].located
             /\ Graph[i].located => Rank(i, kw) \notin {3, 6}
  BY DEF Rank, NameOf
<1>8. CASE kw = Blank
  <2>1. \A i \in Places : Graph[i].id # kw /\ NameOf(i) # kw /\ ~ keyword_match(NameOf(i), kw)
    BY <1>8, ServiceAssumption, NamesAssumption DEF keyword_match, NameOf
  <2>2. \A i \in Places : Rank(i, kw) = 7
    BY <2>1 DEF Rank, NameOf
  <2> QED BY <1>6, <1>8, <2>2
<1>9. CASE kw # Blank /\ First(A) # 0
  <2>1. First(A) \in Places /\ Graph[First(A)].id = kw
    BY <1>2, <1>9, GraphIsSeq
  <2>2. Rank(First(A), kw) = 0 /\ \A i \in Places : Rank(i, kw) \in 0..7
    BY <2>1, <1>7
  <2>3. resolve_node_by_keyword(kw) = First(A)
    BY <1>6, <1>9
  <2> HIDE DEF A
  <2> QED BY <2>1, <2>2, <2>3, <1>9
<1>10. CASE kw # Blank /\ First(A) = 0
  <2>1. \A i \in Places : Graph[i].id # kw
    BY <1>2, <1>10, GraphIsSeq
  <2>2. CASE b # 0
    BY <2>1, <2>2, <1>3, <1>6, <1>7, <1>10
  <2>3. CASE b = 0 /\ c # 0
    BY <2>1, <2>3, <1>3, <1>5, <1>6, <1>7, <1>10
  <2>4. CASE b = 0 /\ c = 0
    BY <2>1, <2>4, <1>3, <1>5, <1>6, <1>7, <1>10
  <2> QED BY <2>2, <2>3, <2>4, <1>3, <1>5
<1> QED BY <1>8, <1>9, <1>10, <1>2

-----------------------------------------------------------------------------
(* The path and the sizes *)

\* What a segment of the path is made of, and that its parts fit in it.
LEMMA SegmentFacts ==
  ASSUME TypeOK, PathInv
  PROVE  /\ Len(path.routes) \in Nat /\ Len(path.routes) <= MaxPath
         /\ Segments = 1..Len(path.routes)
         /\ \A s \in Segments :
              /\ path.routes[s] \in Routes /\ route_no(s) = path.routes[s]
              /\ HeadSize(s) \in Nat /\ WholeSize(s) \in Nat
              /\ HeadSize(s) <= WholeSize(s)
              /\ Digits(path.minutes[s]) \in Nat
              /\ HeadSize(s) + Digits(path.minutes[s]) <= WholeSize(s)
<1>1. path.nodes \in Seq(Places) /\ path.routes \in Seq(Routes) /\ path.minutes \in Seq(Minutes)
  BY DEF TypeOK
<1>2. /\ Len(path.nodes) \in Nat /\ Len(path.routes) \in Nat /\ Len(path.minutes) \in Nat
      /\ Segments = 1..Len(path.routes)
  BY <1>1, LenProperties DEF Segments
<1>3. Len(path.minutes) = Len(path.routes) /\ MaxPath \in Nat
  BY ServiceAssumption DEF PathInv
<1>4. /\ Len(path.routes) <= MaxPath
      /\ \A s \in Segments : s \in 1..Len(path.nodes) /\ s + 1 \in 1..Len(path.nodes)
  <2>1. CASE path = NoPath
    <3>1. Len(path.routes) = 0
      BY <2>1 DEF NoPath
    <3> QED BY <3>1, <1>2, <1>3
  <2>2. CASE path # NoPath
    <3>1. Len(path.nodes) \in 1..MaxPath /\ Len(path.routes) = Len(path.nodes) - 1
      BY <2>2 DEF PathInv
    <3> QED BY <3>1, <1>2, <1>3
  <2> QED BY <2>1, <2>2
<1>5. ASSUME NEW s \in Segments
      PROVE  /\ path.nodes[s] \in Places /\ path.nodes[s + 1] \in Places
             /\ path.routes[s] \in Routes /\ path.minutes[s] \in Minutes
  BY <1>1, <1>2, <1>3, <1>4, ElementOfSeq
<1>6. ASSUME NEW s \in Segments PROVE Digits(path.minutes[s]) \in Nat
  BY DEF Digits
<1>7. ASSUME NEW s \in Segments PROVE HeadSize(s) \in Nat
  <2>1. NameSize[NameOf(path.nodes[s])] \in Nat /\ NameSize[NameOf(path.nodes[s + 1])] \in Nat
    BY <1>5, ServiceAssumption
  <2> QED BY <2>1, ServiceAssumption DEF HeadSize
<1>8. ASSUME NEW s \in Segments
      PROVE  WholeSize(s) \in Nat /\ HeadSize(s) + Digits(path.minutes[s]) <= WholeSize(s)
  <2>1. KmSize \in Nat
    BY ServiceAssumption
  <2> QED BY <2>1, <1>6, <1>7 DEF WholeSize
<1>9. ASSUME NEW s \in Segments PROVE route_no(s) = path.routes[s]
  BY <1>5, ServiceAssumption DEF route_no
<1> QED BY <1>2, <1>4, <1>5, <1>6, <1>7, <1>8, <1>9

\* 256 names and their commas leave room for the newline: a summary is never cut.
LEMMA SummaryFits ==
  ASSUME TypeOK, PathInv, path # NoPath
  PROVE  FrameSize + SummarySize \in 0..(MaxPacket - 1)
<1> DEFINE ns == path.nodes
           m  == Len(path.nodes)
           f  == [n \in DOMAIN ns |-> NameSize[NameOf(ns[n])] + 1]
           B  == {b \in Nat : \A i \in Places : NameSize[NameOf(i)] + 1 <= b}
           b  == Min(B)
<1>1. ns \in Seq(Places) /\ m \in 1..MaxPath /\ DOMAIN ns = 1..m /\ m \in Nat
  BY LenProperties, ServiceAssumption DEF TypeOK, PathInv
<1>2. /\ FrameSize \in Nat /\ MaxPath \in Nat /\ MaxPacket \in Nat
      /\ \A i \in Places : /\ NameSize[NameOf(i)] \in Nat \ {0}
                           /\ FrameSize + MaxPath * (NameSize[NameOf(i)] + 1) < MaxPacket
  BY ServiceAssumption, PacketAssumption
<1>3. MaxPath >= 1
  BY <1>1, <1>2
<1>4. ASSUME NEW i \in Places PROVE NameSize[NameOf(i)] + 1 <= MaxPacket
  <2> DEFINE k == NameSize[NameOf(i)] + 1
  <2>1. k \in Nat /\ FrameSize + MaxPath * k < MaxPacket
    BY <1>2
  <2> HIDE DEF k
  <2>2. (MaxPath - 1) * k >= 0 /\ MaxPath * k = (MaxPath - 1) * k + k /\ (MaxPath - 1) * k \in Int
    BY <2>1, <1>2, <1>3
  <2> QED BY <2>1, <2>2, <1>2 DEF k
<1>5. MaxPacket \in B
  BY <1>2, <1>4
<1>6. b \in B /\ \A c \in B : b <= c
  <2>1. B \subseteq Nat /\ B # {}
    BY <1>5
  <2> HIDE DEF B
  <2> QED BY <2>1, LeastNumber
<1>7. b \in Nat /\ \A i \in Places : NameSize[NameOf(i)] + 1 <= b
  BY <1>6
<1>8. ns[1] \in Places
  <2>1. 1 \in 1..m
    BY <1>1
  <2> QED BY <2>1, <1>1, ElementOfSeq
<1>9. b >= 1
  BY <1>2, <1>7, <1>8
<1>10. \E i \in Places : NameSize[NameOf(i)] + 1 = b
  <2> SUFFICES ASSUME \A i \in Places : NameSize[NameOf(i)] + 1 # b PROVE FALSE
    OBVIOUS
  <2>1. ASSUME NEW i \in Places PROVE NameSize[NameOf(i)] + 1 <= b - 1
    <3>1. NameSize[NameOf(i)] \in Nat /\ NameSize[NameOf(i)] + 1 # b
      BY <1>2
    <3> HIDE DEF b
    <3> QED BY <3>1, <1>7
  <2>2. b - 1 \in B
    <3> HIDE DEF b
    <3> QED BY <2>1, <1>7, <1>9
  <2> HIDE DEF B
  <2>3. b <= b - 1
    BY <2>2, <1>6
  <2> HIDE DEF b
  <2> QED BY <2>3, <1>7
<1>11. FrameSize + MaxPath * b < MaxPacket
  <2>1. PICK i \in Places : NameSize[NameOf(i)] + 1 = b
    BY <1>10
  <2>2. FrameSize + MaxPath * (NameSize[NameOf(i)] + 1) < MaxPacket
    BY <1>2
  <2> HIDE DEF b
  <2> QED BY <2>1, <2>2
<1> HIDE DEF b
<1>12. \A x \in 1..m : f[x] \in 1..b
  <2>1. ASSUME NEW x \in 1..m PROVE NameSize[NameOf(ns[x])] + 1 \in 1..b
    <3>1. ns[x] \in Places
      BY <1>1, ElementOfSeq
    <3> QED BY <3>1, <1>2, <1>7
  <2> QED BY <2>1, <1>1
<1>13. IsFiniteSet(1..m) /\ Cardinality(1..m) = m
  BY <1>1, FS_Interval
<1>14. SumFunctionOnSet(f, 1..m) \in (m * 1)..(m * b)
  <2> HIDE DEF f, m
  <2> QED BY <1>7, <1>12, <1>13, SumBound
<1>15. SummarySize = SumFunctionOnSet(f, 1..m) - 1
  BY <1>1 DEF SummarySize, SumFunction
<1>16. m * 1 = m /\ m * b <= MaxPath * b /\ m * b \in Nat /\ MaxPath * b \in Nat
  <2>1. (MaxPath - m) * b >= 0 /\ MaxPath * b = (MaxPath - m) * b + m * b
    BY <1>1, <1>2, <1>7
  <2> QED BY <2>1, <1>1, <1>2, <1>7
<1> HIDE DEF f
<1> QED BY <1>1, <1>2, <1>11, <1>14, <1>15, <1>16

\* What is written of n bytes: all of it, or what fills the buffer.
LEMMA WrittenFacts ==
  ASSUME NEW from \in 0..(MaxPacket - 1), NEW n \in Nat
  PROVE  /\ Written(MaxPacket, from, n) \in 0..n
         /\ from + Written(MaxPacket, from, n) \in 0..(MaxPacket - 1)
         /\ Written(MaxPacket, from, n) # n => from + Written(MaxPacket, from, n) = MaxPacket - 1
BY PacketAssumption DEF Written, Fits

-----------------------------------------------------------------------------
(* The books *)

\* The changes among more segments are more changes, but not more than segments.
LEMMA ChangesFacts ==
  ASSUME NEW n \in Nat, NEW m \in 0..n
  PROVE  /\ IsFiniteSet(Changes(n)) /\ Cardinality(Changes(n)) \in 0..n
         /\ Cardinality(Changes(m)) <= Cardinality(Changes(n))
<1>1. IsFiniteSet(1..n) /\ Cardinality(1..n) = n
  BY FS_Interval
<1>2. Changes(n) \in SUBSET (1..n)
  BY DEF Changes
<1>3. IsFiniteSet(Changes(n)) /\ Cardinality(Changes(n)) <= n
  BY <1>1, <1>2, FS_Subset
<1>4. Changes(m) \in SUBSET Changes(n)
  BY DEF Changes
<1> QED BY <1>3, <1>4, FS_Subset, FS_CardinalityType

\* One segment more in the books: the count goes on as it should.
LEMMA BooksStep ==
  ASSUME TypeOK, PathInv, NEW tally \in Tallies, NEW n \in Nat, n + 1 \in Segments,
         BooksAre(tally, n), tally.done < MaxPath
  PROVE  /\ Passes(tally, path.routes[n + 1]) \in Tallies
         /\ Passes(tally, path.routes[n + 1]).done = tally.done + 1
         /\ BooksAre(Passes(tally, path.routes[n + 1]), n + 1)
<1> DEFINE r == path.routes[n + 1]
           p == Passes(tally, r)
<1>1. /\ Len(path.routes) \in Nat /\ Len(path.routes) <= MaxPath /\ n + 1 <= Len(path.routes)
      /\ MaxPath \in Nat /\ r \in Routes
      /\ n > 0 => path.routes[n] \in Routes
  <2>1. Len(path.routes) \in Nat /\ Len(path.routes) <= MaxPath /\ Segments = 1..Len(path.routes)
    BY SegmentFacts
  <2>2. n + 1 <= Len(path.routes) /\ (n > 0 => n \in Segments)
    BY <2>1
  <2> QED BY <2>1, <2>2, SegmentFacts, ServiceAssumption
<1>2. NoName \notin Routes /\ TRANSFER \in Routes
  BY ServiceAssumption
<1>3. IsFiniteSet(Changes(n)) /\ Cardinality(Changes(n)) \in 0..n
  BY ChangesFacts
<1>4. /\ tally.done \in 0..MaxPath /\ tally.count \in 0..MaxPath
      /\ tally.last \in Routes \cup {NoName, MOVE} /\ tally.bridge \in BOOLEAN
      /\ tally = [done |-> tally.done, count |-> tally.count, last |-> tally.last, bridge |-> tally.bridge]
  BY DEF Tallies
<1>5. /\ tally.count = Cardinality(Changes(n))
      /\ tally.bridge <=> n > 0 /\ path.routes[n] = TRANSFER
      /\ ~tally.bridge => tally.last = IF n = 0 THEN NoName ELSE path.routes[n]
  BY DEF BooksAre
<1> DEFINE change == r = TRANSFER \/ (n > 0 /\ path.routes[n] \notin {TRANSFER, r})
<1>6. Changes(n + 1) = IF change THEN Changes(n) \cup {n + 1} ELSE Changes(n)
  <2>1. \A s \in 1..(n + 1) : s \in 1..n \/ s = n + 1
    OBVIOUS
  <2>2. (n + 1) - 1 = n /\ (n + 1 > 1 <=> n > 0) /\ 1..n \subseteq 1..(n + 1)
    OBVIOUS
  <2> QED BY <2>1, <2>2 DEF Changes
<1>7. n + 1 \notin Changes(n)
  BY DEF Changes
<1>8. Cardinality(Changes(n + 1)) = Cardinality(Changes(n)) + (IF change THEN 1 ELSE 0)
  <2> HIDE DEF change
  <2>1. CASE change
    BY <2>1, <1>3, <1>6, <1>7, FS_AddElement
  <2>2. CASE ~change
    BY <2>2, <1>3, <1>6
  <2> QED BY <2>1, <2>2
<1>9. CASE r = TRANSFER
  <2>1. p = [done |-> tally.done + 1, count |-> tally.count + 1, last |-> tally.last, bridge |-> TRUE]
    BY <1>4, <1>9 DEF Passes, Walks
  <2>2. Cardinality(Changes(n + 1)) = tally.count + 1
    BY <1>3, <1>5, <1>8, <1>9
  <2> HIDE DEF p
  <2>3. p.done = tally.done + 1 /\ p.count = tally.count + 1 /\ p.bridge = TRUE
    BY <2>1
  <2>4. p \in Tallies
    <3>1. tally.count + 1 \in 0..MaxPath /\ tally.done + 1 \in 0..MaxPath
      BY <1>1, <1>3, <1>4, <1>5
    <3> QED BY <2>1, <3>1, <1>4 DEF Tallies
  <2>5. BooksAre(p, n + 1)
    BY <2>2, <2>3, <1>9 DEF BooksAre
  <2> QED BY <2>3, <2>4, <2>5 DEF p
<1>10. CASE r # TRANSFER
  <2> DEFINE more == IF tally.last # NoName /\ tally.last # r /\ ~tally.bridge THEN 1 ELSE 0
  <2>1. p = [done |-> tally.done + 1, count |-> tally.count + more, last |-> r, bridge |-> FALSE]
    BY <1>10 DEF Passes, Rides
  <2>2. more = IF change THEN 1 ELSE 0
    BY <1>1, <1>2, <1>5, <1>10
  <2>3. Cardinality(Changes(n + 1)) = tally.count + more
    BY <2>2, <1>3, <1>5, <1>8
  <2>4. more \in 0..1
    OBVIOUS
  <2> HIDE DEF p, more
  <2>5. p.done = tally.done + 1 /\ p.count = tally.count + more /\ p.last = r /\ p.bridge = FALSE
    BY <2>1
  <2>6. p \in Tallies
    <3>1. tally.count + more \in 0..MaxPath /\ tally.done + 1 \in 0..MaxPath
      BY <2>4, <1>1, <1>3, <1>4, <1>5
    <3> QED BY <2>1, <3>1, <1>1 DEF Tallies
  <2>7. BooksAre(p, n + 1)
    BY <2>3, <2>5, <1>10 DEF BooksAre
  <2> QED BY <2>5, <2>6, <2>7 DEF p
<1> QED BY <1>9, <1>10

-----------------------------------------------------------------------------
(* The invariant *)

\* No books are kept of no segment.
LEMMA NoBooks == NoTally \in Tallies /\ BooksAre(NoTally, 0)
<1>1. Changes(0) = {}
  BY DEF Changes
<1>2. Cardinality(Changes(0)) = 0
  BY <1>1, FS_EmptySet
<1>3. MaxPath \in Nat
  BY ServiceAssumption
<1> QED BY <1>2, <1>3 DEF NoTally, Tallies, BooksAre

\* It holds at first.
LEMMA InitIInv == Init => IInv
<1> SUFFICES ASSUME Init PROVE IInv
  OBVIOUS
<1>1. /\ path.nodes = <<>> /\ path.routes = <<>> /\ path.minutes = <<>>
      /\ Len(path.routes) = 0 /\ Len(path.minutes) = 0
  BY DEF Init, NoPath
<1>2. TypeOK
  <2>1. asked \in (Keywords \cup {Malformed, Blank}) \X (Keywords \cup {Blank})
    BY DEF Init
  <2>2. counted \in Tallies /\ viewed \in Tallies
    BY NoBooks DEF Init
  <2>3. used \in 0..(MaxPacket - 1)
    BY PacketAssumption DEF Init
  <2>4. path.nodes \in Seq(Places) /\ path.routes \in Seq(Routes) /\ path.minutes \in Seq(Minutes)
    BY <1>1
  <2>5. /\ steps \in Seq([seg : Segments, bytes : 0..MaxPacket])
        /\ shown \in Seq([seg : Segments, whole : BOOLEAN])
    BY DEF Init
  <2> QED BY <2>1, <2>2, <2>3, <2>4, <2>5 DEF Init, TypeOK
<1>3. StageInv /\ PathInv
  BY <1>1 DEF Init, StageInv, PathInv
<1>4. CountInv /\ ViewInv
  BY <1>1, NoBooks DEF Init, CountInv, ViewInv, NoTally
<1>5. StepsInv /\ AnswerEndsTheWait
  BY <1>1 DEF Init, StepsInv, AnswerEndsTheWait
<1> QED BY <1>2, <1>3, <1>4, <1>5 DEF IInv

\* A request is refused.
LEMMA RefuseStep ==
  ASSUME IInv, RefuseMalformed \/ NotFound
  PROVE  IInv'
<1> USE DEF IInv
<1>1. /\ pc = "request" /\ code' \in {ERR_NOT_FOUND, ERR_INVALID_REQUEST}
      /\ used' = FrameSize /\ ended' = TRUE /\ pc' = "sent"
      /\ UNCHANGED <<asked, path, counted, steps, viewed, shown>>
  BY DEF RefuseMalformed, NotFound, Refuse
<1>2. FrameSize \in 0..(MaxPacket - 1)
  BY ServiceAssumption, PacketAssumption
<1>3. /\ path = NoPath /\ steps = <<>> /\ shown = <<>> /\ viewed = NoTally /\ counted = NoTally
      /\ Len(path.routes) = 0
  BY <1>1 DEF StageInv, PathInv, NoPath
<1>4. code' # ERR_OK
  BY <1>1 DEF ERR_OK, ERR_NOT_FOUND, ERR_INVALID_REQUEST
<1>5. TypeOK'
  BY <1>1, <1>2 DEF TypeOK, Segments, Tallies
<1>6. StageInv' /\ PathInv'
  BY <1>1, <1>3, <1>4 DEF StageInv, PathInv
<1>7. CountInv' /\ ViewInv'
  BY <1>1, <1>3 DEF CountInv, ViewInv, BooksAre, Changes, NoTally
<1>8. StepsInv' /\ AnswerEndsTheWait'
  BY <1>1, <1>3, <1>4 DEF StepsInv, AnswerEndsTheWait
<1> QED BY <1>5, <1>6, <1>7, <1>8

\* A path is looked for.
LEMMA FindPathStep ==
  ASSUME IInv, FindPath
  PROVE  IInv'
<1> USE DEF IInv
<1> DEFINE a == resolve_node_by_keyword(asked[1])
           b == resolve_node_by_keyword(asked[2])
<1>1. /\ pc = "request" /\ asked[1] # Malformed
      /\ path' \in PathsBetween(a, b)
      /\ pc' = "count"
      /\ UNCHANGED <<asked, counted, code, used, steps, ended, viewed, shown>>
  BY DEF FindPath
<1>2. /\ code = ERR_OK /\ steps = <<>> /\ shown = <<>> /\ viewed = NoTally /\ counted = NoTally
      /\ used = 0 /\ ended = FALSE
  BY <1>1 DEF StageInv, StepsInv, TypeOK
<1>3. PICK n \in 1..MaxPath :
        path' \in [nodes   : {ns \in [1..n -> Places] : IsInjective(ns) /\ ns[1] = a /\ ns[n] = b},
                  routes  : [1..(n - 1) -> Routes],
                  minutes : [1..(n - 1) -> Minutes]]
  BY <1>1 DEF PathsBetween
<1>4. /\ path'.nodes \in [1..n -> Places] /\ path'.nodes[1] = a /\ path'.nodes[n] = b
      /\ path'.routes \in [1..(n - 1) -> Routes] /\ path'.minutes \in [1..(n - 1) -> Minutes]
  BY <1>3
<1>5. n \in Nat /\ n - 1 \in Nat
  BY ServiceAssumption
<1>6. /\ path'.nodes \in Seq(Places) /\ path'.routes \in Seq(Routes) /\ path'.minutes \in Seq(Minutes)
      /\ Len(path'.nodes) = n /\ Len(path'.routes) = n - 1 /\ Len(path'.minutes) = n - 1
  BY <1>4, <1>5
<1>7. path' # NoPath
  <2>1. path' = NoPath => Len(path'.nodes) = 0
    BY DEF NoPath
  <2> QED BY <2>1, <1>6
<1>8. TypeOK'
  BY <1>1, <1>2, <1>6 DEF TypeOK, Segments, Tallies
<1>9. StageInv'
  BY <1>1, <1>2 DEF StageInv
<1>10. PathInv'
  BY <1>1, <1>2, <1>4, <1>6, <1>7 DEF PathInv, Last
<1>11. Cardinality(Changes(0))' = 0
  <2>1. Changes(0)' = {}
    BY DEF Changes
  <2> QED BY <2>1, FS_EmptySet
<1>12. CountInv' /\ ViewInv'
  BY <1>1, <1>2, <1>5, <1>6, <1>11 DEF CountInv, ViewInv, BooksAre, NoTally
<1>13. StepsInv' /\ AnswerEndsTheWait'
  BY <1>1, <1>2, <1>5, <1>6 DEF StepsInv, AnswerEndsTheWait
<1> QED BY <1>8, <1>9, <1>10, <1>12, <1>13

\* A segment of the path is looked at.
LEMMA CountSegmentStep ==
  ASSUME IInv, CountSegment
  PROVE  IInv'
<1> USE DEF IInv
<1>1. /\ pc = "count" /\ counted.done < Len(path.routes)
      /\ counted' = Passes(counted, path.routes[counted.done + 1])
      /\ UNCHANGED <<pc, asked, path, code, used, steps, ended, viewed, shown>>
  BY DEF CountSegment
<1>2. counted \in Tallies /\ counted.done \in Nat /\ BooksAre(counted, counted.done)
  BY DEF TypeOK, Tallies, CountInv
<1>3. /\ Len(path.routes) \in Nat /\ Len(path.routes) <= MaxPath /\ MaxPath \in Nat
      /\ Segments = 1..Len(path.routes)
  BY SegmentFacts, ServiceAssumption
<1>4. counted.done + 1 \in Segments /\ counted.done < MaxPath
  BY <1>1, <1>2, <1>3
<1>5. /\ counted' \in Tallies /\ counted'.done = counted.done + 1
      /\ BooksAre(Passes(counted, path.routes[counted.done + 1]), counted.done + 1)
  BY <1>1, <1>2, <1>4, BooksStep
<1>6. BooksAre(counted, counted.done)'
  BY <1>1, <1>5 DEF BooksAre, Changes
<1>7. TypeOK'
  BY <1>1, <1>5 DEF TypeOK, Segments, Tallies
<1>8. StageInv' /\ PathInv'
  BY <1>1 DEF StageInv, PathInv
<1>9. CountInv'
  BY <1>1, <1>2, <1>3, <1>5, <1>6 DEF CountInv
<1>10. ViewInv'
  BY <1>1 DEF ViewInv, BooksAre, Changes, HasFields, HeadSize, WholeSize, HasKm
<1>11. StepsInv' /\ AnswerEndsTheWait'
  BY <1>1 DEF StepsInv, AnswerEndsTheWait, HeadSize, WholeSize, HasKm
<1> QED BY <1>7, <1>8, <1>9, <1>10, <1>11

\* What stays as it is while the answer is written and taken in.
LEMMA SamePath ==
  ASSUME UNCHANGED path
  PROVE  /\ Segments' = Segments
         /\ \A s : HeadSize(s)' = HeadSize(s) /\ WholeSize(s)' = WholeSize(s)
         /\ \A step : HasFields(step)' = HasFields(step)
         /\ \A tally, n : BooksAre(tally, n)' = BooksAre(tally, n)
BY DEF Segments, HeadSize, WholeSize, HasKm, HasFields, BooksAre, Changes

\* The head of the answer is written.
LEMMA WriteSummaryStep ==
  ASSUME IInv, WriteSummary
  PROVE  IInv'
<1> USE DEF IInv
<1>1. /\ pc = "count" /\ counted.done = Len(path.routes)
      /\ used' = FrameSize + SummarySize /\ pc' = "steps"
      /\ UNCHANGED <<asked, path, counted, code, steps, ended, viewed, shown>>
  BY DEF WriteSummary
<1>2. code = ERR_OK /\ steps = <<>> /\ ended = FALSE /\ path # NoPath
  BY <1>1 DEF StageInv, StepsInv, PathInv, TypeOK
<1>3. used' \in 0..(MaxPacket - 1)
  BY <1>1, <1>2, SummaryFits
<1>4. TypeOK'
  BY <1>1, <1>3, SamePath DEF TypeOK, Tallies
<1>5. StageInv' /\ PathInv'
  BY <1>1, <1>2 DEF StageInv, PathInv
<1>6. CountInv' /\ ViewInv'
  BY <1>1, SamePath DEF CountInv, ViewInv
<1>7. StepsInv' /\ AnswerEndsTheWait'
  BY <1>1, <1>2, SamePath DEF StepsInv, AnswerEndsTheWait
<1> QED BY <1>4, <1>5, <1>6, <1>7

\* A step of the path is written,
LEMMA WriteStepStep ==
  ASSUME IInv, WriteStep
  PROVE  IInv'
<1> USE DEF IInv
<1> DEFINE s    == Len(steps) + 1
           from == IF s > 1 /\ Fits(MaxPacket, used, 1) THEN used + 1 ELSE used
           n    == Written(MaxPacket, from, WholeSize(s))
           step == [seg |-> s, bytes |-> n]
<1>1. /\ pc = "steps" /\ Len(steps) < Len(path.routes)
      /\ steps' = Append(steps, step) /\ used' = from + n
      /\ pc' = IF n = WholeSize(s) THEN "steps" ELSE "newline"
      /\ UNCHANGED <<asked, path, counted, code, ended, viewed, shown>>
  BY DEF WriteStep
<1>2. /\ Len(steps) \in Nat /\ DOMAIN steps = 1..Len(steps)
      /\ steps \in Seq([seg : Segments, bytes : 0..MaxPacket])
  BY LenProperties DEF TypeOK
<1>3. /\ Len(path.routes) \in Nat /\ Segments = 1..Len(path.routes)
      /\ MaxPacket \in Nat \ {0}
  BY SegmentFacts, PacketAssumption
<1>4. s \in Segments /\ WholeSize(s) \in Nat
  <2>1. s \in Segments
    BY <1>1, <1>2, <1>3
  <2> QED BY <2>1, SegmentFacts
<1>5. from \in 0..(MaxPacket - 1)
  BY <1>3 DEF TypeOK, Fits
<1> HIDE DEF s, from
<1>6. /\ n \in 0..WholeSize(s) /\ from + n \in 0..(MaxPacket - 1)
      /\ n # WholeSize(s) => from + n = MaxPacket - 1
  BY <1>4, <1>5, WrittenFacts
<1> HIDE DEF n
<1>7. n \in 0..MaxPacket
  BY <1>3, <1>4, <1>5, <1>6
<1>8. /\ steps' \in Seq([seg : Segments, bytes : 0..MaxPacket])
      /\ Len(steps') = s
      /\ \A k \in 1..Len(steps) : steps'[k] = steps[k]
      /\ steps'[s].seg = s /\ steps'[s].bytes = n
  <2>1. step \in [seg : Segments, bytes : 0..MaxPacket]
    BY <1>4, <1>7
  <2>2. step.seg = s /\ step.bytes = n
    OBVIOUS
  <2> HIDE DEF step
  <2> QED BY <2>1, <2>2, <1>1, <1>2, AppendProperties DEF s
<1>9. DOMAIN steps' = 1..s /\ s \in Nat /\ s = Len(steps) + 1
  BY <1>2, <1>8, LenProperties DEF s
<1>10. code = ERR_OK /\ ended = FALSE /\ viewed = NoTally /\ shown = <<>>
  BY <1>1 DEF StageInv, StepsInv, TypeOK
<1>11. TypeOK'
  BY <1>1, <1>6, <1>8, SamePath DEF TypeOK, Tallies
<1>12. StageInv' /\ PathInv'
  BY <1>1, <1>10 DEF StageInv, PathInv
<1>13. CountInv'
  BY <1>1, SamePath DEF CountInv
<1>14. ViewInv'
  <2>1. viewed.done = 0 /\ Len(shown) = 0 /\ DOMAIN shown = {}
    BY <1>10 DEF NoTally
  <2>2. BooksAre(viewed, Len(shown))'
    BY <1>1, SamePath DEF ViewInv
  <2>3. viewed'.done = 0 /\ Len(shown') = 0 /\ DOMAIN shown' = {} /\ pc' # "shown"
    BY <2>1, <1>1
  <2> QED BY <2>2, <2>3, <1>8, <1>9 DEF ViewInv
<1>15. AnswerEndsTheWait'
  BY <1>1 DEF AnswerEndsTheWait
<1>16. \A k \in 1..Len(steps) : steps[k].seg = k /\ steps[k].bytes = WholeSize(k)
  BY <1>1, <1>2 DEF StepsInv
<1>17. \A k \in 1..s : steps'[k].seg = k /\ (k < s \/ n = WholeSize(s) => steps'[k].bytes = WholeSize(k))
  <2>1. \A k \in 1..s : k \in 1..Len(steps) \/ k = s
    BY <1>9
  <2>2. \A k \in 1..Len(steps) : k < s
    BY <1>9
  <2> QED BY <2>1, <2>2, <1>8, <1>9, <1>16
<1>18. StepsInv'
  <2>1. Len(steps') <= Len(path.routes)
    BY <1>1, <1>8, <1>9, <1>2, <1>3
  <2>2. ended' = FALSE /\ pc' \in {"steps", "newline"} /\ (pc' = "steps" => n = WholeSize(s))
    BY <1>1, <1>10
  <2>3. pc' = "newline" => used' = MaxPacket - 1
    BY <1>1, <1>6
  <2>4. \A k \in DOMAIN steps' :
          /\ steps'[k].seg = k
          /\ k < Len(steps') \/ pc' = "steps" \/ ended' => steps'[k].bytes = WholeSize(k)'
    BY <2>2, <1>1, <1>8, <1>9, <1>17, SamePath
  <2> QED BY <2>1, <2>2, <2>3, <2>4, <1>1 DEF StepsInv
<1> QED BY <1>11, <1>12, <1>13, <1>14, <1>15, <1>18

\* the last of them has been,
LEMMA LastStepWrittenStep ==
  ASSUME IInv, LastStepWritten
  PROVE  IInv'
<1> USE DEF IInv
<1>1. /\ pc = "steps" /\ Len(steps) = Len(path.routes) /\ pc' = "newline"
      /\ UNCHANGED <<asked, path, counted, code, used, steps, ended, viewed, shown>>
  BY DEF LastStepWritten
<1>2. TypeOK'
  BY <1>1, SamePath DEF TypeOK, Tallies
<1>3. StageInv' /\ PathInv'
  BY <1>1 DEF StageInv, PathInv
<1>4. CountInv' /\ ViewInv'
  BY <1>1, SamePath DEF CountInv, ViewInv
<1>5. StepsInv' /\ AnswerEndsTheWait'
  BY <1>1, SamePath DEF StepsInv, AnswerEndsTheWait
<1> QED BY <1>2, <1>3, <1>4, <1>5

\* and the line is ended, if there is room.
LEMMA WriteNewlineStep ==
  ASSUME IInv, WriteNewline
  PROVE  IInv'
<1> USE DEF IInv
<1>1. /\ pc = "newline" /\ pc' = "sent"
      /\ ended' = Fits(MaxPacket, used, 1)
      /\ used' = IF Fits(MaxPacket, used, 1) THEN used + 1 ELSE used
      /\ UNCHANGED <<asked, path, counted, code, steps, viewed, shown>>
  BY DEF WriteNewline
<1>2. MaxPacket \in Nat \ {0} /\ used \in 0..(MaxPacket - 1)
  BY PacketAssumption DEF TypeOK
<1>3. /\ used' \in 0..(MaxPacket - 1) /\ ended' \in BOOLEAN
      /\ ended' => used # MaxPacket - 1
      /\ ended' \/ used' = MaxPacket - 1
  <2>1. Fits(MaxPacket, used, 1) \in BOOLEAN
    BY DEF Fits
  <2>2. CASE Fits(MaxPacket, used, 1)
    <3>1. ended' = TRUE
      BY <1>1, <2>1, <2>2
    <3>2. used' = used + 1 /\ used + 1 + 1 <= MaxPacket
      BY <1>1, <2>2 DEF Fits
    <3> QED BY <3>1, <3>2, <1>2
  <2>3. CASE ~ Fits(MaxPacket, used, 1)
    <3>1. ended' = FALSE
      BY <1>1, <2>1, <2>3
    <3>2. used' = used /\ ~ (used + 1 + 1 <= MaxPacket)
      BY <1>1, <2>3 DEF Fits
    <3>3. used' = MaxPacket - 1 /\ used' \in 0..(MaxPacket - 1)
      BY <3>2, <1>2
    <3> QED BY <3>1, <3>3
  <2> QED BY <2>2, <2>3
<1>4. TypeOK'
  BY <1>1, <1>3, SamePath DEF TypeOK, Tallies
<1>5. code = ERR_OK
  BY <1>1 DEF StageInv
<1>6. StageInv' /\ PathInv'
  BY <1>1, <1>5 DEF StageInv, PathInv
<1>7. CountInv' /\ ViewInv'
  BY <1>1, SamePath DEF CountInv, ViewInv
<1>8. StepsInv' /\ AnswerEndsTheWait'
  BY <1>1, <1>3, SamePath DEF StepsInv, AnswerEndsTheWait
<1> QED BY <1>4, <1>6, <1>7, <1>8

\* client_recv_line has a line, or a full buffer.
LEMMA ReceiveStep ==
  ASSUME IInv, Receive
  PROVE  IInv'
<1> USE DEF IInv
<1>1. /\ pc = "sent" /\ pc' = IF code = ERR_OK THEN "view" ELSE "shown"
      /\ UNCHANGED <<asked, path, counted, code, used, steps, ended, viewed, shown>>
  BY DEF Receive
<1>2. code # ERR_OK => viewed.done = 0 /\ steps = <<>> /\ Len(steps) = 0
  BY DEF StageInv, NoTally
<1>3. TypeOK'
  BY <1>1, SamePath DEF TypeOK, Tallies
<1>4. StageInv' /\ PathInv'
  BY <1>1 DEF StageInv, PathInv
<1>5. CountInv' /\ ViewInv'
  BY <1>1, <1>2, SamePath DEF CountInv, ViewInv
<1>6. StepsInv' /\ AnswerEndsTheWait'
  BY <1>1, SamePath DEF StepsInv, AnswerEndsTheWait
<1> QED BY <1>3, <1>4, <1>5, <1>6

\* show_transfer_result looks at a step,
LEMMA ViewStepStep ==
  ASSUME IInv, ViewStep
  PROVE  IInv'
<1> USE DEF IInv
<1> DEFINE k    == viewed.done + 1
           step == steps[k]
           new  == [seg   |-> step.seg,
                    whole |-> step.bytes >= HeadSize(step.seg) + Digits(path.minutes[step.seg])]
<1>1. /\ pc = "view" /\ viewed.done < Len(steps)
      /\ UNCHANGED <<pc, asked, path, counted, code, used, steps, ended>>
      /\ \/ /\ ~ HasFields(step)
            /\ viewed' = [viewed EXCEPT !.done = viewed.done + 1]
            /\ UNCHANGED shown
         \/ /\ HasFields(step)
            /\ viewed' = Passes(viewed, route_no(step.seg))
            /\ shown' = Append(shown, new)
  BY DEF ViewStep
<1>2. /\ viewed \in Tallies /\ viewed.done \in Nat
      /\ steps \in Seq([seg : Segments, bytes : 0..MaxPacket])
      /\ shown \in Seq([seg : Segments, whole : BOOLEAN])
  BY DEF TypeOK, Tallies
<1>3. /\ Len(steps) \in Nat /\ DOMAIN steps = 1..Len(steps)
      /\ Len(shown) \in Nat /\ DOMAIN shown = 1..Len(shown)
  BY <1>2, LenProperties
<1>4. /\ Len(path.routes) \in Nat /\ Len(path.routes) <= MaxPath /\ MaxPath \in Nat
      /\ Segments = 1..Len(path.routes) /\ Len(steps) <= Len(path.routes)
  BY SegmentFacts, ServiceAssumption DEF StepsInv
<1>5. k \in 1..Len(steps) /\ k \in Segments /\ k \in 1..MaxPath
  <2>1. k \in 1..Len(steps)
    BY <1>1, <1>2, <1>3
  <2>2. k <= Len(path.routes) /\ k <= MaxPath /\ k \in Nat /\ k >= 1
    <3> HIDE DEF k
    <3> QED BY <2>1, <1>3, <1>4
  <2> HIDE DEF k
  <2> QED BY <2>1, <2>2, <1>4
<1>6. step.seg = k /\ (k < Len(steps) => step.bytes = WholeSize(k)) /\ step.bytes \in 0..MaxPacket
  <2>1. step \in [seg : Segments, bytes : 0..MaxPacket]
    BY <1>2, <1>5, ElementOfSeq
  <2> QED BY <2>1, <1>3, <1>5 DEF StepsInv
<1>7. /\ HeadSize(k) \in Nat /\ WholeSize(k) \in Nat /\ HeadSize(k) <= WholeSize(k)
      /\ Digits(path.minutes[k]) \in Nat
      /\ HeadSize(k) + Digits(path.minutes[k]) <= WholeSize(k)
      /\ route_no(k) = path.routes[k]
  BY <1>5, SegmentFacts
<1>8. HasFields(step) <=> step.bytes >= HeadSize(k)
  BY <1>6 DEF HasFields
<1>9. k < Len(steps) => HasFields(step)
  BY <1>6, <1>7, <1>8
<1>10. viewed.done = Len(shown)
  <2>1. viewed.done # Len(steps)
    BY <1>1, <1>2, <1>3
  <2> QED BY <2>1 DEF ViewInv
<1>11. StageInv' /\ PathInv' /\ code = ERR_OK
  BY <1>1 DEF StageInv, PathInv
<1>12. CountInv' /\ StepsInv' /\ AnswerEndsTheWait'
  BY <1>1, SamePath DEF CountInv, StepsInv, AnswerEndsTheWait
<1>13. BooksAre(viewed, Len(shown))
  BY DEF ViewInv
<1> HIDE DEF step
<1>14. CASE ~ HasFields(step)
  <2>1. /\ viewed' = [viewed EXCEPT !.done = viewed.done + 1] /\ shown' = shown
        /\ UNCHANGED <<pc, steps, path>>
    BY <1>1, <1>14
  <2>2. viewed'.done = k /\ viewed' \in Tallies
    <3>1. k \in 0..MaxPath
      <4> HIDE DEF k
      <4> QED BY <1>4, <1>5
    <3> QED BY <2>1, <3>1, <1>2 DEF Tallies
  <2>3. viewed'.count = viewed.count /\ viewed'.last = viewed.last /\ viewed'.bridge = viewed.bridge
    BY <2>1, <1>2 DEF Tallies
  <2>4. TypeOK'
    BY <1>1, <2>1, <2>2, SamePath DEF TypeOK, Tallies
  <2>5. BooksAre(viewed', Len(shown))
    BY <2>3, <1>13 DEF BooksAre
  <2>6. BooksAre(viewed, Len(shown))'
    BY <2>1, <2>5 DEF BooksAre, Changes
  <2>7. k = Len(steps)
    BY <1>3, <1>5, <1>9, <1>14
  <2>8. viewed'.done = Len(shown') + 1 /\ viewed'.done = Len(steps')
    BY <2>1, <2>2, <2>7, <1>10
  <2>9. ~ HasFields(steps[viewed.done])'
    <3>1. steps[viewed.done]' = step
      BY <2>1, <2>2 DEF step
    <3> QED BY <3>1, <2>1, <1>14 DEF HasFields, HeadSize
  <2>10. \A i \in DOMAIN shown' : /\ shown'[i].seg = i
                                  /\ steps'[i].bytes = WholeSize(i)' => shown'[i].whole
    BY <2>1, SamePath DEF ViewInv
  <2>11. Len(shown') <= Len(steps') /\ pc' # "shown"
    BY <1>1, <2>1 DEF ViewInv
  <2>12. ViewInv'
    BY <2>6, <2>8, <2>9, <2>10, <2>11 DEF ViewInv
  <2> QED BY <1>11, <1>12, <2>4, <2>12
<1>15. CASE HasFields(step)
  <2>1. /\ viewed' = Passes(viewed, path.routes[k]) /\ shown' = Append(shown, new)
        /\ UNCHANGED <<pc, steps, path>>
    BY <1>1, <1>6, <1>7, <1>15
  <2>2. /\ viewed' \in Tallies /\ viewed'.done = k
        /\ BooksAre(Passes(viewed, path.routes[k]), k)
    <3>1. Len(shown) + 1 = k /\ Len(shown) + 1 \in Segments /\ viewed.done < MaxPath
      BY <1>2, <1>3, <1>4, <1>5, <1>10
    <3>2. /\ Passes(viewed, path.routes[Len(shown) + 1]) \in Tallies
          /\ Passes(viewed, path.routes[Len(shown) + 1]).done = viewed.done + 1
          /\ BooksAre(Passes(viewed, path.routes[Len(shown) + 1]), Len(shown) + 1)
      BY <3>1, <1>2, <1>3, <1>13, BooksStep
    <3> QED BY <3>1, <3>2, <2>1
  <2>3. new.seg = k /\ new \in [seg : Segments, whole : BOOLEAN]
        /\ (step.bytes = WholeSize(k) => new.whole)
    <3>1. new = [seg |-> k, whole |-> step.bytes >= HeadSize(k) + Digits(path.minutes[k])]
      BY <1>6
    <3>2. (step.bytes >= HeadSize(k) + Digits(path.minutes[k])) \in BOOLEAN
      OBVIOUS
    <3>3. step.bytes = WholeSize(k) => step.bytes >= HeadSize(k) + Digits(path.minutes[k])
      <4> HIDE DEF k
      <4> QED BY <1>7
    <3> HIDE DEF new, k
    <3>4. new.seg = k /\ (new.whole <=> step.bytes >= HeadSize(k) + Digits(path.minutes[k]))
      BY <3>1
    <3>5. new \in [seg : Segments, whole : BOOLEAN]
      BY <3>1, <3>2, <1>5
    <3> QED BY <3>3, <3>4, <3>5
  <2> HIDE DEF new
  <2>4. /\ shown' \in Seq([seg : Segments, whole : BOOLEAN])
        /\ Len(shown') = k /\ k = Len(shown) + 1
        /\ \A i \in 1..Len(shown) : shown'[i] = shown[i]
        /\ shown'[k] = new
    BY <2>1, <2>3, <1>2, <1>3, <1>10, AppendProperties
  <2>5. DOMAIN shown' = 1..k
    BY <2>4, LenProperties
  <2>6. TypeOK'
    BY <1>1, <2>1, <2>2, <2>4, SamePath DEF TypeOK, Tallies
  <2>7. BooksAre(viewed, Len(shown))'
    BY <2>1, <2>2, <2>4 DEF BooksAre, Changes
  <2>8. \A i \in 1..k : /\ shown'[i].seg = i
                        /\ steps[i].bytes = WholeSize(i) => shown'[i].whole
    <3>1. \A i \in 1..k : i \in 1..Len(shown) \/ i = k
      BY <2>4, <1>3
    <3>2. \A i \in 1..Len(shown) : /\ shown[i].seg = i
                                   /\ steps[i].bytes = WholeSize(i) => shown[i].whole
      BY <1>3 DEF ViewInv
    <3>3. shown'[k].seg = k /\ (steps[k].bytes = WholeSize(k) => shown'[k].whole)
      BY <2>3, <2>4 DEF step
    <3> QED BY <3>1, <3>2, <3>3, <2>4
  <2>9. ViewInv'
    <3>1. Len(shown') <= Len(steps') /\ viewed'.done = Len(shown')
      BY <2>1, <2>2, <2>4, <1>3, <1>5
    <3>2. \A i \in DOMAIN shown' : /\ shown'[i].seg = i
                                   /\ steps'[i].bytes = WholeSize(i)' => shown'[i].whole
      BY <2>1, <2>5, <2>8, SamePath
    <3> QED BY <3>1, <3>2, <2>7, <1>1 DEF ViewInv
  <2> QED BY <1>11, <1>12, <2>6, <2>9
<1> QED BY <1>14, <1>15

\* and comes to the end.
LEMMA ViewEndStep ==
  ASSUME IInv, ViewEnd
  PROVE  IInv'
<1> USE DEF IInv
<1>1. /\ pc = "view" /\ viewed.done = Len(steps) /\ pc' = "shown"
      /\ UNCHANGED <<asked, path, counted, code, used, steps, ended, viewed, shown>>
  BY DEF ViewEnd
<1>2. TypeOK'
  BY <1>1, SamePath DEF TypeOK, Tallies
<1>3. StageInv' /\ PathInv'
  BY <1>1 DEF StageInv, PathInv
<1>4. CountInv' /\ ViewInv'
  BY <1>1, SamePath DEF CountInv, ViewInv
<1>5. StepsInv' /\ AnswerEndsTheWait'
  BY <1>1, SamePath DEF StepsInv, AnswerEndsTheWait
<1> QED BY <1>2, <1>3, <1>4, <1>5

\* Every step keeps the invariant.
LEMMA NextIInv ==
  ASSUME IInv, [Next]_vars
  PROVE  IInv'
<1>1. CASE UNCHANGED vars
  <2>1. UNCHANGED <<pc, asked, path, counted, code, used, steps, ended, viewed, shown>>
    BY <1>1 DEF vars
  <2>2. TypeOK'
    BY <2>1, SamePath DEF IInv, TypeOK, Tallies
  <2>3. StageInv' /\ PathInv'
    BY <2>1 DEF IInv, StageInv, PathInv
  <2>4. CountInv' /\ ViewInv' /\ StepsInv' /\ AnswerEndsTheWait'
    BY <2>1, SamePath DEF IInv, CountInv, ViewInv, StepsInv, AnswerEndsTheWait
  <2> QED BY <2>2, <2>3, <2>4 DEF IInv
<1>2. CASE RefuseMalformed \/ NotFound
  BY <1>2, RefuseStep
<1>3. CASE FindPath
  BY <1>3, FindPathStep
<1>4. CASE CountSegment
  BY <1>4, CountSegmentStep
<1>5. CASE WriteSummary
  BY <1>5, WriteSummaryStep
<1>6. CASE WriteStep
  BY <1>6, WriteStepStep
<1>7. CASE LastStepWritten
  BY <1>7, LastStepWrittenStep
<1>8. CASE WriteNewline
  BY <1>8, WriteNewlineStep
<1>9. CASE Receive
  BY <1>9, ReceiveStep
<1>10. CASE ViewStep
  BY <1>10, ViewStepStep
<1>11. CASE ViewEnd
  BY <1>11, ViewEndStep
<1> QED BY <1>1, <1>2, <1>3, <1>4, <1>5, <1>6, <1>7, <1>8, <1>9, <1>10, <1>11 DEF Next

-----------------------------------------------------------------------------
(* The theorems *)

\* IInv holds all along: the answer being written and the screen being filled are
\* both a prefix of the path with its books, cut only where the buffer is full.
THEOREM InvariantHolds == Spec => []IInv
<1>1. Init => IInv
  BY InitIInv
<1>2. IInv /\ [Next]_vars => IInv'
  BY NextIInv
<1> QED BY <1>1, <1>2, PTL DEF Spec

\* Everything keeps its type; in particular no answer outgrows the buffer.
THEOREM TypeCorrect == Spec => []TypeOK
<1>1. IInv => TypeOK
  BY DEF IInv
<1> QED BY <1>1, InvariantHolds, PTL

\* The path answered is one between two places that none suits the keywords better than.
THEOREM AnswersWhatWasAsked == Spec => []AnswersTheRequest
<1>1. IInv => AnswersTheRequest
  <2> SUFFICES ASSUME IInv PROVE AnswersTheRequest
    OBVIOUS
  <2>1. ASSUME path # NoPath, NEW k \in {1, 2}
        PROVE  LET end == IF k = 1 THEN path.nodes[1] ELSE Last(path.nodes)
               IN  Rank(end, asked[k]) < 7 /\ \A i \in Places : Rank(end, asked[k]) <= Rank(i, asked[k])
    <3> DEFINE end == IF k = 1 THEN path.nodes[1] ELSE Last(path.nodes)
    <3>1. /\ path.nodes \in Seq(Places) /\ Len(path.nodes) \in 1..MaxPath
          /\ path.nodes[1] = resolve_node_by_keyword(asked[1])
          /\ Last(path.nodes) = resolve_node_by_keyword(asked[2])
      BY <2>1 DEF IInv, TypeOK, PathInv
    <3>2. end = resolve_node_by_keyword(asked[k])
      BY <3>1
    <3>3. end \in Places
      <4>1. 1 \in 1..Len(path.nodes) /\ Len(path.nodes) \in 1..Len(path.nodes)
        BY <3>1, ServiceAssumption
      <4> QED BY <4>1, <3>1, ElementOfSeq DEF Last
    <3>4. end # 0
      BY <3>3, GraphIsSeq
    <3> HIDE DEF end
    <3>5. Rank(end, asked[k]) < 7 /\ \A i \in Places : Rank(end, asked[k]) <= Rank(i, asked[k])
      BY <3>2, <3>4, Resolves
    <3> QED BY <3>5 DEF end
  <2>2. \A k \in {1, 2} : resolve_node_by_keyword(asked[k]) = 0 <=> \A i \in Places : Rank(i, asked[k]) = 7
    BY Resolves
  <2> QED BY <2>1, <2>2 DEF AnswersTheRequest
<1> QED BY <1>1, InvariantHolds, PTL

\* The number of transfers is that of the walks and of the changes between rides.
THEOREM CountsChanges == Spec => []CountsTheChanges
<1>1. IInv => CountsTheChanges
  BY DEF IInv, CountInv, BooksAre, CountsTheChanges
<1> QED BY <1>1, InvariantHolds, PTL

\* An answer ends in a newline or fills the buffer of the client.
THEOREM AnswersEnd == Spec => []AnswerEndsTheWait
<1>1. IInv => AnswerEndsTheWait
  BY DEF IInv
<1> QED BY <1>1, InvariantHolds, PTL

\* The screen shows the path from its origin on, and all of it if the newline came.
THEOREM ShowsAll == Spec => []ShowsThePath
<1>1. IInv => ShowsThePath
  <2> SUFFICES ASSUME IInv PROVE ShowsThePath
    OBVIOUS
  <2>1. /\ steps \in Seq([seg : Segments, bytes : 0..MaxPacket])
        /\ shown \in Seq([seg : Segments, whole : BOOLEAN])
    BY DEF IInv, TypeOK
  <2>2. /\ Len(steps) \in Nat /\ DOMAIN steps = 1..Len(steps)
        /\ Len(shown) \in Nat /\ DOMAIN shown = 1..Len(shown)
    BY <2>1, LenProperties
  <2>3. /\ Len(shown) <= Len(steps)
        /\ \A k \in DOMAIN shown : /\ shown[k].seg = k
                                   /\ steps[k].bytes = WholeSize(k) => shown[k].whole
    BY DEF IInv, ViewInv
  <2>4. ASSUME NEW k \in DOMAIN shown PROVE shown[k].seg = k /\ (k < Len(shown) => shown[k].whole)
    <3>1. k \in DOMAIN steps
      BY <2>2, <2>3
    <3>2. k < Len(shown) => k < Len(steps)
      BY <2>2, <2>3
    <3> QED BY <2>3, <3>1, <3>2 DEF IInv, StepsInv
  <2>5. ASSUME pc = "shown", code = ERR_OK, ended
        PROVE  Len(shown) = Len(path.routes) /\ \A k \in DOMAIN shown : shown[k].whole
    <3>1. /\ Len(steps) = Len(path.routes)
          /\ \A k \in DOMAIN steps : steps[k].seg = k /\ steps[k].bytes = WholeSize(k)
      BY <2>5 DEF IInv, StepsInv
    <3>2. viewed.done = Len(steps)
      BY <2>5 DEF IInv, ViewInv
    <3>3. Segments = 1..Len(steps) /\ \A k \in Segments : HeadSize(k) <= WholeSize(k) /\ HeadSize(k) \in Nat /\ WholeSize(k) \in Nat
      BY <3>1, SegmentFacts DEF IInv
    <3>4. \A k \in DOMAIN steps : HasFields(steps[k])
      BY <3>1, <3>3, <2>2 DEF HasFields
    <3>5. Len(shown) = Len(steps)
      <4>1. CASE viewed.done = Len(shown)
        BY <4>1, <3>2
      <4>2. CASE viewed.done = Len(shown) + 1 /\ ~ HasFields(steps[viewed.done])
        <5>1. viewed.done \in DOMAIN steps
          BY <4>2, <3>2, <2>2
        <5> QED BY <5>1, <4>2, <3>4
      <4> QED BY <4>1, <4>2 DEF IInv, ViewInv
    <3> QED BY <3>1, <3>5, <2>2, <2>3
  <2> QED BY <2>4, <2>5 DEF ShowsThePath
<1> QED BY <1>1, InvariantHolds, PTL

\* Client and server count the same transfers, unless the answer was cut.
THEOREM ViewersAgree == Spec => []ViewerAgrees
<1>1. IInv /\ ShowsThePath => ViewerAgrees
  <2> SUFFICES ASSUME IInv, ShowsThePath, pc = "shown"
               PROVE  viewed.count <= counted.count /\ (ended => viewed.count = counted.count)
    BY DEF ViewerAgrees
  <2>1. CASE code # ERR_OK
    BY <2>1 DEF IInv, StageInv, NoTally
  <2>2. CASE code = ERR_OK
    <3>1. /\ counted.done = Len(path.routes)
          /\ counted.count = Cardinality(Changes(Len(path.routes)))
          /\ viewed.count = Cardinality(Changes(Len(shown)))
      BY <2>2 DEF IInv, StageInv, CountInv, ViewInv, BooksAre
    <3>2. Len(shown) <= Len(steps) /\ Len(steps) <= Len(path.routes)
      BY DEF IInv, ViewInv, StepsInv
    <3>3. Len(path.routes) \in Nat /\ Len(shown) \in Nat /\ Len(steps) \in Nat
      BY SegmentFacts, LenProperties DEF IInv, TypeOK
    <3>4. Len(shown) \in 0..Len(path.routes)
      BY <3>2, <3>3
    <3>5. ended => Len(shown) = Len(path.routes)
      BY <2>2 DEF ShowsThePath
    <3> QED BY <3>1, <3>3, <3>4, <3>5, ChangesFacts
  <2> QED BY <2>1, <2>2
<1> QED BY <1>1, InvariantHolds, ShowsAll, PTL
=============================================================================
