--------------------------- MODULE GraphPathProofs ---------------------------
(***************************************************************************)
(* Proofs about GraphPath, for every graph, every pair of nodes and every  *)
(* value of Inf and MaxPath: the search is type correct, its answer is a   *)
(* shortest path, and it gives up only for a reason.                       *)
(***************************************************************************)
EXTENDS GraphPath, BasicLemmas

\* The initial state of a search satisfies the inductive invariant.
LEMMA InitIInv == Init => IInv
<1> SUFFICES ASSUME Init PROVE IInv
  OBVIOUS
<1> USE GraphAssumption
<1>1. TypeOK
  BY DEF Init, TypeOK, Nodes, NoPath, PathResult
<1>2. DistInv
  BY DEF Init, DistInv, Nodes, NoPath
<1>3. TraceInv
  BY DEF Init, TraceInv
<1>4. ResultInv
  BY DEF Init, ResultInv, NoPath
<1> QED BY <1>1, <1>2, <1>3, <1>4 DEF IInv

\* What TypeOK says of single values, in the form the steps below need.
LEMMA Values ==
  ASSUME TypeOK
  PROVE  /\ Inf \in Nat /\ MaxPath \in Nat /\ MaxPath > 0
         /\ src \in Nodes /\ dst \in Nodes
         /\ \A x, y \in Nodes : w[x][y] \in Nat
         /\ \A x \in Nodes : dist[x] \in Nat /\ dist[x] <= Inf
<1>1. Inf \in Nat /\ MaxPath \in Nat /\ MaxPath > 0
  BY GraphAssumption
<1>2. \A x, y \in Nodes : w[x][y] \in Nat
  <2> SUFFICES ASSUME NEW x \in Nodes, NEW y \in Nodes PROVE w[x][y] \in Nat
    OBVIOUS
  <2>1. w[x] \in [Nodes -> Nat]
    BY DEF TypeOK
  <2> QED BY <2>1
<1>3. \A x \in Nodes : dist[x] \in Nat /\ dist[x] <= Inf
  BY <1>1 DEF TypeOK
<1> QED BY <1>1, <1>2, <1>3 DEF TypeOK

\* Settling the nearest node and relaxing its neighbours (one turn of the loop of
\* graph_find_path) preserves what is known of the distances.
LEMMA SettleStep ==
  ASSUME IInv, NEW u \in Nodes, Settle(u)
  PROVE  IInv'
<1>t. /\ Inf \in Nat
      /\ src \in Nodes /\ dst \in Nodes
      /\ \A x, y \in Nodes : w[x][y] \in Nat
      /\ \A x \in Nodes : dist[x] \in Nat /\ dist[x] <= Inf
  BY Values DEF IInv
<1>0. /\ \A v \in Nodes : dist'[v] = IF Improves(u, v) THEN dist[u] + w[u][v] ELSE dist[v]
      /\ \A v \in Nodes : prev'[v] = IF Improves(u, v) THEN u ELSE prev[v]
      /\ \A v \in Nodes : visited'[v] <=> (visited[v] \/ v = u)
      /\ UNCHANGED <<w, src, dst, cur, rev, pc, path>>
      /\ pc = "search"
  BY DEF Settle, IInv, TypeOK
<1>b. /\ ~visited[u] /\ u # dst
      /\ dist[u] < Inf
      /\ \A v \in Nodes : ~visited[v] => dist[u] <= dist[v]
  BY <1>t DEF Settle, IsBest
<1>1. \A v \in Nodes : Improves(u, v) <=>
        /\ ~visited[v] /\ v # u
        /\ w[u][v] > 0
        /\ dist[u] + w[u][v] < dist[v]
  BY <1>0 DEF Improves
<1>2. \A v \in Nodes : visited[v] \/ v = u => dist'[v] = dist[v] /\ prev'[v] = prev[v]
  BY <1>0, <1>1
<1>3. \A v \in Nodes : dist'[v] \in Nat /\ dist'[v] <= dist[v] /\ dist'[v] <= Inf
  BY <1>0, <1>1, <1>t
<1>4. TypeOK'
  <2>1. dist' \in [Nodes -> 0..Inf]
    BY <1>3, <1>t DEF Settle
  <2>2. prev' \in [Nodes -> Nodes \cup {-1}]
    BY DEF Settle, IInv, TypeOK
  <2>3. visited' \in [Nodes -> BOOLEAN]
    BY DEF Settle, IInv, TypeOK
  <2> QED BY <1>0, <2>1, <2>2, <2>3 DEF IInv, TypeOK
<1>5. DistInv'
  <2>d. DistInv
    BY DEF IInv
  <2>1. dist'[src] = 0
    <3>1. dist[src] = 0
      BY <2>d DEF DistInv
    <3> QED BY <1>3, <1>t, <3>1
  <2>2. ASSUME NEW v \in Nodes, dist'[v] < Inf, v # src
        PROVE  /\ prev'[v] \in Nodes
               /\ visited'[prev'[v]]
               /\ w[prev'[v]][v] > 0
               /\ dist'[v] = dist'[prev'[v]] + w[prev'[v]][v]
    <3>1. CASE Improves(u, v)
      BY <1>0, <1>1, <1>2, <3>1
    <3>2. CASE ~Improves(u, v)
      <4>1. dist'[v] = dist[v] /\ prev'[v] = prev[v]
        BY <1>0, <3>2
      <4>2. prev[v] \in Nodes /\ visited[prev[v]] /\ w[prev[v]][v] > 0
            /\ dist[v] = dist[prev[v]] + w[prev[v]][v]
        BY <4>1, <2>2, <2>d DEF DistInv
      <4> QED BY <1>0, <1>2, <4>1, <4>2
    <3> QED BY <3>1, <3>2
  <2>3. ASSUME NEW x \in Nodes, visited'[x] PROVE dist'[x] < Inf
    <3>1. CASE x = u
      BY <1>b, <1>2, <3>1
    <3>2. CASE visited[x]
      BY <2>d, <1>2, <3>2 DEF DistInv
    <3> QED BY <1>0, <2>3, <3>1, <3>2
  <2>4. ASSUME NEW x \in Nodes, NEW y \in Nodes, visited'[x], ~visited'[y]
        PROVE  dist'[x] <= dist'[y]
    <3>1. dist[x] <= dist[u] /\ dist'[x] = dist[x]
      <4>1. CASE x = u
        BY <1>2, <1>t, <4>1
      <4>2. CASE visited[x]
        BY <1>2, <1>b, <2>d, <4>2 DEF DistInv
      <4> QED BY <1>0, <2>4, <4>1, <4>2
    <3>2. dist[u] <= dist'[y]
      <4>1. CASE Improves(u, y)
        BY <1>0, <1>t, <4>1
      <4>2. CASE ~Improves(u, y)
        BY <1>0, <1>b, <2>4, <4>2
      <4> QED BY <4>1, <4>2
    <3> QED BY <3>1, <3>2, <1>3, <1>t
  <2>5. ASSUME NEW x \in Nodes, NEW y \in Nodes, visited'[x], x # dst, w[x][y] > 0
        PROVE  dist'[y] <= dist'[x] + w[x][y]
    <3>1. CASE visited[x]
      <4>1. dist[y] <= dist[x] + w[x][y]
        BY <2>5, <3>1, <2>d DEF DistInv
      <4> QED BY <4>1, <3>1, <1>2, <1>3, <1>t
    <3>2. CASE x = u /\ visited[y]
      <4>1. dist[y] <= dist[u]
        BY <3>2, <1>b, <2>d DEF DistInv
      <4> QED BY <4>1, <3>2, <1>2, <1>3, <1>t
    <3>3. CASE x = u /\ ~visited[y]
      <4>1. CASE Improves(u, y)
        BY <1>0, <1>2, <1>t, <3>3, <4>1
      <4>2. CASE ~Improves(u, y)
        <5>1. y = u \/ dist[y] <= dist[u] + w[u][y]
          BY <1>1, <1>t, <2>5, <3>3, <4>2
        <5> QED BY <5>1, <1>0, <1>2, <1>t, <3>3, <4>2
      <4> QED BY <4>1, <4>2
    <3> QED BY <1>0, <2>5, <3>1, <3>2, <3>3
  <2>6. pc' = "search" => ~visited'[dst]
    BY <1>0, <1>b, <1>t, <2>d DEF DistInv
  <2>7. pc' = "back" \/ path'.found => visited'[dst]
    BY <1>0, <1>t, <2>d DEF DistInv
  <2> QED BY <1>0, <2>1, <2>2, <2>3, <2>4, <2>5, <2>6, <2>7 DEF DistInv
<1>6. TraceInv'
  BY <1>0 DEF IInv, TraceInv, TypeOK
<1>7. ResultInv'
  BY <1>0 DEF IInv, ResultInv, DistInv, NoPath
<1> QED BY <1>4, <1>5, <1>6, <1>7 DEF IInv

\* Ending the search, at the destination, for want of candidates or of memory,
\* preserves the invariant.
LEMMA EndStep ==
  ASSUME IInv, Reach \/ Exhaust \/ NoMemory
  PROVE  IInv'
<1>t. /\ Inf \in Nat
      /\ src \in Nodes /\ dst \in Nodes
      /\ \A x \in Nodes : dist[x] \in Nat /\ dist[x] <= Inf
  BY Values DEF IInv
<1>1. CASE Reach
  <2>0. /\ \A v \in Nodes : visited'[v] <=> (visited[v] \/ v = dst)
        /\ UNCHANGED <<w, src, dst, dist, prev, cur, rev, path>>
        /\ pc = "search" /\ pc' = "back"
    BY <1>1 DEF Reach, IInv, TypeOK
  <2>b. /\ dist[dst] < Inf
        /\ \A v \in Nodes : ~visited[v] => dist[dst] <= dist[v]
    BY <1>1, <1>t DEF Reach, IsBest
  <2>1. TypeOK'
    BY <1>1 DEF Reach, IInv, TypeOK
  <2>2. DistInv'
    <3>d. DistInv
      BY DEF IInv
    <3>2. \A v \in Nodes : dist'[v] < Inf /\ v # src' =>
            /\ prev'[v] \in Nodes
            /\ visited'[prev'[v]]
            /\ w'[prev'[v]][v] > 0
            /\ dist'[v] = dist'[prev'[v]] + w'[prev'[v]][v]
      BY <2>0, <3>d DEF DistInv
    <3>3. \A x \in Nodes : visited'[x] => dist'[x] < Inf
      BY <2>0, <2>b, <3>d DEF DistInv
    <3>4. \A x, y \in Nodes : visited'[x] /\ ~visited'[y] => dist'[x] <= dist'[y]
      BY <2>0, <2>b, <3>d DEF DistInv
    <3>5. \A x, y \in Nodes : visited'[x] /\ x # dst' /\ w'[x][y] > 0 =>
            dist'[y] <= dist'[x] + w'[x][y]
      BY <2>0, <3>d DEF DistInv
    <3> QED BY <1>t, <2>0, <3>d, <3>2, <3>3, <3>4, <3>5 DEF DistInv
  <2>3. TraceInv'
    BY <1>t, <2>0, <2>b DEF IInv, TraceInv, TypeOK
  <2>4. ResultInv'
    BY <2>0 DEF IInv, ResultInv, NoPath
  <2> QED BY <2>1, <2>2, <2>3, <2>4 DEF IInv
<1>2. CASE Exhaust
  <2>1. TypeOK'
    BY <1>2 DEF Exhaust, IInv, TypeOK
  <2>2. DistInv'
    BY <1>2 DEF Exhaust, IInv, DistInv, ResultInv
  <2>3. TraceInv'
    BY <1>2 DEF Exhaust, IInv, TraceInv
  <2>4. ResultInv'
    BY <1>2 DEF Exhaust, IInv, ResultInv, DistInv, NoPath
  <2> QED BY <2>1, <2>2, <2>3, <2>4 DEF IInv
<1>3. CASE NoMemory
  <2>1. TypeOK'
    BY <1>3 DEF NoMemory, IInv, TypeOK
  <2>2. DistInv'
    BY <1>3 DEF NoMemory, IInv, DistInv, ResultInv
  <2>3. TraceInv'
    BY <1>3 DEF NoMemory, IInv, TraceInv
  <2>4. ResultInv'
    BY <1>3 DEF NoMemory, IInv, ResultInv, NoPath
  <2> QED BY <2>1, <2>2, <2>3, <2>4 DEF IInv
<1> QED BY <1>1, <1>2, <1>3

\* One more node traced back: it is the predecessor of a node with a distance, so
\* it has a smaller one.
LEMMA BackStepStep ==
  ASSUME IInv, BackStep
  PROVE  IInv'
<1>t. /\ Inf \in Nat /\ MaxPath \in Nat
      /\ src \in Nodes /\ dst \in Nodes /\ cur \in Nodes
      /\ rev \in Seq(Nodes)
      /\ \A x, y \in Nodes : w[x][y] \in Nat
      /\ \A x \in Nodes : dist[x] \in Nat /\ dist[x] <= Inf
  BY Values DEF IInv, TypeOK
<1>0. /\ UNCHANGED <<w, src, dst, dist, prev, visited, pc, path>>
      /\ pc = "back" /\ cur # src /\ Len(rev) < MaxPath
      /\ rev' = Append(rev, cur)
      /\ cur' = prev[cur]
  BY DEF BackStep
<1>1. dist[cur] < Inf
  BY <1>0 DEF IInv, TraceInv
<1>2. /\ prev[cur] \in Nodes
      /\ w[prev[cur]][cur] > 0
      /\ dist[cur] = dist[prev[cur]] + w[prev[cur]][cur]
  BY <1>0, <1>1, <1>t DEF IInv, DistInv
<1>3. dist[cur'] < dist[cur]
  BY <1>0, <1>2, <1>t
<1>4. /\ Len(rev') = Len(rev) + 1
      /\ rev'[Len(rev) + 1] = cur
      /\ \A i \in 1..Len(rev) : rev'[i] = rev[i]
      /\ rev' \in Seq(Nodes)
      /\ Len(rev) \in Nat
      /\ \A i \in 1..Len(rev) : rev[i] \in Nodes
  BY <1>0, <1>t
<1>5. TypeOK'
  BY <1>0, <1>2, <1>4 DEF IInv, TypeOK
<1>6. DistInv'
  BY <1>0 DEF IInv, DistInv
<1>7. TraceInv'
  <2>t. TraceInv
    BY DEF IInv
  <2>1. Len(rev') <= MaxPath /\ dist'[cur'] < Inf
    BY <1>0, <1>1, <1>2, <1>3, <1>4, <1>t
  <2>2. \A i \in 1..Len(rev') : dist'[rev'[i]] < Inf /\ dist'[cur'] < dist'[rev'[i]]
    <3> SUFFICES ASSUME NEW i \in 1..Len(rev')
                 PROVE  dist[rev'[i]] < Inf /\ dist[cur'] < dist[rev'[i]]
      BY <1>0
    <3>1. CASE i = Len(rev) + 1
      BY <1>1, <1>3, <1>4, <3>1
    <3>2. CASE i \in 1..Len(rev)
      <4>1. dist[rev[i]] < Inf /\ dist[cur] < dist[rev[i]]
        BY <2>t, <1>0, <3>2 DEF TraceInv
      <4> QED BY <4>1, <1>0, <1>2, <1>3, <1>4, <1>t, <3>2
    <3> QED BY <1>4, <3>1, <3>2
  <2>3. rev'[1] = dst
    BY <1>0, <1>4, <2>t DEF TraceInv
  <2>4. ASSUME NEW i \in 1..(Len(rev') - 1)
        PROVE  rev'[i] # src /\ rev'[i + 1] = prev[rev'[i]]
    <3>1. CASE i = Len(rev)
      BY <1>0, <1>4, <2>t, <3>1 DEF TraceInv
    <3>2. CASE i \in 1..(Len(rev) - 1)
      BY <1>4, <2>t, <3>2 DEF TraceInv
    <3> QED BY <1>4, <3>1, <3>2
  <2>5. ASSUME NEW i \in 1..Len(rev'), NEW j \in 1..Len(rev'), i < j
        PROVE  dist[rev'[j]] < dist[rev'[i]]
    <3>1. i \in 1..Len(rev) /\ rev'[i] = rev[i]
      BY <1>4, <2>5
    <3>2. CASE j = Len(rev) + 1
      BY <1>0, <1>4, <2>t, <3>1, <3>2 DEF TraceInv
    <3>3. CASE j \in 1..Len(rev)
      BY <1>4, <2>t, <2>5, <3>1, <3>3 DEF TraceInv
    <3> QED BY <1>4, <3>2, <3>3
  <2>6. rev'[Len(rev')] # src /\ cur' = prev[rev'[Len(rev')]]
    BY <1>0, <1>4
  <2> QED BY <1>0, <1>4, <2>1, <2>2, <2>3, <2>4, <2>5, <2>6 DEF TraceInv
<1>8. ResultInv'
  BY <1>0 DEF IInv, ResultInv
<1> QED BY <1>5, <1>6, <1>7, <1>8 DEF IInv

\* A function on 1..n is a sequence of length n.
LEMMA FunctionIsSequence ==
  ASSUME NEW S, NEW n \in Nat, NEW f \in [1..n -> S]
  PROVE  f \in Seq(S) /\ Len(f) = n
<1>1. f \in Seq(S)
  BY SeqDef
<1>2. Len(f) \in Nat /\ DOMAIN f = 1..Len(f)
  BY <1>1, LenProperties
<1>3. DOMAIN f = 1..n
  OBVIOUS
<1>4. 1..n = 1..Len(f)
  BY <1>2, <1>3
<1>5. ~(n < Len(f))
  <2> SUFFICES ASSUME n < Len(f) PROVE FALSE
    OBVIOUS
  <2>1. Len(f) \in 1..Len(f) /\ Len(f) \notin 1..n
    BY <1>2
  <2> QED BY <2>1, <1>4
<1>6. ~(Len(f) < n)
  <2> SUFFICES ASSUME Len(f) < n PROVE FALSE
    OBVIOUS
  <2>1. n \in 1..n /\ n \notin 1..Len(f)
    BY <1>2
  <2> QED BY <2>1, <1>4
<1> QED BY <1>1, <1>2, <1>5, <1>6

\* The trace turned round has the type of a result.
LEMMA ForwardType ==
  ASSUME NEW s \in Seq(Nodes), NEW g \in [Nodes -> [Nodes -> Nat]], Len(s) > 0
  PROVE  /\ Forward(s) \in Seq(Nodes)
         /\ Len(Forward(s)) = Len(s)
         /\ \A i \in 1..Len(s) : Forward(s)[i] = s[Len(s) - i + 1]
         /\ [i \in 1..(Len(s) - 1) |-> g[Forward(s)[i]][Forward(s)[i + 1]]] \in Seq(Nat)
<1>1. /\ Len(s) \in Nat
      /\ \A i \in 1..Len(s) : Len(s) - i + 1 \in 1..Len(s)
      /\ \A i \in 1..Len(s) : s[i] \in Nodes
  OBVIOUS
<1>2. \A i \in 1..Len(s) : Forward(s)[i] = s[Len(s) - i + 1] /\ Forward(s)[i] \in Nodes
  BY <1>1 DEF Forward
<1>3. Forward(s) \in [1..Len(s) -> Nodes]
  BY <1>2 DEF Forward
<1>4. Forward(s) \in Seq(Nodes) /\ Len(Forward(s)) = Len(s)
  BY <1>1, <1>3, FunctionIsSequence
<1>5. \A i \in 1..(Len(s) - 1) : g[Forward(s)[i]][Forward(s)[i + 1]] \in Nat
  <2> SUFFICES ASSUME NEW i \in 1..(Len(s) - 1)
               PROVE  g[Forward(s)[i]][Forward(s)[i + 1]] \in Nat
    OBVIOUS
  <2>1. Forward(s)[i] \in Nodes /\ Forward(s)[i + 1] \in Nodes
    BY <1>1, <1>2
  <2>2. g[Forward(s)[i]] \in [Nodes -> Nat]
    BY <2>1
  <2> QED BY <2>1, <2>2
<1>6. [i \in 1..(Len(s) - 1) |-> g[Forward(s)[i]][Forward(s)[i + 1]]] \in Seq(Nat)
  <2> DEFINE m == [i \in 1..(Len(s) - 1) |-> g[Forward(s)[i]][Forward(s)[i + 1]]]
  <2>1. m \in [1..(Len(s) - 1) -> Nat]
    BY <1>5
  <2>2. Len(s) - 1 \in Nat
    BY <1>1
  <2> HIDE DEF m
  <2>3. m \in Seq(Nat)
    BY <2>1, <2>2, FunctionIsSequence
  <2> QED BY <2>3 DEF m
<1> QED BY <1>2, <1>4, <1>6

\* Meeting the origin, or running out of room for the trace, ends the search with
\* a result the trace justifies.
LEMMA BackEndStep ==
  ASSUME IInv, BackOrigin \/ BackFull
  PROVE  IInv'
<1>t. /\ Inf \in Nat /\ MaxPath \in Nat
      /\ src \in Nodes /\ dst \in Nodes /\ cur \in Nodes
      /\ rev \in Seq(Nodes)
      /\ w \in [Nodes -> [Nodes -> Nat]]
      /\ \A x \in Nodes : dist[x] \in Nat /\ dist[x] <= Inf
  BY Values DEF IInv, TypeOK
<1>1. CASE BackOrigin
  <2>0. /\ UNCHANGED <<w, src, dst, dist, prev, visited, cur>>
        /\ pc = "back" /\ pc' = "done" /\ cur = src /\ Len(rev) < MaxPath
        /\ rev' = Append(rev, cur)
        /\ path' = [found   |-> TRUE,
                    indices |-> Forward(rev'),
                    minutes |-> [i \in 1..(Len(Forward(rev')) - 1) |->
                                   w[Forward(rev')[i]][Forward(rev')[i + 1]]],
                    total   |-> dist[dst]]
    BY <1>1 DEF BackOrigin
  <2>1. /\ Len(rev') = Len(rev) + 1
        /\ rev'[Len(rev) + 1] = cur
        /\ \A i \in 1..Len(rev) : rev'[i] = rev[i]
        /\ rev' \in Seq(Nodes)
        /\ Len(rev) \in Nat
    BY <2>0, <1>t
  <2>2. /\ Forward(rev') \in Seq(Nodes)
        /\ Len(Forward(rev')) = Len(rev')
        /\ [i \in 1..(Len(rev') - 1) |-> w[Forward(rev')[i]][Forward(rev')[i + 1]]] \in Seq(Nat)
    <3>1. Len(rev') > 0
      BY <2>1
    <3> QED BY <1>t, <2>1, <3>1, ForwardType
  <2>3. path' \in PathResult
    BY <1>t, <2>0, <2>2 DEF PathResult
  <2>4. TypeOK'
    BY <2>0, <2>1, <2>3 DEF IInv, TypeOK
  <2>5. DistInv'
    BY <2>0 DEF IInv, DistInv
  <2>6. TraceInv'
    <3>t. TraceInv
      BY DEF IInv
    <3>1. dist[cur] < Inf
      BY <2>0, <3>t DEF TraceInv
    <3>2. \A i \in 1..Len(rev') : dist'[rev'[i]] < Inf
      BY <2>0, <2>1, <3>1, <3>t DEF TraceInv
    <3>3. rev'[1] = dst
      BY <2>0, <2>1, <3>t DEF TraceInv
    <3>4. ASSUME NEW i \in 1..(Len(rev') - 1)
          PROVE  rev'[i] # src /\ rev'[i + 1] = prev[rev'[i]]
      <4>1. CASE i = Len(rev)
        BY <2>0, <2>1, <3>t, <4>1 DEF TraceInv
      <4>2. CASE i \in 1..(Len(rev) - 1)
        BY <2>1, <3>t, <4>2 DEF TraceInv
      <4> QED BY <2>1, <4>1, <4>2
    <3>5. ASSUME NEW i \in 1..Len(rev'), NEW j \in 1..Len(rev'), i < j
          PROVE  dist[rev'[j]] < dist[rev'[i]]
      <4>1. i \in 1..Len(rev) /\ rev'[i] = rev[i]
        BY <2>1, <3>5
      <4>2. CASE j = Len(rev) + 1
        BY <2>0, <2>1, <3>t, <4>1, <4>2 DEF TraceInv
      <4>3. CASE j \in 1..Len(rev)
        BY <2>1, <3>t, <3>5, <4>1, <4>3 DEF TraceInv
      <4> QED BY <2>1, <4>2, <4>3
    <3>6. Len(rev') <= MaxPath /\ pc' # "search" /\ pc' # "back"
      BY <1>t, <2>0, <2>1
    <3> QED BY <2>0, <3>2, <3>3, <3>4, <3>5, <3>6 DEF TraceInv
  <2>7. ResultInv'
    BY <2>0, <2>1, <2>2 DEF ResultInv
  <2>8. visited[dst]
    BY <2>0 DEF IInv, DistInv
  <2> QED BY <2>4, <2>5, <2>6, <2>7, <2>8 DEF IInv
<1>2. CASE BackFull
  <2>1. TypeOK'
    BY <1>2 DEF BackFull, IInv, TypeOK
  <2>2. DistInv'
    BY <1>2 DEF BackFull, IInv, DistInv
  <2>3. TraceInv'
    BY <1>2 DEF BackFull, IInv, TraceInv
  <2>4. ResultInv'
    BY <1>2 DEF BackFull, IInv, ResultInv, NoPath
  <2> QED BY <2>1, <2>2, <2>3, <2>4 DEF IInv
<1> QED BY <1>1, <1>2

\* Every step of graph_find_path preserves the invariant.
LEMMA NextIInv == IInv /\ [Next]_vars => IInv'
<1> SUFFICES ASSUME IInv, [Next]_vars PROVE IInv'
  OBVIOUS
<1>1. CASE UNCHANGED vars
  <2>1. TypeOK'
    BY <1>1 DEF vars, IInv, TypeOK
  <2>2. DistInv'
    BY <1>1 DEF vars, IInv, DistInv
  <2>3. TraceInv'
    BY <1>1 DEF vars, IInv, TraceInv
  <2>4. ResultInv'
    BY <1>1 DEF vars, IInv, ResultInv, NoPath, Forward
  <2> QED BY <2>1, <2>2, <2>3, <2>4 DEF IInv
<1>2. ASSUME NEW u \in Nodes, Settle(u) PROVE IInv'
  BY <1>2, SettleStep
<1>3. CASE Reach \/ Exhaust \/ NoMemory
  BY <1>3, EndStep
<1>4. CASE BackStep
  BY <1>4, BackStepStep
<1>5. CASE BackOrigin \/ BackFull
  BY <1>5, BackEndStep
<1> QED BY <1>1, <1>2, <1>3, <1>4, <1>5 DEF Next

\* The invariant holds throughout every search.
THEOREM InvariantHolds == Spec => []IInv
<1> QED BY InitIInv, NextIInv, PTL DEF Spec

\* Type correctness of graph_find_path: in particular the trace back never follows
\* a prev of -1 and distances never exceed Inf.
THEOREM TypeCorrect == Spec => []TypeOK
<1>1. IInv => TypeOK
  BY DEF IInv
<1> QED BY <1>1, InvariantHolds, PTL

\* The trace turned round is a path of the graph, as each node in it has its distance from its
\* predecessor.
LEMMA TightByInv == IInv => PathIsTight
<1>1. ASSUME IInv, path.found
      PROVE  /\ Len(path.indices) \in 1..MaxPath
             /\ path.indices[1] = src
             /\ path.indices[Len(path.indices)] = dst
             /\ Len(path.minutes) = Len(path.indices) - 1
             /\ \A i \in 1..(Len(path.indices) - 1) :
                  /\ path.minutes[i] = w[path.indices[i]][path.indices[i + 1]]
                  /\ path.minutes[i] > 0
                  /\ dist[path.indices[i + 1]] = dist[path.indices[i]] + path.minutes[i]
  <2>t. /\ MaxPath \in Nat
        /\ rev \in Seq(Nodes)
        /\ w \in [Nodes -> [Nodes -> Nat]]
    BY <1>1, Values DEF IInv, TypeOK
  <2>0. /\ Len(rev) > 0
        /\ rev[Len(rev)] = src
        /\ path.indices = Forward(rev)
        /\ path.minutes = [i \in 1..(Len(rev) - 1) |-> w[Forward(rev)[i]][Forward(rev)[i + 1]]]
    BY <1>1 DEF IInv, ResultInv
  <2>1. /\ Len(Forward(rev)) = Len(rev)
        /\ \A i \in 1..Len(rev) : Forward(rev)[i] = rev[Len(rev) - i + 1]
    BY <2>t, <2>0, ForwardType
  <2>2. /\ Len(rev) \in Nat
        /\ Len(rev) <= MaxPath
        /\ rev[1] = dst
    BY <1>1, <2>t, <2>0 DEF IInv, TraceInv
  <2>3. path.indices[1] = src /\ path.indices[Len(path.indices)] = dst
    BY <2>0, <2>1, <2>2
  <2>4. Len(path.minutes) = Len(rev) - 1
    <3>1. /\ path.minutes \in [1..(Len(rev) - 1) -> Nat]
          /\ Len(rev) - 1 \in Nat
      <4>1. path.minutes \in Seq(Nat)
        BY <1>1 DEF IInv, TypeOK, PathResult
      <4>2. path.minutes \in [1..Len(path.minutes) -> Nat]
        BY <4>1, LenProperties
      <4>3. DOMAIN path.minutes = 1..(Len(rev) - 1)
        BY <2>0
      <4> QED BY <2>0, <2>2, <4>2, <4>3
    <3> QED BY <3>1, FunctionIsSequence
  <2>5. ASSUME NEW i \in 1..(Len(rev) - 1)
        PROVE  /\ path.minutes[i] = w[path.indices[i]][path.indices[i + 1]]
               /\ path.minutes[i] > 0
               /\ dist[path.indices[i + 1]] = dist[path.indices[i]] + path.minutes[i]
    <3> DEFINE j == Len(rev) - i
    <3>1. j \in 1..(Len(rev) - 1) /\ j \in 1..Len(rev) /\ j + 1 = Len(rev) - i + 1
          /\ j = Len(rev) - (i + 1) + 1 /\ i \in 1..Len(rev) /\ i + 1 \in 1..Len(rev)
      BY <2>2
    <3>2. path.indices[i] = rev[j + 1] /\ path.indices[i + 1] = rev[j]
      BY <2>0, <2>1, <3>1
    <3>3. rev[j] # src /\ rev[j + 1] = prev[rev[j]] /\ dist[rev[j]] < Inf
      BY <1>1, <3>1 DEF IInv, TraceInv
    <3>4. rev[j] \in Nodes
      BY <2>t, <3>1
    <3>5. /\ w[rev[j + 1]][rev[j]] > 0
          /\ dist[rev[j]] = dist[rev[j + 1]] + w[rev[j + 1]][rev[j]]
      BY <1>1, <3>3, <3>4 DEF IInv, DistInv
    <3>6. path.minutes[i] = w[path.indices[i]][path.indices[i + 1]]
      BY <2>0
    <3> QED BY <3>2, <3>5, <3>6
  <2>6. Len(path.indices) = Len(rev)
    BY <2>0, <2>1
  <2>7. Len(path.indices) \in 1..MaxPath
    BY <2>t, <2>0, <2>2, <2>6
  <2>8. Len(path.minutes) = Len(path.indices) - 1
    BY <2>4, <2>6
  <2>9. \A i \in 1..(Len(path.indices) - 1) :
          /\ path.minutes[i] = w[path.indices[i]][path.indices[i + 1]]
          /\ path.minutes[i] > 0
          /\ dist[path.indices[i + 1]] = dist[path.indices[i]] + path.minutes[i]
    <3> SUFFICES ASSUME NEW i \in 1..(Len(rev) - 1)
                 PROVE  /\ path.minutes[i] = w[path.indices[i]][path.indices[i + 1]]
                        /\ path.minutes[i] > 0
                        /\ dist[path.indices[i + 1]] = dist[path.indices[i]] + path.minutes[i]
      BY <2>6, Zenon
    <3> QED BY <2>5, Zenon
  <2> QED BY <2>3, <2>7, <2>8, <2>9, Zenon
<1> QED BY <1>1 DEF PathIsTight

\* The path graph_find_path hands out is a path of the graph from origin to
\* destination, and its hops account for the distances.
THEOREM AnswersAPath == Spec => []PathIsTight
<1> QED BY TightByInv, InvariantHolds, PTL

\* Settled nodes are nearer than the destination, and their edges have been followed.
LEMMA FasterByInv == IInv => NothingIsFaster
<1>1. ASSUME IInv, path.found
      PROVE  /\ Potential(src) = 0
             /\ path.total = Potential(dst)
             /\ \A u, v \in Nodes : w[u][v] > 0 => Potential(v) <= Potential(u) + w[u][v]
  <2>t. /\ src \in Nodes /\ dst \in Nodes
        /\ \A x, y \in Nodes : w[x][y] \in Nat
        /\ \A x \in Nodes : dist[x] \in Nat
    BY <1>1, Values DEF IInv
  <2>0. /\ dist[src] = 0
        /\ path.total = dist[dst]
        /\ visited[dst]
    BY <1>1 DEF IInv, DistInv, ResultInv
  <2>1. Potential(src) = 0 /\ path.total = Potential(dst)
    BY <2>t, <2>0 DEF Potential
  <2>2. ASSUME NEW u \in Nodes, NEW v \in Nodes, w[u][v] > 0
        PROVE  Potential(v) <= Potential(u) + w[u][v]
    <3>0. Potential(v) <= dist[dst] /\ Potential(v) <= dist[v] /\ Potential(v) \in Nat
      BY <2>t DEF Potential
    <3>1. CASE dist[u] < dist[dst]
      <4>1. visited[u] /\ u # dst
        BY <1>1, <2>0, <2>t, <3>1 DEF IInv, DistInv
      <4>2. dist[v] <= dist[u] + w[u][v]
        BY <1>1, <2>2, <4>1 DEF IInv, DistInv
      <4> QED BY <2>t, <3>0, <3>1, <4>2 DEF Potential
    <3>2. CASE ~(dist[u] < dist[dst])
      BY <2>t, <3>0, <3>2 DEF Potential
    <3> QED BY <3>1, <3>2
  <2> QED BY <2>1, <2>2
<1> QED BY <1>1 DEF NothingIsFaster

\* The answer of graph_find_path is a shortest path: the distances are a potential
\* that no walk from origin to destination can beat.
THEOREM AnswersTheShortest == Spec => []NothingIsFaster
<1> QED BY FasterByInv, InvariantHolds, PTL

\* graph_find_path reports "no path" only when the settled nodes cannot be left
\* within Inf minutes, or when the trace did not fit MAX_GRAPH_PATH.
THEOREM GivesUpRightly == Spec => []GivesUpForAReason
<1>1. ASSUME IInv, pc = "done", ~path.found, Len(rev) # MaxPath
      PROVE  /\ visited[src]
             /\ ~visited[dst]
             /\ \A u, v \in Nodes : visited[u] /\ ~visited[v] /\ w[u][v] > 0 =>
                   dist[u] + w[u][v] >= Inf
  <2>t. /\ Inf \in Nat /\ Inf > 0
        /\ src \in Nodes /\ dst \in Nodes
        /\ \A x, y \in Nodes : w[x][y] \in Nat
        /\ \A x \in Nodes : dist[x] \in Nat
    BY <1>1, Values, GraphAssumption DEF IInv
  <2>1. ~visited[dst] /\ \A v \in Nodes : visited[v] \/ dist[v] >= Inf
    BY <1>1 DEF IInv, ResultInv
  <2>2. visited[src]
    BY <1>1, <2>1, <2>t DEF IInv, DistInv
  <2>3. ASSUME NEW u \in Nodes, NEW v \in Nodes, visited[u], ~visited[v], w[u][v] > 0
        PROVE  dist[u] + w[u][v] >= Inf
    <3>1. dist[v] <= dist[u] + w[u][v]
      BY <1>1, <2>1, <2>3 DEF IInv, DistInv
    <3> QED BY <2>1, <2>3, <2>t, <3>1
  <2> QED BY <2>1, <2>2, <2>3
<1>2. IInv => GivesUpForAReason
  BY <1>1 DEF GivesUpForAReason
<1> QED BY <1>2, InvariantHolds, PTL

\* Each node traced is nearer to the origin than the one before it.
LEMMA AcyclicByInv == IInv => TraceIsAcyclic
<1>1. ASSUME IInv, NEW i \in 1..Len(rev), NEW j \in 1..Len(rev), rev[i] = rev[j]
      PROVE  i = j
  <2>t. rev \in Seq(Nodes) /\ rev[i] \in Nodes /\ rev[j] \in Nodes
        /\ \A x \in Nodes : dist[x] \in Nat
    <3>1. rev \in Seq(Nodes) /\ \A x \in Nodes : dist[x] \in Nat
      BY <1>1, Values DEF IInv, TypeOK
    <3> QED BY <3>1, ElementOfSeq
  <2>1. ~(i < j) /\ ~(j < i)
    BY <1>1, <2>t DEF IInv, TraceInv
  <2> QED BY <2>1, <2>t
<1> QED BY <1>1 DEF TraceIsAcyclic

\* The trace back through prev never visits a node twice, so it ends by itself.
THEOREM NeverTracesACircle == Spec => []TraceIsAcyclic
<1> QED BY AcyclicByInv, InvariantHolds, PTL

-----------------------------------------------------------------------------
(* The lengths of walks *)

\* One edge more: a number for each node, at most the one without it and the one through each
\* neighbour, and equal to one of them.
LEMMA OneMore ==
  ASSUME TypeOK, NEW d \in [Nodes -> Nat]
  PROVE  /\ OneEdgeMore(d) \in [Nodes -> Nat]
         /\ \A v \in Nodes : OneEdgeMore(d)[v] <= d[v]
         /\ \A u, v \in Nodes : w[u][v] > 0 => OneEdgeMore(d)[v] <= d[u] + w[u][v]
         /\ \A v \in Nodes : \/ OneEdgeMore(d)[v] = d[v]
                             \/ \E u \in Nodes : w[u][v] > 0 /\ OneEdgeMore(d)[v] = d[u] + w[u][v]
<1> DEFINE Ways(v) == {d[v]} \cup {d[u] + w[u][v] : u \in {x \in Nodes : w[x][v] > 0}}
<1>1. \A u, v \in Nodes : d[u] \in Nat /\ w[u][v] \in Nat
  BY Values
<1>2. ASSUME NEW v \in Nodes
      PROVE  Min(Ways(v)) \in Ways(v) /\ Min(Ways(v)) \in Nat /\ \A n \in Ways(v) : Min(Ways(v)) <= n
  <2>1. Ways(v) \subseteq Nat /\ d[v] \in Ways(v)
    BY <1>1
  <2> HIDE DEF Ways
  <2>2. Ways(v) # {}
    BY <2>1
  <2>3. Min(Ways(v)) \in Ways(v) /\ \A n \in Ways(v) : Min(Ways(v)) <= n
    BY <2>1, <2>2, LeastNumber
  <2> QED BY <2>1, <2>3
<1>3. OneEdgeMore(d) = [v \in Nodes |-> Min(Ways(v))]
  BY DEF OneEdgeMore
<1>4. \A v \in Nodes : d[v] \in Ways(v)
  OBVIOUS
<1>5. \A u, v \in Nodes : w[u][v] > 0 => d[u] + w[u][v] \in Ways(v)
  OBVIOUS
<1>6. \A v \in Nodes : \A n \in Ways(v) : n = d[v] \/ \E u \in Nodes : w[u][v] > 0 /\ n = d[u] + w[u][v]
  OBVIOUS
<1> HIDE DEF Ways
<1>7. \A v \in Nodes : OneEdgeMore(d)[v] = Min(Ways(v))
  BY <1>3
<1>8. OneEdgeMore(d) \in [Nodes -> Nat]
  BY <1>2, <1>3
<1>9. \A v \in Nodes : OneEdgeMore(d)[v] <= d[v]
  BY <1>2, <1>4, <1>7
<1>10. \A u, v \in Nodes : w[u][v] > 0 => OneEdgeMore(d)[v] <= d[u] + w[u][v]
  BY <1>2, <1>5, <1>7
<1>11. \A v \in Nodes : \/ OneEdgeMore(d)[v] = d[v]
                        \/ \E u \in Nodes : w[u][v] > 0 /\ OneEdgeMore(d)[v] = d[u] + w[u][v]
  BY <1>2, <1>6, <1>7
<1> QED BY <1>8, <1>9, <1>10, <1>11

\* What holds of the walk without an edge, and with an edge more if without it, holds of the
\* walks of N - 1 edges.
LEMMA WalkRule ==
  ASSUME TypeOK, NEW I,
         [v \in Nodes |-> IF v = src THEN 0 ELSE Inf] \in I[0],
         \A n \in 1..(N - 1) : \A a \in I[n - 1] : a \in [Nodes -> Nat] /\ OneEdgeMore(a) \in I[n]
  PROVE  WalkLengths \in I[N - 1]
<1> DEFINE step == [k \in Nat |-> [length \in [Nodes -> Nat] |-> OneEdgeMore(length)]]
           start == [v \in Nodes |-> IF v = src THEN 0 ELSE Inf]
           edges == [k \in 1..(N - 1) |-> k]
<1>1. N - 1 \in Nat
  BY GraphAssumption
<1>2. edges \in [1..(N - 1) -> Nat]
  BY <1>1
<1>3. \A k \in Nat : \A a \in [Nodes -> Nat] : step[k][a] = OneEdgeMore(a)
  OBVIOUS
<1>4. \A n \in 1..(N - 1) : edges[n] \in Nat
  BY <1>1
<1>5. start \in I[0]
  OBVIOUS
<1>6. WalkLengths = FoldWith(step, start, edges)
  BY DEF WalkLengths
<1> HIDE DEF step, start, edges
<1>7. edges \in Seq(Nat) /\ Len(edges) = N - 1
  BY <1>1, <1>2, FunctionIsSequence
<1>8. \A n \in 1..Len(edges) : \A a \in I[n - 1] : step[edges[n]][a] \in I[n]
  <2> SUFFICES ASSUME NEW n \in 1..(N - 1), NEW a \in I[n - 1] PROVE step[edges[n]][a] \in I[n]
    BY <1>7
  <2>1. a \in [Nodes -> Nat] /\ OneEdgeMore(a) \in I[n] /\ edges[n] \in Nat
    BY <1>4
  <2> QED BY <2>1, <1>3
<1>9. FoldWith(step, start, edges) \in I[Len(edges)]
  BY <1>5, <1>7, <1>8, LoopRule
<1> QED BY <1>6, <1>7, <1>9

\* A number for each node that is 0 at the origin, nowhere more than Inf and that no edge
\* increases by more than its minutes.
IsPotential(P) ==
  /\ P \in [Nodes -> Nat]
  /\ P[src] = 0
  /\ \A v \in Nodes : P[v] <= Inf
  /\ \A u, v \in Nodes : w[u][v] > 0 => P[v] <= P[u] + w[u][v]

\* No walk takes less than that.
LEMMA NoWalkIsFaster ==
  ASSUME TypeOK, NEW P, IsPotential(P)
  PROVE  WalkLengths \in [Nodes -> Nat] /\ \A v \in Nodes : P[v] <= WalkLengths[v]
<1> DEFINE Above == {d \in [Nodes -> Nat] : \A v \in Nodes : P[v] <= d[v]}
           start == [v \in Nodes |-> IF v = src THEN 0 ELSE Inf]
           I == [n \in 0..(N - 1) |-> Above]
<1>1. N - 1 \in Nat /\ Inf \in Nat
  BY GraphAssumption
<1>2. /\ P \in [Nodes -> Nat] /\ P[src] = 0 /\ \A v \in Nodes : P[v] <= Inf
      /\ \A u, v \in Nodes : w[u][v] > 0 => P[v] <= P[u] + w[u][v]
  BY DEF IsPotential
<1>3. start \in Above
  <2>1. start \in [Nodes -> Nat]
    BY <1>1
  <2>2. \A v \in Nodes : P[v] <= start[v]
    BY <1>2
  <2> QED BY <2>1, <2>2
<1>4. ASSUME NEW a \in Above PROVE a \in [Nodes -> Nat] /\ OneEdgeMore(a) \in Above
  <2>1. a \in [Nodes -> Nat] /\ \A v \in Nodes : P[v] <= a[v]
    OBVIOUS
  <2> HIDE DEF Above
  <2>2. OneEdgeMore(a) \in [Nodes -> Nat]
    BY <2>1, OneMore
  <2>3. ASSUME NEW v \in Nodes PROVE P[v] <= OneEdgeMore(a)[v]
    <3>1. CASE OneEdgeMore(a)[v] = a[v]
      BY <3>1, <2>1
    <3>2. ASSUME NEW u \in Nodes, w[u][v] > 0, OneEdgeMore(a)[v] = a[u] + w[u][v]
          PROVE  P[v] <= OneEdgeMore(a)[v]
      <4>1. P[v] <= P[u] + w[u][v] /\ P[u] <= a[u]
        BY <3>2, <1>2, <2>1
      <4>2. P[v] \in Nat /\ P[u] \in Nat /\ a[u] \in Nat /\ w[u][v] \in Nat
        BY <1>2, <2>1, Values
      <4> QED BY <3>2, <4>1, <4>2
    <3> QED BY <3>1, <3>2, <2>1, OneMore
  <2> QED BY <2>1, <2>2, <2>3 DEF Above
<1> HIDE DEF Above
<1>5. start \in I[0]
  <2>1. 0 \in 0..(N - 1)
    BY <1>1
  <2> HIDE DEF start
  <2> QED BY <2>1, <1>3
<1>6. \A n \in 1..(N - 1) : \A a \in I[n - 1] : a \in [Nodes -> Nat] /\ OneEdgeMore(a) \in I[n]
  <2> SUFFICES ASSUME NEW n \in 1..(N - 1), NEW a \in I[n - 1]
               PROVE  a \in [Nodes -> Nat] /\ OneEdgeMore(a) \in I[n]
    OBVIOUS
  <2>1. n \in 0..(N - 1) /\ n - 1 \in 0..(N - 1)
    BY <1>1
  <2>2. a \in Above /\ I[n] = Above
    BY <2>1
  <2> QED BY <2>2, <1>4
<1>7. I[N - 1] = Above
  BY <1>1
<1> HIDE DEF I
<1>8. WalkLengths \in Above
  BY <1>5, <1>6, <1>7, WalkRule
<1> QED BY <1>8 DEF Above

\* A path of the graph from the origin, of at most N nodes each with its distance, is one of
\* the walks.
IsWay(p, L) ==
  /\ L \in 1..N
  /\ \A i \in 1..L : p[i] \in Nodes
  /\ p[1] = src
  /\ dist[src] = 0
  /\ \A i \in 1..(L - 1) : w[p[i]][p[i + 1]] > 0 /\ dist[p[i + 1]] = dist[p[i]] + w[p[i]][p[i + 1]]

\* The walk of that many edges along it takes no longer.
LEMMA AWalkAsFast ==
  ASSUME TypeOK, NEW p, NEW L, IsWay(p, L)
  PROVE  WalkLengths[p[L]] <= dist[p[L]]
<1> DEFINE Below(n) == {d \in [Nodes -> Nat] : \A i \in 1..L : i <= n + 1 => d[p[i]] <= dist[p[i]]}
           start == [v \in Nodes |-> IF v = src THEN 0 ELSE Inf]
           I == [n \in 0..(N - 1) |-> Below(n)]
<1>1. N - 1 \in Nat /\ Inf \in Nat /\ src \in Nodes
  BY GraphAssumption, Values
<1>2. /\ L \in 1..N /\ p[1] = src /\ dist[src] = 0
      /\ \A i \in 1..L : p[i] \in Nodes
      /\ \A i \in 1..(L - 1) : w[p[i]][p[i + 1]] > 0 /\ dist[p[i + 1]] = dist[p[i]] + w[p[i]][p[i + 1]]
  BY DEF IsWay
<1>3. start \in Below(0)
  <2>1. start \in [Nodes -> Nat]
    BY <1>1
  <2>2. start[src] = 0
    BY <1>1
  <2> HIDE DEF start
  <2>3. \A i \in 1..L : i <= 0 + 1 => i = 1
    BY <1>2
  <2>4. \A i \in 1..L : i <= 0 + 1 => start[p[i]] <= dist[p[i]]
    BY <1>2, <2>2, <2>3
  <2> QED BY <2>1, <2>4
<1>4. ASSUME NEW n \in 1..(N - 1), NEW a \in Below(n - 1)
      PROVE  a \in [Nodes -> Nat] /\ OneEdgeMore(a) \in Below(n)
  <2>1. a \in [Nodes -> Nat] /\ \A i \in 1..L : i <= n => a[p[i]] <= dist[p[i]]
    <3>1. (n - 1) + 1 = n
      BY <1>1
    <3> QED BY <3>1
  <2> HIDE DEF Below
  <2>2. OneEdgeMore(a) \in [Nodes -> Nat]
    BY <2>1, OneMore
  <2>3. ASSUME NEW i \in 1..L, i <= n + 1 PROVE OneEdgeMore(a)[p[i]] <= dist[p[i]]
    <3>1. p[i] \in Nodes /\ dist[p[i]] \in Nat /\ a[p[i]] \in Nat /\ OneEdgeMore(a)[p[i]] \in Nat
      BY <1>2, <2>1, <2>2, Values
    <3>2. CASE i <= n
      <4>1. OneEdgeMore(a)[p[i]] <= a[p[i]] /\ a[p[i]] <= dist[p[i]]
        BY <3>1, <3>2, <2>1, OneMore
      <4> QED BY <3>1, <4>1
    <3>3. CASE i = n + 1
      <4>1. n \in 1..L /\ n \in 1..(L - 1) /\ n <= n
        BY <1>1, <1>2, <3>3
      <4>2. /\ p[n] \in Nodes /\ p[n + 1] \in Nodes /\ w[p[n]][p[n + 1]] > 0
            /\ dist[p[n + 1]] = dist[p[n]] + w[p[n]][p[n + 1]]
        BY <4>1, <3>1, <3>3, <1>2
      <4>3. a[p[n]] <= dist[p[n]]
        BY <4>1, <2>1
      <4>4. OneEdgeMore(a)[p[n + 1]] <= a[p[n]] + w[p[n]][p[n + 1]]
        BY <4>2, <2>1, OneMore
      <4>5. a[p[n]] \in Nat /\ dist[p[n]] \in Nat /\ w[p[n]][p[n + 1]] \in Nat
        BY <4>2, <2>1, Values
      <4> QED BY <3>1, <3>3, <4>2, <4>3, <4>4, <4>5
    <3>4. i <= n \/ i = n + 1
      BY <2>3, <1>1
    <3> QED BY <3>2, <3>3, <3>4
  <2> QED BY <2>1, <2>2, <2>3 DEF Below
<1> HIDE DEF Below
<1>5. start \in I[0]
  <2>1. 0 \in 0..(N - 1)
    BY <1>1
  <2> HIDE DEF start
  <2> QED BY <2>1, <1>3
<1>6. \A n \in 1..(N - 1) : \A a \in I[n - 1] : a \in [Nodes -> Nat] /\ OneEdgeMore(a) \in I[n]
  <2> SUFFICES ASSUME NEW n \in 1..(N - 1), NEW a \in I[n - 1]
               PROVE  a \in [Nodes -> Nat] /\ OneEdgeMore(a) \in I[n]
    OBVIOUS
  <2>1. n \in 0..(N - 1) /\ n - 1 \in 0..(N - 1)
    BY <1>1
  <2>2. a \in Below(n - 1) /\ I[n] = Below(n)
    BY <2>1
  <2> QED BY <2>2, <1>4
<1>7. I[N - 1] = Below(N - 1)
  BY <1>1
<1> HIDE DEF I
<1>8. WalkLengths \in Below(N - 1)
  BY <1>5, <1>6, <1>7, WalkRule
<1>9. L \in 1..L /\ L <= (N - 1) + 1
  BY <1>2, GraphAssumption
<1> QED BY <1>8, <1>9 DEF Below

\* A path that visits no node twice has at most N nodes.
LEMMA AtMostN ==
  ASSUME NEW s \in Seq(Nodes), \A i, j \in 1..Len(s) : s[i] = s[j] => i = j
  PROVE  Len(s) <= N
<1>1. N \in Nat /\ Len(s) \in Nat /\ \A i \in 1..Len(s) : s[i] \in Nodes
  BY GraphAssumption, LenProperties, ElementOfSeq
<1>2. s \in [1..Len(s) -> Nodes]
  BY LenProperties
<1>3. s \in Injection(1..Len(s), Nodes)
  BY <1>2 DEF Injection, IsInjective
<1>4. IsFiniteSet(Nodes) /\ Cardinality(Nodes) = N
  <2>1. IsFiniteSet(0..(N - 1)) /\ Cardinality(0..(N - 1)) = IF 0 > N - 1 THEN 0 ELSE (N - 1) - 0 + 1
    BY <1>1, FS_Interval
  <2> QED BY <2>1, <1>1, GraphAssumption DEF Nodes
<1>5. Cardinality(1..Len(s)) <= Cardinality(Nodes)
  BY <1>3, <1>4, FS_Injection
<1>6. Cardinality(1..Len(s)) = Len(s)
  <2>1. Cardinality(1..Len(s)) = IF 1 > Len(s) THEN 0 ELSE Len(s) - 1 + 1
    BY <1>1, FS_Interval
  <2> QED BY <2>1, <1>1
<1> QED BY <1>4, <1>5, <1>6

\* The minutes of the hops add up to what the last number has more than the first, if each
\* hop accounts for the difference of its ends.
LEMMA HopsAddUp ==
  ASSUME NEW s \in Seq(Nat), NEW at,
         \A i \in 1..(Len(s) + 1) : at[i] \in Nat,
         at[1] = 0,
         \A i \in 1..Len(s) : at[i + 1] = at[i] + s[i]
  PROVE  Total(s) = at[Len(s) + 1]
<1>1. Len(s) \in Nat /\ \A i \in 1..Len(s) : s[i] \in Nat
  BY LenProperties, ElementOfSeq
<1>2. /\ Upto(s, 0) = 0 /\ Upto(s, Len(s)) = Total(s)
      /\ \A m \in 1..Len(s) : Upto(s, m) = Upto(s, m - 1) + s[m]
  BY UptoFacts
<1> DEFINE Q == {m \in 0..Len(s) : Upto(s, m) # at[m + 1]}
<1>3. Q = {}
  <2> SUFFICES ASSUME Q # {} PROVE FALSE
    OBVIOUS
  <2>1. PICK m \in Q : m - 1 \notin Q
    <3>1. Q \subseteq 0..Len(s)
      OBVIOUS
    <3> HIDE DEF Q
    <3> QED BY <3>1, <1>1, LeastOf
  <2>2. m \in 0..Len(s) /\ Upto(s, m) # at[m + 1]
    OBVIOUS
  <2>3. m # 0
    <3>1. 0 + 1 = 1
      OBVIOUS
    <3> QED BY <3>1, <2>2, <1>2
  <2>4. m \in 1..Len(s) /\ m - 1 \in 0..Len(s) /\ (m - 1) + 1 = m
    BY <2>2, <2>3, <1>1
  <2>5. Upto(s, m - 1) = at[m]
    BY <2>1, <2>4
  <2>6. at[m + 1] = at[m] + s[m] /\ Upto(s, m) = Upto(s, m - 1) + s[m]
    BY <2>4, <1>2
  <2> QED BY <2>2, <2>5, <2>6
<1>4. Len(s) \in 0..Len(s)
  BY <1>1
<1> QED BY <1>2, <1>3, <1>4

\* The invariant has the path that is handed out and the distances it accounts for.
LEMMA PathFacts == IInv => PathIsTight /\ NothingIsFaster /\ TraceIsAcyclic
<1> QED BY TightByInv, FasterByInv, AcyclicByInv

\* An answer is as fast as the fastest walk from origin to destination, and its segments add
\* up to it.
LEMMA FoundIsShortest ==
  ASSUME IInv, path.found
  PROVE  path.total = WalkLengths[dst] /\ path.total = Total(path.minutes)
<1> DEFINE p == path.indices
           L == Len(path.indices)
           P == [v \in Nodes |-> Potential(v)]
           at == [i \in 1..L |-> dist[p[i]]]
<1>t. /\ Inf \in Nat /\ MaxPath \in Nat /\ src \in Nodes /\ dst \in Nodes
      /\ \A x, y \in Nodes : w[x][y] \in Nat
      /\ \A x \in Nodes : dist[x] \in Nat /\ dist[x] <= Inf
  BY Values DEF IInv
<1>1. /\ L \in 1..MaxPath /\ p[1] = src /\ p[L] = dst /\ Len(path.minutes) = L - 1
      /\ \A i \in 1..(L - 1) : /\ path.minutes[i] = w[p[i]][p[i + 1]]
                               /\ path.minutes[i] > 0
                               /\ dist[p[i + 1]] = dist[p[i]] + path.minutes[i]
  BY PathFacts DEF PathIsTight
<1>2. /\ Potential(src) = 0 /\ path.total = Potential(dst)
      /\ \A u, v \in Nodes : w[u][v] > 0 => Potential(v) <= Potential(u) + w[u][v]
  BY PathFacts DEF NothingIsFaster
<1>3. dist[src] = 0 /\ path.total = dist[dst]
  BY DEF IInv, DistInv, ResultInv
<1>4. path.indices \in Seq(Nodes) /\ path.minutes \in Seq(Nat)
  BY DEF IInv, TypeOK, PathResult
<1>5. \A i \in 1..L : p[i] \in Nodes
  BY <1>4, ElementOfSeq
<1>6. L <= N
  <2>1. rev \in Seq(Nodes) /\ Len(rev) > 0 /\ path.indices = Forward(rev)
    BY DEF IInv, TypeOK, ResultInv
  <2>2. Len(rev) <= N
    BY <2>1, PathFacts, AtMostN DEF TraceIsAcyclic
  <2>3. w \in [Nodes -> [Nodes -> Nat]]
    BY DEF IInv, TypeOK
  <2> QED BY <2>1, <2>2, <2>3, ForwardType
<1>7. dist[dst] <= WalkLengths[dst]
  <2>1. \A v \in Nodes : Potential(v) \in Nat /\ Potential(v) <= Inf
    BY <1>t DEF Potential
  <2>2. P \in [Nodes -> Nat] /\ \A v \in Nodes : P[v] = Potential(v)
    BY <2>1
  <2> HIDE DEF P
  <2>3. IsPotential(P)
    BY <1>t, <1>2, <2>1, <2>2 DEF IsPotential
  <2>4. P[dst] <= WalkLengths[dst]
    BY <1>t, <2>3, NoWalkIsFaster DEF IInv
  <2> QED BY <1>t, <1>2, <1>3, <2>2, <2>4
<1>8. WalkLengths[dst] <= dist[dst] /\ WalkLengths[dst] \in Nat
  <2>1. L \in 1..N
    BY <1>t, <1>1, <1>6, GraphAssumption
  <2>2. \A i \in 1..(L - 1) : w[p[i]][p[i + 1]] > 0 /\ dist[p[i + 1]] = dist[p[i]] + w[p[i]][p[i + 1]]
    BY <1>1
  <2> HIDE DEF p, L
  <2>3. IsWay(p, L)
    BY <1>1, <1>3, <1>5, <2>1, <2>2 DEF IsWay
  <2>4. WalkLengths[p[L]] <= dist[p[L]]
    BY <2>3, AWalkAsFast DEF IInv
  <2>5. ASSUME NEW Q, IsPotential(Q) PROVE WalkLengths[dst] \in Nat
    BY <1>t, <2>5, NoWalkIsFaster DEF IInv
  <2>6. IsPotential([v \in Nodes |-> 0])
    <3>1. [v \in Nodes |-> 0] \in [Nodes -> Nat] /\ \A v \in Nodes : [x \in Nodes |-> 0][v] = 0
      OBVIOUS
    <3> QED BY <1>t, <3>1 DEF IsPotential
  <2> QED BY <1>1, <2>4, <2>5, <2>6
<1>9. Total(path.minutes) = dist[dst]
  <2>1. L \in Nat /\ L > 0 /\ (L - 1) + 1 = L
    BY <1>t, <1>1
  <2>2. \A i \in 1..L : at[i] = dist[p[i]] /\ at[i] \in Nat
    BY <1>t, <1>5
  <2> HIDE DEF at, p, L
  <2>3. \A i \in 1..(Len(path.minutes) + 1) : at[i] \in Nat
    BY <1>1, <2>1, <2>2
  <2>4. at[1] = 0 /\ at[Len(path.minutes) + 1] = dist[dst]
    <3>1. 1 \in 1..L /\ L \in 1..L /\ Len(path.minutes) + 1 = L
      BY <1>1, <2>1
    <3> QED BY <1>1, <1>3, <2>2, <3>1
  <2>5. \A i \in 1..Len(path.minutes) : at[i + 1] = at[i] + path.minutes[i]
    <3> SUFFICES ASSUME NEW i \in 1..(L - 1) PROVE at[i + 1] = at[i] + path.minutes[i]
      BY <1>1
    <3>1. i \in 1..L /\ i + 1 \in 1..L
      BY <2>1
    <3>2. dist[p[i + 1]] = dist[p[i]] + path.minutes[i]
      BY <1>1
    <3> QED BY <2>2, <3>1, <3>2
  <2> QED BY <1>4, <2>3, <2>4, <2>5, HopsAddUp
<1> QED BY <1>t, <1>3, <1>7, <1>8, <1>9

\* A search that gives up, and not for the length of the path, leaves no walk below Inf.
LEMMA GivenUpIsFar ==
  ASSUME IInv, pc = "done", ~path.found, Len(rev) # MaxPath
  PROVE  WalkLengths[dst] >= Inf
<1>t. /\ Inf \in Nat /\ src \in Nodes /\ dst \in Nodes
      /\ \A x, y \in Nodes : w[x][y] \in Nat
      /\ \A x \in Nodes : dist[x] \in Nat /\ dist[x] <= Inf
      /\ dist \in [Nodes -> 0..Inf]
  BY Values DEF IInv, TypeOK
<1>1. ~visited[dst] /\ \A v \in Nodes : visited[v] \/ dist[v] >= Inf
  BY DEF IInv, ResultInv
<1>2. ASSUME NEW u \in Nodes, NEW v \in Nodes, w[u][v] > 0 PROVE dist[v] <= dist[u] + w[u][v]
  <2>1. CASE visited[u]
    BY <1>1, <1>2, <2>1 DEF IInv, DistInv
  <2>2. CASE ~visited[u]
    <3>1. dist[u] >= Inf
      BY <1>1, <2>2
    <3> QED BY <1>t, <3>1
  <2> QED BY <2>1, <2>2
<1>3. dist \in [Nodes -> Nat] /\ dist[src] = 0
  BY <1>t DEF IInv, DistInv
<1>4. IsPotential(dist)
  BY <1>t, <1>2, <1>3 DEF IsPotential
<1>5. dist[dst] <= WalkLengths[dst] /\ WalkLengths[dst] \in Nat
  BY <1>t, <1>4, NoWalkIsFaster DEF IInv
<1> QED BY <1>t, <1>1, <1>5

\* FR-S04: the minutes that graph_find_path answers are those of the fastest of all walks
\* from origin to destination, and it answers that there is no path only if there is none
\* below Inf or the one it found has more than MaxPath nodes.
THEOREM ShortestOfAllWalks == Spec => []AgreesWithWalks
<1>1. IInv => AgreesWithWalks
  BY FoundIsShortest, GivenUpIsFar DEF AgreesWithWalks
<1> QED BY <1>1, InvariantHolds, PTL
=============================================================================
