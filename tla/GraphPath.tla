------------------------------ MODULE GraphPath ------------------------------
(***************************************************************************)
(* graph_find_path of src/common/graph.c: the search for the fastest way   *)
(* between two nodes of the transfer graph, one action per turn of its     *)
(* loops.                                                                  *)
(*                                                                         *)
(* w[u][v] is the weight_min of the edge from u to v and 0 when there is   *)
(* none: graph_add_edge keeps at most one edge per pair and every weight   *)
(* positive (module TransferGraph), so a turn of the search relaxes each   *)
(* neighbour once and the order of the edge list does not show.  The route *)
(* names the edges carry are left out.                                     *)
(***************************************************************************)
EXTENDS Integers, Sequences, FiniteSetsExt, Loops

CONSTANTS N,         \* node_count
          Inf,       \* inf, INT_MAX / 4 in the code
          MaxPath,   \* MAX_GRAPH_PATH, 256 in the code
          Graphs     \* the weight matrices to search

Nodes == 0..(N - 1)

ASSUME GraphAssumption ==
  /\ N \in Nat \ {0}
  /\ Inf \in Nat \ {0}
  /\ MaxPath \in Nat \ {0}
  /\ Graphs \subseteq [Nodes -> [Nodes -> Nat]]

VARIABLES w,         \* the graph, never changed by a search
          src, dst,  \* from_index, to_index
          dist, prev, visited,
          cur,       \* the node being traced back
          rev,       \* the nodes traced back so far, last stop first
          pc,        \* "search", "back", "done", or "failed" for want of memory
          path       \* the result: found, indices, segment_minutes, total_minutes

vars == <<w, src, dst, dist, prev, visited, cur, rev, pc, path>>

NoPath == [found |-> FALSE, indices |-> <<>>, minutes |-> <<>>, total |-> 0]

\* The indices are valid and the arrays filled; prev starts at -1.
Init == /\ w \in Graphs
        /\ src \in Nodes
        /\ dst \in Nodes
        /\ dist = [v \in Nodes |-> IF v = src THEN 0 ELSE Inf]
        /\ prev = [v \in Nodes |-> IF v = src THEN src ELSE -1]
        /\ visited = [v \in Nodes |-> FALSE]
        /\ cur = dst
        /\ rev = <<>>
        /\ pc = "search"
        /\ path = NoPath

\* An array could not be allocated: the caller is told there is no path.
NoMemory ==
  /\ pc = "search"
  /\ \A v \in Nodes : ~visited[v]
  /\ pc' = "failed"
  /\ UNCHANGED <<w, src, dst, dist, prev, visited, cur, rev, path>>

\* Mutant: the scan keeps the last candidate instead of the nearest one.
IsBest_Mut(u) == /\ ~visited[u] /\ dist[u] < Inf
                 /\ \A v \in Nodes : ~visited[v] /\ dist[v] < Inf => v <= u

\* The scan for the nearest node not settled yet takes the first of equals.
IsBest(u) == /\ ~visited[u]
             /\ dist[u] < Inf
             /\ \A v \in Nodes : ~visited[v] =>
                   dist[u] < dist[v] \/ (dist[u] = dist[v] /\ u <= v)

\* Mutant: a neighbour takes the new distance whether or not it is shorter.
Improves_Mut(u, v) == w[u][v] > 0 /\ ~visited'[v]

Improves(u, v) == /\ w[u][v] > 0
                  /\ ~visited'[v]
                  /\ dist[u] + w[u][v] < dist[v]

\* The nearest node is settled and its neighbours are relaxed.
Settle(u) ==
  /\ pc = "search"
  /\ IsBest(u)
  /\ u # dst
  /\ visited' = [visited EXCEPT ![u] = TRUE]
  /\ dist' = [v \in Nodes |-> IF Improves(u, v) THEN dist[u] + w[u][v] ELSE dist[v]]
  /\ prev' = [v \in Nodes |-> IF Improves(u, v) THEN u ELSE prev[v]]
  /\ UNCHANGED <<w, src, dst, cur, rev, pc, path>>

\* The destination is the nearest node: the search ends.
Reach ==
  /\ pc = "search"
  /\ IsBest(dst)
  /\ visited' = [visited EXCEPT ![dst] = TRUE]
  /\ pc' = "back"
  /\ UNCHANGED <<w, src, dst, dist, prev, cur, rev, path>>

\* Mutant: the search gives up at the first node it cannot reach yet.
ExhaustEarly_Mut ==
  /\ pc = "search"
  /\ \E v \in Nodes : ~visited[v] /\ dist[v] >= Inf
  /\ pc' = "done"
  /\ UNCHANGED <<w, src, dst, dist, prev, visited, cur, rev, path>>

\* Mutant: the search ends only when every node is settled.
ExhaustLate_Mut ==
  /\ pc = "search"
  /\ \A v \in Nodes : visited[v]
  /\ pc' = "done"
  /\ UNCHANGED <<w, src, dst, dist, prev, visited, cur, rev, path>>

\* No candidate is left: the destination cannot be reached.
Exhaust ==
  /\ pc = "search"
  /\ \A v \in Nodes : visited[v] \/ dist[v] >= Inf
  /\ pc' = "done"
  /\ UNCHANGED <<w, src, dst, dist, prev, visited, cur, rev, path>>

\* Mutant: the trace does not look for the origin.
BackStep_Mut ==
  /\ pc = "back"
  /\ Len(rev) < MaxPath
  /\ rev' = Append(rev, cur)
  /\ cur' = prev[cur]
  /\ UNCHANGED <<w, src, dst, dist, prev, visited, pc, path>>

\* One turn of the trace back that does not meet the origin.
BackStep ==
  /\ pc = "back"
  /\ Len(rev) < MaxPath
  /\ cur # src
  /\ rev' = Append(rev, cur)
  /\ cur' = prev[cur]
  /\ UNCHANGED <<w, src, dst, dist, prev, visited, pc, path>>

\* Mutant: the last node traced is forgotten.
Forward_Mut(s) == [i \in 1..(Len(s) - 1) |-> s[Len(s) - i]]

\* rev turned round: indices[i] = rev[count - i - 1].
Forward(s) == [i \in 1..Len(s) |-> s[Len(s) - i + 1]]

\* The origin is met: the path is turned round and its segments looked up.
BackOrigin ==
  /\ pc = "back"
  /\ Len(rev) < MaxPath
  /\ cur = src
  /\ rev' = Append(rev, cur)
  /\ LET p == Forward(rev')
     IN  path' = [found   |-> TRUE,
                  indices |-> p,
                  minutes |-> [i \in 1..(Len(p) - 1) |-> w[p[i]][p[i + 1]]],
                  total   |-> dist[dst]]
  /\ pc' = "done"
  /\ UNCHANGED <<w, src, dst, dist, prev, visited, cur>>

\* MAX_GRAPH_PATH nodes were traced and the origin is not among them.
BackFull ==
  /\ pc = "back"
  /\ Len(rev) = MaxPath
  /\ pc' = "done"
  /\ UNCHANGED <<w, src, dst, dist, prev, visited, cur, rev, path>>

Next == \/ \E u \in Nodes : Settle(u)
        \/ NoMemory \/ Reach \/ Exhaust
        \/ BackStep \/ BackOrigin \/ BackFull

Spec == Init /\ [][Next]_vars

\* The function runs until it returns.
FairSpec == Spec /\ WF_vars(Next)

-----------------------------------------------------------------------------
(* Properties *)

PathResult == [found : BOOLEAN, indices : Seq(Nodes), minutes : Seq(Nat), total : Nat]

TypeOK == /\ w \in [Nodes -> [Nodes -> Nat]]
          /\ src \in Nodes
          /\ dst \in Nodes
          /\ dist \in [Nodes -> 0..Inf]
          /\ prev \in [Nodes -> Nodes \cup {-1}]
          /\ visited \in [Nodes -> BOOLEAN]
          /\ cur \in Nodes
          /\ rev \in Seq(Nodes)
          /\ pc \in {"search", "back", "done", "failed"}
          /\ path \in PathResult

\* The path handed out leads from the origin to the destination along edges of
\* the graph, its segments carry the minutes of those edges, and each hop
\* accounts for exactly the difference of the distances of its ends.
PathIsTight ==
  path.found =>
    LET p == path.indices
    IN  /\ Len(p) \in 1..MaxPath
        /\ p[1] = src
        /\ p[Len(p)] = dst
        /\ Len(path.minutes) = Len(p) - 1
        /\ \A i \in 1..(Len(p) - 1) :
             /\ path.minutes[i] = w[p[i]][p[i + 1]]
             /\ path.minutes[i] > 0
             /\ dist[p[i + 1]] = dist[p[i]] + path.minutes[i]

\* The distance of a node as far as the answer is concerned.
Potential(v) == IF dist[v] < dist[dst] THEN dist[v] ELSE dist[dst]

\* No other way is faster: Potential is 0 at the origin, the total at the
\* destination, and no edge of the graph gains more of it than its minutes, so
\* every walk from origin to destination takes at least the total.
NothingIsFaster ==
  path.found =>
    /\ Potential(src) = 0
    /\ path.total = Potential(dst)
    /\ \A u, v \in Nodes : w[u][v] > 0 => Potential(v) <= Potential(u) + w[u][v]

\* The search gives up only when the settled nodes, the origin among them and the
\* destination not, have no edge to a node outside that could be reached within
\* Inf minutes; or when the way it found has more than MaxPath nodes.
GivesUpForAReason ==
  pc = "done" /\ ~path.found =>
    \/ Len(rev) = MaxPath
    \/ /\ visited[src]
       /\ ~visited[dst]
       /\ \A u, v \in Nodes : visited[u] /\ ~visited[v] /\ w[u][v] > 0 =>
             dist[u] + w[u][v] >= Inf

\* A traced path never goes in a circle, whatever its length.
TraceIsAcyclic == \A i, j \in 1..Len(rev) : rev[i] = rev[j] => i = j

\* What a walk may take to each node if it may be one edge longer.
OneEdgeMore(length) ==
  [v \in Nodes |->
     Min({length[v]} \cup {length[u] + w[u][v] : u \in {x \in Nodes : w[x][v] > 0}})]

\* The minutes of the fastest walk of at most N - 1 edges from the origin to each node:
\* a definition of the distance that does not mention the search.  It is Inf where no walk
\* takes less.
WalkLengths ==
  FoldWith([k \in Nat |-> [length \in [Nodes -> Nat] |-> OneEdgeMore(length)]],
           [v \in Nodes |-> IF v = src THEN 0 ELSE Inf],
           [k \in 1..(N - 1) |-> k])

\* FR-S04: the minutes answered are the shortest distance between the two nodes,
\* the segments of the answer add up to them, and "no path" is answered only when
\* there is none below Inf or the one found has more than MaxPath nodes.
AgreesWithWalks ==
  pc = "done" =>
    IF path.found THEN /\ path.total = WalkLengths[dst]
                       /\ path.total = Total(path.minutes)
                  ELSE WalkLengths[dst] >= Inf \/ Len(rev) = MaxPath

-----------------------------------------------------------------------------
(* Why they hold: the inductive invariant *)

\* The distances: the origin is at 0; every node with a distance got it from a
\* settled neighbour; settled nodes are nearer than the others and their edges
\* have been followed.
DistInv ==
  /\ dist[src] = 0
  /\ \A v \in Nodes : dist[v] < Inf /\ v # src =>
        /\ prev[v] \in Nodes
        /\ visited[prev[v]]
        /\ w[prev[v]][v] > 0
        /\ dist[v] = dist[prev[v]] + w[prev[v]][v]
  /\ \A u \in Nodes : visited[u] => dist[u] < Inf
  /\ \A u, v \in Nodes : visited[u] /\ ~visited[v] => dist[u] <= dist[v]
  /\ \A u, v \in Nodes : visited[u] /\ u # dst /\ w[u][v] > 0 =>
        dist[v] <= dist[u] + w[u][v]
  /\ pc = "search" => ~visited[dst]
  /\ pc = "back" \/ path.found => visited[dst]

\* The trace: each node is the predecessor of the one traced before it and nearer
\* to the origin, and cur is the next one.
TraceInv ==
  /\ Len(rev) <= MaxPath
  /\ dist[cur] < Inf \/ pc # "back"
  /\ \A i \in 1..Len(rev) : dist[rev[i]] < Inf
  /\ Len(rev) > 0 => rev[1] = dst
  /\ \A i \in 1..(Len(rev) - 1) : rev[i] # src /\ rev[i + 1] = prev[rev[i]]
  /\ \A i, j \in 1..Len(rev) : i < j => dist[rev[j]] < dist[rev[i]]
  /\ pc = "search" => rev = <<>> /\ cur = dst
  /\ pc = "back" =>
        /\ \A i \in 1..Len(rev) : dist[cur] < dist[rev[i]]
        /\ Len(rev) = 0 => cur = dst
        /\ Len(rev) > 0 => rev[Len(rev)] # src /\ cur = prev[rev[Len(rev)]]

\* The result: nothing until the end, and then what the trace says.
ResultInv ==
  /\ ~path.found => path = NoPath
  /\ path.found => /\ pc = "done"
                   /\ Len(rev) > 0
                   /\ rev[Len(rev)] = src
                   /\ path.indices = Forward(rev)
                   /\ path.minutes = [i \in 1..(Len(rev) - 1) |->
                                        w[Forward(rev)[i]][Forward(rev)[i + 1]]]
                   /\ path.total = dist[dst]
  /\ pc = "done" /\ ~path.found =>
        \/ Len(rev) = MaxPath
        \/ /\ ~visited[dst]
           /\ \A v \in Nodes : visited[v] \/ dist[v] >= Inf

IInv == TypeOK /\ DistInv /\ TraceInv /\ ResultInv

=============================================================================
