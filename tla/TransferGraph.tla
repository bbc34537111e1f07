---------------------------- MODULE TransferGraph ----------------------------
(***************************************************************************)
(* How the transfer graph is made at server start: graph_add_node and      *)
(* graph_add_edge of src/common/graph.c, driven by data_loader_build_graph *)
(* of src/server/data_loader.c from the lists of AppData.                  *)
(*                                                                         *)
(* Indices start at 1, and 0 is the "not found" of graph_find_node.        *)
(***************************************************************************)
EXTENDS AppData

VARIABLES nodes,     \* node_id of every node, in index order
          edges,     \* the edge list of every node, newest first
          todo,      \* what is left to do in this phase, first thing first
          back,      \* the second of a pair of graph_add_edge calls, if it is due
          phase      \* "load" (not begun), "nodes", "links" or "done"

graphVars == <<nodes, edges, todo, back, phase>>

Link(a, b, m, r) == [from |-> a, to |-> b, minutes |-> m, route |-> r]

NoLink == <<>>

graph_find_node(id) == IF \E i \in DOMAIN nodes : nodes[i] = id
                         THEN CHOOSE i \in DOMAIN nodes : nodes[i] = id
                         ELSE 0

-----------------------------------------------------------------------------
(* The edges the data calls for, in the order they are added *)

\* Stops that follow each other on a route are 5 minutes apart.
BusLinks(d) ==
  FlattenSeq([i \in DOMAIN d.routes |->
    [j \in 1..(Len(d.routes[i].stops) - 1) |->
      Link(d.routes[i].stops[j].stop, d.routes[i].stops[j + 1].stop, 5, <<d.routes[i].no>>)]])

\* A distance counts when both its stations are nodes of the graph.
SubwayLinks(d) ==
  LET named(line) == IF line = <<>> THEN <<SUBWAY>> ELSE line
      links == [i \in DOMAIN d.distances |->
                  Link(d.distances[i].from, d.distances[i].to, d.distances[i].minutes,
                       named(d.distances[i].line))]
  IN  Keep(links, {l \in Range(links) : graph_find_node(l.from) # 0 /\ graph_find_node(l.to) # 0})

\* Mutant: the station is named instead of the line.
common_line_name_Mut(a, b) ==
  IF Range(a.lines) \cap Range(b.lines) = {} THEN <<>> ELSE <<a.id>>

\* common_line_name: the first line of a that b has too.
common_line_name(a, b) == Keep(a.lines, Range(b.lines))

\* Every station with every later one it shares a line with.
CommonLineLinks(d) ==
  FlattenSeq([i \in DOMAIN d.stations |->
    FlattenSeq([j \in 1..(Len(d.stations) - i) |->
      LET a == d.stations[i]
          b == d.stations[i + j]
      IN  IF common_line_name(a, b) = <<>> THEN <<>>
          ELSE <<Link(a.id, b.id, 8, <<Head(common_line_name(a, b))>>)>>])])

\* Without a usable distance, stations are linked by their lines.
RailLinks(d) == IF SubwayLinks(d) = <<>> THEN CommonLineLinks(d) ELSE SubwayLinks(d)

transfer_minutes_from_distance(sq) ==
  CASE sq <= 9   -> 3
    [] sq > 9   /\ sq <= 25   -> 5
    [] sq > 25  /\ sq <= 100  -> 10
    [] sq > 100 /\ sq <= 225  -> 15
    [] sq > 225 /\ sq <= 400  -> 20
    [] sq > 400 /\ sq <= 900  -> 30
    [] sq > 900 /\ sq <= 2500 -> 50
    [] sq > 2500 -> 80

\* has_coordinates.
Located(list) == Keep(list, {e \in Range(list) : e.at # Nowhere})

\* distance_sq_km.
Apart(s, t) == Square[s.at][t.at]

Near == 900

NearTo(s, stations) == Keep(stations, {t \in Range(stations) : Apart(s, t) <= Near})

NearestTo(s, stations) ==
  Keep(stations, {t \in Range(stations) : \A u \in Range(stations) : Apart(s, t) <= Apart(s, u)})

\* Mutant: a stop far from every station is left alone.
StopLinks_Mut(d, s) ==
  LET near == NearTo(s, Located(d.stations))
  IN  [i \in DOMAIN near |->
         Link(s.id, near[i].id, transfer_minutes_from_distance(Apart(s, near[i])), <<TRANSFER>>)]

\* A stop is linked to every station within 3 km, or else to the first of the
\* nearest ones.
StopLinks(d, s) ==
  LET stations == Located(d.stations)
      near     == NearTo(s, stations)
      chosen   == IF near # <<>> \/ stations = <<>> THEN near ELSE <<Head(NearestTo(s, stations))>>
  IN  [i \in DOMAIN chosen |->
         Link(s.id, chosen[i].id, transfer_minutes_from_distance(Apart(s, chosen[i])), <<TRANSFER>>)]

TransferLinks(d) ==
  LET stops == Located(d.stops)
  IN  FlattenSeq([i \in DOMAIN stops |-> StopLinks(d, stops[i])])

Links(d) == BusLinks(d) \o RailLinks(d) \o TransferLinks(d)

-----------------------------------------------------------------------------
(* graph.c *)

\* An id that is there already keeps its node.
graph_add_node(id) ==
  \/ /\ graph_find_node(id) # 0
     /\ UNCHANGED <<nodes, edges>>
     /\ Allocated
  \/ /\ graph_find_node(id) = 0
     /\ nodes' = Append(nodes, id)
     /\ edges' = Append(edges, <<>>)
     /\ Allocated
  \/ /\ graph_find_node(id) = 0
     /\ NoMemory
     /\ UNCHANGED <<nodes, edges>>

Edge(b, m, r) == [to |-> b, minutes |-> m, route |-> r]

\* Mutant: the edge list is not searched before a new edge is put in front.
graph_add_edge_Mut(a, b, m, r) ==
  /\ edges' = IF a = 0 \/ b = 0 \/ a = b
                THEN edges
                ELSE [edges EXCEPT ![a] = <<Edge(b, m, r)>> \o @]
  /\ Allocated

\* Mutant: an edge that is there already is left as it is.
graph_add_edge_First_Mut(a, b, m, r) ==
  /\ edges' = IF a = 0 \/ b = 0 \/ a = b \/ \E i \in DOMAIN edges[a] : edges[a][i].to = b
                THEN edges
                ELSE [edges EXCEPT ![a] = <<Edge(b, IF m > 0 THEN m ELSE 1, r)>> \o @]
  /\ Allocated

\* At most one edge leads from a to b; a faster offer takes the place of a slower.
graph_add_edge(a, b, m, r) ==
  \/ /\ a = 0 \/ b = 0 \/ a = b
     /\ UNCHANGED edges
     /\ Allocated
  \/ /\ a # 0 /\ b # 0 /\ a # b
     /\ \E i \in DOMAIN edges[a] :
          /\ edges[a][i].to = b
          /\ edges' = IF m > 0 /\ m < edges[a][i].minutes
                        THEN [edges EXCEPT ![a][i] = Edge(b, m, r)]
                        ELSE edges
     /\ Allocated
  \/ /\ a # 0 /\ b # 0 /\ a # b
     /\ \A i \in DOMAIN edges[a] : edges[a][i].to # b
     /\ edges' = [edges EXCEPT ![a] = <<Edge(b, IF m > 0 THEN m ELSE 1, r)>> \o @]
     /\ Allocated
  \/ /\ a # 0 /\ b # 0 /\ a # b
     /\ \A i \in DOMAIN edges[a] : edges[a][i].to # b
     /\ NoMemory
     /\ UNCHANGED edges

-----------------------------------------------------------------------------
(* data_loader_build_graph *)

GraphInit == /\ nodes = <<>>
             /\ edges = <<>>
             /\ todo = <<>>
             /\ back = NoLink
             /\ phase = "load"

\* The lists are complete; every stop becomes a node, then every station.
StartNodes == /\ phase = "load"
              /\ todo' = [n \in DOMAIN data.stops |-> data.stops[n].id] \o
                         [n \in DOMAIN data.stations |-> data.stations[n].id]
              /\ phase' = "nodes"
              /\ UNCHANGED <<data, nodes, edges, back>>
              /\ Allocated

AddNode == /\ phase = "nodes"
           /\ todo # <<>>
           /\ graph_add_node(Head(todo))
           /\ todo' = Tail(todo)
           /\ UNCHANGED <<data, back, phase>>

\* All nodes are in; the edges follow.
StartLinks == /\ phase = "nodes"
              /\ todo = <<>>
              /\ todo' = Links(data)
              /\ phase' = "links"
              /\ UNCHANGED <<data, nodes, edges, back>>
              /\ Allocated

\* The first graph_add_edge of a pair.
AddForward ==
  /\ phase = "links"
  /\ back = NoLink
  /\ todo # <<>>
  /\ LET l == Head(todo)
     IN  /\ graph_add_edge(graph_find_node(l.from), graph_find_node(l.to), l.minutes, l.route)
         /\ back' = <<l>>
  /\ todo' = Tail(todo)
  /\ UNCHANGED <<data, nodes, phase>>

\* Mutant: the way back takes the minutes for granted.
AddBackward_Mut ==
  /\ back # NoLink
  /\ LET l == Head(back)
     IN  graph_add_edge(graph_find_node(l.to), graph_find_node(l.from), 5, l.route)
  /\ back' = NoLink
  /\ UNCHANGED <<data, nodes, todo, phase>>

\* The second one, for the way back; the result of neither is looked at.
AddBackward ==
  /\ back # NoLink
  /\ LET l == Head(back)
     IN  graph_add_edge(graph_find_node(l.to), graph_find_node(l.from), l.minutes, l.route)
  /\ back' = NoLink
  /\ UNCHANGED <<data, nodes, todo, phase>>

Finish == /\ phase = "links"
          /\ todo = <<>>
          /\ back = NoLink
          /\ phase' = "done"
          /\ UNCHANGED <<data, nodes, edges, todo, back>>
          /\ Allocated

GraphStep == StartNodes \/ AddNode \/ StartLinks \/ AddForward \/ AddBackward \/ Finish

-----------------------------------------------------------------------------
(* Properties *)

Nodes == DOMAIN nodes

EdgeType == [to : Nat, minutes : Nat, route : Seq(Routes)]

LinkType == [from : Ids, to : Ids, minutes : Nat \ {0}, route : Seq(Routes)]

GraphTypeOK ==
  /\ nodes \in Seq(Ids)
  /\ edges \in Seq(Seq(EdgeType))
  /\ back = NoLink \/ back \in Seq([from : Ids, to : Ids, minutes : Nat, route : Seq(Routes)])
  /\ phase \in {"load", "nodes", "links", "done"}

\* What graph_find_path relies on: an id has one node, and every list of edges has
\* at most one edge to a node, always to another node that exists, and a positive
\* weight, even when memory ran out on the way.
WellFormed ==
  /\ IsInjective(nodes)
  /\ Len(edges) = Len(nodes)
  /\ \A a \in Nodes : \A i \in DOMAIN edges[a] :
       /\ edges[a][i].to \in Nodes \ {a}
       /\ edges[a][i].minutes > 0
       /\ \A j \in DOMAIN edges[a] : edges[a][i].to = edges[a][j].to => i = j

Leads(a, b, m, r) == Edge(b, m, r) \in Range(edges[a])

\* Between two pairs of calls the graph is the same in both directions, minutes and
\* route names included, if no allocation failed.
SameBothWays ==
  back = NoLink /\ ~failed =>
    \A a, b \in Nodes : \A e \in Range(edges[a]) :
      e.to = b => Leads(b, a, e.minutes, e.route)

\* Offers for the way between two nodes, in either direction.
Offers(a, b) == {l \in Range(Links(data)) : {l.from, l.to} = {nodes[a], nodes[b]}}

\* The finished graph has a node for every stop and station and an edge exactly where
\* the data offers one, with the minutes of the fastest offer, whatever the order they
\* came in.
KeepsTheFastest ==
  phase = "done" /\ ~failed =>
    /\ Range(nodes) = {s.id : s \in Range(data.stops)} \cup {s.id : s \in Range(data.stations)}
    /\ \A a, b \in Nodes : a # b =>
         /\ Offers(a, b) # {} <=> \E e \in Range(edges[a]) : e.to = b
         /\ \A e \in Range(edges[a]) : e.to = b =>
              /\ \A l \in Offers(a, b) : e.minutes <= l.minutes
              /\ \E l \in Offers(a, b) : e.minutes = l.minutes /\ e.route = l.route

\* A stop with coordinates is never cut off: if some station has coordinates, there
\* is an edge from the stop to a station none is nearer than.
StopsReachStations ==
  phase = "done" /\ ~failed =>
    \A s \in Range(Located(data.stops)) :
      LET stations == {t \in Range(Located(data.stations)) : t.id # s.id}
      IN  stations # {} /\ ~HasId(Located(data.stations), s.id) =>
            \E t \in stations :
              /\ \A u \in stations : Apart(s, t) <= Apart(s, u)
              /\ \E e \in Range(edges[graph_find_node(s.id)]) : nodes[e.to] = t.id

-----------------------------------------------------------------------------
(* The inductive invariant *)

\* What is left to do: ids, then links.
TodoInv ==
  /\ phase = "nodes" => todo \in Seq(Ids)
  /\ phase = "links" => todo \in Seq(LinkType)
  /\ phase = "done" => todo = <<>>
  /\ back # NoLink => phase = "links" /\ Len(back) = 1 /\ back[1] \in LinkType

\* The ids of the nodes there are and of those to come are those of the lists, and
\* there are no edges before all nodes are in.
NodeIds == {s.id : s \in Range(data.stops)} \cup {s.id : s \in Range(data.stations)}

NodesInv ==
  /\ phase = "load" => nodes = <<>>
  /\ phase \in {"load", "nodes"} => \A a \in Nodes : edges[a] = <<>>
  /\ phase = "nodes" /\ ~failed => Range(nodes) \cup Range(todo) = NodeIds
  /\ phase \in {"links", "done"} /\ ~failed => Range(nodes) = NodeIds

\* Between the calls of a pair the way back still is as the way there was before.
HalfwayInv ==
  back # NoLink /\ ~failed =>
    LET l == back[1]
        u == graph_find_node(l.from)
        v == graph_find_node(l.to)
    IN  /\ \A a, b \in Nodes : {a, b} # {u, v} =>
             \A e \in Range(edges[a]) : e.to = b => Leads(b, a, e.minutes, e.route)
        /\ u # 0 /\ v # 0 /\ u # v =>
             \/ /\ \A f \in Range(edges[v]) : f.to # u
                /\ Leads(u, v, l.minutes, l.route)
             \/ \E f \in Range(edges[v]) :
                  /\ f.to = u
                  /\ IF l.minutes < f.minutes THEN Leads(u, v, l.minutes, l.route)
                     ELSE Leads(u, v, f.minutes, f.route)

\* The links that have been offered for the way from a to b, of the first n: the last
\* of them not yet for the way back, if that call is due.
Offered(links, n, a, b) ==
  {i \in 1..n : /\ {links[i].from, links[i].to} = {nodes[a], nodes[b]}
                /\ i = n /\ back # NoLink => links[i].from = nodes[a]}

\* What KeepsTheFastest says of the finished graph, of the links offered so far.
LinksInv ==
  phase \in {"links", "done"} /\ ~failed =>
    LET links == Links(data)
        n     == Len(links) - Len(todo)
    IN  /\ n >= 0
        /\ \A i \in DOMAIN todo : todo[i] = links[n + i]
        /\ back # NoLink => n > 0 /\ back[1] = links[n]
        /\ \A a, b \in Nodes : a # b =>
             /\ Offered(links, n, a, b) # {} <=> \E e \in Range(edges[a]) : e.to = b
             /\ \A e \in Range(edges[a]) : e.to = b =>
                  /\ \A i \in Offered(links, n, a, b) : e.minutes <= links[i].minutes
                  /\ \E i \in Offered(links, n, a, b) :
                       e.minutes = links[i].minutes /\ e.route = links[i].route
=============================================================================
