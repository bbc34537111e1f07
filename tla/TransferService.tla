--------------------------- MODULE TransferService ---------------------------
(***************************************************************************)
(* handle_transfer of src/server/transfer_service.c, which turns two       *)
(* keywords into the answer TRANSFER_RES, and show_transfer_result of      *)
(* src/client/result_viewer.c, which takes the answer apart again; in      *)
(* between, the line goes through a buffer of MAX_PACKET_SIZE bytes on     *)
(* either side.                                                            *)
(*                                                                         *)
(* An answer is its size in bytes, the steps in it with the bytes each got *)
(* before the buffer was full, and whether it ends in a newline.  Names    *)
(* and numbers count by their sizes.  The path comes from graph_find_path, *)
(* of which module GraphPath shows that it has at most MAX_GRAPH_PATH      *)
(* nodes and none twice.  Indices start at 1, and 0 stands for -1.         *)
(***************************************************************************)
EXTENDS Packet, Names, FiniteSets

CONSTANTS
  Graph,         \* graph.nodes: a sequence of [id, name, station, located]
  Keywords,      \* what a client may type for a place
  Routes,        \* what a segment may be travelled by
  TRANSFER,      \* the name of a segment on foot
  NoName,        \* the empty name; the loaders give every segment another one
  Minutes,       \* minutes a segment may take
  KmKnown,       \* the pairs of stations with a distance of more than 0
  NameSize,      \* bytes of a name
  StepSize,      \* bytes of a step up to its minutes, names excepted
  KmSize,        \* bytes of a distance
  FrameSize,     \* bytes of the header and the totals, or of a short answer
  MaxPath        \* MAX_GRAPH_PATH, 256 in the code

Places == DOMAIN Graph

NameOf(i) == Graph[i].name

ASSUME ServiceAssumption ==
  /\ Graph \in Seq(Range(Graph))
  /\ TRANSFER \in Routes /\ NoName \notin Routes
  /\ Blank \notin {Graph[i].id : i \in Places} \cup {Graph[i].name : i \in Places}
  /\ \A i, j \in Places : Graph[i].id = Graph[j].id => i = j
  /\ \A i \in Places : /\ NameSize[NameOf(i)] \in Nat \ {0}
                       /\ \A kw \in Keywords : NameOf(i) = kw => <<NameOf(i), kw>> \in Matching
  /\ Minutes \subseteq 0..999
  /\ {StepSize, KmSize, FrameSize, MaxPath} \subseteq Nat
  /\ FrameSize < MaxPacket
  \* 256 names of 99 bytes and their commas fit the packet
  /\ \A i \in Places : FrameSize + MaxPath * (NameSize[NameOf(i)] + 1) < MaxPacket

VARIABLES
  pc,        \* where the two programs are
  asked,     \* the two keywords, the first Malformed when there is no ':'
  path,      \* what graph_find_path found, NoPath if nothing
  counted,   \* locals of count_transfers: segments done, count, last_ride, bridge
  code,      \* the code of the answer
  used,      \* strlen of the answer
  steps,     \* the steps in the answer: the segment, and the bytes it got
  ended,     \* the newline is in the answer
  viewed,    \* locals of show_transfer_result: steps done, notes, last_ride, bridge
  shown      \* the steps on the screen: the segment, and whether its minutes are whole

vars == <<pc, asked, path, counted, code, used, steps, ended, viewed, shown>>

ERR_OK              == 0
ERR_NOT_FOUND       == 1
ERR_INVALID_REQUEST == 2

Malformed == "malformed"
NoPath    == [nodes |-> <<>>, routes |-> <<>>, minutes |-> <<>>]
Segments  == DOMAIN path.routes

-----------------------------------------------------------------------------
(* From keywords to nodes *)

\* Of the nodes with one of these names: the first station if the keyword asks for one,
\* or the first with coordinates, or the first.
BestMatch(kw, names) ==
  FirstFound(<<SelectInSeq(Graph, LAMBDA n : n.name \in names /\ kw \in StationLike /\ n.station),
               SelectInSeq(Graph, LAMBDA n : n.name \in names /\ n.located),
               SelectInSeq(Graph, LAMBDA n : n.name \in names)>>)

\* Mutant: names that contain the keyword are taken with those that are it.
resolve_node_by_keyword_Mut(kw) ==
  IF kw = Blank THEN 0
  ELSE FirstFound(<<SelectInSeq(Graph, LAMBDA n : n.id = kw), BestMatch(kw, NamesWith(Graph, kw))>>)

\* By id, else by whole name, else by a part of it.
resolve_node_by_keyword(kw) ==
  IF kw = Blank THEN 0
  ELSE FirstFound(<<SelectInSeq(Graph, LAMBDA n : n.id = kw),
                    BestMatch(kw, {kw}),
                    BestMatch(kw, NamesWith(Graph, kw))>>)

\* What graph_find_path may answer.
PathsBetween(a, b) ==
  UNION {[nodes   : {ns \in [1..n -> Places] : IsInjective(ns) /\ ns[1] = a /\ ns[n] = b},
          routes  : [1..(n - 1) -> Routes],
          minutes : [1..(n - 1) -> Minutes]] : n \in 1..MaxPath}

-----------------------------------------------------------------------------
(* What the answer is made of *)

Digits(m) == IF m < 10 THEN 1 ELSE IF m < 100 THEN 2 ELSE 3

\* The bytes of a step up to its minutes, and all of it.
HeadSize(s) == StepSize + NameSize[NameOf(path.nodes[s])] + NameSize[NameOf(path.nodes[s + 1])]

HasKm(s) == /\ path.routes[s] # TRANSFER
            /\ Graph[path.nodes[s]].station
            /\ Graph[path.nodes[s + 1]].station
            /\ {path.nodes[s], path.nodes[s + 1]} \in KmKnown

WholeSize(s) == HeadSize(s) + Digits(path.minutes[s]) + 1 + (IF HasKm(s) THEN KmSize ELSE 0)

\* The names of the path with their commas.
SummarySize == SumFunction([n \in DOMAIN path.nodes |-> NameSize[NameOf(path.nodes[n])] + 1]) - 1

MOVE == "MOVE"

\* Mutant: a walk goes by the name of a ride.
route_no_Mut(s) == IF path.routes[s] \in {NoName, TRANSFER} THEN MOVE ELSE path.routes[s]

\* What a segment is called in the answer.
route_no(s) == IF path.routes[s] = NoName THEN MOVE ELSE path.routes[s]

-----------------------------------------------------------------------------
(* handle_transfer *)

NoTally == [done |-> 0, count |-> 0, last |-> NoName, bridge |-> FALSE]

Init == /\ pc = "request"
        /\ asked \in {<<Malformed, Blank>>} \cup (Keywords \X Keywords)
        /\ path = NoPath
        /\ counted = NoTally
        /\ code = ERR_OK
        /\ used = 0
        /\ steps = <<>>
        /\ ended = FALSE
        /\ viewed = NoTally
        /\ shown = <<>>

\* A short answer, complete with its newline.
Refuse(c) == /\ code' = c
             /\ used' = FrameSize
             /\ ended' = TRUE
             /\ pc' = "sent"
             /\ UNCHANGED <<asked, path, counted, steps, viewed, shown>>

RefuseMalformed == /\ pc = "request"
                   /\ asked[1] = Malformed
                   /\ Refuse(ERR_INVALID_REQUEST)

\* One of the keywords names no place, or there is no path between them.
NotFound == /\ pc = "request"
            /\ asked[1] # Malformed
            /\ Refuse(ERR_NOT_FOUND)

FindPath ==
  /\ pc = "request"
  /\ asked[1] # Malformed
  /\ resolve_node_by_keyword(asked[1]) # 0
  /\ resolve_node_by_keyword(asked[2]) # 0
  /\ path' \in PathsBetween(resolve_node_by_keyword(asked[1]), resolve_node_by_keyword(asked[2]))
  /\ pc' = "count"
  /\ UNCHANGED <<asked, counted, code, used, steps, ended, viewed, shown>>

\* Both programs keep the same books over the segments they pass: a walk counts, and
\* so does a ride that follows another one without a walk between them.
Rides(tally, r) ==
  [done   |-> tally.done + 1,
   count  |-> tally.count + (IF tally.last # NoName /\ tally.last # r /\ ~tally.bridge THEN 1 ELSE 0),
   last   |-> r,
   bridge |-> FALSE]

Walks(tally) == [tally EXCEPT !.done = @ + 1, !.count = @ + 1, !.bridge = TRUE]

\* Mutant: the walk is forgotten.
Passes_Mut(tally, r) == IF r = TRANSFER THEN [Walks(tally) EXCEPT !.bridge = FALSE] ELSE Rides(tally, r)

Passes(tally, r) == IF r = TRANSFER THEN Walks(tally) ELSE Rides(tally, r)

\* A turn of the loop of count_transfers.
CountSegment ==
  /\ pc = "count"
  /\ counted.done < Len(path.routes)
  /\ counted' = Passes(counted, path.routes[counted.done + 1])
  /\ UNCHANGED <<pc, asked, path, code, used, steps, ended, viewed, shown>>

\* The names of the places, the transfers and the total.
WriteSummary ==
  /\ pc = "count"
  /\ counted.done = Len(path.routes)
  /\ used' = FrameSize + SummarySize
  /\ pc' = "steps"
  /\ UNCHANGED <<asked, path, counted, code, steps, ended, viewed, shown>>

\* Mutant: a step that does not fit is left out, and the loop goes on.
WriteStep_Mut ==
  /\ pc = "steps"
  /\ Len(steps) < Len(path.routes)
  /\ LET s == Len(steps) + 1
     IN  /\ steps' = Append(steps, [seg |-> s, bytes |-> IF Fits(MaxPacket, used, WholeSize(s) + 1)
                                                      THEN WholeSize(s) ELSE 0])
         /\ used' = IF Fits(MaxPacket, used, WholeSize(s) + 1) THEN used + WholeSize(s) + 1 ELSE used
  /\ UNCHANGED <<pc, asked, path, counted, code, ended, viewed, shown>>

\* A turn of the loop over the segments: a separator and the step, which is cut where
\* the buffer is full; then the loop ends.
WriteStep ==
  /\ pc = "steps"
  /\ Len(steps) < Len(path.routes)
  /\ LET s    == Len(steps) + 1
         from == IF s > 1 /\ Fits(MaxPacket, used, 1) THEN used + 1 ELSE used
         n    == Written(MaxPacket, from, WholeSize(s))
     IN  /\ steps' = Append(steps, [seg |-> s, bytes |-> n])
         /\ used' = from + n
         /\ pc' = IF n = WholeSize(s) THEN "steps" ELSE "newline"
  /\ UNCHANGED <<asked, path, counted, code, ended, viewed, shown>>

LastStepWritten ==
  /\ pc = "steps"
  /\ Len(steps) = Len(path.routes)
  /\ pc' = "newline"
  /\ UNCHANGED <<asked, path, counted, code, used, steps, ended, viewed, shown>>

\* The newline, if there is room for it; handle_client sends what there is.
WriteNewline ==
  /\ pc = "newline"
  /\ ended' = Fits(MaxPacket, used, 1)
  /\ used' = IF Fits(MaxPacket, used, 1) THEN used + 1 ELSE used
  /\ pc' = "sent"
  /\ UNCHANGED <<asked, path, counted, code, steps, viewed, shown>>

-----------------------------------------------------------------------------
(* The client *)

\* client_recv_line returns at a newline or when its buffer is full.
Receive ==
  /\ pc = "sent"
  /\ ended \/ used >= MaxPacket - 1
  /\ pc' = IF code = ERR_OK THEN "view" ELSE "shown"
  /\ UNCHANGED <<asked, path, counted, code, used, steps, ended, viewed, shown>>

\* split_step_fields finds eight fields.
HasFields(step) == step.bytes >= HeadSize(step.seg)

\* A turn of the loop of show_transfer_result.
ViewStep ==
  /\ pc = "view"
  /\ viewed.done < Len(steps)
  /\ LET step == steps[viewed.done + 1]
     IN  \/ /\ ~HasFields(step)
            /\ viewed' = [viewed EXCEPT !.done = @ + 1]
            /\ UNCHANGED shown
         \/ /\ HasFields(step)
            /\ viewed' = Passes(viewed, route_no(step.seg))
            /\ shown' = Append(shown, [seg   |-> step.seg,
                                       whole |-> step.bytes >= HeadSize(step.seg)
                                                               + Digits(path.minutes[step.seg])])
  /\ UNCHANGED <<pc, asked, path, counted, code, used, steps, ended>>

ViewEnd == /\ pc = "view"
           /\ viewed.done = Len(steps)
           /\ pc' = "shown"
           /\ UNCHANGED <<asked, path, counted, code, used, steps, ended, viewed, shown>>

Next == \/ RefuseMalformed \/ NotFound \/ FindPath
        \/ CountSegment \/ WriteSummary \/ WriteStep \/ LastStepWritten \/ WriteNewline
        \/ Receive \/ ViewStep \/ ViewEnd

Spec == Init /\ [][Next]_vars

-----------------------------------------------------------------------------
(* Properties *)

Tallies == [done : 0..MaxPath, count : 0..MaxPath, last : Routes \cup {NoName, MOVE}, bridge : BOOLEAN]

TypeOK ==
  /\ pc \in {"request", "count", "steps", "newline", "sent", "view", "shown"}
  /\ asked \in (Keywords \cup {Malformed, Blank}) \X (Keywords \cup {Blank})
  /\ path.nodes \in Seq(Places) /\ path.routes \in Seq(Routes) /\ path.minutes \in Seq(Minutes)
  /\ counted \in Tallies /\ viewed \in Tallies
  /\ code \in {ERR_OK, ERR_NOT_FOUND, ERR_INVALID_REQUEST}
  /\ used \in 0..(MaxPacket - 1)
  /\ steps \in Seq([seg : Segments, bytes : 0..MaxPacket])
  /\ ended \in BOOLEAN
  /\ shown \in Seq([seg : Segments, whole : BOOLEAN])

\* Where the path of an answer may start or end: the place with this id; else, of those
\* the keyword is the name of, or else of those with the keyword in their names, a
\* station if the keyword asks for one, or else one with coordinates, if there are any.
Rank(i, kw) ==
  LET n    == Graph[i]
      tier == IF n.id = kw THEN 0 ELSE IF n.name = kw THEN 1
              ELSE IF keyword_match(n.name, kw) THEN 4 ELSE 7
  IN  IF tier \in {0, 7} THEN tier
      ELSE tier + (IF kw \in StationLike /\ n.station THEN 0 ELSE IF n.located THEN 1 ELSE 2)

\* The path answered leads between two places none suits the keywords better than,
\* and a keyword that is part of some name is not answered with "not found" for want
\* of a place.
AnswersTheRequest ==
  /\ path # NoPath =>
       \A k \in {1, 2} :
         LET end == IF k = 1 THEN path.nodes[1] ELSE Last(path.nodes)
         IN  Rank(end, asked[k]) < 7 /\ \A i \in Places : Rank(end, asked[k]) <= Rank(i, asked[k])
  /\ asked[1] # Malformed =>
       \A k \in {1, 2} : resolve_node_by_keyword(asked[k]) = 0 <=> \A i \in Places : Rank(i, asked[k]) = 7

\* The walks among the first n segments, and the rides that follow another ride.
Changes(n) == {s \in 1..n :
                 \/ path.routes[s] = TRANSFER
                 \/ s > 1 /\ path.routes[s - 1] \notin {TRANSFER, path.routes[s]}}

\* FR-S04: the number of transfers is that of the walks and of the changes from one
\* ride to another that no walk comes between.
CountsTheChanges == counted.count = Cardinality(Changes(counted.done))

\* A client is never left waiting: when an answer outgrows the buffer and loses its
\* newline, it fills the buffer of the client to the last byte.
AnswerEndsTheWait == pc = "sent" => ended \/ used = MaxPacket - 1

\* What is on the screen is the path from its origin on, with nothing left out; only
\* the last step may be cut in its minutes.  With the newline, all of it is there.
ShowsThePath ==
  /\ \A k \in DOMAIN shown : shown[k].seg = k /\ (k < Len(shown) => shown[k].whole)
  /\ pc = "shown" /\ code = ERR_OK /\ ended =>
       Len(shown) = Len(path.routes) /\ \A k \in DOMAIN shown : shown[k].whole

\* The client, which counts from the text of the answer, lists as many transfers as
\* the server counted from the path, and fewer only if the answer was cut.
ViewerAgrees ==
  pc = "shown" =>
    /\ viewed.count <= counted.count
    /\ ended => viewed.count = counted.count

\* What makes these inductive.  Nothing is there before it is made.
StageInv ==
  /\ pc = "request" => code = ERR_OK
  /\ pc = "request" \/ code # ERR_OK => counted = NoTally /\ steps = <<>> /\ viewed = NoTally /\ shown = <<>>
  /\ code # ERR_OK => pc \in {"sent", "shown"} /\ ended
  /\ pc \in {"request", "count"} => used = 0 /\ steps = <<>>
  /\ pc \notin {"view", "shown"} => viewed = NoTally /\ shown = <<>>
  /\ pc \notin {"request", "count"} /\ code = ERR_OK => counted.done = Len(path.routes)

\* There is a path once it was found, between the places the keywords stand for.
PathInv ==
  /\ path = NoPath <=> pc = "request" \/ code # ERR_OK
  /\ Len(path.minutes) = Len(path.routes)
  /\ path # NoPath =>
       /\ Len(path.nodes) \in 1..MaxPath
       /\ Len(path.routes) = Len(path.nodes) - 1
       /\ asked[1] # Malformed
       /\ path.nodes[1] = resolve_node_by_keyword(asked[1])
       /\ Last(path.nodes) = resolve_node_by_keyword(asked[2])

\* The books after n segments: what was counted, and what the next ride is held against.
BooksAre(tally, n) ==
  /\ tally.count = Cardinality(Changes(n))
  /\ tally.bridge <=> n > 0 /\ path.routes[n] = TRANSFER
  /\ ~tally.bridge => tally.last = IF n = 0 THEN NoName ELSE path.routes[n]

CountInv == counted.done <= Len(path.routes) /\ BooksAre(counted, counted.done)

\* The steps of an answer are whole, but for the last one if the buffer is full.
StepsInv ==
  /\ Len(steps) <= Len(path.routes)
  /\ \A k \in DOMAIN steps :
       /\ steps[k].seg = k
       /\ k < Len(steps) \/ pc = "steps" \/ ended => steps[k].bytes = WholeSize(k)
  /\ code = ERR_OK /\ ended => pc \in {"sent", "view", "shown"} /\ Len(steps) = Len(path.routes)
  /\ pc = "newline" /\ used # MaxPacket - 1 =>
       /\ Len(steps) = Len(path.routes)
       /\ \A k \in DOMAIN steps : steps[k].bytes = WholeSize(k)

\* The viewer shows the steps one by one, except for a last one that has lost fields.
ViewInv ==
  /\ Len(shown) <= Len(steps)
  /\ \/ viewed.done = Len(shown)
     \/ viewed.done = Len(shown) + 1 /\ viewed.done = Len(steps) /\ ~HasFields(steps[viewed.done])
  /\ BooksAre(viewed, Len(shown))
  /\ \A k \in DOMAIN shown :
       /\ shown[k].seg = k
       /\ steps[k].bytes = WholeSize(k) => shown[k].whole
  /\ pc = "shown" => viewed.done = Len(steps)

IInv == /\ TypeOK /\ StageInv /\ PathInv /\ CountInv /\ StepsInv /\ ViewInv
        /\ AnswerEndsTheWait
=============================================================================
