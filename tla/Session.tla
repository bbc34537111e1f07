------------------------------- MODULE Session -------------------------------
(***************************************************************************)
(* Console clients (src/client) and the server that serves them one after  *)
(* the other (src/server/server.c, client_handler.c, router.c), from       *)
(* connect to close, over TCP.                                             *)
(*                                                                         *)
(* server_run accepts one connection at a time and handle_client keeps it  *)
(* until the client is gone; others wait in the listen queue.  A client    *)
(* sends one line and reads one line.  Of the services only the favourites *)
(* are told apart, as the store of module FavoriteStore; every other       *)
(* request is a search.  Requests fit MAX_PACKET_SIZE, as those of this    *)
(* client do.                                                              *)
(*                                                                         *)
(* TCP is external: connections are set up by the kernel while there is    *)
(* room in the listen queue, so a client may send before it is accepted; a *)
(* line sent to a closed peer is answered with a reset, and a line sent to *)
(* a connection that was reset kills the sender (SIGPIPE, which neither    *)
(* program handles).                                                       *)
(***************************************************************************)
EXTENDS Naturals, Sequences, SequencesExt

CONSTANTS
  Clients,      \* client processes; each runs once
  Keys,         \* favourites
  None,         \* no client
  Backlog,      \* the listen queue, 8 in the code
  MaxCrashes    \* bound: times the server is killed from outside

ASSUME SessionAssumption ==
  /\ None \notin Clients
  /\ Backlog \in Nat \ {0}
  /\ MaxCrashes \in Nat

VARIABLES
  phase,      \* what each client is doing
  asked,      \* the request each client waits for an answer to, Hello otherwise
  shown,      \* the favourites each client has on its screen
  link,       \* each connection: "none", "up", "fin" or "reset" by the client, "down" by the server
  inbox,      \* lines the server has not read yet, per client
  outbox,     \* lines the client has not read yet
  queue,      \* the listen queue
  serving,    \* the client handle_client works for
  server,     \* "up", "down" or "killed" by a signal of its own making
  favorites,  \* what data/favorites.txt holds
  crashes     \* times the server was killed so far

clientVars == <<phase, asked, shown>>
tcpVars    == <<link, inbox, outbox>>
serverVars == <<queue, serving, server, favorites, crashes>>
vars       == <<clientVars, tcpVars, serverVars>>

Request(op, arg) == [op |-> op, arg |-> arg]

\* Mutant: the list sends numbers instead of favourites.
Answer_Mut(op, items) == [op |-> op, items |-> [i \in DOMAIN items |-> i]]

Answer(op, items) == [op |-> op, items |-> items]

Hello   == Request("hello", 0)
Numbers == 1..Cardinality(Keys)

Init == /\ phase = [c \in Clients |-> "off"]
        /\ asked = [c \in Clients |-> Hello]
        /\ shown = [c \in Clients |-> <<>>]
        /\ link = [c \in Clients |-> "none"]
        /\ inbox = [c \in Clients |-> <<>>]
        /\ outbox = [c \in Clients |-> <<>>]
        /\ queue = <<>>
        /\ serving = None
        /\ server = "up"
        /\ favorites = <<>>
        /\ crashes = 0

-----------------------------------------------------------------------------
(* The client *)

\* The program is started; connect waits for the server.
Start(c) == /\ phase[c] = "off"
            /\ phase' = [phase EXCEPT ![c] = "connect"]
            /\ UNCHANGED <<asked, shown, tcpVars, serverVars>>

\* Mutant: main does not wait for the answer to HELLO.
Connect_Mut(c) ==
  /\ phase[c] = "connect"
  /\ server = "up"
  /\ Len(queue) < Backlog
  /\ queue' = Append(queue, c)
  /\ link' = [link EXCEPT ![c] = "up"]
  /\ inbox' = [inbox EXCEPT ![c] = <<Hello>>]
  /\ phase' = [phase EXCEPT ![c] = "menu"]
  /\ UNCHANGED <<asked, shown, outbox, serving, server, favorites, crashes>>

\* The connection stands and main sends HELLO.
Connect(c) ==
  /\ phase[c] = "connect"
  /\ server = "up"
  /\ Len(queue) < Backlog
  /\ queue' = Append(queue, c)
  /\ link' = [link EXCEPT ![c] = "up"]
  /\ inbox' = [inbox EXCEPT ![c] = <<Hello>>]
  /\ phase' = [phase EXCEPT ![c] = "wait"]
  /\ UNCHANGED <<asked, shown, outbox, serving, server, favorites, crashes>>

\* Nobody listens, or there was no room in the queue for too long: main returns 1.
ConnectFails(c) ==
  /\ phase[c] = "connect"
  /\ server # "up" \/ Len(queue) >= Backlog
  /\ phase' = [phase EXCEPT ![c] = "gone"]
  /\ UNCHANGED <<asked, shown, tcpVars, serverVars>>

\* client_send_request: the line goes out and the client waits for one back, before
\* it goes on with the phase next.  On a dead connection it is told so by send or
\* by recv, or is killed by the signal.
Send(c, request, waiting, next) ==
  /\ \/ /\ link[c] = "up"
        /\ asked' = [asked EXCEPT ![c] = request]
        /\ inbox' = [inbox EXCEPT ![c] = Append(@, request)]
        /\ phase' = [phase EXCEPT ![c] = waiting]
     \/ /\ link[c] = "down"
        /\ phase' \in {[phase EXCEPT ![c] = p] : p \in {next, "gone"}}
        /\ UNCHANGED <<asked, inbox>>
  /\ UNCHANGED <<shown, link, outbox, serverVars>>

\* One round of menu_loop: a search, the list, or an add.
Ask(c) ==
  /\ phase[c] = "menu"
  /\ \E r \in {Request("search", 0), Request("list", 0)} \cup {Request("add", k) : k \in Keys} :
       Send(c, r, "wait", "menu")

\* run_favorite_delete_menu asks for the list first, ...
AskDelete(c) == /\ phase[c] = "menu"
                /\ Send(c, Request("list", 0), "waitList", "number")

\* ... then for a number, which it sends unless it is no number.
Choose(c) ==
  /\ phase[c] = "number"
  /\ \/ \E n \in Numbers : Send(c, Request("delete", n), "wait", "menu")
     \/ /\ phase' = [phase EXCEPT ![c] = "menu"]
        /\ UNCHANGED <<asked, shown, tcpVars, serverVars>>

AfterWait(p) == IF p = "waitList" THEN "number" ELSE "menu"

\* client_recv_line returns the line, which is shown.
Receive(c) ==
  /\ phase[c] \in {"wait", "waitList"}
  /\ outbox[c] # <<>>
  /\ outbox' = [outbox EXCEPT ![c] = Tail(@)]
  /\ shown' = [shown EXCEPT ![c] = IF Head(outbox[c]).op = "list" THEN Head(outbox[c]).items ELSE @]
  /\ asked' = [asked EXCEPT ![c] = Hello]
  /\ phase' = [phase EXCEPT ![c] = AfterWait(@)]
  /\ UNCHANGED <<link, inbox, serverVars>>

\* recv returns 0 or an error: the client says so and goes on.
ReceiveFails(c) ==
  /\ phase[c] \in {"wait", "waitList"}
  /\ outbox[c] = <<>>
  /\ link[c] = "down"
  /\ asked' = [asked EXCEPT ![c] = Hello]
  /\ phase' = [phase EXCEPT ![c] = AfterWait(@)]
  /\ UNCHANGED <<shown, tcpVars, serverVars>>

\* The socket of c is closed by c: with a line unread, the peer is reset.
Close(c) ==
  /\ phase' = [phase EXCEPT ![c] = "gone"]
  /\ link' = [link EXCEPT ![c] = IF @ = "up"
                                   THEN IF outbox[c] = <<>> THEN "fin" ELSE "reset"
                                   ELSE "none"]
  /\ outbox' = [outbox EXCEPT ![c] = <<>>]
  /\ asked' = [asked EXCEPT ![c] = Hello]
  /\ shown' = [shown EXCEPT ![c] = <<>>]
  /\ UNCHANGED <<inbox, serverVars>>

\* Menu item 0, or end of input.
Quit(c) == phase[c] = "menu" /\ Close(c)

\* The client is killed, at whatever point.
Die(c) == phase[c] \in {"connect", "wait", "waitList", "number"} /\ Close(c)

-----------------------------------------------------------------------------
(* The server *)

\* Mutant: the server takes turns instead of staying with its client.
Accept_Mut ==
  /\ server = "up"
  /\ queue # <<>>
  /\ serving' = Head(queue)
  /\ queue' = Tail(queue) \o (IF serving = None THEN <<>> ELSE <<serving>>)
  /\ UNCHANGED <<clientVars, tcpVars, server, favorites, crashes>>

\* One turn of the loop of server_run.
Accept == /\ server = "up"
          /\ serving = None
          /\ queue # <<>>
          /\ serving' = Head(queue)
          /\ queue' = Tail(queue)
          /\ UNCHANGED <<clientVars, tcpVars, server, favorites, crashes>>

\* route_request: what the favourites may be after request r, and the answer.
\* Adding and deleting may fail with ERR_SERVER_ERROR.
Outcomes(r) ==
  CASE r.op = "add" ->
         {[favs |-> IF r.arg \in Range(favorites) THEN favorites ELSE Append(favorites, r.arg),
           answer |-> Answer("add", <<>>)],
          [favs |-> favorites, answer |-> Answer("add", <<>>)]}
    [] r.op = "delete" ->
         {[favs |-> IF r.arg \in DOMAIN favorites THEN RemoveAt(favorites, r.arg) ELSE favorites,
           answer |-> Answer("delete", <<>>)],
          [favs |-> favorites, answer |-> Answer("delete", <<>>)]}
    [] r.op = "list" -> {[favs |-> favorites, answer |-> Answer("list", favorites)]}
    [] r.op \in {"hello", "search"} -> {[favs |-> favorites, answer |-> Answer(r.op, <<>>)]}

\* handle_client has read a line: it is routed and the answer sent.
Serve ==
  /\ server = "up"
  /\ serving # None
  /\ inbox[serving] # <<>>
  /\ inbox' = [inbox EXCEPT ![serving] = Tail(@)]
  /\ \E o \in Outcomes(Head(inbox[serving])) :
       /\ favorites' = o.favs
       /\ outbox' = [outbox EXCEPT ![serving] =
                        IF link[serving] = "up" THEN Append(@, o.answer) ELSE @]
  /\ link' = [link EXCEPT ![serving] = IF @ = "fin" THEN "reset" ELSE @]
  /\ server' = IF link[serving] = "reset" THEN "killed" ELSE server
  /\ UNCHANGED <<clientVars, queue, serving, crashes>>

\* Mutant: only recv = 0 ends handle_client.
Release_Mut ==
  /\ server = "up"
  /\ serving # None
  /\ inbox[serving] = <<>>
  /\ link[serving] = "fin"
  /\ link' = [link EXCEPT ![serving] = "none"]
  /\ serving' = None
  /\ UNCHANGED <<clientVars, inbox, outbox, queue, server, favorites, crashes>>

\* recv returns 0 or an error: handle_client closes the socket and returns.
Release ==
  /\ server = "up"
  /\ serving # None
  /\ inbox[serving] = <<>>
  /\ link[serving] \in {"fin", "reset"}
  /\ link' = [link EXCEPT ![serving] = "none"]
  /\ serving' = None
  /\ UNCHANGED <<clientVars, inbox, outbox, queue, server, favorites, crashes>>

\* The favourites a server killed over request r leaves behind: a deletion may have
\* removed the old file and not renamed the new one (module Favorites).
Interrupted(r) == {favorites} \cup {o.favs : o \in Outcomes(r)} \cup
                  (IF r.op = "delete" THEN {<<>>} ELSE {})

\* The server is killed from outside, perhaps over a request.
Crash ==
  /\ server = "up"
  /\ crashes < MaxCrashes
  /\ crashes' = crashes + 1
  /\ server' = "down"
  /\ serving' = None
  /\ queue' = <<>>
  /\ favorites' \in IF serving = None \/ inbox[serving] = <<>> THEN {favorites}
                                                               ELSE Interrupted(Head(inbox[serving]))
  /\ link' = [c \in Clients |-> IF link[c] \in {"up", "down"} THEN "down" ELSE "none"]
  /\ inbox' = [c \in Clients |-> <<>>]
  /\ UNCHANGED <<clientVars, outbox>>

Restart == /\ server = "down"
           /\ server' = "up"
           /\ UNCHANGED <<clientVars, tcpVars, queue, serving, favorites, crashes>>

ClientStep(c) == \/ Connect(c) \/ ConnectFails(c)
                 \/ Receive(c) \/ ReceiveFails(c)

ServerStep == Accept \/ Serve \/ Release

Next == \/ \E c \in Clients : \/ Start(c) \/ ClientStep(c)
                              \/ Ask(c) \/ AskDelete(c) \/ Choose(c) \/ Quit(c) \/ Die(c)
        \/ ServerStep
        \/ Crash \/ Restart

Spec == Init /\ [][Next]_vars

\* Both programs go on as long as they can; users may leave a prompt unanswered.
FairSpec == /\ Spec
            /\ WF_vars(ServerStep)
            /\ \A c \in Clients : WF_vars(ClientStep(c))

\* What serving one client at a time needs: users answer the prompt for a number,
\* and one who is at the menu again and again leaves some time.
LeavingSpec == FairSpec /\ \A c \in Clients : WF_vars(Choose(c)) /\ SF_vars(Quit(c))

-----------------------------------------------------------------------------
(* Properties *)

Ops == {"hello", "search", "list", "add", "delete"}
Requests == [op : {"hello", "search", "list"}, arg : {0}]
            \cup [op : {"add"}, arg : Keys] \cup [op : {"delete"}, arg : Nat]
Answers  == [op : Ops, items : Seq(Keys)]

TypeOK ==
  /\ phase \in [Clients -> {"off", "connect", "wait", "waitList", "number", "menu", "gone"}]
  /\ asked \in [Clients -> Requests]
  /\ shown \in [Clients -> Seq(Keys)]
  /\ link \in [Clients -> {"none", "up", "fin", "reset", "down"}]
  /\ inbox \in [Clients -> Seq(Requests)]
  /\ outbox \in [Clients -> Seq(Answers)]
  /\ queue \in Seq(Clients)
  /\ serving \in Clients \cup {None}
  /\ server \in {"up", "down", "killed"}
  /\ favorites \in Seq(Keys)
  /\ crashes \in 0..MaxCrashes

\* A client that waits on a standing connection is owed exactly one line: its request
\* is still with the server, or the answer to this very request is on its way.
OwedOneAnswer ==
  \A c \in Clients : phase[c] \in {"wait", "waitList"} /\ link[c] = "up" =>
    \/ inbox[c] = <<asked[c]>> /\ outbox[c] = <<>>
    \/ inbox[c] = <<>> /\ Len(outbox[c]) = 1 /\ outbox[c][1].op = asked[c].op

\* A deletion takes away the favourite that stood under this number on the screen of
\* the client that sent it, though list and deletion are two requests.
DeletesWhatWasShown ==
  [][\A c \in Clients :
       inbox[c] # <<>> /\ Head(inbox[c]).op = "delete" /\ favorites' # favorites
         /\ inbox'[c] = Tail(inbox[c]) =>
       LET n == Head(inbox[c]).arg
       IN  n \in DOMAIN shown[c] => n \in DOMAIN favorites /\ favorites[n] = shown[c][n]]_vars

\* The server never writes to a connection whose client has reset it, which would
\* kill it: clients that die at any point do not take the server with them.
ServerSurvivesClients == server # "killed"

\* What makes these inductive.  A connection is what both ends have done to it: the
\* server holds those that are set up, as its client or in its queue, and has dropped
\* what came over the others.
ConnectionInv ==
  \A c \in Clients :
    /\ link[c] = "none" => phase[c] \in {"off", "connect", "gone"}
    /\ link[c] = "up" => phase[c] \in {"wait", "waitList", "number", "menu"}
    /\ link[c] = "down" => phase[c] \in {"wait", "waitList", "number", "menu", "gone"}
    /\ link[c] \in {"fin", "reset"} => phase[c] = "gone" /\ shown[c] = <<>>
    /\ link[c] \in {"none", "down"} => inbox[c] = <<>>
    /\ link[c] \in {"none", "fin", "reset"} => outbox[c] = <<>>
    /\ link[c] \in {"up", "fin", "reset"} <=> c \in Range(queue) \cup {serving}

\* Those in the queue have said HELLO and wait, or are gone.
QueueInv ==
  /\ IsInjective(queue)
  /\ serving \notin Range(queue)
  /\ \A c \in Range(queue) :
       /\ link[c] \in {"up", "fin"}
       /\ link[c] = "up" => phase[c] = "wait"
       /\ inbox[c] = <<Hello>>
       /\ outbox[c] = <<>>

\* Client and server take turns; a client that went away took its unread answer along.
TurnInv ==
  \A c \in Clients :
    /\ Len(inbox[c]) <= 1
    /\ link[c] = "reset" => inbox[c] = <<>>
    /\ phase[c] \notin {"wait", "waitList"} => asked[c] = Hello
    /\ link[c] = "up" /\ phase[c] \in {"number", "menu"} => inbox[c] = <<>> /\ outbox[c] = <<>>
    /\ link[c] = "up" /\ phase[c] = "waitList" => asked[c].op = "list"

\* From the list to the deletion the favourites stay what the client was shown.
ShownInv ==
  \A c \in Clients :
    /\ link[c] = "up" /\ phase[c] = "number" => shown[c] = favorites
    /\ link[c] = "up" /\ outbox[c] # <<>> /\ outbox[c][1].op = "list" =>
         outbox[c][1].items = favorites
    /\ inbox[c] # <<>> /\ Head(inbox[c]).op = "delete" => shown[c] \in {favorites, <<>>}

IInv == /\ TypeOK /\ ConnectionInv /\ QueueInv /\ TurnInv /\ ShownInv
        /\ OwedOneAnswer /\ ServerSurvivesClients

\* A request is answered, or the client learns that the server is gone.
EveryoneIsServed == \A c \in Clients : phase[c] \in {"wait", "waitList"} ~>
                                       phase[c] \notin {"wait", "waitList"}
=============================================================================
