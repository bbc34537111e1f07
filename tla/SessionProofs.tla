---------------------------- MODULE SessionProofs -----------------------------
(***************************************************************************)
(* Proofs about Session, for any number of clients, favourites, places in  *)
(* the listen queue and crashes: requests and answers stay paired, the     *)
(* server survives its clients, and a deletion takes what was shown.       *)
(***************************************************************************)
EXTENDS Session, BasicLemmas

\* What TypeOK says of one client.
LEMMA ClientValues ==
  ASSUME TypeOK, NEW c \in Clients
  PROVE  /\ inbox[c] \in Seq(Requests) /\ outbox[c] \in Seq(Answers) /\ shown[c] \in Seq(Keys)
         /\ asked[c] \in Requests
         /\ inbox[c] # <<>> => Head(inbox[c]) \in Requests /\ Tail(inbox[c]) \in Seq(Requests)
         /\ inbox[c] # <<>> => Len(Tail(inbox[c])) = Len(inbox[c]) - 1 /\ Len(inbox[c]) \in Nat \ {0}
         /\ outbox[c] # <<>> => Head(outbox[c]) \in Answers /\ Tail(outbox[c]) \in Seq(Answers)
         /\ outbox[c] # <<>> => Len(Tail(outbox[c])) = Len(outbox[c]) - 1 /\ Len(outbox[c]) \in Nat \ {0}
<1>1. inbox[c] \in Seq(Requests) /\ outbox[c] \in Seq(Answers) /\ shown[c] \in Seq(Keys)
      /\ asked[c] \in Requests
  BY DEF TypeOK
<1> QED BY <1>1, HeadTailProperties, EmptySeq

\* It holds at first.
LEMMA InitIInv == Init => IInv
<1> SUFFICES ASSUME Init PROVE IInv
  OBVIOUS
<1> USE SessionAssumption
<1>1. TypeOK
  <2>1. Hello \in Requests
    BY DEF Hello, Request, Requests
  <2> QED BY <2>1 DEF Init, TypeOK
<1>2. Range(queue) = {} /\ IsInjective(queue)
  BY DEF Init, Range, IsInjective
<1>3. ConnectionInv
  BY <1>2 DEF Init, ConnectionInv
<1>4. QueueInv
  BY <1>2 DEF Init, QueueInv
<1>5. TurnInv
  BY DEF Init, TurnInv
<1>6. ShownInv
  BY DEF Init, ShownInv
<1>7. OwedOneAnswer /\ ServerSurvivesClients
  BY DEF Init, OwedOneAnswer, ServerSurvivesClients
<1> QED BY <1>1, <1>3, <1>4, <1>5, <1>6, <1>7 DEF IInv

\* The client goes from one phase to another and does nothing else: it is started or
\* gives up to connect, its user types no number, or a request finds the connection
\* dead.
LEMMA PhaseStep ==
  ASSUME IInv, NEW c \in Clients, NEW p,
         phase' = [phase EXCEPT ![c] = p],
         UNCHANGED <<asked, shown, tcpVars, serverVars>>,
         \/ phase[c] \in {"off", "connect"} /\ p \in {"connect", "gone"}
         \/ phase[c] = "number" /\ p = "menu"
         \/ phase[c] \in {"menu", "number"} /\ p \in {"menu", "number", "gone"} /\ link[c] = "down"
  PROVE  IInv'
<1> USE DEF IInv
<1>0. UNCHANGED <<asked, shown, link, inbox, outbox, queue, serving, server, favorites, crashes>>
  BY DEF tcpVars, serverVars
<1>1. Range(queue) \subseteq Clients
  BY RangeOfSeq DEF TypeOK
<1>2. link[c] = IF phase[c] \in {"off", "connect"} THEN "none" ELSE link[c]
  BY DEF ConnectionInv, TypeOK
<1>3. TypeOK'
  BY <1>0 DEF TypeOK
<1>4. ConnectionInv'
  BY <1>0, <1>2 DEF ConnectionInv, TypeOK
<1>5. QueueInv'
  BY <1>0, <1>1, <1>2 DEF QueueInv, TypeOK
<1>6. TurnInv'
  BY <1>0, <1>2 DEF TurnInv, TypeOK
<1>7. ShownInv'
  BY <1>0, <1>2 DEF ShownInv, TypeOK
<1>8. OwedOneAnswer' /\ ServerSurvivesClients'
  BY <1>0, <1>2 DEF OwedOneAnswer, ServerSurvivesClients, TypeOK
<1> QED BY <1>3, <1>4, <1>5, <1>6, <1>7, <1>8

\* A connection is set up: the client joins the queue and has said HELLO.
LEMMA ConnectStep ==
  ASSUME IInv, NEW c \in Clients, Connect(c)
  PROVE  IInv'
<1> USE DEF IInv
<1>0. /\ UNCHANGED <<asked, shown, outbox, serving, server, favorites, crashes>>
      /\ phase[c] = "connect"
      /\ phase' = [phase EXCEPT ![c] = "wait"]
      /\ link' = [link EXCEPT ![c] = "up"]
      /\ inbox' = [inbox EXCEPT ![c] = <<Hello>>]
      /\ queue' = Append(queue, c)
  BY DEF Connect
<1>1. link[c] = "none" /\ outbox[c] = <<>> /\ asked[c] = Hello
      /\ c \notin Range(queue) /\ c # serving
  BY <1>0 DEF ConnectionInv, TurnInv, TypeOK
<1>2. Range(queue') = Range(queue) \cup {c} /\ IsInjective(queue') /\ queue' \in Seq(Clients)
  <2>1. queue \in Seq(Clients) /\ IsInjective(queue)
    BY DEF TypeOK, QueueInv
  <2> QED BY <2>1, <1>0, <1>1, AppendOne, AppendProperties
<1>3. Hello \in Requests /\ <<Hello>> \in Seq(Requests) /\ Len(<<Hello>>) = 1
      /\ Head(<<Hello>>) = Hello /\ Hello.op = "hello"
  BY DEF Hello, Request, Requests
<1>4. TypeOK'
  BY <1>0, <1>2, <1>3 DEF TypeOK
<1>5. ConnectionInv'
  BY <1>0, <1>1, <1>2 DEF ConnectionInv, TypeOK
<1>6. QueueInv'
  BY <1>0, <1>1, <1>2 DEF QueueInv, TypeOK
<1>7. TurnInv'
  BY <1>0, <1>1, <1>3 DEF TurnInv, TypeOK
<1>8. ShownInv'
  BY <1>0, <1>1, <1>3 DEF ShownInv, TypeOK
<1>9. OwedOneAnswer' /\ ServerSurvivesClients'
  BY <1>0, <1>1 DEF OwedOneAnswer, ServerSurvivesClients, TypeOK
<1> QED BY <1>4, <1>5, <1>6, <1>7, <1>8, <1>9

\* A request goes out on a standing connection, whose client the server works for.
LEMMA SendUpStep ==
  ASSUME IInv, NEW c \in Clients, NEW r \in Requests, NEW waiting,
         phase[c] \in {"menu", "number"},
         r.op = "delete" => phase[c] = "number",
         waiting \in {"wait", "waitList"},
         waiting = "waitList" => r.op = "list",
         link[c] = "up",
         asked' = [asked EXCEPT ![c] = r],
         inbox' = [inbox EXCEPT ![c] = Append(@, r)],
         phase' = [phase EXCEPT ![c] = waiting],
         UNCHANGED <<shown, link, outbox, serverVars>>
  PROVE  IInv'
<1> USE DEF IInv
<1>0. UNCHANGED <<shown, link, outbox, queue, serving, server, favorites, crashes>>
  BY DEF serverVars
<1>1. inbox[c] = <<>> /\ outbox[c] = <<>> /\ c \notin Range(queue)
  BY DEF TurnInv, QueueInv, TypeOK
<1>2. Append(<<>>, r) = <<r>> /\ <<r>> \in Seq(Requests) /\ Len(<<r>>) = 1 /\ Head(<<r>>) = r
  OBVIOUS
<1>3. inbox' = [inbox EXCEPT ![c] = <<r>>]
  BY <1>1, <1>2
<1>4. TypeOK'
  BY <1>0, <1>2, <1>3 DEF TypeOK
<1>5. ConnectionInv'
  BY <1>0, <1>3 DEF ConnectionInv, TypeOK
<1>6. QueueInv'
  BY <1>0, <1>1, <1>3 DEF QueueInv, TypeOK
<1>7. TurnInv'
  BY <1>0, <1>2, <1>3 DEF TurnInv, TypeOK
<1>8. ShownInv'
  BY <1>0, <1>1, <1>2, <1>3 DEF ShownInv, TypeOK
<1>9. OwedOneAnswer' /\ ServerSurvivesClients'
  BY <1>0, <1>1, <1>3 DEF OwedOneAnswer, ServerSurvivesClients, TypeOK
<1> QED BY <1>4, <1>5, <1>6, <1>7, <1>8, <1>9

\* client_send_request, on a connection that stands or is dead.
LEMMA SendStep ==
  ASSUME IInv, NEW c \in Clients, NEW r \in Requests, NEW waiting, NEW next,
         phase[c] \in {"menu", "number"},
         r.op = "delete" => phase[c] = "number",
         waiting \in {"wait", "waitList"},
         waiting = "waitList" => r.op = "list",
         next \in {"menu", "number"},
         Send(c, r, waiting, next)
  PROVE  IInv'
<1>1. CASE link[c] = "up"
  BY <1>1, SendUpStep DEF Send
<1>2. CASE link[c] = "down"
  <2>1. PICK p \in {next, "gone"} : phase' = [phase EXCEPT ![c] = p]
    BY <1>2 DEF Send
  <2>2. UNCHANGED <<asked, shown, tcpVars, serverVars>>
    BY <1>2 DEF Send, tcpVars
  <2> QED BY <1>2, <2>1, <2>2, PhaseStep
<1> QED BY <1>1, <1>2 DEF Send

\* A round of the menu, and the prompt of a deletion.
LEMMA UserStep ==
  ASSUME IInv, NEW c \in Clients, Ask(c) \/ AskDelete(c) \/ Choose(c)
  PROVE  IInv'
<1>1. Request("search", 0) \in Requests /\ Request("list", 0) \in Requests
      /\ Request("list", 0).op = "list" /\ Request("search", 0).op = "search"
  BY DEF Request, Requests
<1>2. CASE Ask(c)
  <2>1. PICK r \in {Request("search", 0), Request("list", 0)} \cup {Request("add", k) : k \in Keys} :
          Send(c, r, "wait", "menu")
    BY <1>2 DEF Ask
  <2>2. r \in Requests /\ r.op # "delete"
    BY <1>1 DEF Request, Requests
  <2> QED BY <1>2, <2>1, <2>2, SendStep DEF Ask
<1>3. CASE AskDelete(c)
  BY <1>1, <1>3, SendStep DEF AskDelete
<1>4. CASE Choose(c)
  <2>1. ASSUME NEW n \in Numbers, Send(c, Request("delete", n), "wait", "menu")
        PROVE  IInv'
    <3>1. Request("delete", n) \in Requests
      BY DEF Request, Requests, Numbers
    <3> QED BY <1>4, <2>1, <3>1, SendStep DEF Choose
  <2>2. CASE phase' = [phase EXCEPT ![c] = "menu"] /\ UNCHANGED <<asked, shown, tcpVars, serverVars>>
    BY <1>4, <2>2, PhaseStep DEF Choose
  <2> QED BY <1>4, <2>1, <2>2 DEF Choose
<1> QED BY <1>2, <1>3, <1>4

\* A line is read and shown.
LEMMA ReceiveStep ==
  ASSUME IInv, NEW c \in Clients, Receive(c)
  PROVE  IInv'
<1> USE DEF IInv
<1> DEFINE a == Head(outbox[c])
<1>0. /\ UNCHANGED <<link, inbox, queue, serving, server, favorites, crashes>>
      /\ phase[c] \in {"wait", "waitList"}
      /\ outbox[c] # <<>>
      /\ outbox' = [outbox EXCEPT ![c] = Tail(outbox[c])]
      /\ shown' = [shown EXCEPT ![c] = IF a.op = "list" THEN a.items ELSE shown[c]]
      /\ asked' = [asked EXCEPT ![c] = Hello]
      /\ phase' = [phase EXCEPT ![c] = AfterWait(phase[c])]
  BY DEF Receive, serverVars
<1>1. Range(queue) \subseteq Clients
  BY RangeOfSeq DEF TypeOK
<1>2. /\ a \in Answers /\ Tail(outbox[c]) \in Seq(Answers)
      /\ Len(Tail(outbox[c])) = Len(outbox[c]) - 1 /\ Len(outbox[c]) \in Nat \ {0}
      /\ a = outbox[c][1]
  <2>1. outbox[c] \in Seq(Answers)
    BY DEF TypeOK
  <2> QED BY <1>0, <2>1, ClientValues
<1>3. AfterWait(phase[c]) = IF phase[c] = "waitList" THEN "number" ELSE "menu"
  BY DEF AfterWait
<1>4. Hello \in Requests /\ Hello.op = "hello"
  BY DEF Hello, Request, Requests
<1>5. link[c] \in {"up", "down"}
  BY <1>0 DEF ConnectionInv, TypeOK
<1>6. link[c] = "up" => inbox[c] = <<>> /\ Len(outbox[c]) = 1 /\ a.op = asked[c].op
                        /\ Tail(outbox[c]) = <<>>
  <2>1. link[c] = "up" => inbox[c] = <<>> /\ Len(outbox[c]) = 1 /\ a.op = asked[c].op
    BY <1>0, <1>2 DEF OwedOneAnswer
  <2>2. ASSUME Len(outbox[c]) = 1 PROVE Tail(outbox[c]) = <<>>
    <3>1. Len(outbox[c]) <= 1
      BY <2>2
    <3> QED BY <1>0, <3>1, ClientValues, TailOfOne
  <2> QED BY <2>1, <2>2
<1> HIDE DEF a
<1>7. TypeOK'
  BY <1>0, <1>2, <1>3, <1>4 DEF TypeOK, Answers
<1>8. ConnectionInv'
  BY <1>0, <1>3, <1>5 DEF ConnectionInv, TypeOK
<1>9. QueueInv'
  BY <1>0, <1>1, <1>3, <1>5, <1>6 DEF QueueInv, TypeOK
<1>10. TurnInv'
  BY <1>0, <1>3, <1>5, <1>6 DEF TurnInv, TypeOK
<1>11. ShownInv'
  <2>1. link[c] = "up" /\ phase[c] = "waitList" => a.op = "list"
    BY <1>6 DEF TurnInv
  <2>2. link[c] = "up" /\ a.op = "list" => a.items = favorites
    BY <1>0, <1>2 DEF ShownInv
  <2>3. inbox[c] = <<>>
    BY <1>5, <1>6 DEF ConnectionInv, TypeOK
  <2> QED BY <1>0, <1>3, <1>5, <1>6, <2>1, <2>2, <2>3 DEF ShownInv, TypeOK
<1>12. OwedOneAnswer' /\ ServerSurvivesClients'
  BY <1>0, <1>3 DEF OwedOneAnswer, ServerSurvivesClients, TypeOK
<1> QED BY <1>7, <1>8, <1>9, <1>10, <1>11, <1>12

\* No line comes any more.
LEMMA ReceiveFailsStep ==
  ASSUME IInv, NEW c \in Clients, ReceiveFails(c)
  PROVE  IInv'
<1> USE DEF IInv
<1>0. /\ UNCHANGED <<shown, link, inbox, outbox, queue, serving, server, favorites, crashes>>
      /\ phase[c] \in {"wait", "waitList"}
      /\ link[c] = "down"
      /\ asked' = [asked EXCEPT ![c] = Hello]
      /\ phase' = [phase EXCEPT ![c] = AfterWait(phase[c])]
  BY DEF ReceiveFails, tcpVars, serverVars
<1>1. Range(queue) \subseteq Clients
  BY RangeOfSeq DEF TypeOK
<1>2. AfterWait(phase[c]) = IF phase[c] = "waitList" THEN "number" ELSE "menu"
  BY DEF AfterWait
<1>3. Hello \in Requests
  BY DEF Hello, Request, Requests
<1>4. TypeOK'
  BY <1>0, <1>2, <1>3 DEF TypeOK
<1>5. ConnectionInv'
  BY <1>0, <1>2 DEF ConnectionInv, TypeOK
<1>6. QueueInv'
  BY <1>0, <1>1, <1>2 DEF QueueInv, TypeOK
<1>7. TurnInv'
  BY <1>0, <1>2 DEF TurnInv, TypeOK
<1>8. ShownInv'
  BY <1>0, <1>2 DEF ShownInv, TypeOK
<1>9. OwedOneAnswer' /\ ServerSurvivesClients'
  BY <1>0, <1>2 DEF OwedOneAnswer, ServerSurvivesClients, TypeOK
<1> QED BY <1>4, <1>5, <1>6, <1>7, <1>8, <1>9

\* The client ends or is killed, whatever it was doing.
LEMMA CloseStep ==
  ASSUME IInv, NEW c \in Clients, Quit(c) \/ Die(c)
  PROVE  IInv'
<1> USE DEF IInv
<1> DEFINE l == IF link[c] = "up" THEN IF outbox[c] = <<>> THEN "fin" ELSE "reset" ELSE "none"
<1>0. /\ UNCHANGED <<inbox, queue, serving, server, favorites, crashes>>
      /\ phase[c] \in {"connect", "wait", "waitList", "number", "menu"}
      /\ phase' = [phase EXCEPT ![c] = "gone"]
      /\ link' = [link EXCEPT ![c] = l]
      /\ outbox' = [outbox EXCEPT ![c] = <<>>]
      /\ asked' = [asked EXCEPT ![c] = Hello]
      /\ shown' = [shown EXCEPT ![c] = <<>>]
  BY DEF Quit, Die, Close, serverVars
<1>1. Range(queue) \subseteq Clients
  BY RangeOfSeq DEF TypeOK
<1>2. Hello \in Requests
  BY DEF Hello, Request, Requests
<1>3. link[c] \in {"none", "up", "down"}
  BY <1>0 DEF ConnectionInv, TypeOK
<1>4. link[c] = "up" /\ outbox[c] # <<>> => inbox[c] = <<>>
  BY <1>0 DEF OwedOneAnswer, TurnInv, ConnectionInv
<1>5. TypeOK'
  BY <1>0, <1>2 DEF TypeOK
<1>6. ConnectionInv'
  BY <1>0, <1>3 DEF ConnectionInv, TypeOK
<1>7. QueueInv'
  BY <1>0, <1>1, <1>3 DEF QueueInv, TypeOK
<1>8. TurnInv'
  BY <1>0, <1>3, <1>4 DEF TurnInv, TypeOK
<1>9. ShownInv'
  BY <1>0, <1>3 DEF ShownInv, TypeOK
<1>10. OwedOneAnswer' /\ ServerSurvivesClients'
  BY <1>0 DEF OwedOneAnswer, ServerSurvivesClients, TypeOK
<1> QED BY <1>5, <1>6, <1>7, <1>8, <1>9, <1>10

\* server_run takes the first client out of the queue.
LEMMA AcceptStep ==
  ASSUME IInv, Accept
  PROVE  IInv'
<1> USE DEF IInv
<1>0. /\ UNCHANGED <<phase, asked, shown, link, inbox, outbox, server, favorites, crashes>>
      /\ serving = None
      /\ queue # <<>>
      /\ serving' = Head(queue)
      /\ queue' = Tail(queue)
  BY DEF Accept, clientVars, tcpVars
<1>1. /\ Range(queue) \subseteq Clients /\ None \notin Clients
      /\ Head(queue) \in Range(queue)
      /\ Range(queue') = Range(queue) \ {Head(queue)}
      /\ IsInjective(queue')
      /\ queue' \in Seq(Clients)
  <2>1. queue \in Seq(Clients) /\ IsInjective(queue)
    BY DEF TypeOK, QueueInv
  <2> QED BY <1>0, <2>1, RangeOfSeq, TailOne, HeadTailProperties, SessionAssumption
<1>2. TypeOK'
  BY <1>0, <1>1 DEF TypeOK
<1>3. ConnectionInv'
  BY <1>0, <1>1 DEF ConnectionInv
<1>4. QueueInv'
  BY <1>0, <1>1 DEF QueueInv
<1>5. TurnInv'
  BY <1>0 DEF TurnInv
<1>6. ShownInv'
  BY <1>0 DEF ShownInv
<1>7. OwedOneAnswer' /\ ServerSurvivesClients'
  BY <1>0 DEF OwedOneAnswer, ServerSurvivesClients
<1> QED BY <1>2, <1>3, <1>4, <1>5, <1>6, <1>7

\* What a request does to the favourites, and its answer.
LEMMA OutcomeValues ==
  ASSUME TypeOK, NEW r \in Requests, NEW o \in Outcomes(r)
  PROVE  /\ o.favs \in Seq(Keys)
         /\ o.answer \in Answers
         /\ o.answer.op = r.op
         /\ r.op = "list" => o.answer.items = favorites
         /\ r.op \notin {"add", "delete"} => o.favs = favorites
<1>0. favorites \in Seq(Keys)
  BY DEF TypeOK
<1>1. CASE r.op = "add"
  <2>1. Append(favorites, r.arg) \in Seq(Keys)
    <3>1. r.arg \in Keys
      BY <1>1 DEF Requests
    <3> QED BY <1>0, <3>1
  <2>2. o \in {[favs |-> IF r.arg \in Range(favorites) THEN favorites ELSE Append(favorites, r.arg),
                answer |-> Answer("add", <<>>)],
               [favs |-> favorites, answer |-> Answer("add", <<>>)]}
    BY <1>1 DEF Outcomes
  <2>3. o.favs \in {favorites, Append(favorites, r.arg)} /\ o.answer = Answer("add", <<>>)
    BY <2>2
  <2>4. o.favs \in Seq(Keys)
    BY <1>0, <2>1, <2>3
  <2> QED BY <1>1, <2>3, <2>4 DEF Answer, Answers, Ops
<1>2. CASE r.op = "delete"
  <2>1. r.arg \in DOMAIN favorites => RemoveAt(favorites, r.arg) \in Seq(Keys)
    <3>1. DOMAIN favorites = 1..Len(favorites)
      BY <1>0, LenProperties
    <3> QED BY <1>0, <3>1, RemoveOne
  <2>2. o \in {[favs |-> IF r.arg \in DOMAIN favorites THEN RemoveAt(favorites, r.arg) ELSE favorites,
                answer |-> Answer("delete", <<>>)],
               [favs |-> favorites, answer |-> Answer("delete", <<>>)]}
    BY <1>2 DEF Outcomes
  <2>3. /\ \/ o.favs = favorites
           \/ r.arg \in DOMAIN favorites /\ o.favs = RemoveAt(favorites, r.arg)
        /\ o.answer = Answer("delete", <<>>)
    BY <2>2
  <2> QED BY <1>0, <1>2, <2>1, <2>3 DEF Answer, Answers, Ops
<1>3. CASE r.op = "list"
  BY <1>0, <1>3 DEF Outcomes, Answer, Answers, Ops
<1>4. CASE r.op \in {"hello", "search"}
  <2>1. o = [favs |-> favorites, answer |-> Answer(r.op, <<>>)]
    BY <1>4 DEF Outcomes
  <2>2. o.favs = favorites /\ o.answer = Answer(r.op, <<>>)
    BY <2>1
  <2>3. r.op \in Ops /\ <<>> \in Seq(Keys)
    BY <1>4 DEF Ops
  <2> QED BY <1>0, <1>4, <2>2, <2>3 DEF Answer, Answers
<1>5. r.op \in {"add", "delete", "list", "hello", "search"}
  BY DEF Requests
<1> QED BY <1>1, <1>2, <1>3, <1>4, <1>5

\* A line is read, routed and answered.
LEMMA ServeStep ==
  ASSUME IInv, Serve
  PROVE  IInv'
<1> USE DEF IInv
<1> DEFINE r == Head(inbox[serving])
<1>1. PICK o \in Outcomes(r) :
        /\ favorites' = o.favs
        /\ outbox' = [outbox EXCEPT ![serving] =
                        IF link[serving] = "up" THEN Append(@, o.answer) ELSE @]
  BY DEF Serve
<1>0. /\ UNCHANGED <<phase, asked, shown, queue, serving, crashes>>
      /\ serving # None
      /\ inbox[serving] # <<>>
      /\ inbox' = [inbox EXCEPT ![serving] = Tail(inbox[serving])]
      /\ link' = [link EXCEPT ![serving] = IF link[serving] = "fin" THEN "reset" ELSE link[serving]]
      /\ server' = IF link[serving] = "reset" THEN "killed" ELSE server
  BY DEF Serve, clientVars
<1>2. serving \in Clients /\ serving \notin Range(queue) /\ Range(queue) \subseteq Clients
  BY <1>0, RangeOfSeq DEF TypeOK, QueueInv
<1>3. /\ r \in Requests /\ Tail(inbox[serving]) \in Seq(Requests)
      /\ Len(Tail(inbox[serving])) = Len(inbox[serving]) - 1
      /\ Len(inbox[serving]) \in Nat \ {0}
  BY <1>0, <1>2, ClientValues
<1>4. Tail(inbox[serving]) = <<>>
  <2>1. Len(inbox[serving]) <= 1
    BY <1>2 DEF TurnInv
  <2>2. inbox[serving] \in Seq(Requests)
    BY <1>2, ClientValues
  <2> QED BY <1>0, <2>1, <2>2, TailOfOne
<1>5. /\ o.favs \in Seq(Keys) /\ o.answer \in Answers
      /\ o.answer.op = r.op
      /\ r.op = "list" => o.answer.items = favorites
      /\ r.op \notin {"add", "delete"} => o.favs = favorites
  BY <1>3, OutcomeValues
<1>6. link[serving] \in {"up", "fin"}
  BY <1>0, <1>2 DEF ConnectionInv, TurnInv, TypeOK
<1>7. link[serving] = "up" => /\ phase[serving] \in {"wait", "waitList"}
                              /\ outbox[serving] = <<>>
                              /\ r = asked[serving]
  <2>1. link[serving] = "up" => phase[serving] \in {"wait", "waitList"}
    BY <1>0, <1>2 DEF ConnectionInv, TurnInv
  <2>2. link[serving] = "up" => inbox[serving] = <<asked[serving]>> /\ outbox[serving] = <<>>
    BY <1>0, <1>2, <2>1 DEF OwedOneAnswer
  <2> QED BY <2>1, <2>2
<1> DEFINE out == IF link[serving] = "up" THEN <<o.answer>> ELSE outbox[serving]
<1>8. outbox' = [outbox EXCEPT ![serving] = out]
  <2>1. Append(<<>>, o.answer) = <<o.answer>>
    OBVIOUS
  <2>2. (IF link[serving] = "up" THEN Append(outbox[serving], o.answer) ELSE outbox[serving]) = out
    BY <1>7, <2>1
  <2> QED BY <1>1, <2>2
<1>9. out \in Seq(Answers)
  BY <1>2, <1>5, ClientValues
<1>10. \A c \in Clients : c # serving /\ link[c] = "up" => c \in Range(queue)
  BY DEF ConnectionInv
<1>11. r.op = "list" => o.favs = favorites
  BY <1>5
<1> HIDE DEF r
<1>12. TypeOK'
  BY <1>0, <1>1, <1>3, <1>5, <1>6, <1>8, <1>9 DEF TypeOK
<1>13. ConnectionInv'
  BY <1>0, <1>2, <1>4, <1>6, <1>8 DEF ConnectionInv, TypeOK
<1>14. QueueInv'
  BY <1>0, <1>2, <1>8 DEF QueueInv, TypeOK
<1>15. TurnInv'
  BY <1>0, <1>2, <1>4, <1>6, <1>7, <1>8 DEF TurnInv, TypeOK
<1>16. ShownInv'
  <2> SUFFICES ASSUME NEW c \in Clients
               PROVE  /\ link'[c] = "up" /\ phase'[c] = "number" => shown'[c] = favorites'
                      /\ link'[c] = "up" /\ outbox'[c] # <<>> /\ outbox'[c][1].op = "list" =>
                           outbox'[c][1].items = favorites'
                      /\ inbox'[c] # <<>> /\ Head(inbox'[c]).op = "delete" =>
                           shown'[c] \in {favorites', <<>>}
    BY DEF ShownInv
  <2>1. CASE c = serving
    <3>1. inbox'[c] = <<>> /\ outbox'[c] = out
      BY <1>0, <1>2, <1>4, <1>8, <2>1 DEF TypeOK
    <3>2. link'[c] = "up" => link[c] = "up" /\ phase'[c] # "number"
      BY <1>0, <1>2, <1>6, <1>7, <2>1 DEF TypeOK
    <3>3. link'[c] = "up" => outbox'[c] = <<o.answer>> /\ o.answer.op = r.op
      BY <3>1, <3>2, <1>5, <2>1
    <3> QED BY <1>1, <1>5, <1>11, <3>1, <3>2, <3>3
  <2>2. CASE c # serving
    <3>1. inbox'[c] = inbox[c] /\ outbox'[c] = outbox[c] /\ link'[c] = link[c]
          /\ phase'[c] = phase[c] /\ shown'[c] = shown[c]
      BY <1>0, <1>8, <2>2 DEF TypeOK
    <3>2. inbox[c] # <<>> => inbox[c] = <<Hello>>
      BY <2>2 DEF ConnectionInv, QueueInv, TypeOK
    <3>3. inbox[c] # <<>> => Head(inbox[c]).op # "delete"
      BY <3>2 DEF Hello, Request
    <3>4. link[c] = "up" => phase[c] = "wait" /\ outbox[c] = <<>>
      BY <1>10, <2>2 DEF QueueInv
    <3> QED BY <3>1, <3>3, <3>4
  <2> QED BY <2>1, <2>2
<1>17. OwedOneAnswer'
  <2> SUFFICES ASSUME NEW c \in Clients, phase'[c] \in {"wait", "waitList"}, link'[c] = "up"
               PROVE  \/ inbox'[c] = <<asked'[c]>> /\ outbox'[c] = <<>>
                      \/ inbox'[c] = <<>> /\ Len(outbox'[c]) = 1 /\ outbox'[c][1].op = asked'[c].op
    BY DEF OwedOneAnswer
  <2>1. CASE c = serving
    <3>1. inbox'[c] = <<>> /\ link[c] = "up" /\ outbox'[c] = <<o.answer>>
      BY <1>0, <1>2, <1>4, <1>6, <1>8, <2>1 DEF TypeOK
    <3> QED BY <3>1, <1>0, <1>5, <1>7, <2>1
  <2>2. CASE c # serving
    BY <1>0, <1>8, <2>2 DEF OwedOneAnswer, TypeOK
  <2> QED BY <2>1, <2>2
<1>18. ServerSurvivesClients'
  BY <1>0, <1>6 DEF ServerSurvivesClients
<1> QED BY <1>12, <1>13, <1>14, <1>15, <1>16, <1>17, <1>18

\* handle_client is done with a client that is gone.
LEMMA ReleaseStep ==
  ASSUME IInv, Release
  PROVE  IInv'
<1> USE DEF IInv
<1>0. /\ UNCHANGED <<phase, asked, shown, inbox, outbox, queue, server, favorites, crashes>>
      /\ serving # None
      /\ inbox[serving] = <<>>
      /\ link[serving] \in {"fin", "reset"}
      /\ link' = [link EXCEPT ![serving] = "none"]
      /\ serving' = None
  BY DEF Release, clientVars
<1>1. serving \in Clients /\ serving \notin Range(queue) /\ Range(queue) \subseteq Clients
      /\ None \notin Clients
  BY <1>0, RangeOfSeq, SessionAssumption DEF TypeOK, QueueInv
<1>2. TypeOK'
  BY <1>0 DEF TypeOK
<1>3. ConnectionInv'
  BY <1>0, <1>1 DEF ConnectionInv, TypeOK
<1>4. QueueInv'
  BY <1>0, <1>1 DEF QueueInv, TypeOK
<1>5. TurnInv'
  BY <1>0, <1>1 DEF TurnInv, TypeOK
<1>6. ShownInv'
  BY <1>0, <1>1 DEF ShownInv, TypeOK
<1>7. OwedOneAnswer' /\ ServerSurvivesClients'
  BY <1>0, <1>1 DEF OwedOneAnswer, ServerSurvivesClients, TypeOK
<1> QED BY <1>2, <1>3, <1>4, <1>5, <1>6, <1>7

\* The server is killed from outside: what it held is gone.
LEMMA CrashStep ==
  ASSUME IInv, Crash
  PROVE  IInv'
<1> USE DEF IInv
<1>0. /\ UNCHANGED <<phase, asked, shown, outbox>>
      /\ crashes < MaxCrashes /\ crashes' = crashes + 1
      /\ server' = "down" /\ serving' = None /\ queue' = <<>>
      /\ link' = [c \in Clients |-> IF link[c] \in {"up", "down"} THEN "down" ELSE "none"]
      /\ inbox' = [c \in Clients |-> <<>>]
  BY DEF Crash, clientVars
<1>1. favorites' \in Seq(Keys)
  <2>1. CASE serving = None \/ inbox[serving] = <<>>
    BY <2>1 DEF Crash, TypeOK
  <2>2. CASE ~(serving = None \/ inbox[serving] = <<>>)
    <3>1. Head(inbox[serving]) \in Requests
      BY <2>2, ClientValues DEF TypeOK
    <3>2. favorites' \in Interrupted(Head(inbox[serving]))
      BY <2>2 DEF Crash
    <3>3. \A o \in Outcomes(Head(inbox[serving])) : o.favs \in Seq(Keys)
      BY <3>1, OutcomeValues
    <3>4. favorites \in Seq(Keys) /\ <<>> \in Seq(Keys)
      BY DEF TypeOK
    <3> QED BY <3>2, <3>3, <3>4 DEF Interrupted
  <2> QED BY <2>1, <2>2
<1>2. Range(queue') = {} /\ IsInjective(queue') /\ None \notin Clients
  BY <1>0, SessionAssumption DEF Range, IsInjective
<1>3. TypeOK'
  BY <1>0, <1>1, SessionAssumption DEF TypeOK
<1>4. ConnectionInv'
  BY <1>0, <1>2 DEF ConnectionInv, TypeOK
<1>5. QueueInv'
  BY <1>0, <1>2 DEF QueueInv
<1>6. TurnInv'
  BY <1>0 DEF TurnInv, TypeOK
<1>7. ShownInv'
  BY <1>0 DEF ShownInv, TypeOK
<1>8. OwedOneAnswer' /\ ServerSurvivesClients'
  BY <1>0 DEF OwedOneAnswer, ServerSurvivesClients, TypeOK
<1> QED BY <1>3, <1>4, <1>5, <1>6, <1>7, <1>8

\* Every step keeps the invariant.
LEMMA NextIInv == IInv /\ [Next]_vars => IInv'
<1> SUFFICES ASSUME IInv, [Next]_vars PROVE IInv'
  OBVIOUS
<1>1. ASSUME NEW c \in Clients, Start(c) \/ ConnectFails(c) PROVE IInv'
  <2>1. phase[c] \in {"off", "connect"} /\ UNCHANGED <<asked, shown, tcpVars, serverVars>>
    BY <1>1 DEF Start, ConnectFails
  <2>2. PICK p \in {"connect", "gone"} : phase' = [phase EXCEPT ![c] = p]
    BY <1>1 DEF Start, ConnectFails
  <2> QED BY <2>1, <2>2, PhaseStep
<1>2. ASSUME NEW c \in Clients, ClientStep(c) PROVE IInv'
  BY <1>1, <1>2, ConnectStep, ReceiveStep, ReceiveFailsStep DEF ClientStep
<1>3. ASSUME NEW c \in Clients, Ask(c) \/ AskDelete(c) \/ Choose(c) PROVE IInv'
  BY <1>3, UserStep
<1>4. ASSUME NEW c \in Clients, Quit(c) \/ Die(c) PROVE IInv'
  BY <1>4, CloseStep
<1>5. CASE ServerStep
  BY <1>5, AcceptStep, ServeStep, ReleaseStep DEF ServerStep
<1>6. CASE Crash
  BY <1>6, CrashStep
<1>7. CASE Restart
  <2>1. UNCHANGED <<phase, asked, shown, link, inbox, outbox, queue, serving, favorites, crashes>>
        /\ server' = "up"
    BY <1>7 DEF Restart, clientVars, tcpVars
  <2> QED BY <2>1 DEF IInv, TypeOK, ConnectionInv, QueueInv, TurnInv, ShownInv, OwedOneAnswer,
                      ServerSurvivesClients
<1>8. CASE UNCHANGED vars
  BY <1>8 DEF vars, clientVars, tcpVars, serverVars,
              IInv, TypeOK, ConnectionInv, QueueInv, TurnInv, ShownInv, OwedOneAnswer,
              ServerSurvivesClients
<1> QED BY <1>1, <1>2, <1>3, <1>4, <1>5, <1>6, <1>7, <1>8 DEF Next

-----------------------------------------------------------------------------
\* Every reachable state satisfies the invariant.
THEOREM InvariantHolds == Spec => []IInv
<1> QED BY InitIInv, NextIInv, PTL DEF Spec

\* Clients, connections and the favourites stay what they are declared to be.
THEOREM TypeCorrect == Spec => []TypeOK
<1>1. IInv => TypeOK
  BY DEF IInv
<1> QED BY <1>1, InvariantHolds, PTL

\* client_send_request and client_recv_line keep in step: a waiting client with a
\* connection is owed one line, the answer to its last request.
THEOREM PairsAnswers == Spec => []OwedOneAnswer
<1>1. IInv => OwedOneAnswer
  BY DEF IInv
<1> QED BY <1>1, InvariantHolds, PTL

\* No client, by dying at whatever point, makes handle_client write to a connection
\* that was reset.
THEOREM ServerSurvives == Spec => []ServerSurvivesClients
<1>1. IInv => ServerSurvivesClients
  BY DEF IInv
<1> QED BY <1>1, InvariantHolds, PTL

\* FAVORITE_LIST and FAVORITE_DELETE, two requests of one client, mean the same list.
THEOREM DeletesTheShown == Spec => DeletesWhatWasShown
<1>1. ASSUME IInv, NEW c \in Clients,
             inbox[c] # <<>>, Head(inbox[c]).op = "delete", Head(inbox[c]).arg \in DOMAIN shown[c]
      PROVE  shown[c] = favorites
  <2>1. shown[c] \in {favorites, <<>>}
    BY <1>1 DEF IInv, ShownInv
  <2>2. DOMAIN <<>> = {}
    OBVIOUS
  <2> QED BY <1>1, <2>1, <2>2
<1>2. IInv => \A c \in Clients :
                inbox[c] # <<>> /\ Head(inbox[c]).op = "delete" /\ favorites' # favorites
                  /\ inbox'[c] = Tail(inbox[c]) =>
                LET n == Head(inbox[c]).arg
                IN  n \in DOMAIN shown[c] => n \in DOMAIN favorites /\ favorites[n] = shown[c][n]
  BY <1>1
<1> QED BY <1>2, InvariantHolds, PTL DEF DeletesWhatWasShown
=============================================================================
