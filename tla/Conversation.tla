----------------------------- MODULE Conversation -----------------------------
(***************************************************************************)
(* A connection from its bytes to the screen: the reader of a connection   *)
(* (module RequestReader) hands a line to route_request                    *)
(* (src/server/router.c), a service (module SearchService) makes the       *)
(* answer, and the client shows it.  The services with files and the path  *)
(* search have modules of their own, as has the recording of searches.     *)
(***************************************************************************)
EXTENDS RequestReader, SearchService

CONSTANT Greetings  \* the requests answered without a service, by what they are answered with

ASSUME ConversationAssumption ==
  /\ \A g \in DOMAIN Greetings : g # Nothing /\ Greetings[g] \in 1 .. MaxPacket - 1
  /\ \A l \in Lines : l.says.words \in Seq(DOMAIN Str) /\ l.rest.words \in Seq(DOMAIN Str)

vars == <<readerVars, searchVars>>

Services == Keyworded \cup Lookups \cup {"facility"}

Init == ReaderInit /\ SearchInit

\* The server reads while no service is at work.
Read == /\ pc = "idle"
        /\ ReaderStep
        /\ UNCHANGED searchVars

Route == /\ said # Nothing
         /\ said.type \in Services
         /\ Begin(said)
         /\ UNCHANGED readerVars

\* HELLO, PING, and what is no request.
Greet == /\ pc = "idle"
         /\ said # Nothing
         /\ said.type \notin Services
         /\ Respond(IF said.type \in DOMAIN Greetings THEN Greetings[said.type] ELSE ErrorSize, TRUE)
         /\ UNCHANGED searchVars

Serve == ServiceStep /\ UNCHANGED readerVars

Reply == /\ pc = "sent"
         /\ Respond(used, ended)
         /\ View

Next == Read \/ Route \/ Greet \/ Serve \/ Reply

Spec == Init /\ [][Next]_vars

-----------------------------------------------------------------------------
(* Properties *)

\* The size of an answer is that of its header, its items with the ';' between them and
\* its newline, and leaves the last byte of the buffer to the terminating 0.
TypeOK ==
  /\ line = <<>> \/ line[1] \in Lines
  /\ left \in Nat
  /\ pos \in 0 .. MaxPacket - 1
  /\ town \in DOMAIN Datasets
  /\ pc \in {"idle", "end", "sent"} \cup Services
  /\ pc # "idle" => said # Nothing /\ request = said
  /\ rank \in 1 .. 3
  /\ code \in {OK, NOT_FOUND, INVALID_REQUEST}
  /\ ended \in BOOLEAN
  /\ pc # "idle" => used < MaxPacket
  /\ pc \notin {"idle", "sent"} =>
       used = HeaderSize + Total([n \in DOMAIN items |-> Length(items[n].text)])
              + (IF items = <<>> THEN 0 ELSE Len(items) - 1)

-----------------------------------------------------------------------------
(* What makes these inductive *)

\* The types that TypeOK does not name, and that the answer is done when it is sent.
Typed ==
  /\ answers \in Seq([bytes : Nat, ended : BOOLEAN])
  /\ items \in Seq([of : Nat, text : ItemTexts])
  /\ done \in Nat
  /\ used \in Nat
  /\ pc \notin {"idle", "sent"} => ~Refused(request) /\ code = OK /\ ~ended
  /\ pc \in Services => pc = request.type
  /\ pc # "idle" => request.type \in Services
  /\ pc \in Lookups => items = <<>>
  /\ pc = "sent" => ended \/ used = MaxPacket - 1
=============================================================================
