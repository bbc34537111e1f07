---------------------------- MODULE RequestReader ----------------------------
(***************************************************************************)
(* handle_client of src/server/client_handler.c: a connection is read byte *)
(* by byte into a buffer of MAX_PACKET_SIZE bytes; a newline hands what is *)
(* in it to route_request, whose answer is sent; a buffer without room for *)
(* one more byte and the terminating 0 is answered with an error and       *)
(* emptied, and the byte just read is dropped.                             *)
(*                                                                         *)
(* A line is its size, newline included, the request it is, and the        *)
(* request that its end reads like, should the server come to read only    *)
(* its end.  A client may send the next line before it has read the        *)
(* answers: the server reads nothing while it works on a request, so this  *)
(* makes no difference to it.                                              *)
(***************************************************************************)
EXTENDS Packet

CONSTANTS
  Lines,      \* the lines clients send: [size, says, rest]
  Nothing,    \* no request
  ErrorSize   \* bytes of the answer to what is no request, newline included

ASSUME ReaderAssumption ==
  /\ \A l \in Lines : l.size \in Nat \ {0} /\ Nothing \notin {l.says, l.rest}
  /\ ErrorSize \in Nat /\ ErrorSize < MaxPacket

VARIABLES
  line,     \* the line being sent, or sent last; <<>> on a new connection
  left,     \* bytes of it the server has not read
  pos,      \* bytes in the request buffer
  said,     \* the request route_request works on
  answers   \* the answers to this line: bytes, and whether they end in a newline

readerVars == <<line, left, pos, said, answers>>

Sent(bytes, ended) == [bytes |-> bytes, ended |-> ended]

ReaderInit == /\ line = <<>>
              /\ left = 0
              /\ pos = 0
              /\ said = Nothing
              /\ answers = <<>>

SendLine == /\ said = Nothing
            /\ left = 0
            /\ \E l \in Lines : line' = <<l>> /\ left' = l.size
            /\ answers' = <<>>
            /\ UNCHANGED <<pos, said>>

Full == pos + 1 >= MaxPacket

\* The byte belongs to the line.
ReadByte == /\ said = Nothing
            /\ left > 1
            /\ ~Full
            /\ pos' = pos + 1
            /\ left' = left - 1
            /\ UNCHANGED <<line, said, answers>>

\* The byte is the newline.  The buffer holds the line, or what came after it was
\* emptied last.
ReadNewline == /\ said = Nothing
               /\ left = 1
               /\ ~Full
               /\ pos' = pos + 1
               /\ left' = 0
               /\ said' = IF pos + 1 = line[1].size THEN line[1].says ELSE line[1].rest
               /\ UNCHANGED <<line, answers>>

\* Mutant: the byte that found no room starts the next request.
ReadTooMuch_Mut == /\ said = Nothing
                   /\ left > 0
                   /\ Full
                   /\ answers' = Append(answers, Sent(ErrorSize, TRUE))
                   /\ pos' = 1
                   /\ left' = left - 1
                   /\ UNCHANGED <<line, said>>

\* No room for the byte, even if it is the newline.
ReadTooMuch == /\ said = Nothing
               /\ left > 0
               /\ Full
               /\ answers' = Append(answers, Sent(ErrorSize, TRUE))
               /\ pos' = 0
               /\ left' = left - 1
               /\ UNCHANGED <<line, said>>

\* route_request has returned, and its answer is sent.
Respond(bytes, ended) == /\ said # Nothing
                         /\ answers' = Append(answers, Sent(bytes, ended))
                         /\ said' = Nothing
                         /\ pos' = 0
                         /\ UNCHANGED <<line, left>>

\* recv returns 0 or an error: the client has gone, at the end of a line or within
\* one, and the next client finds an empty buffer.
Hangup == /\ said = Nothing
          /\ line # <<>>
          /\ line' = <<>>
          /\ left' = 0
          /\ pos' = 0
          /\ answers' = <<>>
          /\ UNCHANGED said

ReaderStep == SendLine \/ ReadByte \/ ReadNewline \/ ReadTooMuch \/ Hangup

-----------------------------------------------------------------------------
(* Properties *)

\* How many buffers a line fills or begins to fill.
Buffers(l) == (l.size + MaxPacket - 1) \div MaxPacket

\* Nothing but their number tells which answer belongs to which line.  When a line has
\* been dealt with, it has had one answer, and one more for each buffer it filled,
\* and nothing of it is left to spoil the next line.  Each answer ends in a newline
\* or fills the client's buffer to the last byte, so the client reads as many.
OneAnswerPerLine ==
  said = Nothing /\ left = 0 /\ line # <<>> =>
    /\ Len(answers) = Buffers(line[1])
    /\ pos = 0
    /\ \A n \in DOMAIN answers : answers[n].ended \/ answers[n].bytes = MaxPacket - 1

-----------------------------------------------------------------------------
(* What makes these inductive *)

BytesRead == MaxPacket * Len(answers) + pos

\* Between lines nothing is left over.  Within a line, each byte of it is to come, in the
\* buffer, or in a buffer that has been answered.
BytesAccountedFor ==
  IF line = <<>> THEN said = Nothing /\ left = 0 /\ pos = 0 /\ answers = <<>>
  ELSE \/ said = Nothing /\ left > 0 /\ line[1].size = BytesRead + left
       \/ said # Nothing /\ left = 0 /\ line[1].size = BytesRead /\ pos > 0
       \/ said = Nothing /\ left = 0 /\ pos = 0 /\ Len(answers) = Buffers(line[1])

\* An answer is seen to end, or fills the client's buffer.
AnswersEnd == \A n \in DOMAIN answers : answers[n].ended \/ answers[n].bytes = MaxPacket - 1

SaidByLine == said # Nothing => line # <<>> /\ said \in {line[1].says, line[1].rest}
=============================================================================
