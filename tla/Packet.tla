-------------------------------- MODULE Packet --------------------------------
(***************************************************************************)
(* Text in buffers of a fixed size, as str_append and str_appendf of       *)
(* src/common/string_utils.c put it together: every answer of the server,  *)
(* and the lists it is made of.                                            *)
(*                                                                         *)
(* A text is a sequence of pieces: what each stands for, and how many of   *)
(* its bytes are there.                                                    *)
(***************************************************************************)
EXTENDS Loops, SequencesExt

CONSTANT MaxPacket  \* MAX_PACKET_SIZE, 32768 in the code

ASSUME PacketAssumption == MaxPacket \in Nat \ {0}

\* Mutant: room is asked for one byte more than needed.
Fits_Mut(size, used, n) == used + n + 2 <= size

\* n more bytes and the terminating 0 fit behind the bytes used.
Fits(size, used, n) == used + n + 1 <= size

\* Mutant: vsnprintf may use the byte of the terminating 0.
Written_Mut(size, used, n) == IF used + n <= size THEN n ELSE size - used

\* What vsnprintf writes of n bytes.
Written(size, used, n) == IF Fits(size, used, n) THEN n ELSE size - 1 - used

Piece(what, bytes) == [what |-> what, bytes |-> bytes]

\* Texts whose pieces stand for any of these.
Texts(whats) == Seq([what : whats, bytes : Nat])

\* strlen.
Length(text) == Total([n \in DOMAIN text |-> text[n].bytes])

\* All of the piece, or nothing.
str_append(size, text, what, n) ==
  IF Fits(size, Length(text), n) THEN Append(text, Piece(what, n)) ELSE text

\* As much of the piece as fits.
str_appendf(size, text, what, n) ==
  IF Written(size, Length(text), n) = 0 THEN text
  ELSE Append(text, Piece(what, Written(size, Length(text), n)))

\* safe_strcpy into a buffer of this size: as many bytes of a text as fit.
safe_strcpy(size, text) ==
  LET whats == {p.what : p \in Range(text)}
  IN  FoldWith([p \in Range(text) |->
                  [copy \in Texts(whats) |-> str_appendf(size, copy, p.what, p.bytes)]],
               <<>>, text)
=============================================================================
