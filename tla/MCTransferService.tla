-------------------------- MODULE MCTransferService --------------------------
(***************************************************************************)
(* An instance of TransferService for TLC: two stops of one name, of which *)
(* the second has coordinates, and two stations, one named like part of    *)
(* the other.  The packet has room for the summary of any path and for one *)
(* step, for two or for three, as names and minutes have it.               *)
(***************************************************************************)
EXTENDS TransferService

CONSTANTS b1, b2, t1, t2,       \* ids
          plaza, gate, oldGate, \* names; the last two stand for names of stations
          old,                  \* part of oldGate and of plaza
          r1, r2

MCGraph == <<[id |-> b1, name |-> plaza, station |-> FALSE, located |-> FALSE],
             [id |-> t2, name |-> oldGate, station |-> TRUE, located |-> FALSE],
             [id |-> b2, name |-> plaza, station |-> FALSE, located |-> TRUE],
             [id |-> t1, name |-> gate, station |-> TRUE, located |-> TRUE]>>

MCKeywords    == {b1, plaza, gate, old, Blank}
MCMatching    == {<<plaza, plaza>>, <<gate, gate>>, <<oldGate, gate>>, <<oldGate, old>>, <<plaza, old>>}
MCStationLike == {gate, old}
MCRoutes      == {r1, r2, TRANSFER}
MCKmKnown     == {{2, 4}}
MCNameSize    == plaza :> 1 @@ gate :> 2 @@ oldGate :> 4
=============================================================================
