------------------------------- MODULE AppData -------------------------------
(***************************************************************************)
(* AppData of src/common/types.h: the linked lists the server keeps its    *)
(* data in (src/common/linked_list.c), here the sequences the code walks,  *)
(* with the fields the loader and the transfer graph look at; and the      *)
(* memory they are allocated from, which may run out.                      *)
(*                                                                         *)
(* A name of a line is a sequence of names: a station carries all of its   *)
(* lines in one string, and that string may come to be the name of a line. *)
(***************************************************************************)
EXTENDS Loops, Integers, SequencesExt

CONSTANTS
  Ids,               \* ids of stops, stations and facilities
  Blank,             \* an id that is not given
  Routes,            \* names of bus routes and lines
  TRANSFER, SUBWAY,  \* those of edges between a stop and a station, or of no known line
  Spots,             \* places with coordinates
  Nowhere,           \* no coordinates
  Square             \* squared distances of spots, in hundredths of a square kilometre

ASSUME AppDataAssumption ==
  /\ {TRANSFER, SUBWAY} \subseteq Routes
  /\ Blank \notin Ids \cup Routes
  /\ Nowhere \notin Spots
  /\ Square \in [Spots -> [Spots -> Nat]]

VARIABLES
  data,      \* the lists, in the order the code walks them
  mayFail,   \* allocations that may still fail
  failed     \* history: one has

Places == Spots \cup {Nowhere}

\* What the lists may hold.
Load == [stops     : Seq([id : Ids, at : Places]),
         routes    : Seq([no : Routes, stops : Seq([seq : Int, stop : Ids])]),
         stations  : Seq([id : Ids, at : Places, lines : Seq(Routes)]),
         distances : Seq([from : Ids, to : Ids, minutes : Nat, line : Seq(Routes)]),
         facilities : Seq([id : Ids]),
         arrivals   : Seq([node : Ids \cup {Blank}]),
         crowdings  : Seq([node : Ids \cup {Blank}])]

\* app_data_init.
NoData == [l \in {"stops", "routes", "stations", "distances",
                  "facilities", "arrivals", "crowdings"} |-> <<>>]

NoMemory == /\ mayFail > 0
            /\ mayFail' = mayFail - 1
            /\ failed' = TRUE

Allocated == UNCHANGED <<mayFail, failed>>

\* find_stop_by_id, find_route_by_no, find_station_by_id: is it there?
HasId(list, id) == \E n \in DOMAIN list : list[n].id = id

HasRoute(no)    == \E n \in DOMAIN data.routes : data.routes[n].no = no
=============================================================================
