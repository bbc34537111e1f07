------------------------------ MODULE MCStartup ------------------------------
(***************************************************************************)
(* Small contents of data/ for Startup.  Clean ones vary what the graph is *)
(* made from: two stops, two stations, one of which may carry the id of a  *)
(* stop; routes that visit a pair twice or in both directions; distances   *)
(* given twice; stations within 3 km of a stop or not, and without         *)
(* coordinates.  Dirty ones vary what the loader has to cope with.         *)
(***************************************************************************)
EXTENDS Startup

CONSTANTS b1, b2, t1, t2, x1, r1, r2, m1

MCIds    == {b1, b2, t1, t2, x1}
MCRoutes == {r1, r2, m1, TRANSFER, SUBWAY}

\* Where a stop is, as its squared distances from here and there, where the stations
\* are: both within 3 km, one of them, neither with one nearer, neither with both as near.
Away  == {<<900, 9>>, <<901, 400>>, <<2501, 2500>>, <<901, 901>>}
here  == <<0, 9>>
there == <<9, 0>>

MCSpots  == Away \cup {here, there}
MCSquare == [p \in MCSpots |-> [q \in MCSpots |-> IF q = here THEN p[1] ELSE p[2]]]

Usable(rs) == [usable |-> TRUE, rows |-> rs]
Missing    == [usable |-> FALSE, rows |-> <<>>]

Stop(x, p)            == [id |-> x, at |-> p]
Route(r)              == [no |-> r]
Pass(r, n, x)         == [route |-> r, seq |-> n, stop |-> x]
Station(x, p, ls)     == [id |-> x, at |-> p, lines |-> ls]
Distance(x, y, l, km, min) == [from |-> x, to |-> y, line |-> l, km |-> km, minutes |-> min]

Files(stops, passes, stations, distances) ==
  [stops |-> Usable(stops), routes |-> Usable(<<Route(r1), Route(r2)>>), route_stops |-> Usable(passes),
   stations |-> Usable(stations), distances |-> Usable(distances),
   facilities |-> Usable(<<>>), arrivals |-> Usable(<<>>), crowdings |-> Usable(<<>>)]

-----------------------------------------------------------------------------
(* Clean files *)

PassLists == {<<Pass(r1, 1, b1), Pass(r1, 2, b2), Pass(r1, 3, b1)>>,
              <<Pass(r1, 1, b1), Pass(r2, 1, b2), Pass(r2, 2, b1)>>,
              <<Pass(r1, 1, b1), Pass(r1, 2, b2), Pass(r2, 1, b2), Pass(r2, 2, b2), Pass(r2, 3, b1)>>}

\* x1 is the id of no station.
DistanceLists == {<<>>, <<Distance(x1, t2, <<m1>>, 0, 7)>>,
                  <<Distance(t1, t2, <<m1>>, 0, 2), Distance(t2, t1, <<>>, 350, 0)>>}

StationLists(p1, p2) ==
  {<<Station(t2, p2, <<r2, m1>>), Station(t1, p1, <<m1, r2>>)>>,
   <<Station(b2, here, <<r1>>), Station(t1, p1, <<m1, r2>>), Station(t2, p2, <<r2, m1>>)>>}

Clean ==
  {Files(<<Stop(b2, p2), Stop(b1, p1)>>, ps, ss, ds) :
     p1 \in Away \cup {Nowhere}, p2 \in Away, ps \in PassLists, ds \in DistanceLists,
     ss \in UNION {StationLists(here, there), StationLists(Nowhere, there),
                   StationLists(Nowhere, Nowhere)}}

-----------------------------------------------------------------------------
(* Files the loader has to mend, and files with which memory runs out *)

Tidy == Files(<<Stop(b1, here), Stop(b2, there)>>,
              <<Pass(r1, 1, b1), Pass(r1, 2, b2), Pass(r2, 1, b2), Pass(r2, 2, b1)>>,
              <<Station(t1, here, <<m1>>), Station(t2, there, <<m1, r2>>)>>,
              <<Distance(t1, t2, <<m1>>, 540, 11)>>)

\* Ids that are blank or given twice, references to nothing, stops out of order and
\* with equal numbers, numbers that are blank, zero or negative.
Untidy ==
  [stops       |-> Usable(<<Stop(b1, here), Stop(Blank, here), Stop(b2, Nowhere), Stop(b1, there)>>),
   routes      |-> Usable(<<Route(r1), Route(Blank), Route(r2), Route(r1)>>),
   route_stops |-> Usable(<<Pass(r1, 2, b2), Pass(r1, 1, b1), Pass(r1, 2, b1), Pass(m1, 1, b1),
                            Pass(r1, 0, x1), Pass(r1, 2, b2), Pass(Blank, 1, b1), Pass(r2, -1, Blank),
                            Pass(r2, 0, b1), Pass(r2, -1, b2)>>),
   stations    |-> Usable(<<Station(t2, here, <<r2>>), Station(t1, Nowhere, <<>>),
                            Station(Blank, here, <<m1>>), Station(t2, there, <<m1>>)>>),
   distances   |-> Usable(<<Distance(t2, t1, <<>>, 124, 0), Distance(t1, t2, <<>>, -5, -3),
                            Distance(t1, b1, <<m1>>, 10, 1), Distance(Blank, t1, <<m1>>, 10, 1),
                            Distance(t1, t1, <<m1>>, 10, 1)>>),
   facilities  |-> Usable(<<[id |-> x1], [id |-> Blank], [id |-> x1]>>),
   arrivals    |-> Usable(<<[node |-> b1], [node |-> Blank], [node |-> b2]>>),
   crowdings   |-> Usable(<<[node |-> Blank]>>)]

Spoilt(f) ==
  {[f EXCEPT ![k] = Missing] : k \in DOMAIN f} \cup
  {[f EXCEPT ![k].rows = <<>>] : k \in DOMAIN f} \cup
  {[f EXCEPT ![k].rows = Tail(@)] : k \in {l \in DOMAIN f : f[l].rows # <<>>}}

MCScarce == {Tidy, Untidy}

MCFileSets == Clean \cup MCScarce \cup Spoilt(Tidy) \cup Spoilt(Untidy)
=============================================================================
