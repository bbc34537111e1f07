------------------------------ MODULE DataLoader ------------------------------
(***************************************************************************)
(* data_loader_load of src/server/data_loader.c up to the transfer graph:  *)
(* eight files are read one after the other, row by row, into the lists of *)
(* AppData (src/common/linked_list.c).                                     *)
(*                                                                         *)
(* A file is usable if it can be opened, has a header and, in the header,  *)
(* the columns that are required.  Its rows are what csv_parse_line and    *)
(* csv_get make of its lines: an id may be Blank, numbers that are blank   *)
(* or no numbers are 0, a blank line name is <<>>.  Kilometres are in      *)
(* hundredths.                                                             *)
(***************************************************************************)
EXTENDS AppData, Integers, FiniteSets

VARIABLES
  files,     \* the files
  reading,   \* number of the file that is read
  row,       \* number of the row that is next
  loaded,    \* rows of this file that count
  ok

loaderVars == <<files, reading, row, loaded, ok>>

Order == <<"stops", "routes", "route_stops", "stations", "distances",
           "facilities", "arrivals", "crowdings">>

Optional == {"facilities", "arrivals", "crowdings"}

File(Row) == [usable : BOOLEAN, rows : Seq(Row)]

Contents ==
  [stops       : File([id : Ids \cup {Blank}, at : Places]),
   routes      : File([no : Routes \cup {Blank}]),
   route_stops : File([route : Routes \cup {Blank}, seq : Int, stop : Ids \cup {Blank}]),
   stations    : File([id : Ids \cup {Blank}, at : Places, lines : Seq(Routes)]),
   distances   : File([from : Ids \cup {Blank}, to : Ids \cup {Blank},
                       line : Seq(Routes), km : Int, minutes : Int]),
   facilities  : File([id : Ids \cup {Blank}]),
   arrivals    : File([node : Ids \cup {Blank}]),
   crowdings   : File([node : Ids \cup {Blank}])]

AllRead == reading > Len(Order)

-----------------------------------------------------------------------------
(* linked_list.c *)

\* The list with a new node in front: stop_add and its likes.
WithFront(list, node) == [data EXCEPT ![list] = <<node>> \o @]

\* Mutant: a stop goes before those with the same number.
route_stop_add_Mut(stops, s) ==
  Keep(stops, {t \in Range(stops) : t.seq < s.seq}) \o <<s>>
    \o Keep(stops, {t \in Range(stops) : t.seq >= s.seq})

\* Before the first stop with a greater number; the stops are in order already.
route_stop_add(stops, s) ==
  Keep(stops, {t \in Range(stops) : t.seq <= s.seq}) \o <<s>>
    \o Keep(stops, {t \in Range(stops) : t.seq > s.seq})

-----------------------------------------------------------------------------
(* One turn of the loop over the rows of a file *)

\* A row that is not wanted is passed over.  Of one that is, a node is made; nobody
\* looks whether there was memory for it, and the row counts in any case.
Turn(wanted, result) ==
  /\ row' = row + 1
  /\ UNCHANGED <<files, reading, ok>>
  /\ \/ ~wanted /\ UNCHANGED <<data, loaded>> /\ Allocated
     \/ wanted /\ data' = result /\ loaded' = loaded + 1 /\ Allocated
     \/ wanted /\ UNCHANGED data /\ loaded' = loaded + 1 /\ NoMemory

At(file) == /\ ~AllRead
            /\ Order[reading] = file
            /\ files[file].usable
            /\ row <= Len(files[file].rows)

load_bus_stops ==
  /\ At("stops")
  /\ LET r == files.stops.rows[row]
     IN  Turn(r.id # Blank /\ ~HasId(data.stops, r.id), WithFront("stops", r))

load_bus_routes ==
  /\ At("routes")
  /\ LET r == files.routes.rows[row]
     IN  Turn(r.no # Blank /\ ~HasRoute(r.no), WithFront("routes", [no |-> r.no, stops |-> <<>>]))

\* Mutant: the stop is not looked for.
load_route_stops_Mut ==
  /\ At("route_stops")
  /\ LET r == files.route_stops.rows[row]
     IN  Turn(Blank \notin {r.route, r.stop} /\ HasRoute(r.route),
              [data EXCEPT !.routes = [n \in DOMAIN @ |->
                 IF @[n].no # r.route THEN @[n]
                 ELSE [no |-> r.route,
                       stops |-> route_stop_add(@[n].stops, [seq |-> r.seq, stop |-> r.stop])]]])

load_route_stops ==
  /\ At("route_stops")
  /\ LET r == files.route_stops.rows[row]
     IN  Turn(Blank \notin {r.route, r.stop} /\ HasRoute(r.route) /\ HasId(data.stops, r.stop),
              [data EXCEPT !.routes = [n \in DOMAIN @ |->
                 IF @[n].no # r.route THEN @[n]
                 ELSE [no |-> r.route,
                       stops |-> route_stop_add(@[n].stops, [seq |-> r.seq, stop |-> r.stop])]]])

load_subway_stations ==
  /\ At("stations")
  /\ LET r == files.stations.rows[row]
     IN  Turn(r.id # Blank /\ ~HasId(data.stations, r.id), WithFront("stations", r))

\* Two minutes a kilometre, rounded, and never less than two.
subway_minutes_from_distance(km) ==
  IF km <= 0 \/ (2 * km + 50) \div 100 < 2 THEN 2 ELSE (2 * km + 50) \div 100

\* What a row of distances says: without a line, that of the station it starts from;
\* without minutes, those that go with the kilometres.
DistanceOf(r) ==
  [from    |-> r.from,
   to      |-> r.to,
   line    |-> IF r.line # <<>> THEN r.line
               ELSE Head(Keep(data.stations, {s \in Range(data.stations) : s.id = r.from})).lines,
   minutes |-> IF r.minutes > 0 THEN r.minutes ELSE subway_minutes_from_distance(r.km)]

load_subway_distances ==
  /\ At("distances")
  /\ LET r == files.distances.rows[row]
     IN  Turn(/\ Blank \notin {r.from, r.to}
              /\ HasId(data.stations, r.from)
              /\ HasId(data.stations, r.to),
              WithFront("distances", DistanceOf(r)))

load_facilities ==
  /\ At("facilities")
  /\ LET r == files.facilities.rows[row]
     IN  Turn(r.id # Blank, WithFront("facilities", r))

load_arrivals ==
  /\ At("arrivals")
  /\ Turn(TRUE, WithFront("arrivals", files.arrivals.rows[row]))

load_crowdings ==
  /\ At("crowdings")
  /\ Turn(TRUE, WithFront("crowdings", files.crowdings.rows[row]))

-----------------------------------------------------------------------------
(* One file after the other *)

LoaderInit(f) == /\ files = f
                 /\ data = NoData
                 /\ reading = 1
                 /\ row = 1
                 /\ loaded = 0
                 /\ ok = TRUE

\* The file cannot be opened, or lacks its header or a column.
Unusable == /\ ~AllRead
            /\ ~files[Order[reading]].usable
            /\ ok' = FALSE
            /\ reading' = reading + 1
            /\ row' = 1
            /\ loaded' = 0
            /\ UNCHANGED <<files, data>>
            /\ Allocated

\* Of the files the paths are made from, some row must count.
EndOfFile == /\ ~AllRead
             /\ files[Order[reading]].usable
             /\ row > Len(files[Order[reading]].rows)
             /\ ok' = (ok /\ (loaded > 0 \/ Order[reading] \in Optional))
             /\ reading' = reading + 1
             /\ row' = 1
             /\ loaded' = 0
             /\ UNCHANGED <<files, data>>
             /\ Allocated

LoaderStep ==
  \/ load_bus_stops \/ load_bus_routes \/ load_route_stops \/ load_subway_stations
  \/ load_subway_distances \/ load_facilities \/ load_arrivals \/ load_crowdings
  \/ Unusable \/ EndOfFile

-----------------------------------------------------------------------------
(* Properties *)

LoaderTypeOK ==
  /\ data \in Load
  /\ files \in Contents
  /\ reading \in 1..(Len(Order) + 1)
  /\ row \in Nat \ {0}
  /\ loaded \in 0..(row - 1)
  /\ ok \in BOOLEAN
  /\ mayFail \in Nat
  /\ failed \in BOOLEAN

Nos(list) == {list[n].no : n \in DOMAIN list}
IdsOf(list) == {list[n].id : n \in DOMAIN list}

\* What the requests rely on, at every moment and even when memory runs out: an id
\* is listed once, a route runs in the order of its numbers over stops that are
\* listed, and a distance leads between stations that are listed and takes time.
SoundReferences ==
  /\ \A list \in {data.stops, data.stations} : Cardinality(IdsOf(list)) = Len(list)
  /\ Cardinality(Nos(data.routes)) = Len(data.routes)
  /\ \A n \in DOMAIN data.routes : \A j \in DOMAIN data.routes[n].stops :
       /\ data.routes[n].stops[j].stop \in IdsOf(data.stops)
       /\ j > 1 => data.routes[n].stops[j - 1].seq <= data.routes[n].stops[j].seq
  /\ \A n \in DOMAIN data.distances :
       /\ {data.distances[n].from, data.distances[n].to} \subseteq IdsOf(data.stations)
       /\ data.distances[n].minutes > 0

\* The rows that are read.
Rows(file) == IF files[file].usable THEN files[file].rows ELSE <<>>

\* The first of the rows 1..m to have their key, an id or a no.
FirstOfTheir(key, rows, m) ==
  {n \in 1..m : rows[n][key] # Blank /\ \A k \in 1..(n - 1) : rows[k][key] # rows[n][key]}

\* Which rows the entries of a list are of, if it has one for each of the rows ns, the last
\* one first: the order the lists are in.
LastFirst(list, ns) ==
  {at \in [DOMAIN list -> ns] : /\ Range(at) = ns
                                /\ \A i, j \in DOMAIN list : i < j => at[i] > at[j]}

Lists(list, rows, ns) == \E at \in LastFirst(list, ns) : \A i \in DOMAIN list : list[i] = rows[at[i]]

\* The stops of a route are those of the rows ns, by their numbers and then as they come.
RunsOver(stops, rows, ns) ==
  \E at \in [DOMAIN stops -> ns] :
    /\ Range(at) = ns
    /\ \A i, j \in DOMAIN stops : i < j =>
         \/ rows[at[i]].seq < rows[at[j]].seq
         \/ rows[at[i]].seq = rows[at[j]].seq /\ at[i] < at[j]
    /\ \A i \in DOMAIN stops : stops[i] = [seq |-> rows[at[i]].seq, stop |-> rows[at[i]].stop]

\* Those of the rows 1..m that say where a route stops.
StopsOf(no, rows, m) ==
  {n \in 1..m : rows[n].route = no /\ rows[n].stop \in IdsOf(Rows("stops")) \ {Blank}}

\* Those that lead from one station to another.
Connections(rows, m) ==
  {n \in 1..m : {rows[n].from, rows[n].to} \subseteq IdsOf(Rows("stations")) \ {Blank}}

\* A distance as a row has it: its line is that of the row, or all the lines the first row
\* of the station it starts from has; its minutes are those of the row, or two for each
\* kilometre, rounded, and at least two.
IsDistanceOf(d, r) ==
  /\ d.from = r.from /\ d.to = r.to
  /\ IF r.line # <<>> THEN d.line = r.line
     ELSE \E n \in DOMAIN Rows("stations") :
            /\ d.line = Rows("stations")[n].lines
            /\ Rows("stations")[n].id = r.from
            /\ \A m \in 1..(n - 1) : Rows("stations")[m].id # r.from
  /\ IF r.minutes > 0 THEN d.minutes = r.minutes
     ELSE \/ d.minutes = 2 /\ r.km < 125
          \/ d.minutes > 2 /\ 100 * d.minutes - 50 <= 2 * r.km /\ 2 * r.km < 100 * d.minutes + 50

\* The lists hold what the first rows of each file say, read[f] of them.
Hold(read) ==
  /\ \A f \in {"stops", "stations"} : Lists(data[f], Rows(f), FirstOfTheir("id", Rows(f), read[f]))
  /\ \E at \in LastFirst(data.routes, FirstOfTheir("no", Rows("routes"), read.routes)) :
       \A i \in DOMAIN data.routes :
         LET no == data.routes[i].no
         IN  /\ no = Rows("routes")[at[i]].no
             /\ RunsOver(data.routes[i].stops, Rows("route_stops"),
                         StopsOf(no, Rows("route_stops"), read.route_stops))
  /\ \E at \in LastFirst(data.distances, Connections(Rows("distances"), read.distances)) :
       \A i \in DOMAIN data.distances : IsDistanceOf(data.distances[i], Rows("distances")[at[i]])
  /\ Lists(data.facilities, Rows("facilities"),
           {n \in 1..read.facilities : Rows("facilities")[n].id # Blank})
  /\ \A f \in {"arrivals", "crowdings"} : Lists(data[f], Rows(f), 1..read[f])

\* A file that must not be empty has left something in the lists.
Filled(file) == IF file = "route_stops" THEN \E i \in DOMAIN data.routes : data.routes[i].stops # <<>>
                ELSE data[file] # <<>>

\* A load is good as far as this file goes.
Good(file) == files[file].usable /\ (file \in Optional \/ Filled(file))

\* Once all files are read, and if memory sufficed, the lists hold what the files
\* say: of every id the first row that has it, of every route the stops by their
\* numbers whatever the order of the rows, and the distances between stations that
\* exist; and the load is good if every file was usable and those that must not be
\* were not empty.
AgreesWithFiles ==
  AllRead /\ ~failed =>
    /\ Hold([f \in Range(Order) |-> Len(Rows(f))])
    /\ ok <=> \A f \in Range(Order) : Good(f)

-----------------------------------------------------------------------------
(* Why they hold: the inductive invariant *)

\* How many rows of a file have been read.
RowsRead(file) == IF \E k \in 1..(reading - 1) : Order[k] = file THEN Len(Rows(file))
                  ELSE IF ~AllRead /\ Order[reading] = file THEN row - 1
                  ELSE 0

\* The same of the rows read so far; rows of the file at hand count if they left something.
FilesInv ==
  /\ ~AllRead => row - 1 <= Len(Rows(Order[reading]))
  /\ ~failed =>
       /\ Hold([f \in Range(Order) |-> RowsRead(f)])
       /\ ok <=> \A k \in 1..(reading - 1) : Good(Order[k])
       /\ ~AllRead /\ Order[reading] \notin Optional => (loaded > 0 <=> Filled(Order[reading]))
=============================================================================
