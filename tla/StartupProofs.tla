----------------------------- MODULE StartupProofs -----------------------------
(***************************************************************************)
(* What is proved of Startup, for all files, whatever memory there is.     *)
(***************************************************************************)
EXTENDS Startup, BasicLemmas

-----------------------------------------------------------------------------
(* The lists *)

StopRow    == [id : Ids, at : Places]
Call       == [seq : Int, stop : Ids]
RouteRow   == [no : Routes, stops : Seq(Call)]
StationRow == [id : Ids, at : Places, lines : Seq(Routes)]
DistRow    == [from : Ids, to : Ids, minutes : Nat, line : Seq(Routes)]
NodeRow    == [node : Ids \cup {Blank}]

\* Load, with the rows named.
LEMMA LoadIs ==
  Load = [stops : Seq(StopRow), routes : Seq(RouteRow), stations : Seq(StationRow),
          distances : Seq(DistRow), facilities : Seq([id : Ids]),
          arrivals : Seq(NodeRow), crowdings : Seq(NodeRow)]
BY DEF Load, StopRow, RouteRow, StationRow, DistRow, NodeRow, Call

\* A list whose entries have a name each, with one more in front.  Field is "id" or "no".
NamesIn(list, field) == {list[n][field] : n \in DOMAIN list}

\* A list has finitely many names,
LEMMA NamesFinite ==
  ASSUME NEW S, NEW list \in Seq(S), NEW field
  PROVE  IsFiniteSet(NamesIn(list, field))
<1> DEFINE N == NamesIn(list, field)
           f == [n \in 1..Len(list) |-> list[n][field]]
<1>1. DOMAIN list = 1..Len(list) /\ Len(list) \in Nat
  BY LenProperties
<1>2. f \in Surjection(1..Len(list), N)
  BY <1>1 DEF Surjection, NamesIn
<1>3. IsFiniteSet(1..Len(list))
  BY <1>1, FS_Interval
<1> HIDE DEF f, N
<1>4. IsFiniteSet(N)
  BY <1>2, <1>3, FS_Surjection
<1> QED BY <1>4 DEF N

\* and a new row in front adds its own.
LEMMA NamesInFront ==
  ASSUME NEW S, NEW list \in Seq(S), NEW e \in S, NEW field
  PROVE  NamesIn(<<e>> \o list, field) = NamesIn(list, field) \cup {e[field]}
<1> DEFINE new == <<e>> \o list
<1>1. /\ new \in Seq(S) /\ Len(new) = Len(list) + 1 /\ new[1] = e
      /\ \A n \in 1..Len(list) : new[n + 1] = list[n]
  BY InFront
<1>2. DOMAIN list = 1..Len(list) /\ Len(list) \in Nat /\ DOMAIN new = 1..(Len(list) + 1)
  BY <1>1, LenProperties
<1> HIDE DEF new
<1>3. ASSUME NEW x \in NamesIn(new, field)
      PROVE  x \in NamesIn(list, field) \cup {e[field]}
  <2>1. PICK n \in 1..(Len(list) + 1) : x = new[n][field]
    BY <1>2 DEF NamesIn
  <2>2. CASE n = 1
    BY <2>1, <2>2, <1>1
  <2>3. CASE n # 1
    <3>1. n - 1 \in 1..Len(list) /\ n = (n - 1) + 1
      BY <2>3, <1>2
    <3>2. new[n] = list[n - 1]
      BY <3>1, <1>1
    <3> QED BY <2>1, <3>1, <3>2, <1>2 DEF NamesIn
  <2> QED BY <2>2, <2>3
<1>4. ASSUME NEW x \in NamesIn(list, field) \cup {e[field]}
      PROVE  x \in NamesIn(new, field)
  <2>1. CASE x = e[field]
    <3>1. 1 \in DOMAIN new
      BY <1>2
    <3> QED BY <2>1, <3>1, <1>1 DEF NamesIn
  <2>2. CASE x \in NamesIn(list, field)
    <3>1. PICK n \in 1..Len(list) : x = list[n][field]
      BY <2>2, <1>2 DEF NamesIn
    <3>2. n + 1 \in DOMAIN new /\ new[n + 1] = list[n]
      BY <1>1, <1>2
    <3> QED BY <3>1, <3>2 DEF NamesIn
  <2> QED BY <2>1, <2>2
<1>5. NamesIn(new, field) = NamesIn(list, field) \cup {e[field]}
  BY <1>3, <1>4
<1> QED BY <1>5 DEF new

\* If the names were different before, and the new one is none of them, they still are.
LEMMA StillDifferent ==
  ASSUME NEW S, NEW list \in Seq(S), NEW e \in S, NEW field,
         Cardinality(NamesIn(list, field)) = Len(list), e[field] \notin NamesIn(list, field)
  PROVE  Cardinality(NamesIn(<<e>> \o list, field)) = Len(<<e>> \o list)
<1>1. NamesIn(<<e>> \o list, field) = NamesIn(list, field) \cup {e[field]}
  BY NamesInFront
<1>2. Len(<<e>> \o list) = Len(list) + 1
  BY InFront
<1>3. Cardinality(NamesIn(list, field) \cup {e[field]}) = Cardinality(NamesIn(list, field)) + 1
  BY NamesFinite, FS_AddElement
<1> QED BY <1>1, <1>2, <1>3

\* SoundReferences in parts.
Runs(stops, ids) ==
  \A j \in DOMAIN stops : /\ stops[j].stop \in ids
                          /\ j > 1 => stops[j - 1].seq <= stops[j].seq

SoundIds(list) == Cardinality(NamesIn(list, "id")) = Len(list)

SoundRoutes(routes, ids) ==
  /\ Cardinality(NamesIn(routes, "no")) = Len(routes)
  /\ \A n \in DOMAIN routes : Runs(routes[n].stops, ids)

SoundDistances(distances, ids) ==
  \A n \in DOMAIN distances : /\ distances[n].from \in ids /\ distances[n].to \in ids
                              /\ distances[n].minutes > 0

SoundData(d) ==
  /\ SoundIds(d.stops) /\ SoundIds(d.stations)
  /\ SoundRoutes(d.routes, NamesIn(d.stops, "id"))
  /\ SoundDistances(d.distances, NamesIn(d.stations, "id"))

\* SoundReferences, of lists as they are and as they will be.
LEMMA SoundParts ==
  /\ SoundReferences <=> SoundData(data)
  /\ SoundReferences' <=> SoundData(data')
BY DEF SoundReferences, SoundData, SoundIds, SoundRoutes, SoundDistances, Runs, NamesIn, IdsOf, Nos

\* route_stop_add keeps a route in the order of its numbers: those kept on either side
\* of the new stop are in order, and its number lies between theirs.
LEMMA OrderIsTransitive ==
  ASSUME NEW stops \in Seq(Call), NEW ids, Runs(stops, ids)
  PROVE  \A i, j \in 1..Len(stops) : i < j => stops[i].seq <= stops[j].seq
<1>1. DOMAIN stops = 1..Len(stops) /\ Len(stops) \in Nat /\ \A i \in 1..Len(stops) : stops[i] \in Call
  BY LenProperties, ElementOfSeq
<1> SUFFICES ASSUME NEW i \in 1..Len(stops)
             PROVE  \A j \in 1..Len(stops) : i < j => stops[i].seq <= stops[j].seq
  OBVIOUS
<1> DEFINE Q == {j \in 1..Len(stops) : i < j /\ ~ (stops[i].seq <= stops[j].seq)}
<1> SUFFICES ASSUME Q # {} PROVE FALSE
  OBVIOUS
<1>2. PICK j \in Q : j - 1 \notin Q
  <2>1. Q \subseteq 0..Len(stops)
    BY <1>1
  <2> HIDE DEF Q
  <2> QED BY <2>1, <1>1, LeastOf
<1>3. j \in 1..Len(stops) /\ i < j /\ ~ (stops[i].seq <= stops[j].seq)
  OBVIOUS
<1>4. j > 1 /\ j - 1 \in 1..Len(stops) /\ (j - 1 = i \/ i < j - 1)
  BY <1>1, <1>3
<1>5. stops[j - 1].seq <= stops[j].seq
  BY <1>1, <1>3, <1>4 DEF Runs
<1>6. stops[i].seq \in Int /\ stops[j - 1].seq \in Int /\ stops[j].seq \in Int
  BY <1>1, <1>3, <1>4 DEF Call
<1>7. j - 1 = i \/ stops[i].seq <= stops[j - 1].seq
  BY <1>2, <1>4
<1> QED BY <1>3, <1>5, <1>6, <1>7

\* What is kept of a route runs as it did.
LEMMA KeptRuns ==
  ASSUME NEW stops \in Seq(Call), NEW ids, Runs(stops, ids), NEW T
  PROVE  /\ Keep(stops, T) \in Seq(Call)
         /\ Runs(Keep(stops, T), ids)
         /\ \A i \in 1..Len(Keep(stops, T)) : Keep(stops, T)[i] \in T
<1> DEFINE k == Keep(stops, T)
<1>1. k \in Seq(Call \cap T)
  BY KeepFacts
<1>2. PICK at : KeptAt(k, stops, T, at)
  BY KeepFacts
<1> HIDE DEF k
<1>3. /\ DOMAIN k = 1..Len(k) /\ Len(k) \in Nat /\ \A i \in 1..Len(k) : k[i] \in Call \cap T
      /\ DOMAIN stops = 1..Len(stops)
  BY <1>1, LenProperties, ElementOfSeq
<1>4. k \in Seq(Call)
  BY <1>1, SeqMonotonic
<1>5. \A i, j \in 1..Len(stops) : i < j => stops[i].seq <= stops[j].seq
  BY OrderIsTransitive
<1>6. ASSUME NEW j \in 1..Len(k)
      PROVE  k[j].stop \in ids /\ (j > 1 => k[j - 1].seq <= k[j].seq)
  <2>1. at[j] \in 1..Len(stops) /\ k[j] = stops[at[j]]
    BY <1>2 DEF KeptAt
  <2>2. k[j].stop \in ids
    BY <2>1, <1>3 DEF Runs
  <2>3. ASSUME j > 1
        PROVE  k[j - 1].seq <= k[j].seq
    <3>1. j - 1 \in 1..Len(k) /\ j - 1 < j
      BY <2>3, <1>3
    <3>2. at[j - 1] \in 1..Len(stops) /\ k[j - 1] = stops[at[j - 1]] /\ at[j - 1] < at[j]
      BY <3>1, <1>2 DEF KeptAt
    <3> QED BY <2>1, <3>2, <1>5
  <2> QED BY <2>2, <2>3
<1>7. Runs(k, ids)
  BY <1>3, <1>6 DEF Runs
<1> QED BY <1>3, <1>4, <1>7 DEF k

\* Two routes, one behind the other, run as one if the second is nowhere before the first.
LEMMA BothRun ==
  ASSUME NEW s \in Seq(Call), NEW t \in Seq(Call), NEW ids, Runs(s, ids), Runs(t, ids),
         \A i \in 1..Len(s) : \A j \in 1..Len(t) : s[i].seq <= t[j].seq
  PROVE  Runs(s \o t, ids)
<1> DEFINE c == s \o t
<1>1. /\ c \in Seq(Call) /\ Len(c) = Len(s) + Len(t)
      /\ \A i \in 1..Len(s) : c[i] = s[i]
      /\ \A i \in 1..Len(t) : c[Len(s) + i] = t[i]
  BY ConcatTwo
<1>2. /\ DOMAIN s = 1..Len(s) /\ Len(s) \in Nat /\ DOMAIN t = 1..Len(t) /\ Len(t) \in Nat
      /\ DOMAIN c = 1..(Len(s) + Len(t))
  BY <1>1, LenProperties
<1> HIDE DEF c
<1>3. ASSUME NEW j \in 1..(Len(s) + Len(t))
      PROVE  c[j].stop \in ids /\ (j > 1 => c[j - 1].seq <= c[j].seq)
  <2>1. CASE j <= Len(s)
    <3>1. j \in 1..Len(s) /\ c[j] = s[j] /\ (j > 1 => j - 1 \in 1..Len(s))
      BY <2>1, <1>1, <1>2
    <3>2. j > 1 => c[j - 1] = s[j - 1]
      BY <3>1, <1>1
    <3> QED BY <3>1, <3>2, <1>2 DEF Runs
  <2>2. CASE j = Len(s) + 1
    <3>1. 1 \in 1..Len(t) /\ c[j] = t[1]
      BY <2>2, <1>1, <1>2
    <3>2. j > 1 => j - 1 \in 1..Len(s) /\ c[j - 1] = s[j - 1]
      BY <2>2, <1>1, <1>2
    <3> QED BY <3>1, <3>2, <1>2 DEF Runs
  <2>3. CASE j > Len(s) + 1
    <3> DEFINE i == j - Len(s)
    <3>1. i \in 1..Len(t) /\ i - 1 \in 1..Len(t) /\ i > 1 /\ j = Len(s) + i /\ j - 1 = Len(s) + (i - 1)
      BY <2>3, <1>2
    <3> HIDE DEF i
    <3>2. c[j] = t[i] /\ c[j - 1] = t[i - 1]
      BY <3>1, <1>1
    <3> QED BY <3>1, <3>2, <1>2 DEF Runs
  <2> QED BY <2>1, <2>2, <2>3, <1>2
<1>4. Runs(c, ids)
  BY <1>2, <1>3 DEF Runs
<1> QED BY <1>4 DEF c

\* A stop that is listed may be added to a route.
LEMMA StopAdded ==
  ASSUME NEW stops \in Seq(Call), NEW ids, Runs(stops, ids), NEW s \in Call, s.stop \in ids
  PROVE  route_stop_add(stops, s) \in Seq(Call) /\ Runs(route_stop_add(stops, s), ids)
<1> DEFINE low  == {t \in Range(stops) : t.seq <= s.seq}
           high == {t \in Range(stops) : t.seq > s.seq}
           a == Keep(stops, low)
           b == Keep(stops, high)
           one == <<s>>
<1>1. a \in Seq(Call) /\ Runs(a, ids) /\ \A i \in 1..Len(a) : a[i] \in low
  BY KeptRuns
<1>2. b \in Seq(Call) /\ Runs(b, ids) /\ \A i \in 1..Len(b) : b[i] \in high
  BY KeptRuns
<1>3. one \in Seq(Call) /\ Len(one) = 1 /\ one[1] = s /\ DOMAIN one = 1..1
  OBVIOUS
<1>4. Runs(one, ids)
  BY <1>3 DEF Runs
<1>5. \A i \in 1..Len(a) : a[i].seq <= s.seq
  BY <1>1
<1>6. \A i \in 1..Len(b) : s.seq <= b[i].seq
  <2> TAKE i \in 1..Len(b)
  <2>1. b[i] \in Range(stops) /\ b[i].seq > s.seq
    BY <1>2
  <2>2. b[i].seq \in Int /\ s.seq \in Int
    <3>1. b[i] \in Call
      BY <1>2, ElementOfSeq
    <3> QED BY <3>1 DEF Call
  <2> QED BY <2>1, <2>2
<1>7. route_stop_add(stops, s) = (a \o one) \o b
  BY DEF route_stop_add
<1> HIDE DEF one, a, b
<1>8. \A i \in 1..Len(a) : \A j \in 1..Len(one) : a[i].seq <= one[j].seq
  BY <1>3, <1>5
<1>9. a \o one \in Seq(Call) /\ Runs(a \o one, ids)
  BY <1>1, <1>3, <1>4, <1>8, ConcatTwo, BothRun
<1>10. \A i \in 1..Len(a \o one) : (a \o one)[i].seq <= s.seq
  <2> TAKE i \in 1..Len(a \o one)
  <2>1. /\ Len(a \o one) = Len(a) + Len(one)
        /\ (a \o one)[Len(a) + 1] = one[1]
        /\ Len(a) \in Nat
    <3>1. 1 \in 1..Len(one)
      BY <1>3
    <3>2. Len(a \o one) = Len(a) + Len(one)
      BY <1>1, <1>3, ConcatTwo
    <3>3. Len(a) \in Nat
      BY <1>1, LenProperties
    <3>4. /\ Len(a) + 1 \in 1..(Len(a) + Len(one))
          /\ ~ (Len(a) + 1 <= Len(a)) /\ (Len(a) + 1) - Len(a) = 1
      BY <3>3, <1>3
    <3>5. \A j \in 1..(Len(a) + Len(one)) :
            (a \o one)[j] = IF j <= Len(a) THEN a[j] ELSE one[j - Len(a)]
      BY <1>1, <1>3, ConcatProperties
    <3>6. (a \o one)[Len(a) + 1] = one[1]
      BY <3>4, <3>5
    <3> QED BY <3>2, <3>3, <3>6
  <2>2. CASE i \in 1..Len(a)
    BY <2>2, <1>1, <1>3, <1>5, ConcatTwo
  <2>3. CASE i = Len(a) + 1
    BY <2>1, <2>3, <1>3 DEF Call
  <2> QED BY <2>1, <2>2, <2>3, <1>3
<1>11. \A i \in 1..Len(a \o one) : \A j \in 1..Len(b) : (a \o one)[i].seq <= b[j].seq
  <2> TAKE i \in 1..Len(a \o one)
  <2> TAKE j \in 1..Len(b)
  <2>1. (a \o one)[i] \in Call /\ b[j] \in Call
    BY <1>2, <1>9, ElementOfSeq
  <2>2. (a \o one)[i].seq \in Int /\ b[j].seq \in Int /\ s.seq \in Int
    BY <2>1 DEF Call
  <2>3. (a \o one)[i].seq <= s.seq /\ s.seq <= b[j].seq
    BY <1>6, <1>10
  <2> QED BY <2>2, <2>3
<1>12. (a \o one) \o b \in Seq(Call) /\ Runs((a \o one) \o b, ids)
  BY <1>2, <1>9, <1>11, ConcatTwo, BothRun
<1> QED BY <1>7, <1>12

-----------------------------------------------------------------------------
(* A turn of the loop over the rows *)

\* It is enough to look at the data a wanted row leads to.
LEMMA TurnSound ==
  ASSUME LoaderTypeOK, SoundReferences, NEW wanted \in BOOLEAN, NEW result,
         Turn(wanted, result), wanted => result \in Load /\ SoundData(result)
  PROVE  LoaderTypeOK' /\ SoundReferences'
<1>1. /\ data \in Load /\ SoundData(data) /\ row \in Nat \ {0} /\ loaded \in 0..(row - 1)
      /\ mayFail \in Nat /\ failed \in BOOLEAN
  BY SoundParts DEF LoaderTypeOK
<1>2. /\ row' = row + 1 /\ UNCHANGED <<files, reading, ok>>
      /\ data' \in {data, result} /\ (data' # data => wanted)
      /\ loaded' \in {loaded, loaded + 1}
      /\ (NoMemory \/ Allocated)
  BY DEF Turn
<1>3. data' \in Load /\ SoundData(data')
  BY <1>1, <1>2
<1>4. mayFail' \in Nat /\ failed' \in BOOLEAN
  <2>1. CASE NoMemory
    BY <2>1, <1>1 DEF NoMemory
  <2>2. CASE Allocated
    BY <2>2, <1>1 DEF Allocated
  <2> QED BY <2>1, <2>2, <1>2
<1>5. row' \in Nat \ {0} /\ loaded' \in 0..(row' - 1)
  BY <1>1, <1>2
<1>6. LoaderTypeOK'
  BY <1>2, <1>3, <1>4, <1>5 DEF LoaderTypeOK
<1> QED BY <1>3, <1>6, SoundParts

\* The row that is read is one of the file.
LEMMA RowOf ==
  ASSUME LoaderTypeOK, NEW Row, NEW file,
         files[file] \in [usable : BOOLEAN, rows : Seq(Row)], At(file)
  PROVE  files[file].rows[row] \in Row
<1>1. files[file].rows \in Seq(Row) /\ row \in Nat \ {0} /\ row <= Len(files[file].rows)
  BY DEF At, LoaderTypeOK
<1>2. row \in 1..Len(files[file].rows)
  BY <1>1, LenProperties
<1> QED BY <1>1, <1>2, ElementOfSeq

\* The lists and their rows.
LEMMA DataLists ==
  ASSUME NEW d \in Load
  PROVE  /\ d.stops \in Seq(StopRow) /\ d.routes \in Seq(RouteRow) /\ d.stations \in Seq(StationRow)
         /\ d.distances \in Seq(DistRow) /\ d.facilities \in Seq([id : Ids])
         /\ d.arrivals \in Seq(NodeRow) /\ d.crowdings \in Seq(NodeRow)
BY LoadIs

\* With more stops and stations, what was sound still is.
LEMMA SoundWithMoreStops ==
  ASSUME NEW routes, NEW ids, NEW more, ids \subseteq more, SoundRoutes(routes, ids)
  PROVE  SoundRoutes(routes, more)
BY DEF SoundRoutes, Runs

\* The same of stations and distances.
LEMMA SoundWithMoreStations ==
  ASSUME NEW distances, NEW ids, NEW more, ids \subseteq more, SoundDistances(distances, ids)
  PROVE  SoundDistances(distances, more)
BY DEF SoundDistances

\* load_bus_stops: an id that is new goes in front.
LEMMA BusStopLoaded ==
  ASSUME LoaderTypeOK, SoundReferences, load_bus_stops
  PROVE  LoaderTypeOK' /\ SoundReferences'
<1> DEFINE r == files.stops.rows[row]
           wanted == r.id # Blank /\ ~HasId(data.stops, r.id)
           result == WithFront("stops", r)
<1>1. data \in Load /\ SoundData(data) /\ files \in Contents
  BY SoundParts DEF LoaderTypeOK
<1>2. Turn(wanted, result)
  BY DEF load_bus_stops
<1>3. r \in [id : Ids \cup {Blank}, at : Places]
  <2>1. files["stops"] \in [usable : BOOLEAN, rows : Seq([id : Ids \cup {Blank}, at : Places])]
    BY <1>1 DEF Contents, File
  <2>2. At("stops")
    BY DEF load_bus_stops
  <2> QED BY <2>1, <2>2, RowOf
<1> HIDE DEF r
<1>4. ASSUME wanted
      PROVE  result \in Load /\ SoundData(result)
  <2>1. r \in StopRow
    BY <1>3, <1>4 DEF StopRow
  <2>2. <<r>> \o data.stops \in Seq(StopRow)
    BY <1>1, <2>1, DataLists, InFront
  <2>3. result = [data EXCEPT !.stops = <<r>> \o data.stops]
    BY DEF WithFront
  <2> HIDE DEF result
  <2>4. /\ result.stops = <<r>> \o data.stops /\ result.stations = data.stations
        /\ result.routes = data.routes /\ result.distances = data.distances
    BY <1>1, <2>3, LoadIs
  <2>5. result \in Load
    BY <1>1, <2>2, <2>3, LoadIs
  <2>6. r["id"] \notin NamesIn(data.stops, "id")
    BY <1>4 DEF HasId, NamesIn
  <2>7. SoundIds(result.stops)
    BY <1>1, <2>1, <2>4, <2>6, DataLists, StillDifferent DEF SoundData, SoundIds
  <2>8. NamesIn(data.stops, "id") \subseteq NamesIn(result.stops, "id")
    BY <1>1, <2>1, <2>4, DataLists, NamesInFront
  <2>9. SoundRoutes(result.routes, NamesIn(result.stops, "id"))
    BY <1>1, <2>4, <2>8, SoundWithMoreStops DEF SoundData
  <2> QED BY <1>1, <2>4, <2>5, <2>7, <2>9 DEF SoundData
<1>5. wanted \in BOOLEAN
  OBVIOUS
<1> HIDE DEF wanted, result
<1> QED BY <1>2, <1>4, <1>5, TurnSound

\* load_subway_stations: the same.
LEMMA StationLoaded ==
  ASSUME LoaderTypeOK, SoundReferences, load_subway_stations
  PROVE  LoaderTypeOK' /\ SoundReferences'
<1> DEFINE r == files.stations.rows[row]
           wanted == r.id # Blank /\ ~HasId(data.stations, r.id)
           result == WithFront("stations", r)
           Row == [id : Ids \cup {Blank}, at : Places, lines : Seq(Routes)]
<1>1. data \in Load /\ SoundData(data) /\ files \in Contents
  BY SoundParts DEF LoaderTypeOK
<1>2. Turn(wanted, result)
  BY DEF load_subway_stations
<1>3. r \in Row
  <2>1. files["stations"] \in [usable : BOOLEAN, rows : Seq(Row)]
    BY <1>1 DEF Contents, File
  <2>2. At("stations")
    BY DEF load_subway_stations
  <2> QED BY <2>1, <2>2, RowOf
<1> HIDE DEF r
<1>4. ASSUME wanted
      PROVE  result \in Load /\ SoundData(result)
  <2>1. r \in StationRow
    BY <1>3, <1>4 DEF StationRow
  <2>2. <<r>> \o data.stations \in Seq(StationRow)
    BY <1>1, <2>1, DataLists, InFront
  <2>3. result = [data EXCEPT !.stations = <<r>> \o data.stations]
    BY DEF WithFront
  <2> HIDE DEF result
  <2>4. /\ result.stations = <<r>> \o data.stations /\ result.stops = data.stops
        /\ result.routes = data.routes /\ result.distances = data.distances
    BY <1>1, <2>3, LoadIs
  <2>5. result \in Load
    BY <1>1, <2>2, <2>3, LoadIs
  <2>6. r["id"] \notin NamesIn(data.stations, "id")
    BY <1>4 DEF HasId, NamesIn
  <2>7. SoundIds(result.stations)
    BY <1>1, <2>1, <2>4, <2>6, DataLists, StillDifferent DEF SoundData, SoundIds
  <2>8. NamesIn(data.stations, "id") \subseteq NamesIn(result.stations, "id")
    BY <1>1, <2>1, <2>4, DataLists, NamesInFront
  <2>9. SoundDistances(result.distances, NamesIn(result.stations, "id"))
    BY <1>1, <2>4, <2>8, SoundWithMoreStations DEF SoundData
  <2> QED BY <1>1, <2>4, <2>5, <2>7, <2>9 DEF SoundData
<1>5. wanted \in BOOLEAN
  OBVIOUS
<1> HIDE DEF wanted, result
<1> QED BY <1>2, <1>4, <1>5, TurnSound

\* load_bus_routes: a route that is new has no stops yet.
LEMMA RouteLoaded ==
  ASSUME LoaderTypeOK, SoundReferences, load_bus_routes
  PROVE  LoaderTypeOK' /\ SoundReferences'
<1> DEFINE r == files.routes.rows[row]
           wanted == r.no # Blank /\ ~HasRoute(r.no)
           new == [no |-> r.no, stops |-> <<>>]
           result == WithFront("routes", new)
           Row == [no : Routes \cup {Blank}]
<1>1. data \in Load /\ SoundData(data) /\ files \in Contents
  BY SoundParts DEF LoaderTypeOK
<1>2. Turn(wanted, result)
  BY DEF load_bus_routes
<1>3. r \in Row
  <2>1. files["routes"] \in [usable : BOOLEAN, rows : Seq(Row)]
    BY <1>1 DEF Contents, File
  <2>2. At("routes")
    BY DEF load_bus_routes
  <2> QED BY <2>1, <2>2, RowOf
<1> HIDE DEF r
<1>4. ASSUME wanted
      PROVE  result \in Load /\ SoundData(result)
  <2>1. new \in RouteRow /\ new.no = r.no /\ new.stops = <<>>
    BY <1>3, <1>4 DEF RouteRow
  <2>2. result = [data EXCEPT !.routes = <<new>> \o data.routes]
    BY DEF WithFront
  <2>3. new["no"] \notin NamesIn(data.routes, "no")
    BY <1>4, <2>1 DEF HasRoute, NamesIn
  <2> HIDE DEF result, new
  <2>4. data.routes \in Seq(RouteRow)
    BY <1>1, DataLists
  <2>5. /\ <<new>> \o data.routes \in Seq(RouteRow)
        /\ Range(<<new>> \o data.routes) = Range(data.routes) \cup {new}
    BY <2>1, <2>4, InFront
  <2>6. /\ result.routes = <<new>> \o data.routes /\ result.stops = data.stops
        /\ result.stations = data.stations /\ result.distances = data.distances
    BY <1>1, <2>2, LoadIs
  <2>7. result \in Load
    BY <1>1, <2>5, <2>2, LoadIs
  <2>8. Cardinality(NamesIn(result.routes, "no")) = Len(result.routes)
    BY <1>1, <2>1, <2>3, <2>4, <2>6, StillDifferent DEF SoundData, SoundRoutes
  <2>9. \A n \in DOMAIN result.routes : Runs(result.routes[n].stops, NamesIn(data.stops, "id"))
    <3> TAKE n \in DOMAIN result.routes
    <3>1. result.routes[n] \in Range(data.routes) \cup {new}
      BY <2>5, <2>6 DEF Range
    <3>2. CASE result.routes[n] = new
      <4>1. DOMAIN <<>> = {}
        OBVIOUS
      <4> QED BY <3>2, <2>1, <4>1 DEF Runs
    <3>3. CASE result.routes[n] \in Range(data.routes)
      BY <3>3, <1>1 DEF SoundData, SoundRoutes, Range
    <3> QED BY <3>1, <3>2, <3>3
  <2> QED BY <1>1, <2>6, <2>7, <2>8, <2>9 DEF SoundData, SoundRoutes
<1>5. wanted \in BOOLEAN
  OBVIOUS
<1> HIDE DEF wanted, result
<1> QED BY <1>2, <1>4, <1>5, TurnSound

\* load_route_stops: a stop that is listed comes to where its number belongs.
LEMMA RouteStopLoaded ==
  ASSUME LoaderTypeOK, SoundReferences, load_route_stops
  PROVE  LoaderTypeOK' /\ SoundReferences'
<1> DEFINE r == files.route_stops.rows[row]
           wanted == Blank \notin {r.route, r.stop} /\ HasRoute(r.route) /\ HasId(data.stops, r.stop)
           call == [seq |-> r.seq, stop |-> r.stop]
           routes == [n \in DOMAIN data.routes |->
                        IF data.routes[n].no # r.route THEN data.routes[n]
                        ELSE [no |-> r.route, stops |-> route_stop_add(data.routes[n].stops, call)]]
           result == [data EXCEPT !.routes = routes]
           Row == [route : Routes \cup {Blank}, seq : Int, stop : Ids \cup {Blank}]
           ids == NamesIn(data.stops, "id")
<1>1. data \in Load /\ SoundData(data) /\ files \in Contents
  BY SoundParts DEF LoaderTypeOK
<1>2. Turn(wanted, result)
  BY DEF load_route_stops
<1>3. r \in Row
  <2>1. files["route_stops"] \in [usable : BOOLEAN, rows : Seq(Row)]
    BY <1>1 DEF Contents, File
  <2>2. At("route_stops")
    BY DEF load_route_stops
  <2> QED BY <2>1, <2>2, RowOf
<1> HIDE DEF r
<1>4. ASSUME wanted
      PROVE  result \in Load /\ SoundData(result)
  <2>1. call \in Call /\ call.stop = r.stop /\ r.route \in Routes
    BY <1>3, <1>4 DEF Call
  <2>2. call.stop \in ids
    BY <1>4, <2>1 DEF HasId, NamesIn
  <2> HIDE DEF call
  <2>3. data.routes \in Seq(RouteRow) /\ DOMAIN data.routes = 1..Len(data.routes) /\ Len(data.routes) \in Nat
    BY <1>1, DataLists, LenProperties
  <2>4. ASSUME NEW n \in 1..Len(data.routes)
        PROVE  routes[n] \in RouteRow /\ routes[n].no = data.routes[n].no /\ Runs(routes[n].stops, ids)
    <3>1. data.routes[n] \in RouteRow
      BY <2>3, ElementOfSeq
    <3>2. data.routes[n].stops \in Seq(Call) /\ data.routes[n].no \in Routes
      BY <3>1 DEF RouteRow
    <3>3. Runs(data.routes[n].stops, ids)
      BY <1>1, <2>3 DEF SoundData, SoundRoutes
    <3>4. CASE data.routes[n].no # r.route
      <4>1. routes[n] = data.routes[n]
        BY <3>4, <2>3
      <4> QED BY <4>1, <3>1, <3>3
    <3>5. CASE data.routes[n].no = r.route
      <4> DEFINE stops == route_stop_add(data.routes[n].stops, call)
      <4>1. routes[n] = [no |-> r.route, stops |-> stops]
        BY <3>5, <2>3
      <4>2. stops \in Seq(Call) /\ Runs(stops, ids)
        BY <2>1, <2>2, <3>2, <3>3, StopAdded
      <4> HIDE DEF stops, routes
      <4>3. routes[n].no = r.route /\ routes[n].stops = stops
        BY <4>1
      <4>4. routes[n] \in RouteRow
        BY <4>1, <4>2, <2>1 DEF RouteRow
      <4> QED BY <4>2, <4>3, <4>4, <3>5
    <3> QED BY <3>4, <3>5
  <2>5. DOMAIN routes = 1..Len(data.routes) /\ routes = [n \in 1..Len(data.routes) |-> routes[n]]
    BY <2>3
  <2> HIDE DEF routes
  <2>6. routes \in Seq(RouteRow) /\ Len(routes) = Len(data.routes)
    <3>1. routes \in [1..Len(data.routes) -> RouteRow]
      BY <2>4, <2>5
    <3> QED BY <3>1, <2>3, SeqDef, LenProperties
  <2>7. /\ result.routes = routes /\ result.stops = data.stops
        /\ result.stations = data.stations /\ result.distances = data.distances
        /\ result \in Load
    BY <1>1, <2>6, LoadIs
  <2>8. NamesIn(routes, "no") = NamesIn(data.routes, "no")
    BY <2>3, <2>4, <2>5 DEF NamesIn
  <2>9. SoundRoutes(routes, ids)
    BY <1>1, <2>4, <2>5, <2>6, <2>8 DEF SoundData, SoundRoutes
  <2> HIDE DEF result
  <2> QED BY <1>1, <2>7, <2>9 DEF SoundData
<1>5. wanted \in BOOLEAN
  BY DEF HasRoute, HasId
<1> HIDE DEF wanted, result
<1> QED BY <1>2, <1>4, <1>5, TurnSound

\* Two minutes a kilometre, or more than that.
LEMMA MinutesPositive ==
  ASSUME NEW km \in Int
  PROVE  subway_minutes_from_distance(km) \in Nat \ {0}
<1> DEFINE m == (2 * km + 50) \div 100
<1>1. m \in Int
  OBVIOUS
<1>2. subway_minutes_from_distance(km) = IF km <= 0 \/ m < 2 THEN 2 ELSE m
  BY DEF subway_minutes_from_distance
<1> HIDE DEF m
<1> QED BY <1>1, <1>2

\* What DistanceOf makes of a row.
LEMMA DistanceTyped ==
  ASSUME data.stations \in Seq(StationRow), NEW r, HasId(data.stations, r.from),
         r.from \in Ids, r.to \in Ids, r.line \in Seq(Routes), r.km \in Int, r.minutes \in Int
  PROVE  /\ DistanceOf(r) \in DistRow
         /\ DistanceOf(r).from = r.from /\ DistanceOf(r).to = r.to /\ DistanceOf(r).minutes > 0
<1> DEFINE those == {s \in Range(data.stations) : s.id = r.from}
           k == Keep(data.stations, those)
           first == Head(k)
           new == DistanceOf(r)
<1>1. those # {} /\ those \subseteq Range(data.stations)
  <2>1. PICK n \in DOMAIN data.stations : data.stations[n].id = r.from
    BY DEF HasId
  <2> QED BY <2>1 DEF Range
<1>2. new = [from |-> r.from, to |-> r.to, line |-> IF r.line # <<>> THEN r.line ELSE first.lines,
             minutes |-> IF r.minutes > 0 THEN r.minutes ELSE subway_minutes_from_distance(r.km)]
  BY DEF DistanceOf
<1> HIDE DEF those, first, new
<1>3. k \in Seq(StationRow \cap those) /\ Range(k) = Range(data.stations) \cap those
  BY KeepFacts, KeepRange
<1>4. Range(k) # {}
  BY <1>1, <1>3
<1>5. k \in Seq(StationRow)
  BY <1>3, SeqMonotonic
<1> HIDE DEF k
<1>6. k # <<>>
  BY <1>4, <1>5, RangeOf
<1>7. first \in StationRow
  BY <1>5, <1>6, HeadTailProperties DEF first
<1>8. first.lines \in Seq(Routes)
  BY <1>7 DEF StationRow
<1>9. subway_minutes_from_distance(r.km) \in Nat \ {0}
  BY MinutesPositive
<1>10. (IF r.minutes > 0 THEN r.minutes ELSE subway_minutes_from_distance(r.km)) \in Nat \ {0}
  BY <1>9
<1>11. (IF r.line # <<>> THEN r.line ELSE first.lines) \in Seq(Routes)
  BY <1>8
<1>12. new.from = r.from /\ new.to = r.to /\ new.minutes \in Nat \ {0} /\ new \in DistRow
  BY <1>2, <1>10, <1>11 DEF DistRow
<1> QED BY <1>12 DEF new

\* load_subway_distances: between stations that are listed, and with positive minutes.
LEMMA DistanceLoaded ==
  ASSUME LoaderTypeOK, SoundReferences, load_subway_distances
  PROVE  LoaderTypeOK' /\ SoundReferences'
<1> DEFINE r == files.distances.rows[row]
           wanted == /\ Blank \notin {r.from, r.to}
                     /\ HasId(data.stations, r.from)
                     /\ HasId(data.stations, r.to)
           new == DistanceOf(r)
           result == WithFront("distances", new)
           Row == [from : Ids \cup {Blank}, to : Ids \cup {Blank},
                   line : Seq(Routes), km : Int, minutes : Int]
           ids == NamesIn(data.stations, "id")
<1>1. data \in Load /\ SoundData(data) /\ files \in Contents
  BY SoundParts DEF LoaderTypeOK
<1>2. Turn(wanted, result)
  BY DEF load_subway_distances
<1>3. r \in Row
  <2>1. files["distances"] \in [usable : BOOLEAN, rows : Seq(Row)]
    BY <1>1 DEF Contents, File
  <2>2. At("distances")
    BY DEF load_subway_distances
  <2> QED BY <2>1, <2>2, RowOf
<1> HIDE DEF r
<1>4. ASSUME wanted
      PROVE  result \in Load /\ SoundData(result)
  <2>1. r.from \in Ids /\ r.to \in Ids /\ r.line \in Seq(Routes) /\ r.km \in Int /\ r.minutes \in Int
    BY <1>3, <1>4
  <2>2. r.from \in ids /\ r.to \in ids
    BY <1>4 DEF HasId, NamesIn
  <2>3. data.stations \in Seq(StationRow)
    BY <1>1, DataLists
  <2>4. HasId(data.stations, r.from)
    BY <1>4
  <2>5. new.from = r.from /\ new.to = r.to /\ new.minutes > 0 /\ new \in DistRow
    BY <2>1, <2>3, <2>4, DistanceTyped
  <2> HIDE DEF new
  <2>6. result = [data EXCEPT !.distances = <<new>> \o data.distances]
    BY DEF WithFront
  <2> HIDE DEF result
  <2>7. data.distances \in Seq(DistRow)
    BY <1>1, DataLists
  <2>8. /\ <<new>> \o data.distances \in Seq(DistRow)
         /\ Range(<<new>> \o data.distances) = Range(data.distances) \cup {new}
    BY <2>5, <2>7, InFront
  <2>9. /\ result.distances = <<new>> \o data.distances /\ result.stops = data.stops
         /\ result.stations = data.stations /\ result.routes = data.routes
         /\ result \in Load
    BY <1>1, <2>6, <2>8, LoadIs
  <2>10. SoundDistances(result.distances, ids)
    <3>1. SoundDistances(data.distances, ids)
      BY <1>1 DEF SoundData
    <3> SUFFICES ASSUME NEW n \in DOMAIN result.distances
                 PROVE  /\ result.distances[n].from \in ids /\ result.distances[n].to \in ids
                        /\ result.distances[n].minutes > 0
      BY DEF SoundDistances
    <3>2. result.distances[n] \in Range(data.distances) \cup {new}
      BY <2>8, <2>9 DEF Range
    <3>3. CASE result.distances[n] = new
      BY <3>3, <2>2, <2>5
    <3>4. CASE result.distances[n] \in Range(data.distances)
      BY <3>4, <3>1 DEF SoundDistances, Range
    <3> QED BY <3>2, <3>3, <3>4
  <2> QED BY <1>1, <2>9, <2>10 DEF SoundData
<1>5. wanted \in BOOLEAN
  BY DEF HasId
<1> HIDE DEF wanted, result
<1> QED BY <1>2, <1>4, <1>5, TurnSound

\* The other lists matter to nothing else.
LEMMA OthersLoaded ==
  ASSUME LoaderTypeOK, SoundReferences, load_facilities \/ load_arrivals \/ load_crowdings
  PROVE  LoaderTypeOK' /\ SoundReferences'
<1>1. data \in Load /\ SoundData(data) /\ files \in Contents
  BY SoundParts DEF LoaderTypeOK
<1>2. /\ data.facilities \in Seq([id : Ids])
      /\ data.arrivals \in Seq(NodeRow) /\ data.crowdings \in Seq(NodeRow)
  BY <1>1, DataLists
<1>3. CASE load_facilities
  <2> DEFINE r == files.facilities.rows[row]
             wanted == r.id # Blank
             result == WithFront("facilities", r)
             Row == [id : Ids \cup {Blank}]
  <2>1. Turn(wanted, result)
    BY <1>3 DEF load_facilities
  <2>2. files["facilities"] \in [usable : BOOLEAN, rows : Seq(Row)]
    BY <1>1 DEF Contents, File
  <2>3. r \in Row
    BY <1>3, <2>2, RowOf DEF load_facilities
  <2> HIDE DEF r
  <2>4. ASSUME wanted
        PROVE  result \in Load /\ SoundData(result)
    <3>1. r \in [id : Ids]
      BY <2>3, <2>4
    <3>2. <<r>> \o data.facilities \in Seq([id : Ids])
      BY <3>1, <1>2, InFront
    <3>3. result = [data EXCEPT !.facilities = <<r>> \o data.facilities]
      BY DEF WithFront
    <3> HIDE DEF result
    <3>4. /\ result \in Load /\ result.stops = data.stops /\ result.stations = data.stations
          /\ result.routes = data.routes /\ result.distances = data.distances
      BY <1>1, <3>2, <3>3, LoadIs
    <3> QED BY <1>1, <3>4 DEF SoundData
  <2>5. wanted \in BOOLEAN
    OBVIOUS
  <2> HIDE DEF wanted, result
  <2> QED BY <2>1, <2>4, <2>5, TurnSound
<1>4. CASE load_arrivals
  <2> DEFINE r == files.arrivals.rows[row]
             result == WithFront("arrivals", r)
  <2>1. Turn(TRUE, result)
    BY <1>4 DEF load_arrivals
  <2>2. files["arrivals"] \in [usable : BOOLEAN, rows : Seq(NodeRow)]
    BY <1>1 DEF Contents, File, NodeRow
  <2>3. r \in NodeRow
    BY <1>4, <2>2, RowOf DEF load_arrivals
  <2> HIDE DEF r
  <2>4. <<r>> \o data.arrivals \in Seq(NodeRow)
    BY <2>3, <1>2, InFront
  <2>5. result = [data EXCEPT !.arrivals = <<r>> \o data.arrivals]
    BY DEF WithFront
  <2> HIDE DEF result
  <2>6. /\ result \in Load /\ result.stops = data.stops /\ result.stations = data.stations
        /\ result.routes = data.routes /\ result.distances = data.distances
    BY <1>1, <2>4, <2>5, LoadIs
  <2>7. SoundData(result)
    BY <1>1, <2>6 DEF SoundData
  <2> QED BY <2>1, <2>6, <2>7, TurnSound
<1>5. CASE load_crowdings
  <2> DEFINE r == files.crowdings.rows[row]
             result == WithFront("crowdings", r)
  <2>1. Turn(TRUE, result)
    BY <1>5 DEF load_crowdings
  <2>2. files["crowdings"] \in [usable : BOOLEAN, rows : Seq(NodeRow)]
    BY <1>1 DEF Contents, File, NodeRow
  <2>3. r \in NodeRow
    BY <1>5, <2>2, RowOf DEF load_crowdings
  <2> HIDE DEF r
  <2>4. <<r>> \o data.crowdings \in Seq(NodeRow)
    BY <2>3, <1>2, InFront
  <2>5. result = [data EXCEPT !.crowdings = <<r>> \o data.crowdings]
    BY DEF WithFront
  <2> HIDE DEF result
  <2>6. /\ result \in Load /\ result.stops = data.stops /\ result.stations = data.stations
        /\ result.routes = data.routes /\ result.distances = data.distances
    BY <1>1, <2>4, <2>5, LoadIs
  <2>7. SoundData(result)
    BY <1>1, <2>6 DEF SoundData
  <2> QED BY <2>1, <2>6, <2>7, TurnSound
<1> QED BY <1>3, <1>4, <1>5

\* One file after the other.
LEMMA LoaderSound ==
  ASSUME LoaderTypeOK, SoundReferences, LoaderStep
  PROVE  LoaderTypeOK' /\ SoundReferences'
<1>1. ASSUME Unusable \/ EndOfFile
      PROVE  LoaderTypeOK' /\ SoundReferences'
  <2>1. /\ ~AllRead /\ reading' = reading + 1 /\ row' = 1 /\ loaded' = 0
        /\ UNCHANGED <<files, data, mayFail, failed>>
    BY <1>1 DEF Unusable, EndOfFile, Allocated
  <2>2. ok' \in BOOLEAN
    <3>1. CASE Unusable
      BY <3>1 DEF Unusable
    <3>2. CASE EndOfFile
      <4>1. ok' = (ok /\ (loaded > 0 \/ Order[reading] \in Optional))
        BY <3>2 DEF EndOfFile
      <4> QED BY <4>1 DEF LoaderTypeOK
    <3> QED BY <1>1, <3>1, <3>2
  <2>3. Len(Order) = 8
    BY DEF Order
  <2>4. reading' \in 1..(Len(Order) + 1)
    BY <2>1, <2>3 DEF LoaderTypeOK, AllRead
  <2>5. LoaderTypeOK'
    BY <2>1, <2>2, <2>4 DEF LoaderTypeOK
  <2>6. SoundReferences'
    BY <2>1, SoundParts
  <2> QED BY <2>5, <2>6
<1> QED BY <1>1, BusStopLoaded, StationLoaded, RouteLoaded, RouteStopLoaded, DistanceLoaded,
           OthersLoaded DEF LoaderStep

-----------------------------------------------------------------------------
(* The edge lists *)

\* What WellFormed says of a list of edges, and of the lists of all nodes.
SimpleList(a, list) ==
  \A i \in DOMAIN list :
    /\ list[i].to \in Nodes \ {a}
    /\ list[i].minutes > 0
    /\ \A j \in DOMAIN list : list[i].to = list[j].to => i = j

Simple(es) == /\ es \in Seq(Seq(EdgeType))
              /\ Len(es) = Len(nodes)
              /\ \A a \in Nodes : SimpleList(a, es[a])

\* WellFormed, of the lists as they are.
LEMMA WellFormedIs ==
  ASSUME GraphTypeOK
  PROVE  WellFormed <=> IsInjective(nodes) /\ Simple(edges)
BY DEF GraphTypeOK, WellFormed, Simple, SimpleList

\* An id has a node or not.
LEMMA FindNode ==
  ASSUME nodes \in Seq(Ids), NEW id
  PROVE  /\ graph_find_node(id) \in 0..Len(nodes)
         /\ graph_find_node(id) = 0 <=> id \notin Range(nodes)
         /\ graph_find_node(id) # 0 => graph_find_node(id) \in Nodes /\ nodes[graph_find_node(id)] = id
<1>1. Nodes = 1..Len(nodes) /\ DOMAIN nodes = 1..Len(nodes) /\ Len(nodes) \in Nat
  BY LenProperties DEF Nodes
<1>2. CASE \E i \in DOMAIN nodes : nodes[i] = id
  <2>1. graph_find_node(id) = CHOOSE i \in DOMAIN nodes : nodes[i] = id
    BY <1>2 DEF graph_find_node
  <2>2. graph_find_node(id) \in DOMAIN nodes /\ nodes[graph_find_node(id)] = id
    BY <1>2, <2>1
  <2>3. graph_find_node(id) # 0
    BY <2>2, <1>1
  <2> QED BY <2>2, <2>3, <1>1 DEF Range
<1>3. CASE ~ \E i \in DOMAIN nodes : nodes[i] = id
  <2>1. graph_find_node(id) = 0 /\ id \notin Range(nodes)
    BY <1>3 DEF graph_find_node, Range
  <2> QED BY <2>1, <1>1
<1> QED BY <1>2, <1>3

\* The node of an id is the one that has it.
LEMMA FindNodeOf ==
  ASSUME nodes \in Seq(Ids), IsInjective(nodes), NEW a \in Nodes
  PROVE  /\ graph_find_node(nodes[a]) = a
         /\ \A id : graph_find_node(id) = a <=> nodes[a] = id
<1>1. a \in DOMAIN nodes /\ DOMAIN nodes = 1..Len(nodes) /\ Len(nodes) \in Nat
  BY LenProperties DEF Nodes
<1>2. nodes[a] \in Range(nodes)
  BY <1>1 DEF Range
<1>3. /\ graph_find_node(nodes[a]) \in Nodes
      /\ nodes[graph_find_node(nodes[a])] = nodes[a]
  BY <1>2, FindNode
<1>4. graph_find_node(nodes[a]) = a
  BY <1>1, <1>3 DEF IsInjective, Nodes
<1>5. ASSUME NEW id, graph_find_node(id) = a
      PROVE  nodes[a] = id
  <2>1. graph_find_node(id) # 0
    BY <1>1, <1>5
  <2> QED BY <2>1, <1>5, FindNode
<1> QED BY <1>4, <1>5

\* An edge and its parts.
LEMMA EdgeIs ==
  /\ \A e \in EdgeType : e = Edge(e.to, e.minutes, e.route)
  /\ \A b \in Nat, m \in Nat, r \in Seq(Routes) :
       /\ Edge(b, m, r) \in EdgeType
       /\ Edge(b, m, r).to = b /\ Edge(b, m, r).minutes = m /\ Edge(b, m, r).route = r
BY DEF EdgeType, Edge

\* At most one edge of a list leads to a node.
LEMMA OneEdge ==
  ASSUME NEW es, Simple(es), NEW a \in Nodes, NEW e \in Range(es[a]), NEW f \in Range(es[a]), e.to = f.to
  PROVE  e = f
BY DEF Simple, SimpleList, Range

\* The edges of a node are edges.
LEMMA EdgesOf ==
  ASSUME nodes \in Seq(Ids), NEW es, Simple(es), NEW a \in Nodes
  PROVE  /\ a \in 1..Len(es) /\ a \in Nat \ {0}
         /\ es[a] \in Seq(EdgeType) /\ Range(es[a]) \subseteq EdgeType
         /\ \A e \in Range(es[a]) : e.to \in Nodes \ {a}
<1>1. a \in 1..Len(es) /\ a \in Nat \ {0}
  BY LenProperties DEF Simple, Nodes
<1>2. es[a] \in Seq(EdgeType)
  BY <1>1, ElementOfSeq DEF Simple
<1>3. Range(es[a]) \subseteq EdgeType
  BY <1>2, RangeOf
<1>4. \A e \in Range(es[a]) : e.to \in Nodes \ {a}
  BY DEF Simple, SimpleList, Range
<1> QED BY <1>1, <1>2, <1>3, <1>4

\* A new edge in front of a list that has none to its node.
LEMMA EdgeInFront ==
  ASSUME NEW a, NEW list \in Seq(EdgeType), SimpleList(a, list),
         NEW e \in EdgeType, e.to \in Nodes \ {a}, e.minutes > 0,
         \A i \in DOMAIN list : list[i].to # e.to
  PROVE  /\ <<e>> \o list \in Seq(EdgeType)
         /\ SimpleList(a, <<e>> \o list)
         /\ Range(<<e>> \o list) = Range(list) \cup {e}
<1> DEFINE new == <<e>> \o list
<1>1. /\ new \in Seq(EdgeType) /\ Len(new) = Len(list) + 1 /\ new[1] = e
      /\ \A n \in 1..Len(list) : new[n + 1] = list[n]
      /\ Range(new) = Range(list) \cup {e}
  BY InFront
<1>2. DOMAIN list = 1..Len(list) /\ Len(list) \in Nat /\ DOMAIN new = 1..(Len(list) + 1)
  BY <1>1, LenProperties
<1> HIDE DEF new
<1>3. \A i \in DOMAIN new : i = 1 \/ (i - 1 \in DOMAIN list /\ new[i] = list[i - 1])
  <2> TAKE i \in DOMAIN new
  <2>1. i # 1 => i - 1 \in 1..Len(list) /\ (i - 1) + 1 = i
    BY <1>2
  <2> QED BY <2>1, <1>1, <1>2
<1>4. ASSUME NEW i \in DOMAIN new
      PROVE  /\ new[i].to \in Nodes \ {a} /\ new[i].minutes > 0
             /\ \A j \in DOMAIN new : new[i].to = new[j].to => i = j
  <2>1. new[i].to \in Nodes \ {a} /\ new[i].minutes > 0
    BY <1>1, <1>3 DEF SimpleList
  <2>2. ASSUME NEW j \in DOMAIN new, new[i].to = new[j].to
        PROVE  i = j
    <3>1. CASE i = 1 /\ j = 1
      BY <3>1
    <3>2. CASE i = 1 /\ j # 1
      BY <3>2, <2>2, <1>1, <1>3
    <3>3. CASE i # 1 /\ j = 1
      BY <3>3, <2>2, <1>1, <1>3
    <3>4. CASE i # 1 /\ j # 1
      <4>1. i - 1 = j - 1
        BY <3>4, <2>2, <1>3 DEF SimpleList
      <4> QED BY <4>1, <1>2
    <3> QED BY <3>1, <3>2, <3>3, <3>4
  <2> QED BY <2>1, <2>2
<1>5. SimpleList(a, new)
  BY <1>4 DEF SimpleList
<1> QED BY <1>1, <1>5 DEF new

\* Another edge to the same node in the place of one.
LEMMA EdgeReplaced ==
  ASSUME NEW a, NEW list \in Seq(EdgeType), SimpleList(a, list), NEW i \in DOMAIN list,
         NEW e \in EdgeType, e.to = list[i].to, e.minutes > 0
  PROVE  /\ [list EXCEPT ![i] = e] \in Seq(EdgeType)
         /\ SimpleList(a, [list EXCEPT ![i] = e])
         /\ Range([list EXCEPT ![i] = e]) = (Range(list) \ {list[i]}) \cup {e}
<1> DEFINE new == [list EXCEPT ![i] = e]
<1>1. DOMAIN list = 1..Len(list)
  BY LenProperties
<1>2. new \in Seq(EdgeType)
  BY <1>1, ExceptSeq
<1>3. DOMAIN new = DOMAIN list /\ \A j \in DOMAIN list : new[j] = IF j = i THEN e ELSE list[j]
  OBVIOUS
<1> HIDE DEF new
<1>4. \A j \in DOMAIN list : new[j].to = list[j].to
  BY <1>3
<1>5. SimpleList(a, new)
  BY <1>3, <1>4 DEF SimpleList
<1>6. \A j \in DOMAIN list : list[j] = list[i] => j = i
  BY DEF SimpleList
<1>7. Range(new) = (Range(list) \ {list[i]}) \cup {e}
  <2>1. ASSUME NEW f \in Range(new)
        PROVE  f \in (Range(list) \ {list[i]}) \cup {e}
    <3>1. PICK j \in DOMAIN list : f = new[j]
      BY <1>3 DEF Range
    <3> QED BY <3>1, <1>3, <1>6 DEF Range
  <2>2. ASSUME NEW f \in (Range(list) \ {list[i]}) \cup {e}
        PROVE  f \in Range(new)
    <3>1. CASE f = e
      BY <3>1, <1>3 DEF Range
    <3>2. CASE f # e
      <4>1. PICK j \in DOMAIN list : f = list[j] /\ j # i
        BY <2>2, <3>2 DEF Range
      <4> QED BY <4>1, <1>3 DEF Range
    <3> QED BY <3>1, <3>2
  <2> QED BY <2>1, <2>2
<1> QED BY <1>2, <1>5, <1>7 DEF new

\* What one call of graph_add_edge does.
LEMMA EdgeAdded ==
  ASSUME nodes \in Seq(Ids), Simple(edges), NEW a \in 0..Len(nodes), NEW b \in 0..Len(nodes),
         NEW m \in Nat \ {0}, NEW r \in Seq(Routes), graph_add_edge(a, b, m, r)
  PROVE  /\ Simple(edges')
         /\ \A x \in Nodes : x # a => edges'[x] = edges[x]
         /\ a = 0 \/ b = 0 \/ a = b => edges' = edges
         /\ a # 0 => \A e \in EdgeType : e.to # b => (e \in Range(edges'[a]) <=> e \in Range(edges[a]))
         /\ ~failed' /\ a # 0 /\ b # 0 /\ a # b =>
              \/ /\ \A f \in Range(edges[a]) : f.to # b
                 /\ Edge(b, m, r) \in Range(edges'[a])
              \/ \E f \in Range(edges[a]) :
                   f.to = b /\ (IF m < f.minutes THEN Edge(b, m, r) ELSE f) \in Range(edges'[a])
<1> DEFINE new == Edge(b, m, r)
<1>1. Nodes = 1..Len(nodes) /\ Len(nodes) \in Nat
  BY LenProperties DEF Nodes
<1>2. new \in EdgeType /\ new.to = b /\ new.minutes = m /\ m > 0
  BY <1>1, EdgeIs
<1>3. (IF m > 0 THEN m ELSE 1) = m
  OBVIOUS
<1> HIDE DEF new
<1>4. CASE a = 0 \/ b = 0 \/ a = b
  <2>1. edges' = edges
    BY <1>4 DEF graph_add_edge
  <2> QED BY <2>1, <1>4
<1>5. CASE a # 0 /\ b # 0 /\ a # b
  <2>1. a \in Nodes /\ b \in Nodes \ {a} /\ a \in 1..Len(edges)
    BY <1>1, <1>5 DEF Simple
  <2>2. edges[a] \in Seq(EdgeType) /\ SimpleList(a, edges[a]) /\ Range(edges[a]) \subseteq EdgeType
    BY <2>1, EdgesOf DEF Simple
  <2>3. DOMAIN edges[a] = 1..Len(edges[a])
    BY <2>2, LenProperties
  \* The lists with another one for a.
  <2>4. ASSUME NEW list \in Seq(EdgeType), SimpleList(a, list), edges' = [edges EXCEPT ![a] = list]
        PROVE  /\ Simple(edges') /\ edges'[a] = list
               /\ \A x \in Nodes : x # a => edges'[x] = edges[x]
    <3>1. /\ edges' \in Seq(Seq(EdgeType)) /\ Len(edges') = Len(edges)
          /\ \A j \in 1..Len(edges) : edges'[j] = IF j = a THEN list ELSE edges[j]
      BY <2>1, <2>4, ExceptSeq DEF Simple
    <3>2. Nodes = 1..Len(edges)
      BY <1>1 DEF Simple
    <3>3. edges'[a] = list /\ \A x \in Nodes : x # a => edges'[x] = edges[x]
      BY <2>1, <3>1, <3>2
    <3>4. Simple(edges')
      BY <2>4, <3>1, <3>3 DEF Simple
    <3> QED BY <3>3, <3>4
  <2>5. CASE \E i \in DOMAIN edges[a] : edges[a][i].to = b
    <3>1. PICK i \in DOMAIN edges[a] :
            /\ edges[a][i].to = b
            /\ edges' = IF m > 0 /\ m < edges[a][i].minutes
                          THEN [edges EXCEPT ![a][i] = new] ELSE edges
      BY <1>5, <2>5 DEF graph_add_edge, new
    <3> DEFINE f == edges[a][i]
    <3>2. f \in Range(edges[a]) /\ f.to = b /\ f \in EdgeType
      BY <2>2, <3>1 DEF Range
    <3>3. CASE m < f.minutes
      <4> DEFINE list == [edges[a] EXCEPT ![i] = new]
      <4>1. edges' = [edges EXCEPT ![a] = list]
        BY <1>2, <3>1, <3>3
      <4>2. /\ list \in Seq(EdgeType) /\ SimpleList(a, list)
            /\ Range(list) = (Range(edges[a]) \ {f}) \cup {new}
        <5>1. new.to = edges[a][i].to /\ new.minutes > 0
          BY <1>2, <3>1
        <5>2. list \in Seq(EdgeType)
          BY <5>1, <1>2, <2>2, <3>1, EdgeReplaced
        <5>3. SimpleList(a, list)
          BY <5>1, <1>2, <2>2, <3>1, EdgeReplaced
        <5>4. Range(list) = (Range(edges[a]) \ {f}) \cup {new}
          BY <5>1, <1>2, <2>2, <3>1, EdgeReplaced
        <5> QED BY <5>2, <5>3, <5>4
      <4> HIDE DEF list
      <4>3. /\ Simple(edges') /\ edges'[a] = list
            /\ \A x \in Nodes : x # a => edges'[x] = edges[x]
        BY <4>1, <4>2, <2>4
      <4>4. \A e \in EdgeType : e.to # b => (e \in Range(edges'[a]) <=> e \in Range(edges[a]))
        BY <4>2, <4>3, <3>2, <1>2
      <4>5. (IF m < f.minutes THEN new ELSE f) \in Range(edges'[a])
        BY <3>3, <4>2, <4>3
      <4> QED BY <1>5, <3>2, <4>3, <4>4, <4>5 DEF new
    <3>4. CASE ~ (m < f.minutes)
      <4>1. edges' = edges
        BY <3>1, <3>4
      <4>2. (IF m < f.minutes THEN new ELSE f) \in Range(edges'[a])
        BY <3>2, <3>4, <4>1
      <4> QED BY <1>5, <3>2, <4>1, <4>2 DEF new
    <3> QED BY <3>3, <3>4
  <2>6. CASE \A i \in DOMAIN edges[a] : edges[a][i].to # b
    <3>1. \A f \in Range(edges[a]) : f.to # b
      BY <2>6 DEF Range
    <3>2. CASE edges' = [edges EXCEPT ![a] = <<new>> \o @]
      <4> DEFINE list == <<new>> \o edges[a]
      <4>1. /\ list \in Seq(EdgeType) /\ SimpleList(a, list)
            /\ Range(list) = Range(edges[a]) \cup {new}
        BY <1>2, <2>1, <2>2, <2>6, EdgeInFront
      <4>2. edges' = [edges EXCEPT ![a] = list]
        BY <3>2
      <4> HIDE DEF list
      <4>3. /\ Simple(edges') /\ edges'[a] = list
            /\ \A x \in Nodes : x # a => edges'[x] = edges[x]
        BY <4>1, <4>2, <2>4
      <4>4. \A e \in EdgeType : e.to # b => (e \in Range(edges'[a]) <=> e \in Range(edges[a]))
        BY <4>1, <4>3, <1>2
      <4>5. new \in Range(edges'[a])
        BY <4>1, <4>3
      <4> QED BY <1>5, <3>1, <4>3, <4>4, <4>5 DEF new
    <3>3. CASE edges' = edges /\ NoMemory
      <4>1. failed' = TRUE
        BY <3>3 DEF NoMemory
      <4> QED BY <1>5, <3>3, <4>1
    <3>4. edges' = [edges EXCEPT ![a] = <<new>> \o @] \/ (edges' = edges /\ NoMemory)
      BY <1>3, <1>5, <2>6 DEF graph_add_edge, new
    <3> QED BY <3>2, <3>3, <3>4
  <2> QED BY <2>5, <2>6
<1> QED BY <1>4, <1>5

-----------------------------------------------------------------------------
(* The links the data calls for *)

\* A link and its parts.
LEMMA LinkIs ==
  ASSUME NEW a \in Ids, NEW b \in Ids, NEW m \in Nat \ {0}, NEW r \in Seq(Routes)
  PROVE  Link(a, b, m, r) \in LinkType
BY DEF Link, LinkType

\* A function over 1..n with values in S is a sequence over S.
LEMMA SeqOver ==
  ASSUME NEW S, NEW n \in Nat, NEW f, f \in [1..n -> S]
  PROVE  f \in Seq(S) /\ Len(f) = n /\ DOMAIN f = 1..n
<1>1. f \in Seq(S)
  BY SeqDef
<1> QED BY <1>1, LenProperties

\* The links along the routes,
LEMMA BusLinksTyped ==
  ASSUME NEW d \in Load
  PROVE  BusLinks(d) \in Seq(LinkType)
<1> DEFINE calls(i) == d.routes[i].stops
           links(i) == [j \in 1..(Len(calls(i)) - 1) |->
                          Link(calls(i)[j].stop, calls(i)[j + 1].stop, 5, <<d.routes[i].no>>)]
           all == [i \in DOMAIN d.routes |-> links(i)]
<1>1. d.routes \in Seq(RouteRow) /\ DOMAIN d.routes = 1..Len(d.routes) /\ Len(d.routes) \in Nat
  BY DataLists, LenProperties
<1>2. ASSUME NEW i \in 1..Len(d.routes)
      PROVE  links(i) \in Seq(LinkType)
  <2>1. d.routes[i] \in RouteRow
    BY <1>1, ElementOfSeq
  <2>2. calls(i) \in Seq(Call) /\ d.routes[i].no \in Routes
    BY <2>1 DEF RouteRow
  <2>3. Len(calls(i)) \in Nat
    BY <2>2, LenProperties
  <2> DEFINE c == calls(i)
  <2> HIDE DEF calls
  <2>4. ASSUME NEW j \in 1..(Len(c) - 1)
        PROVE  Link(c[j].stop, c[j + 1].stop, 5, <<d.routes[i].no>>) \in LinkType
    <3>1. j \in 1..Len(c) /\ j + 1 \in 1..Len(c)
      BY <2>3
    <3>2. c[j] \in Call /\ c[j + 1] \in Call
      BY <2>2, <3>1, ElementOfSeq
    <3>3. c[j].stop \in Ids /\ c[j + 1].stop \in Ids
      BY <3>2 DEF Call
    <3>4. <<d.routes[i].no>> \in Seq(Routes)
      BY <2>2
    <3> QED BY <3>3, <3>4, LinkIs
  <2>5. CASE Len(c) = 0
    <3>1. 1..(Len(c) - 1) = 1..0
      BY <2>5
    <3>2. links(i) \in [1..0 -> LinkType]
      BY <2>4, <3>1
    <3> QED BY <3>2, SeqOver
  <2>6. CASE Len(c) # 0
    <3>1. Len(c) - 1 \in Nat
      BY <2>3, <2>6
    <3>2. links(i) \in [1..(Len(c) - 1) -> LinkType]
      BY <2>4
    <3> QED BY <3>1, <3>2, SeqOver
  <2> QED BY <2>5, <2>6
<1> HIDE DEF links
<1>3. all \in [1..Len(d.routes) -> Seq(LinkType)]
  BY <1>1, <1>2
<1>4. all \in Seq(Seq(LinkType))
  BY <1>1, <1>3, SeqOver
<1>5. FlattenSeq(all) \in Seq(LinkType)
  BY <1>4, FlattenFacts
<1> QED BY <1>5 DEF BusLinks, links

\* those the distances call for,
LEMMA SubwayLinksTyped ==
  ASSUME NEW d \in Load, \A n \in DOMAIN d.distances : d.distances[n].minutes > 0
  PROVE  SubwayLinks(d) \in Seq(LinkType)
<1> DEFINE line(i) == IF d.distances[i].line = <<>> THEN <<SUBWAY>> ELSE d.distances[i].line
           links == [i \in DOMAIN d.distances |->
                      Link(d.distances[i].from, d.distances[i].to, d.distances[i].minutes, line(i))]
           those == {l \in Range(links) : graph_find_node(l.from) # 0 /\ graph_find_node(l.to) # 0}
<1>1. d.distances \in Seq(DistRow) /\ DOMAIN d.distances = 1..Len(d.distances) /\ Len(d.distances) \in Nat
  BY DataLists, LenProperties
<1>2. ASSUME NEW i \in 1..Len(d.distances)
      PROVE  Link(d.distances[i].from, d.distances[i].to, d.distances[i].minutes, line(i)) \in LinkType
  <2>1. d.distances[i] \in DistRow
    BY <1>1, ElementOfSeq
  <2>2. /\ d.distances[i].from \in Ids /\ d.distances[i].to \in Ids
        /\ d.distances[i].minutes \in Nat /\ d.distances[i].line \in Seq(Routes)
    BY <2>1 DEF DistRow
  <2>3. d.distances[i].minutes > 0
    BY <1>1
  <2>4. d.distances[i].minutes \in Nat \ {0}
    BY <2>2, <2>3
  <2>5. SUBWAY \in Routes
    BY AppDataAssumption
  <2>6. line(i) \in Seq(Routes)
    BY <2>2, <2>5
  <2> HIDE DEF line
  <2> QED BY <2>2, <2>4, <2>6, LinkIs
<1>3. links \in [1..Len(d.distances) -> LinkType]
  BY <1>1, <1>2
<1>4. links \in Seq(LinkType)
  BY <1>1, <1>3, SeqOver
<1>5. SubwayLinks(d) = Keep(links, those)
  BY DEF SubwayLinks
<1> HIDE DEF links, those
<1>6. Keep(links, those) \in Seq(LinkType \cap those)
  BY <1>4, KeepFacts
<1> QED BY <1>5, <1>6, SeqMonotonic

\* and those of stations that share a line.
LEMMA CommonLineLinksTyped ==
  ASSUME NEW d \in Load
  PROVE  CommonLineLinks(d) \in Seq(LinkType)
<1> DEFINE s == d.stations
           link(i, j) == IF common_line_name(s[i], s[i + j]) = <<>> THEN <<>>
                         ELSE <<Link(s[i].id, s[i + j].id, 8, <<Head(common_line_name(s[i], s[i + j]))>>)>>
           links(i) == [j \in 1..(Len(s) - i) |-> link(i, j)]
           all == [i \in DOMAIN s |-> FlattenSeq(links(i))]
<1>1. s \in Seq(StationRow) /\ DOMAIN s = 1..Len(s) /\ Len(s) \in Nat
  BY DataLists, LenProperties
<1>2. CommonLineLinks(d) = FlattenSeq(all)
  BY DEF CommonLineLinks
<1> HIDE DEF s
<1>3. ASSUME NEW i \in 1..Len(s), NEW j \in 1..(Len(s) - i)
      PROVE  link(i, j) \in Seq(LinkType)
  <2> DEFINE a == s[i]
             b == s[i + j]
             common == common_line_name(a, b)
  <2>1. i + j \in 1..Len(s)
    BY <1>1
  <2>2. a \in StationRow /\ b \in StationRow
    BY <1>1, <2>1, ElementOfSeq
  <2>3. a.id \in Ids /\ b.id \in Ids /\ a.lines \in Seq(Routes)
    BY <2>2 DEF StationRow
  <2> HIDE DEF a, b
  <2>4. common = Keep(a.lines, Range(b.lines))
    BY DEF common_line_name
  <2>5. common \in Seq(Routes)
    <3>1. Keep(a.lines, Range(b.lines)) \in Seq(Routes \cap Range(b.lines))
      BY <2>3, KeepFacts
    <3> QED BY <2>4, <3>1, SeqMonotonic
  <2> HIDE DEF common
  <2>6. link(i, j) = IF common = <<>> THEN <<>> ELSE <<Link(a.id, b.id, 8, <<Head(common)>>)>>
    BY DEF common, a, b
  <2> HIDE DEF link
  <2>7. CASE common = <<>>
    BY <2>6, <2>7
  <2>8. CASE common # <<>>
    <3>1. Head(common) \in Routes
      BY <2>5, <2>8, HeadAndTail
    <3>2. <<Head(common)>> \in Seq(Routes)
      BY <3>1
    <3> DEFINE r == <<Head(common)>>
    <3>3. r \in Seq(Routes)
      BY <3>2
    <3> HIDE DEF r
    <3>4. Link(a.id, b.id, 8, r) \in LinkType
      <4>1. 8 \in Nat \ {0}
        OBVIOUS
      <4> QED BY <2>3, <3>3, <4>1, LinkIs
    <3>5. <<Link(a.id, b.id, 8, r)>> \in Seq(LinkType)
      BY <3>4
    <3> QED BY <2>6, <2>8, <3>5 DEF r
  <2> QED BY <2>7, <2>8
<1> HIDE DEF link
<1>4. ASSUME NEW i \in 1..Len(s)
      PROVE  FlattenSeq(links(i)) \in Seq(LinkType)
  <2>1. Len(s) - i \in Nat
    BY <1>1
  <2>2. links(i) \in [1..(Len(s) - i) -> Seq(LinkType)]
    BY <1>3
  <2> HIDE DEF links
  <2>3. links(i) \in Seq(Seq(LinkType))
    BY <2>1, <2>2, SeqOver
  <2> QED BY <2>3, FlattenFacts
<1> HIDE DEF links
<1>5. all \in [1..Len(s) -> Seq(LinkType)]
  BY <1>1, <1>4
<1> HIDE DEF all
<1>6. all \in Seq(Seq(LinkType))
  BY <1>1, <1>5, SeqOver
<1> QED BY <1>2, <1>6, FlattenFacts

\* What has coordinates, of a list.
LEMMA LocatedFacts ==
  ASSUME NEW S, NEW list \in Seq(S)
  PROVE  /\ Located(list) \in Seq(S)
         /\ Range(Located(list)) = {e \in Range(list) : e.at # Nowhere}
<1> DEFINE those == {e \in Range(list) : e.at # Nowhere}
<1>1. those \subseteq Range(list)
  OBVIOUS
<1>2. Located(list) = Keep(list, those)
  BY DEF Located
<1> HIDE DEF those
<1>3. Keep(list, those) \in Seq(S \cap those) /\ Range(Keep(list, those)) = Range(list) \cap those
  BY KeepFacts, KeepRange
<1>4. Keep(list, those) \in Seq(S)
  BY <1>3, SeqMonotonic
<1> QED BY <1>1, <1>2, <1>3, <1>4 DEF those

\* The places of stops and stations that have one, and how far they are apart.
LEMMA ApartIs ==
  ASSUME NEW d \in Load, NEW s \in Range(Located(d.stops)), NEW t \in Range(Located(d.stations))
  PROVE  s.id \in Ids /\ t.id \in Ids /\ Apart(s, t) \in Nat
<1>1. d.stops \in Seq(StopRow) /\ d.stations \in Seq(StationRow)
  BY DataLists
<1>2. s \in Range(d.stops) /\ s.at # Nowhere /\ t \in Range(d.stations) /\ t.at # Nowhere
  BY <1>1, LocatedFacts
<1>3. s \in StopRow /\ t \in StationRow
  BY <1>1, <1>2, RangeOf
<1>4. s.at \in Spots /\ t.at \in Spots /\ s.id \in Ids /\ t.id \in Ids
  BY <1>2, <1>3 DEF StopRow, StationRow, Places
<1>5. Square \in [Spots -> [Spots -> Nat]]
  BY AppDataAssumption
<1> QED BY <1>4, <1>5 DEF Apart

\* A transfer takes time.
LEMMA TransferMinutes ==
  ASSUME NEW sq \in Nat
  PROVE  transfer_minutes_from_distance(sq) \in Nat \ {0}
BY DEF transfer_minutes_from_distance

\* The stations a stop is linked to: some, if there are any, and one that none is nearer than.
Chosen(s, stations) ==
  IF NearTo(s, stations) # <<>> \/ stations = <<>> THEN NearTo(s, stations)
  ELSE <<Head(NearestTo(s, stations))>>

\* If there are stations, some are chosen, and one of those is as near as any.
LEMMA ChosenFacts ==
  ASSUME NEW d \in Load, NEW s \in Range(Located(d.stops))
  PROVE  LET stations == Located(d.stations)
         IN  /\ Chosen(s, stations) \in Seq(StationRow)
             /\ Range(Chosen(s, stations)) \subseteq Range(stations)
             /\ stations # <<>> => \E t \in Range(Chosen(s, stations)) :
                                    \A u \in Range(stations) : Apart(s, t) <= Apart(s, u)
<1> DEFINE stations == Located(d.stations)
           near == {t \in Range(stations) : Apart(s, t) <= Near}
           nearest == {t \in Range(stations) : \A u \in Range(stations) : Apart(s, t) <= Apart(s, u)}
           far == {Apart(s, t) : t \in Range(stations)}
<1>1. stations \in Seq(StationRow)
  BY DataLists, LocatedFacts
<1>2. \A t \in Range(stations) : Apart(s, t) \in Nat
  BY ApartIs
<1>3. NearTo(s, stations) = Keep(stations, near) /\ NearestTo(s, stations) = Keep(stations, nearest)
  BY DEF NearTo, NearestTo
<1>4. near \subseteq Range(stations) /\ nearest \subseteq Range(stations)
  OBVIOUS
<1>5. stations # <<>> => nearest # {}
  <2> SUFFICES ASSUME stations # <<>> PROVE nearest # {}
    OBVIOUS
  <2>1. Range(stations) # {}
    BY <1>1, RangeOf
  <2>2. far \subseteq Nat /\ far # {}
    BY <1>2, <2>1
  <2>3. Min(far) \in far /\ \A n \in far : Min(far) <= n
    <3> HIDE DEF far
    <3> QED BY <2>2, LeastNumber
  <2>4. PICK t \in Range(stations) : Min(far) = Apart(s, t)
    BY <2>3
  <2>5. \A u \in Range(stations) : Apart(s, t) <= Apart(s, u)
    BY <2>3, <2>4
  <2> QED BY <2>5
<1>6. near # {} => near \cap nearest # {}
  <2> SUFFICES ASSUME near # {} PROVE near \cap nearest # {}
    OBVIOUS
  <2>1. PICK u \in Range(stations) : Apart(s, u) <= Near
    OBVIOUS
  <2>2. stations # <<>>
    BY <1>1, <2>1, RangeOf
  <2>3. PICK t \in Range(stations) : \A w \in Range(stations) : Apart(s, t) <= Apart(s, w)
    BY <1>5, <2>2
  <2>4. Apart(s, t) <= Apart(s, u) /\ Apart(s, t) \in Nat /\ Apart(s, u) \in Nat /\ Near \in Nat
    BY <1>2, <2>3 DEF Near
  <2>5. Apart(s, t) <= Near
    BY <2>1, <2>4
  <2> QED BY <2>3, <2>5
<1>7. \A t \in nearest : \A u \in Range(stations) : Apart(s, t) <= Apart(s, u)
  OBVIOUS
<1> DEFINE kn == Keep(stations, near)
           kf == Keep(stations, nearest)
<1> HIDE DEF near, nearest, stations, far
<1>8. kn \in Seq(StationRow) /\ Range(kn) = Range(stations) \cap near
  <2>1. kn \in Seq(StationRow \cap near)
    BY <1>1, KeepFacts
  <2> QED BY <2>1, <1>1, KeepRange, SeqMonotonic
<1>9. kf \in Seq(StationRow) /\ Range(kf) = Range(stations) \cap nearest
  <2>1. kf \in Seq(StationRow \cap nearest)
    BY <1>1, KeepFacts
  <2> QED BY <2>1, <1>1, KeepRange, SeqMonotonic
<1> HIDE DEF kn, kf
<1>10. CASE kn # <<>> \/ stations = <<>>
  <2>1. Chosen(s, stations) = kn
    BY <1>10, <1>3 DEF Chosen, kn
  <2>2. stations # <<>> => near # {}
    BY <1>4, <1>8, <1>10, RangeOf
  <2> QED BY <2>1, <2>2, <1>4, <1>6, <1>7, <1>8 DEF stations
<1>11. CASE ~ (kn # <<>> \/ stations = <<>>)
  <2>1. Chosen(s, stations) = <<Head(kf)>>
    BY <1>11, <1>3 DEF Chosen, kn, kf
  <2>2. kf # <<>>
    BY <1>4, <1>5, <1>9, <1>11, RangeOf
  <2>3. Head(kf) \in StationRow /\ Head(kf) \in Range(kf)
    BY <1>9, <2>2, HeadAndTail
  <2>4. <<Head(kf)>> \in Seq(StationRow) /\ Range(<<Head(kf)>>) = {Head(kf)}
    <3> DEFINE h == Head(kf)
    <3> HIDE DEF h
    <3>1. <<h>> \in Seq(StationRow) /\ Len(<<h>>) = 1 /\ <<h>>[1] = h
      BY <2>3 DEF h
    <3>2. Range(<<h>>) = {<<h>>[i] : i \in 1..Len(<<h>>)}
      BY <3>1, RangeOf
    <3>3. 1..Len(<<h>>) = {1}
      BY <3>1
    <3> QED BY <3>1, <3>2, <3>3 DEF h
  <2> QED BY <2>1, <2>3, <2>4, <1>7, <1>9 DEF stations
<1> QED BY <1>10, <1>11

\* The links of a stop, one to every station chosen,
LEMMA StopLinksTyped ==
  ASSUME NEW d \in Load, NEW s \in Range(Located(d.stops))
  PROVE  /\ StopLinks(d, s) \in Seq(LinkType)
         /\ \A t \in Range(Chosen(s, Located(d.stations))) :
              \E l \in Range(StopLinks(d, s)) : l.from = s.id /\ l.to = t.id
<1> DEFINE c == Chosen(s, Located(d.stations))
           link(i) == Link(s.id, c[i].id, transfer_minutes_from_distance(Apart(s, c[i])), <<TRANSFER>>)
           links == [i \in DOMAIN c |-> link(i)]
<1>1. c \in Seq(StationRow) /\ Range(c) \subseteq Range(Located(d.stations))
  BY ChosenFacts
<1>2. StopLinks(d, s) = links
  BY DEF StopLinks, Chosen
<1> HIDE DEF c
<1>3. DOMAIN c = 1..Len(c) /\ Len(c) \in Nat
  BY <1>1, LenProperties
<1>4. ASSUME NEW i \in 1..Len(c)
      PROVE  link(i) \in LinkType /\ link(i).from = s.id /\ link(i).to = c[i].id
  <2>1. c[i] \in Range(Located(d.stations))
    BY <1>1, <1>3 DEF Range
  <2>2. s.id \in Ids /\ c[i].id \in Ids /\ Apart(s, c[i]) \in Nat
    BY <2>1, ApartIs
  <2>3. transfer_minutes_from_distance(Apart(s, c[i])) \in Nat \ {0}
    BY <2>2, TransferMinutes
  <2>4. TRANSFER \in Routes
    BY AppDataAssumption
  <2>5. <<TRANSFER>> \in Seq(Routes)
    BY <2>4
  <2>6. link(i) \in LinkType
    BY <2>2, <2>3, <2>5, LinkIs
  <2> QED BY <2>6 DEF Link
<1> HIDE DEF link
<1>5. links \in [1..Len(c) -> LinkType]
  BY <1>3, <1>4
<1>6. links \in Seq(LinkType)
  BY <1>3, <1>5, SeqOver
<1>7. ASSUME NEW t \in Range(c)
      PROVE  \E l \in Range(links) : l.from = s.id /\ l.to = t.id
  <2>1. PICK i \in 1..Len(c) : t = c[i]
    BY <1>3 DEF Range
  <2>2. links[i] = link(i) /\ i \in DOMAIN links
    BY <1>3
  <2> QED BY <2>1, <2>2, <1>4 DEF Range
<1> HIDE DEF links
<1> QED BY <1>2, <1>6, <1>7 DEF c

\* and of all stops.
LEMMA TransferLinksTyped ==
  ASSUME NEW d \in Load
  PROVE  /\ TransferLinks(d) \in Seq(LinkType)
         /\ \A s \in Range(Located(d.stops)) : Range(StopLinks(d, s)) \subseteq Range(TransferLinks(d))
<1> DEFINE stops == Located(d.stops)
           all == [i \in DOMAIN stops |-> StopLinks(d, stops[i])]
<1>1. stops \in Seq(StopRow)
  BY DataLists, LocatedFacts
<1>2. DOMAIN stops = 1..Len(stops) /\ Len(stops) \in Nat
  BY <1>1, LenProperties
<1>3. TransferLinks(d) = FlattenSeq(all)
  BY DEF TransferLinks
<1>4. \A i \in 1..Len(stops) : StopLinks(d, stops[i]) \in Seq(LinkType)
  <2> TAKE i \in 1..Len(stops)
  <2>1. stops[i] \in Range(stops)
    BY <1>2 DEF Range
  <2> QED BY <2>1, StopLinksTyped
<1> HIDE DEF stops
<1>5. all \in [1..Len(stops) -> Seq(LinkType)]
  BY <1>2, <1>4
<1>6. \A i \in 1..Len(stops) : all[i] = StopLinks(d, stops[i])
  BY <1>2
<1> HIDE DEF all
<1>7. all \in Seq(Seq(LinkType)) /\ Len(all) = Len(stops)
  BY <1>2, <1>5, SeqOver
<1>8. /\ FlattenSeq(all) \in Seq(LinkType)
      /\ Range(FlattenSeq(all)) = UNION {Range(all[i]) : i \in 1..Len(all)}
  BY <1>7, FlattenFacts
<1>9. ASSUME NEW s \in Range(stops)
      PROVE  Range(StopLinks(d, s)) \subseteq Range(FlattenSeq(all))
  <2>1. PICK i \in 1..Len(stops) : s = stops[i]
    BY <1>2 DEF Range
  <2>2. all[i] = StopLinks(d, s)
    BY <2>1, <1>6
  <2> QED BY <2>2, <1>7, <1>8
<1> QED BY <1>3, <1>8, <1>9 DEF stops

\* All links are links, and take time.
LEMMA LinksTyped ==
  ASSUME NEW d \in Load, \A n \in DOMAIN d.distances : d.distances[n].minutes > 0
  PROVE  /\ Links(d) \in Seq(LinkType)
         /\ Range(TransferLinks(d)) \subseteq Range(Links(d))
<1> DEFINE bus == BusLinks(d)
           rail == RailLinks(d)
           transfer == TransferLinks(d)
<1>1. bus \in Seq(LinkType) /\ rail \in Seq(LinkType) /\ transfer \in Seq(LinkType)
  BY BusLinksTyped, SubwayLinksTyped, CommonLineLinksTyped, TransferLinksTyped DEF RailLinks
<1>2. Links(d) = (bus \o rail) \o transfer
  BY DEF Links
<1> HIDE DEF bus, rail, transfer
<1>3. bus \o rail \in Seq(LinkType)
  BY <1>1, ConcatTwo
<1>4. /\ (bus \o rail) \o transfer \in Seq(LinkType)
      /\ Range((bus \o rail) \o transfer) = Range(bus \o rail) \cup Range(transfer)
  BY <1>1, <1>3, ConcatTwo
<1> QED BY <1>2, <1>4 DEF transfer

\* So the lists the loader leaves call for links that take time.
LEMMA DataLinks ==
  ASSUME LoaderTypeOK, SoundReferences
  PROVE  Links(data) \in Seq(LinkType)
BY LinksTyped, SoundParts DEF LoaderTypeOK, SoundData, SoundDistances

\* They are the same as long as lists and nodes are.
LEMMA LinksStay ==
  ASSUME UNCHANGED <<data, nodes>>
  PROVE  /\ Links(data)' = Links(data)
         /\ \A id : graph_find_node(id)' = graph_find_node(id)
<1>1. data' = data /\ nodes' = nodes
  OBVIOUS
<1>2. \A id : graph_find_node(id)' = graph_find_node(id)
  BY <1>1 DEF graph_find_node
<1>3. SubwayLinks(data)' = SubwayLinks(data)
  BY <1>1, <1>2 DEF SubwayLinks
<1>4. BusLinks(data)' = BusLinks(data)
  BY <1>1
<1>5. CommonLineLinks(data)' = CommonLineLinks(data)
  BY <1>1
<1>6. TransferLinks(data)' = TransferLinks(data)
  BY <1>1
<1>7. RailLinks(data)' = RailLinks(data)
  BY <1>3, <1>5 DEF RailLinks
<1> QED BY <1>2, <1>4, <1>6, <1>7 DEF Links

-----------------------------------------------------------------------------
(* One call of graph_add_edge, and what has been offered *)

\* What LinksInv says of the way from a to b, where I are the links offered for it.
Best(es, links, I, a, b) ==
  /\ I # {} <=> \E e \in Range(es[a]) : e.to = b
  /\ \A e \in Range(es[a]) : e.to = b =>
       /\ \A i \in I : e.minutes <= links[i].minutes
       /\ \E i \in I : e.minutes = links[i].minutes /\ e.route = links[i].route

\* A call for link k offers it for the way from x to y, and no other.
LEMMA BestAfter ==
  ASSUME nodes \in Seq(Ids), Simple(edges), NEW links \in Seq(LinkType), NEW k \in 1..Len(links),
         NEW x \in 0..Len(nodes), NEW y \in 0..Len(nodes),
         graph_add_edge(x, y, links[k].minutes, links[k].route), ~failed',
         NEW a \in Nodes, NEW b \in Nodes, a # b,
         NEW I, I \subseteq 1..Len(links), Best(edges, links, I, a, b)
  PROVE  Best(edges', links, IF a = x /\ b = y THEN I \cup {k} ELSE I, a, b)
<1> DEFINE m == links[k].minutes
           r == links[k].route
<1>1. m \in Nat \ {0} /\ r \in Seq(Routes)
  <2>1. links[k] \in LinkType
    BY ElementOfSeq
  <2> QED BY <2>1 DEF LinkType
<1>2. \A i \in 1..Len(links) : links[i].minutes \in Nat
  <2> TAKE i \in 1..Len(links)
  <2>1. links[i] \in LinkType
    BY ElementOfSeq
  <2> QED BY <2>1 DEF LinkType
<1>3. /\ Simple(edges')
      /\ \A z \in Nodes : z # x => edges'[z] = edges[z]
      /\ x = 0 \/ y = 0 \/ x = y => edges' = edges
      /\ x # 0 => \A e \in EdgeType : e.to # y => (e \in Range(edges'[x]) <=> e \in Range(edges[x]))
      /\ x # 0 /\ y # 0 /\ x # y =>
           \/ /\ \A f \in Range(edges[x]) : f.to # y
              /\ Edge(y, m, r) \in Range(edges'[x])
           \/ \E f \in Range(edges[x]) :
                f.to = y /\ (IF m < f.minutes THEN Edge(y, m, r) ELSE f) \in Range(edges'[x])
  BY <1>1, EdgeAdded
<1>4. /\ Range(edges[a]) \subseteq EdgeType /\ Range(edges'[a]) \subseteq EdgeType
      /\ a # 0 /\ b # 0 /\ b \in Nat
  BY <1>3, EdgesOf
<1>5. CASE a = x /\ b = y
  <2> DEFINE J == I \cup {k}
             new == Edge(b, m, r)
  <2>1. new \in EdgeType /\ new.to = b /\ new.minutes = m /\ new.route = r
    BY <1>1, <1>4, EdgeIs
  <2> HIDE DEF new
  <2>2. PICK e \in Range(edges'[a]) :
          \/ (\A f \in Range(edges[a]) : f.to # b) /\ e = new
          \/ \E f \in Range(edges[a]) : f.to = b /\ e = (IF m < f.minutes THEN new ELSE f)
    <3>1. \/ (\A f \in Range(edges[a]) : f.to # b) /\ new \in Range(edges'[a])
          \/ \E f \in Range(edges[a]) :
               f.to = b /\ (IF m < f.minutes THEN new ELSE f) \in Range(edges'[a])
      BY <1>3, <1>4, <1>5 DEF new
    <3> QED BY <3>1
  <2>3. /\ e.to = b /\ \A i \in J : e.minutes <= links[i].minutes
        /\ \E i \in J : e.minutes = links[i].minutes /\ e.route = links[i].route
    <3>1. CASE (\A f \in Range(edges[a]) : f.to # b) /\ e = new
      <4>1. J = {k}
        BY <3>1 DEF Best
      <4> QED BY <3>1, <4>1, <2>1, <1>1
    <3>2. ASSUME NEW f \in Range(edges[a]), f.to = b, e = (IF m < f.minutes THEN new ELSE f)
          PROVE  /\ e.to = b /\ \A i \in J : e.minutes <= links[i].minutes
                 /\ \E i \in J : e.minutes = links[i].minutes /\ e.route = links[i].route
      <4>1. /\ \A i \in I : f.minutes <= links[i].minutes
            /\ \E i \in I : f.minutes = links[i].minutes /\ f.route = links[i].route
        BY <3>2 DEF Best
      <4>2. f.minutes \in Nat
        BY <1>4 DEF EdgeType
      <4>3. CASE m < f.minutes
        <5>1. e = new
          BY <3>2, <4>3
        <5>2. ASSUME NEW i \in J
              PROVE  m <= links[i].minutes
          <6>1. CASE i \in I
            BY <6>1, <4>1, <4>2, <4>3, <1>1, <1>2
          <6>2. CASE i = k
            BY <6>2, <1>1
          <6> QED BY <6>1, <6>2
        <5> QED BY <5>1, <5>2, <2>1
      <4>4. CASE ~ (m < f.minutes)
        <5>1. e = f
          BY <3>2, <4>4
        <5>2. f.minutes <= m
          BY <4>2, <4>4, <1>1
        <5> QED BY <5>1, <5>2, <4>1, <3>2
      <4> QED BY <4>3, <4>4
    <3> QED BY <2>2, <3>1, <3>2
  <2>4. \A f \in Range(edges'[a]) : f.to = b => f = e
    BY <1>3, <2>3, OneEdge
  <2>5. J # {} /\ \E f \in Range(edges'[a]) : f.to = b
    BY <2>3
  <2> HIDE DEF J
  <2>6. Best(edges', links, J, a, b)
    BY <2>3, <2>4, <2>5 DEF Best
  <2> QED BY <2>6, <1>5 DEF J
<1>6. CASE ~ (a = x /\ b = y)
  <2>1. \A e : e.to = b => (e \in Range(edges'[a]) <=> e \in Range(edges[a]))
    <3>1. CASE a # x
      BY <3>1, <1>3
    <3>2. CASE a = x /\ b # y
      BY <3>2, <1>3, <1>4
    <3> QED BY <3>1, <3>2, <1>6
  <2>2. Best(edges', links, I, a, b)
    BY <2>1 DEF Best
  <2> QED BY <2>2, <1>6
<1> QED BY <1>5, <1>6

\* Offered, between the ids of two nodes; half says that the way back is due.
Given(links, n, p, q, half) ==
  {i \in 1..n : /\ {links[i].from, links[i].to} = {p, q}
                /\ i = n /\ half => links[i].from = p}

\* The call for the way there gives the next link to one of the two ways ...
LEMMA GivenThere ==
  ASSUME NEW links, NEW n \in Nat, NEW p, NEW q, p # q
  PROVE  Given(links, n + 1, p, q, TRUE) =
           IF p = links[n + 1].from /\ q = links[n + 1].to THEN Given(links, n, p, q, FALSE) \cup {n + 1}
           ELSE Given(links, n, p, q, FALSE)
<1> DEFINE between(i) == {links[i].from, links[i].to} = {p, q}
<1>1. 1..(n + 1) = 1..n \cup {n + 1} /\ \A i \in 1..n : i # n + 1
  OBVIOUS
<1>2. Given(links, n, p, q, FALSE) = {i \in 1..n : between(i)}
  BY DEF Given
<1>3. Given(links, n + 1, p, q, TRUE) =
        {i \in 1..(n + 1) : between(i) /\ (i = n + 1 => links[i].from = p)}
  BY DEF Given
<1>4. between(n + 1) /\ links[n + 1].from = p <=> p = links[n + 1].from /\ q = links[n + 1].to
  OBVIOUS
<1> HIDE DEF between
<1>5. Given(links, n + 1, p, q, TRUE) =
        {i \in 1..n : between(i)} \cup
          (IF between(n + 1) /\ links[n + 1].from = p THEN {n + 1} ELSE {})
  BY <1>1, <1>3
<1> QED BY <1>2, <1>4, <1>5

\* ... and the call for the way back to the other.
LEMMA GivenBack ==
  ASSUME NEW links, NEW n \in Nat \ {0}, NEW p, NEW q, p # q
  PROVE  Given(links, n, p, q, FALSE) =
           IF p = links[n].to /\ q = links[n].from THEN Given(links, n, p, q, TRUE) \cup {n}
           ELSE Given(links, n, p, q, TRUE)
<1> DEFINE between(i) == {links[i].from, links[i].to} = {p, q}
<1>1. n \in 1..n
  OBVIOUS
<1>2. Given(links, n, p, q, FALSE) = {i \in 1..n : between(i)}
  BY DEF Given
<1>3. Given(links, n, p, q, TRUE) = {i \in 1..n : between(i) /\ (i = n => links[i].from = p)}
  BY DEF Given
<1>4. between(n) /\ links[n].from # p <=> p = links[n].to /\ q = links[n].from
  OBVIOUS
<1> HIDE DEF between
<1>5. {i \in 1..n : between(i)} =
        {i \in 1..n : between(i) /\ (i = n => links[i].from = p)} \cup
          (IF between(n) /\ links[n].from # p THEN {n} ELSE {})
  BY <1>1
<1> QED BY <1>2, <1>3, <1>4, <1>5

\* LinksInv, of given values of the variables.
Kept(links, left, due, ns, es, half) ==
  LET n == Len(links) - Len(left)
  IN  /\ n >= 0
      /\ \A i \in DOMAIN left : left[i] = links[n + i]
      /\ half => n > 0 /\ due[1] = links[n]
      /\ \A a, b \in DOMAIN ns : a # b => Best(es, links, Given(links, n, ns[a], ns[b], half), a, b)

\* LinksInv before and after a step.
LEMMA LinksInvIs ==
  /\ LinksInv <=>
       (phase \in {"links", "done"} /\ ~failed =>
          Kept(Links(data), todo, back, nodes, edges, back # NoLink))
  /\ LinksInv' <=>
       (phase' \in {"links", "done"} /\ ~failed' =>
          Kept(Links(data)', todo', back', nodes', edges', back' # NoLink))
BY DEF LinksInv, Best, Kept, Given, Offered, Nodes

-----------------------------------------------------------------------------
(* The steps of data_loader_build_graph *)

GraphInv == GraphTypeOK /\ WellFormed /\ SameBothWays /\ TodoInv /\ NodesInv /\ HalfwayInv /\ LinksInv

\* The ids of the lists are what is to be done first.
LEMMA NodesStarted ==
  ASSUME LoaderTypeOK, GraphInv, StartNodes
  PROVE  GraphInv'
<1> USE DEF GraphInv
<1> DEFINE ids(list) == [n \in DOMAIN list |-> list[n].id]
<1>1. /\ phase = "load" /\ phase' = "nodes" /\ todo' = ids(data.stops) \o ids(data.stations)
      /\ UNCHANGED <<data, nodes, edges, back, mayFail, failed>> /\ nodes = <<>> /\ back = NoLink
  BY DEF StartNodes, Allocated, NodesInv, TodoInv
<1>2. data.stops \in Seq(StopRow) /\ data.stations \in Seq(StationRow)
  BY DataLists DEF LoaderTypeOK
<1>3. ids(data.stops) \in Seq(Ids) /\ Range(ids(data.stops)) = {s.id : s \in Range(data.stops)}
  <2>1. DOMAIN data.stops = 1..Len(data.stops) /\ Len(data.stops) \in Nat
    BY <1>2, LenProperties
  <2>2. \A n \in 1..Len(data.stops) : data.stops[n].id \in Ids
    <3> TAKE n \in 1..Len(data.stops)
    <3>1. data.stops[n] \in StopRow
      BY <1>2, ElementOfSeq
    <3> QED BY <3>1 DEF StopRow
  <2>3. ids(data.stops) \in [1..Len(data.stops) -> Ids]
    BY <2>1, <2>2
  <2>4. ids(data.stops) \in Seq(Ids)
    BY <2>1, <2>3, SeqOver
  <2>5. Range(ids(data.stops)) = {s.id : s \in Range(data.stops)}
    BY DEF Range
  <2> QED BY <2>4, <2>5
<1>4. ids(data.stations) \in Seq(Ids) /\ Range(ids(data.stations)) = {s.id : s \in Range(data.stations)}
  <2>1. DOMAIN data.stations = 1..Len(data.stations) /\ Len(data.stations) \in Nat
    BY <1>2, LenProperties
  <2>2. \A n \in 1..Len(data.stations) : data.stations[n].id \in Ids
    <3> TAKE n \in 1..Len(data.stations)
    <3>1. data.stations[n] \in StationRow
      BY <1>2, ElementOfSeq
    <3> QED BY <3>1 DEF StationRow
  <2>3. ids(data.stations) \in [1..Len(data.stations) -> Ids]
    BY <2>1, <2>2
  <2>4. ids(data.stations) \in Seq(Ids)
    BY <2>1, <2>3, SeqOver
  <2>5. Range(ids(data.stations)) = {s.id : s \in Range(data.stations)}
    BY DEF Range
  <2> QED BY <2>4, <2>5
<1> HIDE DEF ids
<1>5. todo' \in Seq(Ids) /\ Range(todo') = NodeIds
  <2> DEFINE p == ids(data.stops)
             q == ids(data.stations)
  <2>1. p \in Seq(Ids) /\ q \in Seq(Ids) /\ NodeIds = Range(p) \cup Range(q) /\ todo' = p \o q
    BY <1>1, <1>3, <1>4 DEF NodeIds
  <2> HIDE DEF p, q
  <2>2. p \o q \in Seq(Ids)
    BY <2>1, ConcatTwo
  <2>3. Range(p \o q) = Range(p) \cup Range(q)
    BY <2>1, ConcatTwo
  <2> QED BY <2>1, <2>2, <2>3
<1>6. Range(<<>>) = {}
  BY DEF Range
<1>7. GraphTypeOK' /\ WellFormed'
  BY <1>1 DEF GraphTypeOK, WellFormed, Nodes
<1>8. SameBothWays'
  BY <1>1 DEF SameBothWays, Nodes, Leads
<1>9. TodoInv'
  BY <1>1, <1>5 DEF TodoInv
<1>10. NodesInv'
  <2>1. NodeIds' = NodeIds
    BY <1>1 DEF NodeIds
  <2>2. \A a \in Nodes' : edges'[a] = <<>>
    BY <1>1 DEF NodesInv, Nodes
  <2> QED BY <1>1, <1>5, <1>6, <2>1, <2>2 DEF NodesInv
<1>11. HalfwayInv' /\ LinksInv'
  BY <1>1 DEF HalfwayInv, LinksInv
<1> QED BY <1>7, <1>8, <1>9, <1>10, <1>11

\* One of them becomes a node, unless it is one or memory runs out.
LEMMA NodeAdded ==
  ASSUME LoaderTypeOK, GraphInv, AddNode
  PROVE  GraphInv'
<1> USE DEF GraphInv
<1> DEFINE id == Head(todo)
<1>1. /\ phase = "nodes" /\ phase' = "nodes" /\ todo # <<>> /\ todo' = Tail(todo)
      /\ graph_add_node(id) /\ UNCHANGED <<data, back>> /\ back = NoLink
  BY DEF AddNode, TodoInv
<1>2. /\ todo \in Seq(Ids) /\ id \in Ids /\ todo' \in Seq(Ids)
      /\ Range(todo) = {id} \cup Range(todo')
  BY <1>1, HeadAndTail DEF TodoInv
<1>3. nodes \in Seq(Ids) /\ edges \in Seq(Seq(EdgeType)) /\ IsInjective(nodes) /\ Len(edges) = Len(nodes)
  BY DEF GraphTypeOK, WellFormed
<1>4. \A a \in Nodes : edges[a] = <<>>
  BY <1>1 DEF NodesInv
<1> HIDE DEF id
<1>5. /\ nodes' \in Seq(Ids) /\ edges' \in Seq(Seq(EdgeType))
      /\ IsInjective(nodes') /\ Len(edges') = Len(nodes')
      /\ \A a \in Nodes' : edges'[a] = <<>>
      /\ ~failed' => ~failed /\ Range(nodes') = Range(nodes) \cup {id}
  <2>1. CASE UNCHANGED <<nodes, edges>> /\ graph_find_node(id) # 0 /\ Allocated
    <3>1. id \in Range(nodes)
      BY <2>1, <1>3, FindNode
    <3> QED BY <2>1, <3>1, <1>3, <1>4 DEF Nodes, Allocated
  <2>2. CASE UNCHANGED <<nodes, edges>> /\ NoMemory
    <3>1. failed' = TRUE
      BY <2>2 DEF NoMemory
    <3> QED BY <2>2, <3>1, <1>3, <1>4 DEF Nodes
  <2>3. CASE /\ graph_find_node(id) = 0 /\ Allocated
             /\ nodes' = Append(nodes, id) /\ edges' = Append(edges, <<>>)
    <3>1. id \notin Range(nodes)
      BY <2>3, <1>3, FindNode
    <3>2. Range(nodes') = Range(nodes) \cup {id} /\ IsInjective(nodes')
      BY <2>3, <3>1, <1>2, <1>3, AppendOne
    <3>3. /\ nodes' \in Seq(Ids) /\ Len(nodes') = Len(nodes) + 1
          /\ Nodes = 1..Len(nodes) /\ Len(nodes) \in Nat /\ Nodes' = 1..(Len(nodes) + 1)
      BY <2>3, <1>2, <1>3, AppendProperties, LenProperties DEF Nodes
    <3>4. <<>> \in Seq(EdgeType)
      OBVIOUS
    <3>5. /\ edges' \in Seq(Seq(EdgeType)) /\ Len(edges') = Len(edges) + 1
          /\ \A a \in 1..Len(edges) : edges'[a] = edges[a]
          /\ edges'[Len(edges) + 1] = <<>>
      BY <2>3, <3>4, <1>3, AppendProperties
    <3>6. \A a \in Nodes' : edges'[a] = <<>>
      <4> TAKE a \in Nodes'
      <4>1. a \in 1..Len(edges) \/ a = Len(edges) + 1
        BY <3>3, <1>3
      <4>2. a \in 1..Len(edges) => edges[a] = <<>> /\ edges'[a] = edges[a]
        BY <3>3, <3>5, <1>3, <1>4
      <4> QED BY <4>1, <4>2, <3>5
    <3> QED BY <2>3, <3>2, <3>3, <3>5, <3>6, <1>3 DEF Allocated
  <2> QED BY <1>1, <2>1, <2>2, <2>3 DEF graph_add_node
<1>6. GraphTypeOK'
  BY <1>1, <1>5 DEF GraphTypeOK
<1>7. WellFormed' /\ SameBothWays'
  <2>1. Range(<<>>) = {} /\ DOMAIN <<>> = {}
    BY DEF Range
  <2> QED BY <1>5, <2>1 DEF WellFormed, SameBothWays
<1>8. TodoInv'
  BY <1>1, <1>2 DEF TodoInv
<1>9. NodesInv'
  <2>1. NodeIds' = NodeIds
    BY <1>1 DEF NodeIds
  <2>2. ~failed' => Range(nodes') \cup Range(todo') = NodeIds'
    BY <1>1, <1>2, <1>5, <2>1 DEF NodesInv
  <2> QED BY <1>1, <1>5, <2>2 DEF NodesInv
<1>10. HalfwayInv' /\ LinksInv'
  BY <1>1 DEF HalfwayInv, LinksInv
<1> QED BY <1>6, <1>7, <1>8, <1>9, <1>10

\* Then the links are to be done, and none is yet.
LEMMA LinksStarted ==
  ASSUME LoaderTypeOK, SoundReferences, GraphInv, StartLinks
  PROVE  GraphInv'
<1> USE DEF GraphInv
<1> DEFINE links == Links(data)
<1>1. /\ phase = "nodes" /\ phase' = "links" /\ todo = <<>> /\ todo' = links
      /\ UNCHANGED <<data, nodes, edges, back, mayFail, failed>> /\ back = NoLink
  BY DEF StartLinks, Allocated, TodoInv
<1>2. links \in Seq(LinkType) /\ Links(data)' = links
  BY <1>1, DataLinks, LinksStay
<1> HIDE DEF links
<1>3. \A a \in Nodes' : edges'[a] = <<>>
  BY <1>1 DEF NodesInv, Nodes
<1>4. Range(<<>>) = {}
  BY DEF Range
<1>5. GraphTypeOK' /\ WellFormed'
  BY <1>1 DEF GraphTypeOK, WellFormed, Nodes
<1>6. SameBothWays'
  BY <1>1 DEF SameBothWays, Nodes, Leads
<1>7. TodoInv'
  BY <1>1, <1>2 DEF TodoInv
<1>8. NodesInv'
  <2>1. NodeIds' = NodeIds
    BY <1>1 DEF NodeIds
  <2> QED BY <1>1, <1>4, <2>1 DEF NodesInv
<1>9. HalfwayInv'
  BY <1>1 DEF HalfwayInv
<1>10. LinksInv'
  <2>1. Len(links) \in Nat /\ Len(links) - Len(links) = 0 /\ DOMAIN links = 1..Len(links)
    BY <1>2, LenProperties
  <2>2. \A p, q : Given(links, 0, p, q, FALSE) = {}
    BY DEF Given
  <2>3. \A a, b \in DOMAIN nodes' : Best(edges', links, Given(links, 0, nodes'[a], nodes'[b], FALSE), a, b)
    BY <1>3, <1>4, <2>2 DEF Best, Nodes
  <2>5. Kept(links, links, back', nodes', edges', FALSE)
    <3> DEFINE n == Len(links) - Len(links)
    <3>1. n = 0
      BY <2>1
    <3> HIDE DEF n
    <3>2. n >= 0
      BY <3>1
    <3>3. \A i \in DOMAIN links : links[i] = links[n + i]
      BY <3>1, <2>1
    <3>4. \A a, b \in DOMAIN nodes' :
            a # b => Best(edges', links, Given(links, n, nodes'[a], nodes'[b], FALSE), a, b)
      <4>1. \A p, q : Given(links, n, p, q, FALSE) = {}
        BY <2>2, <3>1
      <4> QED BY <4>1, <2>2, <2>3
    <3> QED BY <3>2, <3>3, <3>4 DEF Kept, n
  <2>6. (back' # NoLink) = FALSE
    BY <1>1
  <2> QED BY <1>1, <1>2, <2>5, <2>6, LinksInvIs
<1> QED BY <1>5, <1>6, <1>7, <1>8, <1>9, <1>10

\* A call of graph_add_edge for link l of the links, the k-th, from node x to node y:
\* what it takes, and what it leaves as it is.
LEMMA CallTyped ==
  ASSUME LoaderTypeOK, GraphInv, NEW l \in LinkType,
         NEW x \in 0..Len(nodes), NEW y \in 0..Len(nodes),
         graph_add_edge(x, y, l.minutes, l.route), UNCHANGED <<data, nodes>>,
         phase \in {"links"}, phase' = phase
  PROVE  /\ Simple(edges) /\ Simple(edges') /\ nodes \in Seq(Ids) /\ IsInjective(nodes)
         /\ edges' \in Seq(Seq(EdgeType)) /\ WellFormed' /\ NodesInv'
         /\ ~failed' => ~failed
<1> USE DEF GraphInv
<1>1. nodes \in Seq(Ids) /\ IsInjective(nodes) /\ Simple(edges)
  BY WellFormedIs DEF GraphTypeOK
<1>2. l.minutes \in Nat \ {0} /\ l.route \in Seq(Routes)
  BY DEF LinkType
<1>3. Simple(edges')
  BY <1>1, <1>2, EdgeAdded
<1>4. edges' \in Seq(Seq(EdgeType))
  BY <1>3 DEF Simple
<1>5. WellFormed'
  BY <1>1, <1>3 DEF Simple, SimpleList, WellFormed, Nodes
<1>6. ~failed' => ~failed
  BY DEF graph_add_edge, NoMemory, Allocated
<1>7. NodesInv'
  BY <1>6 DEF NodesInv, NodeIds
<1> QED BY <1>1, <1>3, <1>4, <1>5, <1>6, <1>7

\* What it adds.
LEMMA CallAdds ==
  ASSUME nodes \in Seq(Ids), Simple(edges), NEW l \in LinkType,
         NEW x \in 0..Len(nodes), NEW y \in 0..Len(nodes), x # y, x # 0, y # 0,
         graph_add_edge(x, y, l.minutes, l.route), ~failed'
  PROVE  /\ \A z \in Nodes : z # x => edges'[z] = edges[z]
         /\ \/ /\ \A f \in Range(edges[x]) : f.to # y
               /\ Edge(y, l.minutes, l.route) \in Range(edges'[x])
            \/ \E f \in Range(edges[x]) :
                 /\ f.to = y
                 /\ (IF l.minutes < f.minutes THEN Edge(y, l.minutes, l.route) ELSE f) \in Range(edges'[x])
<1>1. l.minutes \in Nat \ {0} /\ l.route \in Seq(Routes)
  BY DEF LinkType
<1> QED BY <1>1, EdgeAdded

\* The edges of a node other than those to y stay, whatever is added from x to y.
LEMMA OtherWays ==
  ASSUME nodes \in Seq(Ids), Simple(edges), NEW l \in LinkType,
         NEW x \in 0..Len(nodes), NEW y \in 0..Len(nodes),
         graph_add_edge(x, y, l.minutes, l.route),
         NEW a \in Nodes, NEW b \in Nodes, ~ (a = x /\ b = y), NEW e, e.to = b
  PROVE  e \in Range(edges'[a]) <=> e \in Range(edges[a])
<1>1. l.minutes \in Nat \ {0} /\ l.route \in Seq(Routes)
  BY DEF LinkType
<1>2. /\ Simple(edges')
      /\ \A z \in Nodes : z # x => edges'[z] = edges[z]
      /\ x # 0 => \A f \in EdgeType : f.to # y => (f \in Range(edges'[x]) <=> f \in Range(edges[x]))
  BY <1>1, EdgeAdded
<1>3. Range(edges[a]) \subseteq EdgeType /\ Range(edges'[a]) \subseteq EdgeType /\ a # 0
  BY <1>2, EdgesOf
<1>4. CASE a # x
  BY <1>4, <1>2
<1>5. CASE a = x /\ b # y
  BY <1>5, <1>2, <1>3
<1> QED BY <1>4, <1>5

\* The call for the way there: the next link is offered for it, and the way back is due.
LEMMA ForwardAdded ==
  ASSUME LoaderTypeOK, SoundReferences, GraphInv, AddForward
  PROVE  GraphInv'
<1> USE DEF GraphInv
<1> DEFINE links == Links(data)
           l == Head(todo)
           u == graph_find_node(l.from)
           v == graph_find_node(l.to)
<1>1. /\ phase = "links" /\ back = NoLink /\ todo # <<>>
      /\ graph_add_edge(u, v, l.minutes, l.route) /\ back' = <<l>> /\ todo' = Tail(todo)
      /\ phase' = phase /\ data' = data /\ nodes' = nodes
  BY DEF AddForward
<1>2. links \in Seq(LinkType) /\ Links(data)' = links
      /\ \A id : graph_find_node(id)' = graph_find_node(id)
  BY <1>1, DataLinks, LinksStay
<1>3. /\ todo \in Seq(LinkType) /\ l \in LinkType /\ l = todo[1] /\ todo' \in Seq(LinkType)
      /\ Len(todo) \in Nat \ {0} /\ Len(todo') = Len(todo) - 1
      /\ \A i \in 1..Len(todo') : todo'[i] = todo[i + 1]
  BY <1>1, HeadAndTail DEF TodoInv
<1>4. u \in 0..Len(nodes) /\ v \in 0..Len(nodes)
  BY FindNode DEF GraphTypeOK
<1>5. back' # NoLink /\ Len(back') = 1 /\ back'[1] = l /\ back' \in Seq(LinkType)
  BY <1>1, <1>3 DEF NoLink
<1> HIDE DEF l, links
<1>6. /\ Simple(edges) /\ Simple(edges') /\ nodes \in Seq(Ids) /\ IsInjective(nodes)
      /\ edges' \in Seq(Seq(EdgeType)) /\ WellFormed' /\ NodesInv'
      /\ ~failed' => ~failed
  BY <1>1, <1>3, <1>4, CallTyped
<1>7. l.from \in Ids /\ l.to \in Ids /\ l.minutes \in Nat \ {0} /\ l.route \in Seq(Routes)
  BY <1>3 DEF LinkType
<1>8. \A a \in Nodes : (a = u <=> nodes[a] = l.from) /\ (a = v <=> nodes[a] = l.to)
  BY <1>6, FindNodeOf
<1> HIDE DEF u, v
<1>9. GraphTypeOK'
  <2>1. back' \in Seq([from : Ids, to : Ids, minutes : Nat, route : Seq(Routes)])
    <3>1. LinkType \subseteq [from : Ids, to : Ids, minutes : Nat, route : Seq(Routes)]
      BY DEF LinkType
    <3> QED BY <3>1, <1>5, SeqMonotonic
  <2> QED BY <2>1, <1>1, <1>6 DEF GraphTypeOK
<1>10. SameBothWays'
  BY <1>5 DEF SameBothWays
<1>11. TodoInv'
  BY <1>1, <1>3, <1>5 DEF TodoInv
<1>12. HalfwayInv'
  <2> SUFFICES ASSUME ~failed'
               PROVE  /\ \A a, b \in Nodes : {a, b} # {u, v} =>
                           \A e \in Range(edges'[a]) : e.to = b => Edge(a, e.minutes, e.route) \in Range(edges'[b])
                      /\ u # 0 /\ v # 0 /\ u # v =>
                           \/ /\ \A f \in Range(edges'[v]) : f.to # u
                              /\ Edge(v, l.minutes, l.route) \in Range(edges'[u])
                           \/ \E f \in Range(edges'[v]) :
                                /\ f.to = u
                                /\ IF l.minutes < f.minutes THEN Edge(v, l.minutes, l.route) \in Range(edges'[u])
                                   ELSE Edge(v, f.minutes, f.route) \in Range(edges'[u])
    BY <1>1, <1>2, <1>5 DEF HalfwayInv, Leads, Nodes, u, v
  <2>1. \A a, b \in Nodes : \A e \in Range(edges[a]) :
          e.to = b => Edge(a, e.minutes, e.route) \in Range(edges[b])
    BY <1>1, <1>6 DEF SameBothWays, Leads
  <2>2. ASSUME NEW a \in Nodes, NEW b \in Nodes, {a, b} # {u, v},
               NEW e \in Range(edges'[a]), e.to = b
        PROVE  Edge(a, e.minutes, e.route) \in Range(edges'[b])
    <3>1. ~ (a = u /\ b = v) /\ ~ (b = u /\ a = v)
      BY <2>2
    <3>2. e \in Range(edges[a])
      BY <2>2, <3>1, <1>1, <1>3, <1>4, <1>6, OtherWays
    <3>3. Edge(a, e.minutes, e.route) \in Range(edges[b])
      BY <2>1, <2>2, <3>2
    <3>4. Edge(a, e.minutes, e.route).to = a
      BY DEF Edge
    <3> DEFINE w == Edge(a, e.minutes, e.route)
    <3> HIDE DEF w
    <3>5. w \in Range(edges[b]) /\ w.to = a
      BY <3>3, <3>4 DEF w
    <3>6. w \in Range(edges'[b])
      BY <3>1, <3>5, <1>1, <1>3, <1>4, <1>6, OtherWays
    <3> QED BY <3>6 DEF w
  <2>3. ASSUME u # 0, v # 0, u # v
        PROVE  \/ /\ \A f \in Range(edges'[v]) : f.to # u
                  /\ Edge(v, l.minutes, l.route) \in Range(edges'[u])
               \/ \E f \in Range(edges'[v]) :
                    /\ f.to = u
                    /\ IF l.minutes < f.minutes THEN Edge(v, l.minutes, l.route) \in Range(edges'[u])
                       ELSE Edge(v, f.minutes, f.route) \in Range(edges'[u])
    <3>1. u \in Nodes /\ v \in Nodes
      BY <2>3, <1>4, <1>6, LenProperties DEF Nodes
    <3>2. /\ edges'[v] = edges[v]
          /\ \/ /\ \A f \in Range(edges[u]) : f.to # v
                /\ Edge(v, l.minutes, l.route) \in Range(edges'[u])
             \/ \E f \in Range(edges[u]) :
                  f.to = v /\ (IF l.minutes < f.minutes THEN Edge(v, l.minutes, l.route) ELSE f) \in Range(edges'[u])
      BY <2>3, <3>1, <1>1, <1>4, <1>6, <1>7, EdgeAdded
    <3>3. CASE /\ \A f \in Range(edges[u]) : f.to # v
               /\ Edge(v, l.minutes, l.route) \in Range(edges'[u])
      <4>1. ASSUME NEW f \in Range(edges[v]), f.to = u
            PROVE  FALSE
        <5>1. Edge(v, f.minutes, f.route) \in Range(edges[u])
          BY <2>1, <3>1, <4>1
        <5>2. Edge(v, f.minutes, f.route).to = v
          BY DEF Edge
        <5> QED BY <3>3, <5>1, <5>2
      <4> QED BY <3>2, <3>3, <4>1
    <3>4. ASSUME NEW f \in Range(edges[u]), f.to = v,
                 (IF l.minutes < f.minutes THEN Edge(v, l.minutes, l.route) ELSE f) \in Range(edges'[u])
          PROVE  \E g \in Range(edges'[v]) :
                    /\ g.to = u
                    /\ IF l.minutes < g.minutes THEN Edge(v, l.minutes, l.route) \in Range(edges'[u])
                       ELSE Edge(v, g.minutes, g.route) \in Range(edges'[u])
      <4> DEFINE g == Edge(u, f.minutes, f.route)
      <4>1. g \in Range(edges[v])
        BY <2>1, <3>1, <3>4
      <4>2. f \in EdgeType
        BY <3>1, <1>6, EdgesOf
      <4>3. g.to = u /\ g.minutes = f.minutes /\ g.route = f.route
        BY DEF Edge
      <4>4. f = Edge(v, f.minutes, f.route)
        BY <3>4, <4>2, EdgeIs
      <4> HIDE DEF g
      <4>5. CASE l.minutes < f.minutes
        BY <4>5, <3>2, <3>4, <4>1, <4>3
      <4>6. CASE ~ (l.minutes < f.minutes)
        BY <4>6, <3>2, <3>4, <4>1, <4>3, <4>4
      <4> QED BY <4>5, <4>6
    <3> QED BY <3>2, <3>3, <3>4
  <2> QED BY <2>2, <2>3
<1>13. LinksInv'
  <2> SUFFICES ASSUME ~failed' PROVE LinksInv'
    BY DEF LinksInv
  <2> DEFINE n == Len(links) - Len(todo)
  <2>1. (back # NoLink) = FALSE /\ (back' # NoLink) = TRUE
    BY <1>1, <1>5
  <2>2. Kept(links, todo, back, nodes, edges, FALSE)
    BY <1>1, <1>6, <2>1, LinksInvIs DEF links
  <2>3. Len(links) \in Nat /\ DOMAIN todo = 1..Len(todo) /\ DOMAIN todo' = 1..Len(todo')
    BY <1>2, <1>3, LenProperties
  <2>4. /\ n \in Nat /\ n + 1 \in 1..Len(links) /\ n + 1 > 0 /\ 1 \in DOMAIN todo
        /\ Len(links) - Len(todo') = n + 1
    BY <2>2, <2>3, <1>3 DEF Kept
  <2>5. /\ \A i \in DOMAIN todo : todo[i] = links[n + i]
        /\ \A a, b \in DOMAIN nodes : a # b => Best(edges, links, Given(links, n, nodes[a], nodes[b], FALSE), a, b)
    BY <2>2 DEF Kept
  <2> HIDE DEF n
  <2>6. links[n + 1] = l
    BY <2>4, <2>5, <1>3
  <2>7. ASSUME NEW i \in DOMAIN todo'
        PROVE  todo'[i] = links[(n + 1) + i]
    <3>1. i \in 1..Len(todo')
      BY <2>3
    <3>2. i + 1 \in 1..Len(todo) /\ n + (i + 1) = (n + 1) + i
      <4>1. Len(todo') = Len(todo) - 1 /\ Len(todo) \in Nat /\ n \in Nat
        BY <2>4, <1>3
      <4> DEFINE k == Len(todo')
      <4>2. i \in 1..k /\ Len(todo) = k + 1 /\ k \in Int
        BY <3>1, <4>1
      <4> HIDE DEF k
      <4>3. i + 1 \in 1..(k + 1) /\ n + (i + 1) = (n + 1) + i
        BY <4>1, <4>2
      <4> QED BY <4>2, <4>3
    <3>3. todo'[i] = todo[i + 1]
      BY <3>1, <1>3
    <3>4. todo[i + 1] = links[n + (i + 1)]
      BY <3>2, <2>3, <2>5
    <3> QED BY <3>2, <3>3, <3>4
  <2>8. ASSUME NEW a \in DOMAIN nodes, NEW b \in DOMAIN nodes, a # b
        PROVE  Best(edges', links, Given(links, n + 1, nodes[a], nodes[b], TRUE), a, b)
    <3> DEFINE I == Given(links, n, nodes[a], nodes[b], FALSE)
    <3>1. Best(edges, links, I, a, b)
      BY <2>5, <2>8
    <3>2. I \subseteq 1..Len(links)
      BY <2>3, <2>4 DEF Given
    <3>3. nodes[a] # nodes[b]
      BY <2>8, <1>6 DEF IsInjective
    <3>4. a = u /\ b = v <=> nodes[a] = l.from /\ nodes[b] = l.to
      BY <1>8 DEF Nodes
    <3>5. Given(links, n + 1, nodes[a], nodes[b], TRUE) =
            IF a = u /\ b = v THEN I \cup {n + 1} ELSE I
      <4>1. Given(links, n + 1, nodes[a], nodes[b], TRUE) =
              IF nodes[a] = l.from /\ nodes[b] = l.to THEN I \cup {n + 1} ELSE I
        BY <3>3, <2>4, <2>6, GivenThere
      <4> HIDE DEF I
      <4>2. CASE a = u /\ b = v
        BY <4>1, <4>2, <3>4
      <4>3. CASE ~ (a = u /\ b = v)
        BY <4>1, <4>3, <3>4
      <4> QED BY <4>2, <4>3
    <3> HIDE DEF I
    <3>6. Best(edges', links, IF a = u /\ b = v THEN I \cup {n + 1} ELSE I, a, b)
      BY <3>1, <3>2, <2>4, <2>6, <2>8, <1>1, <1>2, <1>4, <1>6, BestAfter DEF Nodes
    <3> QED BY <3>5, <3>6
  <2>9. Kept(links, todo', back', nodes', edges', TRUE)
    <3>1. Len(links) - Len(todo') >= 0 /\ Len(links) - Len(todo') > 0
      BY <2>4
    <3>2. back'[1] = links[Len(links) - Len(todo')]
      BY <2>4, <2>6, <1>5
    <3> QED BY <3>1, <3>2, <2>4, <2>7, <2>8, <1>1 DEF Kept
  <2> QED BY <2>1, <2>9, <1>1, <1>2, LinksInvIs
<1> QED BY <1>6, <1>9, <1>10, <1>11, <1>12, <1>13

\* The call for the way back makes the way there and the way back alike.
LEMMA BackwardAdded ==
  ASSUME LoaderTypeOK, SoundReferences, GraphInv, AddBackward
  PROVE  GraphInv'
<1> USE DEF GraphInv
<1> DEFINE links == Links(data)
           l == back[1]
           u == graph_find_node(l.from)
           v == graph_find_node(l.to)
<1>1. /\ phase = "links" /\ back # NoLink /\ back' = NoLink /\ l \in LinkType /\ Head(back) = l
      /\ phase' = phase /\ data' = data /\ nodes' = nodes /\ todo' = todo
  BY DEF AddBackward, TodoInv
<1>2. graph_add_edge(v, u, l.minutes, l.route)
  BY <1>1 DEF AddBackward
<1>3. links \in Seq(LinkType) /\ Links(data)' = links
  BY <1>1, DataLinks, LinksStay
<1>4. u \in 0..Len(nodes) /\ v \in 0..Len(nodes)
  BY FindNode DEF GraphTypeOK
<1> HIDE DEF links
<1>5. /\ Simple(edges) /\ Simple(edges') /\ nodes \in Seq(Ids) /\ IsInjective(nodes)
      /\ edges' \in Seq(Seq(EdgeType)) /\ WellFormed' /\ NodesInv'
      /\ ~failed' => ~failed
  BY <1>1, <1>2, <1>4, CallTyped
<1>6. l.from \in Ids /\ l.to \in Ids /\ l.minutes \in Nat \ {0} /\ l.route \in Seq(Routes)
  BY <1>1 DEF LinkType
<1>7. \A a \in Nodes : (a = u <=> nodes[a] = l.from) /\ (a = v <=> nodes[a] = l.to)
  BY <1>5, FindNodeOf
<1>8. ~failed =>
        /\ \A a, b \in Nodes : {a, b} # {u, v} =>
             \A e \in Range(edges[a]) : e.to = b => Edge(a, e.minutes, e.route) \in Range(edges[b])
        /\ u # 0 /\ v # 0 /\ u # v =>
             \/ /\ \A f \in Range(edges[v]) : f.to # u
                /\ Edge(v, l.minutes, l.route) \in Range(edges[u])
             \/ \E f \in Range(edges[v]) :
                  /\ f.to = u
                  /\ IF l.minutes < f.minutes THEN Edge(v, l.minutes, l.route) \in Range(edges[u])
                     ELSE Edge(v, f.minutes, f.route) \in Range(edges[u])
  BY <1>1 DEF HalfwayInv, Leads
<1> HIDE DEF u, v, l
<1>9. GraphTypeOK' /\ TodoInv' /\ HalfwayInv'
  BY <1>1, <1>5 DEF GraphTypeOK, TodoInv, HalfwayInv
<1>10. SameBothWays'
  <2> SUFFICES ASSUME ~failed', NEW a \in Nodes, NEW b \in Nodes,
                      NEW e \in Range(edges'[a]), e.to = b
               PROVE  Edge(a, e.minutes, e.route) \in Range(edges'[b])
    BY <1>1 DEF SameBothWays, Leads, Nodes
  <2>1. ~failed
    BY <1>5
  <2>2. CASE {a, b} # {u, v}
    <3>1. ~ (a = v /\ b = u) /\ ~ (b = v /\ a = u)
      BY <2>2
    <3>2. e \in Range(edges[a])
      BY <3>1, <1>1, <1>2, <1>4, <1>5, OtherWays
    <3> DEFINE w == Edge(a, e.minutes, e.route)
    <3>3. w \in Range(edges[b]) /\ w.to = a
      BY <3>2, <2>1, <2>2, <1>8 DEF Edge
    <3> HIDE DEF w
    <3>4. w \in Range(edges'[b])
      BY <3>1, <3>3, <1>1, <1>2, <1>4, <1>5, OtherWays
    <3> QED BY <3>4 DEF w
  <2>3. CASE {a, b} = {u, v}
    <3>1. a # b /\ e \in EdgeType
      <4>1. e.to \in Nodes \ {a}
        BY <1>5, <1>1 DEF WellFormed, Nodes, Range
      <4> QED BY <4>1, <1>5, EdgesOf
    <3>2. u \in Nodes /\ v \in Nodes /\ u # v /\ u # 0 /\ v # 0
      <4>1. a # 0 /\ b # 0
        BY <1>5, EdgesOf
      <4>2. (a = u /\ b = v) \/ (a = v /\ b = u)
        BY <2>3, <3>1
      <4> QED BY <4>1, <4>2, <3>1
    <3>3. /\ edges'[u] = edges[u]
          /\ \/ /\ \A f \in Range(edges[v]) : f.to # u
                /\ Edge(u, l.minutes, l.route) \in Range(edges'[v])
             \/ \E f \in Range(edges[v]) :
                  f.to = u /\ (IF l.minutes < f.minutes THEN Edge(u, l.minutes, l.route) ELSE f) \in Range(edges'[v])
      BY <3>2, <1>1, <1>2, <1>4, <1>5, CallAdds
    <3>4. \E m \in Nat, r \in Seq(Routes) :
             Edge(u, m, r) \in Range(edges'[v]) /\ Edge(v, m, r) \in Range(edges'[u])
      <4>1. CASE \A f \in Range(edges[v]) : f.to # u
        BY <4>1, <3>2, <3>3, <2>1, <1>6, <1>8
      <4>2. ASSUME NEW f \in Range(edges[v]), f.to = u
            PROVE  \E m \in Nat, r \in Seq(Routes) :
                     Edge(u, m, r) \in Range(edges'[v]) /\ Edge(v, m, r) \in Range(edges'[u])
        <5>1. \A g \in Range(edges[v]) : g.to = u => g = f
          BY <4>2, <3>2, <1>5, OneEdge
        <5>2. f \in EdgeType /\ f = Edge(u, f.minutes, f.route)
          BY <4>2, <3>2, <1>5, EdgesOf, EdgeIs
        <5>3. f.minutes \in Nat /\ f.route \in Seq(Routes)
          BY <5>2 DEF EdgeType
        <5>4. (IF l.minutes < f.minutes THEN Edge(u, l.minutes, l.route) ELSE f) \in Range(edges'[v])
          BY <3>3, <4>2, <5>1
        <5>5. IF l.minutes < f.minutes THEN Edge(v, l.minutes, l.route) \in Range(edges[u])
              ELSE Edge(v, f.minutes, f.route) \in Range(edges[u])
          BY <3>2, <4>2, <5>1, <2>1, <1>8
        <5>6. CASE l.minutes < f.minutes
          BY <5>4, <5>5, <5>6, <3>3, <1>6
        <5>7. CASE ~ (l.minutes < f.minutes)
          BY <5>2, <5>3, <5>4, <5>5, <5>7, <3>3
        <5> QED BY <5>6, <5>7
      <4> QED BY <4>1, <4>2
    <3>5. PICK m \in Nat, r \in Seq(Routes) :
             Edge(u, m, r) \in Range(edges'[v]) /\ Edge(v, m, r) \in Range(edges'[u])
      BY <3>4
    <3>6. \A z \in Nodes : z \in Nat
      BY <1>5, LenProperties DEF Nodes
    <3>7. CASE a = u /\ b = v
      <4>1. Edge(v, m, r).to = e.to /\ Edge(v, m, r).minutes = m /\ Edge(v, m, r).route = r
        BY <3>7 DEF Edge
      <4> DEFINE w == Edge(v, m, r)
      <4> HIDE DEF w
      <4>2. e = w
        BY <4>1, <3>5, <3>7, <3>2, <1>5, OneEdge DEF w
      <4> QED BY <4>1, <4>2, <3>5, <3>7 DEF w
    <3>8. CASE a = v /\ b = u
      <4>1. Edge(u, m, r).to = e.to /\ Edge(u, m, r).minutes = m /\ Edge(u, m, r).route = r
        BY <3>8 DEF Edge
      <4> DEFINE w == Edge(u, m, r)
      <4> HIDE DEF w
      <4>2. e = w
        BY <4>1, <3>5, <3>8, <3>2, <1>5, OneEdge DEF w
      <4> QED BY <4>1, <4>2, <3>5, <3>8 DEF w
    <3> QED BY <2>3, <3>1, <3>7, <3>8
  <2> QED BY <2>2, <2>3
<1>11. LinksInv'
  <2> SUFFICES ASSUME ~failed' PROVE LinksInv'
    BY DEF LinksInv
  <2> DEFINE n == Len(links) - Len(todo)
  <2>1. (back # NoLink) = TRUE /\ (back' # NoLink) = FALSE
    BY <1>1
  <2>2. Kept(links, todo, back, nodes, edges, TRUE)
    BY <1>1, <1>5, <2>1, LinksInvIs DEF links
  <2>3. Len(links) \in Nat /\ Len(todo) \in Nat
    BY <1>1, <1>3, LenProperties DEF TodoInv
  <2>4. n \in Nat \ {0} /\ n \in 1..Len(links) /\ links[n] = l
    BY <2>2, <2>3 DEF Kept, l
  <2>5. /\ \A i \in DOMAIN todo : todo[i] = links[n + i]
        /\ \A a, b \in DOMAIN nodes : a # b => Best(edges, links, Given(links, n, nodes[a], nodes[b], TRUE), a, b)
    BY <2>2 DEF Kept
  <2>6. n >= 0 /\ (FALSE => n > 0 /\ back'[1] = links[n])
    BY <2>4
  <2> HIDE DEF n
  <2>8. ASSUME NEW a \in DOMAIN nodes, NEW b \in DOMAIN nodes, a # b
        PROVE  Best(edges', links, Given(links, n, nodes[a], nodes[b], FALSE), a, b)
    <3> DEFINE I == Given(links, n, nodes[a], nodes[b], TRUE)
    <3>1. Best(edges, links, I, a, b)
      BY <2>5, <2>8
    <3>2. I \subseteq 1..Len(links)
      BY <2>3, <2>4 DEF Given
    <3>3. nodes[a] # nodes[b]
      BY <2>8, <1>5 DEF IsInjective
    <3>4. a = v /\ b = u <=> nodes[a] = l.to /\ nodes[b] = l.from
      BY <1>7 DEF Nodes
    <3>5. Given(links, n, nodes[a], nodes[b], FALSE) =
            IF a = v /\ b = u THEN I \cup {n} ELSE I
      <4>1. Given(links, n, nodes[a], nodes[b], FALSE) =
              IF nodes[a] = l.to /\ nodes[b] = l.from THEN I \cup {n} ELSE I
        BY <3>3, <2>4, GivenBack
      <4> HIDE DEF I
      <4>2. CASE a = v /\ b = u
        BY <4>1, <4>2, <3>4
      <4>3. CASE ~ (a = v /\ b = u)
        BY <4>1, <4>3, <3>4
      <4> QED BY <4>2, <4>3
    <3> HIDE DEF I
    <3>6. Best(edges', links, IF a = v /\ b = u THEN I \cup {n} ELSE I, a, b)
      BY <3>1, <3>2, <2>4, <2>8, <1>2, <1>3, <1>4, <1>5, BestAfter DEF Nodes
    <3> QED BY <3>5, <3>6
  <2>9. Kept(links, todo', back', nodes', edges', FALSE)
    BY <2>5, <2>6, <2>8, <1>1 DEF Kept, n
  <2> QED BY <2>1, <2>9, <1>1, <1>3, LinksInvIs
<1> QED BY <1>5, <1>9, <1>10, <1>11

\* No link is left.
LEMMA GraphFinished ==
  ASSUME LoaderTypeOK, SoundReferences, GraphInv, Finish
  PROVE  GraphInv'
<1> USE DEF GraphInv
<1>1. /\ phase = "links" /\ phase' = "done" /\ todo = <<>> /\ back = NoLink
      /\ UNCHANGED <<data, nodes, edges, todo, back, mayFail, failed>>
  BY DEF Finish, Allocated
<1>2. Links(data)' = Links(data)
  BY <1>1, LinksStay
<1>3. GraphTypeOK' /\ WellFormed' /\ SameBothWays' /\ TodoInv' /\ HalfwayInv'
  BY <1>1 DEF GraphTypeOK, WellFormed, SameBothWays, Nodes, Leads, TodoInv, HalfwayInv
<1>4. NodesInv'
  BY <1>1 DEF NodesInv, NodeIds
<1>5. LinksInv'
  BY <1>1, <1>2, LinksInvIs
<1> QED BY <1>3, <1>4, <1>5

\* A step that leaves lists and graph alone.
LEMMA GraphStays ==
  ASSUME GraphInv, UNCHANGED <<data, mayFail, failed, graphVars>>
  PROVE  GraphInv'
<1> USE DEF GraphInv
<1>1. UNCHANGED <<data, mayFail, failed, nodes, edges, todo, back, phase>>
  BY DEF graphVars
<1>2. Links(data)' = Links(data)
  BY <1>1, LinksStay
<1>3. GraphTypeOK' /\ WellFormed' /\ SameBothWays' /\ TodoInv' /\ HalfwayInv'
  <2>1. GraphTypeOK' /\ TodoInv'
    BY <1>1 DEF GraphTypeOK, TodoInv
  <2>2. WellFormed' /\ SameBothWays'
    BY <1>1 DEF WellFormed, SameBothWays, Nodes, Leads
  <2>3. HalfwayInv'
    BY <1>1 DEF HalfwayInv, Nodes, Leads, graph_find_node
  <2> QED BY <2>1, <2>2, <2>3
<1>4. NodesInv'
  BY <1>1 DEF NodesInv, NodeIds, Nodes
<1>5. LinksInv'
  BY <1>1, <1>2, LinksInvIs
<1> QED BY <1>3, <1>4, <1>5

\* A step of the loader, before there is a graph.
LEMMA GraphWaits ==
  ASSUME GraphInv, phase = "load", UNCHANGED graphVars
  PROVE  GraphInv'
<1> USE DEF GraphInv
<1>1. /\ UNCHANGED <<nodes, edges, todo, back, phase>>
      /\ nodes = <<>> /\ back = NoLink
  BY DEF graphVars, NodesInv, TodoInv
<1>2. GraphTypeOK' /\ WellFormed'
  BY <1>1 DEF GraphTypeOK, WellFormed, Nodes
<1>3. SameBothWays'
  BY <1>1 DEF SameBothWays, Nodes
<1>4. TodoInv' /\ NodesInv' /\ HalfwayInv' /\ LinksInv'
  BY <1>1 DEF TodoInv, NodesInv, HalfwayInv, LinksInv, Nodes
<1> QED BY <1>2, <1>3, <1>4

-----------------------------------------------------------------------------
(* What the lists hold *)

\* The files, and where each stands in their order.
Files == {"stops", "routes", "route_stops", "stations", "distances",
          "facilities", "arrivals", "crowdings"}

\* The order in which data_loader_load reads them.
LEMMA OrderIs ==
  /\ Len(Order) = 8 /\ Range(Order) = Files
  /\ Order[1] = "stops" /\ Order[2] = "routes" /\ Order[3] = "route_stops" /\ Order[4] = "stations"
  /\ Order[5] = "distances" /\ Order[6] = "facilities" /\ Order[7] = "arrivals"
  /\ Order[8] = "crowdings"
  /\ \A j, k \in 1..8 : Order[j] = Order[k] => j = k
<1>1. /\ Len(Order) = 8
      /\ Order[1] = "stops" /\ Order[2] = "routes" /\ Order[3] = "route_stops" /\ Order[4] = "stations"
      /\ Order[5] = "distances" /\ Order[6] = "facilities" /\ Order[7] = "arrivals"
      /\ Order[8] = "crowdings"
  BY DEF Order
<1>2. DOMAIN Order = 1..8
  BY DEF Order
<1>3. \A j \in 1..8 : j = 1 \/ j = 2 \/ j = 3 \/ j = 4 \/ j = 5 \/ j = 6 \/ j = 7 \/ j = 8
  OBVIOUS
<1>4. \A j, k \in 1..8 : Order[j] = Order[k] => j = k
  BY <1>1, <1>3
<1>5. Range(Order) = Files
  <2>1. Range(Order) = {Order[j] : j \in 1..8}
    BY <1>2 DEF Range
  <2>2. \A j \in 1..8 : Order[j] \in Files
    BY <1>1, <1>3 DEF Files
  <2>3. \A f \in Files : \E j \in 1..8 : f = Order[j]
    BY <1>1 DEF Files
  <2> QED BY <2>1, <2>2, <2>3
<1> QED BY <1>1, <1>4, <1>5

\* What the invariant says, of any files and lists.
RowsIn(fs, f) == IF fs[f].usable THEN fs[f].rows ELSE <<>>

ReadBy(fs, k, n) ==
  [f \in Range(Order) |-> IF \E j \in 1..(k - 1) : Order[j] = f THEN Len(RowsIn(fs, f))
                   ELSE IF ~ (k > Len(Order)) /\ Order[k] = f THEN n - 1 ELSE 0]

HoldIds(fs, f, list, m) == Lists(list, RowsIn(fs, f), FirstOfTheir("id", RowsIn(fs, f), m))

StopsIn(fs, no, m) ==
  {n \in 1..m : /\ RowsIn(fs, "route_stops")[n].route = no
                /\ RowsIn(fs, "route_stops")[n].stop \in IdsOf(RowsIn(fs, "stops")) \ {Blank}}

RouteIs(fs, route, row0, m) ==
  /\ route.no = row0.no
  /\ RunsOver(route.stops, RowsIn(fs, "route_stops"), StopsIn(fs, route.no, m))

HoldRoutes(fs, list, m, p) ==
  \E at \in LastFirst(list, FirstOfTheir("no", RowsIn(fs, "routes"), m)) :
    \A i \in DOMAIN list : RouteIs(fs, list[i], RowsIn(fs, "routes")[at[i]], p)

LinesAre(fs, line, from) ==
  \E n \in DOMAIN RowsIn(fs, "stations") :
    /\ line = RowsIn(fs, "stations")[n].lines
    /\ RowsIn(fs, "stations")[n].id = from
    /\ \A m \in 1..(n - 1) : RowsIn(fs, "stations")[m].id # from

MinutesAre(minutes, r) ==
  IF r.minutes > 0 THEN minutes = r.minutes
  ELSE \/ minutes = 2 /\ r.km < 125
       \/ minutes > 2 /\ 100 * minutes - 50 <= 2 * r.km /\ 2 * r.km < 100 * minutes + 50

DistanceIs(fs, d, r) ==
  /\ d.from = r.from /\ d.to = r.to
  /\ IF r.line # <<>> THEN d.line = r.line ELSE LinesAre(fs, d.line, r.from)
  /\ MinutesAre(d.minutes, r)

ConnectionsIn(fs, m) ==
  {n \in 1..m : {RowsIn(fs, "distances")[n].from, RowsIn(fs, "distances")[n].to}
                  \subseteq IdsOf(RowsIn(fs, "stations")) \ {Blank}}

HoldDistances(fs, list, m) ==
  \E at \in LastFirst(list, ConnectionsIn(fs, m)) :
    \A i \in DOMAIN list : DistanceIs(fs, list[i], RowsIn(fs, "distances")[at[i]])

HoldFacilities(fs, list, m) ==
  Lists(list, RowsIn(fs, "facilities"), {n \in 1..m : RowsIn(fs, "facilities")[n].id # Blank})

HoldAll(fs, f, list, m) == Lists(list, RowsIn(fs, f), 1..m)

Holds(fs, d, read) ==
  /\ \A f \in {"stops", "stations"} : HoldIds(fs, f, d[f], read[f])
  /\ HoldRoutes(fs, d.routes, read.routes, read.route_stops)
  /\ HoldDistances(fs, d.distances, read.distances)
  /\ HoldFacilities(fs, d.facilities, read.facilities)
  /\ \A f \in {"arrivals", "crowdings"} : HoldAll(fs, f, d[f], read[f])

FilledIn(d, f) == IF f = "route_stops" THEN \E i \in DOMAIN d.routes : d.routes[i].stops # <<>>
                  ELSE d[f] # <<>>

GoodIn(fs, d, f) == fs[f].usable /\ (f \in Optional \/ FilledIn(d, f))

FilesOK(fs, d, k, n, l, o, x) ==
  /\ ~ (k > Len(Order)) => n - 1 <= Len(RowsIn(fs, Order[k]))
  /\ ~x => /\ Holds(fs, d, ReadBy(fs, k, n))
           /\ o <=> \A j \in 1..(k - 1) : GoodIn(fs, d, Order[j])
           /\ ~ (k > Len(Order)) /\ Order[k] \notin Optional => (l > 0 <=> FilledIn(d, Order[k]))

\* These are the parts of the model's.
LEMMA FilesInvIs ==
  /\ FilesInv <=> FilesOK(files, data, reading, row, loaded, ok, failed)
  /\ FilesInv' <=> FilesOK(files', data', reading', row', loaded', ok', failed')
BY DEF FilesInv, FilesOK, RowsRead, ReadBy, Good, GoodIn, Filled, FilledIn, AllRead,
       Hold, Holds, HoldIds, HoldRoutes, RouteIs, StopsIn, HoldDistances, DistanceIs, LinesAre, MinutesAre,
       ConnectionsIn, HoldFacilities, HoldAll, Rows, RowsIn, StopsOf, Connections, IsDistanceOf

\* How many rows of each file have been read.
LEMMA ReadIs ==
  ASSUME NEW fs, NEW k \in 1..9, NEW n \in Int, NEW j \in 1..8
  PROVE  /\ j < k => ReadBy(fs, k, n)[Order[j]] = Len(RowsIn(fs, Order[j]))
         /\ j = k => ReadBy(fs, k, n)[Order[j]] = n - 1
         /\ j > k => ReadBy(fs, k, n)[Order[j]] = 0
<1>1. Order[j] \in Range(Order)
  <2>1. DOMAIN Order = 1..8
    BY DEF Order
  <2> QED BY <2>1 DEF Range
<1>2. ReadBy(fs, k, n)[Order[j]] =
        IF \E i \in 1..(k - 1) : Order[i] = Order[j] THEN Len(RowsIn(fs, Order[j]))
        ELSE IF ~ (k > Len(Order)) /\ Order[k] = Order[j] THEN n - 1 ELSE 0
  BY <1>1 DEF ReadBy
<1>3. (\E i \in 1..(k - 1) : Order[i] = Order[j]) <=> j < k
  <2>1. \A i \in 1..(k - 1) : i \in 1..8 /\ i < k
    OBVIOUS
  <2>2. j < k => j \in 1..(k - 1)
    OBVIOUS
  <2> QED BY <2>1, <2>2, OrderIs
<1>4. ~ (j < k) => (~ (k > Len(Order)) /\ Order[k] = Order[j] <=> j = k)
  <2>1. ~ (k > Len(Order)) <=> k \in 1..8
    BY OrderIs
  <2> QED BY <2>1, OrderIs
<1>5. CASE j < k
  BY <1>2, <1>3, <1>5
<1>6. CASE j = k
  <2>1. ~ (j < k)
    BY <1>6
  <2> QED BY <1>2, <1>3, <1>4, <1>6, <2>1
<1>7. CASE j > k
  <2>1. ~ (j < k) /\ j # k
    BY <1>7
  <2> QED BY <1>2, <1>3, <1>4, <1>7, <2>1
<1> QED BY <1>5, <1>6, <1>7

\* A file before the one at hand has been read to its end.
LEMMA ReadBefore ==
  ASSUME NEW fs, NEW k \in 1..9, NEW n \in Int, NEW j \in 1..8, j < k
  PROVE  ReadBy(fs, k, n)[Order[j]] = Len(RowsIn(fs, Order[j]))
BY ReadIs

\* Of the file at hand the rows before the next one have been read.
LEMMA ReadAt ==
  ASSUME NEW fs, NEW k \in 1..9, NEW n \in Int, NEW j \in 1..8, j = k
  PROVE  ReadBy(fs, k, n)[Order[j]] = n - 1
BY ReadIs

\* Of a file behind it nothing has been read.
LEMMA ReadLater ==
  ASSUME NEW fs, NEW k \in 1..9, NEW n \in Int, NEW j \in 1..8, j > k
  PROVE  ReadBy(fs, k, n)[Order[j]] = 0
BY ReadIs

\* The other files do not depend on the row.
LEMMA ReadElsewhere ==
  ASSUME NEW fs, NEW k \in 1..8, NEW n \in Int, NEW more \in Int, NEW f \in Files, f # Order[k]
  PROVE  ReadBy(fs, k, more)[f] = ReadBy(fs, k, n)[f]
<1>1. PICK j \in 1..8 : f = Order[j]
  BY OrderIs DEF Files
<1>2. k \in 1..9 /\ j # k
  BY <1>1
<1>3. CASE j < k
  <2>1. ReadBy(fs, k, n)[Order[j]] = Len(RowsIn(fs, Order[j]))
    BY <1>2, <1>3, ReadBefore
  <2>2. ReadBy(fs, k, more)[Order[j]] = Len(RowsIn(fs, Order[j]))
    BY <1>2, <1>3, ReadBefore
  <2> QED BY <1>1, <2>1, <2>2
<1>4. CASE j > k
  <2>1. ReadBy(fs, k, n)[Order[j]] = 0
    BY <1>2, <1>4, ReadLater
  <2>2. ReadBy(fs, k, more)[Order[j]] = 0
    BY <1>2, <1>4, ReadLater
  <2> QED BY <1>1, <2>1, <2>2
<1> QED BY <1>2, <1>3, <1>4

\* Behind the last row of a file, nothing of the next has been read.
LEMMA NextFile ==
  ASSUME NEW fs, NEW k \in 1..8, NEW next \in 1..9, next = k + 1, NEW n \in Int,
         n - 1 = Len(RowsIn(fs, Order[k])), NEW f \in Files
  PROVE  ReadBy(fs, next, 1)[f] = ReadBy(fs, k, n)[f]
<1>1. k \in 1..9 /\ 1 \in Int /\ 1 - 1 = 0
  OBVIOUS
<1>2. PICK j \in 1..8 : f = Order[j]
  BY OrderIs DEF Files
<1>3. CASE j < k
  <2>1. j < next
    BY <1>3
  <2>2. ReadBy(fs, k, n)[Order[j]] = Len(RowsIn(fs, Order[j]))
    BY <1>1, <1>3, ReadBefore
  <2>3. ReadBy(fs, next, 1)[Order[j]] = Len(RowsIn(fs, Order[j]))
    BY <1>1, <2>1, ReadBefore
  <2> QED BY <1>2, <2>2, <2>3
<1>4. CASE j = k
  <2>1. j < next
    BY <1>4
  <2>2. ReadBy(fs, k, n)[Order[j]] = n - 1
    BY <1>1, <1>4, ReadAt
  <2>3. ReadBy(fs, next, 1)[Order[j]] = Len(RowsIn(fs, Order[j]))
    BY <1>1, <2>1, ReadBefore
  <2> QED BY <1>2, <1>4, <2>2, <2>3
<1>5. CASE j > k
  <2>1. j = next \/ j > next
    BY <1>5
  <2>2. ReadBy(fs, k, n)[Order[j]] = 0
    BY <1>1, <1>5, ReadLater
  <2>3. ReadBy(fs, next, 1)[Order[j]] = 0
    <3>1. CASE j = next
      BY <1>1, <3>1, ReadAt
    <3>2. CASE j > next
      BY <1>1, <3>2, ReadLater
    <3> QED BY <2>1, <3>1, <3>2
  <2> QED BY <1>2, <2>2, <2>3
<1> QED BY <1>3, <1>4, <1>5

\* A list with one more in front, of the row that is next.
Follows(more, at, m, length) == more[1] = m + 1 /\ \A i \in 1..length : more[i + 1] = at[i]

\* A node in front of a list keeps the last row first.
LEMMA LastInFront ==
  ASSUME NEW S, NEW list \in Seq(S), NEW e \in S, NEW m \in Nat, NEW ns, ns \subseteq 1..m,
         NEW at \in LastFirst(list, ns)
  PROVE  \E more \in LastFirst(<<e>> \o list, ns \cup {m + 1}) : Follows(more, at, m, Len(list))
<1> DEFINE new == <<e>> \o list
           L == Len(list)
           more == [i \in 1..(L + 1) |-> IF i = 1 THEN m + 1 ELSE at[i - 1]]
<1>1. L \in Nat /\ DOMAIN list = 1..L /\ new \in Seq(S) /\ Len(new) = L + 1
  BY InFront, LenProperties
<1> HIDE DEF new
<1>2. DOMAIN new = 1..(L + 1)
  BY <1>1, LenProperties
<1> HIDE DEF L
<1>3. /\ at \in [1..L -> ns] /\ Range(at) = ns
      /\ \A i, j \in 1..L : i < j => at[i] > at[j]
  BY <1>1 DEF LastFirst
<1>4. more[1] = m + 1
  BY <1>1
<1>5. ASSUME NEW i \in 1..L PROVE more[i + 1] = at[i]
  <2>1. i + 1 \in 1..(L + 1) /\ i + 1 # 1 /\ (i + 1) - 1 = i
    BY <1>1
  <2> QED BY <2>1
<1>6. \A i \in 1..(L + 1) : i = 1 \/ (i - 1 \in 1..L /\ i = (i - 1) + 1)
  BY <1>1
<1>7. DOMAIN more = 1..(L + 1)
  OBVIOUS
<1>8. more = [i \in 1..(L + 1) |-> more[i]]
  OBVIOUS
<1> HIDE DEF more
<1>9. \A i \in 1..(L + 1) : more[i] \in ns \cup {m + 1}
  <2> TAKE i \in 1..(L + 1)
  <2>1. CASE i = 1
    BY <2>1, <1>4
  <2>2. CASE i - 1 \in 1..L /\ i = (i - 1) + 1
    <3>1. more[i] = at[i - 1]
      BY <2>2, <1>5
    <3> QED BY <3>1, <2>2, <1>3
  <2> QED BY <2>1, <2>2, <1>6
<1>10. more \in [1..(L + 1) -> ns \cup {m + 1}]
  BY <1>8, <1>9
<1>11. Range(more) = ns \cup {m + 1}
  <2>1. Range(more) \subseteq ns \cup {m + 1}
    BY <1>7, <1>9 DEF Range
  <2>2. ASSUME NEW x \in ns PROVE x \in Range(more)
    <3>1. PICK i \in 1..L : at[i] = x
      BY <1>3 DEF Range
    <3>2. i + 1 \in 1..(L + 1)
      BY <1>1
    <3> QED BY <3>1, <3>2, <1>5, <1>7 DEF Range
  <2>3. m + 1 \in Range(more)
    <3>1. 1 \in 1..(L + 1)
      BY <1>1
    <3> QED BY <3>1, <1>4, <1>7 DEF Range
  <2> QED BY <2>1, <2>2, <2>3
<1>12. ASSUME NEW i \in 1..(L + 1), NEW j \in 1..(L + 1), i < j PROVE more[i] > more[j]
  <2>1. j - 1 \in 1..L /\ j = (j - 1) + 1
    BY <1>1, <1>12
  <2>2. more[j] = at[j - 1] /\ at[j - 1] \in 1..m
    BY <2>1, <1>3, <1>5
  <2>3. CASE i = 1
    BY <2>2, <2>3, <1>4
  <2>4. CASE i # 1
    <3>1. i - 1 \in 1..L /\ i = (i - 1) + 1 /\ i - 1 < j - 1
      BY <2>4, <1>1, <1>12
    <3>2. more[i] = at[i - 1]
      BY <3>1, <1>5
    <3> QED BY <2>1, <2>2, <3>1, <3>2, <1>3
  <2> QED BY <2>3, <2>4
<1>13. more \in LastFirst(new, ns \cup {m + 1})
  BY <1>2, <1>10, <1>11, <1>12 DEF LastFirst
<1>14. Follows(more, at, m, L)
  BY <1>4, <1>5 DEF Follows
<1> QED BY <1>13, <1>14 DEF new, L

\* If it is that row, the list has one row more.
LEMMA ListsMore ==
  ASSUME NEW S, NEW list \in Seq(S), NEW m \in Nat, NEW rows, rows[m + 1] \in S,
         NEW ns, ns \subseteq 1..m, Lists(list, rows, ns)
  PROVE  Lists(<<rows[m + 1]>> \o list, rows, ns \cup {m + 1})
<1> DEFINE e == rows[m + 1]
           new == <<e>> \o list
<1>1. PICK at \in LastFirst(list, ns) : \A i \in DOMAIN list : list[i] = rows[at[i]]
  BY DEF Lists
<1>2. e \in S
  OBVIOUS
<1> HIDE DEF e
<1>3. PICK more \in LastFirst(new, ns \cup {m + 1}) : Follows(more, at, m, Len(list))
  BY <1>1, <1>2, LastInFront
<1>4. /\ new \in Seq(S) /\ Len(new) = Len(list) + 1 /\ new[1] = e
      /\ \A i \in 1..Len(list) : new[i + 1] = list[i]
  BY <1>2, InFront
<1> HIDE DEF new
<1>5. DOMAIN list = 1..Len(list) /\ Len(list) \in Nat /\ DOMAIN new = 1..(Len(list) + 1)
  BY <1>4, LenProperties
<1>6. ASSUME NEW i \in DOMAIN new PROVE new[i] = rows[more[i]]
  <2>1. CASE i = 1
    BY <2>1, <1>3, <1>4 DEF e, Follows
  <2>2. CASE i # 1
    <3>1. i - 1 \in 1..Len(list) /\ i = (i - 1) + 1
      BY <2>2, <1>5
    <3>2. new[i] = list[i - 1] /\ more[i] = at[i - 1]
      BY <3>1, <1>3, <1>4 DEF Follows
    <3> QED BY <3>1, <3>2, <1>1, <1>5
  <2> QED BY <2>1, <2>2
<1>7. Lists(new, rows, ns \cup {m + 1})
  BY <1>3, <1>6 DEF Lists
<1> QED BY <1>7 DEF new, e

\* One row more is the first to have its key, or not.
LEMMA FirstMore ==
  ASSUME NEW key, NEW rows, NEW m \in Nat
  PROVE  LET new == rows[m + 1][key] # Blank /\ \A n \in 1..m : rows[n][key] # rows[m + 1][key]
         IN  /\ new => FirstOfTheir(key, rows, m + 1) = FirstOfTheir(key, rows, m) \cup {m + 1}
             /\ ~new => FirstOfTheir(key, rows, m + 1) = FirstOfTheir(key, rows, m)
<1>1. 1..(m + 1) = 1..m \cup {m + 1} /\ (m + 1) - 1 = m /\ m + 1 \notin 1..m
  OBVIOUS
<1> DEFINE F(n) == rows[n][key] # Blank /\ \A k \in 1..(n - 1) : rows[k][key] # rows[n][key]
<1>2. \A x \in Nat : FirstOfTheir(key, rows, x) = {n \in 1..x : F(n)}
  BY DEF FirstOfTheir
<1>3. F(m + 1) <=> rows[m + 1][key] # Blank /\ \A n \in 1..m : rows[n][key] # rows[m + 1][key]
  BY <1>1
<1> HIDE DEF F
<1>4. m + 1 \in Nat
  OBVIOUS
<1>5. FirstOfTheir(key, rows, m) = {n \in 1..m : F(n)}
  BY <1>2
<1>6. FirstOfTheir(key, rows, m + 1) = {n \in 1..m : F(n)} \cup {n \in {m + 1} : F(n)}
  BY <1>1, <1>2, <1>4
<1>7. {n \in {m + 1} : F(n)} = IF F(m + 1) THEN {m + 1} ELSE {}
  OBVIOUS
<1> QED BY <1>3, <1>5, <1>6, <1>7

\* The keys of a list are those of the rows, without Blank.
LEMMA KeysAre ==
  ASSUME NEW list, NEW key, NEW rows, NEW m \in Nat,
         NEW at \in LastFirst(list, FirstOfTheir(key, rows, m)),
         \A i \in DOMAIN list : list[i][key] = rows[at[i]][key]
  PROVE  NamesIn(list, key) = {rows[n][key] : n \in 1..m} \ {Blank}
<1> DEFINE ns == FirstOfTheir(key, rows, m)
           F(n) == rows[n][key] # Blank /\ \A k \in 1..(n - 1) : rows[k][key] # rows[n][key]
<1>1. ns = {n \in 1..m : F(n)}
  BY DEF FirstOfTheir
<1>2. at \in [DOMAIN list -> ns] /\ Range(at) = ns
  BY DEF LastFirst
<1>3. ASSUME NEW x \in NamesIn(list, key) PROVE x \in {rows[n][key] : n \in 1..m} \ {Blank}
  <2>1. PICK i \in DOMAIN list : x = list[i][key]
    BY DEF NamesIn
  <2>2. at[i] \in 1..m /\ F(at[i])
    <3> HIDE DEF F
    <3> QED BY <1>1, <1>2
  <2> QED BY <2>1, <2>2
<1>4. ASSUME NEW n \in 1..m, rows[n][key] # Blank PROVE rows[n][key] \in NamesIn(list, key)
  <2> DEFINE same == {k \in 1..m : rows[k][key] = rows[n][key]}
  <2>1. same \subseteq Nat /\ n \in same
    OBVIOUS
  <2>2. \A k : k \in same <=> k \in 1..m /\ rows[k][key] = rows[n][key]
    OBVIOUS
  <2> HIDE DEF same
  <2>3. Min(same) \in same /\ \A k \in same : Min(same) <= k
    BY <2>1, LeastNumber
  <2>4. PICK first \in same : \A k \in same : first <= k
    BY <2>3
  <2>5. F(first)
    <3>1. rows[first][key] # Blank
      BY <2>2, <1>4
    <3>2. ASSUME NEW k \in 1..(first - 1) PROVE rows[k][key] # rows[first][key]
      <4>1. k \in 1..m /\ ~ (first <= k)
        BY <2>2
      <4>2. k \notin same
        BY <4>1, <2>4
      <4> QED BY <4>1, <4>2, <2>2
    <3> QED BY <3>1, <3>2
  <2>6. first \in ns
    <3> HIDE DEF F
    <3> QED BY <2>2, <2>5, <1>1
  <2>7. PICK i \in DOMAIN list : at[i] = first
    BY <1>2, <2>6 DEF Range
  <2> QED BY <2>2, <2>7 DEF NamesIn
<1> QED BY <1>3, <1>4

\* So the row that is next is the first to have its key if the list has nothing of it.
LEMMA FirstByList ==
  ASSUME NEW list, NEW key, NEW rows, NEW m \in Nat,
         NEW at \in LastFirst(list, FirstOfTheir(key, rows, m)),
         \A i \in DOMAIN list : list[i][key] = rows[at[i]][key],
         rows[m + 1][key] # Blank, rows[m + 1][key] \notin NamesIn(list, key)
  PROVE  FirstOfTheir(key, rows, m + 1) = FirstOfTheir(key, rows, m) \cup {m + 1}
<1>1. NamesIn(list, key) = {rows[n][key] : n \in 1..m} \ {Blank}
  BY KeysAre
<1>2. \A n \in 1..m : rows[n][key] # rows[m + 1][key]
  BY <1>1
<1> QED BY <1>2, FirstMore

\* Otherwise it is not.
LEMMA NotFirstByList ==
  ASSUME NEW list, NEW key, NEW rows, NEW m \in Nat,
         NEW at \in LastFirst(list, FirstOfTheir(key, rows, m)),
         \A i \in DOMAIN list : list[i][key] = rows[at[i]][key],
         ~ (rows[m + 1][key] # Blank /\ rows[m + 1][key] \notin NamesIn(list, key))
  PROVE  FirstOfTheir(key, rows, m + 1) = FirstOfTheir(key, rows, m)
<1>1. NamesIn(list, key) = {rows[n][key] : n \in 1..m} \ {Blank}
  BY KeysAre
<1>2. rows[m + 1][key] # Blank => \E n \in 1..m : rows[n][key] = rows[m + 1][key]
  BY <1>1
<1> QED BY <1>2, FirstMore

\* The index sets lie in what has been read.
LEMMA FirstsRead == \A key, rows, m : FirstOfTheir(key, rows, m) \subseteq 1..m
BY DEF FirstOfTheir

\* load_bus_stops and load_subway_stations: a row with a new id comes in front.
LEMMA IdsMore ==
  ASSUME NEW fs, NEW f, NEW S, NEW list \in Seq(S), NEW m \in Nat, HoldIds(fs, f, list, m)
  PROVE  LET r == RowsIn(fs, f)[m + 1]
         IN  /\ r \in S /\ r.id # Blank /\ r.id \notin NamesIn(list, "id")
                => HoldIds(fs, f, <<r>> \o list, m + 1)
             /\ ~ (r.id # Blank /\ r.id \notin NamesIn(list, "id")) => HoldIds(fs, f, list, m + 1)
<1> DEFINE rows == RowsIn(fs, f)
           r == rows[m + 1]
           ns == FirstOfTheir("id", rows, m)
<1>1. Lists(list, rows, ns)
  BY DEF HoldIds
<1>2. PICK at \in LastFirst(list, ns) : \A i \in DOMAIN list : list[i] = rows[at[i]]
  BY <1>1 DEF Lists
<1>3. ns \subseteq 1..m
  BY FirstsRead
<1> HIDE DEF rows
<1>4. \A i \in DOMAIN list : list[i]["id"] = rows[at[i]]["id"]
  BY <1>2
<1>6. ASSUME r \in S, r.id # Blank, r.id \notin NamesIn(list, "id")
      PROVE  HoldIds(fs, f, <<r>> \o list, m + 1)
  <2>1. Lists(<<r>> \o list, rows, ns \cup {m + 1})
    <3> HIDE DEF ns
    <3> QED BY <1>1, <1>3, <1>6, ListsMore
  <2>2. r["id"] # Blank /\ r["id"] \notin NamesIn(list, "id")
    BY <1>6
  <2>3. FirstOfTheir("id", rows, m + 1) = ns \cup {m + 1}
    BY <1>2, <1>4, <2>2, FirstByList
  <2> QED BY <2>1, <2>3 DEF HoldIds, rows
<1>7. ASSUME ~ (r.id # Blank /\ r.id \notin NamesIn(list, "id"))
      PROVE  HoldIds(fs, f, list, m + 1)
  <2>1. ~ (r["id"] # Blank /\ r["id"] \notin NamesIn(list, "id"))
    BY <1>7
  <2>2. FirstOfTheir("id", rows, m + 1) = ns
    BY <1>2, <1>4, <2>1, NotFirstByList
  <2> QED BY <2>2, <1>1 DEF HoldIds, rows
<1> QED BY <1>6, <1>7 DEF rows

\* Once all rows have been read, the ids of the list are those of the file.
LEMMA IdsAreRead ==
  ASSUME NEW fs, NEW f, NEW S, RowsIn(fs, f) \in Seq(S), NEW list,
         HoldIds(fs, f, list, Len(RowsIn(fs, f)))
  PROVE  NamesIn(list, "id") = IdsOf(RowsIn(fs, f)) \ {Blank}
<1> DEFINE rows == RowsIn(fs, f)
<1>1. rows \in Seq(S) /\ Len(rows) \in Nat /\ DOMAIN rows = 1..Len(rows)
  BY LenProperties
<1>2. PICK at \in LastFirst(list, FirstOfTheir("id", rows, Len(rows))) :
        \A i \in DOMAIN list : list[i] = rows[at[i]]
  BY DEF HoldIds, Lists
<1> HIDE DEF rows
<1>3. \A i \in DOMAIN list : list[i]["id"] = rows[at[i]]["id"]
  BY <1>2
<1>4. NamesIn(list, "id") = {rows[n]["id"] : n \in 1..Len(rows)} \ {Blank}
  BY <1>1, <1>2, <1>3, KeysAre
<1> QED BY <1>1, <1>4 DEF IdsOf, rows

\* A route without stops runs over no rows.
LEMMA RunsOverNothing ==
  ASSUME NEW rows
  PROVE  RunsOver(<<>>, rows, {})
<1> DEFINE at == [i \in {} |-> 0]
<1>1. DOMAIN <<>> = {} /\ at \in [{} -> {}] /\ DOMAIN at = {}
  OBVIOUS
<1>2. Range(at) = {}
  BY <1>1 DEF Range
<1> HIDE DEF at
<1> QED BY <1>1, <1>2 DEF RunsOver

\* load_bus_routes, with no row of route_stops read yet.
LEMMA RoutesMore ==
  ASSUME NEW fs, NEW list \in Seq(RouteRow), NEW m \in Nat, HoldRoutes(fs, list, m, 0)
  PROVE  LET no == RowsIn(fs, "routes")[m + 1].no
             new == [no |-> no, stops |-> <<>>]
         IN  /\ new \in RouteRow /\ no # Blank /\ no \notin NamesIn(list, "no")
                => HoldRoutes(fs, <<new>> \o list, m + 1, 0)
             /\ ~ (no # Blank /\ no \notin NamesIn(list, "no")) => HoldRoutes(fs, list, m + 1, 0)
<1> DEFINE rows == RowsIn(fs, "routes")
           no == rows[m + 1].no
           new == [no |-> no, stops |-> <<>>]
           ns == FirstOfTheir("no", rows, m)
<1>1. PICK at \in LastFirst(list, ns) : \A i \in DOMAIN list : RouteIs(fs, list[i], rows[at[i]], 0)
  BY DEF HoldRoutes
<1>2. ns \subseteq 1..m
  BY FirstsRead
<1>3. \A i \in DOMAIN list : list[i]["no"] = rows[at[i]]["no"]
  BY <1>1 DEF RouteIs
<1> HIDE DEF rows
<1>4. no = rows[m + 1]["no"]
  OBVIOUS
<1>5. RouteIs(fs, new, rows[m + 1], 0)
  <2>1. StopsIn(fs, no, 0) = {}
    <3>1. \A n \in 1..0 : FALSE
      OBVIOUS
    <3> QED BY <3>1 DEF StopsIn
  <2> QED BY <2>1, RunsOverNothing DEF RouteIs
<1>6. ASSUME new \in RouteRow, no # Blank, no \notin NamesIn(list, "no")
      PROVE  HoldRoutes(fs, <<new>> \o list, m + 1, 0)
  <2> DEFINE longer == <<new>> \o list
  <2> HIDE DEF new, ns
  <2>1. PICK more \in LastFirst(longer, ns \cup {m + 1}) : Follows(more, at, m, Len(list))
    BY <1>1, <1>2, <1>6, LastInFront
  <2>2. /\ longer \in Seq(RouteRow) /\ Len(longer) = Len(list) + 1 /\ longer[1] = new
        /\ \A i \in 1..Len(list) : longer[i + 1] = list[i]
    BY <1>6, InFront
  <2> HIDE DEF longer
  <2>3. DOMAIN list = 1..Len(list) /\ Len(list) \in Nat /\ DOMAIN longer = 1..(Len(list) + 1)
    BY <2>2, LenProperties
  <2>4. ASSUME NEW i \in DOMAIN longer PROVE RouteIs(fs, longer[i], rows[more[i]], 0)
    <3>1. CASE i = 1
      BY <3>1, <1>5, <2>1, <2>2 DEF Follows
    <3>2. CASE i # 1
      <4>1. i - 1 \in 1..Len(list) /\ i = (i - 1) + 1
        BY <3>2, <2>3
      <4>2. longer[i] = list[i - 1] /\ more[i] = at[i - 1]
        BY <4>1, <2>1, <2>2 DEF Follows
      <4> QED BY <4>1, <4>2, <1>1, <2>3
    <3> QED BY <3>1, <3>2
  <2>5. FirstOfTheir("no", rows, m + 1) = ns \cup {m + 1}
    BY <1>1, <1>3, <1>4, <1>6, FirstByList DEF ns
  <2> QED BY <2>1, <2>4, <2>5 DEF HoldRoutes, rows, longer
<1>7. ASSUME ~ (no # Blank /\ no \notin NamesIn(list, "no"))
      PROVE  HoldRoutes(fs, list, m + 1, 0)
  <2>1. FirstOfTheir("no", rows, m + 1) = ns
    BY <1>1, <1>3, <1>4, <1>7, NotFirstByList DEF ns
  <2> QED BY <2>1, <1>1 DEF HoldRoutes, rows
<1> QED BY <1>6, <1>7 DEF rows

\* load_facilities, load_arrivals, load_crowdings.
LEMMA FacilitiesMore ==
  ASSUME NEW fs, NEW S, NEW list \in Seq(S), NEW m \in Nat, HoldFacilities(fs, list, m)
  PROVE  LET r == RowsIn(fs, "facilities")[m + 1]
         IN  /\ r \in S /\ r.id # Blank => HoldFacilities(fs, <<r>> \o list, m + 1)
             /\ r.id = Blank => HoldFacilities(fs, list, m + 1)
<1> DEFINE rows == RowsIn(fs, "facilities")
           ns == {n \in 1..m : rows[n].id # Blank}
           r == rows[m + 1]
<1>1. Lists(list, rows, ns) /\ ns \subseteq 1..m
  BY DEF HoldFacilities
<1>2. 1..(m + 1) = 1..m \cup {m + 1} /\ m + 1 \notin 1..m
  OBVIOUS
<1>3. {n \in 1..(m + 1) : rows[n].id # Blank} = IF r.id # Blank THEN ns \cup {m + 1} ELSE ns
  BY <1>2
<1> HIDE DEF rows, ns
<1>4. r \in S => Lists(<<r>> \o list, rows, ns \cup {m + 1})
  BY <1>1, ListsMore
<1> QED BY <1>1, <1>3, <1>4 DEF HoldFacilities, rows

\* load_arrivals and load_crowdings keep every row.
LEMMA AllMore ==
  ASSUME NEW fs, NEW f, NEW S, NEW list \in Seq(S), NEW m \in Nat, HoldAll(fs, f, list, m),
         RowsIn(fs, f)[m + 1] \in S
  PROVE  HoldAll(fs, f, <<RowsIn(fs, f)[m + 1]>> \o list, m + 1)
<1> DEFINE rows == RowsIn(fs, f)
<1>1. Lists(list, rows, 1..m)
  BY DEF HoldAll
<1>2. 1..(m + 1) = 1..m \cup {m + 1} /\ 1..m \subseteq 1..m
  OBVIOUS
<1> HIDE DEF rows
<1>3. rows[m + 1] \in S
  BY DEF rows
<1>4. Lists(<<rows[m + 1]>> \o list, rows, 1..m \cup {m + 1})
  BY <1>1, <1>2, <1>3, ListsMore
<1> QED BY <1>2, <1>4 DEF HoldAll, rows

\* RunsOver, with the rows the stops are of.
CallOf(r) == [seq |-> r.seq, stop |-> r.stop]

Earlier(rows, x, y) == rows[x].seq < rows[y].seq \/ (rows[x].seq = rows[y].seq /\ x < y)

RunsAt(stops, rows, ns, at) ==
  /\ at \in [1..Len(stops) -> ns]
  /\ Range(at) = ns
  /\ \A i, j \in 1..Len(stops) : i < j => Earlier(rows, at[i], at[j])
  /\ \A i \in 1..Len(stops) : stops[i] = CallOf(rows[at[i]])

\* RunsOver, by a witness.
LEMMA RunsAtIs ==
  ASSUME NEW S, NEW stops \in Seq(S), NEW rows, NEW ns
  PROVE  RunsOver(stops, rows, ns) <=> \E at : RunsAt(stops, rows, ns, at)
<1>1. DOMAIN stops = 1..Len(stops)
  BY LenProperties
<1> QED BY <1>1 DEF RunsOver, RunsAt, Earlier, CallOf

\* The numbers of the rows are integers.
LEMMA SeqIsInt ==
  ASSUME NEW stops \in Seq(Call), NEW rows, NEW ns, NEW at, RunsAt(stops, rows, ns, at), NEW n \in ns
  PROVE  rows[n].seq \in Int /\ CallOf(rows[n]) \in Range(stops)
<1>1. PICK i \in 1..Len(stops) : at[i] = n
  BY DEF RunsAt, Range
<1>2. stops[i] = CallOf(rows[n]) /\ stops[i] \in Call
  BY <1>1, ElementOfSeq DEF RunsAt
<1>3. i \in DOMAIN stops
  BY LenProperties
<1>4. stops[i].seq = rows[n].seq
  BY <1>2 DEF CallOf
<1>5. stops[i].seq \in Int
  BY <1>2 DEF Call
<1>6. stops[i] \in Range(stops)
  BY <1>3 DEF Range
<1> QED BY <1>2, <1>4, <1>5, <1>6

\* What is kept of a route runs over the rows whose stops are kept.
LEMMA KeptRunsOver ==
  ASSUME NEW stops \in Seq(Call), NEW rows, NEW ns, RunsOver(stops, rows, ns), NEW T
  PROVE  RunsOver(Keep(stops, T), rows, {n \in ns : CallOf(rows[n]) \in T})
<1> DEFINE k == Keep(stops, T)
           kept == {n \in ns : CallOf(rows[n]) \in T}
<1>1. PICK at : RunsAt(stops, rows, ns, at)
  BY RunsAtIs
<1>2. PICK b : KeptAt(k, stops, T, b)
  BY KeepFacts
<1>3. k \in Seq(Call \cap T)
  BY KeepFacts
<1> HIDE DEF k
<1>4. Len(k) \in Nat /\ Len(stops) \in Nat /\ \A i \in 1..Len(k) : k[i] \in T
  BY <1>3, LenProperties, ElementOfSeq
<1> DEFINE on == [i \in 1..Len(k) |-> at[b[i]]]
<1>5. /\ at \in [1..Len(stops) -> ns] /\ Range(at) = ns
      /\ \A i \in 1..Len(stops) : stops[i] = CallOf(rows[at[i]])
  BY <1>1 DEF RunsAt
<1>6. /\ b \in [1..Len(k) -> 1..Len(stops)]
      /\ \A i \in 1..Len(k) : k[i] = stops[b[i]]
  BY <1>2 DEF KeptAt
<1>7. \A i \in 1..Len(k) : on[i] = at[b[i]]
  OBVIOUS
<1>8. DOMAIN on = 1..Len(k) /\ on = [i \in 1..Len(k) |-> on[i]]
  OBVIOUS
<1> HIDE DEF on
<1>9. \A i \in 1..Len(k) : on[i] \in ns /\ k[i] = CallOf(rows[on[i]])
  BY <1>5, <1>6, <1>7
<1>10. \A i \in 1..Len(k) : on[i] \in kept
  BY <1>4, <1>9
<1>11. on \in [1..Len(k) -> kept]
  BY <1>8, <1>10
<1>12. ASSUME NEW n \in kept PROVE n \in Range(on)
  <2>1. PICK j \in 1..Len(stops) : at[j] = n
    BY <1>5 DEF Range
  <2>2. stops[j] \in T
    BY <2>1, <1>5
  <2>3. PICK i \in 1..Len(k) : b[i] = j
    BY <2>2, <1>2 DEF KeptAt
  <2> QED BY <2>1, <2>3, <1>7, <1>8 DEF Range
<1>13. Range(on) = kept
  BY <1>8, <1>10, <1>12 DEF Range
<1>14. ASSUME NEW i \in 1..Len(k), NEW j \in 1..Len(k), i < j
       PROVE  Earlier(rows, on[i], on[j])
  <2>1. b[i] < b[j]
    BY <1>2, <1>14 DEF KeptAt
  <2>2. b[i] \in 1..Len(stops) /\ b[j] \in 1..Len(stops)
    BY <1>6
  <2>3. Earlier(rows, at[b[i]], at[b[j]])
    BY <2>1, <2>2, <1>1 DEF RunsAt
  <2> QED BY <2>3, <1>7
<1>15. RunsAt(k, rows, kept, on)
  BY <1>9, <1>11, <1>13, <1>14 DEF RunsAt
<1>16. RunsOver(k, rows, kept)
  BY <1>3, <1>15, RunsAtIs
<1> QED BY <1>16 DEF k

\* Two routes, one behind the other, if all rows of the first are earlier.
LEMMA BothRunOver ==
  ASSUME NEW s \in Seq(Call), NEW t \in Seq(Call), NEW rows, NEW ns, NEW ms,
         RunsOver(s, rows, ns), RunsOver(t, rows, ms),
         \A x \in ns : \A y \in ms : Earlier(rows, x, y)
  PROVE  RunsOver(s \o t, rows, ns \cup ms)
<1> DEFINE c == s \o t
           A == Len(s)
           B == Len(t)
<1>1. /\ c \in Seq(Call) /\ Len(c) = A + B
      /\ \A i \in 1..A : c[i] = s[i]
      /\ \A i \in 1..B : c[A + i] = t[i]
  BY ConcatTwo
<1>2. A \in Nat /\ B \in Nat
  BY LenProperties
<1> HIDE DEF c
<1>3. PICK f : RunsAt(s, rows, ns, f)
  BY RunsAtIs
<1>4. PICK g : RunsAt(t, rows, ms, g)
  BY RunsAtIs
<1>5. /\ f \in [1..A -> ns] /\ Range(f) = ns
      /\ \A i, j \in 1..A : i < j => Earlier(rows, f[i], f[j])
      /\ \A i \in 1..A : s[i] = CallOf(rows[f[i]])
  BY <1>3 DEF RunsAt
<1>6. /\ g \in [1..B -> ms] /\ Range(g) = ms
      /\ \A i, j \in 1..B : i < j => Earlier(rows, g[i], g[j])
      /\ \A i \in 1..B : t[i] = CallOf(rows[g[i]])
  BY <1>4 DEF RunsAt
<1> HIDE DEF A, B
<1> DEFINE at == [i \in 1..(A + B) |-> IF i <= A THEN f[i] ELSE g[i - A]]
<1>7. \A i \in 1..A : at[i] = f[i] /\ i \in 1..(A + B)
  BY <1>2
<1>8. ASSUME NEW i \in 1..B PROVE at[A + i] = g[i] /\ A + i \in 1..(A + B)
  <2>1. A + i \in 1..(A + B) /\ ~ (A + i <= A) /\ (A + i) - A = i
    BY <1>2
  <2> QED BY <2>1
<1>9. DOMAIN at = 1..(A + B) /\ at = [i \in 1..(A + B) |-> at[i]]
  OBVIOUS
<1> HIDE DEF at
<1>10. ASSUME NEW i \in 1..(A + B)
       PROVE  i \in 1..A \/ (i - A \in 1..B /\ i = A + (i - A))
  BY <1>2
<1>11. ASSUME NEW i \in 1..(A + B)
       PROVE  at[i] \in ns \cup ms /\ c[i] = CallOf(rows[at[i]])
  <2>1. CASE i \in 1..A
    BY <2>1, <1>1, <1>5, <1>7
  <2>2. CASE i - A \in 1..B /\ i = A + (i - A)
    <3> DEFINE j == i - A
    <3>1. j \in 1..B /\ i = A + j
      BY <2>2
    <3> HIDE DEF j
    <3>2. at[i] = g[j] /\ c[i] = t[j]
      BY <3>1, <1>1, <1>8
    <3> QED BY <3>1, <3>2, <1>6
  <2> QED BY <2>1, <2>2, <1>10
<1>12. at \in [1..(A + B) -> ns \cup ms]
  BY <1>9, <1>11
<1>13. Range(at) = ns \cup ms
  <2>1. ASSUME NEW x \in ns PROVE x \in Range(at)
    <3>1. PICK i \in 1..A : f[i] = x
      BY <1>5 DEF Range
    <3> QED BY <3>1, <1>7, <1>9 DEF Range
  <2>2. ASSUME NEW x \in ms PROVE x \in Range(at)
    <3>1. PICK i \in 1..B : g[i] = x
      BY <1>6 DEF Range
    <3> QED BY <3>1, <1>8, <1>9 DEF Range
  <2>3. Range(at) \subseteq ns \cup ms
    BY <1>9, <1>11 DEF Range
  <2> QED BY <2>1, <2>2, <2>3
<1>14. ASSUME NEW i \in 1..(A + B), NEW j \in 1..(A + B), i < j
       PROVE  Earlier(rows, at[i], at[j])
  <2>1. CASE j \in 1..A
    <3>1. i \in 1..A
      BY <2>1, <1>14, <1>2
    <3> QED BY <2>1, <3>1, <1>5, <1>7, <1>14
  <2>2. CASE j - A \in 1..B /\ j = A + (j - A)
    <3>1. at[j] = g[j - A]
      BY <2>2, <1>8
    <3>2. CASE i \in 1..A
      <4>1. at[i] \in ns /\ at[j] \in ms
        BY <2>2, <3>1, <3>2, <1>5, <1>6, <1>7
      <4> QED BY <4>1
    <3>3. CASE i - A \in 1..B /\ i = A + (i - A)
      <4>1. at[i] = g[i - A] /\ i - A < j - A
        BY <3>3, <1>2, <1>8, <1>14
      <4> QED BY <2>2, <3>1, <3>3, <4>1, <1>6
    <3> QED BY <3>2, <3>3, <1>10
  <2> QED BY <2>1, <2>2, <1>10
<1>15. RunsAt(c, rows, ns \cup ms, at)
  BY <1>1, <1>11, <1>12, <1>13, <1>14 DEF RunsAt
<1>16. RunsOver(c, rows, ns \cup ms)
  BY <1>1, <1>15, RunsAtIs
<1> QED BY <1>16 DEF c

\* route_stop_add: the stop of the row that is next comes to where its number belongs, behind
\* those of earlier rows with the same number.
LEMMA RunsMore ==
  ASSUME NEW stops \in Seq(Call), NEW rows, NEW m \in Nat, NEW ns, ns \subseteq 1..m,
         RunsOver(stops, rows, ns), CallOf(rows[m + 1]) \in Call
  PROVE  RunsOver(route_stop_add(stops, CallOf(rows[m + 1])), rows, ns \cup {m + 1})
<1> DEFINE s == CallOf(rows[m + 1])
           low  == {t \in Range(stops) : t.seq <= s.seq}
           high == {t \in Range(stops) : t.seq > s.seq}
           a == Keep(stops, low)
           b == Keep(stops, high)
           one == <<s>>
           before == {n \in ns : CallOf(rows[n]) \in low}
           behind == {n \in ns : CallOf(rows[n]) \in high}
<1>1. route_stop_add(stops, s) = (a \o one) \o b
  BY DEF route_stop_add
<1>2. PICK at : RunsAt(stops, rows, ns, at)
  BY RunsAtIs
<1>3. s \in Call /\ s.seq = rows[m + 1].seq /\ rows[m + 1].seq \in Int
  BY DEF CallOf, Call
<1>4. ASSUME NEW n \in ns
      PROVE  /\ rows[n].seq \in Int /\ n \in 1..m
             /\ n \in before => rows[n].seq <= rows[m + 1].seq
             /\ n \in behind => rows[n].seq > rows[m + 1].seq
             /\ n \in before \/ n \in behind
  <2>1. rows[n].seq \in Int /\ CallOf(rows[n]) \in Range(stops)
    BY <1>2, SeqIsInt
  <2>2. CallOf(rows[n]).seq = rows[n].seq
    BY DEF CallOf
  <2> HIDE DEF s
  <2>3. n \in before <=> rows[n].seq <= rows[m + 1].seq
    BY <2>1, <2>2, <1>3
  <2>4. n \in behind <=> rows[n].seq > rows[m + 1].seq
    BY <2>1, <2>2, <1>3
  <2> QED BY <2>1, <2>3, <2>4, <1>3
<1>5. RunsOver(a, rows, before) /\ a \in Seq(Call)
  <2>1. a \in Seq(Call \cap low)
    BY KeepFacts
  <2>2. a \in Seq(Call)
    BY <2>1, SeqMonotonic
  <2> QED BY <2>2, KeptRunsOver
<1>6. RunsOver(b, rows, behind) /\ b \in Seq(Call)
  <2>1. b \in Seq(Call \cap high)
    BY KeepFacts
  <2>2. b \in Seq(Call)
    BY <2>1, SeqMonotonic
  <2> QED BY <2>2, KeptRunsOver
<1>7. RunsOver(one, rows, {m + 1}) /\ one \in Seq(Call)
  <2> DEFINE o == [i \in 1..1 |-> m + 1]
  <2> HIDE DEF s
  <2>1. one \in Seq(Call) /\ Len(one) = 1 /\ one[1] = s
    BY <1>3
  <2>2. \A i \in 1..1 : i = 1
    OBVIOUS
  <2>3. o \in [1..1 -> {m + 1}] /\ DOMAIN o = 1..1 /\ o[1] = m + 1
    OBVIOUS
  <2> HIDE DEF o, one
  <2>4. Range(o) = {m + 1}
    BY <2>2, <2>3 DEF Range
  <2>5. \A i, j \in 1..1 : ~ (i < j)
    OBVIOUS
  <2>6. one[1] = CallOf(rows[o[1]])
    BY <2>1, <2>3 DEF s
  <2>7. RunsAt(one, rows, {m + 1}, o)
    BY <2>1, <2>2, <2>3, <2>4, <2>5, <2>6 DEF RunsAt
  <2> QED BY <2>1, <2>7, RunsAtIs
<1> HIDE DEF a, b, one, s
<1>8. \A x \in before : \A y \in {m + 1} : Earlier(rows, x, y)
  <2> TAKE x \in before
  <2>1. x \in ns
    OBVIOUS
  <2>2. rows[x].seq \in Int /\ x \in 1..m /\ rows[x].seq <= rows[m + 1].seq
    <3> HIDE DEF before, behind
    <3> QED BY <2>1, <1>4
  <2>3. x < m + 1
    BY <2>2
  <2>4. rows[x].seq < rows[m + 1].seq \/ rows[x].seq = rows[m + 1].seq
    BY <2>2, <1>3
  <2> QED BY <2>3, <2>4 DEF Earlier
<1>9. RunsOver(a \o one, rows, before \cup {m + 1})
  <2> HIDE DEF before
  <2> QED BY <1>5, <1>7, <1>8, BothRunOver
<1>10. \A x \in before \cup {m + 1} : \A y \in behind : Earlier(rows, x, y)
  <2> TAKE x \in before \cup {m + 1}
  <2> TAKE y \in behind
  <2>1. y \in ns
    OBVIOUS
  <2>2. rows[y].seq \in Int /\ rows[y].seq > rows[m + 1].seq
    <3> HIDE DEF before, behind
    <3> QED BY <2>1, <1>4
  <2>3. rows[x].seq \in Int /\ rows[x].seq <= rows[m + 1].seq
    <3>1. CASE x = m + 1
      BY <3>1, <1>3
    <3>2. CASE x \in before
      <4>1. x \in ns
        BY <3>2
      <4> HIDE DEF before, behind
      <4> QED BY <3>2, <4>1, <1>4
    <3> QED BY <3>1, <3>2
  <2>4. rows[x].seq < rows[y].seq
    BY <2>2, <2>3, <1>3
  <2> QED BY <2>4 DEF Earlier
<1>11. a \o one \in Seq(Call)
  BY <1>5, <1>7, ConcatTwo
<1>12. RunsOver((a \o one) \o b, rows, (before \cup {m + 1}) \cup behind)
  <2> HIDE DEF before, behind
  <2> QED BY <1>6, <1>9, <1>10, <1>11, BothRunOver
<1>13. (before \cup {m + 1}) \cup behind = ns \cup {m + 1}
  <2>1. before \subseteq ns /\ behind \subseteq ns
    OBVIOUS
  <2> HIDE DEF before, behind
  <2> QED BY <2>1, <1>4
<1> QED BY <1>1, <1>12, <1>13 DEF s

\* One row of route_stops more: it says something of one route, or of none.
SaysStop(fs, p) ==
  RowsIn(fs, "route_stops")[p].stop \in IdsOf(RowsIn(fs, "stops")) \ {Blank}

\* The row counts for the route it names and for no other.
LEMMA StopsInMore ==
  ASSUME NEW fs, NEW p \in Nat, NEW no
  PROVE  LET new == RowsIn(fs, "route_stops")[p + 1].route = no /\ SaysStop(fs, p + 1)
         IN  /\ new => StopsIn(fs, no, p + 1) = StopsIn(fs, no, p) \cup {p + 1}
             /\ ~new => StopsIn(fs, no, p + 1) = StopsIn(fs, no, p)
<1> DEFINE F(n) == RowsIn(fs, "route_stops")[n].route = no /\ SaysStop(fs, n)
<1>1. \A x \in Nat : StopsIn(fs, no, x) = {n \in 1..x : F(n)}
  BY DEF StopsIn, SaysStop
<1>2. 1..(p + 1) = 1..p \cup {p + 1} /\ p + 1 \in Nat
  OBVIOUS
<1> HIDE DEF F
<1>3. F(p + 1) => StopsIn(fs, no, p + 1) = StopsIn(fs, no, p) \cup {p + 1}
  BY <1>1, <1>2
<1>4. ~F(p + 1) => StopsIn(fs, no, p + 1) = StopsIn(fs, no, p)
  BY <1>1, <1>2
<1> QED BY <1>3, <1>4 DEF F

\* Only rows that were read count.
LEMMA StopsRead == \A fs, no, p : StopsIn(fs, no, p) \subseteq 1..p
BY DEF StopsIn

\* load_route_stops, for a row that is wanted.
LEMMA RouteStopsMore ==
  ASSUME NEW fs, NEW list \in Seq(RouteRow), NEW m \in Nat, NEW p \in Nat,
         HoldRoutes(fs, list, m, p), SaysStop(fs, p + 1),
         CallOf(RowsIn(fs, "route_stops")[p + 1]) \in Call,
         NEW new \in Seq(RouteRow), Len(new) = Len(list),
         \A i \in 1..Len(list) :
           /\ list[i].no # RowsIn(fs, "route_stops")[p + 1].route => new[i] = list[i]
           /\ list[i].no = RowsIn(fs, "route_stops")[p + 1].route =>
                /\ new[i].no = list[i].no
                /\ new[i].stops = route_stop_add(list[i].stops, CallOf(RowsIn(fs, "route_stops")[p + 1]))
  PROVE  HoldRoutes(fs, new, m, p + 1)
<1> DEFINE rows == RowsIn(fs, "route_stops")
           heads == RowsIn(fs, "routes")
           ns == FirstOfTheir("no", heads, m)
<1>1. PICK at \in LastFirst(list, ns) : \A i \in DOMAIN list : RouteIs(fs, list[i], heads[at[i]], p)
  BY DEF HoldRoutes
<1> HIDE DEF ns, heads
<1>2. DOMAIN list = 1..Len(list) /\ DOMAIN new = 1..Len(list)
  BY LenProperties
<1>3. at \in LastFirst(new, ns)
  BY <1>1, <1>2 DEF LastFirst
<1>4. ASSUME NEW i \in 1..Len(list) PROVE RouteIs(fs, new[i], heads[at[i]], p + 1)
  <2> DEFINE no == list[i].no
  <2>1. no = heads[at[i]].no /\ RunsOver(list[i].stops, rows, StopsIn(fs, no, p))
    BY <1>1, <1>2 DEF RouteIs
  <2>2. CASE no # rows[p + 1].route
    <3>1. new[i] = list[i]
      BY <2>2
    <3>2. StopsIn(fs, no, p + 1) = StopsIn(fs, no, p)
      BY <2>2, StopsInMore
    <3> QED BY <2>1, <3>1, <3>2 DEF RouteIs
  <2>3. CASE no = rows[p + 1].route
    <3>1. new[i].no = no /\ new[i].stops = route_stop_add(list[i].stops, CallOf(rows[p + 1]))
      BY <2>3
    <3>2. StopsIn(fs, no, p + 1) = StopsIn(fs, no, p) \cup {p + 1}
      BY <2>3, StopsInMore
    <3>3. list[i].stops \in Seq(Call)
      <4>1. list[i] \in RouteRow
        BY ElementOfSeq
      <4> QED BY <4>1 DEF RouteRow
    <3>4. StopsIn(fs, no, p) \subseteq 1..p
      BY StopsRead
    <3>5. CallOf(rows[p + 1]) \in Call
      OBVIOUS
    <3> DEFINE stops == list[i].stops
               said == StopsIn(fs, no, p)
    <3> HIDE DEF rows, no, stops, said
    <3>6. RunsOver(route_stop_add(stops, CallOf(rows[p + 1])), rows, said \cup {p + 1})
      <4>1. stops \in Seq(Call) /\ said \subseteq 1..p /\ RunsOver(stops, rows, said)
        BY <2>1, <3>3, <3>4 DEF stops, said
      <4> QED BY <4>1, <3>5, RunsMore
    <3>7. RunsOver(new[i].stops, rows, StopsIn(fs, no, p + 1))
      BY <3>1, <3>2, <3>6 DEF stops, said
    <3> QED BY <2>1, <3>1, <3>7 DEF RouteIs, rows
  <2> QED BY <2>2, <2>3
<1> QED BY <1>2, <1>3, <1>4 DEF HoldRoutes, ns, heads

\* The same for one that is not.
LEMMA RouteStopsSame ==
  ASSUME NEW fs, NEW list \in Seq(RouteRow), NEW m \in Nat, NEW p \in Nat, HoldRoutes(fs, list, m, p),
         SaysStop(fs, p + 1) => RowsIn(fs, "route_stops")[p + 1].route \notin NamesIn(list, "no")
  PROVE  HoldRoutes(fs, list, m, p + 1)
<1> DEFINE heads == RowsIn(fs, "routes")
           ns == FirstOfTheir("no", heads, m)
<1>1. PICK at \in LastFirst(list, ns) : \A i \in DOMAIN list : RouteIs(fs, list[i], heads[at[i]], p)
  BY DEF HoldRoutes
<1> HIDE DEF ns, heads
<1>2. ASSUME NEW i \in DOMAIN list PROVE RouteIs(fs, list[i], heads[at[i]], p + 1)
  <2>1. list[i].no \in NamesIn(list, "no")
    BY DEF NamesIn
  <2>2. StopsIn(fs, list[i].no, p + 1) = StopsIn(fs, list[i].no, p)
    BY <2>1, StopsInMore
  <2>3. RouteIs(fs, list[i], heads[at[i]], p)
    BY <1>1
  <2> QED BY <2>2, <2>3 DEF RouteIs
<1> QED BY <1>1, <1>2 DEF HoldRoutes, ns, heads

\* The routes of the list are those of the file.
LEMMA RouteNamesAre ==
  ASSUME NEW fs, NEW list, NEW m \in Nat, NEW p, HoldRoutes(fs, list, m, p)
  PROVE  Blank \notin NamesIn(list, "no")
<1> DEFINE heads == RowsIn(fs, "routes")
<1>1. PICK at \in LastFirst(list, FirstOfTheir("no", heads, m)) :
        \A i \in DOMAIN list : RouteIs(fs, list[i], heads[at[i]], p)
  BY DEF HoldRoutes
<1> HIDE DEF heads
<1>2. \A i \in DOMAIN list : list[i]["no"] = heads[at[i]]["no"]
  BY <1>1 DEF RouteIs
<1>3. NamesIn(list, "no") = {heads[n]["no"] : n \in 1..m} \ {Blank}
  BY <1>1, <1>2, KeysAre
<1> QED BY <1>3

\* The minutes of a distance.
LEMMA MinutesRight ==
  ASSUME NEW r, r.km \in Int, r.minutes \in Int
  PROVE  MinutesAre(IF r.minutes > 0 THEN r.minutes ELSE subway_minutes_from_distance(r.km), r)
<1> DEFINE km == r.km
           x == (2 * km + 50) \div 100
           min == subway_minutes_from_distance(km)
<1>1. km \in Int /\ x \in Int /\ 100 * x <= 2 * km + 50 /\ 2 * km + 50 < 100 * x + 100
  OBVIOUS
<1>2. min = IF km <= 0 \/ x < 2 THEN 2 ELSE x
  BY DEF subway_minutes_from_distance
<1> HIDE DEF x, min, km
<1>3. CASE km <= 0 \/ x < 2
  <2>1. min = 2 /\ km < 125
    BY <1>1, <1>2, <1>3
  <2> QED BY <2>1 DEF MinutesAre, min, km
<1>4. CASE ~ (km <= 0 \/ x < 2)
  <2>1. min = x /\ x >= 2
    BY <1>1, <1>2, <1>4
  <2>2. CASE x = 2
    <3>1. min = 2 /\ km < 125
      BY <1>1, <2>1, <2>2
    <3> QED BY <3>1 DEF MinutesAre, min, km
  <2>3. CASE x > 2
    <3>1. min > 2 /\ 100 * min - 50 <= 2 * km /\ 2 * km < 100 * min + 50
      BY <1>1, <2>1, <2>3
    <3> QED BY <3>1 DEF MinutesAre, min, km
  <2> QED BY <2>1, <2>2, <2>3, <1>1
<1> QED BY <1>3, <1>4

\* A station's lines are those of the first row with its id.
LEMMA LinesRight ==
  ASSUME NEW fs, NEW m \in Nat, NEW list \in Seq(StationRow), HoldIds(fs, "stations", list, m),
         m <= Len(RowsIn(fs, "stations")), NEW Row, RowsIn(fs, "stations") \in Seq(Row),
         NEW id, id \in NamesIn(list, "id")
  PROVE  LinesAre(fs, Head(Keep(list, {s \in Range(list) : s.id = id})).lines, id)
<1> DEFINE rows == RowsIn(fs, "stations")
           T == {s \in Range(list) : s.id = id}
           k == Keep(list, T)
<1>1. PICK at \in LastFirst(list, FirstOfTheir("id", rows, m)) : \A i \in DOMAIN list : list[i] = rows[at[i]]
  BY DEF HoldIds, Lists
<1>2. DOMAIN list = 1..Len(list) /\ Len(list) \in Nat /\ DOMAIN rows = 1..Len(rows) /\ Len(rows) \in Nat
  BY LenProperties
<1>3. PICK b : KeptAt(k, list, T, b)
  BY KeepFacts
<1>4. k \in Seq(StationRow \cap T)
  BY KeepFacts
<1>5. PICK j \in 1..Len(list) : list[j].id = id
  BY <1>2 DEF NamesIn
<1>6. list[j] \in T
  BY <1>2, <1>5 DEF Range
<1> HIDE DEF k
<1>7. PICK q \in 1..Len(k) : b[q] = j
  BY <1>3, <1>6 DEF KeptAt
<1>8. Len(k) \in Nat /\ 1 \in 1..Len(k) /\ DOMAIN k = 1..Len(k)
  BY <1>4, <1>7, LenProperties
<1>9. Head(k) = k[1]
  <2>1. k # <<>>
    BY <1>8
  <2> QED BY <1>4, <2>1, HeadTailProperties
<1>10. k[1].id = id
  <2>1. k[1] \in T
    BY <1>4, <1>8, ElementOfSeq
  <2> QED BY <2>1
<1>11. b[1] \in 1..Len(list) /\ k[1] = list[b[1]]
  BY <1>3, <1>8 DEF KeptAt
<1> DEFINE n == at[b[1]]
<1>12. n \in FirstOfTheir("id", rows, m) /\ k[1] = rows[n]
  BY <1>1, <1>2, <1>11 DEF LastFirst
<1> HIDE DEF n
<1>13. n \in 1..m /\ \A x \in 1..(n - 1) : rows[x]["id"] # rows[n]["id"]
  BY <1>12 DEF FirstOfTheir
<1>14. n \in DOMAIN rows
  BY <1>2, <1>13
<1>15. rows[n].id = id /\ Head(k).lines = rows[n].lines
  BY <1>9, <1>10, <1>12
<1> QED BY <1>13, <1>14, <1>15 DEF LinesAre, k

\* One row of distances more.
Connects(fs, n) ==
  {RowsIn(fs, "distances")[n].from, RowsIn(fs, "distances")[n].to}
    \subseteq IdsOf(RowsIn(fs, "stations")) \ {Blank}

\* The row counts if both stations are known, and only then.
LEMMA ConnectionsMore ==
  ASSUME NEW fs, NEW m \in Nat
  PROVE  /\ Connects(fs, m + 1) => ConnectionsIn(fs, m + 1) = ConnectionsIn(fs, m) \cup {m + 1}
         /\ ~Connects(fs, m + 1) => ConnectionsIn(fs, m + 1) = ConnectionsIn(fs, m)
<1>1. \A x \in Nat : ConnectionsIn(fs, x) = {n \in 1..x : Connects(fs, n)}
  BY DEF ConnectionsIn, Connects
<1>2. 1..(m + 1) = 1..m \cup {m + 1} /\ m + 1 \in Nat
  OBVIOUS
<1>3. Connects(fs, m + 1) => ConnectionsIn(fs, m + 1) = ConnectionsIn(fs, m) \cup {m + 1}
  BY <1>1, <1>2
<1>4. ~Connects(fs, m + 1) => ConnectionsIn(fs, m + 1) = ConnectionsIn(fs, m)
  BY <1>1, <1>2
<1> QED BY <1>3, <1>4

\* load_distances, for a row that counts and for one that does not.
LEMMA DistancesMore ==
  ASSUME NEW fs, NEW list \in Seq(DistRow), NEW m \in Nat, HoldDistances(fs, list, m)
  PROVE  /\ \A d \in DistRow : Connects(fs, m + 1) /\ DistanceIs(fs, d, RowsIn(fs, "distances")[m + 1])
              => HoldDistances(fs, <<d>> \o list, m + 1)
         /\ ~Connects(fs, m + 1) => HoldDistances(fs, list, m + 1)
<1> DEFINE rows == RowsIn(fs, "distances")
           ns == ConnectionsIn(fs, m)
<1>1. PICK at \in LastFirst(list, ns) : \A i \in DOMAIN list : DistanceIs(fs, list[i], rows[at[i]])
  BY DEF HoldDistances
<1>2. ns \subseteq 1..m
  BY DEF ConnectionsIn
<1> HIDE DEF rows
<1>3. ASSUME NEW d \in DistRow, Connects(fs, m + 1), DistanceIs(fs, d, rows[m + 1])
      PROVE  HoldDistances(fs, <<d>> \o list, m + 1)
  <2> DEFINE longer == <<d>> \o list
  <2> HIDE DEF ns
  <2>1. PICK more \in LastFirst(longer, ns \cup {m + 1}) : Follows(more, at, m, Len(list))
    BY <1>1, <1>2, LastInFront
  <2>2. /\ longer \in Seq(DistRow) /\ Len(longer) = Len(list) + 1 /\ longer[1] = d
        /\ \A i \in 1..Len(list) : longer[i + 1] = list[i]
    BY InFront
  <2> HIDE DEF longer
  <2>3. DOMAIN list = 1..Len(list) /\ Len(list) \in Nat /\ DOMAIN longer = 1..(Len(list) + 1)
    BY <2>2, LenProperties
  <2>4. ASSUME NEW i \in DOMAIN longer PROVE DistanceIs(fs, longer[i], rows[more[i]])
    <3>1. CASE i = 1
      BY <3>1, <1>3, <2>1, <2>2 DEF Follows
    <3>2. CASE i # 1
      <4>1. i - 1 \in 1..Len(list) /\ i = (i - 1) + 1
        BY <3>2, <2>3
      <4>2. longer[i] = list[i - 1] /\ more[i] = at[i - 1]
        BY <4>1, <2>1, <2>2 DEF Follows
      <4> QED BY <4>1, <4>2, <1>1, <2>3
    <3> QED BY <3>1, <3>2
  <2>5. ConnectionsIn(fs, m + 1) = ns \cup {m + 1}
    BY <1>3, ConnectionsMore DEF ns
  <2> QED BY <2>1, <2>4, <2>5 DEF HoldDistances, rows, longer
<1>4. ASSUME ~Connects(fs, m + 1) PROVE HoldDistances(fs, list, m + 1)
  <2>1. ConnectionsIn(fs, m + 1) = ns
    BY <1>4, ConnectionsMore
  <2> QED BY <2>1, <1>1 DEF HoldDistances, rows
<1> QED BY <1>3, <1>4 DEF rows

-----------------------------------------------------------------------------
(* A turn of the loop over the rows, and what is read by then *)

ListNames == Files \ {"route_stops"}

\* What a row that is wanted, or one that is not, does to the lists.
Advances(f, wanted, result) ==
  /\ wanted => /\ Holds(files, result, ReadBy(files, reading, row + 1))
               /\ f \notin Optional => FilledIn(result, f)
               /\ \A j \in 1..(reading - 1) : FilledIn(result, Order[j]) <=> FilledIn(data, Order[j])
  /\ ~wanted => Holds(files, data, ReadBy(files, reading, row + 1))

\* Where a turn of a loader stands: in which file, at which row, and what holds so far.
LEMMA TurnFacts ==
  ASSUME LoaderTypeOK, FilesInv, NEW f, At(f)
  PROVE  /\ reading \in 1..8 /\ Order[reading] = f
         /\ row \in Nat \ {0} /\ row - 1 \in Nat /\ (row - 1) + 1 = row
         /\ RowsIn(files, f) = files[f].rows /\ row <= Len(RowsIn(files, f))
         /\ ~failed => Holds(files, data, ReadBy(files, reading, row))
         /\ ReadBy(files, reading, row)[f] = row - 1
         /\ ReadBy(files, reading, row + 1)[f] = row
         /\ \A g \in Files : g # f => ReadBy(files, reading, row + 1)[g] = ReadBy(files, reading, row)[g]
<1>1. ~ (reading > Len(Order)) /\ Order[reading] = f /\ files[f].usable /\ row <= Len(files[f].rows)
  BY DEF At, AllRead
<1>2. reading \in 1..8 /\ row \in Nat \ {0} /\ row - 1 \in Nat /\ (row - 1) + 1 = row
  BY <1>1, OrderIs DEF LoaderTypeOK
<1>3. RowsIn(files, f) = files[f].rows
  BY <1>1 DEF RowsIn
<1>4. ~failed => Holds(files, data, ReadBy(files, reading, row))
  BY FilesInvIs DEF FilesOK
<1>5. /\ ReadBy(files, reading, row)[Order[reading]] = row - 1
      /\ ReadBy(files, reading, row + 1)[Order[reading]] = row
      /\ \A g \in Files : g # Order[reading] =>
           ReadBy(files, reading, row + 1)[g] = ReadBy(files, reading, row)[g]
  <2>1. reading \in 1..8 /\ row \in Nat \ {0}
    BY <1>2
  <2> DEFINE more == row + 1
  <2>2. row \in Int /\ more \in Int /\ more - 1 = row
    BY <2>1
  <2> HIDE DEF more
  <2>3. ReadBy(files, reading, row)[Order[reading]] = row - 1
    BY <2>1, <2>2, ReadAt
  <2>4. ReadBy(files, reading, more)[Order[reading]] = row
    BY <2>1, <2>2, ReadAt
  <2>5. \A g \in Files : g # Order[reading] => ReadBy(files, reading, more)[g] = ReadBy(files, reading, row)[g]
    BY <2>1, <2>2, ReadElsewhere
  <2> QED BY <2>3, <2>4, <2>5 DEF more
<1> QED BY <1>1, <1>2, <1>3, <1>4, <1>5

\* It is enough to look at that.
LEMMA TurnHolds ==
  ASSUME LoaderTypeOK, FilesInv, NEW f, At(f), NEW wanted \in BOOLEAN, NEW result,
         Turn(wanted, result), ~failed => Advances(f, wanted, result)
  PROVE  FilesInv'
<1>1. /\ reading \in 1..8 /\ Order[reading] = f /\ row \in Nat \ {0}
      /\ row <= Len(RowsIn(files, f))
  BY TurnFacts
<1>2. row' = row + 1 /\ files' = files /\ reading' = reading /\ ok' = ok
  BY DEF Turn
<1>3. (row + 1) - 1 = row /\ loaded \in Nat /\ ~ (reading > Len(Order))
  BY <1>1, OrderIs DEF LoaderTypeOK
<1>4. row' - 1 <= Len(RowsIn(files, Order[reading]))
  BY <1>1, <1>2, <1>3
<1> DEFINE R == ReadBy(files, reading, row + 1)
           counts(d) == ~ (reading > Len(Order)) /\ Order[reading] \notin Optional
                          => (loaded > 0 <=> FilledIn(d, Order[reading]))
           good(d) == \A j \in 1..(reading - 1) : GoodIn(files, d, Order[j])
<1>5. ~failed => /\ ok <=> good(data)
                 /\ counts(data)
  BY FilesInvIs DEF FilesOK
<1>6. CASE failed'
  BY <1>2, <1>4, <1>6, FilesInvIs DEF FilesOK
<1>7. CASE ~failed'
  <2>1. Allocated
    BY <1>7 DEF Turn, NoMemory
  <2>2. ~failed
    BY <1>7, <2>1 DEF Allocated
  <2>3. \/ ~wanted /\ data' = data /\ loaded' = loaded
        \/ wanted /\ data' = result /\ loaded' = loaded + 1
    BY <1>7 DEF Turn, NoMemory
  <2>4. Advances(f, wanted, result)
    BY <2>2
  <2>5. Holds(files, data', R)
    BY <2>3, <2>4 DEF Advances
  <2>6. ok <=> good(data')
    <3>1. CASE ~wanted
      BY <3>1, <2>2, <2>3, <1>5
    <3>2. CASE wanted
      <4>1. \A j \in 1..(reading - 1) : FilledIn(result, Order[j]) <=> FilledIn(data, Order[j])
        BY <3>2, <2>4 DEF Advances
      <4>2. good(data) <=> good(result)
        BY <4>1 DEF GoodIn
      <4> HIDE DEF good
      <4> QED BY <4>2, <3>2, <2>2, <2>3, <1>5
    <3> QED BY <3>1, <3>2
  <2>7. Order[reading] \notin Optional => (loaded' > 0 <=> FilledIn(data', Order[reading]))
    <3>1. CASE ~wanted
      BY <3>1, <2>2, <2>3, <1>3, <1>5
    <3>2. CASE wanted
      <4>1. loaded' > 0
        BY <3>2, <2>3, <1>3
      <4>2. f \notin Optional => FilledIn(result, f)
        BY <3>2, <2>4 DEF Advances
      <4> QED BY <4>1, <4>2, <3>2, <2>3, <1>1
    <3> QED BY <3>1, <3>2
  <2> QED BY <1>2, <1>4, <2>5, <2>6, <2>7, FilesInvIs DEF FilesOK
<1> QED BY <1>6, <1>7

\* What earlier files have left is still there.
LEMMA FilledBefore ==
  ASSUME NEW k \in 1..8, NEW d, NEW e,
         \A g \in ListNames : g # Order[k] => e[g] = d[g]
  PROVE  \A j \in 1..(k - 1) : FilledIn(e, Order[j]) <=> FilledIn(d, Order[j])
<1> TAKE j \in 1..(k - 1)
<1>1. j \in 1..8 /\ j < k
  OBVIOUS
<1>2. Order[j] \in Files /\ Order[j] # Order[k]
  <2>1. Order[j] # Order[k]
    BY <1>1, OrderIs
  <2>2. Order[j] \in Files
    <3>1. j = 1 \/ j = 2 \/ j = 3 \/ j = 4 \/ j = 5 \/ j = 6 \/ j = 7 \/ j = 8
      BY <1>1
    <3> QED BY <3>1, OrderIs DEF Files
  <2> QED BY <2>1, <2>2
<1>3. CASE Order[j] # "route_stops"
  BY <1>2, <1>3 DEF FilledIn, ListNames
<1>4. CASE Order[j] = "route_stops"
  <2>1. j = 3
    <3>1. 3 \in 1..8
      OBVIOUS
    <3> QED BY <3>1, <1>1, <1>4, OrderIs
  <2>2. k # 2 /\ 2 \in 1..8
    BY <1>1, <2>1
  <2>3. Order[k] # "routes"
    BY <2>2, OrderIs
  <2>4. e["routes"] = d["routes"]
    BY <2>3 DEF ListNames, Files
  <2> QED BY <1>4, <2>4 DEF FilledIn
<1> QED BY <1>3, <1>4

\* Holds, list by list.
HoldsPart(f, fs, d, read) ==
  /\ f \in {"stops", "stations"} => HoldIds(fs, f, d[f], read[f])
  /\ f = "routes" => HoldRoutes(fs, d[f], read[f], read["route_stops"])
  /\ f = "distances" => HoldDistances(fs, d[f], read[f])
  /\ f = "facilities" => HoldFacilities(fs, d[f], read[f])
  /\ f \in {"arrivals", "crowdings"} => HoldAll(fs, f, d[f], read[f])

\* What the lists hold is said list by list.
LEMMA HoldsParts ==
  ASSUME NEW fs, NEW d, NEW read
  PROVE  Holds(fs, d, read) <=> \A f \in ListNames : HoldsPart(f, fs, d, read)
<1>1. ListNames = {"stops", "routes", "stations", "distances", "facilities", "arrivals", "crowdings"}
  BY DEF ListNames, Files
<1>2. ASSUME Holds(fs, d, read), NEW f \in ListNames PROVE HoldsPart(f, fs, d, read)
  BY <1>2 DEF Holds, HoldsPart
<1>3. ASSUME \A f \in ListNames : HoldsPart(f, fs, d, read) PROVE Holds(fs, d, read)
  <2>1. \A f \in {"stops", "stations"} : HoldIds(fs, f, d[f], read[f])
    BY <1>1, <1>3 DEF HoldsPart
  <2>2. HoldRoutes(fs, d.routes, read.routes, read.route_stops)
    BY <1>1, <1>3 DEF HoldsPart
  <2>3. HoldDistances(fs, d.distances, read.distances)
    BY <1>1, <1>3 DEF HoldsPart
  <2>4. HoldFacilities(fs, d.facilities, read.facilities)
    BY <1>1, <1>3 DEF HoldsPart
  <2>5. \A f \in {"arrivals", "crowdings"} : HoldAll(fs, f, d[f], read[f])
    BY <1>1, <1>3 DEF HoldsPart
  <2> QED BY <2>1, <2>2, <2>3, <2>4, <2>5 DEF Holds
<1> QED BY <1>2, <1>3

\* What a turn leaves alone holds as it did.
LEMMA PartStays ==
  ASSUME NEW fs, NEW d, NEW e, NEW read, NEW more, NEW f, HoldsPart(f, fs, d, read),
         e[f] = d[f], more[f] = read[f], more["route_stops"] = read["route_stops"]
  PROVE  HoldsPart(f, fs, e, more)
BY DEF HoldsPart

\* A turn that puts a node in front of a list, or does not.
LEMMA FrontAdvances ==
  ASSUME LoaderTypeOK, FilesInv, NEW f \in ListNames, At(f), ~failed,
         NEW S, data[f] \in Seq(S), NEW wanted \in BOOLEAN, NEW node, wanted => node \in S,
         wanted => HoldsPart(f, files, WithFront(f, node), ReadBy(files, reading, row + 1)),
         ~wanted => HoldsPart(f, files, data, ReadBy(files, reading, row + 1))
  PROVE  Advances(f, wanted, WithFront(f, node))
<1> DEFINE result == WithFront(f, node)
           R0 == ReadBy(files, reading, row)
           R1 == ReadBy(files, reading, row + 1)
<1>1. f \in DOMAIN data
  BY LoadIs DEF LoaderTypeOK, ListNames, Files
<1>2. result[f] = <<node>> \o data[f] /\ \A g \in ListNames : g # f => result[g] = data[g]
  <2>1. ListNames \subseteq DOMAIN data
    BY LoadIs DEF LoaderTypeOK, ListNames, Files
  <2> QED BY <1>1, <2>1 DEF WithFront
<1>3. Holds(files, data, R0) /\ reading \in 1..8 /\ Order[reading] = f
  BY TurnFacts
<1>4. \A g \in Files : g # f => R1[g] = R0[g]
  BY TurnFacts
<1>5. f # "route_stops" /\ "route_stops" \in Files /\ ListNames \subseteq Files
  BY DEF ListNames, Files
<1> HIDE DEF result, R0, R1
<1>6. \A g \in ListNames : g # f => HoldsPart(g, files, data, R1)
  <2> TAKE g \in ListNames
  <2> HAVE g # f
  <2>1. HoldsPart(g, files, data, R0)
    BY <1>3, HoldsParts
  <2>2. R1[g] = R0[g] /\ R1["route_stops"] = R0["route_stops"]
    BY <1>4, <1>5
  <2> QED BY <2>1, <2>2, PartStays
<1>7. \A g \in ListNames : g # f => HoldsPart(g, files, result, R1)
  <2> TAKE g \in ListNames
  <2> HAVE g # f
  <2>1. HoldsPart(g, files, data, R1)
    BY <1>6
  <2>2. result[g] = data[g]
    BY <1>2
  <2> QED BY <2>1, <2>2, PartStays
<1>8. ~wanted => Holds(files, data, R1)
  <2>1. ~wanted => HoldsPart(f, files, data, R1)
    BY DEF R1
  <2> QED BY <2>1, <1>6, HoldsParts
<1>9. wanted => Holds(files, result, R1)
  <2>1. wanted => HoldsPart(f, files, result, R1)
    BY DEF R1, result
  <2> QED BY <2>1, <1>7, HoldsParts
<1>10. wanted => FilledIn(result, f)
  <2> SUFFICES ASSUME wanted PROVE FilledIn(result, f)
    OBVIOUS
  <2>1. <<node>> \o data[f] \in Seq(S) /\ Len(<<node>> \o data[f]) = Len(data[f]) + 1 /\ Len(data[f]) \in Nat
    BY InFront, LenProperties
  <2>2. <<node>> \o data[f] # <<>>
    <3> DEFINE l == <<node>> \o data[f]
    <3>1. Len(l) # 0
      BY <2>1
    <3> HIDE DEF l
    <3>2. l # <<>>
      BY <3>1
    <3> QED BY <3>2 DEF l
  <2> QED BY <2>2, <1>2, <1>5 DEF FilledIn
<1>11. \A j \in 1..(reading - 1) : FilledIn(result, Order[j]) <=> FilledIn(data, Order[j])
  BY <1>2, <1>3, FilledBefore
<1> QED BY <1>8, <1>9, <1>10, <1>11 DEF Advances, R1, result

\* load_bus_stops and load_subway_stations.
LEMMA StopsHold ==
  ASSUME LoaderTypeOK, FilesInv, NEW f \in {"stops", "stations"}, At(f), NEW S, data[f] \in Seq(S),
         NEW r, r = RowsIn(files, f)[row],
         r.id # Blank /\ ~HasId(data[f], r.id) => r \in S,
         Turn(r.id # Blank /\ ~HasId(data[f], r.id), WithFront(f, r))
  PROVE  FilesInv'
<1> DEFINE wanted == r.id # Blank /\ ~HasId(data[f], r.id)
           result == WithFront(f, r)
           R0 == ReadBy(files, reading, row)
           R1 == ReadBy(files, reading, row + 1)
           list == data[f]
<1>1. f \in ListNames
  BY DEF ListNames, Files
<1>2. wanted <=> r.id # Blank /\ r.id \notin NamesIn(list, "id")
  BY DEF HasId, NamesIn
<1> SUFFICES ASSUME ~failed PROVE Advances(f, wanted, result)
  <2>1. wanted \in BOOLEAN
    BY DEF HasId
  <2>2. Turn(wanted, result)
    OBVIOUS
  <2> HIDE DEF wanted, result
  <2> QED BY <2>1, <2>2, TurnHolds
<1>3. Holds(files, data, R0) /\ R0[f] = row - 1 /\ R1[f] = row /\ row - 1 \in Nat /\ (row - 1) + 1 = row
  BY TurnFacts
<1> HIDE DEF wanted, R0, R1, list
<1>4. HoldIds(files, f, list, row - 1)
  <2>1. HoldsPart(f, files, data, R0)
    BY <1>1, <1>3, HoldsParts
  <2> QED BY <2>1, <1>3 DEF HoldsPart, list
<1>5. list \in Seq(S)
  BY DEF list
<1> DEFINE m == row - 1
<1>6. m \in Nat /\ m + 1 = row /\ HoldIds(files, f, list, m) /\ r = RowsIn(files, f)[m + 1]
  BY <1>3, <1>4
<1> HIDE DEF m
<1>7. r \in S /\ r.id # Blank /\ r.id \notin NamesIn(list, "id") => HoldIds(files, f, <<r>> \o list, m + 1)
  BY <1>5, <1>6, IdsMore
<1>8. ~ (r.id # Blank /\ r.id \notin NamesIn(list, "id")) => HoldIds(files, f, list, m + 1)
  BY <1>5, <1>6, IdsMore
<1>9. wanted => r \in S
  BY DEF wanted
<1>10. result[f] = <<r>> \o list
  <2>1. f \in DOMAIN data
    BY LoadIs DEF LoaderTypeOK
  <2> QED BY <2>1 DEF WithFront, list
<1>11. f # "routes" /\ f # "distances" /\ f # "facilities" /\ f \notin {"arrivals", "crowdings"}
  OBVIOUS
<1> HIDE DEF result
<1>12. wanted => HoldsPart(f, files, result, R1)
  BY <1>2, <1>3, <1>6, <1>7, <1>9, <1>10, <1>11 DEF HoldsPart
<1>13. ~wanted => HoldsPart(f, files, data, R1)
  BY <1>2, <1>3, <1>6, <1>8, <1>11 DEF HoldsPart, list
<1>14. wanted \in BOOLEAN
  BY DEF HasId, wanted
<1> QED BY <1>1, <1>5, <1>9, <1>12, <1>13, <1>14, FrontAdvances DEF result, R1, list

\* load_bus_stops.
LEMMA BusStopHolds ==
  ASSUME LoaderTypeOK, FilesInv, load_bus_stops
  PROVE  FilesInv'
<1> DEFINE r == files.stops.rows[row]
           Row == [id : Ids \cup {Blank}, at : Places]
<1>1. At("stops") /\ Turn(r.id # Blank /\ ~HasId(data["stops"], r.id), WithFront("stops", r))
  BY DEF load_bus_stops
<1>2. r \in Row
  <2>1. files["stops"] \in [usable : BOOLEAN, rows : Seq(Row)]
    BY DEF LoaderTypeOK, Contents, File
  <2> QED BY <1>1, <2>1, RowOf
<1>3. r = RowsIn(files, "stops")[row]
  BY <1>1, TurnFacts
<1>4. data["stops"] \in Seq(StopRow)
  BY DataLists DEF LoaderTypeOK
<1> HIDE DEF r
<1>5. r.id # Blank /\ ~HasId(data["stops"], r.id) => r \in StopRow
  BY <1>2 DEF StopRow
<1> QED BY <1>1, <1>3, <1>4, <1>5, StopsHold

\* load_subway_stations.
LEMMA StationHolds ==
  ASSUME LoaderTypeOK, FilesInv, load_subway_stations
  PROVE  FilesInv'
<1> DEFINE r == files.stations.rows[row]
           Row == [id : Ids \cup {Blank}, at : Places, lines : Seq(Routes)]
<1>1. At("stations") /\ Turn(r.id # Blank /\ ~HasId(data["stations"], r.id), WithFront("stations", r))
  BY DEF load_subway_stations
<1>2. r \in Row
  <2>1. files["stations"] \in [usable : BOOLEAN, rows : Seq(Row)]
    BY DEF LoaderTypeOK, Contents, File
  <2> QED BY <1>1, <2>1, RowOf
<1>3. r = RowsIn(files, "stations")[row]
  BY <1>1, TurnFacts
<1>4. data["stations"] \in Seq(StationRow)
  BY DataLists DEF LoaderTypeOK
<1> HIDE DEF r
<1>5. r.id # Blank /\ ~HasId(data["stations"], r.id) => r \in StationRow
  BY <1>2 DEF StationRow
<1> QED BY <1>1, <1>3, <1>4, <1>5, StopsHold

\* load_bus_routes.
LEMMA RouteHolds ==
  ASSUME LoaderTypeOK, FilesInv, load_bus_routes
  PROVE  FilesInv'
<1> DEFINE r == files.routes.rows[row]
           wanted == r.no # Blank /\ ~HasRoute(r.no)
           new == [no |-> r.no, stops |-> <<>>]
           result == WithFront("routes", new)
           Row == [no : Routes \cup {Blank}]
           R0 == ReadBy(files, reading, row)
           R1 == ReadBy(files, reading, row + 1)
           list == data.routes
           m == row - 1
<1>1. At("routes") /\ Turn(wanted, result)
  BY DEF load_bus_routes
<1>2. r \in Row
  <2>1. files["routes"] \in [usable : BOOLEAN, rows : Seq(Row)]
    BY DEF LoaderTypeOK, Contents, File
  <2> QED BY <1>1, <2>1, RowOf
<1>3. "routes" \in ListNames /\ "route_stops" \in Files /\ wanted \in BOOLEAN
  BY DEF ListNames, Files, HasRoute
<1> SUFFICES ASSUME ~failed PROVE Advances("routes", wanted, result)
  <2> HIDE DEF wanted, result
  <2> QED BY <1>1, <1>3, TurnHolds
<1>4. /\ Holds(files, data, R0) /\ R0["routes"] = m /\ R1["routes"] = row /\ m \in Nat /\ m + 1 = row
      /\ r = RowsIn(files, "routes")[row]
      /\ R1["route_stops"] = R0["route_stops"] /\ reading \in 1..8 /\ Order[reading] = "routes"
      /\ row \in Int
  BY <1>1, <1>3, TurnFacts
<1>5. R0["route_stops"] = 0
  <2>1. reading = 2 /\ 3 \in 1..8 /\ Order[3] = "route_stops" /\ reading \in 1..9 /\ 3 > reading
    <3>1. 2 \in 1..8 /\ Order[2] = "routes"
      BY OrderIs
    <3>2. reading = 2
      BY <3>1, <1>4, OrderIs
    <3> QED BY <3>2, OrderIs
  <2> QED BY <2>1, <1>4, ReadLater
<1>6. wanted <=> r.no # Blank /\ r.no \notin NamesIn(list, "no")
  BY DEF HasRoute, NamesIn
<1> HIDE DEF wanted, R0, R1, m, r
<1>7. HoldRoutes(files, list, m, 0)
  <2>1. HoldsPart("routes", files, data, R0)
    BY <1>3, <1>4, HoldsParts
  <2> QED BY <2>1, <1>4, <1>5 DEF HoldsPart
<1>8. list \in Seq(RouteRow)
  BY DataLists DEF LoaderTypeOK
<1>9. wanted => new \in RouteRow
  BY <1>2, <1>6 DEF RouteRow
<1>10. r = RowsIn(files, "routes")[m + 1]
  BY <1>4
<1>11. result["routes"] = <<new>> \o list
  <2>1. "routes" \in DOMAIN data
    BY LoadIs DEF LoaderTypeOK
  <2> QED BY <2>1 DEF WithFront
<1> HIDE DEF result, list
<1>12. wanted => HoldRoutes(files, <<new>> \o list, m + 1, 0)
  BY <1>4, <1>6, <1>7, <1>8, <1>9, <1>10, RoutesMore
<1>13. ~wanted => HoldRoutes(files, list, m + 1, 0)
  BY <1>4, <1>6, <1>7, <1>8, <1>10, RoutesMore
<1> HIDE DEF new
<1>14. wanted => HoldsPart("routes", files, result, R1)
  BY <1>4, <1>5, <1>11, <1>12 DEF HoldsPart
<1>15. ~wanted => HoldsPart("routes", files, data, R1)
  BY <1>4, <1>5, <1>13 DEF HoldsPart, list
<1>16. data["routes"] \in Seq(RouteRow)
  BY <1>8 DEF list
<1> QED BY <1>1, <1>3, <1>9, <1>14, <1>15, <1>16, FrontAdvances DEF result, R1

\* load_facilities.
LEMMA FacilityHolds ==
  ASSUME LoaderTypeOK, FilesInv, load_facilities
  PROVE  FilesInv'
<1> DEFINE r == files.facilities.rows[row]
           wanted == r.id # Blank
           result == WithFront("facilities", r)
           Row == [id : Ids \cup {Blank}]
           R0 == ReadBy(files, reading, row)
           R1 == ReadBy(files, reading, row + 1)
           list == data.facilities
           m == row - 1
<1>1. At("facilities") /\ Turn(wanted, result)
  BY DEF load_facilities
<1>2. r \in Row
  <2>1. files["facilities"] \in [usable : BOOLEAN, rows : Seq(Row)]
    BY DEF LoaderTypeOK, Contents, File
  <2> QED BY <1>1, <2>1, RowOf
<1>3. "facilities" \in ListNames /\ wanted \in BOOLEAN
  BY DEF ListNames, Files
<1> SUFFICES ASSUME ~failed PROVE Advances("facilities", wanted, result)
  <2> HIDE DEF wanted, result
  <2> QED BY <1>1, <1>3, TurnHolds
<1>4. /\ Holds(files, data, R0) /\ R0["facilities"] = m /\ R1["facilities"] = row /\ m \in Nat /\ m + 1 = row
      /\ r = RowsIn(files, "facilities")[row]
  BY <1>1, <1>3, TurnFacts
<1> HIDE DEF R0, R1, m, r
<1>5. HoldFacilities(files, list, m)
  <2>1. HoldsPart("facilities", files, data, R0)
    BY <1>3, <1>4, HoldsParts
  <2> QED BY <2>1, <1>4 DEF HoldsPart
<1>6. list \in Seq([id : Ids])
  BY DataLists DEF LoaderTypeOK
<1>7. wanted => r \in [id : Ids]
  BY <1>2
<1>8. r = RowsIn(files, "facilities")[m + 1]
  BY <1>4
<1>9. result["facilities"] = <<r>> \o list
  <2>1. "facilities" \in DOMAIN data
    BY LoadIs DEF LoaderTypeOK
  <2> QED BY <2>1 DEF WithFront
<1> HIDE DEF result, list
<1>10. wanted => HoldFacilities(files, <<r>> \o list, m + 1)
  BY <1>4, <1>5, <1>6, <1>7, <1>8, FacilitiesMore
<1>11. ~wanted => HoldFacilities(files, list, m + 1)
  BY <1>4, <1>5, <1>6, <1>8, FacilitiesMore
<1>12. wanted => HoldsPart("facilities", files, result, R1)
  BY <1>4, <1>9, <1>10 DEF HoldsPart
<1>13. ~wanted => HoldsPart("facilities", files, data, R1)
  BY <1>4, <1>11 DEF HoldsPart, list
<1>14. data["facilities"] \in Seq([id : Ids])
  BY <1>6 DEF list
<1> HIDE DEF wanted
<1> QED BY <1>1, <1>3, <1>7, <1>12, <1>13, <1>14, FrontAdvances DEF result, R1

\* load_arrivals and load_crowdings.
LEMMA EveryRowHolds ==
  ASSUME LoaderTypeOK, FilesInv, NEW f \in {"arrivals", "crowdings"}, At(f),
         Turn(TRUE, WithFront(f, files[f].rows[row]))
  PROVE  FilesInv'
<1> DEFINE r == files[f].rows[row]
           result == WithFront(f, r)
           Row == [node : Ids \cup {Blank}]
           R0 == ReadBy(files, reading, row)
           R1 == ReadBy(files, reading, row + 1)
           list == data[f]
           m == row - 1
<1>1. Turn(TRUE, result)
  OBVIOUS
<1>2. r \in NodeRow
  <2>1. files[f] \in [usable : BOOLEAN, rows : Seq(Row)]
    BY DEF LoaderTypeOK, Contents, File
  <2> QED BY <2>1, RowOf DEF NodeRow
<1>3. f \in ListNames
  BY DEF ListNames, Files
<1> SUFFICES ASSUME ~failed PROVE Advances(f, TRUE, result)
  <2> HIDE DEF result
  <2> QED BY <1>1, TurnHolds
<1>4. /\ Holds(files, data, R0) /\ R0[f] = m /\ R1[f] = row /\ m \in Nat /\ m + 1 = row
      /\ r = RowsIn(files, f)[row]
  BY <1>3, TurnFacts
<1> HIDE DEF R0, R1, m, r
<1>5. HoldAll(files, f, list, m)
  <2>1. HoldsPart(f, files, data, R0)
    BY <1>3, <1>4, HoldsParts
  <2> QED BY <2>1, <1>4 DEF HoldsPart
<1>6. list \in Seq(NodeRow)
  BY DataLists DEF LoaderTypeOK
<1>7. r = RowsIn(files, f)[m + 1]
  BY <1>4
<1>8. result[f] = <<r>> \o list
  <2>1. f \in DOMAIN data
    BY LoadIs DEF LoaderTypeOK
  <2> QED BY <2>1 DEF WithFront
<1> HIDE DEF result, list
<1>9. HoldAll(files, f, <<r>> \o list, m + 1)
  BY <1>2, <1>4, <1>5, <1>6, <1>7, AllMore
<1>10. HoldsPart(f, files, result, R1)
  <2>1. f # "routes" /\ f # "distances" /\ f # "facilities" /\ f \notin {"stops", "stations"}
    OBVIOUS
  <2> QED BY <2>1, <1>4, <1>8, <1>9 DEF HoldsPart
<1>11. data[f] \in Seq(NodeRow)
  BY <1>6 DEF list
<1> QED BY <1>2, <1>3, <1>10, <1>11, FrontAdvances DEF result, R1

\* load_subway_distances.
LEMMA DistanceHolds ==
  ASSUME LoaderTypeOK, FilesInv, load_subway_distances
  PROVE  FilesInv'
<1> DEFINE r == files.distances.rows[row]
           wanted == /\ Blank \notin {r.from, r.to}
                     /\ HasId(data.stations, r.from)
                     /\ HasId(data.stations, r.to)
           new == DistanceOf(r)
           result == WithFront("distances", new)
           Row == [from : Ids \cup {Blank}, to : Ids \cup {Blank},
                   line : Seq(Routes), km : Int, minutes : Int]
           R0 == ReadBy(files, reading, row)
           R1 == ReadBy(files, reading, row + 1)
           list == data.distances
           stations == data.stations
           m == row - 1
           all == Len(RowsIn(files, "stations"))
<1>1. At("distances") /\ Turn(wanted, result)
  BY DEF load_subway_distances
<1>2. r \in Row
  <2>1. files["distances"] \in [usable : BOOLEAN, rows : Seq(Row)]
    BY DEF LoaderTypeOK, Contents, File
  <2> QED BY <1>1, <2>1, RowOf
<1>3. {"stations", "distances"} \subseteq ListNames /\ wanted \in BOOLEAN
  BY DEF ListNames, Files, HasId
<1> SUFFICES ASSUME ~failed PROVE Advances("distances", wanted, result)
  <2> HIDE DEF wanted, result
  <2> QED BY <1>1, <1>3, TurnHolds
<1>4. /\ Holds(files, data, R0) /\ R0["distances"] = m /\ R1["distances"] = row /\ m \in Nat /\ m + 1 = row
      /\ r = RowsIn(files, "distances")[row]
      /\ reading \in 1..8 /\ Order[reading] = "distances" /\ row \in Int
  BY <1>1, <1>3, TurnFacts
<1>5. R0["stations"] = all
  <2>1. 4 \in 1..8 /\ Order[4] = "stations" /\ reading \in 1..9 /\ 4 < reading
    <3>1. 5 \in 1..8 /\ Order[5] = "distances"
      BY OrderIs
    <3>2. reading = 5
      BY <3>1, <1>4, OrderIs
    <3> QED BY <3>2, OrderIs
  <2> QED BY <2>1, <1>4, ReadBefore
<1> HIDE DEF R0, R1, m, r
<1>6. RowsIn(files, "stations") \in Seq([id : Ids \cup {Blank}, at : Places, lines : Seq(Routes)])
  <2>1. files["stations"] \in [usable : BOOLEAN, rows : Seq([id : Ids \cup {Blank}, at : Places, lines : Seq(Routes)])]
    BY DEF LoaderTypeOK, Contents, File
  <2> QED BY <2>1, EmptySeq DEF RowsIn
<1>7. all \in Nat
  BY <1>6, LenProperties
<1>8. HoldIds(files, "stations", stations, all)
  <2>1. HoldsPart("stations", files, data, R0)
    BY <1>3, <1>4, HoldsParts
  <2> QED BY <2>1, <1>5 DEF HoldsPart
<1>9. HoldDistances(files, list, m)
  <2>1. HoldsPart("distances", files, data, R0)
    BY <1>3, <1>4, HoldsParts
  <2> QED BY <2>1, <1>4 DEF HoldsPart
<1>10. list \in Seq(DistRow) /\ stations \in Seq(StationRow)
  BY DataLists DEF LoaderTypeOK
<1>11. NamesIn(stations, "id") = IdsOf(RowsIn(files, "stations")) \ {Blank}
  BY <1>6, <1>8, IdsAreRead
<1>12. \A id : HasId(stations, id) <=> id \in NamesIn(stations, "id")
  BY DEF HasId, NamesIn
<1>13. r = RowsIn(files, "distances")[m + 1]
  BY <1>4
<1>14. wanted <=> Connects(files, m + 1)
  BY <1>11, <1>12, <1>13 DEF Connects
<1>15. ASSUME wanted
       PROVE  new \in DistRow /\ DistanceIs(files, new, RowsIn(files, "distances")[m + 1])
  <2>1. r.from \in Ids /\ r.to \in Ids /\ r.line \in Seq(Routes) /\ r.km \in Int /\ r.minutes \in Int
    BY <1>2, <1>15
  <2>2. HasId(stations, r.from)
    BY <1>15
  <2>3. new \in DistRow /\ new.from = r.from /\ new.to = r.to
    BY <2>1, <2>2, <1>10, DistanceTyped
  <2> DEFINE lines == Head(Keep(stations, {s \in Range(stations) : s.id = r.from})).lines
             min == IF r.minutes > 0 THEN r.minutes ELSE subway_minutes_from_distance(r.km)
  <2>4. new = [from |-> r.from, to |-> r.to, line |-> IF r.line # <<>> THEN r.line ELSE lines,
               minutes |-> min]
    BY DEF DistanceOf
  <2>5. MinutesAre(min, r)
    BY <2>1, MinutesRight
  <2>6. LinesAre(files, lines, r.from)
    <3>1. r.from \in NamesIn(stations, "id")
      BY <2>2, <1>12
    <3>2. all <= all
      BY <1>7
    <3> QED BY <3>1, <3>2, <1>6, <1>7, <1>8, <1>10, LinesRight
  <2> HIDE DEF new, lines, min
  <2>7. new.minutes = min /\ new.line = IF r.line # <<>> THEN r.line ELSE lines
    BY <2>4
  <2>8. DistanceIs(files, new, r)
    BY <2>3, <2>5, <2>6, <2>7 DEF DistanceIs
  <2> QED BY <2>3, <2>8, <1>13
<1>16. result["distances"] = <<new>> \o list
  <2>1. "distances" \in DOMAIN data
    BY LoadIs DEF LoaderTypeOK
  <2> QED BY <2>1 DEF WithFront
<1> HIDE DEF result, new, list, wanted
<1>17. wanted => HoldDistances(files, <<new>> \o list, m + 1)
  BY <1>4, <1>9, <1>10, <1>14, <1>15, DistancesMore
<1>18. ~wanted => HoldDistances(files, list, m + 1)
  BY <1>4, <1>9, <1>10, <1>14, DistancesMore
<1>19. wanted => HoldsPart("distances", files, result, R1)
  BY <1>4, <1>16, <1>17 DEF HoldsPart
<1>20. ~wanted => HoldsPart("distances", files, data, R1)
  BY <1>4, <1>18 DEF HoldsPart, list
<1>21. data["distances"] \in Seq(DistRow)
  BY <1>10 DEF list
<1>22. "distances" \in ListNames /\ (wanted => new \in DistRow)
  BY <1>3, <1>15
<1> QED BY <1>1, <1>3, <1>19, <1>20, <1>21, <1>22, FrontAdvances DEF result, R1

\* What route_stop_add leaves is not empty.
LEMMA AddedTyped ==
  ASSUME NEW stops \in Seq(Call), NEW s \in Call
  PROVE  route_stop_add(stops, s) \in Seq(Call) /\ route_stop_add(stops, s) # <<>>
<1> DEFINE low  == {t \in Range(stops) : t.seq <= s.seq}
           high == {t \in Range(stops) : t.seq > s.seq}
           a == Keep(stops, low)
           b == Keep(stops, high)
           one == <<s>>
           all == (a \o one) \o b
<1>1. route_stop_add(stops, s) = all
  BY DEF route_stop_add
<1>2. one \in Seq(Call) /\ Len(one) = 1
  OBVIOUS
<1>3. a \in Seq(Call \cap low) /\ b \in Seq(Call \cap high)
  BY KeepFacts
<1>4. a \in Seq(Call) /\ b \in Seq(Call)
  BY <1>3, SeqMonotonic
<1> HIDE DEF a, b, one
<1>5. a \o one \in Seq(Call) /\ Len(a \o one) = Len(a) + Len(one)
  BY <1>2, <1>4, ConcatTwo
<1>6. all \in Seq(Call) /\ Len(all) = Len(a \o one) + Len(b)
  BY <1>4, <1>5, ConcatTwo
<1>7. Len(a) \in Nat /\ Len(b) \in Nat
  BY <1>4, LenProperties
<1> HIDE DEF all
<1>8. Len(all) # 0
  BY <1>2, <1>5, <1>6, <1>7
<1>9. all # <<>>
  BY <1>6, <1>8, RangeOf
<1> QED BY <1>1, <1>6, <1>9

\* Only the routes depend on how much of route_stops has been read.
LEMMA OtherPartStays ==
  ASSUME NEW fs, NEW d, NEW e, NEW read, NEW more, NEW f, HoldsPart(f, fs, d, read), f # "routes",
         e[f] = d[f], more[f] = read[f]
  PROVE  HoldsPart(f, fs, e, more)
BY DEF HoldsPart

\* load_route_stops.
LEMMA RouteStopHolds ==
  ASSUME LoaderTypeOK, FilesInv, load_route_stops
  PROVE  FilesInv'
<1> DEFINE r == files.route_stops.rows[row]
           wanted == Blank \notin {r.route, r.stop} /\ HasRoute(r.route) /\ HasId(data.stops, r.stop)
           call == CallOf(r)
           list == data.routes
           new == [n \in DOMAIN list |->
                     IF list[n].no # r.route THEN list[n]
                     ELSE [no |-> r.route, stops |-> route_stop_add(list[n].stops, call)]]
           result == [data EXCEPT !.routes = new]
           Row == [route : Routes \cup {Blank}, seq : Int, stop : Ids \cup {Blank}]
           R0 == ReadBy(files, reading, row)
           R1 == ReadBy(files, reading, row + 1)
           stops == data.stops
           p == row - 1
           all == Len(RowsIn(files, "stops"))
           heads == Len(RowsIn(files, "routes"))
<1>1. At("route_stops") /\ Turn(wanted, result)
  BY DEF load_route_stops, CallOf
<1>2. r \in Row
  <2>1. files["route_stops"] \in [usable : BOOLEAN, rows : Seq(Row)]
    BY DEF LoaderTypeOK, Contents, File
  <2> QED BY <1>1, <2>1, RowOf
<1>3. {"stops", "routes"} \subseteq ListNames /\ ListNames \subseteq Files \ {"route_stops"} /\ wanted \in BOOLEAN
  BY DEF ListNames, Files, HasId, HasRoute
<1> SUFFICES ASSUME ~failed PROVE Advances("route_stops", wanted, result)
  <2> HIDE DEF wanted, result
  <2> QED BY <1>1, <1>3, TurnHolds
<1>4. /\ Holds(files, data, R0) /\ R0["route_stops"] = p /\ R1["route_stops"] = row /\ p \in Nat /\ p + 1 = row
      /\ r = RowsIn(files, "route_stops")[row]
      /\ reading \in 1..8 /\ Order[reading] = "route_stops" /\ row \in Int
      /\ \A g \in Files : g # "route_stops" => R1[g] = R0[g]
  BY <1>1, <1>3, TurnFacts
<1>5. reading = 3
  <2>1. 3 \in 1..8 /\ Order[3] = "route_stops"
    BY OrderIs
  <2> QED BY <2>1, <1>4, OrderIs
<1>6. R0["stops"] = all /\ R0["routes"] = heads
  <2>1. /\ 1 \in 1..8 /\ Order[1] = "stops" /\ reading \in 1..9 /\ 1 < reading
        /\ 2 \in 1..8 /\ Order[2] = "routes" /\ 2 < reading
    BY <1>5, OrderIs
  <2>2. R0[Order[1]] = Len(RowsIn(files, Order[1]))
    BY <2>1, <1>4, ReadBefore
  <2>3. R0[Order[2]] = Len(RowsIn(files, Order[2]))
    BY <2>1, <1>4, ReadBefore
  <2> QED BY <2>1, <2>2, <2>3
<1> HIDE DEF R0, R1, p, r
<1>7. /\ RowsIn(files, "stops") \in Seq([id : Ids \cup {Blank}, at : Places])
      /\ RowsIn(files, "routes") \in Seq([no : Routes \cup {Blank}])
  <2>1. /\ files["stops"] \in [usable : BOOLEAN, rows : Seq([id : Ids \cup {Blank}, at : Places])]
        /\ files["routes"] \in [usable : BOOLEAN, rows : Seq([no : Routes \cup {Blank}])]
    BY DEF LoaderTypeOK, Contents, File
  <2> QED BY <2>1, EmptySeq DEF RowsIn
<1>8. all \in Nat /\ heads \in Nat
  BY <1>7, LenProperties
<1>9. HoldIds(files, "stops", stops, all)
  <2>1. HoldsPart("stops", files, data, R0)
    BY <1>3, <1>4, HoldsParts
  <2> QED BY <2>1, <1>6 DEF HoldsPart
<1>10. HoldRoutes(files, list, heads, p)
  <2>1. HoldsPart("routes", files, data, R0)
    BY <1>3, <1>4, HoldsParts
  <2> QED BY <2>1, <1>4, <1>6 DEF HoldsPart
<1>11. list \in Seq(RouteRow) /\ stops \in Seq(StopRow)
  BY DataLists DEF LoaderTypeOK
<1>12. NamesIn(stops, "id") = IdsOf(RowsIn(files, "stops")) \ {Blank}
  BY <1>7, <1>9, IdsAreRead
<1>13. Blank \notin NamesIn(list, "no")
  BY <1>8, <1>10, RouteNamesAre
<1>14. r = RowsIn(files, "route_stops")[p + 1]
  BY <1>4
<1>15. wanted <=> SaysStop(files, p + 1) /\ r.route \in NamesIn(list, "no")
  <2>1. \A id : HasId(stops, id) <=> id \in NamesIn(stops, "id")
    BY DEF HasId, NamesIn
  <2>2. \A no : HasRoute(no) <=> no \in NamesIn(list, "no")
    BY DEF HasRoute, NamesIn
  <2> QED BY <2>1, <2>2, <1>12, <1>13, <1>14 DEF SaysStop
<1>16. DOMAIN list = 1..Len(list) /\ Len(list) \in Nat
  BY <1>11, LenProperties
<1>17. "routes" \in DOMAIN data /\ ListNames \subseteq DOMAIN data
  BY LoadIs DEF LoaderTypeOK, ListNames, Files
<1>18. result["routes"] = new /\ \A g \in ListNames : g # "routes" => result[g] = data[g]
  <2> HIDE DEF new
  <2> QED BY <1>17
<1>19. ASSUME wanted
       PROVE  /\ new \in Seq(RouteRow) /\ Len(new) = Len(list)
              /\ HoldRoutes(files, new, heads, p + 1)
              /\ \E i \in DOMAIN new : new[i].stops # <<>>
  <2>1. call \in Call /\ r.route \in Routes
    <3>1. r.route # Blank /\ r.stop # Blank
      BY <1>19
    <3> QED BY <3>1, <1>2 DEF Call, CallOf
  <2> HIDE DEF call
  <2>2. ASSUME NEW i \in 1..Len(list)
        PROVE  /\ new[i] \in RouteRow
               /\ list[i].no # r.route => new[i] = list[i]
               /\ list[i].no = r.route => /\ new[i].no = list[i].no
                                          /\ new[i].stops = route_stop_add(list[i].stops, call)
                                          /\ new[i].stops # <<>>
    <3>1. list[i] \in RouteRow
      BY <1>11, ElementOfSeq
    <3>2. list[i].stops \in Seq(Call)
      BY <3>1 DEF RouteRow
    <3> DEFINE added == route_stop_add(list[i].stops, call)
    <3>3. added \in Seq(Call) /\ added # <<>>
      BY <2>1, <3>2, AddedTyped
    <3>4. CASE list[i].no # r.route
      <4>1. new[i] = list[i]
        BY <3>4, <1>16
      <4> QED BY <4>1, <3>1, <3>4
    <3>5. CASE list[i].no = r.route
      <4>1. new[i] = [no |-> r.route, stops |-> added]
        BY <3>5, <1>16
      <4> HIDE DEF new, added
      <4>2. new[i].no = r.route /\ new[i].stops = added
        BY <4>1
      <4>3. new[i] \in RouteRow
        BY <4>1, <3>3, <2>1 DEF RouteRow
      <4> QED BY <4>2, <4>3, <3>3, <3>5 DEF added
    <3> QED BY <3>4, <3>5
  <2>3. DOMAIN new = 1..Len(list) /\ new = [i \in 1..Len(list) |-> new[i]]
    BY <1>16
  <2> HIDE DEF new, list
  <2>4. new \in Seq(RouteRow) /\ Len(new) = Len(list)
    <3>1. new \in [1..Len(list) -> RouteRow]
      BY <2>2, <2>3
    <3> QED BY <3>1, <1>16, SeqDef, LenProperties
  <2>5. HoldRoutes(files, new, heads, p + 1)
    <3>1. \A i \in 1..Len(list) :
            /\ list[i].no # r.route => new[i] = list[i]
            /\ list[i].no = r.route => /\ new[i].no = list[i].no
                                       /\ new[i].stops = route_stop_add(list[i].stops, call)
      BY <2>2
    <3>2. call = CallOf(RowsIn(files, "route_stops")[p + 1])
      BY <1>14 DEF call
    <3>3. SaysStop(files, p + 1)
      BY <1>15, <1>19
    <3> HIDE DEF heads
    <3> QED BY <3>1, <3>2, <3>3, <1>4, <1>8, <1>10, <1>11, <1>14, <2>1, <2>4, RouteStopsMore
  <2>6. PICK i \in 1..Len(list) : list[i].no = r.route
    <3>1. r.route \in NamesIn(list, "no")
      BY <1>15, <1>19
    <3> QED BY <3>1, <1>16 DEF NamesIn
  <2>7. new[i].stops # <<>> /\ i \in DOMAIN new
    BY <2>2, <2>3, <2>6
  <2> QED BY <2>4, <2>5, <2>7
<1>20. ASSUME ~wanted PROVE HoldRoutes(files, list, heads, p + 1)
  <2>1. SaysStop(files, p + 1) => RowsIn(files, "route_stops")[p + 1].route \notin NamesIn(list, "no")
    BY <1>14, <1>15, <1>20
  <2> HIDE DEF list, wanted, heads
  <2> QED BY <2>1, <1>4, <1>8, <1>10, <1>11, RouteStopsSame
<1> HIDE DEF new, wanted, result, list, heads
<1>21. \A g \in ListNames : g # "routes" => HoldsPart(g, files, data, R1)
  <2> TAKE g \in ListNames
  <2> HAVE g # "routes"
  <2>1. HoldsPart(g, files, data, R0)
    BY <1>4, HoldsParts
  <2>2. R1[g] = R0[g]
    BY <1>3, <1>4
  <2> QED BY <2>1, <2>2, OtherPartStays
<1>22. R1["routes"] = heads /\ R1["route_stops"] = p + 1
  BY <1>3, <1>4, <1>6
<1>23. ~wanted => Holds(files, data, R1)
  <2> SUFFICES ASSUME ~wanted PROVE Holds(files, data, R1)
    OBVIOUS
  <2>1. HoldsPart("routes", files, data, R1)
    BY <1>20, <1>22 DEF HoldsPart, list
  <2> QED BY <2>1, <1>21, HoldsParts
<1>24. wanted => Holds(files, result, R1)
  <2> SUFFICES ASSUME wanted PROVE Holds(files, result, R1)
    OBVIOUS
  <2>1. HoldsPart("routes", files, result, R1)
    BY <1>18, <1>19, <1>22 DEF HoldsPart
  <2>2. \A g \in ListNames : g # "routes" => HoldsPart(g, files, result, R1)
    <3> TAKE g \in ListNames
    <3> HAVE g # "routes"
    <3>1. HoldsPart(g, files, data, R1)
      BY <1>21
    <3>2. result[g] = data[g]
      BY <1>18
    <3> QED BY <3>1, <3>2, OtherPartStays
  <2> QED BY <2>1, <2>2, HoldsParts
<1>25. wanted => FilledIn(result, "route_stops")
  BY <1>18, <1>19 DEF FilledIn
<1>26. ASSUME wanted
       PROVE  \A j \in 1..(reading - 1) : FilledIn(result, Order[j]) <=> FilledIn(data, Order[j])
  <2>1. \A j \in 1..(reading - 1) : j = 1 \/ j = 2
    BY <1>5
  <2>2. result["stops"] = data["stops"]
    BY <1>3, <1>18
  <2>3. result["routes"] = <<>> <=> data["routes"] = <<>>
    <3>1. new = <<>> <=> Len(new) = 0
      BY <1>19, RangeOf
    <3>2. list = <<>> <=> Len(list) = 0
      BY <1>11, RangeOf
    <3>3. Len(new) = Len(list) /\ result["routes"] = new
      BY <1>18, <1>19, <1>26
    <3>4. new = <<>> <=> list = <<>>
      BY <3>1, <3>2, <3>3
    <3> QED BY <3>3, <3>4 DEF list
  <2> QED BY <2>1, <2>2, <2>3, OrderIs DEF FilledIn
<1> QED BY <1>23, <1>24, <1>25, <1>26 DEF Advances, R1

\* As long as nothing of a file has been read, it has left nothing.
LEMMA NothingOf ==
  ASSUME NEW S, NEW list \in Seq(S), NEW at, at \in [DOMAIN list -> {}]
  PROVE  list = <<>>
<1>1. DOMAIN list = 1..Len(list) /\ Len(list) \in Nat /\ (list = <<>> <=> Len(list) = 0)
  BY RangeOf
<1>2. DOMAIN list = {}
  OBVIOUS
<1>3. Len(list) # 0 => 1 \in 1..Len(list)
  BY <1>1
<1> QED BY <1>1, <1>2, <1>3

\* A required file of which nothing has been read has left nothing.
LEMMA NothingYet ==
  ASSUME NEW fs, NEW d \in Load, NEW read, Holds(fs, d, read),
         NEW f \in Files, f \notin Optional, read[f] = 0
  PROVE  ~ FilledIn(d, f)
<1>1. f \in {"stops", "routes", "route_stops", "stations", "distances"}
  BY DEF Files, Optional
<1>2. \A ns : ns \subseteq 1..0 => ns = {}
  OBVIOUS
<1>3. ASSUME f \in {"stops", "stations"} PROVE d[f] = <<>>
  <2>1. Lists(d[f], RowsIn(fs, f), FirstOfTheir("id", RowsIn(fs, f), 0))
    BY <1>3 DEF Holds, HoldIds
  <2>2. FirstOfTheir("id", RowsIn(fs, f), 0) = {}
    BY <1>2, FirstsRead
  <2>3. PICK at : at \in [DOMAIN d[f] -> {}]
    BY <2>1, <2>2 DEF Lists, LastFirst
  <2>4. d["stops"] \in Seq(StopRow) /\ d["stations"] \in Seq(StationRow)
    BY DataLists
  <2>5. CASE f = "stops"
    BY <2>3, <2>4, <2>5, NothingOf
  <2>6. CASE f = "stations"
    BY <2>3, <2>4, <2>6, NothingOf
  <2> QED BY <1>3, <2>5, <2>6
<1>4. ASSUME f = "routes" PROVE d["routes"] = <<>>
  <2>1. HoldRoutes(fs, d["routes"], 0, read.route_stops)
    BY <1>4 DEF Holds
  <2>2. FirstOfTheir("no", RowsIn(fs, "routes"), 0) = {}
    BY <1>2, FirstsRead
  <2>3. PICK at : at \in [DOMAIN d["routes"] -> {}]
    BY <2>1, <2>2 DEF HoldRoutes, LastFirst
  <2>4. d["routes"] \in Seq(RouteRow)
    BY DataLists
  <2> QED BY <2>3, <2>4, NothingOf
<1>5. ASSUME f = "distances" PROVE d["distances"] = <<>>
  <2>1. HoldDistances(fs, d["distances"], 0)
    BY <1>5 DEF Holds
  <2>2. ConnectionsIn(fs, 0) = {}
    BY <1>2 DEF ConnectionsIn
  <2>3. PICK at : at \in [DOMAIN d["distances"] -> {}]
    BY <2>1, <2>2 DEF HoldDistances, LastFirst
  <2>4. d["distances"] \in Seq(DistRow)
    BY DataLists
  <2> QED BY <2>3, <2>4, NothingOf
<1>6. ASSUME f = "route_stops", NEW i \in DOMAIN d.routes PROVE d.routes[i].stops = <<>>
  <2>1. HoldRoutes(fs, d.routes, read.routes, 0)
    BY <1>6 DEF Holds
  <2>2. RunsOver(d.routes[i].stops, RowsIn(fs, "route_stops"), StopsIn(fs, d.routes[i].no, 0))
    BY <2>1 DEF HoldRoutes, RouteIs
  <2>3. StopsIn(fs, d.routes[i].no, 0) = {}
    BY <1>2, StopsRead
  <2>4. PICK at : at \in [DOMAIN d.routes[i].stops -> {}]
    BY <2>2, <2>3 DEF RunsOver
  <2>5. d.routes \in Seq(RouteRow)
    BY DataLists
  <2>6. d.routes[i] \in RouteRow
    BY <2>5, LenProperties, ElementOfSeq
  <2>7. d.routes[i].stops \in Seq(Call)
    BY <2>6 DEF RouteRow
  <2> QED BY <2>4, <2>7, NothingOf
<1> QED BY <1>1, <1>3, <1>4, <1>5, <1>6 DEF FilledIn

\* One file after the other.
LEMMA FileEnds ==
  ASSUME LoaderTypeOK, FilesInv, Unusable \/ EndOfFile
  PROVE  FilesInv'
<1> DEFINE f == Order[reading]
           good(k) == \A j \in 1..(k - 1) : GoodIn(files, data, Order[j])
<1>1. /\ ~ (reading > Len(Order)) /\ files' = files /\ data' = data /\ failed' = failed
      /\ reading' = reading + 1 /\ row' = 1 /\ loaded' = 0
  BY DEF Unusable, EndOfFile, AllRead, Allocated
<1>2. reading \in 1..8 /\ Len(Order) = 8 /\ row \in Nat \ {0} /\ loaded \in Nat /\ ok \in BOOLEAN
  BY <1>1, OrderIs DEF LoaderTypeOK
<1>3. /\ row - 1 <= Len(RowsIn(files, f))
      /\ ~failed => /\ Holds(files, data, ReadBy(files, reading, row))
                    /\ ok <=> good(reading)
                    /\ f \notin Optional => (loaded > 0 <=> FilledIn(data, f))
  BY <1>1, FilesInvIs DEF FilesOK
<1>4. \A k \in 1..9 : Len(RowsIn(files, Order[k])) \in Nat \/ k = 9
  <2> TAKE k \in 1..9
  <2>1. CASE k \in 1..8
    <3>1. \A g \in Files : RowsIn(files, g) = <<>> \/ \E Row : RowsIn(files, g) \in Seq(Row)
      BY DEF LoaderTypeOK, Contents, File, RowsIn, Files
    <3>2. Order[k] \in Files
      <4>1. k = 1 \/ k = 2 \/ k = 3 \/ k = 4 \/ k = 5 \/ k = 6 \/ k = 7 \/ k = 8
        BY <2>1
      <4> QED BY <4>1, OrderIs DEF Files
    <3> QED BY <3>1, <3>2, LenProperties, EmptySeq
  <2> QED BY <2>1
<1>5. row - 1 = Len(RowsIn(files, f))
  <2>1. CASE Unusable
    <3>1. RowsIn(files, f) = <<>>
      BY <2>1 DEF Unusable, RowsIn
    <3>2. Len(RowsIn(files, f)) = 0
      BY <3>1
    <3> QED BY <3>2, <1>2, <1>3
  <2>2. CASE EndOfFile
    <3>1. RowsIn(files, f) = files[f].rows /\ row > Len(files[f].rows)
      BY <2>2 DEF EndOfFile, RowsIn
    <3>2. Len(RowsIn(files, f)) \in Nat
      BY <1>2, <1>4
    <3> QED BY <3>1, <3>2, <1>2, <1>3
  <2> QED BY <2>1, <2>2
<1>6. \A g \in Files : ReadBy(files, reading + 1, 1)[g] = ReadBy(files, reading, row)[g]
  <2> DEFINE next == reading + 1
  <2>1. next \in 1..9 /\ next = reading + 1 /\ row \in Int
    BY <1>2
  <2>2. row - 1 = Len(RowsIn(files, Order[reading]))
    BY <1>5
  <2> HIDE DEF next
  <2>3. \A g \in Files : ReadBy(files, next, 1)[g] = ReadBy(files, reading, row)[g]
    BY <1>2, <2>1, <2>2, NextFile
  <2> QED BY <2>3 DEF next
<1>7. ASSUME ~failed PROVE Holds(files, data, ReadBy(files, reading + 1, 1))
  <2> DEFINE R0 == ReadBy(files, reading, row)
             R1 == ReadBy(files, reading + 1, 1)
  <2>1. Holds(files, data, R0)
    BY <1>3, <1>7
  <2>2. \A g \in Files : R1[g] = R0[g]
    BY <1>6
  <2> HIDE DEF R0, R1
  <2>3. \A g \in ListNames : HoldsPart(g, files, data, R1)
    <3> TAKE g \in ListNames
    <3>1. HoldsPart(g, files, data, R0)
      BY <2>1, HoldsParts
    <3>2. R1[g] = R0[g] /\ R1["route_stops"] = R0["route_stops"]
      BY <2>2 DEF ListNames, Files
    <3> QED BY <3>1, <3>2, PartStays
  <2>4. Holds(files, data, R1)
    BY <2>3, HoldsParts
  <2> QED BY <2>4 DEF R1
<1>8. good(reading + 1) <=> good(reading) /\ GoodIn(files, data, f)
  <2>1. 1..((reading + 1) - 1) = 1..(reading - 1) \cup {reading}
    BY <1>2
  <2> QED BY <2>1
<1>9. ASSUME ~failed PROVE ok' <=> good(reading + 1)
  <2>1. CASE Unusable
    <3>1. ok' = FALSE /\ ~ GoodIn(files, data, f)
      BY <2>1 DEF Unusable, GoodIn
    <3> HIDE DEF good
    <3> QED BY <3>1, <1>8
  <2>2. CASE EndOfFile
    <3>1. ok' = (ok /\ (loaded > 0 \/ f \in Optional)) /\ files[f].usable
      BY <2>2 DEF EndOfFile
    <3>2. GoodIn(files, data, f) <=> f \in Optional \/ FilledIn(data, f)
      BY <3>1 DEF GoodIn
    <3>3. (ok <=> good(reading)) /\ (f \notin Optional => (loaded > 0 <=> FilledIn(data, f)))
      BY <1>3, <1>9
    <3> HIDE DEF good, f
    <3> QED BY <3>1, <3>2, <3>3, <1>8
  <2> QED BY <2>1, <2>2
<1>10. ASSUME ~failed, ~ (reading + 1 > 8), Order[reading + 1] \notin Optional
       PROVE  ~ FilledIn(data, Order[reading + 1])
  <2> DEFINE k == reading + 1
             R1 == ReadBy(files, k, 1)
             g == Order[k]
  <2>1. k \in 1..8 /\ k \in 1..9 /\ 1 \in Int /\ 1 - 1 = 0
    BY <1>2, <1>10
  <2> HIDE DEF k
  <2>2. R1[g] = 0
    BY <2>1, ReadAt
  <2>3. Holds(files, data, R1)
    BY <1>7, <1>10 DEF k
  <2>4. g \notin Optional
    BY <1>10 DEF k
  <2>5. g \in Files
    <3>1. k = 1 \/ k = 2 \/ k = 3 \/ k = 4 \/ k = 5 \/ k = 6 \/ k = 7 \/ k = 8
      BY <2>1
    <3> QED BY <3>1, OrderIs DEF Files
  <2>6. data \in Load
    BY DEF LoaderTypeOK
  <2> HIDE DEF g, R1
  <2>7. ~ FilledIn(data, g)
    BY <2>2, <2>3, <2>4, <2>5, <2>6, NothingYet
  <2> QED BY <2>7 DEF g, k
<1>11. ~ (reading + 1 > Len(Order)) => 1 - 1 <= Len(RowsIn(files, Order[reading + 1]))
  <2> SUFFICES ASSUME ~ (reading + 1 > Len(Order)) PROVE 0 <= Len(RowsIn(files, Order[reading + 1]))
    OBVIOUS
  <2>1. reading + 1 \in 1..9 /\ reading + 1 # 9
    BY <1>2
  <2> QED BY <2>1, <1>4
<1> QED BY <1>1, <1>2, <1>7, <1>9, <1>10, <1>11, FilesInvIs DEF FilesOK

\* Whatever the loader does next.
LEMMA LoaderHolds ==
  ASSUME LoaderTypeOK, FilesInv, LoaderStep
  PROVE  FilesInv'
<1>1. CASE load_arrivals
  <2>1. At("arrivals") /\ Turn(TRUE, WithFront("arrivals", files["arrivals"].rows[row]))
    BY <1>1 DEF load_arrivals
  <2> QED BY <2>1, EveryRowHolds
<1>2. CASE load_crowdings
  <2>1. At("crowdings") /\ Turn(TRUE, WithFront("crowdings", files["crowdings"].rows[row]))
    BY <1>2 DEF load_crowdings
  <2> QED BY <2>1, EveryRowHolds
<1> QED BY <1>1, <1>2, BusStopHolds, RouteHolds, RouteStopHolds, StationHolds, DistanceHolds,
           FacilityHolds, FileEnds DEF LoaderStep

\* Behind the loader the lists stay as they are, and a failure is not forgotten.
LEMMA FilesStay ==
  ASSUME FilesInv, UNCHANGED <<data, files, reading, row, loaded, ok>>, ~failed' => ~failed
  PROVE  FilesInv'
<1>1. FilesOK(files, data, reading, row, loaded, ok, failed)
  BY FilesInvIs
<1>2. FilesOK(files, data, reading, row, loaded, ok, failed')
  BY <1>1 DEF FilesOK
<1> QED BY <1>2, FilesInvIs

\* At first nothing has been read, and the lists are empty.
LEMMA FilesInit ==
  ASSUME NEW f \in FileSets, LoaderInit(f), failed = FALSE
  PROVE  FilesInv
<1> DEFINE R == ReadBy(files, 1, 1)
<1>1. data = NoData /\ reading = 1 /\ row = 1 /\ loaded = 0 /\ ok = TRUE
  BY DEF LoaderInit
<1>2. 1 \in 1..9 /\ 1 \in 1..8 /\ 1 \in Int /\ 1 - 1 = 0 /\ 8 \in 1..8
  OBVIOUS
<1>3. \A g \in Files : R[g] = 0
  <2> TAKE g \in Files
  <2>1. PICK j \in 1..8 : g = Order[j]
    BY OrderIs DEF Files
  <2>2. CASE j = 1
    BY <1>2, <2>1, <2>2, ReadAt
  <2>3. CASE j > 1
    BY <1>2, <2>1, <2>3, ReadLater
  <2> QED BY <2>2, <2>3
<1>4. \A g \in ListNames : data[g] = <<>>
  BY <1>1 DEF NoData, ListNames, Files
<1> DEFINE none == [i \in {} |-> 0]
<1>5. none \in [DOMAIN <<>> -> {}] /\ DOMAIN <<>> = {} /\ DOMAIN none = {}
  OBVIOUS
<1> HIDE DEF none, R
<1>6. Range(none) = {}
  BY <1>5 DEF Range
<1>7. none \in LastFirst(<<>>, {})
  BY <1>5, <1>6 DEF LastFirst
<1>8. \A rows : Lists(<<>>, rows, {})
  BY <1>5, <1>7 DEF Lists
<1>9. \A ns : ns \subseteq 1..0 => ns = {}
  OBVIOUS
<1>10. \A key, rows : FirstOfTheir(key, rows, 0) = {}
  BY <1>9, FirstsRead
<1>11. \A g \in {"stops", "stations"} : HoldIds(files, g, <<>>, 0)
  BY <1>8, <1>10 DEF HoldIds
<1>12. HoldRoutes(files, <<>>, 0, 0)
  BY <1>5, <1>7, <1>10 DEF HoldRoutes
<1>13. HoldDistances(files, <<>>, 0)
  <2>1. ConnectionsIn(files, 0) = {}
    BY <1>9 DEF ConnectionsIn
  <2> QED BY <1>5, <1>7, <2>1 DEF HoldDistances
<1>14. HoldFacilities(files, <<>>, 0)
  <2>1. {n \in 1..0 : RowsIn(files, "facilities")[n].id # Blank} = {}
    BY <1>9
  <2> QED BY <1>8, <2>1 DEF HoldFacilities
<1>15. \A g \in {"arrivals", "crowdings"} : HoldAll(files, g, <<>>, 0)
  <2>1. 1..0 = {}
    BY <1>9
  <2> QED BY <1>8, <2>1 DEF HoldAll
<1>16. \A g \in ListNames : HoldsPart(g, files, data, R)
  <2> TAKE g \in ListNames
  <2>1. R[g] = 0 /\ R["route_stops"] = 0 /\ data[g] = <<>>
    BY <1>3, <1>4 DEF ListNames, Files
  <2> QED BY <2>1, <1>11, <1>12, <1>13, <1>14, <1>15 DEF HoldsPart
<1>17. Holds(files, data, R)
  BY <1>16, HoldsParts
<1>18. ~ FilledIn(data, Order[1])
  BY <1>4, OrderIs DEF FilledIn, ListNames, Files
<1>19. \A j \in 1..(1 - 1) : FALSE
  OBVIOUS
<1>20. 0 <= Len(RowsIn(files, Order[1]))
  <2>1. files \in Contents
    BY StartupAssumption DEF LoaderInit
  <2>2. files["stops"] \in [usable : BOOLEAN, rows : Seq([id : Ids \cup {Blank}, at : Places])]
    BY <2>1 DEF Contents, File
  <2>3. RowsIn(files, "stops") \in Seq([id : Ids \cup {Blank}, at : Places])
    BY <2>2, EmptySeq DEF RowsIn
  <2>4. Len(RowsIn(files, "stops")) \in Nat
    BY <2>3, LenProperties
  <2> QED BY <2>4, OrderIs
<1> QED BY <1>1, <1>2, <1>17, <1>18, <1>19, <1>20, FilesInvIs DEF FilesOK, R

\* When everything has been read, that is AgreesWithFiles.
LEMMA AgreesInv ==
  ASSUME LoaderTypeOK, FilesInv
  PROVE  AgreesWithFiles
<1> SUFFICES ASSUME AllRead, ~failed
             PROVE  /\ Hold([f \in Range(Order) |-> Len(Rows(f))])
                    /\ ok <=> \A f \in Range(Order) : Good(f)
  BY DEF AgreesWithFiles
<1>1. reading = 9
  BY OrderIs DEF AllRead, LoaderTypeOK
<1>2. /\ Hold([f \in Range(Order) |-> RowsRead(f)])
      /\ ok <=> \A k \in 1..(reading - 1) : Good(Order[k])
  BY DEF FilesInv
<1>3. \A f \in Files : \E k \in 1..8 : Order[k] = f
  BY OrderIs DEF Files
<1>4. reading - 1 = 8
  BY <1>1
<1>5. \A f \in Range(Order) : RowsRead(f) = Len(Rows(f))
  BY <1>3, <1>4, OrderIs DEF RowsRead
<1>6. [f \in Range(Order) |-> RowsRead(f)] = [f \in Range(Order) |-> Len(Rows(f))]
  BY <1>5
<1>7. \A k \in 1..8 : Order[k] \in Range(Order)
  <2>1. DOMAIN Order = 1..8
    BY DEF Order
  <2> QED BY <2>1 DEF Range
<1>8. (\A k \in 1..8 : Good(Order[k])) <=> \A f \in Range(Order) : Good(f)
  BY <1>3, <1>7, OrderIs
<1>9. Hold([f \in Range(Order) |-> Len(Rows(f))])
  BY <1>2, <1>6
<1>10. ok <=> \A f \in Range(Order) : Good(f)
  BY <1>2, <1>4, <1>8
<1> QED BY <1>9, <1>10

-----------------------------------------------------------------------------
(* The inductive invariant *)

\* The invariant in parts.
LEMMA InvIs ==
  /\ IInv <=> LoaderTypeOK /\ SoundReferences /\ GraphInv /\ LoadInv /\ FilesInv
                /\ server \in {"starting", "listening", "stopped"}
  /\ IInv' <=> LoaderTypeOK' /\ SoundReferences' /\ GraphInv' /\ LoadInv' /\ FilesInv'
                 /\ server' \in {"starting", "listening", "stopped"}
BY DEF IInv, TypeOK, GraphInv

\* It holds at first.
LEMMA InitIInv == Init => IInv
<1> SUFFICES ASSUME Init PROVE IInv
  OBVIOUS
<1>1. PICK f \in FileSets : LoaderInit(f) /\ mayFail = IF f \in Scarce THEN MaxFailures ELSE 0
  BY DEF Init
<1>2. /\ nodes = <<>> /\ edges = <<>> /\ todo = <<>> /\ back = NoLink /\ phase = "load"
      /\ failed = FALSE /\ server = "starting"
  BY DEF Init, GraphInit
<1>3. data = NoData /\ files = f /\ reading = 1 /\ row = 1 /\ loaded = 0 /\ ok = TRUE
  BY <1>1 DEF LoaderInit
<1>4. /\ NoData \in Load
      /\ \A list \in {"stops", "stations", "routes", "distances"} : NoData[list] = <<>>
  <2>1. NoData = [stops |-> <<>>, routes |-> <<>>, stations |-> <<>>, distances |-> <<>>,
                  facilities |-> <<>>, arrivals |-> <<>>, crowdings |-> <<>>]
    BY DEF NoData
  <2>2. \A S : <<>> \in Seq(S)
    OBVIOUS
  <2>3. NoData \in Load
    BY <2>1, <2>2 DEF Load
  <2> QED BY <2>1, <2>3
<1>5. LoaderTypeOK
  <2>1. f \in Contents /\ MaxFailures \in Nat
    BY StartupAssumption
  <2>2. 1 \in 1..(Len(Order) + 1)
    BY DEF Order
  <2>3. mayFail \in Nat
    BY <1>1, <2>1
  <2>4. 1 \in Nat \ {0} /\ 0 \in 0..(1 - 1)
    OBVIOUS
  <2> QED BY <1>2, <1>3, <1>4, <2>1, <2>2, <2>3, <2>4 DEF LoaderTypeOK
<1>6. SoundReferences
  <2>1. DOMAIN <<>> = {} /\ Len(<<>>) = 0
    OBVIOUS
  <2>2. data.stops = <<>> /\ data.stations = <<>> /\ data.routes = <<>> /\ data.distances = <<>>
    BY <1>3, <1>4
  <2>3. IdsOf(<<>>) = {} /\ Nos(<<>>) = {}
    BY <2>1 DEF IdsOf, Nos
  <2> QED BY <2>1, <2>2, <2>3, FS_EmptySet DEF SoundReferences
<1>7. GraphTypeOK /\ WellFormed
  BY <1>2 DEF GraphTypeOK, WellFormed, IsInjective, Nodes
<1>8. SameBothWays /\ TodoInv /\ NodesInv /\ HalfwayInv /\ LinksInv
  BY <1>2 DEF SameBothWays, TodoInv, NodesInv, HalfwayInv, LinksInv, Nodes
<1>9. LoadInv
  BY <1>2 DEF LoadInv
<1>10. FilesInv
  BY <1>1, <1>2, FilesInit
<1> QED BY <1>2, <1>5, <1>6, <1>7, <1>8, <1>9, <1>10, InvIs DEF GraphInv

\* Every step keeps the invariant.
LEMMA NextIInv == IInv /\ [Next]_vars => IInv'
<1> SUFFICES ASSUME IInv, [Next]_vars PROVE IInv'
  OBVIOUS
<1>1. LoaderTypeOK /\ SoundReferences /\ GraphInv /\ LoadInv /\ FilesInv
      /\ server \in {"starting", "listening", "stopped"}
  BY InvIs
<1>2. ASSUME UNCHANGED <<data, files, reading, row, loaded, ok>>, mayFail' \in Nat, failed' \in BOOLEAN,
             ~failed' => ~failed
      PROVE  LoaderTypeOK' /\ SoundReferences' /\ FilesInv' /\ (AllRead' <=> AllRead)
  <2>1. LoaderTypeOK' /\ (AllRead' <=> AllRead)
    BY <1>1, <1>2 DEF LoaderTypeOK, AllRead
  <2>2. SoundReferences'
    BY <1>1, <1>2, SoundParts
  <2>3. FilesInv'
    BY <1>1, <1>2, FilesStay
  <2> QED BY <2>1, <2>2, <2>3
<1>3. CASE LoadData
  <2>1. LoaderStep /\ UNCHANGED graphVars /\ server' = server
    BY <1>3 DEF LoadData
  <2>2. LoaderTypeOK' /\ SoundReferences' /\ FilesInv'
    BY <1>1, <2>1, LoaderSound, LoaderHolds
  <2>3. ~AllRead
    BY <2>1 DEF LoaderStep, load_bus_stops, load_bus_routes, load_route_stops, load_subway_stations,
             load_subway_distances, load_facilities, load_arrivals, load_crowdings, At, Unusable,
             EndOfFile
  <2>4. phase = "load" /\ phase' = "load"
    BY <1>1, <2>1, <2>3 DEF LoadInv, GraphInv, GraphTypeOK, graphVars
  <2>5. GraphInv'
    BY <1>1, <2>1, <2>4, GraphWaits
  <2> QED BY <1>1, <2>1, <2>2, <2>4, <2>5, InvIs DEF LoadInv
<1>4. CASE BuildGraph
  <2>1. AllRead /\ GraphStep /\ UNCHANGED loaderVars /\ server' = server
    BY <1>4 DEF BuildGraph
  <2>2. UNCHANGED <<files, reading, row, loaded, ok>>
    BY <2>1 DEF loaderVars
  <2>3. data' = data
    BY <2>1 DEF GraphStep, StartNodes, AddNode, StartLinks, AddForward, AddBackward, Finish
  <2>4. mayFail' \in Nat /\ failed' \in BOOLEAN /\ (~failed' => ~failed)
    <3>1. Allocated => mayFail' \in Nat /\ failed' \in BOOLEAN /\ (~failed' => ~failed)
      BY <1>1 DEF Allocated, LoaderTypeOK
    <3>2. NoMemory => mayFail' \in Nat /\ failed' \in BOOLEAN /\ (~failed' => ~failed)
      BY <1>1 DEF NoMemory, LoaderTypeOK
    <3>3. Allocated \/ NoMemory
      <4>1. AddNode => Allocated \/ NoMemory
        BY DEF AddNode, graph_add_node
      <4>2. AddForward => Allocated \/ NoMemory
        BY DEF AddForward, graph_add_edge
      <4>3. AddBackward => Allocated \/ NoMemory
        BY DEF AddBackward, graph_add_edge
      <4>4. StartNodes \/ StartLinks \/ Finish => Allocated \/ NoMemory
        BY DEF StartNodes, StartLinks, Finish
      <4> QED BY <2>1, <4>1, <4>2, <4>3, <4>4 DEF GraphStep
    <3> QED BY <3>1, <3>2, <3>3
  <2>5. LoaderTypeOK' /\ SoundReferences' /\ FilesInv' /\ AllRead'
    BY <2>1, <2>2, <2>3, <2>4, <1>2
  <2>6. GraphInv'
    BY <1>1, <2>1, NodesStarted, NodeAdded, LinksStarted, ForwardAdded, BackwardAdded,
       GraphFinished DEF GraphStep
  <2> QED BY <1>1, <2>1, <2>5, <2>6, InvIs DEF LoadInv
<1>5. CASE Listen
  <2>1. UNCHANGED <<data, mayFail, failed, loaderVars, graphVars>>
    BY <1>5 DEF Listen
  <2>2. LoaderTypeOK' /\ SoundReferences' /\ FilesInv' /\ (AllRead' <=> AllRead)
    BY <1>1, <1>2, <2>1 DEF loaderVars, LoaderTypeOK
  <2>3. GraphInv'
    BY <1>1, <2>1, GraphStays
  <2>4. server' \in {"starting", "listening", "stopped"}
    BY <1>5 DEF Listen
  <2> QED BY <1>1, <2>1, <2>2, <2>3, <2>4, InvIs DEF LoadInv, graphVars
<1>6. CASE UNCHANGED vars
  <2>1. UNCHANGED <<data, mayFail, failed, loaderVars, graphVars, server>>
    BY <1>6 DEF vars
  <2>2. LoaderTypeOK' /\ SoundReferences' /\ FilesInv' /\ (AllRead' <=> AllRead)
    BY <1>1, <1>2, <2>1 DEF loaderVars, LoaderTypeOK
  <2>3. GraphInv'
    BY <1>1, <2>1, GraphStays
  <2> QED BY <1>1, <2>1, <2>2, <2>3, InvIs DEF LoadInv, graphVars
<1> QED BY <1>3, <1>4, <1>5, <1>6 DEF Next

-----------------------------------------------------------------------------
(* What the finished graph is *)

\* All links have been offered in the end, so every edge is the fastest of them.
LEMMA FastestInv ==
  ASSUME IInv
  PROVE  KeepsTheFastest
<1> DEFINE links == Links(data)
<1> SUFFICES ASSUME phase = "done", ~failed PROVE KeepsTheFastest
  BY DEF KeepsTheFastest
<1>1. LoaderTypeOK /\ SoundReferences /\ GraphInv
  BY InvIs
<1>2. links \in Seq(LinkType)
  BY <1>1, DataLinks
<1>3. todo = <<>> /\ (back # NoLink) = FALSE /\ Range(nodes) = NodeIds /\ LinksInv
  BY <1>1 DEF GraphInv, TodoInv, NodesInv
<1> HIDE DEF links
<1>4. DOMAIN links = 1..Len(links) /\ Len(links) \in Nat
  BY <1>2, LenProperties
<1>5. Kept(links, <<>>, back, nodes, edges, FALSE)
  BY <1>3, LinksInvIs DEF links
<1>6. Len(links) - Len(<<>>) = Len(links)
  BY <1>4
<1>7. \A a, b \in DOMAIN nodes :
        a # b => Best(edges, links, Given(links, Len(links), nodes[a], nodes[b], FALSE), a, b)
  BY <1>5, <1>6 DEF Kept
<1>8. ASSUME NEW a \in Nodes, NEW b \in Nodes, a # b
      PROVE  /\ Offers(a, b) # {} <=> \E e \in Range(edges[a]) : e.to = b
             /\ \A e \in Range(edges[a]) : e.to = b =>
                  /\ \A l \in Offers(a, b) : e.minutes <= l.minutes
                  /\ \E l \in Offers(a, b) : e.minutes = l.minutes /\ e.route = l.route
  <2> DEFINE I == Given(links, Len(links), nodes[a], nodes[b], FALSE)
  <2>1. I = {i \in 1..Len(links) : {links[i].from, links[i].to} = {nodes[a], nodes[b]}}
    BY DEF Given
  <2>2. Range(links) = {links[i] : i \in 1..Len(links)}
    BY <1>4 DEF Range
  <2>3. Offers(a, b) = {l \in Range(links) : {l.from, l.to} = {nodes[a], nodes[b]}}
    BY DEF Offers, links
  <2>4. Offers(a, b) = {links[i] : i \in I}
    <3> DEFINE between(l) == {l.from, l.to} = {nodes[a], nodes[b]}
    <3>1. I = {i \in 1..Len(links) : between(links[i])} /\ Offers(a, b) = {l \in Range(links) : between(l)}
      BY <2>1, <2>3
    <3> HIDE DEF between, I
    <3>2. ASSUME NEW l \in Offers(a, b) PROVE l \in {links[i] : i \in I}
      BY <3>1, <3>2, <2>2
    <3>3. ASSUME NEW i \in I PROVE links[i] \in Offers(a, b)
      BY <3>1, <3>3, <2>2
    <3> QED BY <3>2, <3>3
  <2>5. Best(edges, links, I, a, b)
    BY <1>7, <1>8 DEF Nodes
  <2> HIDE DEF I
  <2> QED BY <2>4, <2>5 DEF Best
<1> QED BY <1>3, <1>8 DEF KeepsTheFastest, NodeIds

\* A stop was offered a way to one of the nearest stations, so it has one.
LEMMA ReachInv ==
  ASSUME IInv
  PROVE  StopsReachStations
<1> DEFINE located == Located(data.stations)
           others(s) == {t \in Range(located) : t.id # s.id}
<1> SUFFICES ASSUME phase = "done", ~failed,
                    NEW s \in Range(Located(data.stops)), others(s) # {}, ~HasId(located, s.id)
             PROVE  \E t \in others(s) :
                      /\ \A u \in others(s) : Apart(s, t) <= Apart(s, u)
                      /\ \E e \in Range(edges[graph_find_node(s.id)]) : nodes[e.to] = t.id
  BY DEF StopsReachStations
<1>1. LoaderTypeOK /\ SoundReferences /\ GraphInv
  BY InvIs
<1>2. /\ data \in Load /\ nodes \in Seq(Ids) /\ IsInjective(nodes)
      /\ Range(nodes) = NodeIds /\ \A n \in DOMAIN data.distances : data.distances[n].minutes > 0
  BY <1>1, SoundParts DEF LoaderTypeOK, GraphInv, GraphTypeOK, WellFormed, NodesInv, SoundData,
                          SoundDistances
<1>3. located \in Seq(StationRow) /\ Range(located) \subseteq Range(data.stations)
      /\ s \in Range(data.stops)
  BY <1>2, DataLists, LocatedFacts
<1>4. located # <<>>
  BY <1>3, RangeOf
<1>5. PICK t \in Range(Chosen(s, located)) : \A u \in Range(located) : Apart(s, t) <= Apart(s, u)
  BY <1>2, <1>4, ChosenFacts
<1>6. t \in Range(located) /\ t.id # s.id
  <2>1. t \in Range(located)
    BY <1>2, <1>5, ChosenFacts
  <2>2. \A r \in Range(located) : r.id # s.id
    BY DEF HasId, Range
  <2> QED BY <2>1, <2>2
<1>7. PICK l \in Range(StopLinks(data, s)) : l.from = s.id /\ l.to = t.id
  BY <1>2, <1>5, StopLinksTyped
<1>8. l \in Range(Links(data))
  BY <1>2, <1>7, TransferLinksTyped, LinksTyped
<1> DEFINE a == graph_find_node(s.id)
           b == graph_find_node(t.id)
<1>9. s.id \in Range(nodes) /\ t.id \in Range(nodes)
  BY <1>2, <1>3, <1>6 DEF NodeIds
<1>10. a \in Nodes /\ b \in Nodes /\ nodes[a] = s.id /\ nodes[b] = t.id
  BY <1>2, <1>9, FindNode
<1>11. a # b
  BY <1>6, <1>10
<1> HIDE DEF a, b
<1>12. l \in Offers(a, b)
  BY <1>7, <1>8, <1>10 DEF Offers
<1>13. PICK e \in Range(edges[a]) : e.to = b
  BY <1>10, <1>11, <1>12, FastestInv DEF KeepsTheFastest
<1>14. \E e2 \in Range(edges[graph_find_node(s.id)]) : nodes[e2.to] = t.id
  BY <1>10, <1>13 DEF a
<1> QED BY <1>5, <1>6, <1>14

-----------------------------------------------------------------------------
\* Every reachable state satisfies the invariant.
THEOREM InvariantHolds == Spec => []IInv
<1> QED BY InitIInv, NextIInv, PTL DEF Spec

\* Lists, counters and graph stay what they are declared to be, whatever the files hold.
THEOREM TypeCorrect == Spec => []TypeOK
<1>1. IInv => TypeOK
  BY DEF IInv
<1> QED BY <1>1, InvariantHolds, PTL

\* The loaders of data_loader.c never leave a route stop or a distance that refers to
\* nothing, nor list an id twice, even when an allocation failed.
THEOREM ReferencesSound == Spec => []SoundReferences
<1>1. IInv => SoundReferences
  BY DEF IInv
<1> QED BY <1>1, InvariantHolds, PTL

\* What data_loader_load leaves when no allocation failed: of every id the first row that
\* has it, of every route its stops by their numbers, whatever the order of the rows; and
\* the load is good exactly if every file was usable and those that must not be empty were not.
THEOREM LoadsTheFiles == Spec => []AgreesWithFiles
<1>1. IInv => AgreesWithFiles
  BY InvIs, AgreesInv
<1> QED BY <1>1, InvariantHolds, PTL

\* What graph_find_path relies on holds after every call of graph_add_node and
\* graph_add_edge, the failed ones included.
THEOREM GraphWellFormed == Spec => []WellFormed
<1>1. IInv => WellFormed
  BY DEF IInv
<1> QED BY <1>1, InvariantHolds, PTL

\* Between two pairs of graph_add_edge calls the graph is the same in both directions.
THEOREM BothWaysTheSame == Spec => []SameBothWays
<1>1. IInv => SameBothWays
  BY DEF IInv
<1> QED BY <1>1, InvariantHolds, PTL

\* data_loader_build_graph leaves an edge exactly where the lists offer one, with the
\* minutes of the fastest offer, whatever the order of the offers.
THEOREM FastestKept == Spec => []KeepsTheFastest
<1>1. IInv => KeepsTheFastest
  BY FastestInv
<1> QED BY <1>1, InvariantHolds, PTL

\* The transfer links of data_loader_build_graph connect every located stop to a
\* station none is nearer than, however far it is.
THEOREM StationsReached == Spec => []StopsReachStations
<1>1. IInv => StopsReachStations
  BY ReachInv
<1> QED BY <1>1, InvariantHolds, PTL
=============================================================================
