---------------------------- MODULE SearchService ----------------------------
(***************************************************************************)
(* The services that look something up in the lists of AppData: stops,     *)
(* bus routes and stations (src/server/search_service.c), facilities       *)
(* (facility_service.c), arrivals and crowding (operation_service.c); and  *)
(* what src/client/result_viewer.c makes of their answers.                 *)
(*                                                                         *)
(* An answer is its code, its items and its size.  An item is the index of *)
(* its entry in the list, and a text (module Packet) whose pieces are      *)
(* tuples of strings: a label, a name, <<",">>; ids and names up to the    *)
(* list in an item are its <<"head">>.  Strings are known by what the code *)
(* can tell of them (Str).  Different names count as different from their  *)
(* first byte on, and none has a separator in it.                          *)
(***************************************************************************)
EXTENDS Packet, Names

CONSTANTS
  Datasets,      \* what the lists of AppData may hold, in list order, of each town
  Str,           \* size, shape, number, compact, digits, idNumber, placeholder of strings
  None,          \* no digits, no number
  Delimited,     \* a keyword with a separator of the protocol in it
  Aliases,       \* pairs <<alias id, id>> of stop_ids_alias_match
  HeaderSize,    \* bytes of "TYPE|code|"
  NoteSize,      \* bytes of an arrival or a crowding level at a route
  RoutesText,    \* STOP_ROUTES_TEXT_SIZE, 4096
  KeyWidth,      \* bytes of a key that the needle of route_key_exists holds, 130
  BusRoom,       \* bytes a bus item asks for, 700
  StationRoom,   \* bytes a station asks for, 300
  MaxStops, MaxBuses, MaxStations, MaxFacilities,  \* most items: 100, 10, 20, 10
  ItemShown,     \* item_buf of print_list_items, 1024
  BusShown       \* item_buf of show_bus_result, 2048

ASSUME SearchAssumption ==
  /\ HeaderSize \in Nat \ {0} /\ HeaderSize + 1 < MaxPacket /\ NoteSize \in Nat
  /\ {MaxStops, MaxBuses, MaxStations, MaxFacilities, BusRoom, StationRoom} \subseteq Nat \ {0}
  /\ {RoutesText, KeyWidth, ItemShown, BusShown} \subseteq Nat \ {0}

\* Strings that are not blank, and what may be known of a string.
Named == DOMAIN Str \ {Blank}

ASSUME StringsAssumption ==
  /\ Blank \in DOMAIN Str /\ Str[Blank].shape = "inactive"
  /\ DOMAIN Str \cap {"head", ",", "note", ")", "-"} = {}
  /\ \A w \in DOMAIN Str :
       /\ Str[w].size \in Nat /\ (Str[w].size = 0 <=> w = Blank)
       /\ Str[w].shape \in {"towards", "numbered", "inactive", "plain"}
       /\ Str[w].shape = "numbered" => Str[w].number \in Named
       /\ Str[w].idNumber \in Named \cup {None}

\* The lists of AppData.  The loader makes up the names that stops lack, but not those of
\* stations.
AppDataLists ==
  LET Text == DOMAIN Str
  IN  [stops      : Seq([id : Named, name : Named]),
       stations   : Seq([id : Named, name : Text, line : Text, transfers : Text, address : Text]),
       routes     : Seq([no : Named, name : Text, start : Text, end : Text, stops : Seq(Named)]),
       facilities : Seq([name : Text, category : Text, node : Text, address : Text]),
       arrivals   : Seq([node : Text, route : Text, slot : Text]),
       crowdings  : Seq([node : Text, route : Text, slot : Text])]

\* The stops of a route are stops of the list: load_route_stops drops all others.
ASSUME DataAssumption ==
  /\ Datasets \in Seq(AppDataLists)
  /\ \A app \in Range(Datasets) : \A route \in Range(app.routes) :
       Range(route.stops) \subseteq {stop.id : stop \in Range(app.stops)}

VARIABLES
  town,     \* the town whose lists are in AppData
  request,  \* what is looked up: a type and words
  pc,       \* where server and client are
  rank,     \* the rank handle_bus_search looks for
  done,     \* entries of the list it has looked at
  keys,     \* the keys of the bus routes seen
  code,     \* the code of the answer
  items,    \* its items
  used,     \* its size
  ended,    \* it ends in a newline
  shown     \* on the screen: for each item its entry, and the rows under it

searchVars == <<town, request, pc, rank, done, keys, code, items, used, ended, shown>>

OK              == 0
NOT_FOUND       == 1
INVALID_REQUEST == 2

Fields == <<"head">>
Comma == <<",">>
Note  == <<"note">>
Close == <<")">>
Dash  == <<"-">>

data == Datasets[town]

Size(words) == Total([n \in DOMAIN words |-> Str[words[n]].size])

ItemTexts == Texts(Seq(DOMAIN Str \cup {"head", ",", "note", ")", "-"}))

-----------------------------------------------------------------------------
(* Names of stops and routes *)

\* A stop of this id before a station, else the id itself.
find_node_name_by_id(app, id) ==
  LET places == app.stops \o app.stations
      n      == SelectInSeq(places, LAMBDA p : p.id = id)
  IN  IF n = 0 THEN id ELSE places[n].name

route_has_stop(route, id) == id \in Range(route.stops)

\* What a bus of this number and name is called; <<>> if it is none in service.
DisplayName(no, name) ==
  CASE Str[name].shape = "towards"  -> <<IF Str[no].idNumber # None THEN Str[no].idNumber ELSE no, name>>
    [] Str[name].shape = "numbered" -> <<Str[name].number>>
    [] Str[name].shape \in {"inactive", "plain"} -> <<>>

route_display_name(route) == DisplayName(route.no, IF route.name = Blank THEN route.no ELSE route.name)

\* A number goes with the name of the last stop, if that has a name.
WithDestination(base, end, destination) ==
  IF Len(base) = 1 /\ destination \notin {Blank, end} /\ ~Str[destination].placeholder
    THEN Append(base, destination)
    ELSE base

route_display_label(app, route) ==
  WithDestination(route_display_name(route), route.end, find_node_name_by_id(app, route.end))

\* How well a route suits the keyword of a bus search; 0 is not at all.
route_match_rank(route, kw) ==
  LET name     == route.name
      digits   == Str[kw].digits
      idNumber == IF Str[name].shape = "towards" THEN Str[route.no].idNumber ELSE None
  IN  CASE Str[name].shape = "inactive" -> 0
        [] Str[name].shape # "inactive" /\
             (kw \in {route.no, name} \/ Str[kw].compact = Str[name].compact) -> 1
        [] OTHER ->
             IF digits = None THEN IF keyword_match(name, kw) THEN 3 ELSE 0
             ELSE IF digits = (IF Str[name].digits # None THEN Str[name].digits ELSE idNumber)
                    THEN 2 ELSE 0

-----------------------------------------------------------------------------
(* The routes of a stop *)

KeySize(label) == Size(label) + 2

IsNoted(notes, id, route) == \E n \in DOMAIN notes : /\ notes[n].node = id
                                                     /\ notes[n].route = route.no
                                                     /\ notes[n].slot = "morning"

\* A label with the arrival and the crowding in the morning, or by itself.
WithNotes(text, label, arrival, crowding) ==
  LET opened  == str_appendf(RoutesText, text, label, Size(label) + 1)
      arrived == str_appendf(RoutesText, opened, Note, NoteSize)
      crowded == IF crowding THEN str_appendf(RoutesText, arrived, Note, NoteSize) ELSE arrived
  IN  IF arrival \/ crowding THEN str_append(RoutesText, crowded, Close, 1)
      ELSE str_append(RoutesText, text, label, Size(label))

\* One route more, unless its label is there already or the list of keys is full.
append_route_item(list, label, arrival, crowding) ==
  LET key  == Piece(label, KeySize(label))
      text == IF list.text = <<>> THEN <<>> ELSE str_append(RoutesText, list.text, Comma, 1)
  IN  IF label = <<>> \/ key \in Range(list.keys) THEN list
      ELSE IF ~Fits(RoutesText, Length(list.keys), KeySize(label))
        THEN [list EXCEPT !.keys = str_appendf(RoutesText, @, label, KeySize(label))]
        ELSE [text  |-> WithNotes(text, label, arrival, crowding),
              keys  |-> Append(list.keys, key),
              count |-> list.count + 1]

RouteLists == [text : ItemTexts, keys : ItemTexts, count : Nat]

append_routes_for_stop_id(app, list, id) ==
  FoldWith([route \in Range(app.routes) |-> [l \in RouteLists |->
              IF route_has_stop(route, id)
                THEN append_route_item(l, route_display_label(app, route),
                                       IsNoted(app.arrivals, id, route),
                                       IsNoted(app.crowdings, id, route))
                ELSE l]],
           list, app.routes)

\* append_routes_for_alias_stop_ids.
WithAliases(app, list, stop) ==
  FoldWith([other \in Range(app.stops) |-> [l \in RouteLists |->
              IF other.id # stop.id /\ <<stop.id, other.id>> \in Aliases
                THEN append_routes_for_stop_id(app, l, other.id) ELSE l]],
           list, app.stops)

\* Mutant: aliases are looked up even if the stop has routes of its own.
OrAliases_Mut(app, own, stop) == WithAliases(app, own, stop)

\* Only a stop without routes of its own has those of the stops its id is an alias of.
OrAliases(app, own, stop) == IF own.count > 0 THEN own ELSE WithAliases(app, own, stop)

OrDash(list) == IF list.count = 0 \/ list.text = <<>> THEN <<Piece(Dash, 1)>> ELSE list.text

append_routes_for_stop(app, stop) ==
  OrDash(OrAliases(app,
                   append_routes_for_stop_id(app, [text |-> <<>>, keys |-> <<>>, count |-> 0], stop.id),
                   stop))

-----------------------------------------------------------------------------
(* Keywords and entries *)

StopMatches(stop)       == keyword_match(stop.name, request.words[1]) \/ stop.id = request.words[1]

StationMatches(station) ==
  \/ station.id = request.words[1]
  \/ \E text \in {station.name, station.line, station.transfers, station.address} :
       keyword_match(text, request.words[1])

\* The nodes of the transfer graph: the stops, and the stations with ids of their own.
Nodes(app) ==
  LET node(n, station) == [id |-> n.id, name |-> n.name, station |-> station]
      own == SelectSeq(app.stations, LAMBDA t : \A s \in Range(app.stops) : s.id # t.id)
  IN  [i \in DOMAIN app.stops |-> node(app.stops[i], FALSE)]
      \o [i \in DOMAIN own |-> node(own[i], TRUE)]

\* The first node with one of these names, a station if the keyword asks for one.
BestNamed(nodes, kw, names) ==
  FirstFound(<<SelectInSeq(nodes, LAMBDA n : n.name \in names /\ kw \in StationLike /\ n.station),
               SelectInSeq(nodes, LAMBDA n : n.name \in names)>>)

\* By id, else by whole name, else by a part of it.
resolve_node_id(app, kw) ==
  IF kw = Blank THEN 0
  ELSE FirstFound(<<SelectInSeq(Nodes(app), LAMBDA n : n.id = kw),
                    BestNamed(Nodes(app), kw, {kw}),
                    BestNamed(Nodes(app), kw, NamesWith(Nodes(app), kw))>>)

FacilityMatches(facility) ==
  /\ facility.node = Nodes(data)[resolve_node_id(data, request.words[1])].id
  /\ request.words[2] \in {Blank, "all"} \/ keyword_match(facility.category, request.words[2])

-----------------------------------------------------------------------------
(* Items *)

StopItem(app, stop) ==
  <<Piece(Fields, Size(<<stop.id, stop.name>>) + 2)>> \o append_routes_for_stop(app, stop)

StationItem(station) ==
  <<Piece(Fields, Size(<<station.id, station.name, station.line>>) + 3
                 + (IF station.transfers = Blank THEN 1 ELSE Size(<<station.transfers>>)))>>

FacilityItem(facility) ==
  <<Piece(Fields, Size(<<facility.name, facility.category, facility.node, facility.address>>) + 3)>>

BusHead(app, route) ==
  Size(<<route.no>> \o route_display_label(app, route))
  + Size(<<find_node_name_by_id(app, route.start), find_node_name_by_id(app, route.end)>>) + 4

StopNames(app, route) == [n \in DOMAIN route.stops |-> find_node_name_by_id(app, route.stops[n])]

\* The first name, and a comma and a name for each stop after it.
FirstName(app, route, room) ==
  LET first == <<Head(StopNames(app, route))>>
  IN  str_append(room, <<Piece(Fields, BusHead(app, route))>>, first, Size(first))

\* Mutant: a comma is set only when a name follows it.
BusItem_Mut(app, route, room) ==
  LET add(text, name) == IF Fits(room, Length(text), 1 + Size(<<name>>))
                           THEN text \o <<Piece(Comma, 1), Piece(<<name>>, Size(<<name>>))>>
                           ELSE text
      names == StopNames(app, route)
  IN  FoldWith([name \in Range(names) |-> [text \in ItemTexts |-> add(text, name)]],
               FirstName(app, route, room), Tail(names))

\* append_bus_route_item: in what room is left, each comma and each name of a stop is
\* there or not.
BusItem(app, route, room) ==
  LET names == StopNames(app, route)
      add(text, name) ==
        str_append(room, str_append(room, text, Comma, 1), <<name>>, Size(<<name>>))
  IN  IF route.stops = <<>> THEN str_append(room, <<Piece(Fields, BusHead(app, route))>>, Dash, 1)
      ELSE FoldWith([name \in Range(names) |-> [text \in ItemTexts |-> add(text, name)]],
                    FirstName(app, route, room), Tail(names))

\* What makes a bus route another one: its label, and where it starts and ends; of
\* this, as much as route_key_exists compares.
BusKey(app, route) ==
  LET label == route_display_label(app, route)
      start == find_node_name_by_id(app, route.start)
      last  == find_node_name_by_id(app, route.end)
  IN  safe_strcpy(KeyWidth + 1, <<Piece(label, Size(label) + 1), Piece(<<start>>, Size(<<start>>) + 1),
                                  Piece(<<last>>, Size(<<last>>))>>)

\* Behind a ';' if there are items before it.
Separator == IF items = <<>> THEN 0 ELSE 1

AddItem(n, text) == /\ items' = Append(items, [of |-> n, text |-> text])
                    /\ used' = used + Separator + Length(text)

\* What the constants of the code leave room for: a looked up note in an answer, a
\* station in what is set aside for it, the key of a route in an empty list of keys, and
\* the first fields and the first stop of a bus item.
ASSUME RoomAssumption ==
  /\ \A v, w \in DOMAIN Str : HeaderSize + Str[v].size + Str[w].size + NoteSize + 2 < MaxPacket
  /\ \A app \in Range(Datasets) :
       /\ \A station \in Range(app.stations) : Length(StationItem(station)) < StationRoom
       /\ \A route \in {r \in Range(app.routes) : route_display_label(app, r) # <<>>} :
            LET first == IF route.stops = <<>> THEN 1 ELSE Str[Head(StopNames(app, route))].size
            IN  /\ KeySize(route_display_label(app, route)) < RoutesText
                /\ BusHead(app, route) + first + 1 < BusRoom /\ BusHead(app, route) + 1 < BusShown

-----------------------------------------------------------------------------
(* The handlers *)

SearchInit == /\ town \in DOMAIN Datasets
              /\ request = [type |-> "none", words |-> <<>>]
              /\ pc = "idle"
              /\ rank = 1
              /\ done = 0
              /\ keys = {}
              /\ code = OK
              /\ items = <<>>
              /\ used = 0
              /\ ended = FALSE
              /\ shown = <<>>

Keyworded == {"stop", "bus", "subway"}
Lookups   == {"arrival", "crowding"}

\* The words a handler does not work with.
Refused(r) == \/ r.type \in Keyworded /\ r.words[1] \in {Blank, Delimited}
              \/ r.type = "facility" /\ Len(r.words) # 2
              \/ r.type \in Lookups /\ (Len(r.words) # 3 \/ Blank \in Range(r.words))

\* The answer begins with its header, or is an error.  What the screen showed before is
\* of no concern any more.
Begin(r) == /\ pc = "idle"
            /\ request' = r
            /\ pc' = IF Refused(r) THEN "sent" ELSE r.type
            /\ code' = IF Refused(r) THEN INVALID_REQUEST ELSE OK
            /\ used' = HeaderSize + (IF Refused(r) THEN 1 ELSE 0)
            /\ ended' = Refused(r)
            /\ rank' = 1
            /\ done' = 0
            /\ keys' = {}
            /\ items' = <<>>
            /\ shown' = <<>>
            /\ UNCHANGED town

\* A turn of a loop over a list: this entry is passed over, ends the loop, or is added.
Turn(matches, enough, text) ==
  /\ \/ /\ ~matches
        /\ done' = done + 1
        /\ UNCHANGED <<pc, items, used>>
     \/ /\ matches
        /\ enough
        /\ pc' = "end"
        /\ UNCHANGED <<done, items, used>>
     \/ /\ matches
        /\ ~enough
        /\ AddItem(done + 1, text)
        /\ done' = done + 1
        /\ UNCHANGED pc
  /\ UNCHANGED <<town, request, rank, keys, code, ended, shown>>

\* The item leaves room for a separator, a newline and the terminating 0.
StopsAreEnough(stop) == Len(items) >= MaxStops \/ used + Length(StopItem(data, stop)) + 2 >= MaxPacket

handle_stop_search ==
  /\ pc = "stop"
  /\ done < Len(data.stops)
  /\ LET stop == data.stops[done + 1]
     IN  Turn(StopMatches(stop), StopsAreEnough(stop), StopItem(data, stop))

handle_subway_search ==
  /\ pc = "subway"
  /\ done < Len(data.stations)
  /\ LET station == data.stations[done + 1]
     IN  Turn(StationMatches(station),
              used + StationRoom >= MaxPacket \/ Len(items) >= MaxStations,
              StationItem(station))

handle_facility ==
  /\ pc = "facility"
  /\ resolve_node_id(data, request.words[1]) # 0
  /\ done < Len(data.facilities)
  /\ LET facility == data.facilities[done + 1]
     IN  Turn(FacilityMatches(facility),
              used + Length(FacilityItem(facility)) + 13 >= MaxPacket \/ Len(items) >= MaxFacilities,
              FacilityItem(facility))

\* mark_bus_route_seen lets through what has a label and a key of its own.
IsSeen(route) == route_display_label(data, route) = <<>> \/ BusKey(data, route) \in keys

BusesAreEnough == Len(items) >= MaxBuses \/ used + BusRoom >= MaxPacket

\* A turn of the inner loop of handle_bus_search, which a route without room leaves.
BusTurn ==
  /\ pc = "bus"
  /\ done < Len(data.routes)
  /\ LET route == data.routes[done + 1]
     IN  \/ /\ route_match_rank(route, request.words[1]) # rank \/ IsSeen(route)
            /\ done' = done + 1
            /\ UNCHANGED <<keys, items, used>>
         \/ /\ route_match_rank(route, request.words[1]) = rank /\ ~IsSeen(route)
            /\ keys' = keys \cup {BusKey(data, route)}
            /\ IF BusesAreEnough
                 THEN done' = Len(data.routes) /\ UNCHANGED <<items, used>>
                 ELSE /\ AddItem(done + 1, BusItem(data, route, MaxPacket - used - Separator))
                      /\ done' = done + 1
  /\ UNCHANGED <<town, request, pc, rank, code, ended, shown>>

\* The outer loop: the next rank, while there is one and items are wanted.
BusRank ==
  /\ pc = "bus"
  /\ done = Len(data.routes)
  /\ IF rank < 3 /\ Len(items) < MaxBuses
       THEN rank' = rank + 1 /\ done' = 0 /\ UNCHANGED pc
       ELSE pc' = "end" /\ UNCHANGED <<rank, done>>
  /\ UNCHANGED <<town, request, keys, code, items, used, ended, shown>>

\* The list is at its end, or no place is meant.
ListEnd ==
  /\ \/ pc = "stop" /\ done = Len(data.stops)
     \/ pc = "subway" /\ done = Len(data.stations)
     \/ pc = "facility" /\ (resolve_node_id(data, request.words[1]) = 0 \/ done = Len(data.facilities))
  /\ pc' = "end"
  /\ UNCHANGED <<town, request, rank, done, keys, code, items, used, ended, shown>>

\* Mutant: the newline is written whether or not there is room for it.
Finish_Mut ==
  /\ pc = "end"
  /\ code' = IF items = <<>> THEN NOT_FOUND ELSE OK
  /\ used' = used + 1
  /\ ended' = TRUE
  /\ pc' = "sent"
  /\ UNCHANGED <<town, request, rank, done, keys, items, shown>>

\* An answer without items is another one; the newline is added if there is room.
Finish ==
  /\ pc = "end"
  /\ code' = IF items = <<>> THEN NOT_FOUND ELSE OK
  /\ ended' = Fits(MaxPacket, used, 1)
  /\ used' = IF Fits(MaxPacket, used, 1) THEN used + 1 ELSE used
  /\ pc' = "sent"
  /\ UNCHANGED <<town, request, rank, done, keys, items, shown>>

\* find_arrival and find_crowding: the first entry of this node, route and time.
Found(notes) == SelectInSeq(notes, LAMBDA n : <<n.node, n.route, n.slot>> = request.words)

LookUp(notes) ==
  /\ LET name == find_node_name_by_id(data, request.words[1])
     IN  IF Found(notes) = 0 THEN UNCHANGED <<items, used>>
         ELSE AddItem(Found(notes), <<Piece(Fields, Size(<<request.words[2], name>>) + NoteSize + 2)>>)
  /\ pc' = "end"
  /\ UNCHANGED <<town, request, rank, done, keys, code, ended, shown>>

handle_arrival  == pc = "arrival" /\ LookUp(data.arrivals)

handle_crowding == pc = "crowding" /\ LookUp(data.crowdings)

ServiceStep == \/ handle_stop_search \/ handle_subway_search \/ handle_facility
               \/ BusTurn \/ BusRank \/ ListEnd \/ Finish
               \/ handle_arrival \/ handle_crowding

-----------------------------------------------------------------------------
(* The screen *)

\* The lines under a bus route: one more for each comma, and none if nothing follows
\* the last.
StopLines(text) ==
  LET add(ls, p) == IF p.what = Comma THEN Append(ls, <<>>) ELSE [ls EXCEPT ![Len(ls)] = Append(@, p)]
      lines == FoldWith([p \in Range(text) |-> [ls \in Seq(ItemTexts) |-> add(ls, p)]], <<<<>>>>, text)
  IN  IF Last(lines) = <<>> THEN Front(lines) ELSE lines

\* What item_buf of show_bus_result or print_list_items holds of an item.
ItemView(item) ==
  [of   |-> item.of,
   rows |-> IF request.type = "bus" THEN StopLines(Tail(safe_strcpy(BusShown, item.text)))
            ELSE safe_strcpy(ItemShown, item.text)]

\* result_viewer_show.
View == /\ shown' = IF code = OK THEN [n \in DOMAIN items |-> ItemView(items[n])] ELSE <<>>
        /\ pc' = "idle"
        /\ UNCHANGED <<town, request, rank, done, keys, code, items, used, ended>>

-----------------------------------------------------------------------------
(* Properties *)

\* The bytes of the answer before its newline.
Body == used - (IF ended THEN 1 ELSE 0)

Listed == {items[n].of : n \in DOMAIN items}

\* The routes a stop is listed with: those through it, or else those through the stops
\* its id is an alias of.
Through(app, id) ==
  {r \in Range(app.routes) : route_has_stop(r, id) /\ route_display_label(app, r) # <<>>}

RoutesOf(app, stop) ==
  IF Through(app, stop.id) # {} THEN Through(app, stop.id)
  ELSE UNION {Through(app, s.id) : s \in {other \in Range(app.stops) :
                                           other.id # stop.id /\ <<stop.id, other.id>> \in Aliases}}

LabelsOf(app, stop) == {route_display_label(app, r) : r \in RoutesOf(app, stop)}

LabelPieces(text) == Keep(text, {p \in Range(text) : p.what \notin {Fields, Comma, Note, Close}})

\* Bytes a list of routes needs for these.
RoomForLabels(labels) == SumFunctionOnSet([l \in labels |-> Size(l) + 3 + 2 * NoteSize], labels)

\* Each route of the stop is named once, and all of them if there is room.
NamesRoutes(app, stop, text) ==
  LET named  == LabelPieces(text)
      labels == LabelsOf(app, stop)
  IN  IF labels = {} THEN named = <<Piece(Dash, 1)>>
      ELSE /\ \A m, n \in DOMAIN named : named[m].what = named[n].what => m = n
           /\ \A n \in DOMAIN named : named[n].what \in labels
           /\ RoomForLabels(labels) < RoutesText => {p.what : p \in Range(named)} = labels

\* Entries that match, and the bytes that the test of room asks for one of them.
MatchingStops == {n \in DOMAIN data.stops : StopMatches(data.stops[n])}
StopNeeds     == [n \in DOMAIN data.stops |-> Length(StopItem(data, data.stops[n])) + 2]

MatchingStations == {n \in DOMAIN data.stations : StationMatches(data.stations[n])}
StationNeeds     == [n \in DOMAIN data.stations |-> StationRoom]

MatchingFacilities ==
  IF resolve_node_id(data, request.words[1]) = 0 THEN {}
  ELSE {n \in DOMAIN data.facilities : FacilityMatches(data.facilities[n])}
FacilityNeeds == [n \in DOMAIN data.facilities |-> Length(FacilityItem(data.facilities[n])) + 13]

InListOrder == \A m, n \in DOMAIN items : m < n => items[m].of < items[n].of

\* The answer has the first of the entries that match, and only the limit or want of
\* room for the next keeps one out of it.
HasTheFirst(matching, limit, needs) ==
  /\ Listed \subseteq matching
  /\ InListOrder
  /\ matching # Listed =>
       LET next == Min(matching \ Listed)
       IN  /\ \A n \in Listed : n < next
           /\ Len(items) = limit \/ ~Fits(MaxPacket, Body, needs[next])

\* What counts as the same bus route: the same label, start and end, as far as the
\* needle holds them.
LookAlike(m, n) == BusKey(data, data.routes[m]) = BusKey(data, data.routes[n])

RankOf(n) == route_match_rank(data.routes[n], request.words[1])

Before(m, n) == RankOf(m) < RankOf(n) \/ (RankOf(m) = RankOf(n) /\ m < n)

WantedBuses ==
  {n \in DOMAIN data.routes : RankOf(n) # 0 /\ route_display_label(data, data.routes[n]) # <<>>}

BestFirst == \A m, n \in DOMAIN items : m < n => /\ Before(items[m].of, items[n].of)
                                                 /\ ~LookAlike(items[m].of, items[n].of)

\* Whole matches come before matches by number, these before parts of names.  No two
\* look alike.  A route is missing for one that looks alike, the limit, or want of room.
HasTheBestBuses ==
  /\ Listed \subseteq WantedBuses
  /\ BestFirst
  /\ \A n \in WantedBuses \ Listed : \/ \E m \in Listed : Before(m, n) /\ LookAlike(m, n)
                                     \/ Len(items) = MaxBuses
                                     \/ Body + BusRoom >= MaxPacket

\* A search finds what there is to find: the answer has the first entries that match,
\* the best first, each once, with the routes that stop there, and leaves one out only
\* for the limit or for want of room (search_service.c:333-745, facility_service.c:102).
AnswersWhatMatches ==
  pc = "sent" /\ code # INVALID_REQUEST =>
    /\ code = NOT_FOUND <=> items = <<>>
    /\ CASE request.type = "stop" ->
              /\ HasTheFirst(MatchingStops, MaxStops, StopNeeds)
              /\ \A n \in DOMAIN items : NamesRoutes(data, data.stops[items[n].of], items[n].text)
         [] request.type = "subway"   -> HasTheFirst(MatchingStations, MaxStations, StationNeeds)
         [] request.type = "facility" -> HasTheFirst(MatchingFacilities, MaxFacilities, FacilityNeeds)
         [] request.type = "bus"      -> HasTheBestBuses
         [] OTHER                     -> Len(items) <= 1

\* The bytes of a bus item with the names of all stops.
WholeBusItem(app, route) ==
  BusHead(app, route) + Size(StopNames(app, route)) + Len(route.stops)

\* Line k under a bus route is its k-th stop: its name, nothing if the server had no room
\* for it, or, at the end of what the viewer holds, the beginning of its name.  All stops
\* are there if they fit both.
ShowsStops(app, route, rows) ==
  LET name(k) == <<find_node_name_by_id(app, route.stops[k])>>
  IN  IF route.stops = <<>> THEN rows = <<<<Piece(Dash, 1)>>>>
      ELSE /\ \A k \in DOMAIN rows :
                \/ rows[k] = <<>>
                \/ rows[k] = <<Piece(name(k), Size(name(k)))>>
                \/ k = Len(rows) /\ Len(rows[k]) = 1 /\ rows[k][1].what = name(k)
           /\ WholeBusItem(app, route) < BusRoom /\ WholeBusItem(app, route) <= BusShown =>
                rows = [k \in DOMAIN route.stops |-> <<Piece(name(k), Size(name(k)))>>]

\* The screen agrees with the data: a stop that the server or the viewer has no room for
\* does not shift the names after it, and under a stop there are only routes that stop
\* there (search_service.c:694, result_viewer.c:90 and :155).
ScreenAgrees ==
  \A n \in DOMAIN shown :
    /\ request.type = "bus" => ShowsStops(data, data.routes[shown[n].of], shown[n].rows)
    /\ request.type = "stop" =>
         LET stop == data.stops[shown[n].of]
         IN  \A p \in Range(LabelPieces(shown[n].rows)) :
               p.what \in (IF LabelsOf(data, stop) = {} THEN {Dash} ELSE LabelsOf(data, stop))

\* README.md:25 says of a stop search that it shows the buses through the stop.  The
\* viewer holds 1023 bytes of an item of which the server sends up to 4095.
AllBusesShown ==
  request.type = "stop" =>
    \A n \in DOMAIN shown :
      LET stop == data.stops[shown[n].of]
      IN  /\ NamesRoutes(data, stop, items[n].text)
          /\ {p.what : p \in Range(LabelPieces(items[n].text))} = LabelsOf(data, stop)
          => LabelsOf(data, stop) \subseteq {p.what : p \in Range(LabelPieces(shown[n].rows))}

-----------------------------------------------------------------------------
(* What makes these inductive *)

\* A search that was not refused is at work, or its answer is there.
Answering == pc # "idle" /\ code # INVALID_REQUEST

\* Of the entries gone through, those that match are listed; when the search ends, there
\* is none after them, or the next one was enough.
ListsTheFirst(matching, limit, needs) ==
  /\ Listed = matching \cap 1 .. done
  /\ InListOrder
  /\ Len(items) <= limit
  /\ pc \in {"end", "sent"} =>
       \/ matching \subseteq 1 .. done
       \/ /\ done + 1 \in matching
          /\ Len(items) = limit \/ ~Fits(MaxPacket, Body, needs[done + 1])

\* The loops over the ranks and the routes have come past this one.
Passed(n) == RankOf(n) < rank \/ (RankOf(n) = rank /\ n <= done)

ListsTheBestBuses ==
  /\ \A n \in Listed : n \in WantedBuses /\ Passed(n)
  /\ BestFirst
  /\ Len(items) <= MaxBuses
  /\ \/ Len(items) = MaxBuses \/ Body + BusRoom >= MaxPacket
     \/ /\ keys = {BusKey(data, data.routes[m]) : m \in Listed}
        /\ \A n \in WantedBuses \ Listed :
             Passed(n) => \E m \in Listed : Before(m, n) /\ LookAlike(m, n)
  /\ pc \in {"end", "sent"} => Len(items) = MaxBuses \/ \A n \in WantedBuses : Passed(n)

\* What the items are, and what is listed so far.
SoFar ==
  Answering =>
    /\ code = IF pc = "sent" /\ items = <<>> THEN NOT_FOUND ELSE OK
    /\ request.type = "stop" =>
         /\ ListsTheFirst(MatchingStops, MaxStops, StopNeeds)
         /\ \A n \in DOMAIN items : items[n].text = StopItem(data, data.stops[items[n].of])
    /\ request.type = "subway"   => ListsTheFirst(MatchingStations, MaxStations, StationNeeds)
    /\ request.type = "facility" => ListsTheFirst(MatchingFacilities, MaxFacilities, FacilityNeeds)
    /\ request.type = "bus" =>
         /\ ListsTheBestBuses
         /\ \A n \in DOMAIN items : \E room \in BusRoom .. MaxPacket :
              items[n].text = BusItem(data, data.routes[items[n].of], room)
    /\ request.type \in Lookups => Len(items) <= IF pc \in Lookups THEN 0 ELSE 1
=============================================================================
