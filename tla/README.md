# A verification development for the transit information server

The repository is a console program in C: a TCP server that answers questions about
stops, bus routes, subway stations, facilities and the fastest way between two places,
and a menu-driven client. The modules here model the parts of it whose correctness
depends on an order of steps, on what fails, or on an algorithm; TLC checks them on small
instances, and TLAPS proves their safety properties for every value of the constants.

Paths below are relative to `src/` in the repository (`server/...`, `common/...`,
`client/...`).

## 1. Inventory

| component | state it keeps | operations | how it interacts |
|---|---|---|---|
| server loop, `server/server.c` | listen socket, the client being served | accept, hand over | calls `handle_client`, which returns when the client is gone |
| client handler, `server/client_handler.c` | request buffer of `MAX_PACKET_SIZE` bytes | read a line, route it, send the answer | `route_request` |
| router, `server/router.c` | none | dispatch by packet type; record searches that succeeded | the services below, `server_recent_add` |
| favourites, `server/user_state_service.c` 20-479 | `data/favorites.txt`, `data/favorites.tmp` | add, list, delete | checks targets against the CSV data |
| recent searches, `server/user_state_service.c` 482-655 | `data/recent_search.txt`, `.tmp` | record, list | called by the router after every search |
| transfer graph, `common/graph.c`, `server/data_loader.c` 539-772 | nodes, edge lists | add node, add edge, build | built once at start from the lists |
| path search, `common/graph.c` 178-290 | arrays of one call | `graph_find_path` | called by `handle_transfer` |
| transfer service, `server/transfer_service.c` | none | resolve names, search, count transfers, write the answer | path search |
| search service, `server/search_service.c` | buffers of one call: the answer, a stop's routes, the keys of routes seen | stop, bus and subway search | linked lists |
| facility, operation, `server/{facility,operation}_service.c` | none | which place is meant, facilities near it; look-ups | linked lists, nodes of the graph |
| loaders, `server/data_loader.c`, `common/csv_parser.c` | lists of `AppData` | read, check, drop and mend rows | linked lists; then the transfer graph is built |
| linked lists, `common/linked_list.c` | `AppData` | add, find, free | filled by the loaders, then everybody reads |
| client, `client/{main,menu,client_net,favorite,recent_search}.c` | socket, what is on the screen | menu items, one request and one answer each | the server, over TCP |
| result viewer, `client/result_viewer.c` | none | print answers | client |
| helpers and platform: `string_utils.c`, `file_utils.c`, `net_compat.c`, `log.c`, `tools/*.py` | log file | conversions, wrappers | everybody |

What is hard here:

* **Files replaced by hand.** Deleting a favourite and recording a search write a temporary
  file, remove the old file and rename the new one. Any of these calls can fail, writes
  are not checked, and the server can die between any two.
* **Two views of one file.** The duplicate check, the list and the deletion each parse
  `favorites.txt` with rules of their own; the number a client sends was counted by one
  and is interpreted by another.
* **One answer per request.** Lines carry no identity: which answer belongs to which
  request is only a matter of how many of each there have been.
* **One client at a time.** There are no threads, so a client owns the server for its
  whole session: good for the list-then-delete conversation, bad for everybody else.
* **Everything is a buffer.** Requests, answers, the routes of a stop, the keys of routes
  already listed, and what the client holds of an item are arrays of fixed sizes. Text is
  put into them by three functions with three ways of not fitting: all or nothing
  (`str_append`), as much as fits (`str_appendf`, `safe_strcpy`), or a guard before it
  that asks for a rough size. What comes of a full one depends on which came last.
* **Loading goes on regardless.** Rows that refer to nothing, ids given twice and failed
  allocations are passed over, and the graph is built from whatever is left.
* **The search.** Order of settling, ties, the trace back with its bound
  `MAX_GRAPH_PATH`, and what the graph must be like for it to work: one positive edge per
  pair, the same both ways, whatever order the data offers the edges in.

What makes each component correct is stated as properties in its module, section
"Properties"; `PROJECT.json` lists the hazards with the line where each bites and the
properties that would catch it.

## 2. Modules and the code

### Favorites, FavoriteStore

`Favorites` models the three handlers. A file is the sequence of its lines and whether
the last one ends in a newline; a line is its (type, id) and how much of the format
`type|id|name` it has, since the three readers differ exactly there. Add and list are one
step each (only one call touches the file); deletion is `DeleteOpen`, `DeleteCopy`,
`DeleteRemove`, `DeleteRename`, with `Crash` possible after each. The constant `Faults`
says which failures an instance has. `str_to_int` keeps the width of an `int` (`Word`).
`before` is a history variable: the file as the last request found it; `mishaps`
another: which failures have done harm so far (a damaged first file, a short write, a file
that could not be read, an old file removed whose successor was not named). Properties
that such harm refutes are promised until it happens and say so.

`FavoriteStore` is what the service promises: a list without duplicates whose entries are
deleted by their number, each request one step. `ImplementsStore` says `Favorites`
refines it as long as `mishaps` is empty, which leaves failing `fopen` and `remove` and
crashes at any other point; while a deletion stands between remove and rename, the store
still has the old list. After a mishap the store's variable `sound` is false and it
promises nothing.

### RecentSearch, RecentStore

`RecentSearch` has one action per system call of `server_recent_add` (`RecentRead`,
`RecentOpen`, `RecentWrite`, `RecentRemove`, `RecentRename`), the list, and `Crash`. An
entry is what was searched and a number standing for its time. `log` is a history
variable: every line that ever got into the file. `RecentStore` is the abstract record:
the last `MaxCount` searches, shown newest first; `mishaps` and `sound` are as above. A
search that fails, or that has a blank or a separator in
it, leaves everything as it is and is not a step. The answer never outgrows the buffer:
20 lines of 1023 bytes fit 32768.

### AppData, DataLoader, TransferGraph, Startup

`AppData` holds what the two others share: the lists, as sequences in the order the code
walks them, with the fields that the loader and the graph look at, and the memory they
are allocated from (`NoMemory`, bounded by `mayFail`; `failed` remembers that it happened).

`DataLoader` reads the eight files of `data/` one after the other, a row a step, one action
per file (`load_bus_stops` and so on, for the bodies of their loops; `Turn` is what they
have in common), `Unusable` for a file that cannot be opened or lacks its header or a
required column, and `EndOfFile`, with the requirement that some files not be empty. A row
is what `csv_parse_line` and `csv_get` make of a line: ids may be `Blank`, numbers that are
none are 0. Lists grow at the front, the stops of a route by their numbers
(`route_stop_add`). A node that could not be allocated counts as loaded, as in the code.

`TransferGraph` is `data_loader_build_graph`. `Links` computes the list of edges it adds, in
its order: routes, distances (or stations with a common line if no distance is usable),
transfers. One action per `graph_add_node` and per `graph_add_edge`; `back` holds the
second call of each pair; the code looks at no result. Squared distances are in hundredths
of km^2 and node indices start at 1. A line name is a sequence of names because a
distance without one takes the whole string of lines of the station it starts from.

`Startup` composes them: `LoadData`, `BuildGraph` when all files are read, whatever came of
them, and `Listen`, with which the server begins to listen or gives up.

### GraphPath

`graph_find_path`: `Settle` is a turn of the main loop that relaxes the neighbours,
`Reach` and `Exhaust` its two ends, `BackStep`, `BackOrigin` and `BackFull` the trace back,
`NoMemory` the allocation that fails. The graph is a matrix of weights with 0 for "no
edge", justified by `WellFormed` of `TransferGraph`. Callers check both indices before
the call.

### Packet, Names

What the services share. A text is a sequence of pieces, each with what it stands for and
how many of its bytes are there; `Fits` is the test in `str_append`, `Written` what
`vsnprintf` leaves of a string in `str_appendf`, and `safe_strcpy` copies a text into a
smaller buffer. `Names` has `keyword_match`, as a relation between names and keywords, and
how one search after another decides which of several places is meant.

### Loops

`Keep(s, T)` is what a loop of the code does not pass over: the elements of a sequence that
are in a set, in their order. `FoldWith(step, start, s)` is what a loop over `s` makes of
`start`, where `step[e]` is the function that the turn with element `e` computes; `Total`
adds numbers up. They stand where `SelectSeq` and the folds of the library would, because
they are recursive functions, which the proofs can take apart.

### RequestReader, SearchService, Conversation

`RequestReader` is `handle_client` byte by byte (`ReadByte`, `ReadNewline`), with the buffer
that is full (`ReadTooMuch`), the answer of a service (`Respond`), and the client that goes
in the middle of a line (`Hangup`). Of a line only its length, the request it is, and the
request its end reads like are known. `SearchService` has the three searches
(`handle_stop_search`, `BusTurn` and `BusRank`, `handle_subway_search`), `handle_facility`
and the two look-ups, one entry of a list a step, and the client's view of an answer (`View`).
A string is known by what the code finds out about it (`Str`): its length, what kind of
route name it is, the number in it, its digits, itself without blanks. `Conversation` puts
them together: `Route` is the dispatch of `route_request` to the services, `Greet` answers
what needs none, `Reply` sends the answer and shows it.

Abstractions: names hold no separator of the protocol, and two names differ from their
first byte on. The sizes the code reserves (700 and 300 bytes for a bus and a station) are
scaled with the rest; what is assumed of them is `RoomAssumption`. Left out: labels cut at 127
bytes and the words of a facility request at 255, neither of which real names reach; the
buffer of 4096 bytes with the keys of a bus search, which ten routes a search lists and
those passed over do not fill with the data there is.

The operators that look something up in the lists take them as a parameter (`app`, the
`AppData *` of the code), and the entries that match and the room each asks for are named
(`MatchingStops`, `StopNeeds` and so on), so that a property is one formula for all lists
(`HasTheFirst`). A station asks for `StationRoom`, a facility for 13 bytes more than its
item: that is what the code tests before it adds one, with `>=`, so that an entry of which
exactly one byte less is free is left out.

### TransferService

`handle_transfer` and, at the other end of the line, `show_transfer_result`. The two
keywords are resolved in one step (`resolve_node_by_keyword`, a pure scan); the path is any
that `graph_find_path` may answer, from what `GraphPath` shows of it: injective, at most
`MaxPath` nodes, from origin to destination. `CountSegment` is a turn of the loop of
`count_transfers`, `WriteStep` one of the loop that writes the segments, `ViewStep` one of
the viewer's. The answer is known by its length, by how many bytes of each step got in,
and by whether the newline did (`Packet`). `Receive`
is enabled by a newline or by a full buffer, as in `client_recv_line`. Left out: the
keywords' length (both are cut at 255 bytes together), the total of minutes, names with
one of the separators `, : ; ~` in them (the data has none), and the buffer of the
viewer's notes, which is as long as the answer while a note is shorter than the step it
is about.

### Proofs

The proofs about `X` are in `XProofs`, for `X` each of `GraphPath`, `Startup` (with
`DataLoader` and `TransferGraph`), `TransferService`, `Favorites`, `RecentSearch`,
`Session` and `Conversation` (with `RequestReader`, `SearchService` and `Packet`).
`BasicLemmas` has what several of them need. The inductive invariant of a module
is the last thing in it, section "What makes these inductive".

### Session

Clients and the server over TCP. A client starts, connects, says HELLO, and then asks
from the menu; deleting a favourite is two requests with a prompt in between. It may be
killed at any point. The server accepts, serves lines, and releases the client when recv
fails. TCP is external and modelled from how the programs use it: the kernel completes
connections while the listen queue has room; a line sent to a closed peer is answered
with a reset; a line sent on a reset connection raises SIGPIPE. The favourites are those
of `FavoriteStore` with the failures `Favorites` shows; all other requests are alike.

## 3. The runs

| run | bounds | shows |
|---|---|---|
| `favorites` | 3 favourites, 3 lines, clean, damaged and unterminated files, all faults | no duplicates, deletions all or nothing, nothing deleted comes back, refinement of `FavoriteStore` until a mishap |
| `recent` | list of 3, 4 searches, initial files up to 5 lines, damaged or not, all faults | lists bounded and going back in time, the file a gapless latest part of the history, refinement of `RecentStore` until a mishap |
| `graph_path` | all symmetric graphs of 4 nodes, weights 1, 2, 5, `Inf` 7, paths up to 3 nodes | shortest paths, reasons for giving up, termination, the inductive invariant |
| `startup` | 1122 contents of `data/`: 1080 clean ones over 2 stops, 2-3 stations and 2 routes; a tidy and an untidy one, in which 2 allocations may fail, and each of them with one file missing, empty or without its first row | lists say what the files say and refer to nothing that is not there; symmetry, fastest offer kept, transfers; references sound and graph well formed even when memory runs out; the inductive invariant |
| `conversation` | 5 towns, 23 requests, a packet of 40 bytes, lines of 3, 39 to 41 and 79 to 81 bytes, at most 2 items, 14 bytes of routes, 5 of a key, 10 and 18 on the screen | answers and lines stay paired and end in a newline or a full buffer; searches leave out nothing but for a limit; names on the screen stay with their places |
| `transfer_service` | 4 places with shared names, paths up to 4 nodes, rides by two lines and walks, a packet of 42 bytes | the places meant, transfers counted right and alike on both sides, cut answers are gapless and end the wait |
| `session` | 2 clients, 2 favourites, queue of 1, one crash | pairing of requests and answers, list-then-delete, SIGPIPE, everyone is answered |

Why the bounds are enough. In `graph_path` a path of four nodes exceeds `MaxPath`, sums
reach `Inf`, and ties occur, so every branch is taken; the proofs cover all sizes. For the
recent searches a list of three is shifted at both of its two lengths (two and three) from
files that are shorter, as long, and longer. Two clients suffice for a client to wait
behind another, to find the queue full, and to delete between the other's list and
deletion, and it takes two favourites to hit the wrong one; the clients of `Session` run
once each, and a third would only wait behind the second. Three lines let a duplicate, a
deletion from the middle and a leftover temporary file meet. In `startup` the clean files
let every pair of nodes be offered by a route, a distance, a common line or a walk, more
than once and in both directions; the untidy one has each defect a row can have next to a
good row of the same id. In `conversation` the lines end one before, at and one behind the
end of the first and of the second buffer, and the towns hold stops, buses and facilities
that exceed each of the limits: the packet, the list of routes of a stop and its keys, the
number of items, the needle of the keys, and both buffers of the viewer. In
`transfer_service` the
packet holds the summary and one to three steps, so that answers end before, at and
beyond its last byte, within a step, between its fields, and at a separator; three
segments are enough for a ride, a walk and another ride, all that counting looks at.

Deadlock is not checked where the program stops: a search that has returned, a server
that listens or gave up (`startup`), a server whose clients have all gone.

Runs that end in a violation each check one statement of the repository that the code
does not keep (`findings` in `PROJECT.json`):

| run | what it shows |
|---|---|
| `favorites_crash` | a crash between remove and rename loses all favourites |
| `favorites_damaged` | with a damaged line, the number on the list deletes another entry |
| `favorites_wrap` | a number beyond `int` is reduced to one that exists |
| `stop_cut` | the client holds 1023 bytes of what the server sends of a stop; with the data in `data/` this hides routes of 8 stops |
| `session_idle` | the documented thread-per-client model is not there: one client that stays starves the rest |

Three more weaknesses are visible in the conditions of the properties rather than in a run:
an entry appended behind a last line without a newline is lost in that line although the
answer is `ERR_OK` (`ImplementsStore` starts from files that end in one), and when
`favorites.txt` exists but cannot be opened for reading, the duplicate check passes
(`NoDuplicateFavorites` is promised until that happens). And loading does not break off when
an allocation fails, as `docs/09_exception/server_error_handling.md` says it does: the server
listens with what it has got, which is why `AgreesWithFiles`, `SameBothWays`,
`KeepsTheFastest` and `StopsReachStations` are promised only while none has failed.

Fairness. `graph_path` assumes that a running function goes on (`WF_vars(Next)`).
`FairSpec` of `Session` assumes that the server and the clients take the steps that need
no user: accepting, serving, releasing, connecting or giving up, receiving. `LeavingSpec`
adds what only users can give: the number prompt is answered, and somebody who is at the
menu again and again leaves some time (strong fairness, since `Quit` is not enabled while
an answer is awaited). `EveryoneIsServed` holds under `LeavingSpec` and fails under
`FairSpec`; the difference is the price of serving one client at a time.

Operators whose names end in `_Mut` are plausible mistakes, each preceded by a comment
that begins with "Mutant"; `PROJECT.json` says which property refutes which.

## 4. What is proved

`GraphPathProofs`, for every number of nodes, every weight matrix over the naturals and
every positive `Inf` and `MaxPath` (`GraphAssumption`):

* `TypeCorrect`: the arrays are never indexed outside, -1 included;
* `AnswersAPath`: the answer is a path of the graph with the minutes of its edges;
* `AnswersTheShortest`: there is a potential that is 0 at the origin, equals the total at
  the destination and grows along no edge by more than its weight, so no walk is faster;
* `GivesUpRightly`: no path is answered only if the settled nodes have no edge out of
  them below `Inf`, or `MaxPath` nodes were traced;
* `NeverTracesACircle`;
* `ShortestOfAllWalks`: the same without a potential. `WalkLengths` is the length of the
  fastest walk of at most N - 1 edges, computed edge by edge; the minutes answered are that
  length, and "no path" is answered only if it is not below `Inf` or the path too long.

None of them is inductive. `IInv` adds: a node with a distance got it from a settled
predecessor along an edge (`DistInv`), settled nodes are nearer than the rest and their
edges have been followed, the trace follows predecessors with strictly falling distance
(`TraceInv`), and the result is what was traced (`ResultInv`).

The last theorem needs two inductions over the number of edges (`WalkRule`): no walk gets
below a potential (`NoWalkIsFaster`), and the path answered is one of the walks
(`AWalkAsFast`), since a trace without circles has at most N nodes. `HopsAddUp` shows that
the minutes of its edges add up to the distance.

`StartupProofs`, for all contents of `data/` and however many allocations fail:

* `TypeCorrect`, for the lists, the loader's position and the graph;
* `ReferencesSound`: what the lists refer to is there, memory or not;
* `LoadsTheFiles`: if no allocation failed, the lists hold of every id the first row, of
  every route the stops by their numbers, and the distances between known stations; the
  load is good exactly if all files were usable and the required ones left something;
* `GraphWellFormed`: what `GraphPath` assumes of a graph, edges to nodes there are, none to
  itself, at most one per pair, all minutes positive;
* `BothWaysTheSame`, `FastestKept`, `StationsReached`: as long as no allocation failed,
  the finished graph is symmetric, an edge has the fewest minutes any link offers, and
  a stop has an edge to a nearest station.

`FilesInv` says of the rows read so far what `LoadsTheFiles` says of all: which rows the
entries of a list are of, a function from places to row numbers. Putting a node in front
extends that function (`LastInFront`), `route_stop_add` inserts into it behind the stops
with the same number (`RunsMore`). One lemma per loader (`BusStopHolds` ... `EveryRowHolds`)
and one for the end of a file (`FileEnds`) keep it.

`SameBothWays` breaks between the two calls of a pair; `HalfwayInv` says by how much: only
between the two ends of the link under way, by that link. `KeepsTheFastest` speaks of the
finished graph; `LinksInv` says the same of the links offered so far, the last one in one
direction only while its second call is due. `NodesInv` counts the ids that are in and those
to come, and `TodoInv` types the list of what is to come. That the links computed from the
lists have positive minutes and known lines needs a fact about each of the lists they come
from (`LinksTyped`). `BestAfter` is the lemma on `graph_add_edge` that all of this rests on.

`TransferServiceProofs`, for every graph, names, sizes and packet:

* `AnswersWhatWasAsked`: an answer with a path starts and ends at places the keywords mean,
  and no place would have been meant before those (`Resolves`);
* `CountsChanges`: the loop of `count_transfers` agrees with the definition of a change
  (`BooksStep`: one segment more adds one change or none);
* `AnswersEnd`: an answer has its newline or fills the client's buffer to the last byte;
* `ShowsAll`, `ViewersAgree`: what is shown is a gapless part of the path, and what the
  client counts from text is what the server counted from the path.

`StepsInv` is the heart of it: all steps in the answer are whole but for a last one in a full
buffer; `SummaryFits` shows that the part before them never fills it.

`FavoritesProofs`, for all favourites, files, requests, faults and the width of `int`:

* `NothingTwice`, `AllGoesOrNothing`, `DeletedStaysDeleted`;
* `ImplementsTheStore`: the handlers refine `FavoriteStore` if the numbers sent fit an `int`
  (`FitAnInt`; the run `favorites_wrap` shows that it is needed).

`DeleteInv` ties the two files and the place in the deletion together: `favorites.txt` is as
it was found until it is removed, `favorites.tmp` holds a first part of what is to stay.
`FilesInv` says which files this server's own writes can produce. `Within` (the elements of
one sequence come from different places of another) carries "no duplicates" from a file to
what is kept, cut off or appended of it. The refinement has one lemma per action (`StoreAdds`
... `StoreCrashes`): the rename is the step of the store, the rest of a deletion stutters.

`RecentSearchProofs`, for all searches, files, `MaxCount` and faults:

* `LatestAreKept`: the file is a gapless latest part of everything recorded;
* `NewestComesFirst`: the list goes back in time and is bounded, whatever was damaged;
* `ImplementsTheRecord`: the handlers refine `RecentStore`.

`GoesForward` (the entries of a file have rising times) and `LastOf` (the last n of a
sequence) have lemmas on what appending, cutting and filtering do to them; `RecordInv` says
what the local array of `server_recent_add` knows of the file it was read from.

`SessionProofs`, for any number of clients, favourites, places in the queue and crashes:

* `PairsAnswers`: a waiting client is owed exactly one line, the answer to its request;
* `ServerSurvives`: no SIGPIPE, whoever dies at whatever point;
* `DeletesTheShown`: a deletion takes what stood under its number on the sender's screen.

The last one rests on `ShownInv`: since the server stays with one client, the favourites are
what this client was shown until its deletion is served. `TurnInv` (at most one line is
under way per client) and `QueueInv` (who is queued has said HELLO and nothing more)
are needed for it, and `ConnectionInv` for both.

`ConversationProofs`, for all lines, towns, keywords, strings and sizes of buffers:

* `ConversationTypes`: an answer has exactly the size of its header, its items and what is
  between them, and leaves the last byte of the packet free, at every step of every search;
* `AnswersMatchLines`: a line has one answer, and one more for each buffer it fills;
* `SearchFindsWhatMatches`: the answer has the first entries that match, or the best bus
  routes, each once and with the routes of its stop, and leaves one out only for the limit
  or for want of room;
* `ScreenShowsTheData`: whatever was cut off on the way, the k-th line under a bus route is
  that of its k-th stop, and under a stop there are only routes of it.

The invariant comes in two layers. `TypesInv` is `TypeOK` and `Typed` with
`BytesAccountedFor` (every byte of a line has been read into the buffer, answered or is to
come), `AnswersEnd` and `SaidByLine` (`TypesAlways`). `SoFar` says of a search what it has
listed halfway: the matching ones of the entries gone through (`ListsTheFirst`), and for
buses, over three passes by rank, the best of those `Passed`, with `keys` holding the key
of each route listed until the answer is full (`ListsTheBestBuses`, `SoFarAlways`).

Most of the work is on the texts that the loops of the code put together:

* `StopItemIs`: two nested loops, over aliases and over routes, name each label once, and all
  of them if there is room. `RouteListOK` is their invariant, for the set of labels met so far:
  the text names only these, each once and with its key in the list of keys, and if they all
  have room, all of them. `LabelAdded` is a turn that adds one, `KeyCut` one whose key is cut,
  and `RoomIs` counts the bytes.
* `BusItemIs`: `Rows` relates each piece of a bus item to the stop it is under, where commas
  count even if the names between them are missing. `StopAdded` is a turn of the loop.
  The invariant needs that a comma that found no room leaves none for any later piece.
* `CopyIs`: what `safe_strcpy` leaves of a text, of which only the last piece is cut.
* `ShownLines`: the viewer's lines are those of the pieces it holds (`LinesMore` is a turn of
  its loop), so that `Rows` carries over from the server's text to the screen.

`LoopRule` of `BasicLemmas` is the induction behind all of these: a family of sets `I[n]` such
that `I[0]` has the start and each turn leads from `I[n - 1]` to `I[n]`.

All of these proofs have the same shape: `InitIInv`, a lemma for each action that changes
anything the invariant reads, `NextIInv`, and then a theorem per property. `BasicLemmas`
proves what the library does not state: what `Keep`, `FoldWith`, `FlattenSeq` and sums over
sets return, that a nonempty set of numbers has a least one. Where these need induction
they argue by the least counterexample, since the induction theorems of the library take an
operator.

Assumptions. Each module declares what it assumes of its constants, and TLC evaluates it in
every run. Most of it types the constants or keeps special values apart from ordinary ones.
What says more:

| assumption | why the code justifies it |
|---|---|
| `GraphAssumption`: weights are naturals, 0 for no edge | `GraphWellFormed`: an edge has positive minutes, a pair one edge at most |
| `AppDataAssumption`, `StartupAssumption`: files are among `Contents` | the type of what `csv_parse_line` and `str_to_int` return |
| `ServiceAssumption`: ids are unique, the header and the names of the longest path fit the packet | nodes are found by id before they are added; 256 names of 99 bytes are less than 32768 |
| `FilesAssumption` of `Favorites`: no initial file lists a favourite twice | the server itself never writes one (`NothingTwice`) |
| `FilesAssumption` of `RecentSearch`: times rise in an initial file | the server appends |
| `StringsAssumption`: only the blank string has no bytes; a number in a name is not blank | strings end at their first 0; `route_display_name` copies at least one digit |
| `DataAssumption`: no id, no name of a stop and no number of a route is blank; the stops of a route are in the list of stops | the loader skips such rows, or makes up the name of a stop (`data_loader.c` 52, 90, 151, 211-220); the last is `ReferencesSound` |
| `RoomAssumption`: a looked up note fits an answer | a few fields of at most 127 bytes in 32768 |
| `RoomAssumption`: a station item is shorter than the 300 bytes set aside for it | the longest of the data needs 88; the fields by themselves could reach 359 |
| `RoomAssumption`: the fields of a bus item and its first stop are shorter than the 700 bytes set aside, the fields than the viewer's 2048, a key than the list of keys | a number, a label and names of at most 127 bytes each |
| `ReaderAssumption`, `ConversationAssumption`: greetings and errors fit the packet | literal strings |

`IInv` is also checked by TLC, in the runs `graph_path` and `startup`. For the other modules
the invariant was checked with the bounds of their runs before it was proved; a theorem of
each (`InvariantHolds`, and `TypesAlways` and `SoFarAlways` of the conversation) says it for
all.

Only model-checked:

* liveness: `Terminates` and `EveryoneIsServed`, and with it fairness, which the provers
  do not reach. Every safety invariant, action property and refinement of the passing runs
  is a theorem.

## 5. What is not modelled

* `csv_parse_line` and `csv_get`: quoting, trimming and the byte order mark are conversions
  of a line into fields; the models start from the fields. A line of more than 1023 bytes
  would be read as two rows, which no line of `data/` is.
* Ids longer than the 31 bytes the lists keep of them, and the names made up for stops
  without one.
* Of the result viewer the lists of favourites and recent searches, which are printed as
  they come, and the headings; of the client's menu how lines are typed.
* Wording, the log, platform wrappers, the scripts in `tools/`: nothing depends on them.
* Freeing the lists and the graph, at the end of the program or when the load fails.

## 6. Plan

1. (done) `Favorites` over `FavoriteStore`, `RecentSearch` over `RecentStore`, `GraphPath`,
   `TransferService`, `Session`; proofs about `GraphPath`.
2. (done) `DataLoader` and `TransferGraph` under `Startup`; `RequestReader` and
   `SearchService` under `Conversation`.
3. (done) Proofs of the safety properties of the startup, the transfer service, the
   favourites, the recent searches and the session, with both refinements.
4. (done) Proofs about `Conversation`: the answers of the reader, the sizes of what the
   services write, what a search lists, and what the screen shows of it.
5. (done) Proofs that the shortest path is that of all walks, and that the lists hold what
   the files say, with the reference definitions stated so that they can be reasoned about.
