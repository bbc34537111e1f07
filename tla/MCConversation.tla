---------------------------- MODULE MCConversation ----------------------------
(***************************************************************************)
(* An instance of Conversation for TLC.  Five towns: one with stops and    *)
(* stations that share names, bus routes that look alike, arrivals and     *)
(* crowding; one whose stops are known by two ids; one with more of        *)
(* everything than an answer, a list of routes or a screen holds; one with *)
(* long names; and one with nothing in it.  Lines are short, or end around *)
(* the end of the request buffer, or of a second one, and their ends may   *)
(* read like a request.                                                    *)
(***************************************************************************)
EXTENDS Conversation

MCBlank == "blank"
MCNone  == "none"
MCDelimited == "bar"

\* Words that are no bus and have no digits in front.
Words(size, words) ==
  [w \in words |-> [size |-> size, shape |-> "plain", number |-> MCNone, compact |-> w,
                    digits |-> MCNone, idNumber |-> MCNone, placeholder |-> FALSE]]

Like(field, value, word) == word :> [Words(1, {word})[word] EXCEPT ![field] = value]

\* Names of buses: those of one compact are the same but for blanks.
Numbered(word, number, digits, compact) ==
  word :> [Words(1, {word})[word] EXCEPT
             !.shape = "numbered", !.number = number, !.digits = digits, !.compact = compact]

MCStr ==
  MCBlank :> [Words(0, {MCBlank})[MCBlank] EXCEPT !.shape = "inactive"]
  @@ Words(2, {"Square"}) @@ Words(4, {"Harbour"}) @@ Words(13, {"street"}) @@ Words(14, {"avenue"})
  @@ Like("shape", "inactive", "works") @@ Like("shape", "towards", "toPark")
  @@ Like("placeholder", TRUE, "Nameless")
  @@ Like("idNumber", "7", "r4") @@ Like("digits", "7", "7") @@ Like("digits", "1", "1")
  @@ Numbered("no1", "1", "1", "no1") @@ Numbered("no_1", "1", "1", "no1") @@ Numbered("no1x", "1", "1", "no1x")
  @@ Numbered("no2", "2", "2", "no2") @@ Numbered("ring3", "3", MCNone, "ring3")
  @@ Words(1, {"b1", "b2", "b3", "b4", "b5", "b6", "b9", "s1", "s2", "t1", "t2", "t9",
               "r1", "r2", "r3", "r5", "r6", "r7", "Plaza", "Park", "Gate", "L1", "L2",
               "cafe", "bank", "all", "road", "Pla", "morning", "evening", "2", "3", MCDelimited})

MCMatching    == {<<"Plaza", "Plaza">>, <<"Plaza", "Pla">>, <<"Park", "Park">>,
                  <<"Gate", "Gate">>, <<"road", "Gate">>, <<"avenue", "Plaza">>,
                  <<"avenue", "Gate">>, <<"street", "Gate">>, <<"ring3", "Pla">>,
                  <<"toPark", "Park">>, <<"cafe", "cafe">>, <<"L1", "L1">>}
MCStationLike == {"Plaza"}
MCAliases     == {<<"s1", "b1">>, <<"s1", "b2">>, <<"s2", "b2">>}

Stop(id, name)                == [id |-> id, name |-> name]
Station(id, name, on, lines) == [id |-> id, name |-> name, line |-> on, transfers |-> lines, address |-> "road"]
Bus(no, name, stops, end)     == [no |-> no, name |-> name, start |-> Head(stops), end |-> end, stops |-> stops]
Place(name, kind, node, address) == [name |-> name, category |-> kind, node |-> node, address |-> address]
At(node, no, slot)            == [node |-> node, route |-> no, slot |-> slot]

Empty == [stops |-> <<>>, stations |-> <<>>, routes |-> <<>>,
          facilities |-> <<>>, arrivals |-> <<>>, crowdings |-> <<>>]

Mixed ==
  [stops |-> <<Stop("b1", "Plaza"), Stop("b3", "Square"), Stop("b2", "Plaza"), Stop("b4", "Park"),
               Stop("b5", "Nameless")>>,
   stations |-> <<Station("b3", "Gate", "L1", MCBlank), Station("t1", "Plaza", "L1", "L2"),
                  Station("t9", MCBlank, "L2", MCBlank)>>,
   routes |-> <<Bus("r1", "no1x", <<"b1", "b2", "b4">>, "b4"), Bus("r2", "no1", <<"b2", "b4">>, "b4"),
                Bus("r3", "no_1", <<"b3", "b1", "b4">>, "b4"), Bus("r4", "toPark", <<"b1", "b5">>, "b5"),
                Bus("r5", "works", <<"b1">>, "b1"), Bus("r6", "ring3", <<"b3", "b1">>, "b5"),
                Bus("r7", "Plaza", <<"b1", "b4">>, "b9"), Bus("no2", MCBlank, <<"b4">>, "t9")>>,
   facilities |-> <<Place("Gate", "cafe", "b1", "road"), Place("Gate", "cafe", "b1", "avenue"),
                    Place("Park", "bank", "t1", "road"), Place("Park", "cafe", "t1", "road")>>,
   arrivals |-> <<At("b1", "r1", "morning"), At("b1", "r1", "evening")>>,
   crowdings |-> <<At("b3", "r3", "morning"), At("b1", "r1", "morning")>>]

TwoIds ==
  [Empty EXCEPT !.stops = <<Stop("s1", "Plaza"), Stop("b1", "Park"), Stop("b2", "Gate"),
                            Stop("s2", "Plaza")>>,
                !.routes = <<Bus("r7", "no1x", <<"b1">>, "b9"), Bus("r1", "no1", <<"b1", "b2">>, "b2"),
                             Bus("r2", "no2", <<"b2", "b1">>, "b1"), Bus("r3", "ring3", <<"s2", "b1">>, "b9")>>]

Plenty ==
  [stops |-> <<Stop("b1", "Plaza"), Stop("b6", "Harbour"), Stop("b2", "Plaza"), Stop("b4", "Park"),
               Stop("b3", "Square"), Stop("b5", "Plaza")>>,
   stations |-> <<Station("t1", "Gate", "L1", "avenue"), Station("t2", "Gate", "L1", MCBlank),
                  Station("b4", "Gate", "L1", "L2")>>,
   routes |-> <<Bus("r1", "no1", <<"b1", "b6", "b4", "b2">>, "b4"),
                Bus("r2", "no1", <<"b3", "b1", "b6", "b2">>, "b4"),
                Bus("r3", "no2", <<"b1", "b6", "b5">>, "b4"),
                Bus("r4", "toPark", <<"b1", "b2", "b1", "b6">>, "b4"),
                Bus("r5", "ring3", <<"b6", "b1">>, "b9"), Bus("r6", "ring3", <<"b6", "b1">>, "t9"),
                Bus("r7", "no1x", <<"b2", "b1">>, "b3")>>,
   facilities |-> <<Place("Gate", "cafe", "b1", "road"), Place("Park", "cafe", "b1", "road"),
                    Place("Park", "cafe", "b1", "avenue"), Place("Plaza", "bank", "b1", "road")>>,
   arrivals |-> <<At("b2", "r4", "morning"), At("b2", "r7", "morning")>>,
   crowdings |-> <<At("b2", "r2", "morning"), At("b2", "r4", "morning")>>]

Lengthy == [Empty EXCEPT !.stops = <<Stop("b1", "avenue"), Stop("b2", "street"), Stop("b3", "avenue")>>]

MCDatasets == <<Empty, Lengthy, Mixed, TwoIds, Plenty>>

Ask(type, words) == [type |-> type, words |-> words]

Requests ==
  {Ask("stop", <<w>>) : w \in {"Plaza", "b1", "Gate", MCBlank}}
    \cup {Ask("bus", <<w>>) : w \in {"no1", "1", "7", "Pla", "r5", MCDelimited}}
    \cup {Ask("subway", <<w>>) : w \in {"Gate", "L1", "t1"}}
    \cup {Ask("facility", ws) : ws \in {<<"Plaza", "cafe">>, <<"Pla", "all">>, <<"b1", MCBlank>>,
                                         <<"bank", "all">>, <<"b1">>}}
    \cup {Ask("arrival", <<"b1", "r1", "evening">>), Ask("arrival", <<"b1", "r1">>),
          Ask("crowding", <<"b1", "r1", "morning">>), Ask("hello", <<>>), Ask("junk", <<>>)}

MCLines ==
  [size : {3}, says : Requests, rest : {Ask("junk", <<>>)}]
    \cup [size : {MaxPacket - 1, MaxPacket, MaxPacket + 1,
                  2 * MaxPacket - 1, 2 * MaxPacket, 2 * MaxPacket + 1},
          says : {Ask("junk", <<>>)}, rest : {Ask("stop", <<"Plaza">>)}]

MCGreetings == "hello" :> 8
=============================================================================
