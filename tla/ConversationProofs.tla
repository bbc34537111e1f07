-------------------------- MODULE ConversationProofs --------------------------
(***************************************************************************)
(* Proofs about the reader of a connection, the search services and the    *)
(* screen.                                                                 *)
(***************************************************************************)
EXTENDS Conversation, BasicLemmas

-----------------------------------------------------------------------------
(* Texts *)

\* The pieces of texts.
Pieces(whats) == [what : whats, bytes : Nat]

LEMMA TextsAre == \A W : Texts(W) = Seq(Pieces(W))
  BY DEF Texts, Pieces

LEMMA PieceIs ==
  ASSUME NEW W, NEW w \in W, NEW n \in Nat
  PROVE  /\ Piece(w, n) \in Pieces(W)
         /\ Piece(w, n).what = w /\ Piece(w, n).bytes = n
  BY DEF Piece, Pieces

\* The bytes of the pieces of a text.
BytesOf(text) == [n \in DOMAIN text |-> text[n].bytes]

LEMMA BytesOfText ==
  ASSUME NEW W, NEW t \in Seq(Pieces(W))
  PROVE  /\ BytesOf(t) \in Seq(Nat) /\ Len(BytesOf(t)) = Len(t)
         /\ \A n \in 1..Len(t) : BytesOf(t)[n] = t[n].bytes
         /\ Length(t) = Total(BytesOf(t))
<1>1. DOMAIN t = 1..Len(t) /\ Len(t) \in Nat /\ \A n \in 1..Len(t) : t[n] \in Pieces(W)
  BY LenProperties, ElementOfSeq
<1>2. \A n \in 1..Len(t) : t[n].bytes \in Nat
  BY <1>1 DEF Pieces
<1>3. BytesOf(t) \in [1..Len(t) -> Nat]
  BY <1>1, <1>2 DEF BytesOf
<1>4. BytesOf(t) \in Seq(Nat) /\ Len(BytesOf(t)) = Len(t)
  BY <1>1, <1>3
<1>5. \A n \in 1..Len(t) : BytesOf(t)[n] = t[n].bytes
  BY <1>1 DEF BytesOf
<1>6. Length(t) = Total(BytesOf(t))
  BY DEF Length, BytesOf
<1> QED BY <1>4, <1>5, <1>6

LEMMA LengthEmpty == Length(<<>>) = 0
<1>1. <<>> \in Seq(Pieces({})) /\ Len(<<>>) = 0
  BY EmptySeq
<1>2. BytesOf(<<>>) \in Seq(Nat) /\ Len(BytesOf(<<>>)) = 0 /\ Length(<<>>) = Total(BytesOf(<<>>))
  BY <1>1, BytesOfText
<1>3. BytesOf(<<>>) = <<>>
  BY <1>2, LenZero
<1> QED BY <1>2, <1>3, TotalFacts

LEMMA LengthInNat ==
  ASSUME NEW W, NEW t \in Seq(Pieces(W))
  PROVE  Length(t) \in Nat
  BY BytesOfText, TotalFacts

LEMMA LengthAppend ==
  ASSUME NEW W, NEW t \in Seq(Pieces(W)), NEW p \in Pieces(W)
  PROVE  /\ Append(t, p) \in Seq(Pieces(W))
         /\ Length(Append(t, p)) = Length(t) + p.bytes
<1> DEFINE a == Append(t, p)
<1>1. /\ a \in Seq(Pieces(W)) /\ Len(a) = Len(t) + 1 /\ Len(t) \in Nat
      /\ \A n \in 1..Len(t) : a[n] = t[n]
      /\ a[Len(t) + 1] = p
  BY AppendProperties, LenProperties
<1>2. p.bytes \in Nat
  BY DEF Pieces
<1> HIDE DEF a
<1>3. /\ BytesOf(a) \in Seq(Nat) /\ Len(BytesOf(a)) = Len(a)
      /\ \A n \in 1..Len(a) : BytesOf(a)[n] = a[n].bytes
      /\ Length(a) = Total(BytesOf(a))
  BY <1>1, BytesOfText
<1>4. /\ BytesOf(t) \in Seq(Nat) /\ Len(BytesOf(t)) = Len(t)
      /\ \A n \in 1..Len(t) : BytesOf(t)[n] = t[n].bytes
      /\ Length(t) = Total(BytesOf(t))
  BY BytesOfText
<1> DEFINE b == Append(BytesOf(t), p.bytes)
<1>5. /\ b \in Seq(Nat) /\ Len(b) = Len(t) + 1
      /\ \A n \in 1..Len(t) : b[n] = t[n].bytes
      /\ b[Len(t) + 1] = p.bytes
  BY <1>2, <1>4, AppendProperties
<1> HIDE DEF b
<1>6. BytesOf(a) = b
  <2>1. \A n \in 1..Len(a) : n \in 1..Len(t) \/ n = Len(t) + 1
    BY <1>1
  <2>2. \A n \in 1..Len(a) : BytesOf(a)[n] = b[n]
    BY <2>1, <1>1, <1>3, <1>5
  <2> QED BY <2>2, <1>1, <1>3, <1>5, SeqEqual
<1>7. Total(b) = Total(BytesOf(t)) + p.bytes
  BY <1>2, <1>4, TotalFacts DEF b
<1> QED BY <1>1, <1>3, <1>4, <1>6, <1>7 DEF a

\* A text of one piece.
LEMMA LengthOne ==
  ASSUME NEW W, NEW p \in Pieces(W)
  PROVE  <<p>> \in Seq(Pieces(W)) /\ Length(<<p>>) = p.bytes
<1>1. <<>> \in Seq(Pieces(W)) /\ Append(<<>>, p) = <<p>>
  BY EmptySeq
<1>2. p.bytes \in Nat
  BY DEF Pieces
<1>3. /\ Append(<<>>, p) \in Seq(Pieces(W))
      /\ Length(Append(<<>>, p)) = Length(<<>>) + p.bytes
  BY <1>1, LengthAppend
<1> QED BY <1>1, <1>2, <1>3, LengthEmpty

\* str_append and str_appendf leave room for the terminating 0.
LEMMA StrAppend ==
  ASSUME NEW W, NEW t \in Seq(Pieces(W)), NEW w \in W, NEW n \in Nat, NEW size \in Nat,
         Length(t) < size
  PROVE  /\ str_append(size, t, w, n) \in Seq(Pieces(W))
         /\ Length(str_append(size, t, w, n)) < size
         /\ str_append(size, t, w, n) \in {t, Append(t, Piece(w, n))}
         /\ Length(t) + n < size => /\ str_append(size, t, w, n) = Append(t, Piece(w, n))
                                    /\ Length(str_append(size, t, w, n)) = Length(t) + n
         /\ Length(t) + n >= size => str_append(size, t, w, n) = t
<1>1. Length(t) \in Nat
  BY LengthInNat
<1>2. /\ Append(t, Piece(w, n)) \in Seq(Pieces(W))
      /\ Length(Append(t, Piece(w, n))) = Length(t) + n
  <2>1. Piece(w, n) \in Pieces(W) /\ Piece(w, n).bytes = n
    BY PieceIs
  <2> QED BY <2>1, LengthAppend
<1>3. Fits(size, Length(t), n) <=> Length(t) + n < size
  BY <1>1 DEF Fits
<1>4. str_append(size, t, w, n) = IF Length(t) + n < size THEN Append(t, Piece(w, n)) ELSE t
  BY <1>3 DEF str_append
<1>5. CASE Length(t) + n < size
  BY <1>1, <1>2, <1>4, <1>5
<1>6. CASE ~ (Length(t) + n < size)
  BY <1>1, <1>4, <1>6
<1> QED BY <1>5, <1>6

LEMMA StrAppendf ==
  ASSUME NEW W, NEW t \in Seq(Pieces(W)), NEW w \in W, NEW n \in Nat, NEW size \in Nat,
         Length(t) < size
  PROVE  /\ str_appendf(size, t, w, n) \in Seq(Pieces(W))
         /\ Length(str_appendf(size, t, w, n)) < size
         /\ Written(size, Length(t), n) \in 0..n
         /\ str_appendf(size, t, w, n) \in {t, Append(t, Piece(w, Written(size, Length(t), n)))}
         /\ Written(size, Length(t), n) = 0 => str_appendf(size, t, w, n) = t
         /\ Written(size, Length(t), n) # 0 =>
              str_appendf(size, t, w, n) = Append(t, Piece(w, Written(size, Length(t), n)))
         /\ Length(str_appendf(size, t, w, n)) = Length(t) + Written(size, Length(t), n)
         /\ Length(t) + n < size => Written(size, Length(t), n) = n
         /\ Length(t) + n >= size => Length(t) + Written(size, Length(t), n) = size - 1
<1>1. Length(t) \in Nat
  BY LengthInNat
<1> DEFINE f == str_appendf(size, t, w, n)
           m == IF Length(t) + n < size THEN n ELSE size - 1 - Length(t)
<1>2. /\ Append(t, Piece(w, m)) \in Seq(Pieces(W))
      /\ Length(Append(t, Piece(w, m))) = Length(t) + m
      /\ m \in 0..n
  <2>1. m \in Nat /\ m \in 0..n
    BY <1>1
  <2> HIDE DEF m
  <2>2. Piece(w, m) \in Pieces(W) /\ Piece(w, m).bytes = m
    BY <2>1, PieceIs
  <2> QED BY <2>1, <2>2, LengthAppend
<1>3. Fits(size, Length(t), n) <=> Length(t) + n < size
  BY <1>1 DEF Fits
<1>4. Written(size, Length(t), n) = m
  BY <1>3 DEF Written
<1>5. f = IF m = 0 THEN t ELSE Append(t, Piece(w, m))
  BY <1>4 DEF str_appendf
<1>6. /\ Length(t) + n < size => m = n
      /\ Length(t) + n >= size => Length(t) + m = size - 1
      /\ Length(t) + m < size
  BY <1>1
<1> HIDE DEF f, m
<1>7. f \in Seq(Pieces(W)) /\ Length(f) = Length(t) + m
  BY <1>1, <1>2, <1>5
<1>8. Length(f) < size
  BY <1>6, <1>7
<1>9. Written(size, Length(t), n) = m
  BY <1>4
<1> QED BY <1>2, <1>5, <1>6, <1>7, <1>8, <1>9 DEF f

-----------------------------------------------------------------------------
(* Strings, names and labels *)

\* What pieces of items stand for.
Whats == Seq(DOMAIN Str \cup {"head", ",", "note", ")", "-"})

LEMMA ItemTextsAre == ItemTexts = Seq(Pieces(Whats))
  BY TextsAre DEF ItemTexts, Whats

LEMMA WhatsAre ==
  /\ {Fields, Comma, Note, Close, Dash} \subseteq Whats
  /\ \A w \in DOMAIN Str : <<w>> \in Whats
  /\ Seq(Named) \subseteq Whats /\ Seq(Named) \subseteq Seq(DOMAIN Str)
<1> DEFINE S == DOMAIN Str \cup {"head", ",", "note", ")", "-"}
<1>1. \A x \in S : <<x>> \in Seq(S)
  <2> HIDE DEF S
  <2> QED OBVIOUS
<1>2. Named \subseteq S /\ Named \subseteq DOMAIN Str
  BY DEF Named
<1>3. \A x \in {"head", ",", "note", ")", "-"} : x \in S
  OBVIOUS
<1>4. \A x \in DOMAIN Str : x \in S
  OBVIOUS
<1>5. Whats = Seq(S)
  BY DEF Whats
<1> HIDE DEF S
<1>6. Seq(Named) \subseteq Seq(S) /\ Seq(Named) \subseteq Seq(DOMAIN Str)
  BY <1>2, SeqMonotonic
<1> QED BY <1>1, <1>3, <1>4, <1>5, <1>6 DEF Fields, Comma, Note, Close, Dash

\* No text of names is a separator, and the separators differ.
LEMMA NoSeparator ==
  /\ \A ws \in Seq(DOMAIN Str) : ws \notin {Fields, Comma, Note, Close, Dash}
  /\ \A w \in DOMAIN Str : <<w>> \notin {Fields, Comma, Note, Close, Dash}
  /\ Dash \notin {Fields, Comma, Note, Close} /\ Fields # Comma
<1>1. ASSUME NEW ws \in Seq(DOMAIN Str), NEW x, x \in {"head", ",", "note", ")", "-"}
      PROVE  ws # <<x>>
  <2>1. ws = <<x>> => ws[1] = x /\ Len(ws) = 1
    OBVIOUS
  <2>2. Len(ws) = 1 => ws[1] \in DOMAIN Str
    BY ElementOfSeq
  <2>3. x \notin DOMAIN Str
    BY <1>1, StringsAssumption
  <2> QED BY <2>1, <2>2, <2>3
<1>2. \A ws \in Seq(DOMAIN Str) : ws \notin {Fields, Comma, Note, Close, Dash}
  BY <1>1 DEF Fields, Comma, Note, Close, Dash
<1>3. \A w \in DOMAIN Str : <<w>> \in Seq(DOMAIN Str)
  OBVIOUS
<1>4. \A x, y : <<x>> = <<y>> => x = y
  OBVIOUS
<1>5. "-" \notin {"head", ",", "note", ")"} /\ "head" # ","
  OBVIOUS
<1>6. Dash \notin {Fields, Comma, Note, Close} /\ Fields # Comma
  BY <1>4, <1>5 DEF Fields, Comma, Note, Close, Dash
<1> QED BY <1>2, <1>3, <1>6

\* The sizes of words.
SizesOf(words) == [n \in DOMAIN words |-> Str[words[n]].size]

LEMMA SizesOfWords ==
  ASSUME NEW ws \in Seq(DOMAIN Str)
  PROVE  /\ SizesOf(ws) \in Seq(Nat) /\ Len(SizesOf(ws)) = Len(ws)
         /\ \A n \in 1..Len(ws) : SizesOf(ws)[n] = Str[ws[n]].size
         /\ Size(ws) = Total(SizesOf(ws))
         /\ Size(ws) \in Nat
<1>1. DOMAIN ws = 1..Len(ws) /\ Len(ws) \in Nat /\ \A n \in 1..Len(ws) : ws[n] \in DOMAIN Str
  BY LenProperties, ElementOfSeq
<1>2. \A n \in 1..Len(ws) : Str[ws[n]].size \in Nat
  BY <1>1, StringsAssumption
<1>3. SizesOf(ws) \in [1..Len(ws) -> Nat]
  BY <1>1, <1>2 DEF SizesOf
<1>4. SizesOf(ws) \in Seq(Nat) /\ Len(SizesOf(ws)) = Len(ws)
  BY <1>1, <1>3
<1>5. \A n \in 1..Len(ws) : SizesOf(ws)[n] = Str[ws[n]].size
  BY <1>1 DEF SizesOf
<1>6. Size(ws) = Total(SizesOf(ws))
  BY DEF Size, SizesOf
<1>7. Size(ws) \in Nat
  BY <1>4, <1>6, TotalFacts
<1> QED BY <1>4, <1>5, <1>6, <1>7

LEMMA SizeAppend ==
  ASSUME NEW ws \in Seq(DOMAIN Str), NEW w \in DOMAIN Str
  PROVE  Size(Append(ws, w)) = Size(ws) + Str[w].size
<1> DEFINE a == Append(ws, w)
           b == Append(SizesOf(ws), Str[w].size)
<1>1. /\ a \in Seq(DOMAIN Str) /\ Len(a) = Len(ws) + 1 /\ Len(ws) \in Nat
      /\ \A n \in 1..Len(ws) : a[n] = ws[n]
      /\ a[Len(ws) + 1] = w
  BY AppendProperties, LenProperties
<1>2. Str[w].size \in Nat
  BY StringsAssumption
<1>3. /\ SizesOf(ws) \in Seq(Nat) /\ Len(SizesOf(ws)) = Len(ws)
      /\ \A n \in 1..Len(ws) : SizesOf(ws)[n] = Str[ws[n]].size
      /\ Size(ws) = Total(SizesOf(ws))
  BY SizesOfWords
<1>4. /\ b \in Seq(Nat) /\ Len(b) = Len(ws) + 1
      /\ \A n \in 1..Len(ws) : b[n] = Str[ws[n]].size
      /\ b[Len(ws) + 1] = Str[w].size
  BY <1>2, <1>3, AppendProperties
<1>5. Total(b) = Total(SizesOf(ws)) + Str[w].size
  BY <1>2, <1>3, TotalFacts
<1> HIDE DEF a, b
<1>6. /\ SizesOf(a) \in Seq(Nat) /\ Len(SizesOf(a)) = Len(a)
      /\ \A n \in 1..Len(a) : SizesOf(a)[n] = Str[a[n]].size
      /\ Size(a) = Total(SizesOf(a))
  BY <1>1, SizesOfWords
<1>7. SizesOf(a) = b
  <2>1. \A n \in 1..Len(a) : n \in 1..Len(ws) \/ n = Len(ws) + 1
    BY <1>1
  <2>2. \A n \in 1..Len(a) : SizesOf(a)[n] = b[n]
    BY <2>1, <1>1, <1>4, <1>6
  <2> QED BY <2>2, <1>1, <1>4, <1>6, SeqEqual
<1> QED BY <1>3, <1>5, <1>6, <1>7 DEF a

LEMMA SizeOfOneOrTwo ==
  /\ Size(<<>>) = 0
  /\ \A w \in DOMAIN Str : <<w>> \in Seq(DOMAIN Str) /\ Size(<<w>>) = Str[w].size
  /\ \A v, w \in DOMAIN Str : Size(<<v, w>>) = Str[v].size + Str[w].size
<1>1. <<>> \in Seq(DOMAIN Str) /\ Len(<<>>) = 0
  BY EmptySeq
<1>2. Size(<<>>) = 0
  <2>1. SizesOf(<<>>) \in Seq(Nat) /\ Len(SizesOf(<<>>)) = 0 /\ Size(<<>>) = Total(SizesOf(<<>>))
    BY <1>1, SizesOfWords
  <2>2. SizesOf(<<>>) = <<>>
    BY <2>1, LenZero
  <2> QED BY <2>1, <2>2, TotalFacts
<1>3. ASSUME NEW w \in DOMAIN Str PROVE <<w>> \in Seq(DOMAIN Str) /\ Size(<<w>>) = Str[w].size
  <2>1. Append(<<>>, w) = <<w>> /\ <<w>> \in Seq(DOMAIN Str)
    OBVIOUS
  <2>2. Size(Append(<<>>, w)) = Size(<<>>) + Str[w].size
    BY <1>1, SizeAppend
  <2>3. Str[w].size \in Nat
    BY StringsAssumption
  <2> QED BY <2>1, <2>2, <2>3, <1>2
<1>4. ASSUME NEW v \in DOMAIN Str, NEW w \in DOMAIN Str
      PROVE  Size(<<v, w>>) = Str[v].size + Str[w].size
  <2>1. Append(<<v>>, w) = <<v, w>>
    <3> DEFINE a == Append(<<v>>, w)
               b == <<v, w>>
    <3>1. <<v>> \in Seq(DOMAIN Str) /\ Len(<<v>>) = 1 /\ <<v>>[1] = v
      OBVIOUS
    <3>2. /\ a \in Seq(DOMAIN Str) /\ Len(a) = Len(<<v>>) + 1
          /\ \A i \in 1..Len(<<v>>) : a[i] = <<v>>[i]
          /\ a[Len(<<v>>) + 1] = w
      BY <3>1, AppendProperties
    <3>3. Len(a) = 2 /\ a[1] = v /\ a[2] = w
      BY <3>1, <3>2
    <3>4. b \in Seq(DOMAIN Str) /\ Len(b) = 2 /\ b[1] = v /\ b[2] = w
      OBVIOUS
    <3> HIDE DEF a, b
    <3>5. \A i \in 1..2 : i = 1 \/ i = 2
      OBVIOUS
    <3>6. a = b
      BY <3>2, <3>3, <3>4, <3>5, SeqEqual
    <3> QED BY <3>6 DEF a, b
  <2>2. Size(Append(<<v>>, w)) = Size(<<v>>) + Str[w].size
    BY <1>3, SizeAppend
  <2> QED BY <2>1, <2>2, <1>3
<1> QED BY <1>2, <1>3, <1>4

\* Entries of the lists.
StopEntries    == [id : Named, name : Named]
StationEntries == [id : Named, name : DOMAIN Str, line : DOMAIN Str, transfers : DOMAIN Str,
                   address : DOMAIN Str]
RouteEntries   == [no : Named, name : DOMAIN Str, start : DOMAIN Str, end : DOMAIN Str,
                   stops : Seq(Named)]
PlaceEntries   == [name : DOMAIN Str, category : DOMAIN Str, node : DOMAIN Str,
                   address : DOMAIN Str]
NoteEntries    == [node : DOMAIN Str, route : DOMAIN Str, slot : DOMAIN Str]

LEMMA ListsAre ==
  ASSUME NEW app \in Range(Datasets)
  PROVE  /\ app.stops \in Seq(StopEntries) /\ app.stations \in Seq(StationEntries)
         /\ app.routes \in Seq(RouteEntries) /\ app.facilities \in Seq(PlaceEntries)
         /\ app.arrivals \in Seq(NoteEntries) /\ app.crowdings \in Seq(NoteEntries)
<1>1. app \in AppDataLists
  BY DataAssumption, RangeOf
<1> QED BY <1>1 DEF AppDataLists, StopEntries, StationEntries, RouteEntries, PlaceEntries, NoteEntries

\* A place has a name, and one that is not blank if it is a stop.
LEMMA NameIs ==
  ASSUME NEW app \in Range(Datasets), NEW id \in DOMAIN Str
  PROVE  /\ find_node_name_by_id(app, id) \in DOMAIN Str
         /\ id \in {stop.id : stop \in Range(app.stops)} => find_node_name_by_id(app, id) \in Named
<1> DEFINE E == StopEntries \cup StationEntries
           places == app.stops \o app.stations
           S == Len(app.stops)
           I == {i \in 1..Len(places) : places[i].id = id}
<1>1. app.stops \in Seq(E) /\ app.stations \in Seq(E)
  <2>1. StopEntries \subseteq E /\ StationEntries \subseteq E
    OBVIOUS
  <2> HIDE DEF E
  <2> QED BY <2>1, ListsAre, SeqMonotonic
<1>2. \A e \in E : e.name \in DOMAIN Str
  BY DEF StopEntries, StationEntries, Named
<1>3. app.stops \in Seq(StopEntries) /\ S \in Nat /\ Range(app.stops) = {app.stops[i] : i \in 1..S}
      /\ \A i \in 1..S : app.stops[i].name \in Named
  <2>1. app.stops \in Seq(StopEntries)
    BY ListsAre
  <2>2. \A i \in 1..S : app.stops[i] \in StopEntries
    BY <2>1, ElementOfSeq
  <2> QED BY <2>1, <2>2, RangeOf DEF StopEntries
<1> HIDE DEF E
<1>4. places \in Seq(E) /\ Len(places) = S + Len(app.stations) /\ Len(app.stations) \in Nat
      /\ \A i \in 1..S : places[i] = app.stops[i]
  <2>1. places \in Seq(E) /\ Len(places) = S + Len(app.stations)
    BY <1>1, ConcatProperties
  <2>2. \A i \in 1..(S + Len(app.stations)) : i <= S => places[i] = app.stops[i]
    BY <1>1, ConcatProperties
  <2>3. S \in Nat /\ Len(app.stations) \in Nat
    BY <1>1, LenProperties
  <2> HIDE DEF S, places
  <2>4. 1..S \subseteq 1..(S + Len(app.stations))
    BY <2>3
  <2> QED BY <2>1, <2>2, <2>3, <2>4
<1>5. \A i \in 1..Len(places) : places[i].name \in DOMAIN Str
  BY <1>2, <1>4, ElementOfSeq
<1>6. \A i \in I : i \in 1..Len(places) /\ i \in Nat /\ i # 0
  <2>1. Len(places) \in Nat
    BY <1>4, LenProperties
  <2> HIDE DEF places
  <2> QED BY <2>1
<1>7. find_node_name_by_id(app, id) = LET n == IF I # {} THEN Min(I) ELSE 0
                                      IN  IF n = 0 THEN id ELSE places[n].name
  BY DEF find_node_name_by_id, SelectInSeq
<1>8. I # {} => Min(I) \in I /\ \A i \in I : Min(I) <= i
  <2>1. I \subseteq Nat
    BY <1>6
  <2> QED BY <2>1, LeastNumber
<1>9. ASSUME id \in {stop.id : stop \in Range(app.stops)}
      PROVE  find_node_name_by_id(app, id) \in Named
  <2>1. PICK i \in 1..S : app.stops[i].id = id
    BY <1>3, <1>9
  <2>2. i \in I
    <3>1. i \in 1..Len(places)
      <4> HIDE DEF S, places
      <4> QED BY <1>3, <1>4
    <3> QED BY <3>1, <2>1, <1>4
  <2>3. Min(I) \in I /\ Min(I) \in 1..S
    <3>1. Min(I) \in I /\ Min(I) <= i /\ Min(I) \in Nat /\ Min(I) # 0
      BY <2>2, <1>6, <1>8
    <3> HIDE DEF I
    <3> QED BY <3>1, <1>3
  <2>4. places[Min(I)].name \in Named
    BY <2>3, <1>3, <1>4
  <2>5. Min(I) # 0 /\ I # {}
    BY <2>2, <2>3, <1>6
  <2> HIDE DEF I, places
  <2> QED BY <2>4, <2>5, <1>7
<1>10. \A i \in I : i # 0 /\ places[i].name \in DOMAIN Str
  BY <1>5, <1>6
<1> HIDE DEF I, places
<1>11. find_node_name_by_id(app, id) \in DOMAIN Str
  BY <1>7, <1>8, <1>10
<1> QED BY <1>9, <1>11

\* What a route is called, if anything, are words.
LEMMA LabelIs ==
  ASSUME NEW app \in Range(Datasets), NEW r \in Range(app.routes)
  PROVE  route_display_label(app, r) \in Seq(Named)
<1>1. r \in RouteEntries
  BY ListsAre, RangeOf
<1>2. /\ r.no \in Named /\ r.name \in DOMAIN Str /\ r.end \in DOMAIN Str
      /\ Named \subseteq DOMAIN Str
  BY <1>1 DEF RouteEntries, Named
<1> DEFINE name == IF r.name = Blank THEN r.no ELSE r.name
           destination == find_node_name_by_id(app, r.end)
           base == DisplayName(r.no, name)
<1>3. name \in Named /\ name \in DOMAIN Str
  BY <1>2 DEF Named
<1>4. destination \in DOMAIN Str
  BY <1>2, NameIs
<1>5. base \in Seq(Named)
  <2>1. CASE Str[name].shape = "towards"
    <3> DEFINE y == IF Str[r.no].idNumber # None THEN Str[r.no].idNumber ELSE r.no
    <3>1. y \in Named
      BY <1>2, StringsAssumption
    <3>2. base = <<y, name>>
      BY <2>1 DEF DisplayName
    <3> HIDE DEF y, name, base
    <3> QED BY <3>1, <3>2, <1>3
  <2>2. CASE Str[name].shape = "numbered"
    <3> DEFINE x == Str[name].number
    <3>1. x \in Named
      BY <1>3, <2>2, StringsAssumption
    <3>2. base = <<x>>
      BY <2>2 DEF DisplayName
    <3> HIDE DEF x, base
    <3> QED BY <3>1, <3>2
  <2>3. CASE Str[name].shape \in {"inactive", "plain"}
    <3>1. base = <<>>
      BY <2>3 DEF DisplayName
    <3> HIDE DEF base
    <3> QED BY <3>1, EmptySeq
  <2> QED BY <1>3, <2>1, <2>2, <2>3, StringsAssumption
<1>6. route_display_label(app, r) =
        IF Len(base) = 1 /\ destination \notin {Blank, r.end} /\ ~ Str[destination].placeholder
          THEN Append(base, destination) ELSE base
  BY DEF route_display_label, route_display_name, WithDestination
<1> HIDE DEF base, destination
<1>7. destination # Blank => Append(base, destination) \in Seq(Named)
  BY <1>4, <1>5, AppendProperties DEF Named
<1> QED BY <1>5, <1>6, <1>7

-----------------------------------------------------------------------------
(* The routes of a stop *)

\* r is t with more behind it, all of which is for something in A.
Extends(r, t, A) ==
  /\ r \in Seq(Pieces(Whats)) /\ Len(t) <= Len(r)
  /\ \A n \in 1..Len(t) : r[n] = t[n]
  /\ \A n \in (Len(t) + 1)..Len(r) : r[n].what \in A

LEMMA ExtendsTwice ==
  ASSUME NEW A, NEW t \in Seq(Pieces(Whats)), NEW r, NEW s, Extends(r, t, A), Extends(s, r, A)
  PROVE  Extends(s, t, A)
<1>1. Len(t) \in Nat /\ Len(r) \in Nat /\ Len(s) \in Nat
  BY LenProperties DEF Extends
<1>2. Len(t) <= Len(r) /\ Len(r) <= Len(s) /\ s \in Seq(Pieces(Whats))
  BY DEF Extends
<1>3. ASSUME NEW n \in 1..Len(t) PROVE s[n] = t[n]
  <2>1. n \in 1..Len(r)
    BY <1>1, <1>2
  <2> QED BY <2>1 DEF Extends
<1>4. ASSUME NEW n \in (Len(t) + 1)..Len(s) PROVE s[n].what \in A
  <2>1. CASE n \in 1..Len(r)
    <3>1. n \in (Len(t) + 1)..Len(r)
      BY <2>1, <1>1
    <3> QED BY <2>1, <3>1 DEF Extends
  <2>2. CASE n \notin 1..Len(r)
    <3>1. n \in (Len(r) + 1)..Len(s)
      BY <2>2, <1>1
    <3> QED BY <3>1 DEF Extends
  <2> QED BY <2>1, <2>2
<1>5. Len(t) <= Len(s)
  BY <1>1, <1>2
<1> QED BY <1>2, <1>3, <1>4, <1>5 DEF Extends

LEMMA ExtendsBy ==
  ASSUME NEW A, NEW t \in Seq(Pieces(Whats)), NEW w \in A, w \in Whats, NEW n \in Nat,
         NEW size \in Nat, Length(t) < size
  PROVE  /\ Extends(t, t, A)
         /\ Extends(str_append(size, t, w, n), t, A)
         /\ Extends(str_appendf(size, t, w, n), t, A)
<1>1. Len(t) \in Nat /\ \A i \in (Len(t) + 1)..Len(t) : FALSE
  BY LenProperties
<1>2. Extends(t, t, A)
  BY <1>1 DEF Extends
<1>3. ASSUME NEW m \in Nat PROVE Extends(Append(t, Piece(w, m)), t, A)
  <2> DEFINE p == Piece(w, m)
             a == Append(t, p)
  <2>1. p \in Pieces(Whats) /\ p.what = w
    BY PieceIs
  <2> HIDE DEF p
  <2>2. /\ a \in Seq(Pieces(Whats)) /\ Len(a) = Len(t) + 1
        /\ \A i \in 1..Len(t) : a[i] = t[i]
        /\ a[Len(t) + 1] = p
    BY <2>1, AppendProperties
  <2> HIDE DEF a
  <2>3. \A i \in (Len(t) + 1)..Len(a) : i = Len(t) + 1
    BY <1>1, <2>2
  <2>4. Len(t) <= Len(a)
    BY <1>1, <2>2
  <2>5. Extends(a, t, A)
    BY <2>1, <2>2, <2>3, <2>4 DEF Extends
  <2> QED BY <2>5 DEF a, p
<1>4. str_append(size, t, w, n) \in {t, Append(t, Piece(w, n))}
  BY StrAppend
<1>5. PICK m \in Nat : str_appendf(size, t, w, n) \in {t, Append(t, Piece(w, m))}
  <2>1. Written(size, Length(t), n) \in 0..n
    BY StrAppendf
  <2>2. str_appendf(size, t, w, n) \in {t, Append(t, Piece(w, Written(size, Length(t), n)))}
    BY StrAppendf
  <2> QED BY <2>1, <2>2
<1>6. Extends(str_append(size, t, w, n), t, A)
  BY <1>2, <1>3, <1>4
<1>7. Extends(str_appendf(size, t, w, n), t, A)
  BY <1>2, <1>3, <1>5
<1> QED BY <1>2, <1>6, <1>7

\* r is t with at most a piece for l and then notes behind it.
Names(r, t, l) ==
  /\ r \in Seq(Pieces(Whats)) /\ Len(t) <= Len(r)
  /\ \A n \in 1..Len(t) : r[n] = t[n]
  /\ \A n \in (Len(t) + 1)..Len(r) :
       r[n].what \in {Note, Close} \/ (n = Len(t) + 1 /\ r[n].what = l)

\* The piece for l is there.
HasName(r, t, l) == Len(r) > Len(t) /\ r[Len(t) + 1].what = l

LEMMA NamesBy ==
  ASSUME NEW t \in Seq(Pieces(Whats)), NEW l \in Whats, NEW r
  PROVE  /\ Extends(r, t, {Note, Close}) => Names(r, t, l)
         /\ \A m \in Nat : Extends(r, Append(t, Piece(l, m)), {Note, Close}) =>
                             Names(r, t, l) /\ HasName(r, t, l)
<1>1. Len(t) \in Nat
  BY LenProperties
<1>2. ASSUME Extends(r, t, {Note, Close}) PROVE Names(r, t, l)
  BY <1>2 DEF Extends, Names
<1>3. ASSUME NEW m \in Nat, Extends(r, Append(t, Piece(l, m)), {Note, Close})
      PROVE  Names(r, t, l) /\ HasName(r, t, l)
  <2> DEFINE p == Piece(l, m)
             u == Append(t, p)
  <2>1. p \in Pieces(Whats) /\ p.what = l
    BY PieceIs
  <2>2. /\ Len(u) = Len(t) + 1
        /\ \A n \in 1..Len(t) : u[n] = t[n]
        /\ u[Len(t) + 1] = p
    BY <2>1, AppendProperties
  <2>3. Extends(r, u, {Note, Close})
    BY <1>3
  <2> HIDE DEF p, u
  <2>4. /\ r \in Seq(Pieces(Whats)) /\ Len(t) + 1 <= Len(r)
        /\ \A n \in 1..(Len(t) + 1) : r[n] = u[n]
        /\ \A n \in (Len(t) + 2)..Len(r) : r[n].what \in {Note, Close}
    BY <2>2, <2>3, <1>1 DEF Extends
  <2>5. Len(r) \in Nat
    BY <2>4, LenProperties
  <2>6. r[Len(t) + 1].what = l
    <3>1. Len(t) + 1 \in 1..(Len(t) + 1)
      BY <1>1
    <3> QED BY <3>1, <2>1, <2>2, <2>4
  <2>7. \A n \in 1..Len(t) : r[n] = t[n]
    <3>1. \A n \in 1..Len(t) : n \in 1..(Len(t) + 1)
      BY <1>1
    <3> QED BY <3>1, <2>2, <2>4
  <2>8. \A n \in (Len(t) + 1)..Len(r) : n = Len(t) + 1 \/ n \in (Len(t) + 2)..Len(r)
    BY <1>1, <2>5
  <2>9. Len(t) <= Len(r) /\ Len(r) > Len(t)
    BY <1>1, <2>4, <2>5
  <2> QED BY <2>4, <2>6, <2>7, <2>8, <2>9 DEF Names, HasName
<1> QED BY <1>2, <1>3

\* A label with its notes is behind what was there, and there if there is room for it.
LEMMA WithNotesIs ==
  ASSUME NEW t \in Seq(Pieces(Whats)), Length(t) < RoutesText, NEW l \in Whats, Size(l) \in Nat,
         NEW arrival, NEW crowding, NEW r, r = WithNotes(t, l, arrival, crowding)
  PROVE  /\ Names(r, t, l)
         /\ Length(r) < RoutesText
         /\ Length(t) + Size(l) + 1 < RoutesText => HasName(r, t, l)
         /\ Length(t) + Size(l) + 2 + 2 * NoteSize < RoutesText =>
              Length(r) <= Length(t) + Size(l) + 2 + 2 * NoteSize
<1> DEFINE z == Size(l)
           y == z + 1
<1>1. /\ RoutesText \in Nat /\ NoteSize \in Nat /\ Length(t) \in Nat
      /\ Note \in Whats /\ Close \in Whats
      /\ 1 \in Nat /\ z \in Nat /\ y \in Nat /\ y = z + 1
  BY SearchAssumption, LengthInNat, WhatsAre
<1> HIDE DEF y, z
<1> DEFINE A == {Note, Close}
           o == str_appendf(RoutesText, t, l, y)
           a == str_appendf(RoutesText, o, Note, NoteSize)
           c == str_appendf(RoutesText, a, Note, NoteSize)
           d == IF crowding THEN c ELSE a
           e == str_append(RoutesText, d, Close, 1)
           f == str_append(RoutesText, t, l, z)
           m == Written(RoutesText, Length(t), y)
<1>2. Note \in A /\ Close \in A
  OBVIOUS
<1>3. r = IF arrival \/ crowding THEN e ELSE f
  BY DEF WithNotes, y, z
<1>4. o \in Seq(Pieces(Whats)) /\ Length(o) < RoutesText /\ m \in 0..y
  BY <1>1, StrAppendf
<1>5. Length(o) = Length(t) + m
  BY <1>1, StrAppendf
<1>6. Length(t) + y < RoutesText => m = y
  BY <1>1, StrAppendf
<1>7. m # 0 => o = Append(t, Piece(l, m))
  BY DEF str_appendf
<1>8. m = 0 => o = t
  BY DEF str_appendf
<1>9. f \in Seq(Pieces(Whats)) /\ Length(f) < RoutesText
  BY <1>1, StrAppend
<1>10. f \in {t, Append(t, Piece(l, z))}
  BY <1>1, StrAppend
<1>11. Length(t) + z < RoutesText => f = Append(t, Piece(l, z)) /\ Length(f) = Length(t) + z
  BY <1>1, StrAppend
<1> HIDE DEF o, m, f
<1>12. a \in Seq(Pieces(Whats)) /\ Length(a) < RoutesText
  BY <1>1, <1>4, StrAppendf
<1>13. Length(a) <= Length(o) + NoteSize
  <2>1. Length(a) = Length(o) + Written(RoutesText, Length(o), NoteSize)
    BY <1>1, <1>4, StrAppendf
  <2>2. Written(RoutesText, Length(o), NoteSize) \in 0..NoteSize
    BY <1>1, <1>4, StrAppendf
  <2>3. Length(o) \in Nat
    BY <1>4, LengthInNat
  <2> QED BY <2>1, <2>2, <2>3, <1>1
<1>14. Extends(a, o, A)
  BY <1>1, <1>2, <1>4, ExtendsBy
<1> HIDE DEF a
<1>15. c \in Seq(Pieces(Whats)) /\ Length(c) < RoutesText
  BY <1>1, <1>12, StrAppendf
<1>16. Length(c) <= Length(a) + NoteSize
  <2>1. Length(c) = Length(a) + Written(RoutesText, Length(a), NoteSize)
    BY <1>1, <1>12, StrAppendf
  <2>2. Written(RoutesText, Length(a), NoteSize) \in 0..NoteSize
    BY <1>1, <1>12, StrAppendf
  <2>3. Length(a) \in Nat
    BY <1>12, LengthInNat
  <2> QED BY <2>1, <2>2, <2>3, <1>1
<1>17. Extends(c, a, A)
  BY <1>1, <1>2, <1>12, ExtendsBy
<1> HIDE DEF c
<1>18. Length(o) \in Nat /\ Length(a) \in Nat /\ Length(c) \in Nat
  BY <1>4, <1>12, <1>15, LengthInNat
<1>19. Extends(c, o, A)
  BY <1>4, <1>14, <1>17, ExtendsTwice
<1>20. d \in Seq(Pieces(Whats)) /\ Length(d) < RoutesText /\ Length(d) \in Nat /\ Extends(d, o, A)
  <2> HIDE DEF A
  <2> QED BY <1>12, <1>14, <1>15, <1>18, <1>19
<1>21. Length(d) <= Length(o) + 2 * NoteSize
  <2>1. Length(c) <= Length(o) + 2 * NoteSize /\ Length(a) <= Length(o) + 2 * NoteSize
    BY <1>1, <1>13, <1>16, <1>18
  <2> QED BY <2>1
<1> HIDE DEF d
<1>22. Length(e) < RoutesText /\ Length(e) \in Nat
  BY <1>1, <1>20, StrAppend, LengthInNat
<1>23. Length(d) + 1 < RoutesText => Length(e) = Length(d) + 1
  BY <1>1, <1>20, StrAppend
<1>24. Length(d) + 1 >= RoutesText => e = d
  BY <1>1, <1>20, StrAppend
<1>25. Extends(e, o, A)
  <2>1. Extends(e, d, A)
    BY <1>1, <1>2, <1>20, ExtendsBy
  <2> QED BY <1>4, <1>20, <2>1, ExtendsTwice
<1> HIDE DEF e
<1>26. Length(e) <= Length(o) + 2 * NoteSize + 1
  BY <1>1, <1>18, <1>20, <1>21, <1>23, <1>24
<1>27. Extends(f, f, A)
  BY <1>1, <1>2, <1>9, ExtendsBy
<1> HIDE DEF A
<1>28. CASE arrival \/ crowding
  <2>1. r = e
    BY <1>3, <1>28
  <2>2. m \in Nat /\ (Length(t) + y < RoutesText => m # 0)
    BY <1>1, <1>4, <1>6
  <2>3. Names(r, t, l) /\ (m # 0 => HasName(r, t, l))
    BY <2>1, <2>2, <1>7, <1>8, <1>25, NamesBy DEF A
  <2>4. Length(t) + z + 2 + 2 * NoteSize < RoutesText =>
          Length(r) <= Length(t) + z + 2 + 2 * NoteSize
    <3>1. m <= z + 1
      BY <1>1, <1>4
    <3>2. Length(o) + 2 * NoteSize + 1 <= Length(t) + z + 2 + 2 * NoteSize
      BY <2>2, <3>1, <1>1, <1>5
    <3> QED BY <2>1, <3>2, <1>1, <1>18, <1>22, <1>26
  <2>5. Length(t) + z + 1 < RoutesText => m # 0
    BY <2>2, <1>1
  <2> QED BY <2>1, <2>3, <2>4, <2>5, <1>22 DEF z
<1>29. CASE ~ (arrival \/ crowding)
  <2>1. r = f
    BY <1>3, <1>29
  <2>2. Names(r, t, l) /\ (f = Append(t, Piece(l, z)) => HasName(r, t, l))
    BY <2>1, <1>1, <1>10, <1>27, NamesBy DEF A
  <2>3. Length(t) + z + 1 < RoutesText => f = Append(t, Piece(l, z))
    BY <1>1, <1>11
  <2>4. Length(t) + z + 2 + 2 * NoteSize < RoutesText =>
          Length(r) <= Length(t) + z + 2 + 2 * NoteSize
    BY <2>1, <1>1, <1>11
  <2> QED BY <2>1, <2>2, <2>3, <2>4, <1>9 DEF z
<1> QED BY <1>28, <1>29

\* The room for labels, and for one more.
LEMMA RoomIs ==
  ASSUME NEW L, IsFiniteSet(L), L \subseteq Seq(Named)
  PROVE  /\ RoomForLabels(L) \in Nat
         /\ \A l \in Seq(Named) \ L :
              RoomForLabels(L \cup {l}) = RoomForLabels(L) + Size(l) + 3 + 2 * NoteSize
<1> DEFINE f(M) == [m \in M |-> Size(m) + 3 + 2 * NoteSize]
<1>1. \A l \in Seq(Named) : Size(l) + 3 + 2 * NoteSize \in Nat
  <2>1. \A l \in Seq(Named) : Size(l) \in Nat
    BY WhatsAre, SizesOfWords
  <2> QED BY <2>1, SearchAssumption
<1>2. \A M : RoomForLabels(M) = SumFunctionOnSet(f(M), M)
  BY DEF RoomForLabels
<1>3. \A M : \A m \in M : f(M)[m] = Size(m) + 3 + 2 * NoteSize
  OBVIOUS
<1> DEFINE g == f(L)
<1>4. /\ RoomForLabels(L) = SumFunctionOnSet(g, L)
      /\ \A y \in L : g[y] = Size(y) + 3 + 2 * NoteSize /\ g[y] \in Nat
  <2> HIDE DEF f
  <2> QED BY <1>1, <1>2, <1>3
<1>5. RoomForLabels(L) \in Nat
  <2> HIDE DEF g
  <2> QED BY <1>4, SumInNat
<1>6. ASSUME NEW l \in Seq(Named) \ L
      PROVE  RoomForLabels(L \cup {l}) = RoomForLabels(L) + Size(l) + 3 + 2 * NoteSize
  <2> DEFINE M == L \cup {l}
             h == f(M)
  <2>1. /\ RoomForLabels(M) = SumFunctionOnSet(h, M)
        /\ h[l] = Size(l) + 3 + 2 * NoteSize /\ h[l] \in Nat
        /\ \A y \in L : h[y] \in Nat /\ g[y] = h[y]
    <3> HIDE DEF f
    <3>1. l \in M /\ \A y \in L : y \in M
      OBVIOUS
    <3> QED BY <3>1, <1>1, <1>2, <1>3, <1>4
  <2> HIDE DEF g, h
  <2>2. SumFunctionOnSet(h, L \cup {l}) = SumFunctionOnSet(g, L) + h[l]
    <3>1. l \notin L /\ h[l] \in Nat
      BY <2>1
    <3>2. \A y \in L : h[y] \in Nat /\ g[y] = h[y]
      BY <2>1
    <3> QED BY <3>1, <3>2, SumOfMore
  <2>3. RoomForLabels(M) = RoomForLabels(L) + h[l]
    BY <2>1, <2>2, <1>4
  <2>4. Size(l) \in Nat /\ NoteSize \in Nat
    BY WhatsAre, SizesOfWords, SearchAssumption
  <2> HIDE DEF M
  <2> QED BY <2>1, <2>3, <2>4, <1>5 DEF M
<1> QED BY <1>5, <1>6

\* The key of a label, if there was room for it.
WholeKey(label) == Piece(label, KeySize(label))

\* What a list of routes may hold when the labels L have been appended to it: of each at
\* most one piece, whose key is among the keys, and all of them if there is room.
RoutesListed(L, list) ==
  /\ list \in RouteLists
  /\ Length(list.text) < RoutesText /\ Length(list.keys) < RoutesText
  /\ \A i \in 1..Len(list.text) : list.text[i].what \in L \cup {Comma, Note, Close}
  /\ \A i, j \in 1..Len(list.text) :
       list.text[i].what \in L /\ list.text[i].what = list.text[j].what => i = j
  /\ \A i \in 1..Len(list.text) :
       list.text[i].what \in L => WholeKey(list.text[i].what) \in Range(list.keys)
  /\ \A k \in Range(list.keys) : k.what \in L

NoneOrSome(L, list) ==
  IF L = {} THEN list.text = <<>> /\ list.keys = <<>> /\ list.count = 0
  ELSE list.text # <<>> /\ list.count > 0

\* All labels are there, and no more than they take.
AllListed(L, list) ==
  /\ Length(list.text) <= RoomForLabels(L) /\ Length(list.keys) <= RoomForLabels(L)
  /\ \A l \in L : /\ WholeKey(l) \in Range(list.keys)
                  /\ \E i \in 1..Len(list.text) : list.text[i].what = l

RouteListOK(L, list) ==
  /\ RoutesListed(L, list) /\ NoneOrSome(L, list)
  /\ RoomForLabels(L) < RoutesText => AllListed(L, list)

\* A label whose key is new but does not fit.
LEMMA KeyCut ==
  ASSUME NEW L, IsFiniteSet(L), L \subseteq Seq(Named), NEW l \in Seq(Named),
         KeySize(l) < RoutesText, NEW list, RouteListOK(L, list),
         WholeKey(l) \notin Range(list.keys), Length(list.keys) + KeySize(l) >= RoutesText,
         NEW new, new = [list EXCEPT !.keys = str_appendf(RoutesText, @, l, KeySize(l))]
  PROVE  RouteListOK(L \cup {l}, new)
<1> DEFINE M == L \cup {l}
           n == KeySize(l)
           m == Written(RoutesText, Length(list.keys), n)
<1>1. /\ l \in Whats /\ Size(l) \in Nat /\ n = Size(l) + 2 /\ n \in Nat
      /\ l \notin {Comma, Note, Close}
  <2>1. l \in Seq(DOMAIN Str) /\ l \in Whats
    BY WhatsAre
  <2>2. Size(l) \in Nat
    BY <2>1, SizesOfWords
  <2> QED BY <2>1, <2>2, NoSeparator DEF KeySize
<1>2. /\ list.text \in Seq(Pieces(Whats)) /\ list.keys \in Seq(Pieces(Whats)) /\ list.count \in Nat
      /\ Length(list.keys) < RoutesText /\ RoutesText \in Nat /\ Length(list.keys) \in Nat
      /\ NoteSize \in Nat
  <2>1. /\ list.text \in ItemTexts /\ list.keys \in ItemTexts /\ list.count \in Nat
        /\ Length(list.keys) < RoutesText
    BY DEF RouteListOK, RoutesListed, RouteLists
  <2> QED BY <2>1, ItemTextsAre, SearchAssumption, LengthInNat
<1>3. new = [text |-> list.text, keys |-> new.keys, count |-> list.count]
      /\ new.keys = str_appendf(RoutesText, list.keys, l, n)
  <2>1. list \in RouteLists
    BY DEF RouteListOK, RoutesListed
  <2> QED BY <2>1 DEF RouteLists
<1>4. new.text = list.text /\ new.count = list.count
  BY <1>3
<1> HIDE DEF n
<1>5. new.keys \in Seq(Pieces(Whats)) /\ Length(new.keys) < RoutesText
  BY <1>1, <1>2, <1>3, StrAppendf
<1>6. m \in 0..n
  BY <1>1, <1>2, StrAppendf
<1>7. new.keys = list.keys \/ new.keys = Append(list.keys, Piece(l, m))
  BY <1>3 DEF str_appendf
<1>8. Piece(l, m) \in Pieces(Whats) /\ Piece(l, m).what = l
  <2>1. m \in Nat
    BY <1>1, <1>6
  <2> HIDE DEF m
  <2> QED BY <2>1, <1>1, PieceIs
<1> HIDE DEF m
<1>9. Range(list.keys) \subseteq Range(new.keys) /\ \A k \in Range(new.keys) : k.what \in M
  <2>1. \A k \in Range(list.keys) : k.what \in M
    BY DEF RouteListOK, RoutesListed
  <2>2. Range(Append(list.keys, Piece(l, m))) = Range(list.keys) \cup {Piece(l, m)}
    BY <1>2, <1>8, AppendOne
  <2> QED BY <2>1, <2>2, <1>7, <1>8
<1>10. L # {}
  <2>1. L = {} => Length(list.keys) = 0
    BY LengthEmpty DEF RouteListOK, NoneOrSome
  <2> QED BY <2>1, <1>1, <1>2 DEF n
<1>11. ~ (RoomForLabels(M) < RoutesText)
  <2>1. CASE l \in L
    <3>1. M = L
      BY <2>1
    <3>2. ~ AllListed(L, list)
      BY <2>1 DEF AllListed
    <3> QED BY <3>1, <3>2 DEF RouteListOK
  <2>2. CASE l \notin L
    <3>1. RoomForLabels(M) = RoomForLabels(L) + Size(l) + 3 + 2 * NoteSize /\ RoomForLabels(L) \in Nat
      BY <2>2, RoomIs
    <3> HIDE DEF M
    <3>2. SUFFICES ASSUME RoomForLabels(M) < RoutesText PROVE FALSE
      OBVIOUS
    <3>3. RoomForLabels(L) < RoutesText
      BY <3>1, <3>2, <1>1, <1>2
    <3>4. Length(list.keys) <= RoomForLabels(L)
      BY <3>3 DEF RouteListOK, AllListed
    <3>5. Length(list.keys) + n >= RoutesText
      BY DEF n
    <3> QED BY <3>1, <3>2, <3>4, <3>5, <1>1, <1>2
  <2> QED BY <2>1, <2>2
<1>12. ASSUME NEW i \in 1..Len(new.text)
       PROVE  /\ new.text[i].what \in M \cup {Comma, Note, Close}
              /\ new.text[i].what \in M => new.text[i].what \in L
  <2> DEFINE x == list.text[i].what
  <2>1. x \in L \cup {Comma, Note, Close}
    BY <1>4 DEF RouteListOK, RoutesListed
  <2> HIDE DEF x
  <2>2. x \in M \cup {Comma, Note, Close} /\ (x \in M => x \in L)
    BY <2>1, <1>1
  <2> QED BY <2>2, <1>4 DEF x
<1>13. RoutesListed(M, new)
  <2>1. new \in RouteLists
    BY <1>2, <1>3, <1>5, ItemTextsAre DEF RouteLists
  <2>2. Length(new.text) < RoutesText /\ Length(new.keys) < RoutesText
    BY <1>4, <1>5 DEF RouteListOK, RoutesListed
  <2>3. \A i \in 1..Len(new.text) : new.text[i].what \in M \cup {Comma, Note, Close}
    BY <1>12
  <2>4. \A i, j \in 1..Len(new.text) :
          new.text[i].what \in M /\ new.text[i].what = new.text[j].what => i = j
    BY <1>4, <1>12 DEF RouteListOK, RoutesListed
  <2>5. \A i \in 1..Len(new.text) :
          new.text[i].what \in M => WholeKey(new.text[i].what) \in Range(new.keys)
    BY <1>4, <1>9, <1>12 DEF RouteListOK, RoutesListed
  <2> HIDE DEF M
  <2> QED BY <2>1, <2>2, <2>3, <2>4, <2>5, <1>9 DEF RoutesListed
<1>14. NoneOrSome(M, new)
  <2>1. new.text # <<>> /\ new.count > 0
    BY <1>4, <1>10 DEF RouteListOK, NoneOrSome
  <2> QED BY <2>1, <1>10 DEF NoneOrSome
<1> QED BY <1>11, <1>13, <1>14 DEF RouteListOK

\* A label whose key is new and fits.
LEMMA LabelAdded ==
  ASSUME NEW L, IsFiniteSet(L), L \subseteq Seq(Named), NEW l \in Seq(Named),
         KeySize(l) < RoutesText, NEW list, RouteListOK(L, list),
         WholeKey(l) \notin Range(list.keys), Length(list.keys) + KeySize(l) < RoutesText,
         NEW arrival, NEW crowding, NEW t, NEW new,
         t = IF list.text = <<>> THEN <<>> ELSE str_append(RoutesText, list.text, Comma, 1),
         new = [text  |-> WithNotes(t, l, arrival, crowding),
                keys  |-> Append(list.keys, WholeKey(l)),
                count |-> list.count + 1]
  PROVE  RouteListOK(L \cup {l}, new)
<1> DEFINE M == L \cup {l}
           n == KeySize(l)
           r == new.text
           s == list.text
<1>1. /\ l \in Whats /\ Size(l) \in Nat /\ n = Size(l) + 2 /\ n \in Nat
      /\ l \notin {Comma, Note, Close} /\ L \cap {Comma, Note, Close} = {}
  <2>1. l \in Seq(DOMAIN Str) /\ l \in Whats /\ L \subseteq Seq(DOMAIN Str)
    BY WhatsAre
  <2>2. Size(l) \in Nat
    BY <2>1, SizesOfWords
  <2> QED BY <2>1, <2>2, NoSeparator DEF KeySize
<1>2. /\ s \in Seq(Pieces(Whats)) /\ list.keys \in Seq(Pieces(Whats)) /\ list.count \in Nat
      /\ Length(s) < RoutesText /\ Length(list.keys) < RoutesText
      /\ RoutesText \in Nat /\ NoteSize \in Nat /\ Comma \in Whats /\ 1 \in Nat
  <2>1. /\ list.text \in ItemTexts /\ list.keys \in ItemTexts /\ list.count \in Nat
        /\ Length(list.text) < RoutesText /\ Length(list.keys) < RoutesText
    BY DEF RouteListOK, RoutesListed, RouteLists
  <2> QED BY <2>1, ItemTextsAre, SearchAssumption, WhatsAre
<1>3. Length(s) \in Nat /\ Length(list.keys) \in Nat
  BY <1>2, LengthInNat
<1>4. r = WithNotes(t, l, arrival, crowding) /\ new.keys = Append(list.keys, WholeKey(l))
      /\ new = [text |-> r, keys |-> new.keys, count |-> list.count + 1]
      /\ new.count = list.count + 1
  OBVIOUS
<1> HIDE DEF n, r, s
\* Behind the comma.
<1>5. t \in Seq(Pieces(Whats)) /\ Length(t) < RoutesText /\ Length(t) \in Nat
      /\ Length(t) <= Length(s) + 1 /\ (s = <<>> => t = <<>>)
      /\ Len(s) <= Len(t)
      /\ (\A i \in 1..Len(s) : t[i] = s[i])
      /\ \A i \in (Len(s) + 1)..Len(t) : t[i].what = Comma
  <2> DEFINE u == str_append(RoutesText, s, Comma, 1)
  <2>1. t = IF s = <<>> THEN <<>> ELSE u
    BY DEF s
  <2>2. u \in Seq(Pieces(Whats)) /\ Length(u) < RoutesText
    BY <1>2, StrAppend
  <2>3. Length(s) + 1 < RoutesText => Length(u) = Length(s) + 1
    BY <1>2, StrAppend
  <2>4. Length(s) + 1 >= RoutesText => u = s
    BY <1>2, StrAppend
  <2>5. Extends(u, s, {Comma}) /\ Extends(s, s, {Comma})
    <3>1. Comma \in {Comma}
      OBVIOUS
    <3> QED BY <3>1, <1>2, ExtendsBy
  <2> HIDE DEF u
  <2>6. Length(u) \in Nat /\ Length(u) <= Length(s) + 1
    BY <2>2, <2>3, <2>4, <1>2, <1>3, LengthInNat
  <2>7. Extends(t, s, {Comma})
    BY <2>1, <2>5
  <2>8. /\ Len(s) <= Len(t) /\ \A i \in 1..Len(s) : t[i] = s[i]
        /\ \A i \in (Len(s) + 1)..Len(t) : t[i].what \in {Comma}
    BY <2>7 DEF Extends
  <2>9. CASE s = <<>>
    <3>1. t = s
      BY <2>1, <2>9
    <3>2. Length(t) <= Length(s) + 1
      BY <3>1, <1>3
    <3> QED BY <3>1, <3>2, <2>8, <2>9, <1>2, <1>3
  <2>10. CASE s # <<>>
    <3>1. t = u
      BY <2>1, <2>10
    <3> QED BY <3>1, <2>2, <2>6, <2>8, <2>10
  <2> QED BY <2>9, <2>10
<1>6. Names(r, t, l) /\ Length(r) < RoutesText
  BY <1>1, <1>4, <1>5, WithNotesIs
<1>7. Length(t) + Size(l) + 1 < RoutesText => HasName(r, t, l)
  BY <1>1, <1>4, <1>5, WithNotesIs
<1>8. Length(t) + Size(l) + 2 + 2 * NoteSize < RoutesText =>
        Length(r) <= Length(t) + Size(l) + 2 + 2 * NoteSize
  BY <1>1, <1>4, <1>5, WithNotesIs
<1>9. r \in Seq(Pieces(Whats)) /\ Len(r) \in Nat /\ Len(t) \in Nat /\ Len(s) \in Nat
      /\ Len(s) <= Len(t) /\ Len(t) <= Len(r) /\ Length(r) \in Nat
  <2>1. r \in Seq(Pieces(Whats)) /\ Len(t) <= Len(r)
    BY <1>6 DEF Names
  <2> QED BY <2>1, <1>2, <1>5, LenProperties, LengthInNat
\* Where the pieces come from.
<1>10. \A i \in 1..Len(s) : i \in 1..Len(r) /\ r[i] = s[i]
  <2>1. ASSUME NEW i \in 1..Len(s) PROVE i \in 1..Len(r) /\ r[i] = s[i]
    <3>1. i \in 1..Len(t) /\ i \in 1..Len(r)
      BY <1>9
    <3> QED BY <3>1, <1>5, <1>6 DEF Names
  <2> QED BY <2>1
<1>11. ASSUME NEW i \in 1..Len(r), i \notin 1..Len(s)
       PROVE  r[i].what \in {Comma, Note, Close} \/ (i = Len(t) + 1 /\ r[i].what = l)
  <2>1. CASE i <= Len(t)
    <3>1. i \in 1..Len(t) /\ i \in (Len(s) + 1)..Len(t)
      BY <2>1, <1>9, <1>11
    <3>2. r[i] = t[i] /\ t[i].what = Comma
      BY <3>1, <1>5, <1>6 DEF Names
    <3> QED BY <3>2
  <2>2. CASE ~ (i <= Len(t))
    <3>1. i \in (Len(t) + 1)..Len(r)
      BY <2>2, <1>9
    <3> QED BY <3>1, <1>6 DEF Names
  <2> QED BY <2>1, <2>2
<1>12. ASSUME NEW i \in 1..Len(s)
       PROVE  s[i].what \in L \cup {Comma, Note, Close} /\ s[i].what # l
  <2>1. s[i].what \in L \cup {Comma, Note, Close}
    BY DEF RouteListOK, RoutesListed, s
  <2>2. s[i].what \in L => WholeKey(s[i].what) \in Range(list.keys)
    BY DEF RouteListOK, RoutesListed, s
  <2>3. s[i].what # l
    <3> DEFINE x == s[i].what
    <3>1. x \in L \cup {Comma, Note, Close} /\ (x \in L => WholeKey(x) \in Range(list.keys))
      BY <2>1, <2>2
    <3> HIDE DEF x
    <3>2. x # l
      BY <3>1, <1>1
    <3> QED BY <3>2 DEF x
  <2> QED BY <2>1, <2>3
\* At most one piece is for the label.
<1>13. ASSUME NEW i \in 1..Len(r)
       PROVE  /\ r[i].what \in M \cup {Comma, Note, Close}
              /\ r[i].what = l => i = Len(t) + 1
              /\ r[i].what \in L \ {l} => i \in 1..Len(s) /\ r[i] = s[i]
  <2>1. CASE i \in 1..Len(s)
    <3>1. r[i] = s[i]
      BY <2>1, <1>10
    <3>2. s[i].what \in L \cup {Comma, Note, Close} /\ s[i].what # l
      BY <2>1, <1>12
    <3> QED BY <2>1, <3>1, <3>2
  <2>2. CASE i \notin 1..Len(s)
    <3> DEFINE x == r[i].what
    <3>1. x \in {Comma, Note, Close} \/ (i = Len(t) + 1 /\ x = l)
      BY <2>2, <1>11
    <3> HIDE DEF x
    <3>2. x \in M \cup {Comma, Note, Close} /\ (x = l => i = Len(t) + 1) /\ x \notin L \ {l}
      BY <3>1, <1>1
    <3> QED BY <3>2 DEF x
  <2> QED BY <2>1, <2>2
<1>14. /\ WholeKey(l) \in Pieces(Whats) /\ WholeKey(l).what = l /\ WholeKey(l).bytes = n
  BY <1>1, PieceIs DEF WholeKey, n
<1>15. /\ new.keys \in Seq(Pieces(Whats)) /\ Length(new.keys) = Length(list.keys) + n
  BY <1>2, <1>4, <1>14, LengthAppend
<1>16. Range(new.keys) = Range(list.keys) \cup {WholeKey(l)}
  BY <1>2, <1>4, <1>14, AppendOne
<1>17. RoutesListed(M, new)
  <2>1. new \in RouteLists
    BY <1>2, <1>4, <1>9, <1>15, ItemTextsAre DEF RouteLists
  <2>2. Length(new.text) < RoutesText /\ Length(new.keys) < RoutesText
    BY <1>6, <1>15 DEF r, n
  <2>3. \A i \in 1..Len(r) : r[i].what \in M \cup {Comma, Note, Close}
    BY <1>13
  <2>4. ASSUME NEW i \in 1..Len(r), NEW j \in 1..Len(r), r[i].what \in M, r[i].what = r[j].what
        PROVE  i = j
    <3>1. CASE r[i].what = l
      BY <2>4, <3>1, <1>13
    <3>2. CASE r[i].what # l
      <4>1. /\ i \in 1..Len(s) /\ r[i] = s[i] /\ j \in 1..Len(s) /\ r[j] = s[j]
            /\ r[i].what \in L
        BY <2>4, <3>2, <1>13
      <4> QED BY <2>4, <4>1 DEF RouteListOK, RoutesListed, s
    <3> QED BY <3>1, <3>2
  <2>5. ASSUME NEW i \in 1..Len(r), r[i].what \in M
        PROVE  WholeKey(r[i].what) \in Range(new.keys)
    <3>1. CASE r[i].what = l
      BY <3>1, <1>16
    <3>2. CASE r[i].what # l
      <4>1. i \in 1..Len(s) /\ r[i] = s[i] /\ r[i].what \in L
        BY <2>5, <3>2, <1>13
      <4>2. WholeKey(s[i].what) \in Range(list.keys)
        BY <4>1 DEF RouteListOK, RoutesListed, s
      <4> QED BY <4>1, <4>2, <1>16
    <3> QED BY <3>1, <3>2
  <2>6. \A k \in Range(new.keys) : k.what \in M
    <3>1. \A k \in Range(list.keys) : k.what \in L
      BY DEF RouteListOK, RoutesListed
    <3> QED BY <3>1, <1>14, <1>16
  <2> HIDE DEF M
  <2> QED BY <2>1, <2>2, <2>3, <2>4, <2>5, <2>6 DEF RoutesListed, r
\* Where the list was empty, the label fits.
<1>18. NoneOrSome(M, new)
  <2>1. new.count > 0
    BY <1>2, <1>4
  <2>2. CASE L = {}
    <3>1. s = <<>>
      BY <2>2 DEF RouteListOK, NoneOrSome, s
    <3>2. Length(t) = 0
      BY <3>1, <1>5, LengthEmpty
    <3>3. HasName(r, t, l)
      <4>1. n < RoutesText
        BY DEF n
      <4> QED BY <4>1, <3>2, <1>1, <1>2, <1>7
    <3>4. Len(r) # 0
      BY <3>3, <1>9 DEF HasName
    <3>5. r # <<>>
      BY <3>4
    <3> QED BY <2>1, <3>5 DEF NoneOrSome, r
  <2>3. CASE L # {}
    <3>1. s # <<>>
      BY <2>3 DEF RouteListOK, NoneOrSome, s
    <3>2. Len(s) # 0
      BY <3>1, <1>2, LenZero
    <3>3. Len(r) # 0
      BY <3>2, <1>9
    <3>4. r # <<>>
      BY <3>3
    <3> QED BY <2>1, <3>4 DEF NoneOrSome, r
  <2> QED BY <2>2, <2>3
<1>19. ASSUME RoomForLabels(M) < RoutesText PROVE AllListed(M, new)
  <2>1. l \notin L
    <3>1. SUFFICES ASSUME l \in L PROVE FALSE
      OBVIOUS
    <3>2. M = L
      BY <3>1
    <3>3. AllListed(L, list)
      BY <3>2, <1>19 DEF RouteListOK
    <3> QED BY <3>1, <3>3 DEF AllListed
  <2>2. RoomForLabels(M) = RoomForLabels(L) + Size(l) + 3 + 2 * NoteSize /\ RoomForLabels(L) \in Nat
    BY <2>1, RoomIs
  <2> HIDE DEF M
  <2>3. RoomForLabels(L) < RoutesText
    BY <2>2, <1>1, <1>2, <1>19
  <2>4. AllListed(L, list)
    BY <2>3 DEF RouteListOK
  <2>5. Length(s) <= RoomForLabels(L) /\ Length(list.keys) <= RoomForLabels(L)
    BY <2>4 DEF AllListed, s
  <2> DEFINE x == Length(t)
             y == Length(s)
             z == Size(l)
             a == RoomForLabels(L)
             b == RoomForLabels(M)
             c == Length(r)
  <2>6. /\ x \in Nat /\ y \in Nat /\ z \in Nat /\ a \in Nat /\ c \in Nat
        /\ NoteSize \in Nat /\ RoutesText \in Nat
        /\ x <= y + 1 /\ y <= a /\ b = a + z + 3 + 2 * NoteSize /\ b < RoutesText
        /\ x + z + 2 + 2 * NoteSize < RoutesText => c <= x + z + 2 + 2 * NoteSize
    BY <2>2, <2>5, <1>1, <1>2, <1>3, <1>5, <1>8, <1>9, <1>19
  <2> HIDE DEF x, y, z, a, b, c
  <2>7. /\ x + z + 2 + 2 * NoteSize < RoutesText /\ x + z + 1 < RoutesText
        /\ x + z + 2 + 2 * NoteSize <= b
    BY <2>6
  <2>8. c <= b
    BY <2>6, <2>7
  <2>9. Length(new.keys) <= RoomForLabels(M)
    BY <2>2, <2>5, <1>1, <1>2, <1>3, <1>15
  <2>10. ASSUME NEW e \in M
         PROVE  WholeKey(e) \in Range(new.keys) /\ \E i \in 1..Len(r) : r[i].what = e
    <3>1. CASE e = l
      <4>1. HasName(r, t, l)
        BY <2>7, <1>7 DEF x, z
      <4>2. Len(t) + 1 \in 1..Len(r) /\ r[Len(t) + 1].what = l
        BY <4>1, <1>9 DEF HasName
      <4> QED BY <3>1, <4>2, <1>16
    <3>2. CASE e # l
      <4>1. e \in L
        BY <3>2 DEF M
      <4>2. WholeKey(e) \in Range(list.keys) /\ \E i \in 1..Len(s) : s[i].what = e
        BY <4>1, <2>4 DEF AllListed, s
      <4>3. PICK i \in 1..Len(s) : s[i].what = e
        BY <4>2
      <4>4. i \in 1..Len(r) /\ r[i].what = e
        BY <4>3, <1>10
      <4> QED BY <4>2, <4>4, <1>16
    <3> QED BY <3>1, <3>2
  <2> QED BY <2>8, <2>9, <2>10 DEF AllListed, r, b, c
<1> QED BY <1>17, <1>18, <1>19 DEF RouteListOK

\* list is what the labels L have made of an empty list.
Listing(L, list) == IsFiniteSet(L) /\ L \subseteq Seq(Named) /\ RouteListOK(L, list)

LEMMA ItemAppended ==
  ASSUME NEW L, NEW list, Listing(L, list), NEW l \in Seq(Named),
         l # <<>> => KeySize(l) < RoutesText, NEW arrival, NEW crowding
  PROVE  Listing(IF l = <<>> THEN L ELSE L \cup {l}, append_route_item(list, l, arrival, crowding))
<1> DEFINE new == append_route_item(list, l, arrival, crowding)
           t == IF list.text = <<>> THEN <<>> ELSE str_append(RoutesText, list.text, Comma, 1)
           cut == [list EXCEPT !.keys = str_appendf(RoutesText, @, l, KeySize(l))]
           added == [text  |-> WithNotes(t, l, arrival, crowding),
                     keys  |-> Append(list.keys, WholeKey(l)),
                     count |-> list.count + 1]
<1>1. /\ IsFiniteSet(L) /\ L \subseteq Seq(Named) /\ RouteListOK(L, list)
      /\ IsFiniteSet(L \cup {l}) /\ L \cup {l} \subseteq Seq(Named)
  BY FS_AddElement DEF Listing
<1>2. new = IF l = <<>> \/ WholeKey(l) \in Range(list.keys) THEN list
            ELSE IF ~ Fits(RoutesText, Length(list.keys), KeySize(l)) THEN cut ELSE added
  BY DEF append_route_item, WholeKey
<1>3. Length(list.keys) \in Nat /\ KeySize(l) \in Nat /\ RoutesText \in Nat
  <2>1. list.keys \in Seq(Pieces(Whats))
    BY <1>1, ItemTextsAre DEF RouteListOK, RoutesListed, RouteLists
  <2>2. Size(l) \in Nat
    BY WhatsAre, SizesOfWords
  <2> QED BY <2>1, <2>2, LengthInNat, SearchAssumption DEF KeySize
<1>4. Fits(RoutesText, Length(list.keys), KeySize(l)) <=> Length(list.keys) + KeySize(l) < RoutesText
  BY <1>3 DEF Fits
<1> HIDE DEF new, cut, added, t
<1>5. CASE l = <<>>
  BY <1>2, <1>5 DEF new
<1>6. CASE l # <<>> /\ WholeKey(l) \in Range(list.keys)
  <2>1. WholeKey(l).what = l
    BY DEF WholeKey, Piece
  <2>2. l \in L
    BY <2>1, <1>1, <1>6 DEF RouteListOK, RoutesListed
  <2>3. L \cup {l} = L
    BY <2>2
  <2> QED BY <2>3, <1>2, <1>6 DEF new
<1>7. CASE l # <<>> /\ WholeKey(l) \notin Range(list.keys)
  <2>1. CASE Length(list.keys) + KeySize(l) < RoutesText
    <3>1. new = added
      BY <2>1, <1>2, <1>4, <1>7
    <3>2. RouteListOK(L \cup {l}, added)
      BY <2>1, <1>1, <1>7, LabelAdded DEF added, t
    <3> QED BY <3>1, <3>2, <1>1, <1>7 DEF Listing, new
  <2>2. CASE ~ (Length(list.keys) + KeySize(l) < RoutesText)
    <3>1. new = cut
      BY <2>2, <1>2, <1>4, <1>7
    <3>2. Length(list.keys) + KeySize(l) >= RoutesText
      BY <2>2, <1>3
    <3>3. RouteListOK(L \cup {l}, cut)
      BY <3>2, <1>1, <1>7, KeyCut DEF cut
    <3> QED BY <3>1, <3>3, <1>1, <1>7 DEF Listing, new
  <2> QED BY <2>1, <2>2
<1> QED BY <1>5, <1>6, <1>7

\* The labels of the routes through a stop.
LabelsThrough(app, id) == {route_display_label(app, r) : r \in Through(app, id)}

LEMMA RoutesAppended ==
  ASSUME NEW app \in Range(Datasets), NEW id, NEW L, NEW list, Listing(L, list)
  PROVE  Listing(L \cup LabelsThrough(app, id), append_routes_for_stop_id(app, list, id))
<1> DEFINE label(r) == route_display_label(app, r)
           item(l, r) == append_route_item(l, label(r), IsNoted(app.arrivals, id, r),
                                           IsNoted(app.crowdings, id, r))
           step == [route \in Range(app.routes) |-> [l \in RouteLists |->
                      IF route_has_stop(route, id) THEN item(l, route) ELSE l]]
           s == app.routes
           T(n) == {s[i] : i \in {j \in 1..n : route_has_stop(s[j], id) /\ label(s[j]) # <<>>}}
           M(n) == L \cup {label(r) : r \in T(n)}
           I == [n \in 0..Len(s) |-> {l \in RouteLists : Listing(M(n), l)}]
<1>1. /\ s \in Seq(RouteEntries) /\ Len(s) \in Nat /\ Range(s) = {s[i] : i \in 1..Len(s)}
      /\ \A i \in 1..Len(s) : s[i] \in Range(s)
  BY ListsAre, RangeOf
<1>2. \A l, M0 : Listing(M0, l) => l \in RouteLists
  BY DEF Listing, RouteListOK, RoutesListed
<1>3. list \in I[0]
  <2>1. T(0) = {}
    OBVIOUS
  <2>2. M(0) = L
    BY <2>1
  <2> HIDE DEF M
  <2>3. 0 \in 0..Len(s)
    BY <1>1
  <2> QED BY <2>2, <2>3, <1>2
<1>4. ASSUME NEW n \in 1..Len(s), NEW a \in I[n - 1] PROVE step[s[n]][a] \in I[n]
  <2>1. n \in 0..Len(s) /\ n - 1 \in 0..Len(s) /\ s[n] \in Range(s)
        /\ \A i : i \in 1..n <=> i \in 1..(n - 1) \/ i = n
    BY <1>1
  <2>2. a \in RouteLists /\ Listing(M(n - 1), a)
    BY <2>1
  <2>3. step[s[n]][a] = IF route_has_stop(s[n], id) THEN item(a, s[n]) ELSE a
    BY <2>1, <2>2
  <2>4. label(s[n]) \in Seq(Named)
    BY <2>1, LabelIs
  <2>5. label(s[n]) # <<>> => KeySize(label(s[n])) < RoutesText
    BY <2>1, RoomAssumption
  <2>6. CASE route_has_stop(s[n], id) /\ label(s[n]) # <<>>
    <3>1. T(n) = T(n - 1) \cup {s[n]}
      BY <2>1, <2>6
    <3>2. M(n) = M(n - 1) \cup {label(s[n])}
      <4> HIDE DEF T, label
      <4> QED BY <3>1
    <3> HIDE DEF label, M, T, step
    <3>3. Listing(M(n - 1) \cup {label(s[n])}, item(a, s[n]))
      BY <2>2, <2>4, <2>5, <2>6, ItemAppended
    <3>4. step[s[n]][a] = item(a, s[n])
      BY <2>3, <2>6
    <3> HIDE DEF item
    <3> QED BY <3>2, <3>3, <3>4, <2>1, <1>2
  <2>7. CASE ~ (route_has_stop(s[n], id) /\ label(s[n]) # <<>>)
    <3>1. T(n) = T(n - 1)
      BY <2>1, <2>7
    <3>2. M(n) = M(n - 1)
      <4> HIDE DEF T, label
      <4> QED BY <3>1
    <3>3. step[s[n]][a] = a
      <4>1. label(s[n]) = <<>> => item(a, s[n]) = a
        BY DEF append_route_item
      <4> HIDE DEF label, item, step
      <4> QED BY <4>1, <2>3, <2>7
    <3> HIDE DEF M, step
    <3> QED BY <3>2, <3>3, <2>1, <2>2
  <2> QED BY <2>6, <2>7
<1>5. append_routes_for_stop_id(app, list, id) = FoldWith(step, list, s)
  BY DEF append_routes_for_stop_id
<1>6. T(Len(s)) = Through(app, id)
  BY <1>1 DEF Through
<1>7. M(Len(s)) = L \cup LabelsThrough(app, id)
  <2> HIDE DEF T
  <2> QED BY <1>6 DEF LabelsThrough
<1> HIDE DEF step, I
<1>8. FoldWith(step, list, s) \in I[Len(s)]
  BY <1>1, <1>3, <1>4, LoopRule
<1>9. I[Len(s)] = {l \in RouteLists : Listing(M(Len(s)), l)}
  BY <1>1 DEF I
<1> HIDE DEF M
<1> QED BY <1>5, <1>7, <1>8, <1>9

LEMMA AliasesAppended ==
  ASSUME NEW app \in Range(Datasets), NEW stop, NEW L, NEW list, Listing(L, list)
  PROVE  Listing(L \cup UNION {LabelsThrough(app, other.id) :
                                 other \in {o \in Range(app.stops) :
                                              o.id # stop.id /\ <<stop.id, o.id>> \in Aliases}},
                 WithAliases(app, list, stop))
<1> DEFINE alias(o) == o.id # stop.id /\ <<stop.id, o.id>> \in Aliases
           item(l, o) == append_routes_for_stop_id(app, l, o.id)
           step == [other \in Range(app.stops) |-> [l \in RouteLists |->
                      IF other.id # stop.id /\ <<stop.id, other.id>> \in Aliases
                        THEN append_routes_for_stop_id(app, l, other.id) ELSE l]]
           s == app.stops
           T(n) == {s[i] : i \in {j \in 1..n : alias(s[j])}}
           M(n) == L \cup UNION {LabelsThrough(app, o.id) : o \in T(n)}
           I == [n \in 0..Len(s) |-> {l \in RouteLists : Listing(M(n), l)}]
<1>1. /\ s \in Seq(StopEntries) /\ Len(s) \in Nat /\ Range(s) = {s[i] : i \in 1..Len(s)}
      /\ \A i \in 1..Len(s) : s[i] \in Range(s)
  BY ListsAre, RangeOf
<1>2. \A l, M0 : Listing(M0, l) => l \in RouteLists
  BY DEF Listing, RouteListOK, RoutesListed
<1>3. list \in I[0]
  <2>1. T(0) = {}
    OBVIOUS
  <2>2. M(0) = L
    <3> HIDE DEF T
    <3> QED BY <2>1
  <2> HIDE DEF M
  <2>3. 0 \in 0..Len(s)
    BY <1>1
  <2> QED BY <2>2, <2>3, <1>2
<1>4. ASSUME NEW n \in 1..Len(s), NEW a \in I[n - 1] PROVE step[s[n]][a] \in I[n]
  <2>1. n \in 0..Len(s) /\ n - 1 \in 0..Len(s) /\ s[n] \in Range(s)
        /\ \A i : i \in 1..n <=> i \in 1..(n - 1) \/ i = n
    BY <1>1
  <2>2. a \in RouteLists /\ Listing(M(n - 1), a)
    BY <2>1
  <2>3. step[s[n]][a] = IF alias(s[n]) THEN item(a, s[n]) ELSE a
    BY <2>1, <2>2
  <2>4. CASE alias(s[n])
    <3>1. T(n) = T(n - 1) \cup {s[n]}
      BY <2>1, <2>4
    <3>2. M(n) = M(n - 1) \cup LabelsThrough(app, s[n].id)
      <4> HIDE DEF T
      <4> QED BY <3>1
    <3> HIDE DEF alias, M, T, step
    <3>3. Listing(M(n - 1) \cup LabelsThrough(app, s[n].id), item(a, s[n]))
      BY <2>2, RoutesAppended
    <3>4. step[s[n]][a] = item(a, s[n])
      BY <2>3, <2>4
    <3> HIDE DEF item
    <3> QED BY <3>2, <3>3, <3>4, <2>1, <1>2
  <2>5. CASE ~ alias(s[n])
    <3>1. T(n) = T(n - 1)
      BY <2>1, <2>5
    <3>2. M(n) = M(n - 1)
      <4> HIDE DEF T
      <4> QED BY <3>1
    <3>3. step[s[n]][a] = a
      <4> HIDE DEF alias, item, step
      <4> QED BY <2>3, <2>5
    <3> HIDE DEF M, step
    <3> QED BY <3>2, <3>3, <2>1, <2>2
  <2> QED BY <2>4, <2>5
<1>5. WithAliases(app, list, stop) = FoldWith(step, list, s)
  BY DEF WithAliases
<1>6. T(Len(s)) = {o \in Range(s) : alias(o)}
  BY <1>1
<1>7. M(Len(s)) = L \cup UNION {LabelsThrough(app, o.id) : o \in {o \in Range(s) : alias(o)}}
  <2> HIDE DEF T
  <2> QED BY <1>6
<1> HIDE DEF step, I
<1>8. FoldWith(step, list, s) \in I[Len(s)]
  BY <1>1, <1>3, <1>4, LoopRule
<1>9. I[Len(s)] = {l \in RouteLists : Listing(M(Len(s)), l)}
  BY <1>1 DEF I
<1> HIDE DEF M
<1> QED BY <1>5, <1>7, <1>8, <1>9

\* What a stop is listed with is what its routes, or else those of its aliases, have made
\* of an empty list.
LEMMA StopListed ==
  ASSUME NEW app \in Range(Datasets), NEW stop
  PROVE  \E list : /\ Listing(LabelsOf(app, stop), list)
                   /\ append_routes_for_stop(app, stop) = OrDash(list)
<1> DEFINE empty == [text |-> <<>>, keys |-> <<>>, count |-> 0]
           own == append_routes_for_stop_id(app, empty, stop.id)
           others == {o \in Range(app.stops) : o.id # stop.id /\ <<stop.id, o.id>> \in Aliases}
           all == OrAliases(app, own, stop)
<1>1. Listing({}, empty)
  <2>1. /\ <<>> \in ItemTexts /\ Length(<<>>) = 0 /\ 0 < RoutesText /\ Len(<<>>) = 0
        /\ Range(<<>>) = {}
    <3>1. <<>> \in Seq(Pieces(Whats)) /\ Len(<<>>) = 0
      BY EmptySeq
    <3>2. Range(<<>>) = {}
      BY <3>1, RangeOf
    <3>3. 0 < RoutesText
      BY SearchAssumption
    <3> QED BY <3>1, <3>2, <3>3, ItemTextsAre, LengthEmpty
  <2>2. RoutesListed({}, empty)
    BY <2>1 DEF RoutesListed, RouteLists
  <2>3. NoneOrSome({}, empty)
    BY DEF NoneOrSome
  <2>4. IsFiniteSet({})
    BY FS_EmptySet
  <2>5. RoomForLabels({}) \in Nat
    BY <2>4, RoomIs
  <2>6. AllListed({}, empty)
    BY <2>1, <2>5 DEF AllListed
  <2> QED BY <2>2, <2>3, <2>4, <2>6 DEF Listing, RouteListOK
<1> HIDE DEF empty
<1>2. Listing({} \cup LabelsThrough(app, stop.id), own)
  BY <1>1, RoutesAppended
<1>3. Listing(LabelsThrough(app, stop.id), own)
  BY <1>2
<1>4. own.count > 0 <=> Through(app, stop.id) # {}
  <2>1. LabelsThrough(app, stop.id) = {} <=> Through(app, stop.id) = {}
    BY DEF LabelsThrough
  <2>2. IF LabelsThrough(app, stop.id) = {} THEN own.count = 0 ELSE own.count > 0
    <3> HIDE DEF own
    <3> QED BY <1>3 DEF Listing, RouteListOK, NoneOrSome
  <2> QED BY <2>1, <2>2
<1>5. append_routes_for_stop(app, stop) = OrDash(all)
  BY DEF append_routes_for_stop, empty
<1> HIDE DEF own
<1>6. all = IF own.count > 0 THEN own ELSE WithAliases(app, own, stop)
  BY DEF OrAliases
<1> HIDE DEF all
<1>7. CASE Through(app, stop.id) # {}
  <2>1. LabelsOf(app, stop) = LabelsThrough(app, stop.id)
    BY <1>7 DEF LabelsOf, RoutesOf, LabelsThrough
  <2>2. all = own
    BY <1>4, <1>6, <1>7
  <2> QED BY <2>1, <2>2, <1>3, <1>5
<1>8. CASE Through(app, stop.id) = {}
  <2>1. LabelsThrough(app, stop.id) = {}
    BY <1>8 DEF LabelsThrough
  <2>2. LabelsOf(app, stop) = UNION {LabelsThrough(app, o.id) : o \in others}
    <3>1. RoutesOf(app, stop) = UNION {Through(app, o.id) : o \in others}
      BY <1>8 DEF RoutesOf
    <3> HIDE DEF others
    <3>2. \A x : x \in LabelsOf(app, stop) <=>
                 \E o \in others : x \in LabelsThrough(app, o.id)
      BY <3>1 DEF LabelsOf, LabelsThrough
    <3> QED BY <3>2
  <2>3. all = WithAliases(app, own, stop)
    BY <1>4, <1>6, <1>8
  <2>4. Listing({}, own)
    BY <2>1, <1>3
  <2>5. Listing({} \cup UNION {LabelsThrough(app, o.id) : o \in others}, all)
    BY <2>3, <2>4, AliasesAppended
  <2>6. Listing(LabelsOf(app, stop), all)
    <3> HIDE DEF others
    <3> QED BY <2>2, <2>5
  <2> QED BY <2>6, <1>5
<1> QED BY <1>7, <1>8

\* The first fields of a stop, and the list of its routes.
LEMMA StopItemIs ==
  ASSUME NEW app \in Range(Datasets), NEW stop \in StopEntries
  PROVE  /\ StopItem(app, stop) \in Seq(Pieces(Whats))
         /\ NamesRoutes(app, stop, StopItem(app, stop))
         /\ \A p \in Range(StopItem(app, stop)) :
              p.what \in {Fields, Comma, Note, Close} \cup
                         (IF LabelsOf(app, stop) = {} THEN {Dash} ELSE LabelsOf(app, stop))
<1> DEFINE L == LabelsOf(app, stop)
           routes == append_routes_for_stop(app, stop)
           head == Piece(Fields, Size(<<stop.id, stop.name>>) + 2)
           item == StopItem(app, stop)
           T == {p \in Range(item) : p.what \notin {Fields, Comma, Note, Close}}
           named == LabelPieces(item)
<1>1. PICK list : Listing(L, list) /\ routes = OrDash(list)
  BY StopListed
<1>2. /\ list \in RouteLists /\ RoutesListed(L, list) /\ NoneOrSome(L, list)
      /\ L \subseteq Seq(Named) /\ IsFiniteSet(L)
      /\ RoomForLabels(L) < RoutesText => AllListed(L, list)
      /\ list.text \in Seq(Pieces(Whats))
  BY <1>1, ItemTextsAre DEF Listing, RouteListOK, RoutesListed, RouteLists
<1>3. Piece(Dash, 1) \in Pieces(Whats) /\ Piece(Dash, 1).what = Dash
  BY WhatsAre, PieceIs
<1>4. head \in Pieces(Whats) /\ head.what = Fields
  <2>1. stop.id \in DOMAIN Str /\ stop.name \in DOMAIN Str
    BY DEF StopEntries, Named
  <2>2. Size(<<stop.id, stop.name>>) + 2 \in Nat
    <3>1. Size(<<stop.id, stop.name>>) = Str[stop.id].size + Str[stop.name].size
      BY <2>1, SizeOfOneOrTwo
    <3>2. Str[stop.id].size \in Nat /\ Str[stop.name].size \in Nat
      BY <2>1, StringsAssumption
    <3> QED BY <3>1, <3>2
  <2>3. Fields \in Whats
    BY WhatsAre
  <2> QED BY <2>2, <2>3, PieceIs
<1>5. /\ L = {} => routes = <<Piece(Dash, 1)>>
      /\ L # {} => routes = list.text
  BY <1>1, <1>2 DEF OrDash, NoneOrSome
<1>6. routes \in Seq(Pieces(Whats)) /\ Len(routes) \in Nat
  <2>1. <<Piece(Dash, 1)>> \in Seq(Pieces(Whats))
    BY <1>3
  <2> QED BY <2>1, <1>2, <1>5, LenProperties
<1>7. item = <<head>> \o routes
  BY DEF StopItem
<1> HIDE DEF head, routes, item, L
<1>8. /\ item \in Seq(Pieces(Whats)) /\ Len(item) = Len(routes) + 1
      /\ item[1] = head /\ \A i \in 1..Len(routes) : item[i + 1] = routes[i]
      /\ Range(item) = Range(routes) \cup {head}
  BY <1>4, <1>6, <1>7, InFront
<1>9. \A i \in 1..Len(item) : i = 1 \/ (i - 1 \in 1..Len(routes) /\ item[i] = routes[i - 1])
  <2>1. ASSUME NEW i \in 1..Len(item), i # 1
        PROVE  i - 1 \in 1..Len(routes) /\ item[i] = routes[i - 1]
    <3>1. i - 1 \in 1..Len(routes) /\ (i - 1) + 1 = i
      BY <2>1, <1>6, <1>8
    <3> QED BY <3>1, <1>8
  <2> QED BY <2>1
<1>10. named = Keep(item, T)
  BY DEF LabelPieces
<1>11. named \in Seq(Pieces(Whats) \cap T) /\ Range(named) = Range(item) \cap T
  BY <1>8, <1>10, KeepFacts, KeepRange
<1>12. PICK at : KeptAt(named, item, T, at)
  <2>1. \E at : KeptAt(Keep(item, T), item, T, at)
    <3> HIDE DEF T
    <3> QED BY <1>8, KeepFacts
  <2> QED BY <2>1, <1>10
<1>13. /\ Len(named) \in Nat /\ DOMAIN named = 1..Len(named)
       /\ \A i \in 1..Len(named) : named[i] \in T
  BY <1>11, LenProperties, ElementOfSeq
<1>14. ASSUME NEW i \in 1..Len(named)
       PROVE  /\ at[i] \in 1..Len(item) /\ at[i] - 1 \in 1..Len(routes)
              /\ named[i] = routes[at[i] - 1]
              /\ named[i].what \notin {Fields, Comma, Note, Close}
  <2>1. at[i] \in 1..Len(item) /\ named[i] = item[at[i]]
    BY <1>12 DEF KeptAt
  <2>2. named[i].what \notin {Fields, Comma, Note, Close}
    BY <1>13
  <2>3. at[i] # 1
    BY <2>1, <2>2, <1>4, <1>8
  <2> QED BY <2>1, <2>2, <2>3, <1>9
<1>15. ASSUME NEW i \in 1..Len(named), NEW j \in 1..Len(named), at[i] = at[j] PROVE i = j
  <2>1. (i < j => at[i] < at[j]) /\ (j < i => at[j] < at[i])
    BY <1>12 DEF KeptAt
  <2>2. at[i] \in Nat /\ at[j] \in Nat
    <3>1. Len(item) \in Nat
      BY <1>6, <1>8
    <3> QED BY <3>1, <1>14
  <2> QED BY <2>1, <2>2, <1>13, <1>15
<1> HIDE DEF named, T
<1>16. CASE L = {}
  <2>1. routes = <<Piece(Dash, 1)>> /\ Len(routes) = 1 /\ routes[1] = Piece(Dash, 1)
    BY <1>5, <1>16
  <2>2. Range(routes) = {Piece(Dash, 1)}
    <3>1. Range(routes) = {routes[i] : i \in 1..Len(routes)} /\ \A i \in 1..1 : i = 1
      BY <1>6, RangeOf
    <3>2. 1 \in 1..1
      OBVIOUS
    <3> QED BY <3>1, <3>2, <2>1
  <2>3. \A i \in 1..Len(named) : at[i] = 2 /\ named[i] = Piece(Dash, 1)
    <3>1. ASSUME NEW i \in 1..Len(named) PROVE at[i] = 2 /\ named[i] = Piece(Dash, 1)
      <4>1. at[i] - 1 = 1
        BY <2>1, <1>14
      <4>2. at[i] \in Nat
        BY <1>6, <1>8, <1>14
      <4> QED BY <4>1, <4>2, <2>1, <1>14
    <3> QED BY <3>1
  <2>4. Len(named) <= 1
    <3>1. SUFFICES ASSUME Len(named) > 1 PROVE FALSE
      BY <1>13
    <3>2. 1 \in 1..Len(named) /\ 2 \in 1..Len(named)
      BY <3>1, <1>13
    <3> QED BY <3>2, <2>3, <1>15
  <2>5. Piece(Dash, 1) \in Range(named)
    <3>1. Range(routes) = {Piece(Dash, 1)}
      BY <2>2
    <3>2. Piece(Dash, 1) \in T
      BY <3>1, <1>3, <1>8, NoSeparator DEF T
    <3> QED BY <3>1, <3>2, <1>8, <1>11
  <2>6. Len(named) # 0
    <3>1. Range(named) # {}
      BY <2>5
    <3> QED BY <3>1, <1>11, RangeOf
  <2>7. Len(named) = 1 /\ named[1] = Piece(Dash, 1)
    <3>1. Len(named) = 1
      BY <2>4, <2>6, <1>13
    <3> QED BY <3>1, <2>3
  <2>8. named = <<Piece(Dash, 1)>>
    <3> DEFINE d == <<Piece(Dash, 1)>>
    <3>1. d \in Seq(Pieces(Whats)) /\ Len(d) = 1 /\ d[1] = Piece(Dash, 1)
      BY <1>3
    <3>2. named \in Seq(Pieces(Whats))
      <4>1. Pieces(Whats) \cap T \subseteq Pieces(Whats)
        OBVIOUS
      <4> QED BY <4>1, <1>11, SeqMonotonic
    <3> HIDE DEF d
    <3>3. \A i \in 1..1 : i = 1
      OBVIOUS
    <3>4. named = d
      BY <3>1, <3>2, <3>3, <2>7, SeqEqual
    <3> QED BY <3>4 DEF d
  <2>9. NamesRoutes(app, stop, item)
    BY <2>8, <1>16 DEF NamesRoutes, named, L
  <2>10. \A p \in Range(item) : p.what \in {Fields, Comma, Note, Close} \cup {Dash}
    <3>1. Range(routes) = {Piece(Dash, 1)}
      BY <2>2
    <3> QED BY <3>1, <1>3, <1>4, <1>8
  <2> QED BY <2>9, <2>10, <1>8, <1>16 DEF item, L
<1>17. CASE L # {}
  <2>1. routes = list.text
    BY <1>5, <1>17
  <2>2. \A i \in 1..Len(named) : named[i].what \in L
    <3>1. ASSUME NEW i \in 1..Len(named) PROVE named[i].what \in L
      <4>1. named[i].what \in L \cup {Comma, Note, Close}
        BY <2>1, <1>2, <1>14 DEF RoutesListed
      <4> QED BY <4>1, <1>14
    <3> QED BY <3>1
  <2>3. ASSUME NEW i \in 1..Len(named), NEW j \in 1..Len(named), named[i].what = named[j].what
        PROVE  i = j
    <3>1. at[i] - 1 = at[j] - 1
      BY <2>1, <2>2, <2>3, <1>2, <1>14 DEF RoutesListed
    <3>2. at[i] \in Nat /\ at[j] \in Nat
      BY <1>6, <1>8, <1>14
    <3> QED BY <3>1, <3>2, <1>15
  <2>4. Range(named) = {named[i] : i \in 1..Len(named)}
    BY <1>11, RangeOf
  <2>5. ASSUME RoomForLabels(L) < RoutesText PROVE {p.what : p \in Range(named)} = L
    <3>1. ASSUME NEW l \in L PROVE \E p \in Range(named) : p.what = l
      <4>1. PICK i \in 1..Len(list.text) : list.text[i].what = l
        BY <2>5, <1>2 DEF AllListed
      <4>2. routes[i] \in Range(routes) /\ routes[i].what = l
        BY <4>1, <2>1, <1>6, RangeOf
      <4>3. l \notin {Fields, Comma, Note, Close}
        BY <1>2, WhatsAre, NoSeparator
      <4>4. routes[i] \in Range(item)
        BY <4>2, <1>8
      <4>5. routes[i] \in T
        BY <4>2, <4>3, <4>4 DEF T
      <4> QED BY <4>2, <4>4, <4>5, <1>11
    <3> QED BY <3>1, <2>2, <2>4
  <2>6. NamesRoutes(app, stop, item)
    BY <2>2, <2>3, <2>5, <1>13, <1>17 DEF NamesRoutes, named, L
  <2>7. \A p \in Range(item) : p.what \in {Fields, Comma, Note, Close} \cup L
    <3>1. Range(routes) = {routes[i] : i \in 1..Len(routes)}
      BY <1>6, RangeOf
    <3>2. ASSUME NEW p \in Range(routes) PROVE p.what \in {Fields, Comma, Note, Close} \cup L
      <4>1. PICK i \in 1..Len(routes) : p = routes[i]
        BY <3>1
      <4>2. p.what \in L \cup {Comma, Note, Close}
        BY <4>1, <2>1, <1>2 DEF RoutesListed
      <4> QED BY <4>2
    <3> QED BY <3>2, <1>4, <1>8
  <2> QED BY <2>6, <2>7, <1>8, <1>17 DEF item, L
<1> QED BY <1>16, <1>17

\* The pieces that start a line on the screen.
Starts == {Fields, Comma}

\* The text of a bus route up to stop k, of whose names and commas some may be missing:
\* row says under which stop a piece is, and names has the piece for each stop.
RowsOf(text, names, k, row) ==
  /\ text \in Seq(Pieces(Whats)) /\ text # <<>> /\ text[1].what = Fields
  /\ row \in [1..Len(text) -> 1..k] /\ row[1] = 1
  /\ \A n \in 1..Len(text) : text[n].bytes > 0
  /\ \A n \in 2..Len(text) :
       \/ text[n].what = Comma /\ row[n] = row[n - 1] + 1
       \/ text[n] = names[row[n]] /\ row[n] = row[n - 1] /\ text[n - 1].what \in Starts

\* The same, whose last piece is under stop r.
Rows(text, names, k, r) == \E row : RowsOf(text, names, k, row) /\ row[Len(text)] = r

\* No name is missing before a comma.
NoGaps(text) ==
  \A n \in 2..Len(text) : text[n].what = Comma => text[n - 1].what \notin Starts

\* One piece more.
LEMMA OneRowMore ==
  ASSUME NEW text, NEW names, NEW k \in Nat, NEW j, Rows(text, names, k, j),
         NEW p \in Pieces(Whats), p.bytes > 0, NEW m \in k..k + 1, NEW r \in 1..m,
         \/ p.what = Comma /\ r = j + 1
         \/ p = names[r] /\ r = j /\ text[Len(text)].what \in Starts
  PROVE  /\ Rows(Append(text, p), names, m, r)
         /\ Len(Append(text, p)) = Len(text) + 1 /\ Append(text, p)[Len(text) + 1] = p
         /\ NoGaps(text) /\ (p.what = Comma => text[Len(text)].what \notin Starts) =>
              NoGaps(Append(text, p))
<1>1. PICK row : RowsOf(text, names, k, row) /\ row[Len(text)] = j
  BY DEF Rows
<1> DEFINE a == Append(text, p)
           len == Len(text)
           new == [n \in 1..(len + 1) |-> IF n <= len THEN row[n] ELSE r]
<1>2. /\ text \in Seq(Pieces(Whats)) /\ text # <<>> /\ len \in Nat /\ len # 0
      /\ row \in [1..len -> 1..k]
  <2>1. text \in Seq(Pieces(Whats)) /\ text # <<>>
    BY <1>1 DEF RowsOf
  <2>2. len \in Nat /\ len # 0
    BY <2>1, LenZero, LenProperties
  <2> QED BY <1>1, <2>1, <2>2 DEF RowsOf
<1>3. /\ a \in Seq(Pieces(Whats)) /\ a # <<>> /\ Len(a) = len + 1
      /\ \A n \in 1..len : a[n] = text[n]
      /\ a[len + 1] = p
  BY <1>2, AppendProperties
<1> HIDE DEF a, len
<1>4. /\ \A n \in 1..len : new[n] = row[n] /\ row[n] \in 1..m
      /\ new[len + 1] = r
      /\ \A n \in 1..(len + 1) : n \in 1..len \/ n = len + 1
      /\ 1 \in 1..len /\ len \in 1..len
      /\ \A n \in 2..len : n \in 1..len /\ n - 1 \in 1..len
      /\ \A n \in 2..(len + 1) : n \in 2..len \/ n = len + 1
      /\ (len + 1) - 1 = len
  BY <1>2
<1>5. new \in [1..(len + 1) -> 1..m]
  BY <1>4
<1> HIDE DEF new
<1>6. ASSUME NEW n \in 2..(len + 1)
      PROVE  \/ a[n].what = Comma /\ new[n] = new[n - 1] + 1
             \/ a[n] = names[new[n]] /\ new[n] = new[n - 1] /\ a[n - 1].what \in Starts
  <2>1. CASE n \in 2..len
    <3>1. \/ text[n].what = Comma /\ row[n] = row[n - 1] + 1
          \/ text[n] = names[row[n]] /\ row[n] = row[n - 1] /\ text[n - 1].what \in Starts
      BY <1>1, <2>1 DEF RowsOf, len
    <3> QED BY <2>1, <3>1, <1>3, <1>4
  <2>2. CASE n = len + 1
    <3>1. a[n] = p /\ a[n - 1] = text[len] /\ new[n] = r /\ new[n - 1] = row[len]
      BY <2>2, <1>3, <1>4
    <3> QED BY <1>1, <3>1 DEF len
  <2> QED BY <2>1, <2>2, <1>4
<1>7. RowsOf(a, names, m, new)
  <2>1. a[1].what = Fields /\ new[1] = 1
    BY <1>1, <1>3, <1>4 DEF RowsOf
  <2>2. \A n \in 1..(len + 1) : a[n].bytes > 0
    BY <1>1, <1>3, <1>4 DEF RowsOf, len
  <2> QED BY <2>1, <2>2, <1>3, <1>5, <1>6 DEF RowsOf
<1>8. ASSUME NoGaps(text), p.what = Comma => text[len].what \notin Starts PROVE NoGaps(a)
  <2>1. ASSUME NEW n \in 2..(len + 1), a[n].what = Comma PROVE a[n - 1].what \notin Starts
    <3>1. CASE n \in 2..len
      <4>1. a[n] = text[n] /\ a[n - 1] = text[n - 1]
        BY <3>1, <1>3, <1>4
      <4> QED BY <2>1, <3>1, <4>1, <1>8 DEF NoGaps, len
    <3>2. CASE n = len + 1
      <4>1. a[n] = p /\ a[n - 1] = text[len]
        BY <3>2, <1>3, <1>4
      <4> QED BY <2>1, <4>1, <1>8
    <3> QED BY <3>1, <3>2, <1>4
  <2> QED BY <2>1, <1>3 DEF NoGaps
<1>9. Rows(a, names, m, r)
  BY <1>3, <1>4, <1>7 DEF Rows
<1> QED BY <1>3, <1>8, <1>9 DEF a, len

\* A bus item up to stop k, in this much room, of h bytes before the stops: where a comma
\* found no room there is none for anything after it.  If there is room for all stops, with
\* names of these sizes, nothing is missing.
BusRows(text, names, k, room, h, sizes) ==
  /\ Length(text) < room
  /\ \E r : Rows(text, names, k, r) /\ (r = k \/ Length(text) = room - 1)
  /\ h + Total(sizes) + Len(sizes) < room =>
       /\ Length(text) = h + Upto(sizes, k) + (k - 1)
       /\ NoGaps(text) /\ text[Len(text)].what \notin Starts

\* A comma more, and a name more.
LEMMA CommaMore ==
  ASSUME NEW text, NEW names, NEW k \in Nat, Rows(text, names, k, k),
         NEW p \in Pieces(Whats), p.what = Comma, p.bytes > 0
  PROVE  /\ Rows(Append(text, p), names, k + 1, k + 1)
         /\ NoGaps(text) /\ text[Len(text)].what \notin Starts => NoGaps(Append(text, p))
<1>1. k + 1 \in k..k + 1 /\ k + 1 \in 1..k + 1
  OBVIOUS
<1> QED BY <1>1, OneRowMore

LEMMA NameMore ==
  ASSUME NEW text, NEW names, NEW k \in Nat, k > 0, Rows(text, names, k, k),
         text[Len(text)].what \in Starts,
         NEW p \in Pieces(Whats), p.what # Comma, p.bytes > 0, p = names[k]
  PROVE  /\ Rows(Append(text, p), names, k, k)
         /\ NoGaps(text) => NoGaps(Append(text, p))
<1>1. k \in k..k + 1 /\ k \in 1..k
  OBVIOUS
<1> QED BY <1>1, OneRowMore

\* What is in its rows before a stop is before the next one.
LEMMA RowsLast ==
  ASSUME NEW text, NEW names, NEW k \in Nat, NEW r, Rows(text, names, k, r)
  PROVE  /\ text \in Seq(Pieces(Whats)) /\ text # <<>> /\ Len(text) \in Nat /\ Length(text) \in Nat
         /\ r \in 1..k /\ Rows(text, names, k + 1, r)
<1>1. PICK row : RowsOf(text, names, k, row) /\ row[Len(text)] = r
  BY DEF Rows
<1>2. text \in Seq(Pieces(Whats)) /\ text # <<>> /\ row \in [1..Len(text) -> 1..k]
  BY <1>1 DEF RowsOf
<1>3. Len(text) \in Nat /\ Len(text) # 0 /\ Length(text) \in Nat
  BY <1>2, LenProperties, LenZero, LengthInNat
<1>4. 1..k \subseteq 1..k + 1
  OBVIOUS
<1>5. row \in [1..Len(text) -> 1..k + 1]
  BY <1>2, <1>4
<1>6. RowsOf(text, names, k + 1, row)
  BY <1>1, <1>5 DEF RowsOf
<1>7. Len(text) \in 1..Len(text)
  BY <1>3
<1>8. r \in 1..k
  BY <1>1, <1>2, <1>7
<1> QED BY <1>1, <1>2, <1>3, <1>6, <1>8 DEF Rows

LEMMA StopAdded ==
  ASSUME NEW names, NEW sizes \in Seq(Nat), NEW h \in Nat, NEW room \in Nat,
         NEW k \in Nat, k > 0, k + 1 \in 1..Len(sizes),
         NEW text, BusRows(text, names, k, room, h, sizes),
         NEW w \in Whats, w \notin Starts, NEW b \in Nat, b > 0,
         names[k + 1] = Piece(w, b), sizes[k + 1] = b
  PROVE  BusRows(str_append(room, str_append(room, text, Comma, 1), w, b),
                 names, k + 1, room, h, sizes)
<1> DEFINE u == str_append(room, text, Comma, 1)
           v == str_append(room, u, w, b)
           comma == Piece(Comma, 1)
           p == Piece(w, b)
           x == Length(text)
           all == Total(sizes)
           len == Len(sizes)
           c == Upto(sizes, k)
           d == Upto(sizes, k + 1)
           m == k + 1
           whole == h + all + len
<1>1. w \in Whats /\ w \notin Starts /\ b \in Nat /\ b > 0 /\ k \in Nat /\ k > 0 /\ h \in Nat
      /\ room \in Nat /\ m \in Nat /\ m > 0 /\ m - 1 = k
  OBVIOUS
<1>2. /\ x < room
      /\ \E r : Rows(text, names, k, r) /\ (r = k \/ x = room - 1)
      /\ whole < room => x = h + c + (k - 1) /\ NoGaps(text) /\ text[Len(text)].what \notin Starts
  BY DEF BusRows
<1>3. PICK r : Rows(text, names, k, r) /\ (r = k \/ x = room - 1)
  BY <1>2
<1>4. /\ text \in Seq(Pieces(Whats)) /\ text # <<>> /\ x \in Nat /\ Len(text) \in Nat
      /\ Rows(text, names, m, r) /\ r \in 1..k
  BY <1>3, RowsLast
<1>5. /\ comma \in Pieces(Whats) /\ comma.what = Comma /\ comma.bytes = 1
      /\ p \in Pieces(Whats) /\ p.what = w /\ p.bytes = b /\ Comma \in Whats
      /\ p.what # Comma /\ p.what \notin Starts /\ comma.what \in Starts
  <2>1. Comma \in Whats
    BY WhatsAre
  <2>2. comma \in Pieces(Whats) /\ comma.what = Comma /\ comma.bytes = 1
    BY <2>1, PieceIs
  <2>3. p \in Pieces(Whats) /\ p.what = w /\ p.bytes = b
    BY PieceIs
  <2> QED BY <2>1, <2>2, <2>3, <1>1 DEF Starts
\* Room for all of it.
<1>6. all \in Nat /\ len \in Nat /\ c \in Nat /\ d = c + b /\ d <= all /\ m <= len
  <2>1. len \in Nat /\ all \in Nat
    BY LenProperties, TotalFacts
  <2>2. k \in 0..len /\ m \in 0..len /\ m - 1 = k
    BY <2>1
  <2> QED BY <2>1, <2>2, UptoFacts
<1>7. ASSUME whole < room
      PROVE  x + 1 + b = h + d + (m - 1) /\ x + 1 + b < room
  <2>1. x = h + c + (k - 1)
    BY <1>2, <1>7
  <2> HIDE DEF x, c, d, all, len
  <2> QED BY <2>1, <1>1, <1>4, <1>6, <1>7
<1>8. ASSUME NEW t, Length(t) < room, NEW j, Rows(t, names, m, j), j = m \/ Length(t) = room - 1,
             whole < room => Length(t) = h + d + (m - 1) /\ NoGaps(t) /\ t[Len(t)].what \notin Starts
      PROVE  BusRows(t, names, m, room, h, sizes)
  BY <1>8 DEF BusRows
<1> HIDE DEF comma, p, x, whole, c, d, all, len, m
<1>9. CASE x + 1 < room
  <2>1. u = Append(text, comma) /\ Length(u) = x + 1 /\ u \in Seq(Pieces(Whats))
    <3>1. Length(text) + 1 < room /\ Length(text) < room /\ 1 \in Nat
      BY <1>2, <1>9 DEF x
    <3> QED BY <3>1, <1>1, <1>4, <1>5, StrAppend DEF x, comma
  <2>2. Rows(text, names, k, k)
    BY <1>1, <1>3, <1>4, <1>9
  <2>3. /\ Len(u) = Len(text) + 1 /\ u[Len(u)] = comma
        /\ Rows(u, names, m, m)
        /\ NoGaps(text) /\ text[Len(text)].what \notin Starts => NoGaps(u)
    <3>1. comma.bytes > 0
      BY <1>5
    <3>2. Len(u) = Len(text) + 1 /\ u[Len(text) + 1] = comma
      BY <2>1, <1>4, <1>5, AppendProperties
    <3>3. Rows(Append(text, comma), names, k + 1, k + 1)
      BY <3>1, <1>1, <1>5, <2>2, CommaMore
    <3>4. NoGaps(text) /\ text[Len(text)].what \notin Starts => NoGaps(Append(text, comma))
      BY <3>1, <1>1, <1>5, <2>2, CommaMore
    <3> HIDE DEF u
    <3> QED BY <2>1, <3>2, <3>3, <3>4 DEF m
  <2> HIDE DEF u
  <2>4. CASE x + 1 + b < room
    <3>1. v = Append(u, p) /\ Length(v) = x + 1 + b
      <4>1. Length(u) + b < room /\ Length(u) < room
        BY <2>1, <2>4, <1>9
      <4>2. u \in Seq(Pieces(Whats)) /\ w \in Whats /\ b \in Nat /\ room \in Nat
        BY <2>1
      <4>3. v = Append(u, p)
        BY <4>1, <4>2, StrAppend DEF p
      <4>4. Length(v) = Length(u) + b
        BY <4>1, <4>2, StrAppend
      <4> HIDE DEF v
      <4> QED BY <4>3, <4>4, <2>1
    <3>2. Len(v) = Len(u) + 1 /\ v[Len(v)] = p /\ Rows(v, names, m, m) /\ (NoGaps(u) => NoGaps(v))
      <4>1. p.bytes > 0 /\ p = names[m] /\ u[Len(u)].what \in Starts /\ m \in Nat /\ m > 0
        BY <2>3, <1>1, <1>5 DEF p, m
      <4>2. Len(v) = Len(u) + 1 /\ v[Len(u) + 1] = p
        BY <2>1, <3>1, <1>5, AppendProperties
      <4>3. Rows(Append(u, p), names, m, m)
        BY <2>3, <4>1, <1>5, NameMore
      <4>4. NoGaps(u) => NoGaps(Append(u, p))
        BY <2>3, <4>1, <1>5, NameMore
      <4> HIDE DEF v
      <4> QED BY <3>1, <4>2, <4>3, <4>4
    <3> HIDE DEF v
    <3>3. BusRows(v, names, m, room, h, sizes)
      <4>1. Length(v) < room
        BY <2>4, <3>1
      <4>2. whole < room => Length(v) = h + d + (m - 1) /\ NoGaps(v) /\ v[Len(v)].what \notin Starts
        BY <1>2, <1>5, <1>7, <2>3, <3>1, <3>2
      <4> QED BY <4>1, <4>2, <3>2, <1>8
    <3> QED BY <3>3 DEF v, u, m
  <2>5. CASE ~ (x + 1 + b < room)
    <3>1. v = u
      <4>1. Length(u) + b >= room /\ Length(u) < room
        BY <2>1, <2>5, <1>1, <1>4, <1>9
      <4>2. u \in Seq(Pieces(Whats)) /\ w \in Whats /\ b \in Nat /\ room \in Nat
        BY <2>1
      <4> QED BY <4>1, <4>2, StrAppend
    <3>2. ~ (whole < room)
      BY <2>5, <1>7
    <3>3. Length(u) < room
      BY <2>1, <1>9
    <3>4. BusRows(u, names, m, room, h, sizes)
      BY <2>3, <3>2, <3>3, <1>8
    <3> HIDE DEF v
    <3> QED BY <3>1, <3>4 DEF v, u, m
  <2> QED BY <2>4, <2>5
<1>10. CASE ~ (x + 1 < room)
  <2>1. x = room - 1 /\ x + 1 >= room /\ x + b >= room
    BY <1>1, <1>2, <1>4, <1>10
  <2>2. Length(text) + b >= room /\ Length(text) < room /\ Length(text) + 1 >= room /\ 1 \in Nat
    BY <2>1, <1>2 DEF x
  <2>3. u = text
    BY <2>2, <1>1, <1>4, <1>5, StrAppend
  <2>4. str_append(room, text, w, b) = text
    BY <2>2, <1>1, <1>4, StrAppend
  <2>5. v = text
    BY <2>3, <2>4
  <2>6. ~ (whole < room)
    BY <2>1, <1>1, <1>4, <1>7
  <2>7. BusRows(text, names, m, room, h, sizes)
    BY <2>1, <2>2, <2>6, <1>4, <1>8 DEF x
  <2> QED BY <2>5, <2>7 DEF m
<1> QED BY <1>9, <1>10

\* The pieces of a bus item that name its stops.
StopPieces(app, route) ==
  [n \in DOMAIN route.stops |-> Piece(<<StopNames(app, route)[n]>>, Size(<<StopNames(app, route)[n]>>))]

LEMMA StopNamesAre ==
  ASSUME NEW app \in Range(Datasets), NEW route \in Range(app.routes)
  PROVE  /\ route.stops \in Seq(Named)
         /\ StopNames(app, route) \in Seq(Named) /\ Len(StopNames(app, route)) = Len(route.stops)
         /\ SizesOf(StopNames(app, route)) \in Seq(Nat)
         /\ Len(SizesOf(StopNames(app, route))) = Len(route.stops)
         /\ Total(SizesOf(StopNames(app, route))) = Size(StopNames(app, route))
         /\ DOMAIN StopPieces(app, route) = 1..Len(route.stops)
         /\ BusHead(app, route) \in Nat /\ BusHead(app, route) > 0
<1> DEFINE names == StopNames(app, route)
           start == find_node_name_by_id(app, route.start)
           end == find_node_name_by_id(app, route.end)
           label == route_display_label(app, route)
<1>1. route \in RouteEntries
  BY ListsAre, RangeOf
<1>2. /\ route.stops \in Seq(Named) /\ route.no \in Named /\ route.start \in DOMAIN Str
      /\ route.end \in DOMAIN Str /\ Named \subseteq DOMAIN Str
  BY <1>1 DEF RouteEntries, Named
<1>3. /\ DOMAIN route.stops = 1..Len(route.stops) /\ Len(route.stops) \in Nat
      /\ \A n \in 1..Len(route.stops) : route.stops[n] \in Named
  BY <1>2, LenProperties, ElementOfSeq
<1>4. \A n \in 1..Len(route.stops) : find_node_name_by_id(app, route.stops[n]) \in Named
  <2> SUFFICES ASSUME NEW n \in 1..Len(route.stops)
               PROVE  find_node_name_by_id(app, route.stops[n]) \in Named
    OBVIOUS
  <2>1. route.stops[n] \in Range(route.stops) /\ route.stops[n] \in DOMAIN Str
    BY <1>2, <1>3, RangeOf
  <2>2. route.stops[n] \in {stop.id : stop \in Range(app.stops)}
    BY <2>1, DataAssumption
  <2> QED BY <2>1, <2>2, NameIs
<1>5. names = [n \in 1..Len(route.stops) |-> find_node_name_by_id(app, route.stops[n])]
  BY <1>3 DEF StopNames
<1>6. names \in Seq(Named) /\ Len(names) = Len(route.stops)
  <2> HIDE DEF names
  <2>1. names \in [1..Len(route.stops) -> Named]
    BY <1>4, <1>5
  <2> QED BY <2>1, <1>3
<1>7. names \in Seq(DOMAIN Str)
  BY <1>6, WhatsAre
<1>8. SizesOf(names) \in Seq(Nat) /\ Len(SizesOf(names)) = Len(names) /\ Total(SizesOf(names)) = Size(names)
  BY <1>7, SizesOfWords
<1>9. DOMAIN StopPieces(app, route) = 1..Len(route.stops)
  BY <1>3 DEF StopPieces
<1>10. start \in DOMAIN Str /\ end \in DOMAIN Str
  BY <1>2, NameIs
<1>11. label \in Seq(DOMAIN Str)
  BY LabelIs, WhatsAre
<1> HIDE DEF start, end, label, names
<1>12. <<start, end>> \in Seq(DOMAIN Str) /\ <<route.no>> \in Seq(DOMAIN Str)
  BY <1>2, <1>10
<1>13. <<route.no>> \o label \in Seq(DOMAIN Str)
  BY <1>11, <1>12, ConcatProperties
<1>14. Size(<<start, end>>) \in Nat /\ Size(<<route.no>> \o label) \in Nat
  BY <1>12, <1>13, SizesOfWords
<1>15. BusHead(app, route) = Size(<<route.no>> \o label) + Size(<<start, end>>) + 4
  BY DEF BusHead, start, end, label
<1>16. BusHead(app, route) \in Nat /\ BusHead(app, route) > 0
  BY <1>14, <1>15
<1> QED BY <1>2, <1>6, <1>8, <1>9, <1>16 DEF names

LEMMA StopPiece ==
  ASSUME NEW app \in Range(Datasets), NEW route \in Range(app.routes), NEW k \in 1..Len(route.stops)
  PROVE  LET name == StopNames(app, route)[k]
             size == Str[name].size
         IN  /\ name \in Named /\ name = find_node_name_by_id(app, route.stops[k])
             /\ size \in Nat /\ size > 0 /\ Size(<<name>>) = size
             /\ <<name>> \in Whats /\ <<name>> \notin Starts
             /\ StopPieces(app, route)[k] = Piece(<<name>>, size)
             /\ SizesOf(StopNames(app, route))[k] = size
<1> DEFINE names == StopNames(app, route)
           name == names[k]
<1>1. names \in Seq(Named) /\ Len(names) = Len(route.stops) /\ route.stops \in Seq(Named)
  BY StopNamesAre
<1>2. DOMAIN route.stops = 1..Len(route.stops)
  BY <1>1, LenProperties
<1>3. name = find_node_name_by_id(app, route.stops[k])
  BY <1>2 DEF StopNames
<1>4. StopPieces(app, route)[k] = Piece(<<name>>, Size(<<name>>))
  BY <1>2 DEF StopPieces
<1> HIDE DEF names
<1>5. name \in Named /\ name \in DOMAIN Str /\ name # Blank
  BY <1>1, ElementOfSeq DEF Named
<1>6. names \in Seq(DOMAIN Str)
  BY <1>1, WhatsAre
<1>7. SizesOf(names)[k] = Str[name].size
  BY <1>1, <1>6, SizesOfWords
<1>8. <<name>> \in Whats /\ <<name>> \notin {Fields, Comma, Note, Close, Dash}
  BY <1>5, WhatsAre, NoSeparator
<1>9. Size(<<name>>) = Str[name].size
  BY <1>5, SizeOfOneOrTwo
<1>10. Str[name].size \in Nat /\ Str[name].size # 0
  BY <1>5, StringsAssumption
<1>11. Str[name].size > 0 /\ <<name>> \notin Starts
  BY <1>8, <1>10 DEF Starts
<1> QED BY <1>3, <1>4, <1>5, <1>7, <1>8, <1>9, <1>10, <1>11 DEF names

LEMMA HeadAlone ==
  ASSUME NEW names, NEW h \in Nat, h > 0
  PROVE  LET head == <<Piece(Fields, h)>>
         IN  /\ head \in Seq(Pieces(Whats)) /\ Length(head) = h /\ Len(head) = 1
             /\ Rows(head, names, 1, 1) /\ NoGaps(head) /\ head[Len(head)].what \in Starts
<1> DEFINE p == Piece(Fields, h)
           head == <<p>>
           row == [n \in 1..1 |-> 1]
<1>1. p \in Pieces(Whats) /\ p.what = Fields /\ p.bytes = h
  <2>1. Fields \in Whats
    BY WhatsAre
  <2> QED BY <2>1, PieceIs
<1> HIDE DEF p
<1>2. head \in Seq(Pieces(Whats)) /\ Length(head) = h
  BY <1>1, LengthOne
<1>3. Len(head) = 1 /\ head[1] = p /\ head # <<>>
  OBVIOUS
<1> HIDE DEF head
<1>4. row \in [1..1 -> 1..1] /\ row[1] = 1
  OBVIOUS
<1> HIDE DEF row
<1>5. /\ \A n \in 1..1 : head[n].bytes > 0
      /\ \A n \in 2..1 : FALSE
  BY <1>1, <1>3
<1>6. RowsOf(head, names, 1, row)
  BY <1>1, <1>2, <1>3, <1>4, <1>5 DEF RowsOf
<1>7. Rows(head, names, 1, 1)
  BY <1>3, <1>4, <1>6 DEF Rows
<1>8. NoGaps(head) /\ head[Len(head)].what \in Starts
  BY <1>1, <1>3, <1>5 DEF NoGaps, Starts
<1> QED BY <1>2, <1>3, <1>7, <1>8 DEF head, p

\* append_bus_route_item: head and first stop find room, and then it is stop by stop.
LEMMA FirstNameIs ==
  ASSUME NEW app \in Range(Datasets), NEW route \in Range(app.routes),
         route_display_label(app, route) # <<>>, route.stops # <<>>,
         NEW room \in Nat, room >= BusRoom
  PROVE  BusRows(FirstName(app, route, room), StopPieces(app, route), 1, room,
                 BusHead(app, route), SizesOf(StopNames(app, route)))
<1> DEFINE names == StopNames(app, route)
           h == BusHead(app, route)
           sizes == SizesOf(names)
           SP == StopPieces(app, route)
           name == names[1]
           b == Str[name].size
           p == Piece(<<name>>, b)
           head == <<Piece(Fields, h)>>
           t == FirstName(app, route, room)
<1>1. /\ names \in Seq(Named) /\ Len(names) = Len(route.stops) /\ route.stops \in Seq(Named)
      /\ sizes \in Seq(Nat) /\ Len(sizes) = Len(names) /\ h \in Nat /\ h > 0
  BY StopNamesAre
<1>2. Len(route.stops) \in Nat /\ Len(route.stops) > 0
  BY <1>1, LenProperties, LenZero
<1>3. 1 \in 1..Len(route.stops)
  BY <1>2
<1>4. /\ b \in Nat /\ b > 0 /\ Size(<<name>>) = b /\ <<name>> \in Whats /\ <<name>> \notin Starts
      /\ SP[1] = p /\ sizes[1] = b
  BY <1>3, StopPiece
<1>5. Head(names) = name
  BY <1>1, <1>2
<1>6. t = str_append(room, head, <<name>>, b)
  BY <1>4, <1>5 DEF FirstName
<1>7. h + b < room
  <2>1. h + b + 1 < BusRoom
    BY <1>5, RoomAssumption
  <2>2. BusRoom \in Nat
    BY SearchAssumption
  <2> HIDE DEF h, b
  <2> QED BY <2>1, <2>2, <1>1, <1>4
<1>8. /\ head \in Seq(Pieces(Whats)) /\ Length(head) = h /\ Len(head) = 1
      /\ Rows(head, SP, 1, 1) /\ NoGaps(head) /\ head[Len(head)].what \in Starts
  BY <1>1, HeadAlone
<1>9. p \in Pieces(Whats) /\ p.what = <<name>> /\ p.bytes = b /\ p.what # Comma
  <2>1. <<name>> \in Whats /\ b \in Nat /\ <<name>> # Comma
    BY <1>4 DEF Starts
  <2> HIDE DEF b, name
  <2>2. p \in Pieces(Whats) /\ p.what = <<name>> /\ p.bytes = b
    BY <2>1, PieceIs
  <2> QED BY <2>1, <2>2
<1> HIDE DEF head, h, t, b, SP, sizes, names
<1>10. t = Append(head, p)
  <2>1. Length(head) < room /\ Length(head) + b < room
    BY <1>1, <1>4, <1>7, <1>8
  <2> DEFINE w == <<name>>
  <2>2. head \in Seq(Pieces(Whats)) /\ w \in Whats /\ b \in Nat
    BY <1>4, <1>8
  <2> HIDE DEF w
  <2>3. str_append(room, head, w, b) = Append(head, Piece(w, b))
    BY <2>1, <2>2, StrAppend
  <2> QED BY <2>3, <1>6 DEF w
<1>11. Length(t) = h + b
  BY <1>8, <1>9, <1>10, LengthAppend
<1>12. Rows(t, SP, 1, 1) /\ NoGaps(t)
  <2>1. p.bytes > 0 /\ p = SP[1] /\ 1 \in Nat /\ 1 > 0
    BY <1>4, <1>9
  <2>2. Rows(Append(head, p), SP, 1, 1)
    BY <2>1, <1>8, <1>9, NameMore
  <2>3. NoGaps(head) => NoGaps(Append(head, p))
    BY <2>1, <1>8, <1>9, NameMore
  <2> QED BY <2>2, <2>3, <1>8, <1>10
<1>13. t[Len(t)].what \notin Starts
  <2>1. Len(t) = Len(head) + 1 /\ t[Len(head) + 1] = p
    BY <1>8, <1>9, <1>10, AppendProperties
  <2> QED BY <2>1, <1>4, <1>9
<1>14. Upto(sizes, 1) = b
  <2>1. 1 \in 1..Len(sizes) /\ 1 - 1 = 0
    BY <1>1, <1>3
  <2>2. Upto(sizes, 1) = Upto(sizes, 0) + sizes[1] /\ Upto(sizes, 0) = 0
    BY <2>1, <1>1, UptoFacts
  <2> QED BY <2>2, <1>4
<1>15. Length(t) = h + Upto(sizes, 1) + (1 - 1)
  BY <1>1, <1>4, <1>11, <1>14
<1>16. Length(t) < room
  BY <1>7, <1>11
<1>17. BusRows(t, SP, 1, room, h, sizes)
  BY <1>12, <1>13, <1>15, <1>16 DEF BusRows
<1> QED BY <1>17 DEF t, SP, h, sizes, names

LEMMA BusItemIs ==
  ASSUME NEW app \in Range(Datasets), NEW route \in Range(app.routes),
         route_display_label(app, route) # <<>>, route.stops # <<>>,
         NEW room \in Nat, room >= BusRoom
  PROVE  BusRows(BusItem(app, route, room), StopPieces(app, route), Len(route.stops), room,
                 BusHead(app, route), SizesOf(StopNames(app, route)))
<1> DEFINE names == StopNames(app, route)
           h == BusHead(app, route)
           sizes == SizesOf(names)
           SP == StopPieces(app, route)
           add(text, name) ==
             str_append(room, str_append(room, text, Comma, 1), <<name>>, Size(<<name>>))
           step == [name \in Range(names) |-> [text \in ItemTexts |-> add(text, name)]]
           s == Tail(names)
           I == [n \in 0..Len(s) |-> {t \in ItemTexts : BusRows(t, SP, n + 1, room, h, sizes)}]
           len == Len(route.stops)
<1>1. /\ names \in Seq(Named) /\ Len(names) = len /\ route.stops \in Seq(Named)
      /\ sizes \in Seq(Nat) /\ Len(sizes) = len /\ h \in Nat /\ h > 0
  BY StopNamesAre
<1>2. len \in Nat /\ len > 0 /\ names # <<>>
  <2>1. len \in Nat /\ len # 0
    BY <1>1, LenProperties, LenZero
  <2>2. Len(names) # 0
    BY <2>1, <1>1
  <2> HIDE DEF names
  <2> QED BY <2>1, <2>2
<1>3. /\ s \in Seq(Named) /\ Len(s) = len - 1 /\ \A i \in 1..Len(s) : s[i] = names[i + 1]
      /\ Range(names) = {names[i] : i \in 1..Len(names)}
  <2> HIDE DEF names
  <2> QED BY <1>1, <1>2, HeadTailProperties, RangeOf
<1> HIDE DEF s
<1>4. ASSUME NEW t, NEW k, BusRows(t, SP, k, room, h, sizes), k \in Nat PROVE t \in ItemTexts
  <2>1. PICK r : Rows(t, SP, k, r)
    BY <1>4 DEF BusRows
  <2>2. t \in Seq(Pieces(Whats))
    BY <1>4, <2>1, RowsLast
  <2> QED BY <2>2, ItemTextsAre
<1>5. FirstName(app, route, room) \in I[0]
  <2>1. BusRows(FirstName(app, route, room), SP, 1, room, h, sizes)
    BY FirstNameIs
  <2>2. FirstName(app, route, room) \in ItemTexts
    BY <2>1, <1>4
  <2>3. 0 \in 0..Len(s) /\ 0 + 1 = 1
    BY <1>2, <1>3
  <2> HIDE DEF SP, h, sizes
  <2> QED BY <2>1, <2>2, <2>3
<1>6. ASSUME NEW n \in 1..Len(s), NEW a \in I[n - 1] PROVE step[s[n]][a] \in I[n]
  <2> DEFINE name == names[n + 1]
             b == Str[name].size
             result == str_append(room, str_append(room, a, Comma, 1), <<name>>, b)
  <2>1. /\ n \in 0..Len(s) /\ n - 1 \in 0..Len(s) /\ (n - 1) + 1 = n
        /\ n \in Nat /\ n > 0 /\ n + 1 \in 1..len
    BY <1>2, <1>3
  <2>2. a \in ItemTexts /\ BusRows(a, SP, n, room, h, sizes)
    <3> HIDE DEF SP, h, sizes
    <3> QED BY <2>1
  <2>3. /\ b \in Nat /\ b > 0 /\ Size(<<name>>) = b /\ <<name>> \in Whats /\ <<name>> \notin Starts
        /\ SP[n + 1] = Piece(<<name>>, b) /\ sizes[n + 1] = b
    BY <2>1, StopPiece
  <2>4. s[n] = name /\ name \in Range(names)
    BY <2>1, <1>1, <1>3
  <2>5. step[s[n]][a] = result
    <3> HIDE DEF names
    <3> QED BY <2>2, <2>3, <2>4
  <2>6. BusRows(result, SP, n + 1, room, h, sizes)
    <3> HIDE DEF SP, h, sizes, name, b
    <3>1. n + 1 \in 1..Len(sizes)
      BY <2>1, <1>1
    <3> QED BY <3>1, <2>1, <2>2, <2>3, <1>1, StopAdded
  <2>7. result \in ItemTexts
    BY <2>1, <2>6, <1>4
  <2> HIDE DEF result, step, SP, h, sizes
  <2> QED BY <2>1, <2>5, <2>6, <2>7
<1>7. BusItem(app, route, room) = FoldWith(step, FirstName(app, route, room), s)
  BY DEF BusItem, s
<1> HIDE DEF step, I
<1>8. FoldWith(step, FirstName(app, route, room), s) \in I[Len(s)]
  BY <1>3, <1>5, <1>6, LoopRule
<1>9. I[Len(s)] = {t \in ItemTexts : BusRows(t, SP, len, room, h, sizes)}
  <2>1. Len(s) \in 0..Len(s) /\ Len(s) + 1 = len
    BY <1>2, <1>3
  <2> HIDE DEF SP, h, sizes
  <2> QED BY <2>1 DEF I
<1> HIDE DEF SP, h, sizes
<1>10. BusRows(BusItem(app, route, room), SP, len, room, h, sizes)
  BY <1>7, <1>8, <1>9
<1> QED BY <1>10 DEF SP, h, sizes, names

LEMMA MoreTimes ==
  ASSUME NEW m \in Nat, NEW x \in Nat, NEW y \in Nat, x <= y
  PROVE  m * x <= m * y
<1>1. PICK d \in Nat : y = x + d
  <2>1. y - x \in Nat /\ y = x + (y - x)
    OBVIOUS
  <2> QED BY <2>1
<1>2. m * (x + d) = m * x + m * d
  OBVIOUS
<1>3. m * d \in Nat /\ m * x \in Nat
  OBVIOUS
<1> QED BY <1>1, <1>2, <1>3

LEMMA OneMoreTime ==
  ASSUME NEW m \in Nat, NEW x \in Nat
  PROVE  m * (x + 1) = m * x + m /\ m * x \in Nat
OBVIOUS

LEMMA RoundUp ==
  ASSUME NEW M \in Nat, M > 0, NEW k \in Nat, NEW p \in 1..M
  PROVE  (M * k + p + M - 1) \div M = k + 1
<1> DEFINE a == M * k + p + M - 1
           q == a \div M
<1>1. M * k \in Nat /\ M * (k + 1) = M * k + M
  BY OneMoreTime
<1>2. a \in Nat
  BY <1>1
<1>3. q \in Nat /\ M * q <= a /\ a < M * q + M
  BY <1>2
<1> HIDE DEF q
<1>4. M * q \in Nat /\ M * (q + 1) = M * q + M
  BY <1>3, OneMoreTime
<1>5. ~ (q < k + 1)
  <2>1. q < k + 1 => M * (q + 1) <= M * (k + 1)
    BY <1>3, MoreTimes
  <2> DEFINE x == M * q  y == M * k  u == M * (q + 1)  v == M * (k + 1)
  <2>2. q < k + 1 => u <= v
    BY <2>1
  <2>3. x \in Nat /\ y \in Nat /\ u = x + M /\ v = y + M /\ a = y + p + M - 1 /\ a < x + M
    BY <1>1, <1>3, <1>4
  <2> HIDE DEF x, y, u, v, a
  <2> QED BY <2>2, <2>3
<1>6. ~ (q > k + 1)
  <2>1. q > k + 1 => M * (k + 1 + 1) <= M * q
    BY <1>3, MoreTimes
  <2>2. M * (k + 1 + 1) = M * (k + 1) + M
    BY OneMoreTime
  <2> DEFINE x == M * q  y == M * k  v == M * (k + 1)  w == M * (k + 1 + 1)
  <2>3. q > k + 1 => w <= x
    BY <2>1
  <2>4. x \in Nat /\ y \in Nat /\ v = y + M /\ w = v + M /\ a = y + p + M - 1 /\ x <= a
    BY <2>2, <1>1, <1>3, <1>4
  <2> HIDE DEF x, y, v, w, a
  <2> QED BY <2>3, <2>4
<1>7. q = k + 1
  BY <1>3, <1>5, <1>6
<1> QED BY <1>7 DEF q

-----------------------------------------------------------------------------
(* Items and their sizes *)

LEMMA HeadItem ==
  ASSUME NEW n \in Nat
  PROVE  <<Piece(Fields, n)>> \in ItemTexts /\ Length(<<Piece(Fields, n)>>) = n
<1>1. Fields \in Whats
  BY WhatsAre
<1>2. Piece(Fields, n) \in Pieces(Whats) /\ Piece(Fields, n).bytes = n
  BY <1>1, PieceIs
<1> QED BY <1>2, LengthOne, ItemTextsAre

LEMMA BusItemFits ==
  ASSUME NEW app \in Range(Datasets), NEW route \in Range(app.routes),
         route_display_label(app, route) # <<>>, NEW room \in Nat, room >= BusRoom
  PROVE  /\ BusItem(app, route, room) \in ItemTexts /\ Length(BusItem(app, route, room)) < room
         /\ route.stops = <<>> =>
              BusItem(app, route, room) = Append(<<Piece(Fields, BusHead(app, route))>>, Piece(Dash, 1))
<1> DEFINE h == BusHead(app, route)
           text == BusItem(app, route, room)
           head == <<Piece(Fields, h)>>
<1>1. h \in Nat
  BY StopNamesAre
<1>2. CASE route.stops # <<>>
  <2>1. BusRows(text, StopPieces(app, route), Len(route.stops), room, h, SizesOf(StopNames(app, route)))
    BY <1>2, BusItemIs
  <2>2. route.stops \in Seq(Named)
    BY StopNamesAre
  <2>3. Len(route.stops) \in Nat
    BY <2>2, LenProperties
  <2> HIDE DEF text
  <2>4. Length(text) < room /\ \E r : Rows(text, StopPieces(app, route), Len(route.stops), r)
    BY <2>1 DEF BusRows
  <2>5. text \in Seq(Pieces(Whats))
    BY <2>3, <2>4, RowsLast
  <2> QED BY <1>2, <2>4, <2>5, ItemTextsAre DEF text
<1>3. CASE route.stops = <<>>
  <2>1. text = str_append(room, head, Dash, 1)
    BY <1>3 DEF BusItem
  <2>2. h + 1 + 1 < BusRoom
    BY <1>3, RoomAssumption
  <2>3. BusRoom \in Nat
    BY SearchAssumption
  <2> HIDE DEF text, h
  <2>4. head \in Seq(Pieces(Whats)) /\ Length(head) = h
    BY <1>1, HeadItem, ItemTextsAre
  <2> HIDE DEF head
  <2>5. Length(head) < room /\ Length(head) + 1 < room /\ 1 \in Nat
    BY <1>1, <2>2, <2>3, <2>4
  <2>6. Dash \in Whats
    BY WhatsAre
  <2>7. str_append(room, head, Dash, 1) = Append(head, Piece(Dash, 1))
    BY <2>4, <2>5, <2>6, StrAppend
  <2>8. str_append(room, head, Dash, 1) \in Seq(Pieces(Whats))
    BY <2>4, <2>5, <2>6, StrAppend
  <2>9. Length(str_append(room, head, Dash, 1)) < room
    BY <2>4, <2>5, <2>6, StrAppend
  <2> QED BY <1>3, <2>1, <2>7, <2>8, <2>9, ItemTextsAre DEF text, head, h
<1> QED BY <1>2, <1>3

LEMMA SizeOfWords ==
  /\ \A u \in DOMAIN Str : Size(<<u>>) \in Nat
  /\ \A u, v \in DOMAIN Str : Size(<<u, v>>) \in Nat
  /\ \A u, v, w \in DOMAIN Str : Size(<<u, v, w>>) \in Nat
  /\ \A u, v, w, x \in DOMAIN Str : Size(<<u, v, w, x>>) \in Nat
<1>1. \A u \in DOMAIN Str : <<u>> \in Seq(DOMAIN Str)
  OBVIOUS
<1>2. \A u, v \in DOMAIN Str : <<u, v>> \in Seq(DOMAIN Str)
  OBVIOUS
<1>3. \A u, v, w \in DOMAIN Str : <<u, v, w>> \in Seq(DOMAIN Str)
  OBVIOUS
<1>4. \A u, v, w, x \in DOMAIN Str : <<u, v, w, x>> \in Seq(DOMAIN Str)
  OBVIOUS
<1> QED BY <1>1, <1>2, <1>3, <1>4, SizesOfWords

LEMMA PlaceItemsAre ==
  /\ \A station \in StationEntries : StationItem(station) \in ItemTexts
  /\ \A facility \in PlaceEntries : FacilityItem(facility) \in ItemTexts
<1>1. ASSUME NEW station \in StationEntries PROVE StationItem(station) \in ItemTexts
  <2> DEFINE a == Size(<<station.id, station.name, station.line>>)
             b == Size(<<station.transfers>>)
             n == a + 3 + (IF station.transfers = Blank THEN 1 ELSE b)
  <2>1. /\ station.id \in DOMAIN Str /\ station.name \in DOMAIN Str
        /\ station.line \in DOMAIN Str /\ station.transfers \in DOMAIN Str
    BY DEF StationEntries, Named
  <2>2. a \in Nat /\ b \in Nat
    BY <2>1, SizeOfWords
  <2> HIDE DEF a, b
  <2>3. n \in Nat
    BY <2>2
  <2> HIDE DEF n
  <2>4. <<Piece(Fields, n)>> \in ItemTexts
    BY <2>3, HeadItem
  <2> QED BY <2>4 DEF StationItem, n, a, b
<1>2. ASSUME NEW facility \in PlaceEntries PROVE FacilityItem(facility) \in ItemTexts
  <2> DEFINE n == Size(<<facility.name, facility.category, facility.node, facility.address>>)
  <2>1. /\ facility.name \in DOMAIN Str /\ facility.category \in DOMAIN Str
        /\ facility.node \in DOMAIN Str /\ facility.address \in DOMAIN Str
    BY DEF PlaceEntries
  <2>2. n \in Nat
    BY <2>1, SizeOfWords
  <2> HIDE DEF n
  <2>3. n + 3 \in Nat
    BY <2>2
  <2>4. <<Piece(Fields, n + 3)>> \in ItemTexts
    BY <2>3, HeadItem
  <2> QED BY <2>4 DEF FacilityItem, n
<1> QED BY <1>1, <1>2

\* An item more, and what it takes.
ItemSizes(list) == [n \in DOMAIN list |-> Length(list[n].text)]

Sized == used = HeaderSize + Total(ItemSizes(items)) + (IF items = <<>> THEN 0 ELSE Len(items) - 1)

Items == [of : Nat, text : ItemTexts]

LEMMA ItemAdded ==
  ASSUME items \in Seq(Items), used \in Nat, Sized,
         NEW n \in Nat, NEW text \in ItemTexts, AddItem(n, text)
  PROVE  /\ items' \in Seq(Items) /\ items' # <<>> /\ Len(items') = Len(items) + 1
         /\ \A i \in 1..Len(items) : items'[i] = items[i]
         /\ items'[Len(items) + 1] = [of |-> n, text |-> text]
         /\ Length(text) \in Nat /\ Separator \in {0, 1}
         /\ used' = used + Separator + Length(text) /\ used' \in Nat /\ Sized'
<1> DEFINE item == [of |-> n, text |-> text]
           a == Append(items, item)
           len == Len(items)
           sizes == ItemSizes(items)
           x == Length(text)
           b == Append(sizes, x)
<1>1. items' = a /\ used' = used + Separator + x
  BY DEF AddItem
<1>2. item \in Items /\ item.text = text
  BY DEF Items
<1> HIDE DEF item
<1>3. /\ a \in Seq(Items) /\ a # <<>> /\ Len(a) = len + 1 /\ len \in Nat
      /\ \A i \in 1..len : a[i] = items[i]
      /\ a[len + 1] = item
  BY <1>2, AppendProperties, LenProperties
<1> HIDE DEF a
<1>4. x \in Nat
  BY ItemTextsAre, LengthInNat
<1>5. ASSUME NEW i \in 1..len PROVE items[i] \in Items /\ items[i].text \in ItemTexts
  <2>1. items[i] \in Items
    BY ElementOfSeq
  <2> QED BY <2>1 DEF Items
<1>6. \A i \in 1..len : Length(items[i].text) \in Nat
  BY <1>5, ItemTextsAre, LengthInNat
<1>7. DOMAIN items = 1..len /\ DOMAIN a = 1..(len + 1)
  BY <1>3, LenProperties
<1>8. /\ sizes \in Seq(Nat) /\ Len(sizes) = len
      /\ \A i \in 1..len : sizes[i] = Length(items[i].text)
  <2>1. sizes = [i \in 1..len |-> Length(items[i].text)]
    BY <1>7 DEF ItemSizes
  <2> HIDE DEF sizes
  <2>2. sizes \in [1..len -> Nat]
    BY <2>1, <1>6
  <2> QED BY <2>1, <2>2, <1>3
<1> HIDE DEF sizes, x
<1>9. /\ b \in Seq(Nat) /\ Len(b) = len + 1
      /\ \A i \in 1..len : b[i] = sizes[i]
      /\ b[len + 1] = x
  BY <1>4, <1>8, AppendProperties
<1>10. ItemSizes(a) = b
  <2>1. ItemSizes(a) = [i \in 1..(len + 1) |-> Length(a[i].text)]
    BY <1>7 DEF ItemSizes
  <2>2. \A i \in 1..(len + 1) : i \in 1..len \/ i = len + 1
    BY <1>3
  <2>3. \A i \in 1..(len + 1) : Length(a[i].text) = b[i]
    BY <2>2, <1>2, <1>3, <1>8, <1>9 DEF x
  <2> HIDE DEF b
  <2>4. b = [i \in 1..(len + 1) |-> b[i]]
    <3>1. b \in [1..(len + 1) -> Nat]
      BY <1>9, LenProperties
    <3> QED BY <3>1
  <2> QED BY <2>1, <2>3, <2>4
<1>11. Total(b) = Total(sizes) + x /\ Total(sizes) \in Nat
  BY <1>4, <1>8, TotalFacts
<1>12. Separator = IF items = <<>> THEN 0 ELSE 1
  BY DEF Separator
<1>13. items = <<>> <=> len = 0
  BY LenZero, EmptySeq
<1>14. used = HeaderSize + Total(sizes) + (IF items = <<>> THEN 0 ELSE len - 1)
  BY DEF Sized, sizes
<1>15. HeaderSize \in Nat
  BY SearchAssumption
<1>16. used' = HeaderSize + (Total(sizes) + x) + ((len + 1) - 1)
  <2> DEFINE c == Total(sizes)
  <2> HIDE DEF c, len
  <2>1. c \in Nat
    BY <1>11 DEF c
  <2>2. used' = used + Separator + x /\ used = HeaderSize + c + (IF items = <<>> THEN 0 ELSE len - 1)
    BY <1>1, <1>14 DEF c
  <2>3. used' = HeaderSize + (c + x) + ((len + 1) - 1)
    <3>1. CASE items = <<>>
      <4>1. Separator = 0 /\ len = 0 /\ used = HeaderSize + c + 0
        BY <3>1, <1>12, <1>13, <2>2
      <4> QED BY <4>1, <2>1, <2>2, <1>4, <1>15
    <3>2. CASE items # <<>>
      <4>1. Separator = 1 /\ used = HeaderSize + c + (len - 1)
        BY <3>2, <1>12, <2>2
      <4> QED BY <4>1, <2>1, <2>2, <1>3, <1>4, <1>15
    <3> QED BY <3>1, <3>2
  <2> QED BY <2>3 DEF c
<1>17. Sized'
  <2>1. Sized' <=> used' = HeaderSize + Total(ItemSizes(items')) + (IF items' = <<>> THEN 0 ELSE Len(items') - 1)
    BY DEF Sized, ItemSizes
  <2> QED BY <2>1, <1>1, <1>3, <1>10, <1>11, <1>16
<1>18. used' \in Nat
  BY <1>1, <1>4, <1>12
<1> HIDE DEF b
<1> QED BY <1>1, <1>3, <1>4, <1>12, <1>17, <1>18 DEF item, x

-----------------------------------------------------------------------------
(* The reader *)

Answers == [bytes : Nat, ended : BOOLEAN]

ReaderInv ==
  /\ line = <<>> \/ line[1] \in Lines
  /\ left \in Nat
  /\ pos \in 0..MaxPacket - 1
  /\ answers \in Seq(Answers)
  /\ BytesAccountedFor
  /\ AnswersEnd
  /\ SaidByLine

LEMMA AnswerMore ==
  ASSUME answers \in Seq(Answers), AnswersEnd, NEW bytes \in Nat, NEW e \in BOOLEAN,
         e \/ bytes = MaxPacket - 1, answers' = Append(answers, Sent(bytes, e))
  PROVE  answers' \in Seq(Answers) /\ AnswersEnd' /\ Len(answers') = Len(answers) + 1
<1> DEFINE s == Sent(bytes, e)
<1>1. s \in Answers /\ s.bytes = bytes /\ s.ended = e
  BY DEF Sent, Answers
<1> HIDE DEF s
<1>2. /\ answers' \in Seq(Answers) /\ Len(answers') = Len(answers) + 1 /\ Len(answers) \in Nat
      /\ \A n \in 1..Len(answers) : answers'[n] = answers[n]
      /\ answers'[Len(answers) + 1] = s
  BY <1>1, AppendProperties, LenProperties DEF s
<1>3. DOMAIN answers = 1..Len(answers) /\ DOMAIN answers' = 1..(Len(answers) + 1)
  BY <1>2, LenProperties
<1>4. ASSUME NEW n \in 1..(Len(answers) + 1)
      PROVE  answers'[n].ended \/ answers'[n].bytes = MaxPacket - 1
  <2>1. n \in 1..Len(answers) \/ n = Len(answers) + 1
    BY <1>2
  <2>2. CASE n \in 1..Len(answers)
    BY <2>2, <1>2, <1>3 DEF AnswersEnd
  <2>3. CASE n = Len(answers) + 1
    BY <2>3, <1>1, <1>2
  <2> QED BY <2>1, <2>2, <2>3
<1> QED BY <1>2, <1>3, <1>4 DEF AnswersEnd

LEMMA AnswersNone ==
  /\ <<>> \in Seq(Answers) /\ Len(<<>>) = 0 /\ DOMAIN <<>> = {}
  /\ MaxPacket \in Nat /\ MaxPacket > 0 /\ MaxPacket * 0 = 0
BY PacketAssumption, EmptySeq

LEMMA RespondKeeps ==
  ASSUME ReaderInv, NEW bytes \in Nat, NEW e \in BOOLEAN, e \/ bytes = MaxPacket - 1,
         Respond(bytes, e)
  PROVE  ReaderInv'
<1> DEFINE len == Len(answers)
           size == line[1].size
<1>1. /\ said # Nothing /\ answers' = Append(answers, Sent(bytes, e)) /\ said' = Nothing
      /\ pos' = 0 /\ line' = line /\ left' = left
  BY DEF Respond
<1>2. /\ line # <<>> /\ left = 0 /\ size = MaxPacket * len + pos /\ pos > 0 /\ line[1] \in Lines
      /\ pos \in 0..MaxPacket - 1 /\ answers \in Seq(Answers) /\ AnswersEnd
  BY <1>1 DEF ReaderInv, BytesAccountedFor, BytesRead
<1>3. answers' \in Seq(Answers) /\ AnswersEnd' /\ Len(answers') = len + 1
  BY <1>1, <1>2, AnswerMore
<1>4. len \in Nat /\ MaxPacket \in Nat /\ MaxPacket > 0 /\ pos \in 1..MaxPacket
  BY <1>2, LenProperties, PacketAssumption
<1>5. Buffers(line[1]) = len + 1
  <2>1. (MaxPacket * len + pos + MaxPacket - 1) \div MaxPacket = len + 1
    BY <1>4, RoundUp
  <2> QED BY <2>1, <1>2 DEF Buffers
<1>6. BytesAccountedFor'
  BY <1>1, <1>2, <1>3, <1>5 DEF BytesAccountedFor, Buffers
<1> QED BY <1>1, <1>2, <1>3, <1>4, <1>6 DEF ReaderInv, SaidByLine

LEMMA ReaderStepKeeps ==
  ASSUME ReaderInv, ReaderStep
  PROVE  ReaderInv'
<1> DEFINE len == Len(answers)
           size == line[1].size
           l == line[1]
           M == MaxPacket
<1>1. ErrorSize \in Nat /\ Nothing \notin {k.says : k \in Lines} \cup {k.rest : k \in Lines}
      /\ \A k \in Lines : k.size \in Nat /\ k.size > 0
  BY ReaderAssumption
<1>2. /\ left \in Nat /\ pos \in 0..M - 1 /\ answers \in Seq(Answers)
      /\ BytesAccountedFor /\ AnswersEnd /\ SaidByLine /\ (line = <<>> \/ l \in Lines)
  BY DEF ReaderInv
<1>3. len \in Nat /\ M \in Nat /\ M > 0 /\ M * len \in Nat /\ M * (len + 1) = M * len + M
  BY <1>2, LenProperties, PacketAssumption, OneMoreTime
<1>4. left > 0 => line # <<>> /\ (said = Nothing => size = M * len + pos + left)
  BY <1>2 DEF BytesAccountedFor, BytesRead
<1>5. CASE SendLine
  <2>1. PICK k \in Lines : line' = <<k>> /\ left' = k.size
    BY <1>5 DEF SendLine
  <2>2. said' = Nothing /\ said = Nothing /\ left = 0 /\ pos' = pos /\ answers' = <<>>
    BY <1>5 DEF SendLine
  <2>3. line' # <<>> /\ line'[1] = k
    BY <2>1
  <2>4. pos = 0
    BY <2>2, <1>2 DEF BytesAccountedFor
  <2>5. M * Len(answers') = 0 /\ answers' \in Seq(Answers) /\ DOMAIN answers' = {}
    BY <2>2, AnswersNone
  <2>6. left' > 0 /\ left' \in Nat /\ line'[1].size = M * Len(answers') + pos' + left'
    BY <2>1, <2>2, <2>3, <2>4, <2>5, <1>1
  <2>7. BytesAccountedFor'
    BY <2>2, <2>3, <2>6 DEF BytesAccountedFor, BytesRead
  <2> QED BY <2>1, <2>2, <2>3, <2>5, <2>6, <2>7, <1>2 DEF ReaderInv, AnswersEnd, SaidByLine
<1>6. CASE ReadByte
  <2>1. /\ said = Nothing /\ left > 1 /\ ~ (pos + 1 >= M) /\ pos' = pos + 1 /\ left' = left - 1
        /\ line' = line /\ said' = said /\ answers' = answers
    BY <1>6 DEF ReadByte, Full
  <2>2. left' \in Nat /\ left' > 0 /\ pos' \in 0..M - 1 /\ size = M * len + pos' + left'
    <3> DEFINE x == M * len
    <3>1. x \in Nat /\ size = x + pos + left
      BY <1>2, <1>3, <1>4, <2>1
    <3> HIDE DEF x, size
    <3>2. left' \in Nat /\ left' > 0 /\ pos' \in 0..M - 1 /\ size = x + pos' + left'
      BY <3>1, <2>1, <1>2, <1>3
    <3> QED BY <3>2 DEF x
  <2>3. BytesAccountedFor'
    BY <2>1, <2>2, <1>2, <1>4 DEF BytesAccountedFor, BytesRead
  <2> QED BY <2>1, <2>2, <2>3, <1>2 DEF ReaderInv, AnswersEnd, SaidByLine
<1>7. CASE ReadNewline
  <2>1. /\ said = Nothing /\ left = 1 /\ ~ (pos + 1 >= M) /\ pos' = pos + 1 /\ left' = 0
        /\ line' = line /\ said' = (IF pos + 1 = size THEN l.says ELSE l.rest) /\ answers' = answers
    BY <1>7 DEF ReadNewline, Full
  <2>2. line # <<>> /\ l \in Lines /\ size = M * len + pos + 1
    BY <2>1, <1>2, <1>4
  <2>3. said' \in {l.says, l.rest} /\ said' # Nothing
    BY <2>1, <2>2, <1>1
  <2>4. pos' > 0 /\ pos' \in 0..M - 1 /\ size = M * len + pos'
    <3> DEFINE x == M * len
    <3>1. x \in Nat /\ size = x + pos + 1
      BY <1>3, <2>2
    <3> HIDE DEF x, size
    <3>2. pos' > 0 /\ pos' \in 0..M - 1 /\ size = x + pos'
      BY <3>1, <2>1, <1>2, <1>3
    <3> QED BY <3>2 DEF x
  <2>5. BytesAccountedFor'
    BY <2>1, <2>2, <2>3, <2>4 DEF BytesAccountedFor, BytesRead
  <2> QED BY <2>1, <2>2, <2>3, <2>4, <2>5, <1>2 DEF ReaderInv, AnswersEnd, SaidByLine
<1>8. CASE ReadTooMuch
  <2>1. /\ said = Nothing /\ left > 0 /\ pos + 1 >= M /\ pos' = 0 /\ left' = left - 1
        /\ line' = line /\ said' = said /\ answers' = Append(answers, Sent(ErrorSize, TRUE))
    BY <1>8 DEF ReadTooMuch, Full
  <2>2. answers' \in Seq(Answers) /\ AnswersEnd' /\ Len(answers') = len + 1
    BY <2>1, <1>1, <1>2, AnswerMore
  <2>3. left' \in Nat /\ size = M * (len + 1) + left'
    <3> DEFINE x == M * len  y == M * (len + 1)
    <3>1. x \in Nat /\ y = x + M /\ size = x + pos + left
      BY <1>3, <1>4, <2>1, <1>2
    <3> HIDE DEF x, y, size
    <3>2. left' \in Nat /\ size = y + left'
      BY <3>1, <2>1, <1>2, <1>3
    <3> QED BY <3>2 DEF y
  <2>4. line # <<>>
    BY <2>1, <1>2, <1>4
  <2>5. /\ line' = line /\ (line' = <<>> \/ line'[1] \in Lines) /\ pos' \in 0..M - 1
        /\ SaidByLine'
    <3>1. 0 \in 0..M - 1
      BY PacketAssumption
    <3> QED BY <3>1, <2>1, <1>2 DEF SaidByLine
  <2>6. CASE left' = 0
    <3>1. Buffers(l) = len + 1
      <4>1. (M * len + M + M - 1) \div M = len + 1
        BY <1>3, RoundUp
      <4>2. size = M * len + M
        BY <2>3, <2>6, <1>3
      <4> QED BY <4>1, <4>2 DEF Buffers
    <3>2. BytesAccountedFor'
      BY <2>1, <2>2, <2>4, <2>6, <3>1 DEF BytesAccountedFor, Buffers
    <3> QED BY <2>2, <2>3, <2>5, <3>2 DEF ReaderInv
  <2>7. CASE left' # 0
    <3>1. left' > 0 /\ size = M * Len(answers') + pos' + left'
      <4>1. M * Len(answers') = M * (len + 1)
        BY <2>2
      <4>2. M * (len + 1) \in Nat
        BY <1>3
      <4> DEFINE y == M * (len + 1)
      <4> HIDE DEF y, size
      <4>3. left' > 0 /\ size = y + pos' + left'
        <5>1. y \in Nat /\ size = y + left'
          BY <2>3, <4>2 DEF y
        <5>2. pos' = 0
          BY <2>1
        <5>3. left' \in Nat /\ left' # 0
          BY <2>3, <2>7
        <5> QED BY <5>1, <5>2, <5>3
      <4> QED BY <4>1, <4>3 DEF y
    <3>2. BytesAccountedFor'
      BY <2>1, <2>4, <3>1 DEF BytesAccountedFor, BytesRead
    <3> QED BY <2>2, <2>3, <2>5, <3>2 DEF ReaderInv
  <2> QED BY <2>6, <2>7
<1>9. CASE Hangup
  <2>1. /\ said = Nothing /\ line' = <<>> /\ left' = 0 /\ pos' = 0 /\ answers' = <<>> /\ said' = said
    BY <1>9 DEF Hangup
  <2> QED BY <2>1, <1>2, <1>3, AnswersNone DEF ReaderInv, BytesAccountedFor, AnswersEnd, SaidByLine
<1> QED BY <1>5, <1>6, <1>7, <1>8, <1>9 DEF ReaderStep

-----------------------------------------------------------------------------
(* Types *)

SearchTypes ==
  /\ town \in DOMAIN Datasets
  /\ pc \in {"idle", "end", "sent"} \cup Services
  /\ pc # "idle" => said # Nothing /\ request = said
  /\ rank \in 1..3
  /\ code \in {OK, NOT_FOUND, INVALID_REQUEST}
  /\ ended \in BOOLEAN
  /\ pc # "idle" => used < MaxPacket
  /\ pc \notin {"idle", "sent"} => Sized
  /\ items \in Seq(Items)
  /\ done \in Nat
  /\ used \in Nat
  /\ pc \notin {"idle", "sent"} => ~Refused(request) /\ code = OK /\ ~ended
  /\ pc \in Services => pc = request.type
  /\ pc # "idle" => request.type \in Services
  /\ pc \in Lookups => items = <<>>
  /\ pc = "sent" => ended \/ used = MaxPacket - 1

TypesInv == ReaderInv /\ SearchTypes

LEMMA TypesInvIs ==
  TypesInv <=> TypeOK /\ Typed /\ BytesAccountedFor /\ AnswersEnd /\ SaidByLine
BY DEF TypesInv, ReaderInv, SearchTypes, TypeOK, Typed, Sized, ItemSizes, Items, Answers

LEMMA PcIs ==
  /\ Services = {"stop", "bus", "subway", "arrival", "crowding", "facility"}
  /\ Services \cap {"idle", "end", "sent"} = {}
  /\ Lookups = {"arrival", "crowding"} /\ Keyworded = {"stop", "bus", "subway"}
BY DEF Services, Lookups, Keyworded

\* The answer grows, or the search ends.
LEMMA SearchGoesOn ==
  ASSUME SearchTypes, pc \notin {"idle", "sent"}, pc' \in {pc, "end"}, pc' \notin Lookups,
         town' = town, request' = request, code' = code, ended' = ended, said' = said,
         rank' \in 1..3, done' \in Nat, items' \in Seq(Items), used' \in Nat, used' < MaxPacket,
         Sized'
  PROVE  SearchTypes'
<1>1. pc' \notin {"idle", "sent"} /\ (pc' \in Services => pc' = request'.type)
  BY PcIs DEF SearchTypes
<1>2. said' # Nothing /\ request' = said' /\ request'.type \in Services
  BY DEF SearchTypes
<1>3. ~Refused(request)' /\ code' = OK /\ ~ended'
  BY DEF SearchTypes, Refused
<1> QED BY <1>1, <1>2, <1>3 DEF SearchTypes

LEMMA NothingAdded ==
  ASSUME items' = items, used' = used, items \in Seq(Items), Sized
  PROVE  items' \in Seq(Items) /\ Sized'
BY DEF Sized, ItemSizes

\* A turn of a loop that adds what there is room for.
LEMMA TurnTypes ==
  ASSUME SearchTypes, pc \in {"stop", "subway", "facility"}, said' = said,
         NEW matches, NEW enough, NEW text, Turn(matches, enough, text),
         matches => text \in ItemTexts,
         matches /\ ~enough => used + Length(text) + 1 < MaxPacket
  PROVE  SearchTypes'
<1>1. /\ pc \notin {"idle", "sent"} /\ pc \notin Lookups /\ done \in Nat /\ used \in Nat
      /\ used < MaxPacket /\ Sized /\ items \in Seq(Items) /\ rank \in 1..3
  BY PcIs DEF SearchTypes
<1>2. /\ town' = town /\ request' = request /\ rank' = rank /\ code' = code /\ ended' = ended
  BY DEF Turn
<1>3. pc' \in {pc, "end"} /\ pc' \notin Lookups
  BY <1>1, PcIs DEF Turn
<1>4. done' \in Nat
  BY <1>1 DEF Turn
<1>5. items' \in Seq(Items) /\ used' \in Nat /\ used' < MaxPacket /\ Sized'
  <2>1. CASE items' = items /\ used' = used
    BY <2>1, <1>1, NothingAdded
  <2>2. CASE matches /\ ~enough /\ AddItem(done + 1, text)
    <3>1. done + 1 \in Nat /\ text \in ItemTexts
      BY <2>2, <1>1
    <3>2. /\ items' \in Seq(Items) /\ used' = used + Separator + Length(text) /\ used' \in Nat /\ Sized'
          /\ Length(text) \in Nat /\ Separator \in {0, 1}
      BY <2>2, <3>1, <1>1, ItemAdded
    <3>3. used + Length(text) + 1 < MaxPacket /\ MaxPacket \in Nat
      BY <2>2, PacketAssumption
    <3> QED BY <3>2, <3>3, <1>1
  <2>3. \/ items' = items /\ used' = used
        \/ matches /\ ~enough /\ AddItem(done + 1, text)
    BY DEF Turn
  <2> QED BY <2>1, <2>2, <2>3
<1> QED BY <1>1, <1>2, <1>3, <1>4, <1>5, SearchGoesOn

LEMMA DataIs ==
  ASSUME SearchTypes
  PROVE  /\ data \in Range(Datasets)
         /\ data.stops \in Seq(StopEntries) /\ data.stations \in Seq(StationEntries)
         /\ data.routes \in Seq(RouteEntries) /\ data.facilities \in Seq(PlaceEntries)
         /\ data.arrivals \in Seq(NoteEntries) /\ data.crowdings \in Seq(NoteEntries)
<1>1. data \in Range(Datasets)
  BY DEF SearchTypes, data, Range
<1> QED BY <1>1, ListsAre

\* The entry of a list that a turn of a loop looks at.
LEMMA NextEntry ==
  ASSUME NEW S, NEW s \in Seq(S), NEW n \in Nat, n < Len(s)
  PROVE  s[n + 1] \in S /\ s[n + 1] \in Range(s) /\ n + 1 \in 1..Len(s) /\ n + 1 \in DOMAIN s
<1>1. n + 1 \in 1..Len(s)
  BY LenProperties
<1> QED BY <1>1, RangeOf, ElementOfSeq

LEMMA ListTurnTypes ==
  ASSUME SearchTypes, handle_stop_search \/ handle_subway_search \/ handle_facility, said' = said
  PROVE  SearchTypes'
<1>1. done \in Nat /\ used \in Nat /\ MaxPacket \in Nat
  BY PacketAssumption DEF SearchTypes
<1>2. CASE handle_stop_search
  <2> DEFINE stop == data.stops[done + 1]
             text == StopItem(data, stop)
  <2>1. pc = "stop" /\ done < Len(data.stops) /\ Turn(StopMatches(stop), StopsAreEnough(stop), text)
    BY <1>2 DEF handle_stop_search
  <2>2. stop \in StopEntries /\ data \in Range(Datasets)
    BY <2>1, <1>1, DataIs, NextEntry
  <2>3. text \in ItemTexts
    BY <2>2, StopItemIs, ItemTextsAre
  <2>4. ~StopsAreEnough(stop) => used + Length(text) + 1 < MaxPacket
    <3>1. Length(text) \in Nat
      BY <2>3, ItemTextsAre, LengthInNat
    <3>2. ~StopsAreEnough(stop) => ~ (used + Length(text) + 2 >= MaxPacket)
      BY DEF StopsAreEnough
    <3> HIDE DEF text
    <3> QED BY <3>1, <3>2, <1>1
  <2> HIDE DEF text, stop
  <2> QED BY <2>1, <2>3, <2>4, TurnTypes
<1>3. CASE handle_subway_search
  <2> DEFINE station == data.stations[done + 1]
             text == StationItem(station)
             enough == used + StationRoom >= MaxPacket \/ Len(items) >= MaxStations
  <2>1. pc = "subway" /\ done < Len(data.stations) /\ Turn(StationMatches(station), enough, text)
    BY <1>3 DEF handle_subway_search
  <2>2. station \in StationEntries /\ data \in Range(Datasets) /\ station \in Range(data.stations)
    BY <2>1, <1>1, DataIs, NextEntry
  <2>3. text \in ItemTexts
    BY <2>2, PlaceItemsAre
  <2>4. ~enough => used + Length(text) + 1 < MaxPacket
    <3>1. Length(text) \in Nat
      BY <2>3, ItemTextsAre, LengthInNat
    <3>2. Length(text) < StationRoom /\ StationRoom \in Nat
      BY <2>2, RoomAssumption, SearchAssumption
    <3>3. ~enough => ~ (used + StationRoom >= MaxPacket)
      OBVIOUS
    <3> HIDE DEF text, enough
    <3> QED BY <3>1, <3>2, <3>3, <1>1
  <2> HIDE DEF text, station, enough
  <2> QED BY <2>1, <2>3, <2>4, TurnTypes
<1>4. CASE handle_facility
  <2> DEFINE facility == data.facilities[done + 1]
             text == FacilityItem(facility)
             enough == used + Length(text) + 13 >= MaxPacket \/ Len(items) >= MaxFacilities
  <2>1. pc = "facility" /\ done < Len(data.facilities) /\ Turn(FacilityMatches(facility), enough, text)
    BY <1>4 DEF handle_facility
  <2>2. facility \in PlaceEntries
    BY <2>1, <1>1, DataIs, NextEntry
  <2>3. text \in ItemTexts
    BY <2>2, PlaceItemsAre
  <2>4. ~enough => used + Length(text) + 1 < MaxPacket
    <3>1. Length(text) \in Nat
      BY <2>3, ItemTextsAre, LengthInNat
    <3>2. ~enough => ~ (used + Length(text) + 13 >= MaxPacket)
      OBVIOUS
    <3> HIDE DEF text, enough
    <3> QED BY <3>1, <3>2, <1>1
  <2> HIDE DEF text, facility, enough
  <2> QED BY <2>1, <2>3, <2>4, TurnTypes
<1> QED BY <1>2, <1>3, <1>4

LEMMA BusTypes ==
  ASSUME SearchTypes, BusTurn \/ BusRank, said' = said
  PROVE  SearchTypes'
<1>1. /\ pc = "bus" /\ pc \notin {"idle", "sent"} /\ done \in Nat /\ used \in Nat /\ rank \in 1..3
      /\ used < MaxPacket /\ Sized /\ items \in Seq(Items)
      /\ MaxPacket \in Nat
  BY PacketAssumption DEF SearchTypes, BusTurn, BusRank
<1>2. "bus" \notin Lookups /\ "end" \notin Lookups
  BY PcIs
<1>3. CASE BusRank
  <2>1. /\ town' = town /\ request' = request /\ code' = code /\ ended' = ended
        /\ items' = items /\ used' = used
        /\ \/ rank < 3 /\ rank' = rank + 1 /\ done' = 0 /\ pc' = pc
           \/ pc' = "end" /\ rank' = rank /\ done' = done
    BY <1>3 DEF BusRank
  <2>2. rank' \in 1..3 /\ done' \in Nat
    BY <2>1, <1>1
  <2>3. items' \in Seq(Items) /\ Sized'
    BY <2>1, <1>1, NothingAdded
  <2> QED BY <2>1, <2>2, <2>3, <1>1, <1>2, SearchGoesOn
<1>4. CASE BusTurn
  <2> DEFINE route == data.routes[done + 1]
             room == MaxPacket - used - Separator
             text == BusItem(data, route, room)
  <2>1. /\ done < Len(data.routes)
        /\ town' = town /\ request' = request /\ code' = code /\ ended' = ended
        /\ pc' = pc /\ rank' = rank
    BY <1>4 DEF BusTurn
  <2>2. /\ done' \in {done + 1, Len(data.routes)}
        /\ \/ items' = items /\ used' = used
           \/ ~IsSeen(route) /\ ~BusesAreEnough /\ AddItem(done + 1, text)
    BY <1>4 DEF BusTurn
  <2>3. data.routes \in Seq(RouteEntries) /\ data \in Range(Datasets)
    BY DataIs
  <2>4. Len(data.routes) \in Nat /\ route \in Range(data.routes)
    BY <2>1, <2>3, <1>1, NextEntry, LenProperties
  <2>5. done' \in Nat
    BY <2>2, <2>4, <1>1
  <2>6. CASE items' = items /\ used' = used
    <3>1. items' \in Seq(Items) /\ Sized'
      BY <2>6, <1>1, NothingAdded
    <3> QED BY <2>1, <2>5, <2>6, <3>1, <1>1, <1>2, SearchGoesOn
  <2>7. CASE ~IsSeen(route) /\ ~BusesAreEnough /\ AddItem(done + 1, text)
    <3>1. route_display_label(data, route) # <<>>
      BY <2>7 DEF IsSeen
    <3>2. Separator \in {0, 1} /\ BusRoom \in Nat
      BY SearchAssumption DEF Separator
    <3>3. ~ (used + BusRoom >= MaxPacket)
      BY <2>7 DEF BusesAreEnough
    <3>4. room \in Nat /\ room >= BusRoom
      BY <3>2, <3>3, <1>1
    <3> HIDE DEF room
    <3>5. text \in ItemTexts /\ Length(text) < room
      BY <2>3, <2>4, <3>1, <3>4, BusItemFits
    <3> HIDE DEF text, route
    <3>6. done + 1 \in Nat
      BY <1>1
    <3>7. /\ items' \in Seq(Items) /\ used' = used + Separator + Length(text) /\ used' \in Nat /\ Sized'
          /\ Length(text) \in Nat
      BY <2>7, <3>5, <3>6, <1>1, ItemAdded
    <3>8. used' < MaxPacket
      BY <3>2, <3>5, <3>7, <1>1 DEF room
    <3> QED BY <2>1, <2>5, <3>7, <3>8, <1>1, <1>2, SearchGoesOn
  <2> QED BY <2>2, <2>6, <2>7
<1> QED BY <1>3, <1>4

LEMMA LookUpTypes ==
  ASSUME SearchTypes, SaidByLine, line = <<>> \/ line[1] \in Lines,
         handle_arrival \/ handle_crowding, said' = said
  PROVE  SearchTypes'
<1> DEFINE kw == request.words
           name == find_node_name_by_id(data, kw[1])
           text == <<Piece(Fields, Size(<<kw[2], name>>) + NoteSize + 2)>>
           s == Size(<<kw[2], name>>)
<1>1. /\ pc \in Lookups /\ pc \notin {"idle", "sent"} /\ items = <<>> /\ used \in Nat /\ Sized
      /\ used < MaxPacket /\ items \in Seq(Items) /\ rank \in 1..3 /\ done \in Nat /\ pc = request.type
      /\ request = said /\ said # Nothing /\ ~Refused(request)
  BY PcIs DEF SearchTypes, handle_arrival, handle_crowding
<1>2. kw \in Seq(DOMAIN Str) /\ Len(kw) = 3
  <2>1. request \in {line[1].says, line[1].rest} /\ line[1] \in Lines
    BY <1>1 DEF SaidByLine
  <2>2. kw \in Seq(DOMAIN Str)
    BY <2>1, ConversationAssumption
  <2>3. Len(kw) = 3
    BY <1>1 DEF Refused
  <2> QED BY <2>2, <2>3
<1>3. kw[1] \in DOMAIN Str /\ kw[2] \in DOMAIN Str
  BY <1>2, ElementOfSeq
<1>4. data \in Range(Datasets) /\ data.arrivals \in Seq(NoteEntries) /\ data.crowdings \in Seq(NoteEntries)
  BY DataIs
<1>5. name \in DOMAIN Str
  BY <1>3, <1>4, NameIs
<1>6. s \in Nat /\ s = Str[kw[2]].size + Str[name].size
  BY <1>3, <1>5, SizeOfWords, SizeOfOneOrTwo
<1>7. NoteSize \in Nat /\ HeaderSize \in Nat /\ MaxPacket \in Nat
  BY SearchAssumption, PacketAssumption
<1>8. HeaderSize + s + NoteSize + 2 < MaxPacket
  <2>1. HeaderSize + Str[kw[2]].size + Str[name].size + NoteSize + 2 < MaxPacket
    BY <1>3, <1>5, RoomAssumption
  <2>2. Str[kw[2]].size \in Nat /\ Str[name].size \in Nat
    BY <1>3, <1>5, StringsAssumption
  <2> DEFINE x == Str[kw[2]].size  y == Str[name].size
  <2>3. HeaderSize + x + y + NoteSize + 2 < MaxPacket /\ x \in Nat /\ y \in Nat /\ s = x + y
    BY <2>1, <2>2, <1>6
  <2> HIDE DEF x, y, s
  <2> QED BY <2>3, <1>7
<1>9. text \in ItemTexts /\ Length(text) = s + NoteSize + 2
  <2>1. s + NoteSize + 2 \in Nat
    BY <1>6, <1>7
  <2> HIDE DEF s
  <2>2. <<Piece(Fields, s + NoteSize + 2)>> \in ItemTexts
        /\ Length(<<Piece(Fields, s + NoteSize + 2)>>) = s + NoteSize + 2
    BY <2>1, HeadItem
  <2> QED BY <2>2 DEF s
<1>10. used = HeaderSize
  <2>1. ItemSizes(items) = <<>>
    <3>1. ItemSizes(<<>>) = [n \in {} |-> Length(<<>>[n].text)]
      BY DEF ItemSizes
    <3> QED BY <3>1, <1>1, EmptySeq
  <2>2. used = HeaderSize + 0 + 0
    BY <2>1, <1>1, TotalFacts DEF Sized
  <2> QED BY <2>2, <1>7
<1>11. PICK notes : notes \in Seq(NoteEntries) /\ LookUp(notes)
  BY <1>4 DEF handle_arrival, handle_crowding
<1>12. /\ pc' = "end" /\ town' = town /\ request' = request /\ rank' = rank /\ done' = done
       /\ code' = code /\ ended' = ended
       /\ \/ items' = items /\ used' = used
          \/ Found(notes) # 0 /\ AddItem(Found(notes), text)
  BY <1>11 DEF LookUp
<1>13. "end" \notin Lookups
  BY PcIs
<1>14. CASE items' = items /\ used' = used
  <2>1. items' \in Seq(Items) /\ Sized'
    BY <1>1, <1>14, NothingAdded
  <2> QED BY <2>1, <1>1, <1>12, <1>13, <1>14, SearchGoesOn
<1>15. CASE Found(notes) # 0 /\ AddItem(Found(notes), text)
  <2>1. Found(notes) \in Nat
    <3>1. DOMAIN notes = 1..Len(notes) /\ Len(notes) \in Nat
      BY <1>11, LenProperties
    <3> DEFINE M == {i \in 1..Len(notes) : <<notes[i].node, notes[i].route, notes[i].slot>> = request.words}
    <3>2. Found(notes) = IF M # {} THEN Min(M) ELSE 0
      BY DEF Found, SelectInSeq
    <3>3. M \subseteq Nat
      BY <3>1
    <3>4. M # {} => Min(M) \in M
      BY <3>3, LeastNumber
    <3> HIDE DEF M
    <3>5. CASE M # {}
      <4>1. Found(notes) \in M
        BY <3>2, <3>4, <3>5
      <4> QED BY <4>1, <3>3
    <3>6. CASE M = {}
      <4>1. Found(notes) = 0
        BY <3>2, <3>6
      <4> QED BY <4>1
    <3> QED BY <3>5, <3>6
  <2> HIDE DEF text, s
  <2>2. /\ items' \in Seq(Items) /\ used' = used + Separator + Length(text) /\ used' \in Nat /\ Sized'
    BY <2>1, <1>1, <1>9, <1>15, ItemAdded
  <2>3. Separator = 0
    BY <1>1 DEF Separator
  <2>4. used' < MaxPacket
    BY <2>2, <2>3, <1>6, <1>7, <1>8, <1>9, <1>10
  <2> QED BY <2>2, <2>4, <1>1, <1>12, <1>13, SearchGoesOn
<1> QED BY <1>12, <1>14, <1>15

LEMMA EndTypes ==
  ASSUME SearchTypes, ListEnd \/ Finish, said' = said
  PROVE  SearchTypes'
<1>1. /\ pc \notin {"idle", "sent"} /\ used \in Nat /\ used < MaxPacket /\ items \in Seq(Items)
      /\ rank \in 1..3 /\ done \in Nat /\ Sized /\ MaxPacket \in Nat
  BY PcIs, PacketAssumption DEF SearchTypes, ListEnd, Finish
<1>2. CASE ListEnd
  <2>1. /\ pc' = "end" /\ town' = town /\ request' = request /\ code' = code /\ ended' = ended
        /\ items' = items /\ used' = used /\ rank' = rank /\ done' = done
    BY <1>2 DEF ListEnd
  <2>2. items' \in Seq(Items) /\ Sized'
    BY <2>1, <1>1, NothingAdded
  <2>3. "end" \notin Lookups
    BY PcIs
  <2> QED BY <2>1, <2>2, <2>3, <1>1, SearchGoesOn
<1>3. CASE Finish
  <2>1. /\ pc' = "sent" /\ town' = town /\ request' = request /\ items' = items
        /\ rank' = rank /\ done' = done
        /\ code' = (IF items = <<>> THEN NOT_FOUND ELSE OK)
        /\ ended' = Fits(MaxPacket, used, 1)
        /\ used' = IF Fits(MaxPacket, used, 1) THEN used + 1 ELSE used
    BY <1>3 DEF Finish
  <2>2. Fits(MaxPacket, used, 1) <=> used + 1 + 1 <= MaxPacket
    BY DEF Fits
  <2>3. used' \in Nat /\ used' < MaxPacket /\ (ended' \/ used' = MaxPacket - 1)
    BY <2>1, <2>2, <1>1
  <2>4. ended' \in BOOLEAN /\ code' \in {OK, NOT_FOUND, INVALID_REQUEST}
    BY <2>1 DEF Fits
  <2>5. request'.type \in Services /\ request' = said' /\ said' # Nothing
    BY <2>1, <1>1 DEF SearchTypes
  <2>6. "sent" \notin Services /\ "sent" \notin Lookups
    BY PcIs
  <2> QED BY <2>1, <2>3, <2>4, <2>5, <2>6, <1>1 DEF SearchTypes
<1> QED BY <1>2, <1>3

LEMMA BeginTypes ==
  ASSUME SearchTypes, said # Nothing, said.type \in Services, Begin(said), said' = said
  PROVE  SearchTypes'
<1>1. /\ request' = said /\ pc' = (IF Refused(said) THEN "sent" ELSE said.type)
      /\ code' = (IF Refused(said) THEN INVALID_REQUEST ELSE OK)
      /\ used' = HeaderSize + (IF Refused(said) THEN 1 ELSE 0)
      /\ ended' = Refused(said)
      /\ rank' = 1 /\ done' = 0 /\ items' = <<>> /\ town' = town
  BY DEF Begin
<1>2. HeaderSize \in Nat /\ HeaderSize + 1 < MaxPacket /\ MaxPacket \in Nat
  BY SearchAssumption, PacketAssumption
<1>3. items' \in Seq(Items) /\ ItemSizes(<<>>) = <<>>
  <2>1. ItemSizes(<<>>) = [n \in {} |-> Length(<<>>[n].text)]
    BY DEF ItemSizes
  <2> QED BY <2>1, <1>1, EmptySeq
<1>4. Refused(said) \in BOOLEAN
  BY DEF Refused
<1>5. used' \in Nat /\ used' < MaxPacket
  BY <1>1, <1>2
<1>6. ~Refused(said) => Sized'
  <2>1. Sized' <=> used' = HeaderSize + Total(ItemSizes(items')) + (IF items' = <<>> THEN 0 ELSE Len(items') - 1)
    BY DEF Sized, ItemSizes
  <2>2. ~Refused(said) => used' = HeaderSize + 0 + 0
    BY <1>1, <1>2
  <2> QED BY <2>1, <2>2, <1>1, <1>3, TotalFacts
<1>7. ~Refused(said) => ~Refused(request)' /\ code' = OK /\ ~ended'
  BY <1>1 DEF Refused
<1>8. pc' \in {"sent", said.type} /\ (pc' = "sent" <=> Refused(said)) /\ pc' # "idle"
  BY <1>1, PcIs
<1>9. code' \in {OK, NOT_FOUND, INVALID_REQUEST} /\ ended' \in BOOLEAN
  BY <1>1, <1>4
<1>10. rank' \in 1..3 /\ done' \in Nat /\ town' \in DOMAIN Datasets
  BY <1>1 DEF SearchTypes
<1>11. pc' \in Services => pc' = request'.type
  BY <1>1, <1>8, PcIs
<1>12. pc' \in {"idle", "end", "sent"} \cup Services /\ request'.type \in Services
  BY <1>1, <1>8
<1>13. pc' = "sent" => ended'
  BY <1>1, <1>8
<1>14. pc' \notin {"idle", "sent"} => Sized' /\ ~Refused(request)' /\ code' = OK /\ ~ended'
  BY <1>6, <1>7, <1>8
<1> QED BY <1>1, <1>3, <1>5, <1>9, <1>10, <1>11, <1>12, <1>13, <1>14 DEF SearchTypes

LEMMA ServiceTypes ==
  ASSUME TypesInv, ServiceStep, said' = said
  PROVE  SearchTypes'
<1>1. SearchTypes /\ SaidByLine /\ (line = <<>> \/ line[1] \in Lines)
  BY DEF TypesInv, ReaderInv
<1> QED BY <1>1, ListTurnTypes, BusTypes, LookUpTypes, EndTypes DEF ServiceStep

LEMMA InitTypes ==
  ASSUME Init
  PROVE  TypesInv
<1>1. MaxPacket \in Nat /\ MaxPacket > 0 /\ 0 \in 0..MaxPacket - 1
  BY PacketAssumption
<1>2. /\ line = <<>> /\ left = 0 /\ pos = 0 /\ said = Nothing /\ answers = <<>>
      /\ town \in DOMAIN Datasets /\ pc = "idle" /\ rank = 1 /\ done = 0 /\ code = OK
      /\ items = <<>> /\ used = 0 /\ ended = FALSE
  BY DEF Init, ReaderInit, SearchInit
<1>3. ReaderInv
  BY <1>1, <1>2, AnswersNone DEF ReaderInv, BytesAccountedFor, AnswersEnd, SaidByLine
<1>4. "idle" \notin Services /\ "idle" \notin Lookups
  BY PcIs
<1>5. items \in Seq(Items) /\ rank \in 1..3 /\ done \in Nat /\ used \in Nat
  BY <1>2
<1> QED BY <1>2, <1>3, <1>4, <1>5 DEF TypesInv, SearchTypes

LEMMA NextTypes ==
  ASSUME TypesInv, [Next]_vars
  PROVE  TypesInv'
<1>1. ReaderInv /\ SearchTypes
  BY DEF TypesInv
\* The steps that leave the search alone.
<1>2. ASSUME searchVars' = searchVars, pc = "idle" \/ said' = said
      PROVE  SearchTypes'
  <2>1. /\ town' = town /\ request' = request /\ pc' = pc /\ rank' = rank /\ done' = done
        /\ code' = code /\ items' = items /\ used' = used /\ ended' = ended
    BY <1>2 DEF searchVars
  <2>2. Sized' <=> Sized
    BY <2>1 DEF Sized, ItemSizes
  <2>3. Refused(request)' <=> Refused(request)
    BY <2>1 DEF Refused
  <2> QED BY <1>1, <1>2, <2>1, <2>2, <2>3 DEF SearchTypes
<1>3. ASSUME readerVars' = readerVars PROVE ReaderInv'
  <2>1. line' = line /\ left' = left /\ pos' = pos /\ said' = said /\ answers' = answers
    BY <1>3 DEF readerVars
  <2> QED BY <1>1, <2>1
          DEF ReaderInv, BytesAccountedFor, BytesRead, Buffers, AnswersEnd, SaidByLine
<1>4. CASE Read
  <2>1. pc = "idle" /\ ReaderStep /\ searchVars' = searchVars
    BY <1>4 DEF Read
  <2>2. ReaderInv'
    BY <2>1, <1>1, ReaderStepKeeps
  <2> QED BY <2>1, <2>2, <1>2 DEF TypesInv
<1>5. CASE Route
  <2>1. said # Nothing /\ said.type \in Services /\ Begin(said) /\ readerVars' = readerVars
    BY <1>5 DEF Route
  <2>2. said' = said
    BY <2>1 DEF readerVars
  <2>3. SearchTypes'
    BY <2>1, <2>2, <1>1, BeginTypes
  <2> QED BY <2>1, <2>3, <1>3 DEF TypesInv
<1>6. CASE Greet
  <2> DEFINE bytes == IF said.type \in DOMAIN Greetings THEN Greetings[said.type] ELSE ErrorSize
  <2>1. pc = "idle" /\ Respond(bytes, TRUE) /\ searchVars' = searchVars
    BY <1>6 DEF Greet
  <2>2. bytes \in Nat
    <3>1. \A g \in DOMAIN Greetings : Greetings[g] \in Nat
      BY ConversationAssumption, PacketAssumption
    <3> QED BY <3>1, ReaderAssumption
  <2> HIDE DEF bytes
  <2>3. ReaderInv'
    BY <2>1, <2>2, <1>1, RespondKeeps
  <2> QED BY <2>1, <2>3, <1>2 DEF TypesInv
<1>7. CASE Serve
  <2>1. ServiceStep /\ readerVars' = readerVars
    BY <1>7 DEF Serve
  <2>2. said' = said
    BY <2>1 DEF readerVars
  <2>3. SearchTypes'
    BY <2>1, <2>2, ServiceTypes
  <2> QED BY <2>1, <2>3, <1>3 DEF TypesInv
<1>8. CASE Reply
  <2>1. pc = "sent" /\ Respond(used, ended) /\ View
    BY <1>8 DEF Reply
  <2>2. used \in Nat /\ ended \in BOOLEAN /\ (ended \/ used = MaxPacket - 1)
    BY <2>1, <1>1 DEF SearchTypes
  <2>3. ReaderInv'
    BY <2>1, <2>2, <1>1, RespondKeeps
  <2>4. /\ pc' = "idle" /\ town' = town /\ request' = request /\ rank' = rank /\ done' = done
        /\ code' = code /\ items' = items /\ used' = used /\ ended' = ended
    BY <2>1 DEF View
  <2>5. "idle" \notin Services /\ "idle" \notin Lookups
    BY PcIs
  <2> QED BY <2>3, <2>4, <2>5, <1>1 DEF TypesInv, SearchTypes
<1>9. CASE UNCHANGED vars
  <2>1. searchVars' = searchVars /\ readerVars' = readerVars
    BY <1>9 DEF vars
  <2>2. said' = said
    BY <2>1 DEF readerVars
  <2> QED BY <2>1, <2>2, <1>2, <1>3 DEF TypesInv
<1> QED BY <1>4, <1>5, <1>6, <1>7, <1>8, <1>9 DEF Next

\* The reader has accounted for every byte of the lines sent, every answer so far has its
\* newline or fills the buffer, and the services work with what they should
\* (client_handler.c:22-54, search_service.c:514-792): the invariant that the other proofs
\* start from.
THEOREM TypesAlways == Spec => []TypesInv
<1>1. Init => TypesInv
  BY InitTypes
<1>2. TypesInv /\ [Next]_vars => TypesInv'
  BY NextTypes
<1> QED BY <1>1, <1>2, PTL DEF Spec

\* Every search works within the size of its answer: what is in the buffer is the header,
\* the items and what is between them, there is always room for the terminating 0, and no
\* service is at work on anything but the request that was read.
THEOREM ConversationTypes == Spec => []TypeOK
<1>1. TypesInv => TypeOK
  BY TypesInvIs
<1> QED BY <1>1, TypesAlways, PTL

\* However the bytes of a line come in, and however often the buffer is full within it:
\* a line has one answer, and one more for each buffer it fills.
THEOREM AnswersMatchLines == Spec => []OneAnswerPerLine
<1>1. TypesInv => OneAnswerPerLine
  BY DEF TypesInv, ReaderInv, BytesAccountedFor, AnswersEnd, OneAnswerPerLine
<1> QED BY <1>1, TypesAlways, PTL

-----------------------------------------------------------------------------
(* What is found *)

\* What matches depends on the request and the data only.
LEMMA SameSearch ==
  ASSUME town' = town, request' = request
  PROVE  /\ data' = data
         /\ MatchingStops' = MatchingStops /\ StopNeeds' = StopNeeds
         /\ MatchingStations' = MatchingStations /\ StationNeeds' = StationNeeds
         /\ MatchingFacilities' = MatchingFacilities /\ FacilityNeeds' = FacilityNeeds
         /\ WantedBuses' = WantedBuses
<1>1. data' = data
  BY DEF data
<1>2. MatchingStops' = MatchingStops /\ StopNeeds' = StopNeeds
  BY <1>1 DEF MatchingStops, StopNeeds, StopMatches
<1>3. MatchingStations' = MatchingStations /\ StationNeeds' = StationNeeds
  BY <1>1 DEF MatchingStations, StationNeeds, StationMatches
<1>4. MatchingFacilities' = MatchingFacilities /\ FacilityNeeds' = FacilityNeeds
  BY <1>1 DEF MatchingFacilities, FacilityNeeds, FacilityMatches
<1>5. WantedBuses' = WantedBuses
  BY <1>1 DEF WantedBuses, RankOf
<1> QED BY <1>1, <1>2, <1>3, <1>4, <1>5

LEMMA SameBuses ==
  ASSUME town' = town, request' = request, NEW m, NEW n
  PROVE  /\ RankOf(n)' = RankOf(n)
         /\ Before(m, n)' <=> Before(m, n)
         /\ LookAlike(m, n)' <=> LookAlike(m, n)
         /\ BusKey(data, data.routes[n])' = BusKey(data, data.routes[n])
<1>1. data' = data
  BY DEF data
<1>2. RankOf(n)' = RankOf(n) /\ RankOf(m)' = RankOf(m)
  BY <1>1 DEF RankOf
<1>3. Before(m, n)' <=> Before(m, n)
  BY <1>2 DEF Before
<1> QED BY <1>1, <1>2, <1>3 DEF LookAlike

\* The entries of the items, one more, or none.
LEMMA ListedMore ==
  ASSUME items \in Seq(Items), items' \in Seq(Items), NEW n, NEW text,
         Len(items') = Len(items) + 1, \A i \in 1..Len(items) : items'[i] = items[i],
         items'[Len(items) + 1] = [of |-> n, text |-> text]
  PROVE  /\ Listed' = Listed \cup {n}
         /\ \A i \in DOMAIN items' : \/ i \in DOMAIN items /\ items'[i] = items[i]
                                     \/ i = Len(items) + 1 /\ items'[i].of = n /\ items'[i].text = text
         /\ DOMAIN items = 1..Len(items) /\ DOMAIN items' = 1..(Len(items) + 1) /\ Len(items) \in Nat
<1> DEFINE len == Len(items)
<1>1. DOMAIN items = 1..len /\ DOMAIN items' = 1..(len + 1) /\ len \in Nat
  BY LenProperties
<1>2. ASSUME NEW i \in 1..(len + 1)
      PROVE  \/ i \in 1..len /\ items'[i] = items[i]
             \/ i = len + 1 /\ items'[i].of = n /\ items'[i].text = text
  <2>1. i \in 1..len \/ i = len + 1
    BY <1>1
  <2> QED BY <2>1
<1>3. \A i \in 1..len : i \in 1..(len + 1)
  BY <1>1
<1>4. len + 1 \in 1..(len + 1)
  BY <1>1
<1>5. Listed' = {items'[i].of : i \in 1..(len + 1)} /\ Listed = {items[i].of : i \in 1..len}
  BY <1>1 DEF Listed
<1>6. Listed' = Listed \cup {n}
  <2> HIDE DEF len
  <2>1. Listed' \subseteq Listed \cup {n}
    BY <1>2, <1>5
  <2>2. Listed \subseteq Listed'
    BY <1>3, <1>5 DEF len
  <2>3. n \in Listed'
    <3>1. items'[len + 1].of = n
      BY DEF len
    <3> QED BY <3>1, <1>4, <1>5
  <2> QED BY <2>1, <2>2, <2>3
<1> QED BY <1>1, <1>2, <1>6

\* A turn of a loop over a list, which adds what matches until it is enough.
LEMMA FirstTurn ==
  ASSUME NEW M, NEW limit \in Nat, NEW needs, ListsTheFirst(M, limit, needs),
         SearchTypes, pc \notin {"idle", "end", "sent"},
         NEW matches, NEW enough, NEW text, Turn(matches, enough, text),
         matches <=> done + 1 \in M, matches => text \in ItemTexts,
         enough => Len(items) >= limit \/ ~Fits(MaxPacket, used, needs[done + 1]),
         ~enough => Len(items) < limit
  PROVE  /\ ListsTheFirst(M, limit, needs)'
         /\ \A i \in DOMAIN items' : \/ i \in DOMAIN items /\ items'[i] = items[i]
                                     \/ items'[i].of = done + 1 /\ items'[i].text = text
<1>1. /\ items \in Seq(Items) /\ done \in Nat /\ used \in Nat /\ ~ended /\ Sized
      /\ Len(items) \in Nat
  BY LenProperties DEF SearchTypes
<1>2. /\ Listed = M \cap 1..done /\ InListOrder /\ Len(items) <= limit
  BY DEF ListsTheFirst
<1>3. ended' = ended
  BY DEF Turn
<1>4. CASE ~matches /\ done' = done + 1 /\ pc' = pc /\ items' = items /\ used' = used
  <2>1. Listed' = Listed /\ (InListOrder' <=> InListOrder)
    BY <1>4 DEF Listed, InListOrder
  <2>2. M \cap 1..done = M \cap 1..(done + 1)
    <3>1. \A i : i \in 1..(done + 1) <=> i \in 1..done \/ i = done + 1
      BY <1>1
    <3> QED BY <3>1, <1>4
  <2> QED BY <2>1, <2>2, <1>2, <1>4 DEF ListsTheFirst
<1>5. CASE matches /\ enough /\ pc' = "end" /\ done' = done /\ items' = items /\ used' = used
  <2>1. Listed' = Listed /\ (InListOrder' <=> InListOrder)
    BY <1>5 DEF Listed, InListOrder
  <2>2. Body' = used
    BY <1>1, <1>3, <1>5 DEF Body
  <2>3. Len(items) = limit \/ ~Fits(MaxPacket, Body', needs[done + 1])
    BY <2>2, <1>1, <1>2, <1>5
  <2> QED BY <2>1, <2>3, <1>2, <1>5 DEF ListsTheFirst
<1>6. CASE matches /\ ~enough /\ AddItem(done + 1, text) /\ done' = done + 1 /\ pc' = pc
  <2>1. done + 1 \in Nat /\ text \in ItemTexts /\ done + 1 \in M
    BY <1>1, <1>6
  <2>2. /\ items' \in Seq(Items) /\ Len(items') = Len(items) + 1
        /\ \A i \in 1..Len(items) : items'[i] = items[i]
        /\ items'[Len(items) + 1] = [of |-> done + 1, text |-> text]
    BY <2>1, <1>1, <1>6, ItemAdded
  <2>3. /\ Listed' = Listed \cup {done + 1}
        /\ \A i \in DOMAIN items' : \/ i \in DOMAIN items /\ items'[i] = items[i]
                                    \/ i = Len(items) + 1 /\ items'[i].of = done + 1 /\ items'[i].text = text
        /\ DOMAIN items = 1..Len(items) /\ DOMAIN items' = 1..(Len(items) + 1)
    BY <2>2, <1>1, ListedMore
  <2>4. Listed' = M \cap 1..(done + 1)
    <3>1. \A i : i \in 1..(done + 1) <=> i \in 1..done \/ i = done + 1
      BY <1>1
    <3> QED BY <3>1, <2>1, <2>3, <1>2
  <2>5. InListOrder'
    <3>1. ASSUME NEW m \in DOMAIN items', NEW n \in DOMAIN items', m < n
          PROVE  items'[m].of < items'[n].of
      <4>1. m \in DOMAIN items /\ items'[m] = items[m]
        BY <3>1, <2>3, <1>1
      <4>2. CASE n \in DOMAIN items /\ items'[n] = items[n]
        BY <3>1, <4>1, <4>2, <1>2 DEF InListOrder
      <4>3. CASE n = Len(items) + 1 /\ items'[n].of = done + 1
        <5>1. items[m].of \in Listed
          BY <4>1 DEF Listed
        <5>2. items[m].of \in 1..done
          BY <5>1, <1>2
        <5> QED BY <5>2, <4>1, <4>3, <1>1
      <4> QED BY <4>2, <4>3, <2>3
    <3> QED BY <3>1 DEF InListOrder
  <2>6. Len(items') <= limit
    BY <2>2, <1>1, <1>6
  <2>7. ListsTheFirst(M, limit, needs)'
    BY <2>4, <2>5, <2>6, <1>6 DEF ListsTheFirst
  <2> QED BY <2>3, <2>7
<1> QED BY <1>4, <1>5, <1>6 DEF Turn

\* The list is at its end.
LEMMA FirstEnd ==
  ASSUME NEW M, NEW limit, NEW needs, ListsTheFirst(M, limit, needs), ListEnd, M \subseteq 1..done
  PROVE  ListsTheFirst(M, limit, needs)'
BY DEF ListsTheFirst, Listed, InListOrder, ListEnd

\* The newline is no part of the body.
LEMMA SameBody ==
  ASSUME Finish, SearchTypes
  PROVE  Body' = Body /\ items' = items /\ done' = done /\ rank' = rank /\ keys' = keys /\ Listed' = Listed
<1>1. used \in Nat /\ ~ended /\ MaxPacket \in Nat
  BY PacketAssumption DEF Finish, SearchTypes
<1>2. Body' = Body
  BY <1>1 DEF Finish, Body
<1> QED BY <1>2 DEF Finish, Listed

LEMMA FirstSent ==
  ASSUME NEW M, NEW limit, NEW needs, ListsTheFirst(M, limit, needs), Finish, SearchTypes
  PROVE  ListsTheFirst(M, limit, needs)'
<1>1. Body' = Body /\ items' = items /\ done' = done /\ Listed' = Listed
  BY SameBody
<1>2. pc = "end"
  BY DEF Finish
<1> QED BY <1>1, <1>2 DEF ListsTheFirst, InListOrder

\* What is listed when a search has ended are the first of what matches.
LEMMA FirstListed ==
  ASSUME NEW M, M \subseteq {n \in Nat : n > 0}, NEW limit, NEW needs, done \in Nat,
         ListsTheFirst(M, limit, needs), pc = "sent"
  PROVE  HasTheFirst(M, limit, needs)
<1>1. Listed = M \cap 1..done /\ InListOrder
  BY DEF ListsTheFirst
<1>2. ASSUME M # Listed
      PROVE  LET next == Min(M \ Listed)
             IN  /\ \A n \in Listed : n < next
                 /\ Len(items) = limit \/ ~Fits(MaxPacket, Body, needs[next])
  <2>1. /\ done + 1 \in M
        /\ Len(items) = limit \/ ~Fits(MaxPacket, Body, needs[done + 1])
    BY <1>1, <1>2 DEF ListsTheFirst
  <2>2. done + 1 \in M \ Listed /\ \A n \in M \ Listed : n >= done + 1
    BY <1>1, <2>1
  <2>3. Min(M \ Listed) = done + 1
    <3>1. Min(M \ Listed) \in M \ Listed /\ \A n \in M \ Listed : Min(M \ Listed) <= n
      <4>1. M \ Listed \subseteq Nat /\ M \ Listed # {}
        BY <2>2
      <4> QED BY <4>1, LeastNumber
    <3> DEFINE next == Min(M \ Listed)
    <3>2. next >= done + 1 /\ next <= done + 1 /\ next \in Nat
      BY <3>1, <2>2
    <3> HIDE DEF next
    <3>3. next = done + 1
      BY <3>2
    <3> QED BY <3>3 DEF next
  <2>4. \A n \in Listed : n < done + 1
    BY <1>1
  <2> QED BY <2>1, <2>3, <2>4
<1> QED BY <1>1, <1>2 DEF HasTheFirst

LEMMA RoomLeft ==
  ASSUME SearchTypes, NEW n \in Nat
  PROVE  /\ Len(items) \in Nat /\ used \in Nat /\ MaxPacket \in Nat
         /\ used + n >= MaxPacket <=> ~Fits(MaxPacket, used, n)
         /\ MaxStops \in Nat /\ MaxStations \in Nat /\ MaxFacilities \in Nat /\ MaxBuses \in Nat
         /\ StationRoom \in Nat /\ BusRoom \in Nat
<1>1. items \in Seq(Items) /\ used \in Nat
  BY DEF SearchTypes
<1>2. MaxPacket \in Nat
  BY PacketAssumption
<1>3. Len(items) \in Nat
  BY <1>1, LenProperties
<1>4. used + n >= MaxPacket <=> ~Fits(MaxPacket, used, n)
  BY <1>1, <1>2 DEF Fits
<1> QED BY <1>1, <1>2, <1>3, <1>4, SearchAssumption

LEMMA StopsSoFar ==
  ASSUME SearchTypes, SoFar, handle_stop_search
  PROVE  SoFar'
<1> DEFINE stop == data.stops[done + 1]
           text == StopItem(data, stop)
           enough == StopsAreEnough(stop)
           needs == StopNeeds
           T(i) == StopItem(data, data.stops[items[i].of])
<1>1. pc = "stop" /\ done < Len(data.stops) /\ Turn(StopMatches(stop), enough, text)
  BY DEF handle_stop_search
<1>2. /\ done \in Nat /\ code = OK /\ request.type = "stop" /\ pc \notin {"idle", "end", "sent"}
  BY <1>1, PcIs DEF SearchTypes
<1>3. /\ ListsTheFirst(MatchingStops, MaxStops, StopNeeds)
      /\ \A i \in DOMAIN items : items[i].text = T(i)
  <2>1. Answering
    BY <1>2 DEF Answering, OK, INVALID_REQUEST
  <2> QED BY <2>1, <1>2 DEF SoFar
<1>4. stop \in StopEntries /\ data \in Range(Datasets) /\ done + 1 \in DOMAIN data.stops
  BY <1>1, <1>2, DataIs, NextEntry
<1>5. text \in ItemTexts
  BY <1>4, StopItemIs, ItemTextsAre
<1>6. Length(text) \in Nat
  BY <1>5, ItemTextsAre, LengthInNat
<1>7. StopMatches(stop) <=> done + 1 \in MatchingStops
  BY <1>4 DEF MatchingStops
<1>8. needs[done + 1] = Length(text) + 2
  BY <1>4 DEF StopNeeds
<1>9. /\ enough => Len(items) >= MaxStops \/ ~Fits(MaxPacket, used, needs[done + 1])
      /\ ~enough => Len(items) < MaxStops
      /\ MaxStops \in Nat
  <2>1. enough <=> Len(items) >= MaxStops \/ used + Length(text) + 2 >= MaxPacket
    BY DEF StopsAreEnough
  <2> DEFINE n == Length(text) + 2
  <2>2. n \in Nat
    BY <1>6
  <2> HIDE DEF n
  <2>3. /\ used + n >= MaxPacket <=> ~Fits(MaxPacket, used, n)
        /\ Len(items) \in Nat /\ MaxStops \in Nat /\ used \in Nat
    BY <2>2, RoomLeft
  <2> HIDE DEF text, enough
  <2>4. used + Length(text) + 2 = used + n
    BY <1>6, <2>3 DEF n
  <2> QED BY <2>1, <2>3, <2>4, <1>8 DEF n
<1>10. /\ town' = town /\ request' = request /\ code' = code /\ pc' \in {pc, "end"}
  BY <1>1 DEF Turn
<1> HIDE DEF text, stop, enough, needs
<1>11. /\ ListsTheFirst(MatchingStops, MaxStops, needs)'
       /\ \A i \in DOMAIN items' : \/ i \in DOMAIN items /\ items'[i] = items[i]
                                   \/ items'[i].of = done + 1 /\ items'[i].text = text
  <2>1. /\ ListsTheFirst(MatchingStops, MaxStops, needs)
        /\ StopMatches(stop) => text \in ItemTexts
    BY <1>3, <1>5 DEF needs
  <2>2. MatchingStops' = MatchingStops /\ needs' = needs
    BY <1>10, SameSearch DEF needs
  <2> QED BY <2>1, <2>2, <1>1, <1>2, <1>7, <1>9, FirstTurn
<1>12. data' = data
  BY <1>10 DEF data
<1>13. \A i \in DOMAIN items' : items'[i].text = StopItem(data', data'.stops[items'[i].of])
  BY <1>3, <1>11, <1>12 DEF text, stop
<1>14. code' = OK /\ pc' # "sent" /\ request'.type = "stop"
  BY <1>1, <1>2, <1>10
<1>15. request'.type \notin Lookups
  BY <1>14, PcIs
<1> QED BY <1>11, <1>13, <1>14, <1>15 DEF SoFar, needs

LEMMA StationsSoFar ==
  ASSUME SearchTypes, SoFar, handle_subway_search
  PROVE  SoFar'
<1> DEFINE station == data.stations[done + 1]
           text == StationItem(station)
           enough == used + StationRoom >= MaxPacket \/ Len(items) >= MaxStations
           needs == StationNeeds
<1>1. pc = "subway" /\ done < Len(data.stations) /\ Turn(StationMatches(station), enough, text)
  BY DEF handle_subway_search
<1>2. /\ done \in Nat /\ code = OK /\ request.type = "subway" /\ pc \notin {"idle", "end", "sent"}
  BY <1>1, PcIs DEF SearchTypes
<1>3. ListsTheFirst(MatchingStations, MaxStations, StationNeeds)
  <2>1. Answering
    BY <1>2 DEF Answering, OK, INVALID_REQUEST
  <2> QED BY <2>1, <1>2 DEF SoFar
<1>4. station \in StationEntries /\ done + 1 \in DOMAIN data.stations
  BY <1>1, <1>2, DataIs, NextEntry
<1>5. text \in ItemTexts
  BY <1>4, PlaceItemsAre
<1>6. StationMatches(station) <=> done + 1 \in MatchingStations
  BY <1>4 DEF MatchingStations
<1>7. needs[done + 1] = StationRoom
  BY <1>4 DEF StationNeeds
<1>8. /\ enough => Len(items) >= MaxStations \/ ~Fits(MaxPacket, used, needs[done + 1])
      /\ ~enough => Len(items) < MaxStations
      /\ MaxStations \in Nat
  <2>1. StationRoom \in Nat
    BY SearchAssumption
  <2>2. /\ used + StationRoom >= MaxPacket <=> ~Fits(MaxPacket, used, StationRoom)
        /\ Len(items) \in Nat /\ MaxStations \in Nat
    BY <2>1, RoomLeft
  <2> QED BY <2>2, <1>7
<1>9. /\ town' = town /\ request' = request /\ code' = code /\ pc' \in {pc, "end"}
  BY <1>1 DEF Turn
<1> HIDE DEF text, station, enough, needs
<1>10. ListsTheFirst(MatchingStations, MaxStations, needs)'
  <2>1. /\ ListsTheFirst(MatchingStations, MaxStations, needs)
        /\ StationMatches(station) => text \in ItemTexts
    BY <1>3, <1>5 DEF needs
  <2>2. MatchingStations' = MatchingStations /\ needs' = needs
    BY <1>9, SameSearch DEF needs
  <2> QED BY <2>1, <2>2, <1>1, <1>2, <1>6, <1>8, FirstTurn
<1>11. code' = OK /\ pc' # "sent" /\ request'.type = "subway"
  BY <1>1, <1>2, <1>9
<1>12. request'.type \notin Lookups
  BY <1>11, PcIs
<1> QED BY <1>10, <1>11, <1>12 DEF SoFar, needs

LEMMA FacilitiesSoFar ==
  ASSUME SearchTypes, SoFar, handle_facility
  PROVE  SoFar'
<1> DEFINE facility == data.facilities[done + 1]
           text == FacilityItem(facility)
           enough == used + Length(text) + 13 >= MaxPacket \/ Len(items) >= MaxFacilities
           needs == FacilityNeeds
<1>1. /\ pc = "facility" /\ done < Len(data.facilities) /\ Turn(FacilityMatches(facility), enough, text)
      /\ resolve_node_id(data, request.words[1]) # 0
  BY DEF handle_facility
<1>2. /\ done \in Nat /\ code = OK /\ request.type = "facility" /\ pc \notin {"idle", "end", "sent"}
  BY <1>1, PcIs DEF SearchTypes
<1>3. ListsTheFirst(MatchingFacilities, MaxFacilities, FacilityNeeds)
  <2>1. Answering
    BY <1>2 DEF Answering, OK, INVALID_REQUEST
  <2> QED BY <2>1, <1>2 DEF SoFar
<1>4. facility \in PlaceEntries /\ done + 1 \in DOMAIN data.facilities
  BY <1>1, <1>2, DataIs, NextEntry
<1>5. text \in ItemTexts
  BY <1>4, PlaceItemsAre
<1>6. Length(text) \in Nat
  BY <1>5, ItemTextsAre, LengthInNat
<1>7. FacilityMatches(facility) <=> done + 1 \in MatchingFacilities
  BY <1>1, <1>4 DEF MatchingFacilities
<1>8. needs[done + 1] = Length(text) + 13
  BY <1>4 DEF FacilityNeeds
<1>9. /\ enough => Len(items) >= MaxFacilities \/ ~Fits(MaxPacket, used, needs[done + 1])
      /\ ~enough => Len(items) < MaxFacilities
      /\ MaxFacilities \in Nat
  <2> DEFINE n == Length(text) + 13
  <2>1. n \in Nat
    BY <1>6
  <2> HIDE DEF n
  <2>2. /\ used + n >= MaxPacket <=> ~Fits(MaxPacket, used, n)
        /\ Len(items) \in Nat /\ MaxFacilities \in Nat /\ used \in Nat
    BY <2>1, RoomLeft
  <2> HIDE DEF text
  <2>3. used + Length(text) + 13 = used + n
    BY <1>6, <2>2 DEF n
  <2> QED BY <2>2, <2>3, <1>8 DEF n
<1>10. /\ town' = town /\ request' = request /\ code' = code /\ pc' \in {pc, "end"}
  BY <1>1 DEF Turn
<1> HIDE DEF text, facility, enough, needs
<1>11. ListsTheFirst(MatchingFacilities, MaxFacilities, needs)'
  <2>1. /\ ListsTheFirst(MatchingFacilities, MaxFacilities, needs)
        /\ FacilityMatches(facility) => text \in ItemTexts
    BY <1>3, <1>5 DEF needs
  <2>2. MatchingFacilities' = MatchingFacilities /\ needs' = needs
    BY <1>10, SameSearch DEF needs
  <2> QED BY <2>1, <2>2, <1>1, <1>2, <1>7, <1>9, FirstTurn
<1>12. code' = OK /\ pc' # "sent" /\ request'.type = "facility"
  BY <1>1, <1>2, <1>10
<1>13. request'.type \notin Lookups
  BY <1>12, PcIs
<1> QED BY <1>11, <1>12, <1>13 DEF SoFar, needs

LEMMA ListEndSoFar ==
  ASSUME SearchTypes, SoFar, ListEnd
  PROVE  SoFar'
<1>1. /\ pc' = "end" /\ town' = town /\ request' = request /\ code' = code /\ items' = items
      /\ done' = done
  BY DEF ListEnd
<1>2. pc \in {"stop", "subway", "facility"}
  BY DEF ListEnd
<1>3. request.type = pc /\ code = OK /\ done \in Nat
  BY <1>2, PcIs DEF SearchTypes
<1>4. Answering
  BY <1>2, <1>3 DEF Answering, OK, INVALID_REQUEST
<1>5. /\ MatchingStops' = MatchingStops /\ StopNeeds' = StopNeeds
      /\ MatchingStations' = MatchingStations /\ StationNeeds' = StationNeeds
      /\ MatchingFacilities' = MatchingFacilities /\ FacilityNeeds' = FacilityNeeds
      /\ data' = data
  BY <1>1, SameSearch
<1>6. /\ DOMAIN data.stops = 1..Len(data.stops) /\ DOMAIN data.stations = 1..Len(data.stations)
      /\ DOMAIN data.facilities = 1..Len(data.facilities)
  BY DataIs, LenProperties
<1>7. code' = OK /\ pc' # "sent" /\ request'.type = pc /\ pc \notin Lookups
  BY <1>1, <1>2, <1>3, PcIs
<1>8. CASE pc = "stop"
  <2>1. /\ ListsTheFirst(MatchingStops, MaxStops, StopNeeds)
        /\ \A n \in DOMAIN items : items[n].text = StopItem(data, data.stops[items[n].of])
    BY <1>3, <1>4, <1>8 DEF SoFar
  <2>2. MatchingStops \subseteq 1..done
    BY <1>6, <1>8 DEF ListEnd, MatchingStops
  <2>3. ListsTheFirst(MatchingStops, MaxStops, StopNeeds)'
    BY <2>1, <2>2, <1>5, FirstEnd
  <2>4. \A n \in DOMAIN items' : items'[n].text = StopItem(data', data'.stops[items'[n].of])
    BY <2>1, <1>1, <1>5
  <2> QED BY <2>3, <2>4, <1>7, <1>8 DEF SoFar
<1>9. CASE pc = "subway"
  <2>1. ListsTheFirst(MatchingStations, MaxStations, StationNeeds)
    BY <1>3, <1>4, <1>9 DEF SoFar
  <2>2. MatchingStations \subseteq 1..done
    BY <1>6, <1>9 DEF ListEnd, MatchingStations
  <2>3. ListsTheFirst(MatchingStations, MaxStations, StationNeeds)'
    BY <2>1, <2>2, <1>5, FirstEnd
  <2> QED BY <2>3, <1>7, <1>9 DEF SoFar
<1>10. CASE pc = "facility"
  <2>1. ListsTheFirst(MatchingFacilities, MaxFacilities, FacilityNeeds)
    BY <1>3, <1>4, <1>10 DEF SoFar
  <2>2. MatchingFacilities \subseteq 1..done
    BY <1>6, <1>10 DEF ListEnd, MatchingFacilities
  <2>3. ListsTheFirst(MatchingFacilities, MaxFacilities, FacilityNeeds)'
    BY <2>1, <2>2, <1>5, FirstEnd
  <2> QED BY <2>3, <1>7, <1>10 DEF SoFar
<1> QED BY <1>2, <1>8, <1>9, <1>10

LEMMA FinishSoFar ==
  ASSUME SearchTypes, SoFar, Finish
  PROVE  SoFar'
<1>1. /\ pc = "end" /\ pc' = "sent" /\ town' = town /\ request' = request
      /\ code' = (IF items = <<>> THEN NOT_FOUND ELSE OK)
  BY DEF Finish
<1>2. Body' = Body /\ items' = items /\ done' = done /\ rank' = rank /\ keys' = keys /\ Listed' = Listed
  BY SameBody
<1>3. code = OK /\ Answering
  BY <1>1, PcIs DEF SearchTypes, Answering, OK, INVALID_REQUEST
<1>4. /\ MatchingStops' = MatchingStops /\ StopNeeds' = StopNeeds
      /\ MatchingStations' = MatchingStations /\ StationNeeds' = StationNeeds
      /\ MatchingFacilities' = MatchingFacilities /\ FacilityNeeds' = FacilityNeeds
      /\ WantedBuses' = WantedBuses /\ data' = data
  BY <1>1, SameSearch
<1>5. code' = IF pc' = "sent" /\ items' = <<>> THEN NOT_FOUND ELSE OK
  BY <1>1, <1>2
<1>6. request.type = "stop" =>
        /\ ListsTheFirst(MatchingStops, MaxStops, StopNeeds)'
        /\ \A n \in DOMAIN items' : items'[n].text = StopItem(data', data'.stops[items'[n].of])
  <2>1. request.type = "stop" =>
          /\ ListsTheFirst(MatchingStops, MaxStops, StopNeeds)
          /\ \A n \in DOMAIN items : items[n].text = StopItem(data, data.stops[items[n].of])
    BY <1>3 DEF SoFar
  <2>2. ListsTheFirst(MatchingStops, MaxStops, StopNeeds) =>
          ListsTheFirst(MatchingStops, MaxStops, StopNeeds)'
    BY <1>4, FirstSent
  <2> QED BY <2>1, <2>2, <1>2, <1>4
<1>7. request.type = "subway" => ListsTheFirst(MatchingStations, MaxStations, StationNeeds)'
  <2>1. request.type = "subway" => ListsTheFirst(MatchingStations, MaxStations, StationNeeds)
    BY <1>3 DEF SoFar
  <2> QED BY <2>1, <1>4, FirstSent
<1>8. request.type = "facility" => ListsTheFirst(MatchingFacilities, MaxFacilities, FacilityNeeds)'
  <2>1. request.type = "facility" => ListsTheFirst(MatchingFacilities, MaxFacilities, FacilityNeeds)
    BY <1>3 DEF SoFar
  <2> QED BY <2>1, <1>4, FirstSent
<1>9. request.type = "bus" => ListsTheBestBuses'
  <2>1. request.type = "bus" => ListsTheBestBuses
    BY <1>3 DEF SoFar
  <2>2. /\ \A n : RankOf(n)' = RankOf(n)
        /\ \A m, n : Before(m, n)' <=> Before(m, n)
        /\ \A m, n : LookAlike(m, n)' <=> LookAlike(m, n)
    BY <1>1, SameBuses
  <2>3. /\ \A n : Passed(n)' <=> Passed(n)
    BY <2>2, <1>2 DEF Passed
  <2>4. BestFirst' <=> BestFirst
    BY <2>2, <1>2 DEF BestFirst
  <2>5. ListsTheBestBuses => ListsTheBestBuses'
    BY <2>2, <2>3, <2>4, <1>1, <1>2, <1>4 DEF ListsTheBestBuses
  <2> QED BY <2>1, <2>5
<1>10. request.type = "bus" =>
         \A n \in DOMAIN items' : \E room \in BusRoom .. MaxPacket :
           items'[n].text = BusItem(data', data'.routes[items'[n].of], room)
  BY <1>2, <1>3, <1>4 DEF SoFar
<1>11. request.type \in Lookups => Len(items') <= IF pc' \in Lookups THEN 0 ELSE 1
  <2>1. pc \notin Lookups /\ pc' \notin Lookups
    BY <1>1, PcIs
  <2> QED BY <2>1, <1>2, <1>3 DEF SoFar
<1> QED BY <1>1, <1>5, <1>6, <1>7, <1>8, <1>9, <1>10, <1>11 DEF SoFar

LEMMA LookUpSoFar ==
  ASSUME SearchTypes, SoFar, handle_arrival \/ handle_crowding
  PROVE  SoFar'
<1>1. /\ pc \in Lookups /\ pc' = "end" /\ request' = request /\ code' = code
  BY PcIs DEF handle_arrival, handle_crowding, LookUp
<1>2. request.type = pc /\ code = OK /\ items = <<>>
  BY <1>1, PcIs DEF SearchTypes
<1>3. items' = items \/ \E n, text : items' = Append(items, [of |-> n, text |-> text])
  BY DEF handle_arrival, handle_crowding, LookUp, AddItem
<1>4. Len(items') <= 1
  <2>1. CASE items' = items
    BY <2>1, <1>2, EmptySeq
  <2>2. ASSUME NEW x, items' = Append(items, x) PROVE Len(items') <= 1
    <3>1. <<>> \in Seq({x}) /\ Len(<<>>) = 0 /\ x \in {x}
      BY EmptySeq
    <3>2. Len(Append(<<>>, x)) = Len(<<>>) + 1
      BY <3>1, AppendProperties
    <3> QED BY <3>1, <3>2, <2>2, <1>2
  <2> QED BY <2>1, <2>2, <1>3
<1>5. request.type \notin {"stop", "bus", "subway", "facility"} /\ "end" \notin Lookups
  BY <1>1, <1>2, PcIs
<1> QED BY <1>1, <1>2, <1>4, <1>5 DEF SoFar

LEMMA RankIs ==
  ASSUME NEW n
  PROVE  RankOf(n) \in 0..3
BY DEF RankOf, route_match_rank

LEMMA BeginSoFar ==
  ASSUME SearchTypes, said # Nothing, said.type \in Services, Begin(said)
  PROVE  SoFar'
<1>1. /\ request' = said /\ pc' = (IF Refused(said) THEN "sent" ELSE said.type)
      /\ code' = (IF Refused(said) THEN INVALID_REQUEST ELSE OK)
      /\ rank' = 1 /\ done' = 0 /\ items' = <<>> /\ keys' = {}
  BY DEF Begin
<1>2. CASE Refused(said)
  BY <1>1, <1>2 DEF SoFar, Answering
<1>3. CASE ~Refused(said)
  <2>1. pc' \in Services /\ pc' \notin {"idle", "end", "sent"} /\ code' = OK
    BY <1>1, <1>3, PcIs
  <2>2. DOMAIN items' = {} /\ Len(items') = 0 /\ Listed' = {}
    <3>1. DOMAIN items' = {} /\ Len(items') = 0
      BY <1>1, EmptySeq
    <3> QED BY <3>1 DEF Listed
  <2>3. 1..done' = {}
    BY <1>1
  <2>4. /\ MaxStops \in Nat /\ MaxStations \in Nat /\ MaxFacilities \in Nat /\ MaxBuses \in Nat
    BY SearchAssumption
  <2>5. InListOrder' /\ BestFirst'
    BY <2>2 DEF InListOrder, BestFirst
  <2>6. /\ ListsTheFirst(MatchingStops, MaxStops, StopNeeds)'
        /\ ListsTheFirst(MatchingStations, MaxStations, StationNeeds)'
        /\ ListsTheFirst(MatchingFacilities, MaxFacilities, FacilityNeeds)'
    BY <2>1, <2>2, <2>3, <2>4, <2>5 DEF ListsTheFirst
  <2>7. ListsTheBestBuses'
    <3>1. ASSUME NEW n \in WantedBuses', Passed(n)' PROVE FALSE
      <4>1. RankOf(n)' \in 0..3
        BY RankIs DEF RankOf, route_match_rank
      <4>2. n \in Nat /\ n > 0 /\ RankOf(n)' # 0
        <5>1. data'.routes \in Seq(RouteEntries)
          <6>1. data' = data
            BY DEF Begin, data
          <6> QED BY <6>1, DataIs
        <5>2. n \in DOMAIN data'.routes /\ RankOf(n)' # 0
          BY <3>1 DEF WantedBuses
        <5> QED BY <5>1, <5>2, LenProperties
      <4>3. RankOf(n)' < 1 \/ (RankOf(n)' = 1 /\ n <= 0)
        BY <3>1, <1>1 DEF Passed
      <4> QED BY <4>1, <4>2, <4>3
    <3>2. keys' = {BusKey(data', data'.routes[m]) : m \in Listed'}
      BY <2>2, <1>1
    <3> QED BY <2>1, <2>2, <2>4, <2>5, <3>1, <3>2 DEF ListsTheBestBuses
  <2>8. Len(items') <= IF pc' \in Lookups THEN 0 ELSE 1
    BY <2>2
  <2> QED BY <2>1, <2>2, <2>6, <2>7, <2>8 DEF SoFar
<1> QED BY <1>2, <1>3

\* The next rank, or none.
LEMMA BusRankSoFar ==
  ASSUME SearchTypes, SoFar, BusRank
  PROVE  SoFar'
<1>1. /\ pc = "bus" /\ done = Len(data.routes) /\ town' = town /\ request' = request /\ keys' = keys
      /\ code' = code /\ items' = items /\ used' = used /\ ended' = ended
      /\ \/ rank < 3 /\ Len(items) < MaxBuses /\ rank' = rank + 1 /\ done' = 0 /\ pc' = pc
         \/ ~ (rank < 3 /\ Len(items) < MaxBuses) /\ pc' = "end" /\ rank' = rank /\ done' = done
  BY DEF BusRank
<1>2. request.type = "bus" /\ code = OK /\ rank \in 1..3 /\ Answering /\ pc' # "sent"
  BY <1>1, PcIs DEF SearchTypes, Answering, OK, INVALID_REQUEST
<1>3. /\ ListsTheBestBuses
      /\ \A n \in DOMAIN items : \E room \in BusRoom .. MaxPacket :
           items[n].text = BusItem(data, data.routes[items[n].of], room)
  BY <1>2 DEF SoFar
<1>4. data' = data /\ WantedBuses' = WantedBuses
  BY <1>1, SameSearch
<1>5. /\ \A n : RankOf(n)' = RankOf(n)
      /\ \A m, n : Before(m, n)' <=> Before(m, n)
      /\ \A m, n : LookAlike(m, n)' <=> LookAlike(m, n)
  BY <1>1, SameBuses
<1>6. /\ Listed' = Listed /\ (BestFirst' <=> BestFirst) /\ Body' = Body
  BY <1>1, <1>5 DEF Listed, BestFirst, Body
<1>7. DOMAIN data.routes = 1..Len(data.routes) /\ Len(data.routes) \in Nat
  BY DataIs, LenProperties
<1>8. ASSUME NEW n \in WantedBuses
      PROVE  /\ Passed(n)' <=> Passed(n)
             /\ rank = 3 => Passed(n)
  <2>1. n \in 1..Len(data.routes) /\ RankOf(n) \in 0..3
    BY <1>7, RankIs DEF WantedBuses
  <2>2. Passed(n) <=> RankOf(n) <= rank
    BY <2>1, <1>1, <1>2 DEF Passed
  <2>3. Passed(n)' <=> RankOf(n) < rank' \/ (RankOf(n) = rank' /\ n <= done')
    BY <1>5 DEF Passed
  <2> QED BY <2>1, <2>2, <2>3, <1>1, <1>2
<1>9. ListsTheBestBuses'
  <2>1. \A n \in Listed' : n \in WantedBuses' /\ Passed(n)'
    BY <1>3, <1>4, <1>6, <1>8 DEF ListsTheBestBuses
  <2>2. BestFirst' /\ Len(items') <= MaxBuses
    BY <1>1, <1>3, <1>6 DEF ListsTheBestBuses
  <2>3. \/ Len(items') = MaxBuses \/ Body' + BusRoom >= MaxPacket
        \/ /\ keys' = {BusKey(data', data'.routes[m]) : m \in Listed'}
           /\ \A n \in WantedBuses' \ Listed' :
                Passed(n)' => \E m \in Listed' : Before(m, n)' /\ LookAlike(m, n)'
    BY <1>1, <1>3, <1>4, <1>5, <1>6, <1>8 DEF ListsTheBestBuses
  <2>4. pc' \in {"end", "sent"} => Len(items') = MaxBuses \/ \A n \in WantedBuses' : Passed(n)'
    <3>1. CASE pc' = pc
      BY <3>1, <1>1
    <3>2. CASE ~ (rank < 3 /\ Len(items) < MaxBuses)
      <4>1. Len(items) <= MaxBuses /\ Len(items) \in Nat /\ MaxBuses \in Nat
        <5>1. 0 \in Nat
          OBVIOUS
        <5> QED BY <5>1, <1>3, RoomLeft DEF ListsTheBestBuses
      <4>2. rank = 3 \/ Len(items) = MaxBuses
        BY <3>2, <4>1, <1>2
      <4> QED BY <4>2, <1>1, <1>4, <1>8
    <3> QED BY <3>1, <3>2, <1>1
  <2> QED BY <2>1, <2>2, <2>3, <2>4 DEF ListsTheBestBuses
<1>10. \A n \in DOMAIN items' : \E room \in BusRoom .. MaxPacket :
         items'[n].text = BusItem(data', data'.routes[items'[n].of], room)
  BY <1>1, <1>3, <1>4
<1>11. code' = OK /\ request'.type = "bus" /\ "bus" \notin Lookups
  BY <1>1, <1>2, PcIs
<1> QED BY <1>2, <1>9, <1>10, <1>11 DEF SoFar

\* A route that is not wanted now, or looks like one that is listed.
LEMMA BusPassed ==
  ASSUME SearchTypes, ListsTheBestBuses, NEW n, n = done + 1, n \in DOMAIN data.routes,
         RankOf(n) # rank \/ IsSeen(data.routes[n]), pc = "bus", pc' = pc, town' = town, request' = request, rank' = rank, items' = items,
         used' = used, ended' = ended, done' = n, keys' = keys
  PROVE  ListsTheBestBuses'
<1>1. done \in Nat /\ rank \in 1..3
  BY DEF SearchTypes
<1>2. data' = data /\ WantedBuses' = WantedBuses
  BY SameSearch
<1>3. /\ \A k : RankOf(k)' = RankOf(k)
      /\ \A m, k : Before(m, k)' <=> Before(m, k)
      /\ \A m, k : LookAlike(m, k)' <=> LookAlike(m, k)
  BY SameBuses
<1>4. /\ Listed' = Listed /\ (BestFirst' <=> BestFirst) /\ Body' = Body
  BY <1>3 DEF Listed, BestFirst, Body
<1>5. ASSUME NEW k \in WantedBuses
      PROVE  Passed(k)' <=> Passed(k) \/ (RankOf(k) = rank /\ k = n)
  <2>1. k \in Nat /\ RankOf(k) \in 0..3
    <3>1. k \in DOMAIN data.routes
      BY DEF WantedBuses
    <3> QED BY <3>1, DataIs, LenProperties, RankIs
  <2>2. Passed(k)' <=> RankOf(k) < rank \/ (RankOf(k) = rank /\ k <= n)
    BY <1>3 DEF Passed
  <2> QED BY <2>1, <2>2, <1>1 DEF Passed
<1>6. \A k \in Listed' : k \in WantedBuses' /\ Passed(k)'
  BY <1>2, <1>4, <1>5 DEF ListsTheBestBuses
<1>7. \/ Len(items') = MaxBuses \/ Body' + BusRoom >= MaxPacket
      \/ /\ keys' = {BusKey(data', data'.routes[m]) : m \in Listed'}
         /\ \A k \in WantedBuses' \ Listed' :
              Passed(k)' => \E m \in Listed' : Before(m, k)' /\ LookAlike(m, k)'
  <2>1. CASE Len(items) = MaxBuses \/ Body + BusRoom >= MaxPacket
    BY <2>1, <1>4
  <2>2. CASE ~ (Len(items) = MaxBuses \/ Body + BusRoom >= MaxPacket)
    <3>1. /\ keys = {BusKey(data, data.routes[m]) : m \in Listed}
          /\ \A k \in WantedBuses \ Listed :
               Passed(k) => \E m \in Listed : Before(m, k) /\ LookAlike(m, k)
      BY <2>2 DEF ListsTheBestBuses
    <3>2. ASSUME n \in WantedBuses, RankOf(n) = rank
          PROVE  \E m \in Listed : Before(m, n) /\ LookAlike(m, n)
      <4>1. route_display_label(data, data.routes[n]) # <<>>
        BY <3>2 DEF WantedBuses
      <4>2. BusKey(data, data.routes[n]) \in keys
        BY <4>1, <3>2, <2>2 DEF IsSeen
      <4>3. PICK m \in Listed : BusKey(data, data.routes[n]) = BusKey(data, data.routes[m])
        BY <3>1, <4>2
      <4>4. Passed(m) /\ m \in WantedBuses
        BY DEF ListsTheBestBuses
      <4>5. m \in Nat
        <5>1. m \in DOMAIN data.routes
          BY <4>4 DEF WantedBuses
        <5> QED BY <5>1, DataIs, LenProperties
      <4>6. Before(m, n)
        BY <4>4, <4>5, <3>2, <1>1 DEF Passed, Before
      <4> QED BY <4>3, <4>6 DEF LookAlike
    <3>3. \A k \in WantedBuses \ Listed :
            Passed(k)' => \E m \in Listed : Before(m, k) /\ LookAlike(m, k)
      BY <3>1, <3>2, <1>5
    <3> QED BY <3>1, <3>3, <1>2, <1>3, <1>4
  <2> QED BY <2>1, <2>2
<1> QED BY <1>4, <1>6, <1>7 DEF ListsTheBestBuses

\* A route is wanted, but there are enough.
LEMMA BusesEnough ==
  ASSUME SearchTypes, ListsTheBestBuses, BusesAreEnough,
         pc = "bus", done < Len(data.routes), pc' = pc, town' = town, request' = request,
         rank' = rank, items' = items, used' = used, ended' = ended, done' = Len(data.routes)
  PROVE  ListsTheBestBuses'
<1>1. /\ done \in Nat /\ rank \in 1..3 /\ used \in Nat /\ ~ended
      /\ Len(data.routes) \in Nat /\ DOMAIN data.routes = 1..Len(data.routes)
  BY DataIs, LenProperties DEF SearchTypes
<1>2. data' = data /\ WantedBuses' = WantedBuses
  BY SameSearch
<1>3. /\ \A k : RankOf(k)' = RankOf(k)
      /\ \A m, k : Before(m, k)' <=> Before(m, k)
      /\ \A m, k : LookAlike(m, k)' <=> LookAlike(m, k)
  BY SameBuses
<1>4. /\ Listed' = Listed /\ (BestFirst' <=> BestFirst) /\ Body' = Body /\ Body = used
  BY <1>1, <1>3 DEF Listed, BestFirst, Body
<1>5. ASSUME NEW k \in WantedBuses, Passed(k) PROVE Passed(k)'
  <2>1. k \in 1..Len(data.routes) /\ RankOf(k) \in 0..3
    BY <1>1, RankIs DEF WantedBuses
  <2>2. Passed(k)' <=> RankOf(k) < rank \/ (RankOf(k) = rank /\ k <= Len(data.routes))
    BY <1>3 DEF Passed
  <2> QED BY <2>1, <2>2, <1>5 DEF Passed
<1>6. \A k \in Listed' : k \in WantedBuses' /\ Passed(k)'
  BY <1>2, <1>4, <1>5 DEF ListsTheBestBuses
<1>7. Len(items') = MaxBuses \/ Body' + BusRoom >= MaxPacket
  <2>1. Len(items) <= MaxBuses /\ Len(items) \in Nat /\ MaxBuses \in Nat
    <3>1. 0 \in Nat
      OBVIOUS
    <3> QED BY <3>1, RoomLeft DEF ListsTheBestBuses
  <2> QED BY <2>1, <1>4 DEF BusesAreEnough
<1> QED BY <1>4, <1>6, <1>7 DEF ListsTheBestBuses

\* A route is added.
LEMMA BusAdded ==
  ASSUME SearchTypes, ListsTheBestBuses, ~BusesAreEnough,
         NEW n, n = done + 1, n \in DOMAIN data.routes, NEW text \in ItemTexts,
         RankOf(n) = rank, ~IsSeen(data.routes[n]), AddItem(n, text),
         pc = "bus", pc' = pc, town' = town, request' = request, rank' = rank, ended' = ended,
         done' = n, keys' = keys \cup {BusKey(data, data.routes[n])}
  PROVE  /\ ListsTheBestBuses'
         /\ \A i \in DOMAIN items' : \/ i \in DOMAIN items /\ items'[i] = items[i]
                                     \/ items'[i].of = n /\ items'[i].text = text
<1>1. /\ done \in Nat /\ rank \in 1..3 /\ used \in Nat /\ ~ended /\ items \in Seq(Items) /\ Sized
      /\ n \in Nat
  BY PcIs DEF SearchTypes
<1>2. data' = data /\ WantedBuses' = WantedBuses
  BY SameSearch
<1>3. /\ \A k : RankOf(k)' = RankOf(k)
      /\ \A m, k : Before(m, k)' <=> Before(m, k)
      /\ \A m, k : LookAlike(m, k)' <=> LookAlike(m, k)
  BY SameBuses
<1>4. /\ items' \in Seq(Items) /\ Len(items') = Len(items) + 1
      /\ \A i \in 1..Len(items) : items'[i] = items[i]
      /\ items'[Len(items) + 1] = [of |-> n, text |-> text]
  BY <1>1, ItemAdded
<1>5. /\ Listed' = Listed \cup {n}
      /\ \A i \in DOMAIN items' : \/ i \in DOMAIN items /\ items'[i] = items[i]
                                  \/ i = Len(items) + 1 /\ items'[i].of = n /\ items'[i].text = text
      /\ DOMAIN items = 1..Len(items) /\ DOMAIN items' = 1..(Len(items) + 1) /\ Len(items) \in Nat
  BY <1>1, <1>4, ListedMore
<1>6. /\ Len(items) # MaxBuses /\ Len(items) < MaxBuses /\ ~ (Body + BusRoom >= MaxPacket)
      /\ MaxBuses \in Nat
  <2>1. Len(items) <= MaxBuses /\ Len(items) \in Nat /\ MaxBuses \in Nat
    <3>1. 0 \in Nat
      OBVIOUS
    <3> QED BY <3>1, RoomLeft DEF ListsTheBestBuses
  <2>2. Body = used
    BY <1>1 DEF Body
  <2> QED BY <2>1, <2>2 DEF BusesAreEnough
<1>7. /\ keys = {BusKey(data, data.routes[m]) : m \in Listed}
      /\ \A k \in WantedBuses \ Listed :
           Passed(k) => \E m \in Listed : Before(m, k) /\ LookAlike(m, k)
  BY <1>6 DEF ListsTheBestBuses
<1>8. n \in WantedBuses
  BY <1>1 DEF WantedBuses, IsSeen
<1>9. ASSUME NEW k \in WantedBuses
      PROVE  /\ Passed(k) => Passed(k)'
             /\ Passed(k)' => Passed(k) \/ k = n
  <2>1. k \in Nat /\ RankOf(k) \in 0..3
    <3>1. k \in DOMAIN data.routes
      BY DEF WantedBuses
    <3> QED BY <3>1, DataIs, LenProperties, RankIs
  <2>2. Passed(k)' <=> RankOf(k) < rank \/ (RankOf(k) = rank /\ k <= n)
    BY <1>3 DEF Passed
  <2> QED BY <2>1, <2>2, <1>1 DEF Passed
<1>10. ASSUME NEW m \in Listed
       PROVE  Before(m, n) /\ ~LookAlike(m, n)
  <2>1. Passed(m) /\ m \in WantedBuses
    BY DEF ListsTheBestBuses
  <2>2. m \in Nat
    <3>1. m \in DOMAIN data.routes
      BY <2>1 DEF WantedBuses
    <3> QED BY <3>1, DataIs, LenProperties
  <2>3. Before(m, n)
    BY <2>1, <2>2, <1>1 DEF Passed, Before
  <2>4. BusKey(data, data.routes[n]) \notin keys
    BY DEF IsSeen
  <2> QED BY <2>3, <2>4, <1>7 DEF LookAlike
<1>11. Passed(n)'
  BY <1>1, <1>3 DEF Passed
<1>12. \A k \in Listed' : k \in WantedBuses' /\ Passed(k)'
  BY <1>2, <1>5, <1>8, <1>9, <1>11 DEF ListsTheBestBuses
<1>13. BestFirst'
  <2>1. ASSUME NEW i \in DOMAIN items', NEW j \in DOMAIN items', i < j
        PROVE  Before(items'[i].of, items'[j].of) /\ ~LookAlike(items'[i].of, items'[j].of)
    <3>1. i \in DOMAIN items /\ items'[i] = items[i] /\ items[i].of \in Listed
      <4>1. i \in DOMAIN items /\ items'[i] = items[i]
        BY <2>1, <1>5
      <4> QED BY <4>1 DEF Listed
    <3>2. CASE j \in DOMAIN items /\ items'[j] = items[j]
      BY <2>1, <3>1, <3>2 DEF ListsTheBestBuses, BestFirst
    <3>3. CASE items'[j].of = n
      BY <3>1, <3>3, <1>10
    <3> QED BY <3>2, <3>3, <1>5
  <2> QED BY <2>1, <1>3 DEF BestFirst
<1>14. /\ keys' = {BusKey(data', data'.routes[m]) : m \in Listed'}
       /\ \A k \in WantedBuses' \ Listed' :
            Passed(k)' => \E m \in Listed' : Before(m, k)' /\ LookAlike(m, k)'
  BY <1>2, <1>3, <1>5, <1>7, <1>9
<1>15. Len(items') <= MaxBuses
  BY <1>4, <1>5, <1>6
<1> QED BY <1>5, <1>12, <1>13, <1>14, <1>15 DEF ListsTheBestBuses

LEMMA BusTurnSoFar ==
  ASSUME SearchTypes, SoFar, BusTurn
  PROVE  SoFar'
<1> DEFINE n == done + 1
           route == data.routes[n]
           room == MaxPacket - used - Separator
           text == BusItem(data, route, room)
           IsItem(i) == \E r \in BusRoom .. MaxPacket :
                          items[i].text = BusItem(data, data.routes[items[i].of], r)
<1>1. /\ pc = "bus" /\ pc' = pc /\ done < Len(data.routes) /\ town' = town /\ request' = request
      /\ rank' = rank /\ code' = code /\ ended' = ended
      /\ \/ /\ RankOf(n) # rank \/ IsSeen(route)
            /\ done' = n /\ keys' = keys /\ items' = items /\ used' = used
         \/ /\ RankOf(n) = rank /\ ~IsSeen(route) /\ keys' = keys \cup {BusKey(data, route)}
            /\ \/ BusesAreEnough /\ done' = Len(data.routes) /\ items' = items /\ used' = used
               \/ ~BusesAreEnough /\ AddItem(n, text) /\ done' = n
  BY DEF BusTurn, RankOf
<1>2. /\ request.type = "bus" /\ code = OK /\ rank \in 1..3 /\ Answering /\ done \in Nat
      /\ used \in Nat /\ items \in Seq(Items)
  BY <1>1, PcIs DEF SearchTypes, Answering, OK, INVALID_REQUEST
<1>3. ListsTheBestBuses /\ \A i \in DOMAIN items : IsItem(i)
  BY <1>2 DEF SoFar
<1>4. /\ n \in DOMAIN data.routes /\ route \in Range(data.routes) /\ data \in Range(Datasets)
  BY <1>1, <1>2, DataIs, NextEntry
<1>5. data' = data
  BY <1>1 DEF data
<1>6. ListsTheBestBuses' /\ \A i \in DOMAIN items' : IsItem(i)'
  <2>1. CASE /\ RankOf(n) # rank \/ IsSeen(route)
             /\ done' = n /\ keys' = keys /\ items' = items /\ used' = used
    <3>1. ListsTheBestBuses'
      BY <2>1, <1>1, <1>3, <1>4, BusPassed
    <3>2. \A i \in DOMAIN items' : IsItem(i)'
      BY <2>1, <1>3, <1>5
    <3> QED BY <3>1, <3>2
  <2>2. CASE BusesAreEnough /\ done' = Len(data.routes) /\ items' = items /\ used' = used
    <3>1. ListsTheBestBuses'
      BY <2>2, <1>1, <1>3, BusesEnough
    <3>2. \A i \in DOMAIN items' : IsItem(i)'
      BY <2>2, <1>3, <1>5
    <3> QED BY <3>1, <3>2
  <2>3. CASE /\ RankOf(n) = rank /\ ~IsSeen(route) /\ keys' = keys \cup {BusKey(data, route)}
             /\ ~BusesAreEnough /\ AddItem(n, text) /\ done' = n
    <3>1. route_display_label(data, route) # <<>>
      BY <2>3 DEF IsSeen
    <3>2. room \in Nat /\ room >= BusRoom /\ room <= MaxPacket /\ BusRoom \in Nat /\ MaxPacket \in Nat
      <4>1. Separator \in {0, 1} /\ BusRoom \in Nat /\ MaxPacket \in Nat
        BY SearchAssumption, PacketAssumption DEF Separator
      <4>2. ~ (used + BusRoom >= MaxPacket)
        BY <2>3 DEF BusesAreEnough
      <4> QED BY <4>1, <4>2, <1>2
    <3> HIDE DEF room
    <3>3. text \in ItemTexts
      BY <3>1, <3>2, <1>4, BusItemFits
    <3> DEFINE new == text
    <3> HIDE DEF new
    <3>4. /\ ListsTheBestBuses'
          /\ \A i \in DOMAIN items' : \/ i \in DOMAIN items /\ items'[i] = items[i]
                                      \/ items'[i].of = n /\ items'[i].text = new
      <4>1. new \in ItemTexts /\ AddItem(n, new)
        BY <3>3, <2>3 DEF new
      <4> QED BY <4>1, <2>3, <1>1, <1>3, <1>4, BusAdded
    <3>5. ASSUME NEW i \in DOMAIN items' PROVE IsItem(i)'
      <4>1. CASE i \in DOMAIN items /\ items'[i] = items[i]
        <5>1. IsItem(i)
          BY <4>1, <1>3
        <5> QED BY <4>1, <5>1, <1>5
      <4>2. CASE items'[i].of = n /\ items'[i].text = new
        <5>1. room \in BusRoom .. MaxPacket
          BY <3>2
        <5>2. items'[i].text = BusItem(data', data'.routes[items'[i].of], room)
          BY <4>2, <1>5 DEF new
        <5> QED BY <5>1, <5>2
      <4> QED BY <4>1, <4>2, <3>4
    <3> QED BY <3>4, <3>5
  <2> QED BY <2>1, <2>2, <2>3, <1>1
<1>7. code' = OK /\ request'.type = "bus" /\ "bus" \notin Lookups /\ pc' # "sent"
  BY <1>1, <1>2, PcIs
<1> QED BY <1>6, <1>7 DEF SoFar

LEMMA InitSoFar ==
  ASSUME Init
  PROVE  SoFar
BY DEF Init, SearchInit, SoFar, Answering

LEMMA NextSoFar ==
  ASSUME TypesInv, SoFar, [Next]_vars
  PROVE  SoFar'
<1>1. SearchTypes
  BY DEF TypesInv
<1>2. CASE pc = "idle" /\ searchVars' = searchVars
  BY <1>2 DEF searchVars, SoFar, Answering
<1>3. CASE Read \/ Greet
  BY <1>2, <1>3 DEF Read, Greet
<1>4. CASE Route
  BY <1>1, <1>4, BeginSoFar DEF Route
<1>5. CASE Serve
  BY <1>1, <1>5, StopsSoFar, StationsSoFar, FacilitiesSoFar, BusTurnSoFar, BusRankSoFar,
     ListEndSoFar, FinishSoFar, LookUpSoFar DEF Serve, ServiceStep
<1>6. CASE Reply
  BY <1>6 DEF Reply, View, SoFar, Answering
<1>7. CASE UNCHANGED vars
  <2>1. /\ town' = town /\ request' = request /\ pc' = pc /\ rank' = rank /\ done' = done
        /\ keys' = keys /\ code' = code /\ items' = items /\ used' = used /\ ended' = ended
    BY <1>7 DEF vars, searchVars
  <2>2. data' = data
    BY <2>1 DEF data
  <2>3. /\ MatchingStops' = MatchingStops /\ StopNeeds' = StopNeeds
        /\ MatchingStations' = MatchingStations /\ StationNeeds' = StationNeeds
        /\ MatchingFacilities' = MatchingFacilities /\ FacilityNeeds' = FacilityNeeds
        /\ WantedBuses' = WantedBuses
    BY <2>1, SameSearch
  <2>4. /\ \A k : RankOf(k)' = RankOf(k)
        /\ \A m, k : Before(m, k)' <=> Before(m, k)
        /\ \A m, k : LookAlike(m, k)' <=> LookAlike(m, k)
    BY <2>1, SameBuses
  <2>5. /\ Listed' = Listed /\ (InListOrder' <=> InListOrder) /\ (BestFirst' <=> BestFirst)
        /\ Body' = Body /\ \A k : Passed(k)' <=> Passed(k)
    BY <2>1, <2>4 DEF Listed, InListOrder, BestFirst, Body, Passed
  <2>6. \A M, limit, needs : ListsTheFirst(M, limit, needs)' <=> ListsTheFirst(M, limit, needs)
    BY <2>1, <2>5 DEF ListsTheFirst
  <2>7. ListsTheBestBuses' <=> ListsTheBestBuses
    BY <2>1, <2>2, <2>3, <2>4, <2>5 DEF ListsTheBestBuses
  <2>8. Answering' <=> Answering
    BY <2>1 DEF Answering
  <2> QED BY <2>1, <2>2, <2>3, <2>6, <2>7, <2>8 DEF SoFar
<1> QED BY <1>3, <1>4, <1>5, <1>6, <1>7 DEF Next

\* Between two turns of a search, what it has listed is what matches of the entries it has
\* gone through (search_service.c:525, :719-736 and :761, facility_service.c:100).
THEOREM SoFarAlways == Spec => []SoFar
<1>1. Init => TypesInv /\ SoFar
  BY InitTypes, InitSoFar
<1>2. TypesInv /\ SoFar /\ [Next]_vars => (TypesInv /\ SoFar)'
  BY NextTypes, NextSoFar
<1> QED BY <1>1, <1>2, PTL DEF Spec

\* Every search finds what there is to find: the first entries that match, or the best
\* bus routes, each once, with the routes of a stop; and it leaves out an entry only for
\* the limit or for want of room (search_service.c:333-745, facility_service.c:102).
THEOREM SearchFindsWhatMatches == Spec => []AnswersWhatMatches
<1>1. ASSUME TypesInv, SoFar, pc = "sent", code # INVALID_REQUEST
      PROVE  /\ code = NOT_FOUND <=> items = <<>>
             /\ CASE request.type = "stop" ->
                       /\ HasTheFirst(MatchingStops, MaxStops, StopNeeds)
                       /\ \A n \in DOMAIN items : NamesRoutes(data, data.stops[items[n].of], items[n].text)
                  [] request.type = "subway"   -> HasTheFirst(MatchingStations, MaxStations, StationNeeds)
                  [] request.type = "facility" -> HasTheFirst(MatchingFacilities, MaxFacilities, FacilityNeeds)
                  [] request.type = "bus"      -> HasTheBestBuses
                  [] OTHER                     -> Len(items) <= 1
  <2>1. SearchTypes /\ Answering /\ pc \notin Lookups /\ done \in Nat /\ request.type \in Services
    BY <1>1, PcIs DEF TypesInv, SearchTypes, Answering
  <2>2. code = NOT_FOUND <=> items = <<>>
    BY <1>1, <2>1 DEF SoFar, OK, NOT_FOUND
  <2>3. /\ DOMAIN data.stops = 1..Len(data.stops) /\ DOMAIN data.stations = 1..Len(data.stations)
        /\ DOMAIN data.facilities = 1..Len(data.facilities) /\ data \in Range(Datasets)
        /\ data.stops \in Seq(StopEntries)
    BY <2>1, DataIs, LenProperties
  <2>4. ASSUME request.type = "stop"
        PROVE  /\ HasTheFirst(MatchingStops, MaxStops, StopNeeds)
               /\ \A n \in DOMAIN items : NamesRoutes(data, data.stops[items[n].of], items[n].text)
    <3>1. /\ ListsTheFirst(MatchingStops, MaxStops, StopNeeds)
          /\ \A n \in DOMAIN items : items[n].text = StopItem(data, data.stops[items[n].of])
      BY <1>1, <2>1, <2>4 DEF SoFar
    <3>2. MatchingStops \subseteq {n \in Nat : n > 0}
      BY <2>3 DEF MatchingStops
    <3>3. HasTheFirst(MatchingStops, MaxStops, StopNeeds)
      BY <1>1, <2>1, <3>1, <3>2, FirstListed
    <3>4. ASSUME NEW n \in DOMAIN items
          PROVE  NamesRoutes(data, data.stops[items[n].of], items[n].text)
      <4>1. items[n].of \in MatchingStops
        <5>1. items[n].of \in Listed
          BY DEF Listed
        <5> QED BY <5>1, <3>1 DEF ListsTheFirst
      <4>2. data.stops[items[n].of] \in StopEntries
        BY <4>1, <2>3, ElementOfSeq DEF MatchingStops
      <4> QED BY <4>2, <2>3, <3>1, StopItemIs
    <3> QED BY <3>3, <3>4
  <2>5. request.type = "subway" => HasTheFirst(MatchingStations, MaxStations, StationNeeds)
    <3>1. request.type = "subway" => ListsTheFirst(MatchingStations, MaxStations, StationNeeds)
      BY <1>1, <2>1 DEF SoFar
    <3>2. MatchingStations \subseteq {n \in Nat : n > 0}
      BY <2>3 DEF MatchingStations
    <3> QED BY <1>1, <2>1, <3>1, <3>2, FirstListed
  <2>6. request.type = "facility" => HasTheFirst(MatchingFacilities, MaxFacilities, FacilityNeeds)
    <3>1. request.type = "facility" => ListsTheFirst(MatchingFacilities, MaxFacilities, FacilityNeeds)
      BY <1>1, <2>1 DEF SoFar
    <3>2. MatchingFacilities \subseteq {n \in Nat : n > 0}
      BY <2>3 DEF MatchingFacilities
    <3> QED BY <1>1, <2>1, <3>1, <3>2, FirstListed
  <2>7. request.type = "bus" => HasTheBestBuses
    <3>1. request.type = "bus" => ListsTheBestBuses
      BY <1>1, <2>1 DEF SoFar
    <3> QED BY <1>1, <3>1 DEF ListsTheBestBuses, HasTheBestBuses
  <2>8. request.type \in Lookups => Len(items) <= 1
    BY <1>1, <2>1 DEF SoFar
  <2> QED BY <2>1, <2>2, <2>4, <2>5, <2>6, <2>7, <2>8, PcIs
<1>2. TypesInv /\ SoFar => AnswersWhatMatches
  BY <1>1 DEF AnswersWhatMatches
<1> QED BY <1>2, TypesAlways, SoFarAlways, PTL

-----------------------------------------------------------------------------
(* What the viewer holds of an item *)

WhatsOf(text) == {p.what : p \in Range(text)}

LEMMA WhatsOfText ==
  ASSUME NEW W, NEW text \in Seq(Pieces(W))
  PROVE  /\ text \in Seq(Pieces(WhatsOf(text))) /\ WhatsOf(text) \subseteq W
         /\ \A n \in 1..Len(text) : text[n].what \in WhatsOf(text) /\ text[n].bytes \in Nat
                                    /\ text[n] \in Range(text)
<1>1. /\ Range(text) = {text[n] : n \in 1..Len(text)} /\ Len(text) \in Nat
      /\ text \in [1..Len(text) -> Pieces(W)]
  BY RangeOf, LenProperties
<1>2. ASSUME NEW n \in 1..Len(text)
      PROVE  /\ text[n].what \in WhatsOf(text) /\ text[n].bytes \in Nat /\ text[n].what \in W
             /\ text[n] \in Pieces(WhatsOf(text)) /\ text[n] \in Range(text)
  <2>1. text[n] \in Range(text) /\ text[n] \in Pieces(W)
    BY <1>1
  <2>2. text[n].what \in WhatsOf(text)
    BY <2>1 DEF WhatsOf
  <2> QED BY <2>1, <2>2 DEF Pieces
<1>3. WhatsOf(text) \subseteq W
  BY <1>1, <1>2 DEF WhatsOf
<1>4. text \in [1..Len(text) -> Pieces(WhatsOf(text))]
  BY <1>1, <1>2
<1>5. text \in Seq(Pieces(WhatsOf(text)))
  BY <1>1, <1>4
<1> QED BY <1>2, <1>3, <1>5

\* What safe_strcpy has made of the first i pieces: all of them, or what fills the buffer,
\* of which only the last may be cut.
Copied(size, text, i, copy) ==
  /\ copy \in Seq(Pieces(WhatsOf(text))) /\ Length(copy) < size
  /\ \/ /\ Len(copy) = i
        /\ \A n \in 1..i : copy[n] = text[n]
        /\ Length(copy) = Upto(BytesOf(text), i)
     \/ /\ Length(copy) = size - 1 /\ Length(text) >= size /\ Len(copy) <= i
        /\ \A n \in 1..Len(copy) : /\ copy[n].what = text[n].what
                                   /\ n < Len(copy) => copy[n] = text[n]

LEMMA CopyMore ==
  ASSUME NEW W, NEW text \in Seq(Pieces(W)), NEW size \in Nat, NEW i \in 1..Len(text), NEW c,
         text[i].bytes > 0, Copied(size, text, i - 1, c)
  PROVE  Copied(size, text, i, str_appendf(size, c, text[i].what, text[i].bytes))
<1> DEFINE V == WhatsOf(text)
           w == text[i].what
           b == text[i].bytes
           r == str_appendf(size, c, w, b)
           m == Written(size, Length(c), b)
           x == Length(c)
           q == Piece(w, m)
           a == Append(c, q)
<1>1. w \in V /\ b \in Nat /\ b > 0 /\ text[i] \in Pieces(V)
  <2>1. text \in Seq(Pieces(V)) /\ w \in V /\ b \in Nat
    BY WhatsOfText
  <2> QED BY <2>1, ElementOfSeq
<1>2. c \in Seq(Pieces(V)) /\ x < size
  BY DEF Copied
<1>3. /\ Len(text) \in Nat /\ i \in Nat /\ i > 0 /\ i - 1 \in Nat /\ i <= Len(text)
      /\ Len(c) \in Nat /\ x \in Nat
  BY <1>2, LenProperties, LengthInNat
<1> HIDE DEF V, w, b
<1>4. r \in Seq(Pieces(V))
  BY <1>1, <1>2, StrAppendf
<1>5. x + b < size => m = b
  BY <1>1, <1>2, StrAppendf
<1>6. x + b >= size => x + m = size - 1
  BY <1>1, <1>2, StrAppendf
<1>7. m \in 0..b
  BY <1>1, <1>2, StrAppendf
<1>8. Length(r) = x + m
  BY <1>1, <1>2, StrAppendf
<1>9. m = 0 => r = c
  BY <1>1, <1>2, StrAppendf
<1>10. m # 0 => r = a
  BY <1>1, <1>2, StrAppendf
<1>11. Length(r) < size
  BY <1>1, <1>2, StrAppendf
<1>12. q \in Pieces(V) /\ q.what = w /\ q.bytes = m /\ (m = b => q = text[i])
  <2>1. m \in Nat
    BY <1>7, <1>1
  <2> HIDE DEF m
  <2>2. q \in Pieces(V) /\ q.what = w /\ q.bytes = m
    BY <2>1, <1>1, PieceIs
  <2> HIDE DEF q
  <2>3. m = b => q = text[i]
    BY <2>2, <1>1 DEF Pieces, w, b
  <2> QED BY <2>2, <2>3
<1> HIDE DEF m, q, x, r
<1>13. Len(a) = Len(c) + 1 /\ (\A n \in 1..Len(c) : a[n] = c[n]) /\ a[Len(c) + 1] = q
  BY <1>2, <1>12, AppendProperties
<1> HIDE DEF a
<1>14. CASE /\ Len(c) = i - 1
            /\ \A n \in 1..(i - 1) : c[n] = text[n]
            /\ x = Upto(BytesOf(text), i - 1)
  <2>1. /\ Upto(BytesOf(text), i) = x + b /\ x + b <= Length(text) /\ Length(text) \in Nat
    <3>1. /\ BytesOf(text) \in Seq(Nat) /\ Len(BytesOf(text)) = Len(text)
          /\ BytesOf(text)[i] = b /\ Length(text) = Total(BytesOf(text))
      BY BytesOfText DEF b
    <3>2. i \in 1..Len(BytesOf(text)) /\ i \in 0..Len(BytesOf(text))
      BY <3>1, <1>3
    <3>3. /\ Upto(BytesOf(text), i) = Upto(BytesOf(text), i - 1) + BytesOf(text)[i]
          /\ Upto(BytesOf(text), i) <= Total(BytesOf(text))
      BY <3>1, <3>2, UptoFacts
    <3>4. Length(text) \in Nat
      BY LengthInNat
    <3> QED BY <3>1, <3>3, <3>4, <1>14
  <2>2. /\ Len(a) = i
        /\ \A n \in 1..i : a[n].what = text[n].what /\ (n < i => a[n] = text[n])
        /\ a[i] = q
    <3>1. Len(a) = i /\ a[i] = q
      BY <1>3, <1>13, <1>14
    <3>2. ASSUME NEW n \in 1..i PROVE a[n].what = text[n].what /\ (n < i => a[n] = text[n])
      <4>1. CASE n \in 1..(i - 1)
        BY <4>1, <1>13, <1>14
      <4>2. CASE n = i
        BY <4>2, <3>1, <1>12 DEF w
      <4> QED BY <4>1, <4>2, <1>3
    <3> QED BY <3>1, <3>2
  <2>3. CASE x + b < size
    <3>1. m = b /\ m # 0 /\ r = a /\ Length(r) = x + b /\ q = text[i]
      BY <2>3, <1>1, <1>5, <1>8, <1>10, <1>12
    <3>2. \A n \in 1..i : r[n] = text[n]
      <4>1. ASSUME NEW n \in 1..i PROVE a[n] = text[n]
        <5>1. n < i \/ n = i
          BY <1>3
        <5> QED BY <5>1, <2>2, <3>1
      <4> QED BY <4>1, <3>1
    <3> QED BY <3>1, <3>2, <2>1, <2>2, <1>4, <1>11 DEF Copied, r, w, b, V
  <2>4. CASE ~ (x + b < size)
    <3>1. Length(r) = size - 1 /\ Length(text) >= size
      BY <2>1, <2>4, <1>1, <1>3, <1>6, <1>8
    <3>2. CASE m = 0
      <4>1. /\ r = c /\ Len(r) <= i
            /\ \A n \in 1..Len(r) : r[n] = text[n]
        BY <3>2, <1>3, <1>9, <1>14
      <4> QED BY <4>1, <3>1, <1>4, <1>11 DEF Copied, r, w, b, V
    <3>3. CASE m # 0
      <4>1. /\ r = a /\ Len(r) = i
            /\ \A n \in 1..Len(r) : r[n].what = text[n].what /\ (n < Len(r) => r[n] = text[n])
        BY <3>3, <2>2, <1>10
      <4>2. Len(r) <= i
        BY <4>1, <1>3
      <4> QED BY <4>1, <4>2, <3>1, <1>4, <1>11 DEF Copied, r, w, b, V
    <3> QED BY <3>2, <3>3
  <2> QED BY <2>3, <2>4
<1>15. CASE /\ x = size - 1 /\ Length(text) >= size /\ Len(c) <= i - 1
            /\ \A n \in 1..Len(c) : /\ c[n].what = text[n].what
                                    /\ n < Len(c) => c[n] = text[n]
  <2>1. x + m = size - 1
    BY <1>1, <1>3, <1>6, <1>15
  <2>2. m = 0
    BY <2>1, <1>1, <1>3, <1>7, <1>15
  <2>3. r = c /\ Len(r) <= i
    BY <2>2, <1>3, <1>9, <1>15
  <2> QED BY <2>3, <1>4, <1>11, <1>15 DEF Copied, r, w, b, x, V
<1> QED BY <1>14, <1>15 DEF Copied, x, r, w, b

\* safe_strcpy of a text whose pieces all have bytes.
LEMMA CopyIs ==
  ASSUME NEW W, NEW text \in Seq(Pieces(W)), \A n \in 1..Len(text) : text[n].bytes > 0,
         NEW size \in Nat, size > 0
  PROVE  Copied(size, text, Len(text), safe_strcpy(size, text))
<1> DEFINE V == WhatsOf(text)
           step == [p \in Range(text) |->
                     [copy \in Texts(V) |-> str_appendf(size, copy, p.what, p.bytes)]]
           I == [n \in 0..Len(text) |-> {c \in Texts(V) : Copied(size, text, n, c)}]
<1>1. text \in Seq(Pieces(W)) /\ Len(text) \in Nat
  BY LenProperties
<1>2. Texts(V) = Seq(Pieces(V))
  BY TextsAre
<1>3. <<>> \in I[0]
  <2>1. <<>> \in Seq(Pieces(V)) /\ Len(<<>>) = 0
    BY EmptySeq
  <2>2. Length(<<>>) = 0 /\ Upto(BytesOf(text), 0) = 0
    <3>1. BytesOf(text) \in Seq(Nat)
      BY BytesOfText
    <3> QED BY <3>1, LengthEmpty, UptoFacts
  <2>3. Copied(size, text, 0, <<>>)
    <3>1. \A n \in 1..0 : FALSE
      OBVIOUS
    <3> QED BY <3>1, <2>1, <2>2 DEF Copied
  <2>4. 0 \in 0..Len(text)
    BY <1>1
  <2> HIDE DEF V
  <2> QED BY <2>1, <2>3, <2>4, <1>2
<1>4. ASSUME NEW n \in 1..Len(text), NEW a \in I[n - 1] PROVE step[text[n]][a] \in I[n]
  <2>1. n \in 0..Len(text) /\ n - 1 \in 0..Len(text)
    BY <1>1
  <2>2. a \in Texts(V) /\ Copied(size, text, n - 1, a)
    <3> HIDE DEF V
    <3> QED BY <2>1
  <2>3. text[n] \in Range(text) /\ text[n].bytes > 0
    BY WhatsOfText
  <2> DEFINE r == str_appendf(size, a, text[n].what, text[n].bytes)
  <2>4. step[text[n]][a] = r
    <3> HIDE DEF V
    <3> QED BY <2>2, <2>3
  <2>5. Copied(size, text, n, r)
    BY <2>2, <2>3, CopyMore
  <2> HIDE DEF r, step
  <2>6. r \in Texts(V)
    BY <2>5, <1>2 DEF Copied
  <2> HIDE DEF V
  <2> QED BY <2>1, <2>4, <2>5, <2>6
<1>5. safe_strcpy(size, text) = FoldWith(step, <<>>, text)
  BY DEF safe_strcpy, WhatsOf
<1> HIDE DEF step, I
<1>6. FoldWith(step, <<>>, text) \in I[Len(text)]
  BY <1>3, <1>4, LoopRule
<1>7. I[Len(text)] = {c \in Texts(V) : Copied(size, text, Len(text), c)}
  BY <1>1 DEF I
<1> QED BY <1>5, <1>6, <1>7

\* Of any other text it holds nothing else.
LEMMA CopyWhats ==
  ASSUME NEW W, NEW text \in Seq(Pieces(W)), NEW size \in Nat, size > 0
  PROVE  safe_strcpy(size, text) \in Seq(Pieces(WhatsOf(text)))
<1> DEFINE V == WhatsOf(text)
           step == [p \in Range(text) |->
                     [copy \in Texts(V) |-> str_appendf(size, copy, p.what, p.bytes)]]
           I == [n \in 0..Len(text) |-> {c \in Texts(V) : Length(c) < size}]
<1>1. text \in Seq(Pieces(W)) /\ Len(text) \in Nat
  BY LenProperties
<1>2. Texts(V) = Seq(Pieces(V))
  BY TextsAre
<1>3. <<>> \in I[0]
  <2>1. <<>> \in Seq(Pieces(V)) /\ Length(<<>>) < size /\ 0 \in 0..Len(text)
    BY <1>1, EmptySeq, LengthEmpty
  <2> HIDE DEF V
  <2> QED BY <2>1, <1>2
<1>4. ASSUME NEW n \in 1..Len(text), NEW a \in I[n - 1] PROVE step[text[n]][a] \in I[n]
  <2>1. n \in 0..Len(text) /\ n - 1 \in 0..Len(text)
    BY <1>1
  <2>2. a \in Texts(V) /\ Length(a) < size
    <3> HIDE DEF V
    <3> QED BY <2>1
  <2>3. text[n] \in Range(text) /\ text[n].bytes \in Nat /\ text[n].what \in V
    BY WhatsOfText
  <2> DEFINE r == str_appendf(size, a, text[n].what, text[n].bytes)
  <2>4. step[text[n]][a] = r
    <3> HIDE DEF V
    <3> QED BY <2>2, <2>3
  <2> HIDE DEF V
  <2>5. a \in Seq(Pieces(V))
    BY <1>2, <2>2
  <2>6. r \in Seq(Pieces(V))
    BY <2>2, <2>3, <2>5, StrAppendf
  <2>7. Length(r) < size
    BY <2>2, <2>3, <2>5, StrAppendf
  <2> HIDE DEF r, step
  <2> QED BY <2>1, <2>4, <2>6, <2>7, <1>2
<1>5. safe_strcpy(size, text) = FoldWith(step, <<>>, text)
  BY DEF safe_strcpy, WhatsOf
<1> HIDE DEF step, I
<1>6. FoldWith(step, <<>>, text) \in I[Len(text)]
  BY <1>3, <1>4, LoopRule
<1>7. I[Len(text)] = {c \in Texts(V) : Length(c) < size}
  BY <1>1 DEF I
<1> HIDE DEF V
<1>8. safe_strcpy(size, text) \in Seq(Pieces(V))
  BY <1>2, <1>5, <1>6, <1>7
<1> QED BY <1>8 DEF V

-----------------------------------------------------------------------------
(* The lines under a bus route *)

\* The pieces of text are in copy, the last of them maybe cut.
CopyOf(text, copy) ==
  /\ copy \in Seq(Pieces(Whats)) /\ Len(copy) \in 1..Len(text)
  /\ \A n \in 1..Len(copy) : /\ copy[n].what = text[n].what
                             /\ n < Len(copy) => copy[n] = text[n]

\* The lines of the pieces up to n.
LinesOf(text, copy, names, row, n, ls) ==
  /\ ls \in Seq(ItemTexts) /\ Len(ls) = row[n]
  /\ ls[Len(ls)] = <<>> <=> text[n].what \in Starts
  /\ \A k \in 1..Len(ls) :
       \/ ls[k] = <<>> \/ ls[k] = <<names[k]>>
       \/ /\ k = Len(ls) /\ n = Len(copy) /\ copy[n] # text[n]
          /\ Len(ls[k]) = 1 /\ ls[k][1].what = names[k].what
  /\ NoGaps(text) => \A k \in 1..Len(ls) : k < Len(ls) => ls[k] # <<>>

AddToLines(ls, p) == IF p.what = Comma THEN Append(ls, <<>>) ELSE [ls EXCEPT ![Len(ls)] = Append(@, p)]

LEMMA LinesMore ==
  ASSUME NEW text, NEW names, NEW K \in Nat, NEW row, RowsOf(text, names, K, row),
         \A k \in 1..K : names[k].what \notin Starts,
         NEW copy, CopyOf(text, copy), NEW n \in 2..Len(copy), NEW ls,
         LinesOf(text, copy, names, row, n - 1, ls)
  PROVE  LinesOf(text, copy, names, row, n, AddToLines(ls, copy[n]))
<1> DEFINE p == copy[n]
           L == Len(ls)
<1>1. /\ text \in Seq(Pieces(Whats)) /\ Len(text) \in Nat
      /\ row \in [1..Len(text) -> 1..K]
      /\ \/ text[n].what = Comma /\ row[n] = row[n - 1] + 1
         \/ text[n] = names[row[n]] /\ row[n] = row[n - 1] /\ text[n - 1].what \in Starts
  <2>1. text \in Seq(Pieces(Whats)) /\ Len(text) \in Nat
    BY LenProperties DEF RowsOf
  <2>2. n \in 2..Len(text)
    BY <2>1 DEF CopyOf
  <2> QED BY <2>1, <2>2 DEF RowsOf
<1>2. /\ copy \in Seq(Pieces(Whats)) /\ Len(copy) \in Nat /\ Len(copy) <= Len(text)
      /\ p.what = text[n].what /\ (n < Len(copy) => p = text[n])
      /\ n \in 1..Len(copy) /\ n - 1 < Len(copy) /\ n \in 1..Len(text) /\ n - 1 \in 1..Len(text)
  <2>1. copy \in Seq(Pieces(Whats)) /\ Len(copy) \in Nat /\ Len(copy) <= Len(text)
    BY LenProperties, <1>1 DEF CopyOf
  <2>2. n \in 1..Len(copy)
    OBVIOUS
  <2> QED BY <2>1, <2>2, <1>1 DEF CopyOf
<1>3. /\ ls \in Seq(ItemTexts) /\ L \in Nat /\ L > 0 /\ L = row[n - 1]
      /\ row[n] \in 1..K
      /\ \A k \in 1..L : ls[k] = <<>> \/ ls[k] = <<names[k]>>
      /\ ls[L] = <<>> <=> text[n - 1].what \in Starts
      /\ NoGaps(text) => \A k \in 1..L : k < L => ls[k] # <<>>
  <2>1. ls \in Seq(ItemTexts) /\ L = row[n - 1]
    BY DEF LinesOf
  <2>2. row[n - 1] \in 1..K /\ row[n] \in 1..K
    BY <1>1, <1>2
  <2>3. L \in Nat /\ L > 0
    BY <2>1, <2>2
  <2>4. n - 1 # Len(copy)
    BY <1>2
  <2> QED BY <2>1, <2>2, <2>3, <2>4 DEF LinesOf
<1>4. p \in Pieces(Whats)
  BY <1>2, ElementOfSeq
<1>5. CASE p.what = Comma
  <2> DEFINE r == Append(ls, <<>>)
  <2>1. <<>> \in ItemTexts
    BY ItemTextsAre, EmptySeq
  <2>2. r \in Seq(ItemTexts) /\ Len(r) = L + 1 /\ r[L + 1] = <<>>
        /\ \A k \in 1..L : r[k] = ls[k]
    BY <1>3, <2>1, AppendProperties
  <2>3. row[n] = row[n - 1] + 1 /\ text[n].what \in Starts
    <3>1. text[n].what = Comma /\ Comma \in Starts
      BY <1>2, <1>5 DEF Starts
    <3>2. names[row[n]].what \notin Starts
      BY <1>3
    <3> QED BY <3>1, <3>2, <1>1
  <2>4. \A k \in 1..Len(r) : r[k] = <<>> \/ r[k] = <<names[k]>>
    <3> SUFFICES ASSUME NEW k \in 1..Len(r) PROVE r[k] = <<>> \/ r[k] = <<names[k]>>
      OBVIOUS
    <3>1. k \in 1..L \/ k = L + 1
      BY <2>2, <1>3
    <3> QED BY <3>1, <2>2, <1>3
  <2>5. NoGaps(text) => \A k \in 1..Len(r) : k < Len(r) => r[k] # <<>>
    <3> SUFFICES ASSUME NoGaps(text), NEW k \in 1..Len(r), k < Len(r) PROVE r[k] # <<>>
      OBVIOUS
    <3>1. k \in 1..L /\ (k < L \/ k = L)
      BY <2>2, <1>3
    <3>2. text[n - 1].what \notin Starts
      <4>1. n \in 2..Len(text) /\ text[n].what = Comma
        BY <1>2, <1>5
      <4> QED BY <4>1 DEF NoGaps
    <3> QED BY <3>1, <3>2, <2>2, <1>3
  <2>6. Len(r) = row[n]
    BY <2>2, <2>3, <1>3
  <2>7. r[Len(r)] = <<>> <=> text[n].what \in Starts
    BY <2>2, <2>3
  <2>8. LinesOf(text, copy, names, row, n, r)
    <3> HIDE DEF r
    <3> QED BY <2>2, <2>4, <2>5, <2>6, <2>7 DEF LinesOf
  <2> QED BY <2>8, <1>5 DEF AddToLines
<1>6. CASE p.what # Comma
  <2>1. text[n] = names[row[n]] /\ row[n] = row[n - 1] /\ text[n - 1].what \in Starts
    BY <1>1, <1>2, <1>6
  <2>2. ls[L] = <<>> /\ text[n].what \notin Starts /\ names[L] = text[n] /\ L \in 1..L
    BY <2>1, <1>3
  <2> DEFINE newLine == Append(ls[L], p)
             r == [ls EXCEPT ![L] = newLine]
  <2>3. newLine \in ItemTexts /\ newLine = <<p>> /\ newLine # <<>> /\ Len(newLine) = 1 /\ newLine[1] = p
    <3>1. <<>> \in Seq(Pieces(Whats))
      BY EmptySeq
    <3>2. Append(<<>>, p) \in Seq(Pieces(Whats)) /\ Append(<<>>, p) # <<>> /\ Len(<<>>) = 0
          /\ Len(Append(<<>>, p)) = Len(<<>>) + 1 /\ Append(<<>>, p)[Len(<<>>) + 1] = p
      BY <3>1, <1>4, AppendProperties, EmptySeq
    <3>3. Append(<<>>, p) = <<p>>
      OBVIOUS
    <3> QED BY <2>2, <3>2, <3>3, ItemTextsAre
  <2>4. r \in Seq(ItemTexts) /\ Len(r) = L /\ \A k \in 1..L : r[k] = IF k = L THEN newLine ELSE ls[k]
    <3> HIDE DEF newLine
    <3>1. ls \in [1..L -> ItemTexts]
      BY <1>3, LenProperties
    <3>2. r \in [1..L -> ItemTexts]
      BY <3>1, <2>3
    <3> QED BY <1>3, <3>1, <3>2, <2>3
  <2>5. \A k \in 1..L : k # L => r[k] = ls[k]
    BY <2>4
  <2>6. r[L] = newLine
    BY <2>4, <2>2
  <2> HIDE DEF r, newLine
  <2>7. \A k \in 1..L :
          \/ r[k] = <<>> \/ r[k] = <<names[k]>>
          \/ k = L /\ n = Len(copy) /\ p # text[n] /\ Len(r[k]) = 1 /\ r[k][1].what = names[k].what
    <3> SUFFICES ASSUME NEW k \in 1..L
                 PROVE \/ r[k] = <<>> \/ r[k] = <<names[k]>>
                       \/ k = L /\ n = Len(copy) /\ p # text[n] /\ Len(r[k]) = 1 /\ r[k][1].what = names[k].what
      OBVIOUS
    <3>1. CASE k # L
      BY <3>1, <2>5, <1>3
    <3>2. CASE k = L /\ p = text[n]
      BY <3>2, <2>2, <2>3, <2>6
    <3>3. CASE k = L /\ p # text[n]
      <4>1. n = Len(copy)
        BY <3>3, <1>2
      <4>2. Len(r[k]) = 1 /\ r[k][1] = p
        BY <3>3, <2>3, <2>6
      <4>3. p.what = names[k].what
        BY <3>3, <2>2, <1>2
      <4> HIDE DEF p
      <4> QED BY <3>3, <4>1, <4>2, <4>3
    <3> QED BY <3>1, <3>2, <3>3
  <2>8. NoGaps(text) => \A k \in 1..L : k < L => r[k] # <<>>
    BY <2>5, <1>3
  <2>9. Len(r) = row[n] /\ (r[Len(r)] = <<>> <=> text[n].what \in Starts)
    BY <2>1, <2>2, <2>3, <2>4, <2>6, <1>3
  <2>10. LinesOf(text, copy, names, row, n, r)
    BY <2>4, <2>7, <2>8, <2>9 DEF LinesOf
  <2>11. AddToLines(ls, copy[n]) = r
    BY <1>6, <2>2 DEF AddToLines, r, newLine
  <2> QED BY <2>10, <2>11
<1> QED BY <1>5, <1>6

LEMMA CopyOfText ==
  ASSUME NEW text, NEW names, NEW K \in Nat, NEW row, RowsOf(text, names, K, row),
         NEW size \in Nat, size > 1
  PROVE  /\ CopyOf(text, safe_strcpy(size, text))
         /\ Length(text) < size => safe_strcpy(size, text) = text
<1> DEFINE copy == safe_strcpy(size, text)
<1>1. /\ text \in Seq(Pieces(Whats)) /\ Len(text) \in Nat /\ Len(text) # 0
      /\ \A n \in 1..Len(text) : text[n].bytes > 0
  <2>1. text \in Seq(Pieces(Whats)) /\ text # <<>> /\ \A n \in 1..Len(text) : text[n].bytes > 0
    BY DEF RowsOf
  <2> QED BY <2>1, RangeOf
<1>2. Copied(size, text, Len(text), copy)
  BY <1>1, CopyIs
<1> HIDE DEF copy
<1>3. copy \in Seq(Pieces(Whats)) /\ Len(copy) \in Nat
  <2>1. copy \in Seq(Pieces(WhatsOf(text))) /\ WhatsOf(text) \subseteq Whats
    BY <1>1, <1>2, WhatsOfText DEF Copied
  <2>2. Pieces(WhatsOf(text)) \subseteq Pieces(Whats)
    BY <2>1 DEF Pieces
  <2>3. copy \in Seq(Pieces(Whats))
    BY <2>1, <2>2, SeqMonotonic
  <2> QED BY <2>3, LenProperties
<1>4. CASE Len(copy) = Len(text) /\ \A n \in 1..Len(text) : copy[n] = text[n]
  <2>1. copy = text
    <3>1. Len(copy) = Len(text) /\ \A n \in 1..Len(copy) : copy[n] = text[n]
      BY <1>4
    <3> QED BY <3>1, <1>1, <1>3, SeqEqual
  <2>2. CopyOf(text, copy)
    BY <1>1, <2>1 DEF CopyOf
  <2> QED BY <2>1, <2>2 DEF copy
<1>5. CASE /\ Length(copy) = size - 1 /\ Length(text) >= size /\ Len(copy) <= Len(text)
           /\ \A n \in 1..Len(copy) : /\ copy[n].what = text[n].what
                                      /\ n < Len(copy) => copy[n] = text[n]
  <2>1. Len(copy) # 0
    <3> SUFFICES ASSUME Len(copy) = 0 PROVE FALSE
      OBVIOUS
    <3>1. copy = <<>>
      BY <1>3, RangeOf
    <3>2. Length(copy) = 0
      BY <3>1, LengthEmpty
    <3> QED BY <3>2, <1>5
  <2>2. Len(copy) \in 1..Len(text)
    BY <2>1, <1>1, <1>3, <1>5
  <2>3. CopyOf(text, copy)
    BY <2>2, <1>3, <1>5 DEF CopyOf
  <2>4. Length(text) \in Nat
    BY <1>1, LengthInNat
  <2>5. ~(Length(text) < size)
    BY <2>4, <1>5
  <2> QED BY <2>3, <2>5 DEF copy
<1> QED BY <1>2, <1>4, <1>5 DEF Copied

\* Lines for at most the first K of these names.
LinesFor(rows, names, K) ==
  /\ rows \in Seq(ItemTexts) /\ DOMAIN rows = 1..Len(rows) /\ Len(rows) \in 0..K
  /\ \A k \in 1..Len(rows) :
       \/ rows[k] = <<>> \/ rows[k] = <<names[k]>>
       \/ k = Len(rows) /\ Len(rows[k]) = 1 /\ rows[k][1].what = names[k].what

\* The lines that the viewer makes of what it holds of a text.
\* A line for each of them.
LinesForAll(rows, names, K) == Len(rows) = K /\ \A k \in 1..K : rows[k] = <<names[k]>>

NoneStarts(names, K) == \A k \in 1..K : names[k].what \notin Starts

RowsShown(copy) == StopLines(Tail(copy))

LEMMA ShownLines ==
  ASSUME NEW text, NEW names, NEW K \in Nat, NEW row, RowsOf(text, names, K, row),
         NoneStarts(names, K), NEW copy, CopyOf(text, copy)
  PROVE  /\ LinesFor(RowsShown(copy), names, K)
         /\ copy = text /\ NoGaps(text) /\ text[Len(text)].what \notin Starts =>
              LinesForAll(RowsShown(copy), names, row[Len(text)])
<1> DEFINE t == Tail(copy)
           step == [p \in Range(t) |-> [ls \in Seq(ItemTexts) |-> AddToLines(ls, p)]]
           I == [n \in 0..Len(t) |->
                  {ls \in Seq(ItemTexts) : LinesOf(text, copy, names, row, n + 1, ls)}]
           start == <<<<>>>>
           lines == FoldWith(step, start, t)
           m == Len(copy)
<1>1. /\ copy \in Seq(Pieces(Whats)) /\ copy # <<>> /\ m \in 1..Len(text)
      /\ text \in Seq(Pieces(Whats)) /\ Len(text) \in Nat
  <2>1. copy \in Seq(Pieces(Whats)) /\ m \in 1..Len(text) /\ text \in Seq(Pieces(Whats))
    BY DEF CopyOf, RowsOf
  <2> QED BY <2>1, RangeOf
<1>2. /\ t \in Seq(Pieces(Whats)) /\ Len(t) = m - 1 /\ Len(t) \in Nat
      /\ \A i \in 1..Len(t) : t[i] = copy[i + 1]
  BY <1>1, HeadAndTail
<1>3. start \in I[0]
  <2>1. <<>> \in ItemTexts
    BY EmptySeq, ItemTextsAre
  <2>2. start \in Seq(ItemTexts) /\ Len(start) = 1 /\ start[1] = <<>>
    BY <2>1
  <2>3. row[1] = 1 /\ text[1].what \in Starts
    BY DEF RowsOf, Starts
  <2>4. \A k \in 1..1 : k = 1
    OBVIOUS
  <2> HIDE DEF start
  <2>5. LinesOf(text, copy, names, row, 1, start)
    BY <2>2, <2>3, <2>4 DEF LinesOf
  <2>6. 0 \in 0..Len(t) /\ 0 + 1 = 1
    BY <1>2
  <2> HIDE DEF t
  <2> QED BY <2>2, <2>5, <2>6
<1>4. ASSUME NEW n \in 1..Len(t), NEW ls \in I[n - 1] PROVE step[t[n]][ls] \in I[n]
  <2>1. n \in 0..Len(t) /\ n - 1 \in 0..Len(t) /\ (n - 1) + 1 = n /\ (n + 1) - 1 = n
        /\ n + 1 \in 2..m
    BY <1>2
  <2>2. ls \in Seq(ItemTexts) /\ LinesOf(text, copy, names, row, n, ls)
    <3> HIDE DEF t
    <3>1. ls \in {l \in Seq(ItemTexts) : LinesOf(text, copy, names, row, (n - 1) + 1, l)}
      BY <2>1
    <3> QED BY <3>1, <2>1
  <2>3. t[n] \in Range(t) /\ t[n] = copy[n + 1]
    <3>1. t[n] = copy[n + 1]
      BY <1>2
    <3> HIDE DEF t
    <3>2. Range(t) = {t[i] : i \in 1..Len(t)}
      BY <1>2, RangeOf
    <3> QED BY <3>1, <3>2
  <2>4. LinesOf(text, copy, names, row, n + 1, AddToLines(ls, copy[n + 1]))
    <3>1. n + 1 \in 2..Len(copy) /\ LinesOf(text, copy, names, row, (n + 1) - 1, ls)
      BY <2>1, <2>2
    <3>2. \A k \in 1..K : names[k].what \notin Starts
      BY DEF NoneStarts
    <3> QED BY <3>1, <3>2, LinesMore
  <2> DEFINE r == AddToLines(ls, copy[n + 1])
  <2>5. step[t[n]][ls] = r
    <3> HIDE DEF t
    <3> QED BY <2>2, <2>3
  <2> HIDE DEF r, step
  <2>6. r \in Seq(ItemTexts) /\ LinesOf(text, copy, names, row, n + 1, r)
    BY <2>4 DEF LinesOf, r
  <2> HIDE DEF t
  <2> QED BY <2>1, <2>5, <2>6
<1>5. lines \in I[Len(t)]
  <2> HIDE DEF t, step, I, start
  <2> QED BY <1>2, <1>3, <1>4, LoopRule
<1>6. StopLines(t) = IF Last(lines) = <<>> THEN Front(lines) ELSE lines
  BY DEF StopLines, AddToLines
<1>7. LinesOf(text, copy, names, row, m, lines)
  <2>1. Len(t) \in 0..Len(t) /\ Len(t) + 1 = m
    BY <1>1, <1>2
  <2> HIDE DEF t, lines
  <2>2. lines \in {l \in Seq(ItemTexts) : LinesOf(text, copy, names, row, Len(t) + 1, l)}
    BY <2>1, <1>5
  <2> QED BY <2>1, <2>2
<1> DEFINE L == Len(lines)
           rows == StopLines(t)
           whole == copy = text /\ NoGaps(text) /\ text[Len(text)].what \notin Starts
<1> HIDE DEF t, step, I, start, lines
<1>8. /\ lines \in Seq(ItemTexts) /\ L = row[m] /\ L \in 1..K /\ DOMAIN lines = 1..L
      /\ lines[L] = <<>> <=> text[m].what \in Starts
      /\ \A k \in 1..L : \/ lines[k] = <<>> \/ lines[k] = <<names[k]>>
                         \/ /\ k = L /\ copy[m] # text[m]
                            /\ Len(lines[k]) = 1 /\ lines[k][1].what = names[k].what
      /\ NoGaps(text) => \A k \in 1..L : k < L => lines[k] # <<>>
  <2>1. row \in [1..Len(text) -> 1..K]
    BY DEF RowsOf
  <2>2. row[m] \in 1..K
    BY <2>1, <1>1
  <2>3. lines \in Seq(ItemTexts) /\ L = row[m]
    BY <1>7 DEF LinesOf
  <2>4. DOMAIN lines = 1..L
    BY <2>3, LenProperties
  <2> QED BY <2>2, <2>3, <2>4, <1>7 DEF LinesOf
<1>9. Last(lines) = lines[L]
  BY DEF Last
<1>10. CASE lines[L] = <<>>
  <2>1. rows = SubSeq(lines, 1, L - 1)
    BY <1>6, <1>9, <1>10 DEF Front
  <2>2. L - 1 \in 0..L
    BY <1>8
  <2>3. rows \in Seq(ItemTexts) /\ Len(rows) = L - 1 /\ \A k \in 1..(L - 1) : rows[k] = lines[k]
    BY <2>1, <2>2, <1>8, FirstPart
  <2>4. DOMAIN rows = 1..Len(rows)
    BY <2>3, LenProperties
  <2>5. ~whole
    BY <1>8, <1>10
  <2>6. \A k \in 1..Len(rows) : rows[k] = <<>> \/ rows[k] = <<names[k]>>
    <3> SUFFICES ASSUME NEW k \in 1..Len(rows) PROVE rows[k] = <<>> \/ rows[k] = <<names[k]>>
      OBVIOUS
    <3>1. k \in 1..L /\ k \in 1..(L - 1) /\ k # L
      BY <2>3, <1>8
    <3> QED BY <3>1, <2>3, <1>8
  <2>7. Len(rows) \in 0..K
    BY <2>3, <1>8
  <2> HIDE DEF rows
  <2>8. LinesFor(rows, names, K)
    BY <2>3, <2>4, <2>6, <2>7 DEF LinesFor
  <2> QED BY <2>5, <2>8 DEF RowsShown, rows, t
<1>11. CASE lines[L] # <<>>
  <2>1. rows = lines
    BY <1>6, <1>9, <1>11
  <2>2. Len(rows) \in 0..K /\ DOMAIN rows = 1..Len(rows)
    BY <2>1, <1>8
  <2>3. ASSUME whole PROVE LinesForAll(rows, names, row[Len(text)])
    <3>1. copy[m] = text[m] /\ m = Len(text)
      BY <2>3
    <3>2. \A k \in 1..L : lines[k] # <<>>
      BY <2>3, <1>8, <1>11
    <3>3. \A k \in 1..L : lines[k] = <<names[k]>>
      BY <3>1, <3>2, <1>8
    <3> QED BY <3>1, <3>3, <2>1, <1>8 DEF LinesForAll
  <2> HIDE DEF rows
  <2>4. LinesFor(rows, names, K)
    BY <2>1, <2>2, <1>8 DEF LinesFor
  <2> QED BY <2>3, <2>4 DEF RowsShown, rows, t
<1> QED BY <1>10, <1>11

\* What is shown under a bus route.
LEMMA BusShows ==
  ASSUME NEW app \in Range(Datasets), NEW route \in Range(app.routes),
         route_display_label(app, route) # <<>>, NEW room \in Nat, room >= BusRoom
  PROVE  ShowsStops(app, route, StopLines(Tail(safe_strcpy(BusShown, BusItem(app, route, room)))))
<1> DEFINE text == BusItem(app, route, room)
           h == BusHead(app, route)
           copy == safe_strcpy(BusShown, text)
           rows == RowsShown(copy)
           K == Len(route.stops)
<1>1. /\ BusShown \in Nat /\ BusRoom \in Nat /\ BusShown > h + 1
      /\ h \in Nat /\ h > 0 /\ K \in Nat /\ DOMAIN route.stops = 1..K
  <2>1. BusShown \in Nat /\ BusRoom \in Nat
    BY SearchAssumption
  <2>2. h + 1 < BusShown
    BY RoomAssumption
  <2>3. h \in Nat /\ h > 0 /\ route.stops \in Seq(Named)
    BY StopNamesAre
  <2>4. K \in Nat /\ DOMAIN route.stops = 1..K
    BY <2>3, LenProperties
  <2> HIDE DEF h, K
  <2> QED BY <2>1, <2>2, <2>3, <2>4
<1>2. CASE route.stops = <<>>
  <2> DEFINE p == Piece(Dash, 1)
             names == <<p>>
             head == <<Piece(Fields, h)>>
  <2>1. text = Append(head, p)
    BY <1>2, BusItemFits
  <2>2. p \in Pieces(Whats) /\ p.what = Dash /\ p.bytes = 1 /\ Dash \notin Starts /\ Dash # Comma
    <3>1. Dash \in Whats /\ Dash \notin Starts /\ Dash # Comma
      BY WhatsAre DEF Starts, Dash, Fields, Comma
    <3> QED BY <3>1, PieceIs
  <2> HIDE DEF p, h
  <2>3. /\ head \in Seq(Pieces(Whats)) /\ Length(head) = h /\ Len(head) = 1
        /\ Rows(head, names, 1, 1) /\ NoGaps(head) /\ head[Len(head)].what \in Starts
    BY <1>1, HeadAlone
  <2> HIDE DEF head
  <2>4. names[1] = p
    OBVIOUS
  <2> HIDE DEF names
  <2>5. Rows(text, names, 1, 1) /\ NoGaps(text)
    <3> HIDE DEF text
    <3>1. p.what # Comma /\ p.bytes > 0 /\ p = names[1]
      BY <2>2, <2>4
    <3>2. 1 \in Nat /\ 1 > 0
      OBVIOUS
    <3>3. Rows(Append(head, p), names, 1, 1) /\ NoGaps(Append(head, p))
      BY <2>2, <2>3, <3>1, <3>2, NameMore
    <3> QED BY <2>1, <3>3
  <2>6. Len(text) = 2 /\ text[2] = p /\ Length(text) = h + 1
    <3> HIDE DEF text
    <3>1. Len(Append(head, p)) = Len(head) + 1 /\ Append(head, p)[Len(head) + 1] = p
      <4>1. head \in Seq(Pieces(Whats)) /\ p \in Pieces(Whats)
        BY <2>2, <2>3
      <4> QED BY <4>1, AppendProperties
    <3>2. Length(Append(head, p)) = Length(head) + p.bytes
      BY <2>2, <2>3, LengthAppend
    <3> QED BY <2>1, <2>2, <2>3, <3>1, <3>2
  <2> HIDE DEF text
  <2>7. PICK row : RowsOf(text, names, 1, row) /\ row[Len(text)] = 1
    BY <2>5 DEF Rows
  <2>8. NoneStarts(names, 1)
    BY <2>2, <2>4 DEF NoneStarts
  <2>9. CopyOf(text, copy) /\ copy = text
    <3>1. Length(text) < BusShown /\ BusShown > 1 /\ 1 \in Nat
      BY <2>6, <1>1
    <3> QED BY <3>1, <2>7, <1>1, CopyOfText
  <2>10. NoGaps(text) /\ text[Len(text)].what \notin Starts
    BY <2>2, <2>5, <2>6
  <2> HIDE DEF copy
  <2>11. /\ LinesFor(rows, names, 1)
         /\ LinesForAll(rows, names, row[Len(text)])
    <3>1. 1 \in Nat
      OBVIOUS
    <3> QED BY <3>1, <2>7, <2>8, <2>9, <2>10, ShownLines
  <2> HIDE DEF rows
  <2>12. rows \in Seq(ItemTexts) /\ Len(rows) = 1 /\ rows[1] = <<p>>
    BY <2>7, <2>11, <2>4 DEF LinesFor, LinesForAll
  <2>13. rows = <<<<p>>>>
    <3>1. <<p>> \in ItemTexts
      <4>1. 1 \in 1..Len(rows)
        BY <2>12
      <4> QED BY <4>1, <2>12, ElementOfSeq
    <3>2. <<<<p>>>> \in Seq(ItemTexts) /\ Len(<<<<p>>>>) = 1 /\ <<<<p>>>>[1] = <<p>>
      BY <3>1
    <3> HIDE DEF p
    <3>3. Len(rows) = Len(<<<<p>>>>) /\ \A k \in 1..Len(rows) : rows[k] = <<<<p>>>>[k]
      BY <3>2, <2>12
    <3> QED BY <3>2, <3>3, <2>12, SeqEqual
  <2>14. ShowsStops(app, route, rows)
    BY <1>2, <2>13 DEF ShowsStops, p
  <2> QED BY <2>14 DEF rows, copy, text, RowsShown
<1>3. CASE route.stops # <<>>
  <2> DEFINE names == StopPieces(app, route)
             sizes == SizesOf(StopNames(app, route))
             name(k) == <<find_node_name_by_id(app, route.stops[k])>>
             whole == WholeBusItem(app, route)
  <2>1. BusRows(text, names, K, room, h, sizes)
    BY <1>3, BusItemIs
  <2>2. /\ sizes \in Seq(Nat) /\ Len(sizes) = K
        /\ whole = h + Total(sizes) + K
        /\ Total(sizes) \in Nat /\ Upto(sizes, K) = Total(sizes)
    <3>1. sizes \in Seq(Nat) /\ Len(sizes) = K /\ Total(sizes) = Size(StopNames(app, route))
      BY StopNamesAre
    <3>2. Total(sizes) \in Nat /\ Upto(sizes, Len(sizes)) = Total(sizes)
      BY <3>1, TotalFacts, UptoFacts
    <3>3. whole = h + Size(StopNames(app, route)) + K
      BY DEF WholeBusItem
    <3> HIDE DEF whole, sizes, h, K
    <3> QED BY <3>1, <3>2, <3>3
  <2>3. \A k \in 1..K : /\ names[k].what \notin Starts /\ names[k].what = name(k)
                        /\ names[k] = Piece(name(k), Size(name(k)))
    <3> SUFFICES ASSUME NEW k \in 1..K
                 PROVE /\ names[k].what \notin Starts /\ names[k].what = name(k)
                       /\ names[k] = Piece(name(k), Size(name(k)))
      OBVIOUS
    <3> DEFINE w == <<StopNames(app, route)[k]>>
    <3>1. w = name(k) /\ w \notin Starts /\ names[k] = Piece(w, Size(w))
      BY StopPiece
    <3> HIDE DEF w, names
    <3>2. Piece(w, Size(w)).what = w
      BY DEF Piece
    <3> QED BY <3>1, <3>2
  <2> HIDE DEF text, h, names, sizes, K
  <2>4. PICK r : Rows(text, names, K, r) /\ (r = K \/ Length(text) = room - 1)
    BY <2>1 DEF BusRows
  <2>5. PICK row : RowsOf(text, names, K, row) /\ row[Len(text)] = r
    BY <2>4 DEF Rows
  <2>6. CopyOf(text, copy) /\ (Length(text) < BusShown => copy = text)
    <3>1. BusShown > 1
      BY <1>1
    <3> QED BY <3>1, <2>5, <1>1, CopyOfText
  <2>7. whole < BusRoom /\ whole <= BusShown =>
          /\ copy = text /\ NoGaps(text) /\ text[Len(text)].what \notin Starts
          /\ row[Len(text)] = K
    <3> SUFFICES ASSUME whole < BusRoom, whole <= BusShown
                 PROVE /\ copy = text /\ NoGaps(text) /\ text[Len(text)].what \notin Starts
                       /\ row[Len(text)] = K
      OBVIOUS
    <3> HIDE DEF whole, copy
    <3>1. h + Total(sizes) + Len(sizes) < room
      BY <2>2, <1>1
    <3>2. Length(text) = h + Upto(sizes, K) + (K - 1) /\ NoGaps(text) /\ text[Len(text)].what \notin Starts
      BY <2>1, <3>1 DEF BusRows
    <3>3. Length(text) = whole - 1
      BY <3>2, <2>2, <1>1
    <3>4. Length(text) < BusShown /\ Length(text) # room - 1
      BY <3>3, <2>2, <1>1
    <3> QED BY <3>2, <3>4, <2>4, <2>5, <2>6
  <2> HIDE DEF copy, whole
  <2>8. /\ rows \in Seq(ItemTexts) /\ DOMAIN rows = 1..Len(rows) /\ Len(rows) \in 0..K
        /\ \A k \in 1..Len(rows) :
             \/ rows[k] = <<>> \/ rows[k] = <<names[k]>>
             \/ k = Len(rows) /\ Len(rows[k]) = 1 /\ rows[k][1].what = names[k].what
        /\ whole < BusRoom /\ whole <= BusShown =>
             Len(rows) = K /\ \A k \in 1..Len(rows) : rows[k] = <<names[k]>>
    <3>1. NoneStarts(names, K)
      BY <2>3 DEF NoneStarts
    <3>2. K \in Nat
      BY <1>1
    <3>3. /\ LinesFor(rows, names, K)
          /\ copy = text /\ NoGaps(text) /\ text[Len(text)].what \notin Starts =>
               LinesForAll(rows, names, row[Len(text)])
      BY <3>1, <3>2, <2>5, <2>6, ShownLines
    <3> HIDE DEF rows
    <3>4. whole < BusRoom /\ whole <= BusShown =>
            Len(rows) = K /\ \A k \in 1..Len(rows) : rows[k] = <<names[k]>>
      BY <3>3, <2>7 DEF LinesForAll
    <3> QED BY <3>3, <3>4 DEF LinesFor
  <2> HIDE DEF rows
  <2>9. ASSUME NEW k \in DOMAIN rows
        PROVE  \/ rows[k] = <<>> \/ rows[k] = <<Piece(name(k), Size(name(k)))>>
               \/ k = Len(rows) /\ Len(rows[k]) = 1 /\ rows[k][1].what = name(k)
    <3>1. k \in 1..Len(rows) /\ k \in 1..K
      <4>1. DOMAIN rows = 1..Len(rows) /\ Len(rows) \in 0..K /\ K \in Nat
        BY <2>8, <1>1
      <4> QED BY <4>1
    <3> HIDE DEF name
    <3> QED BY <3>1, <2>8, <2>3
  <2>10. ASSUME whole < BusRoom, whole <= BusShown
         PROVE  rows = [k \in 1..K |-> <<Piece(name(k), Size(name(k)))>>]
    <3> HIDE DEF name
    <3>1. rows \in [1..K -> ItemTexts]
      BY <2>8, <2>10, LenProperties
    <3>2. \A k \in 1..K : rows[k] = <<Piece(name(k), Size(name(k)))>>
      BY <2>8, <2>10, <2>3
    <3> QED BY <3>1, <3>2
  <2>11. ShowsStops(app, route, rows)
    BY <1>1, <1>3, <2>9, <2>10 DEF ShowsStops, whole
  <2> QED BY <2>11 DEF rows, copy, text, RowsShown
<1> QED BY <1>2, <1>3

-----------------------------------------------------------------------------
(* The screen *)

\* What is shown under a stop.
LEMMA StopShows ==
  ASSUME NEW app \in Range(Datasets), NEW stop \in StopEntries,
         NEW p \in Range(LabelPieces(safe_strcpy(ItemShown, StopItem(app, stop))))
  PROVE  p.what \in (IF LabelsOf(app, stop) = {} THEN {Dash} ELSE LabelsOf(app, stop))
<1> DEFINE text == StopItem(app, stop)
           copy == safe_strcpy(ItemShown, text)
           T == {q \in Range(copy) : q.what \notin {Fields, Comma, Note, Close}}
<1>1. text \in Seq(Pieces(Whats))
  BY StopItemIs
<1>2. ItemShown \in Nat /\ ItemShown > 0
  BY SearchAssumption
<1> HIDE DEF text
<1>3. copy \in Seq(Pieces(WhatsOf(text)))
  BY <1>1, <1>2, CopyWhats
<1> HIDE DEF copy
<1>4. p \in Range(copy) /\ p \in T
  <2>1. p \in Range(Keep(copy, T))
    BY DEF LabelPieces, copy, text
  <2> HIDE DEF T
  <2>2. Range(Keep(copy, T)) = Range(copy) \cap T
    BY <1>3, KeepRange
  <2> QED BY <2>1, <2>2
<1>5. p.what \in WhatsOf(text) /\ p.what \notin {Fields, Comma, Note, Close}
  <2>1. Range(copy) \subseteq Pieces(WhatsOf(text))
    BY <1>3, RangeOf
  <2>2. p.what \in WhatsOf(text)
    BY <2>1, <1>4 DEF Pieces
  <2> QED BY <2>2, <1>4
<1>6. PICK q \in Range(text) : q.what = p.what
  BY <1>5 DEF WhatsOf
<1>7. q.what \in {Fields, Comma, Note, Close} \cup
                 (IF LabelsOf(app, stop) = {} THEN {Dash} ELSE LabelsOf(app, stop))
  BY <1>6, StopItemIs DEF text
<1> QED BY <1>5, <1>6, <1>7

\* An answer becomes what is shown of it.
LEMMA ViewAgrees ==
  ASSUME SearchTypes, SoFar, pc = "sent", View
  PROVE  ScreenAgrees'
<1>1. town' = town /\ request' = request /\ data' = data
  BY DEF View, data
<1>2. CASE code # OK
  <2>1. shown' = <<>>
    BY <1>2 DEF View
  <2>2. DOMAIN shown' = {}
    BY <2>1
  <2> QED BY <2>2 DEF ScreenAgrees
<1>3. CASE code = OK
  <2>1. Answering
    BY <1>3 DEF Answering, OK, INVALID_REQUEST
  <2>2. shown' = [n \in DOMAIN items |-> ItemView(items[n])]
    BY <1>3 DEF View
  <2>3. DOMAIN shown' = DOMAIN items /\ \A n \in DOMAIN items : shown'[n] = ItemView(items[n])
    BY <2>2
  <2>4. data \in Range(Datasets) /\ data.stops \in Seq(StopEntries)
        /\ data.routes \in Seq(RouteEntries)
    BY DataIs
  <2>5. ASSUME NEW n \in DOMAIN items, request.type = "bus"
        PROVE  ShowsStops(data, data.routes[shown'[n].of], shown'[n].rows)
    <3> DEFINE route == data.routes[items[n].of]
    <3>1. ListsTheBestBuses /\ items[n].of \in Listed
      BY <2>1, <2>5 DEF SoFar, Listed
    <3>2. items[n].of \in DOMAIN data.routes /\ route_display_label(data, route) # <<>>
      BY <3>1 DEF ListsTheBestBuses, WantedBuses
    <3>3. route \in Range(data.routes)
      <4>1. DOMAIN data.routes = 1..Len(data.routes)
            /\ Range(data.routes) = {data.routes[i] : i \in 1..Len(data.routes)}
        BY <2>4, RangeOf
      <4> QED BY <4>1, <3>2
    <3>4. PICK room \in BusRoom..MaxPacket : items[n].text = BusItem(data, route, room)
      BY <2>1, <2>5 DEF SoFar
    <3>5. room \in Nat /\ room >= BusRoom
      BY SearchAssumption, PacketAssumption
    <3> DEFINE rows == StopLines(Tail(safe_strcpy(BusShown, items[n].text)))
    <3>6. ShowsStops(data, route, rows)
      <4> HIDE DEF route
      <4> QED BY <2>4, <3>2, <3>3, <3>4, <3>5, BusShows
    <3>7. shown'[n] = [of |-> items[n].of, rows |-> rows]
      BY <2>3, <2>5 DEF ItemView
    <3> HIDE DEF rows
    <3>8. shown'[n].of = items[n].of /\ shown'[n].rows = rows
      BY <3>7
    <3> QED BY <3>6, <3>8
  <2>6. ASSUME NEW n \in DOMAIN items, request.type = "stop",
               NEW p \in Range(LabelPieces(shown'[n].rows))
        PROVE  p.what \in (IF LabelsOf(data, data.stops[shown'[n].of]) = {} THEN {Dash}
                           ELSE LabelsOf(data, data.stops[shown'[n].of]))
    <3> DEFINE stop == data.stops[items[n].of]
               rows == safe_strcpy(ItemShown, items[n].text)
    <3>1. items[n].text = StopItem(data, stop) /\ items[n].of \in Listed
          /\ ListsTheFirst(MatchingStops, MaxStops, StopNeeds)
      BY <2>1, <2>6 DEF SoFar, Listed
    <3>2. items[n].of \in DOMAIN data.stops
      BY <3>1 DEF ListsTheFirst, MatchingStops
    <3>3. stop \in StopEntries
      <4>1. DOMAIN data.stops = 1..Len(data.stops)
        BY <2>4, RangeOf
      <4> QED BY <4>1, <3>2, <2>4, ElementOfSeq
    <3>4. shown'[n] = [of |-> items[n].of, rows |-> rows]
      BY <2>3, <2>6 DEF ItemView
    <3>5. shown'[n].of = items[n].of /\ shown'[n].rows = rows
      <4> HIDE DEF rows
      <4> QED BY <3>4
    <3> HIDE DEF stop
    <3>6. p \in Range(LabelPieces(safe_strcpy(ItemShown, StopItem(data, stop))))
      BY <2>6, <3>1, <3>5
    <3>7. p.what \in (IF LabelsOf(data, stop) = {} THEN {Dash} ELSE LabelsOf(data, stop))
      BY <2>4, <3>3, <3>6, StopShows
    <3> QED BY <3>5, <3>7 DEF stop
  <2>7. ASSUME NEW n \in DOMAIN shown'
        PROVE  /\ request'.type = "bus" =>
                    ShowsStops(data', data'.routes[shown'[n].of], shown'[n].rows)
               /\ request'.type = "stop" =>
                    \A p \in Range(LabelPieces(shown'[n].rows)) :
                      p.what \in (IF LabelsOf(data', data'.stops[shown'[n].of]) = {} THEN {Dash}
                                  ELSE LabelsOf(data', data'.stops[shown'[n].of]))
    BY <1>1, <2>3, <2>5, <2>6
  <2> QED BY <2>7 DEF ScreenAgrees
<1> QED BY <1>2, <1>3

\* The screen agrees with the data of the town, whatever was cut off on its way there: each
\* line under a bus route is that of its stop, and only routes of a stop are under it
\* (search_service.c:694, result_viewer.c:90 and :155).
THEOREM ScreenShowsTheData == Spec => []ScreenAgrees
<1>1. Init => ScreenAgrees
  <2> SUFFICES ASSUME Init PROVE ScreenAgrees
    OBVIOUS
  <2>1. DOMAIN shown = {}
    BY DEF Init, SearchInit
  <2> QED BY <2>1 DEF ScreenAgrees
<1>2. ASSUME TypesInv, SoFar, ScreenAgrees, [Next]_vars PROVE ScreenAgrees'
  <2>1. SearchTypes
    BY <1>2 DEF TypesInv
  <2>2. CASE town' = town /\ request' = request /\ shown' = shown
    <3>1. data' = data
      BY <2>2 DEF data
    <3> QED BY <1>2, <2>2, <3>1 DEF ScreenAgrees
  <2>3. CASE Read \/ Greet \/ UNCHANGED vars
    BY <2>2, <2>3 DEF Read, Greet, vars, searchVars
  <2>4. CASE Route
    <3>1. DOMAIN shown' = {}
      BY <2>4 DEF Route, Begin
    <3> QED BY <3>1 DEF ScreenAgrees
  <2>5. CASE Serve
    <3>1. town' = town /\ request' = request /\ shown' = shown
      BY <2>5 DEF Serve, ServiceStep, handle_stop_search, handle_subway_search, handle_facility, Turn,
         BusTurn, BusRank, ListEnd, Finish, handle_arrival, handle_crowding, LookUp
    <3> QED BY <2>2, <3>1
  <2>6. CASE Reply
    BY <1>2, <2>1, <2>6, ViewAgrees DEF Reply
  <2> QED BY <1>2, <2>3, <2>4, <2>5, <2>6 DEF Next
<1>3. TypesInv /\ SoFar /\ ScreenAgrees /\ [Next]_vars => ScreenAgrees'
  BY <1>2
<1> QED BY <1>1, <1>3, TypesAlways, SoFarAlways, PTL DEF Spec
=============================================================================
