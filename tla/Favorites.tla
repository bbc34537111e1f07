------------------------------ MODULE Favorites ------------------------------
(***************************************************************************)
(* The favourites half of src/server/user_state_service.c: the handlers    *)
(* behind FAVORITE_ADD, FAVORITE_LIST and FAVORITE_DELETE, working on      *)
(* data/favorites.txt and data/favorites.tmp.                              *)
(*                                                                         *)
(* A file is its lines and whether the last one ends in a newline.  A line *)
(* "type|id|name" is abstracted to its key, the pair (type, id) duplicates *)
(* are judged by, and to how much of the format it has:                    *)
(*   rec     two bars and no blank field: favorite_exists and the list     *)
(*           both see it;                                                  *)
(*   noname  two bars and a blank name: only favorite_exists sees it;      *)
(*   torn    fewer than two bars: neither sees it, deletion counts it;     *)
(*   blank   skipped by everyone, dropped by a deletion.                   *)
(* NoKey is the key of a line that stands for no favourite a client can    *)
(* ask for.                                                                *)
(*                                                                         *)
(* Deleting takes several system calls, so it is several actions here and  *)
(* the process may die between any two.  Faults names what the             *)
(* environment does in an instance:                                        *)
(*   open, remove, rename   the call fails (fopen for writing);            *)
(*   write                  fprintf, fputs or fclose write only a part,    *)
(*                          which the code does not check;                 *)
(*   read                   fopen for reading fails though the file is     *)
(*                          there;                                         *)
(*   crash                  the process is killed and started again.       *)
(***************************************************************************)
EXTENDS Loops, Integers, SequencesExt

CONSTANTS
  Keys,          \* (type, id) pairs
  NoKey,         \* the key of a line that names no favourite
  NoFile,        \* the file does not exist
  AddReqs,       \* the payloads of FAVORITE_ADD_REQ
  KeyOf,         \* payload -> its normalised key, NoKey if it is malformed
  InCsv,         \* the payloads that name a stop, route or station of the CSV data
  Numbers,       \* the payloads of FAVORITE_DELETE_REQ: integers as typed
  Word,          \* values of an int, 2^32 in the code
  MaxLines,      \* bound: no line is appended beyond this many
  MaxShown,      \* entries that fit the response buffer of MAX_PACKET_SIZE bytes
  InitFiles,     \* the files the server may find at its first start
  Faults         \* what may go wrong, see above

Kinds == {"rec", "noname", "torn", "blank"}
Line  == [kind : Kinds, key : Keys \cup {NoKey}]
File  == [lines : Seq(Line), nl : BOOLEAN]

ERR_OK              == 0
ERR_NOT_FOUND       == 1
ERR_INVALID_REQUEST == 2
ERR_SERVER_ERROR    == 4
Codes == {ERR_OK, ERR_NOT_FOUND, ERR_INVALID_REQUEST, ERR_SERVER_ERROR}

ASSUME FavAssumption ==
  /\ NoKey \notin Keys
  /\ NoFile \notin File
  /\ KeyOf \in [AddReqs -> Keys \cup {NoKey}]
  /\ InCsv \subseteq AddReqs
  /\ Numbers \subseteq Int
  /\ Word \in Nat \ {0}
  /\ MaxLines \in Nat
  /\ MaxShown \in Nat
  /\ InitFiles \subseteq File \cup {NoFile}

VARIABLES
  fav,       \* data/favorites.txt
  favTmp,    \* data/favorites.tmp
  pc,        \* where the handler is
  typed,     \* the number a deletion was asked for, 0 for other requests
  target,    \* target_index, the int made of it
  answer,    \* the last response: operation, argument, code, whether an entry
             \* was stored or removed, and the entries listed
  before,    \* history: favorites.txt as the last request found it
  mishaps    \* history: what went wrong so far: "damaged", the first file had lines
             \* this server does not write; "short", a write was; "unread", a file
             \* was; "lost", the old file was removed and the new one not named

vars == <<fav, favTmp, pc, typed, target, answer, before, mishaps>>

-----------------------------------------------------------------------------
(* Reading a file *)

Empty == [lines |-> <<>>, nl |-> TRUE]

Rec(k) == [kind |-> "rec", key |-> k]

LinesOf(f) == IF f = NoFile THEN <<>> ELSE f.lines

\* The lines favorite_exists compares.
HasTwoBars(l) == l.kind \in {"rec", "noname"}

\* The lines handle_favorite_list takes for entries, and their keys.
Listed == [kind : {"rec"}, key : Keys \cup {NoKey}]

ListedKeys(f) == [i \in DOMAIN Keep(LinesOf(f), Listed) |-> Keep(LinesOf(f), Listed)[i].key]

\* The list stops at the first entry that no longer fits.
Shown(keys) == SubSeq(keys, 1, IF Len(keys) < MaxShown THEN Len(keys) ELSE MaxShown)

\* The lines handle_favorite_delete counts and copies.
NotBlank == [kind : Kinds \ {"blank"}, key : Keys \cup {NoKey}]

Counted(f) == Keep(LinesOf(f), NotBlank)

\* Mutant: lines with a blank name are not compared.
favorite_exists_Mut(f, k) == \E i \in DOMAIN LinesOf(f) : LinesOf(f)[i] = Rec(k)

favorite_exists(f, k) == \E i \in DOMAIN LinesOf(f) :
                            HasTwoBars(LinesOf(f)[i]) /\ LinesOf(f)[i].key = k

\* fopen(..., "r"): what the handler gets to read.
ReadsOf(f) == {f} \cup (IF "read" \in Faults THEN {NoFile} ELSE {})

\* str_to_int keeps the low bits of what strtol returns.
str_to_int(n) == LET m == n % Word IN IF 2 * m >= Word THEN m - Word ELSE m

\* A file as this server writes it.
Intact(f) == f # NoFile => /\ f.nl
                           /\ \A i \in DOMAIN f.lines : f.lines[i] \in [kind : {"rec"}, key : Keys]
                           /\ IsInjective(f.lines)

\* No two lines favorite_exists can read carry the key of one favourite.
NoDuplicates(f) ==
  \A i, j \in DOMAIN LinesOf(f) :
    LET a == LinesOf(f)[i]
        b == LinesOf(f)[j]
    IN  HasTwoBars(a) /\ HasTwoBars(b) /\ a.key = b.key /\ a.key \in Keys => i = j

\* A file that is there at the first start was written by this server.
ASSUME FilesAssumption == \A f \in InitFiles : NoDuplicates(f)

\* The mishaps after one more of this kind, if it happens.
Mishap(kind, happens) == mishaps' = mishaps \cup (IF happens THEN {kind} ELSE {})

-----------------------------------------------------------------------------
(* Writing a file *)

\* Text written right behind a line without a newline becomes part of that line:
\* it goes into the name of a line that has two bars already; a line with fewer
\* borrows the bars of the next one and ends up naming nothing.
Glued(a, b) == IF HasTwoBars(a)
                 THEN {Rec(a.key)}
                 ELSE {[kind |-> kd, key |-> NoKey] : kd \in {b.kind, "rec"}}

\* The line l appended to f, with or without the newline at its end.
Appended(f, l, ends) ==
  IF LinesOf(f) = <<>> \/ f.nl
    THEN {[lines |-> Append(LinesOf(f), l), nl |-> ends]}
    ELSE {[lines |-> Append(Front(f.lines), g), nl |-> ends] : g \in Glued(Last(f.lines), l)}

\* What a short write leaves of the line of key k.
Fragments(k) == {[kind |-> "torn", key |-> NoKey],
                 [kind |-> "noname", key |-> k], Rec(k)}

\* favorites.txt after fopen "a", fprintf and fclose for key k.
AppendOutcomes(f, k) ==
  Appended(f, Rec(k), TRUE) \cup
  (IF "write" \in Faults
     THEN {IF f = NoFile THEN Empty ELSE f} \cup
          UNION {Appended(f, l, FALSE) : l \in Fragments(k)}
     ELSE {})

\* Mutant: the temporary file is opened for appending.
OpenedTmp_Mut == IF favTmp = NoFile THEN Empty ELSE favTmp

\* fopen(SERVER_FAVORITE_TEMP_PATH, "w") leaves nothing of an older file.
OpenedTmp == Empty

\* Mutant: the loop ends at the chosen line (break for continue).
Copied_Mut(n) == SubSeq(Counted(fav), 1, n - 1)

\* The lines the loop copies when line n is to go.
Copied(n) == RemoveAt(Counted(fav), n)

\* favorites.tmp after the kept lines were put into it.
CopyOutcomes(kept) ==
  {[lines |-> favTmp.lines \o SubSeq(kept, 1, m), nl |-> TRUE] :
     m \in IF "write" \in Faults THEN 0..Len(kept) ELSE {Len(kept)}}

\* remove(SERVER_FAVORITE_TEMP_PATH), whose result nobody looks at.
AfterRemovingTmp == {NoFile} \cup (IF "remove" \in Faults THEN {favTmp} ELSE {})

-----------------------------------------------------------------------------
Silence == [op |-> "none", arg |-> 0, code |-> ERR_OK, did |-> FALSE, items |-> <<>>]

\* Mutant: codes are counted from 1.
Answer_Mut(op, arg, code, did) ==
  answer' = [op |-> op, arg |-> arg, code |-> code + 1, did |-> did, items |-> <<>>]

Answer(op, arg, code, did) ==
  answer' = [op |-> op, arg |-> arg, code |-> code, did |-> did, items |-> <<>>]

Init == /\ fav \in InitFiles
        /\ favTmp = NoFile
        /\ pc = "idle"
        /\ typed = 0
        /\ target = 0
        /\ answer = Silence
        /\ before = fav
        /\ mishaps = IF Intact(fav) THEN {} ELSE {"damaged"}

\* The key of a payload: three fields, none blank or with a separator, the type in
\* one of its spellings.
normalize(p) == KeyOf[p]

favorite_target_exists(p) == p \in InCsv

\* handle_favorite_add, up to the reply.  Only fclose touches the file, so the
\* handler is one step.
handle_favorite_add(p) ==
  /\ pc = "idle"
  /\ before' = fav
  /\ typed' = 0
  /\ target' = 0
  /\ \/ /\ normalize(p) = NoKey
        /\ Answer("add", normalize(p), ERR_INVALID_REQUEST, FALSE)
        /\ UNCHANGED <<fav, mishaps>>
     \/ /\ normalize(p) # NoKey
        /\ ~favorite_target_exists(p)
        /\ Answer("add", normalize(p), ERR_NOT_FOUND, FALSE)
        /\ UNCHANGED <<fav, mishaps>>
     \/ /\ normalize(p) # NoKey
        /\ favorite_target_exists(p)
        /\ \E seen \in ReadsOf(fav) :
             \/ /\ favorite_exists(seen, normalize(p))
                /\ Answer("add", normalize(p), ERR_OK, FALSE)
                /\ UNCHANGED fav
                /\ Mishap("unread", seen # fav)
             \/ /\ ~favorite_exists(seen, normalize(p))
                /\ "open" \in Faults
                /\ Answer("add", normalize(p), ERR_SERVER_ERROR, FALSE)
                /\ UNCHANGED fav
                /\ Mishap("unread", seen # fav)
             \/ /\ ~favorite_exists(seen, normalize(p))
                /\ Len(LinesOf(fav)) < MaxLines
                /\ fav' \in AppendOutcomes(fav, normalize(p))
                /\ mishaps' = mishaps
                     \cup (IF seen # fav THEN {"unread"} ELSE {})
                     \cup (IF fav' \in Appended(fav, Rec(normalize(p)), TRUE) THEN {} ELSE {"short"})
                /\ Answer("add", normalize(p), ERR_OK, TRUE)
  /\ UNCHANGED <<favTmp, pc>>

handle_favorite_list ==
  /\ pc = "idle"
  /\ before' = fav
  /\ typed' = 0
  /\ target' = 0
  /\ \E seen \in ReadsOf(fav) :
       /\ answer' = [Silence EXCEPT !.op = "list", !.items = Shown(ListedKeys(seen))]
       /\ Mishap("unread", seen # fav)
  /\ UNCHANGED <<fav, favTmp, pc>>

\* handle_favorite_delete up to the second fopen.
DeleteOpen(n) ==
  /\ pc = "idle"
  /\ before' = fav
  /\ typed' = n
  /\ target' = str_to_int(n)
  /\ \/ /\ str_to_int(n) <= 0
        /\ Answer("delete", n, ERR_INVALID_REQUEST, FALSE)
        /\ UNCHANGED <<favTmp, pc, mishaps>>
     \/ /\ str_to_int(n) > 0
        /\ NoFile \in ReadsOf(fav)
        /\ Answer("delete", n, ERR_OK, FALSE)
        /\ Mishap("unread", fav # NoFile)
        /\ UNCHANGED <<favTmp, pc>>
     \/ /\ str_to_int(n) > 0
        /\ fav # NoFile
        /\ "open" \in Faults
        /\ Answer("delete", n, ERR_SERVER_ERROR, FALSE)
        /\ UNCHANGED <<favTmp, pc, mishaps>>
     \/ /\ str_to_int(n) > 0
        /\ fav # NoFile
        /\ favTmp' = OpenedTmp
        /\ pc' = "copy"
        /\ answer' = Silence
        /\ UNCHANGED mishaps
  /\ UNCHANGED fav

\* The copy loop and the two fclose; a number beyond the last line ends here.
DeleteCopy ==
  /\ pc = "copy"
  /\ \/ /\ target > Len(Counted(fav))
        /\ favTmp' \in {NoFile} \cup (IF "remove" \in Faults THEN CopyOutcomes(Counted(fav)) ELSE {})
        /\ pc' = "idle"
        /\ Answer("delete", typed, ERR_OK, FALSE)
        /\ UNCHANGED mishaps
     \/ /\ target <= Len(Counted(fav))
        /\ favTmp' \in CopyOutcomes(Copied(target))
        /\ pc' = "remove"
        /\ Mishap("short", Len(favTmp'.lines) < Len(Copied(target)))
        /\ UNCHANGED answer
  /\ UNCHANGED <<fav, typed, target, before>>

\* Mutant: a failed remove is reported as a deletion.
DeleteRemove_Mut ==
  /\ pc = "remove"
  /\ \/ /\ fav' = NoFile
        /\ pc' = "rename"
        /\ UNCHANGED <<favTmp, answer>>
     \/ /\ "remove" \in Faults
        /\ favTmp' = NoFile
        /\ pc' = "idle"
        /\ Answer("delete", typed, ERR_OK, TRUE)
        /\ UNCHANGED fav
  /\ UNCHANGED <<typed, target, before, mishaps>>

\* remove(SERVER_FAVORITE_PATH)
DeleteRemove ==
  /\ pc = "remove"
  /\ \/ /\ fav' = NoFile
        /\ pc' = "rename"
        /\ UNCHANGED <<favTmp, answer>>
     \/ /\ "remove" \in Faults
        /\ favTmp' \in AfterRemovingTmp
        /\ pc' = "idle"
        /\ Answer("delete", typed, ERR_SERVER_ERROR, FALSE)
        /\ UNCHANGED fav
  /\ UNCHANGED <<typed, target, before, mishaps>>

\* rename(SERVER_FAVORITE_TEMP_PATH, SERVER_FAVORITE_PATH) and the reply
DeleteRename ==
  /\ pc = "rename"
  /\ \/ /\ fav' = favTmp
        /\ favTmp' = NoFile
        /\ Answer("delete", typed, ERR_OK, TRUE)
        /\ UNCHANGED mishaps
     \/ /\ "rename" \in Faults
        /\ favTmp' \in AfterRemovingTmp
        /\ Answer("delete", typed, ERR_SERVER_ERROR, FALSE)
        /\ Mishap("lost", TRUE)
        /\ UNCHANGED fav
  /\ pc' = "idle"
  /\ UNCHANGED <<typed, target, before>>

\* The server is killed and started again: the loader reads no user file.
Crash ==
  /\ "crash" \in Faults
  /\ pc' = "idle"
  /\ answer' = Silence
  /\ Mishap("lost", pc = "rename")
  /\ UNCHANGED <<fav, favTmp, typed, target, before>>

Next == \/ \E p \in AddReqs : handle_favorite_add(p)
        \/ handle_favorite_list
        \/ \E n \in Numbers : DeleteOpen(n)
        \/ DeleteCopy \/ DeleteRemove \/ DeleteRename
        \/ Crash

Spec == Init /\ [][Next]_vars

-----------------------------------------------------------------------------
(* Properties *)

TypeOK ==
  /\ fav \in File \cup {NoFile}
  /\ favTmp \in File \cup {NoFile}
  /\ pc \in {"idle", "copy", "remove", "rename"}
  /\ typed \in Int
  /\ target \in Int
  /\ answer \in [op : {"none", "add", "list", "delete"}, arg : Int \cup Keys \cup {NoKey},
                 code : Codes, did : BOOLEAN, items : Seq(Keys \cup {NoKey})]
  /\ before \in File \cup {NoFile}
  /\ mishaps \subseteq {"damaged", "short", "unread", "lost"}

\* Requirement FR-U03: no two lines of favorites.txt that favorite_exists can
\* read carry the same type and id, whatever else fails, as long as the file can be
\* opened for reading when it is there.
NoDuplicateFavorites ==
  "unread" \notin mishaps => NoDuplicates(fav)

\* Requirement FR-U04: a deletion takes away the line with the chosen number and
\* nothing else, and every other request takes away nothing: between requests the
\* lines the last one found are all there, in their order, but for that one.
OnlyTheChosenLineGoes ==
  pc = "idle" =>
    LET old  == Counted(before)
        kept == IF target \in DOMAIN old THEN RemoveAt(old, target) ELSE old
    IN  IsPrefix(kept, Counted(fav)) \/ IsPrefix(old, Counted(fav))

\* Where writes go through, a deletion that is cut short or fails leaves the old
\* lines, the new ones, or no file at all, and never a part of either; the lines
\* are gone only if the calls that replace the file were parted.
AllOrNothing ==
  mishaps \subseteq {"lost"} =>
    OnlyTheChosenLineGoes \/ (fav = NoFile /\ "lost" \in mishaps)

\* The number a client sees in front of an entry of the list is the number that
\* deletes this entry.
DeletesTheListedEntry ==
  answer.op = "delete" /\ answer.did =>
    /\ target \in DOMAIN ListedKeys(before)
    /\ ListedKeys(fav) = RemoveAt(ListedKeys(before), target)

\* Requirement FR-U04, exception: a number that is not on the list deletes nothing.
MissingNumberDeletesNothing ==
  answer.op = "delete" /\ answer.did => typed \in DOMAIN Counted(before)

KeysIn(f) == {LinesOf(f)[i].key : i \in DOMAIN LinesOf(f)}

\* A deleted favourite stays deleted: whatever an interrupted or failed deletion
\* left in favorites.tmp, a request brings into favorites.txt only the keys it
\* found there and the one it adds.
NothingReappears ==
  [][KeysIn(fav') \subseteq KeysIn(IF pc = "rename" THEN before ELSE fav)
                           \cup {NoKey, answer'.arg}]_vars

\* What the store of FavoriteStore holds and has said last.
Entries == IF mishaps # {} THEN <<>> ELSE ListedKeys(IF pc = "rename" THEN before ELSE fav)

Told == IF mishaps # {} THEN [op |-> "none", arg |-> 0, ok |-> TRUE, did |-> FALSE, items |-> <<>>]
        ELSE [op |-> answer.op, arg |-> answer.arg, ok |-> answer.code = ERR_OK,
              did |-> answer.did, items |-> answer.items]

\* As long as nothing worse happens than fopen or remove failing, or a crash that
\* does not part remove and rename, favorites.txt and its handlers implement that
\* store: a deletion takes effect when the new file gets its name, an add that is
\* answered with ERR_OK is listed, an entry goes by its number.
Store == INSTANCE FavoriteStore WITH entries <- Entries, told <- Told, sound <- mishaps = {}

ImplementsStore == Store!StoreSpec

\* What makes these inductive.  While a deletion is under way, favorites.txt is as it
\* found it until it is removed, and favorites.tmp holds what has been copied of it.
DeleteInv ==
  /\ pc # "idle" => /\ before # NoFile /\ answer = Silence
                    /\ typed \in Numbers /\ target = str_to_int(typed) /\ target > 0
  /\ pc \in {"copy", "remove"} => fav = before
  /\ pc = "rename" => fav = NoFile
  /\ pc = "copy" => favTmp = Empty
  /\ pc \in {"remove", "rename"} =>
       /\ target <= Len(Counted(before))
       /\ LET kept == RemoveAt(Counted(before), target)
          IN  \E m \in 0..Len(kept) :
                /\ favTmp = [lines |-> SubSeq(kept, 1, m), nl |-> TRUE]
                /\ m < Len(kept) => "short" \in mishaps

\* The file, and the one the last request found, are as this server writes them.
FilesInv ==
  /\ mishaps \subseteq {"lost"} => Intact(fav) /\ Intact(before)
  /\ "unread" \notin mishaps => NoDuplicates(fav) /\ NoDuplicates(before)

IInv == TypeOK /\ DeleteInv /\ FilesInv /\ AllOrNothing
=============================================================================
