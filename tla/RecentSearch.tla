---------------------------- MODULE RecentSearch -----------------------------
(***************************************************************************)
(* The recent-search half of src/server/user_state_service.c:              *)
(* server_recent_add, which the router calls after a search that           *)
(* succeeded, and handle_recent_list, on data/recent_search.txt and        *)
(* data/recent_search.tmp.                                                 *)
(*                                                                         *)
(* A line "type|keyword|time" is an entry: what was searched and a number  *)
(* that stands for the time.  Damaged lines miss a bar or have a blank     *)
(* field: the list skips them, server_recent_add copies them like any      *)
(* other.  Blank lines are skipped by both.  A search that fails, or whose *)
(* text is blank or holds a bar, leaves everything alone and is no step    *)
(* here.  Twenty lines of 1023 bytes fit the response buffer, so the list  *)
(* is never cut short.                                                     *)
(*                                                                         *)
(* The process may die between any two system calls.  Faults names what    *)
(* the environment does in an instance:                                    *)
(*   read, open    fopen fails for reading, for writing;                   *)
(*   write         fprintf or fclose write a part only, unnoticed;         *)
(*   remove, rename  the call fails;                                       *)
(*   crash         the process is killed and started again.                *)
(***************************************************************************)
EXTENDS Loops, Integers, SequencesExt

CONSTANTS
  Searches,      \* the (type, keyword) pairs that are recorded
  BLANK,         \* a line with nothing but blanks
  DAMAGED,       \* a line that does not have the three fields
  NoFile,        \* the file does not exist
  MaxCount,      \* SERVER_RECENT_MAX_COUNT, 20 in the code
  InitFiles,     \* the files the server may find at its first start
  MaxSearches,   \* bound: number of searches recorded
  Faults         \* what may go wrong, see above

\* Searches of this run are made at 1, 2, ..., older ones before 1.
Entries == [what : Searches, at : Int]
Lines   == Entries \cup {BLANK, DAMAGED}
Files   == Seq(Lines) \cup {NoFile}

ASSUME RecentAssumption ==
  /\ MaxCount \in Nat \ {0}
  /\ MaxSearches \in Nat
  /\ BLANK \notin Entries
  /\ DAMAGED \notin Entries \cup {BLANK}
  /\ NoFile \notin Seq(Lines)
  /\ InitFiles \subseteq Files

VARIABLES
  file,      \* data/recent_search.txt
  tmp,       \* data/recent_search.tmp
  pc,        \* where server_recent_add is
  kept,      \* its array recent[0 .. count-1]
  record,    \* the line it is going to add
  shown,     \* the last RECENT_LIST_RES, empty while something is recorded
  log,       \* history: every line that was ever in recent_search.txt
  made,      \* history: number of searches so far
  mishaps    \* history: what went wrong so far: "damaged", the first file had lines
             \* the list skips; "short", a write was; "unread", the file was; "lost",
             \* the old file was removed and the new one not named

vars == <<file, tmp, pc, kept, record, shown, log, made, mishaps>>

-----------------------------------------------------------------------------
LinesOf(f) == IF f = NoFile THEN <<>> ELSE f

\* The last n elements of s: what is left of s in an array that shifts out the
\* oldest element when it is full.
LastOf(s, n) == IF Len(s) <= n THEN s ELSE SubSeq(s, Len(s) - n + 1, Len(s))

\* The lines server_recent_add copies; handle_recent_list takes the Entries.
NotBlank == Lines \ {BLANK}

\* fopen(..., "r"): what there is to read.
ReadsOf(f) == {f} \cup (IF "read" \in Faults THEN {NoFile} ELSE {})

\* The mishaps after one more of this kind, if it happens.
Mishap(kind, happens) == mishaps' = mishaps \cup (IF happens THEN {kind} ELSE {})

\* Mutant: blank lines are copied too.
KeptBlanks_Mut(f) == LastOf(LinesOf(f), MaxCount - 1)

\* The lines server_recent_add keeps of f.
Kept(f) == LastOf(Keep(LinesOf(f), NotBlank), MaxCount - 1)

\* Mutant: the newest lines are shown, oldest of them first.
ListOf_Mut(f) == LastOf(Keep(LinesOf(f), Entries), MaxCount)

\* What handle_recent_list answers for f.
ListOf(f) == Reverse(LastOf(Keep(LinesOf(f), Entries), MaxCount))

\* Mutant: the new line goes in front of the old ones.
NewLines_Mut == <<record>> \o kept

NewLines == Append(kept, record)

\* The entries among lines go forward in time, and none is newer than time t.
GoesForward(s, t) ==
  \A i \in DOMAIN s : s[i] \in Entries =>
    /\ s[i].at <= t
    /\ \A j \in DOMAIN s : s[j] \in Entries /\ i < j => s[i].at < s[j].at

\* The first file was written by this server, one search after the other.
ASSUME FilesAssumption == \A f \in InitFiles : GoesForward(LinesOf(f), 0)

\* What the loop of fprintf and fclose leave in the temporary file: a short write
\* may end inside a line.
Written ==
  {NewLines} \cup
  (IF "write" \in Faults
     THEN {SubSeq(NewLines, 1, n) : n \in 0..Len(kept)} \cup
          {Append(SubSeq(NewLines, 1, n), DAMAGED) : n \in 0..Len(kept)}
     ELSE {})

-----------------------------------------------------------------------------
Init == /\ file \in InitFiles
        /\ tmp = NoFile
        /\ pc = "idle"
        /\ kept = <<>>
        /\ record = BLANK
        /\ shown = <<>>
        /\ log = Keep(LinesOf(file), NotBlank)
        /\ made = 0
        /\ mishaps = IF \A i \in DOMAIN LinesOf(file) : file[i] \in Entries THEN {} ELSE {"damaged"}

\* save_recent_search calls server_recent_add for a search s, which reads the file
\* and makes up the new line.
RecentRead(s) ==
  /\ pc = "idle"
  /\ made < MaxSearches
  /\ \E f \in ReadsOf(file) : kept' = Kept(f) /\ Mishap("unread", f # file)
  /\ made' = made + 1
  /\ record' = [what |-> s, at |-> made']
  /\ shown' = <<>>
  /\ pc' = "open"
  /\ UNCHANGED <<file, tmp, log>>

\* Mutant: the temporary file is opened for appending.
Opened_Mut == LinesOf(tmp)

Opened == <<>>

\* fopen(SERVER_RECENT_TEMP_PATH, "w"); without it the search goes unrecorded.
RecentOpen ==
  /\ pc = "open"
  /\ \/ /\ tmp' = Opened
        /\ pc' = "write"
     \/ /\ "open" \in Faults
        /\ pc' = "idle"
        /\ UNCHANGED tmp
  /\ UNCHANGED <<file, kept, record, shown, log, made, mishaps>>

RecentWrite ==
  /\ pc = "write"
  /\ \E new \in Written : /\ tmp' = LinesOf(tmp) \o new
                          /\ Mishap("short", new # NewLines)
  /\ pc' = "remove"
  /\ UNCHANGED <<file, kept, record, shown, log, made>>

\* remove(SERVER_RECENT_PATH); its result is not looked at.
RecentRemove ==
  /\ pc = "remove"
  /\ \/ file' = NoFile
     \/ /\ "remove" \in Faults
        /\ UNCHANGED file
  /\ pc' = "rename"
  /\ UNCHANGED <<tmp, kept, record, shown, log, made, mishaps>>

\* rename(SERVER_RECENT_TEMP_PATH, SERVER_RECENT_PATH), or remove of the former.
RecentRename ==
  /\ pc = "rename"
  /\ \/ /\ file' = tmp
        /\ tmp' = NoFile
        /\ log' = Append(log, record)
        /\ UNCHANGED mishaps
     \/ /\ "rename" \in Faults
        /\ tmp' \in {NoFile} \cup (IF "remove" \in Faults THEN {tmp} ELSE {})
        /\ Mishap("lost", file = NoFile)
        /\ UNCHANGED <<file, log>>
  /\ pc' = "idle"
  /\ UNCHANGED <<kept, record, shown, made>>

handle_recent_list ==
  /\ pc = "idle"
  /\ \E f \in ReadsOf(file) : shown' = ListOf(f) /\ Mishap("unread", f # file)
  /\ UNCHANGED <<file, tmp, pc, kept, record, log, made>>

\* The server is killed and started again; nothing reads the temporary file.
Crash ==
  /\ "crash" \in Faults
  /\ pc # "idle"
  /\ pc' = "idle"
  /\ Mishap("lost", pc = "rename" /\ file = NoFile)
  /\ UNCHANGED <<file, tmp, kept, record, shown, log, made>>

Next == \/ \E s \in Searches : RecentRead(s)
        \/ RecentOpen \/ RecentWrite \/ RecentRemove \/ RecentRename
        \/ handle_recent_list
        \/ Crash

Spec == Init /\ [][Next]_vars

-----------------------------------------------------------------------------
(* Properties *)

TypeOK ==
  /\ file \in Files
  /\ tmp \in Files
  /\ pc \in {"idle", "open", "write", "remove", "rename"}
  /\ kept \in Seq(Lines \ {BLANK})
  /\ record \in Lines
  /\ shown \in Seq(Entries)
  /\ log \in Seq(Lines \ {BLANK})
  /\ made \in 0..MaxSearches
  /\ mishaps \subseteq {"damaged", "short", "unread", "lost"}

\* Whatever is interrupted or fails, short writes excepted, recent_search.txt holds
\* the latest part of everything recorded, without a gap, and once a search was
\* recorded no more than MaxCount of it.
HoldsTheLatest ==
  "short" \notin mishaps =>
    LET lines == Keep(LinesOf(file), NotBlank)
    IN  /\ lines = LastOf(log, Len(lines))
        /\ \A i \in DOMAIN lines : lines[i] \in Entries /\ lines[i].at > 0 => Len(lines) <= MaxCount

\* A list goes back in time, names nothing twice, and is no longer than MaxCount, even
\* when the file was written in part or came with damaged lines.
ShowsNewestFirst ==
  /\ Len(shown) <= MaxCount
  /\ \A i, j \in DOMAIN shown : i < j => shown[i].at > shown[j].at

\* What the record of RecentStore holds and has said last: a search counts as recorded
\* once the old file is gone.
Recent == IF mishaps # {} THEN <<>>
          ELSE LastOf(IF pc = "rename" /\ file = NoFile THEN tmp ELSE LinesOf(file), MaxCount)

Told == IF mishaps # {} THEN <<>> ELSE shown

\* A record is forgotten only for newer ones: as long as nothing worse happens than
\* fopen for writing or remove failing, or a crash that does not part remove and
\* rename, the list names every one of the last MaxCount searches recorded.
Recents == INSTANCE RecentStore WITH recent <- Recent, told <- Told, sound <- mishaps = {}

ImplementsRecents == Recents!RecentSpec

\* What makes these inductive.  The file goes forward in time, whatever was cut off it.
FileInv ==
  /\ GoesForward(LinesOf(file), made)
  /\ mishaps = {} => LinesOf(file) \in Seq(Entries)

\* While a search is being recorded, the array and the new line are newer lines of the
\* file and one that is newer still; they are the latest of all unless a write was short.
RecordInv ==
  pc # "idle" =>
    /\ shown = <<>>
    /\ record \in Entries /\ record.at = made
    /\ Len(kept) < MaxCount
    /\ GoesForward(kept, made - 1)
    /\ "short" \notin mishaps => kept = LastOf(log, Len(kept))
    /\ mishaps = {} =>
         /\ kept \in Seq(Entries)
         /\ (pc = "rename" => file # NoFile) => kept = Kept(file)

\* recent_search.tmp is empty once it is open, and then the new file or a part of it.
TmpInv ==
  /\ pc = "write" => tmp = <<>>
  /\ pc \in {"remove", "rename"} => tmp \in Written /\ ("short" \notin mishaps => tmp = NewLines)

IInv == TypeOK /\ FileInv /\ RecordInv /\ TmpInv /\ HoldsTheLatest /\ ShowsNewestFirst
=============================================================================
