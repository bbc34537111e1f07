----------------------------- MODULE RecentStore -----------------------------
(***************************************************************************)
(* What the recent-search record promises: the last MaxCount searches that *)
(* succeeded, shown newest first.                                          *)
(***************************************************************************)
EXTENDS Integers, Sequences, SequencesExt

CONSTANTS Entries,      \* searches with the time they were made
          MaxCount      \* how many are kept

VARIABLES recent,       \* the searches kept, oldest first
          told,         \* the last list, newest first, or <<>>
          sound         \* nothing happened yet that the promise does not cover

recentVars == <<recent, told, sound>>

\* The last n elements of s, or all of s when it has fewer.
LastOf(s, n) == IF Len(s) <= n THEN s ELSE SubSeq(s, Len(s) - n + 1, Len(s))

RecentInit == /\ recent \in Seq(Entries)
              /\ Len(recent) <= MaxCount
              /\ told = <<>>
              /\ sound \in BOOLEAN

\* A new search e, which comes to stand last.
Record(e) == /\ e \in Entries
             /\ recent' = LastOf(Append(recent, e), MaxCount)
             /\ told' = <<>>

Tell == /\ told' = Reverse(recent)
        /\ UNCHANGED recent

\* A search is being recorded, or was given up before anything was written.
Hold == /\ told' = <<>>
        /\ UNCHANGED recent

\* Something went wrong that the promise does not cover: from here on the record
\* stands still, empty.
Forgotten == ~sound' /\ recent' = <<>> /\ told' = <<>>

RecentNext == \/ sound /\ sound' /\ recent' # <<>> /\ Record(Last(recent'))
              \/ sound /\ sound' /\ (Tell \/ Hold)
              \/ Forgotten

RecentSpec == RecentInit /\ [][RecentNext]_recentVars
=============================================================================
