--------------------------- MODULE MCRecentSearch ----------------------------
(***************************************************************************)
(* Instances of RecentSearch for TLC: files with fewer, as many and more   *)
(* lines than MaxCount, with and without lines the list skips.             *)
(***************************************************************************)
EXTENDS RecentSearch

CONSTANTS s1, s2

Old(n) == [i \in 1..n |-> [what |-> IF i = 1 THEN s1 ELSE s2, at |-> i - n]]

CleanFiles == {NoFile} \cup {Old(n) : n \in 0..(MaxCount + 2)}

\* A damaged or blank line somewhere in a full file.
DamagedFiles == {InsertAt(Old(n), i, l) :
                   n \in {MaxCount - 1, MaxCount}, i \in 1..(MaxCount - 1), l \in {BLANK, DAMAGED}}

AllFiles == CleanFiles \cup DamagedFiles
=============================================================================
