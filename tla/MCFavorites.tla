----------------------------- MODULE MCFavorites -----------------------------
(***************************************************************************)
(* Instances of Favorites for TLC.  The payloads p1 and p2 name two        *)
(* favourites, p3 is malformed and p4 names something the CSV data no      *)
(* longer has, though the file may.                                        *)
(***************************************************************************)
EXTENDS Favorites, TLC

CONSTANTS k1, k2, k3, p1, p2, p3, p4

MCKeys    == {k1, k2, k3}
MCAddReqs == {p1, p2, p3, p4}
MCKeyOf   == (p1 :> k1) @@ (p2 :> k2) @@ (p3 :> NoKey) @@ (p4 :> k3)
MCInCsv   == {p1, p2}

\* Numbers an int holds, and one that it does not: Word is 8, so 9 is read as 1.
MCNumbers  == 0..2
MCTooLarge == {9}

Terminated(ls) == [lines |-> ls, nl |-> TRUE]
TornLine       == [kind |-> "torn", key |-> NoKey]
NoName(k)      == [kind |-> "noname", key |-> k]
BlankLine      == [kind |-> "blank", key |-> NoKey]

\* Files this server wrote itself.
CleanFiles == {NoFile, Terminated(<<Rec(k1)>>), Terminated(<<Rec(k2), Rec(k3), Rec(k1)>>)}

\* Files with lines the handlers skip (docs/07_database/tables/favorites.md allows
\* for them), and one a text editor saved without a last newline.
DamagedFiles == {Terminated(<<TornLine, Rec(k1), Rec(k2)>>),
                 Terminated(<<BlankLine, Rec(k1), NoName(k2)>>)}
UnterminatedFiles == {[lines |-> <<Rec(k1)>>, nl |-> FALSE]}

AllFiles == CleanFiles \cup DamagedFiles \cup UnterminatedFiles
=============================================================================
