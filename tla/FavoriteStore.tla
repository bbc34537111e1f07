---------------------------- MODULE FavoriteStore ----------------------------
(***************************************************************************)
(* What the favourites service promises a console client: a list without   *)
(* duplicates, shown in the order of insertion, whose entries are removed  *)
(* by the number under which the list shows them.  Every request is one    *)
(* step, and a request the service refuses changes nothing.                *)
(***************************************************************************)
EXTENDS Naturals, Sequences, SequencesExt

CONSTANT Keys            \* what identifies a favourite: its type and its id

VARIABLES entries,       \* the favourites, oldest first
          told,          \* what the last answer said
          sound          \* nothing happened yet that the promise does not cover

storeVars == <<entries, told, sound>>

Nothing == [op |-> "none", arg |-> 0, ok |-> TRUE, did |-> FALSE, items |-> <<>>]

Tell(op, arg, ok, did) ==
  told' = [op |-> op, arg |-> arg, ok |-> ok, did |-> did, items |-> <<>>]

StoreInit == /\ entries \in Seq(Keys)
             /\ IsInjective(entries)
             /\ told = Nothing
             /\ sound \in BOOLEAN

StoreAdd(k) ==
  /\ k \notin Range(entries)
  /\ entries' = Append(entries, k)
  /\ Tell("add", k, TRUE, TRUE)

StoreAddAgain(k) ==
  /\ k \in Range(entries)
  /\ Tell("add", k, TRUE, FALSE)
  /\ UNCHANGED entries

StoreDelete(n) ==
  /\ n \in DOMAIN entries
  /\ entries' = RemoveAt(entries, n)
  /\ Tell("delete", n, TRUE, TRUE)

StoreDeleteMissing(n) ==
  /\ n \notin DOMAIN entries
  /\ Tell("delete", n, TRUE, FALSE)
  /\ UNCHANGED entries

StoreList ==
  /\ \E m \in 0..Len(entries) :      \* as many as fit one answer
       told' = [op |-> "list", arg |-> 0, ok |-> TRUE, did |-> FALSE, items |-> SubSeq(entries, 1, m)]
  /\ UNCHANGED entries

StoreRefuse ==
  /\ told'.ok = FALSE
  /\ told'.did = FALSE
  /\ UNCHANGED entries

\* Something went wrong that the store does not cover: from here on it promises
\* nothing and stands still, empty.
StoreLost == ~sound' /\ told' = Nothing /\ entries' = <<>>

\* A request is being worked on: its answer is not out yet.
StoreStart == told' = Nothing /\ UNCHANGED entries

StoreServe ==
  /\ sound /\ sound'
  /\ \/ \E k \in Keys : StoreAdd(k) \/ StoreAddAgain(k)
     \/ StoreDelete(told'.arg)
     \/ StoreDeleteMissing(told'.arg)
     \/ StoreList \/ StoreRefuse \/ StoreStart

StoreNext == StoreServe \/ StoreLost

StoreSpec == StoreInit /\ [][StoreNext]_storeVars
=============================================================================
