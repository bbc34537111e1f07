------------------------------- MODULE Startup -------------------------------
(***************************************************************************)
(* The start of the server (src/server/main.c): the files are loaded, the  *)
(* transfer graph is made of whatever was loaded, and then the server      *)
(* listens, or gives up.  Every calloc and realloc on the way may fail,    *)
(* MaxFailures of them at most, when the files are among Scarce.           *)
(***************************************************************************)
EXTENDS TransferGraph, DataLoader

CONSTANTS
  FileSets,      \* the contents of data/ that are tried
  Scarce,        \* those with which memory may run out
  MaxFailures    \* bound on the failed allocations

ASSUME StartupAssumption ==
  /\ FileSets \subseteq Contents
  /\ Scarce \subseteq FileSets
  /\ MaxFailures \in Nat

VARIABLE server  \* "starting", "listening" or "stopped"

vars == <<data, mayFail, failed, loaderVars, graphVars, server>>

Init == /\ \E f \in FileSets : /\ LoaderInit(f)
                               /\ mayFail = IF f \in Scarce THEN MaxFailures ELSE 0
        /\ failed = FALSE
        /\ GraphInit
        /\ server = "starting"

LoadData == LoaderStep /\ UNCHANGED <<graphVars, server>>

\* data_loader_build_graph is called whatever came of the files.
BuildGraph == AllRead /\ GraphStep /\ UNCHANGED <<loaderVars, server>>

\* server_run, or the end of the program.
Listen == /\ phase = "done"
          /\ server = "starting"
          /\ server' = IF ok /\ nodes # <<>> THEN "listening" ELSE "stopped"
          /\ UNCHANGED <<data, mayFail, failed, loaderVars, graphVars>>

Next == LoadData \/ BuildGraph \/ Listen

Spec == Init /\ [][Next]_vars

\* The lists, the loader's counters and the graph are what they are declared to be.
TypeOK == LoaderTypeOK /\ GraphTypeOK /\ server \in {"starting", "listening", "stopped"}

\* The graph is not begun before the lists are complete.
LoadInv == phase # "load" => AllRead

IInv == /\ TypeOK /\ SoundReferences /\ WellFormed /\ SameBothWays
        /\ LoadInv /\ FilesInv /\ TodoInv /\ NodesInv /\ HalfwayInv /\ LinksInv
=============================================================================
