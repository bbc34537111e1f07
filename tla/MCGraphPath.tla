----------------------------- MODULE MCGraphPath -----------------------------
(***************************************************************************)
(* GraphPath on every symmetric graph of a few nodes (the graphs           *)
(* data_loader_build_graph makes are symmetric).                           *)
(***************************************************************************)
EXTENDS GraphPath

\* 0 is no edge
Weights == {0, 1, 2, 5}

SymmetricGraphs ==
  {[u \in Nodes |-> [v \in Nodes |-> IF u = v THEN 0 ELSE f[{u, v}]]] :
     f \in [kSubset(2, Nodes) -> Weights]}

\* graph_find_path returns.
Terminates == <>(pc \in {"done", "failed"})
=============================================================================
