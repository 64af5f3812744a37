---------------------------- MODULE Reachability ----------------------------
(***************************************************************************)
(* What a traversal of a graph reaches.  A graph is a function from nodes  *)
(* to the sets of nodes they point at; pointers out of the graph lead      *)
(* nowhere.                                                                *)
(***************************************************************************)
IsClosed(graph, S) == \A n \in S : graph[n] \cap DOMAIN graph \subseteq S

\* The least closed set that contains the roots.
Reached(graph, roots) ==
  {n \in DOMAIN graph :
     \A S \in SUBSET DOMAIN graph :
       roots \subseteq S /\ IsClosed(graph, S) => n \in S}
=============================================================================
