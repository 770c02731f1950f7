-------------------------------- MODULE Dag --------------------------------
(***************************************************************************)
(* Graph vocabulary shared by the task-graph modules.  A graph over a set  *)
(* of nodes is its set of edges <<source, target>>; the target depends on  *)
(* the source (delegation_edges.source, .target).                          *)
(*                                                                         *)
(* Reachability is stated as a least closed set rather than by recursion,  *)
(* which is what the recursive query of _finish_node computes and what the *)
(* proofs can use without an induction over paths.                         *)
(***************************************************************************)

Parents(E, n) == {e[1] : e \in {d \in E : d[2] = n}}

Children(E, n) == {e[2] : e \in {d \in E : d[1] = n}}

(* S contains the target of every edge that leaves S.                      *)
Closed(E, S) == \A e \in E : e[1] \in S => e[2] \in S

(* The transitive dependents of n: the rows of the recursive common table  *)
(* "descendants" in _finish_node.                                          *)
Descendants(V, E, n) ==
    {m \in V : \A S \in SUBSET V :
                  (Children(E, n) \subseteq S /\ Closed(E, S)) => m \in S}

Acyclic(V, E) == \A n \in V : n \notin Descendants(V, E, n)

Graphs(V) == {E \in SUBSET (V \X V) : Acyclic(V, E)}
=============================================================================
