------------------------------- MODULE MCHnsw -------------------------------
(* Instances of Hnsw for TLC. *)
EXTENDS Hnsw

\* Every point is a node's, and the searches are made.
Finished == Quiet /\ Len(nodes) = Cardinality(Points) /\ searches = MaxSearches /\ UNCHANGED vars

MCSpec == Init /\ [][Next \/ Finished]_vars

Symmetry == Permutations(Threads)
=============================================================================
