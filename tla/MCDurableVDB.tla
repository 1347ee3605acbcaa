--------------------------- MODULE MCDurableVDB ---------------------------
(* Instances of DurableVDB for TLC. *)
EXTENDS DurableVDBInductive, TLC

ThreadSymmetry == Permutations(Threads)
DataSymmetry   == Permutations(Vecs) \cup Permutations(Metas)
Symmetry       == ThreadSymmetry \cup DataSymmetry
=============================================================================
