---------------------------- MODULE MCBPlusTree ----------------------------
(* Instances of BPlusTree for TLC. *)
EXTENDS BPlusTree

\* All calls are made and have returned: the only state in which nobody need go on.
Finished == Quiet /\ nextId + scans > MaxCalls /\ UNCHANGED vars

MCSpec == Init /\ [][Next \/ Finished]_vars

Symmetry == Permutations(Threads)
=============================================================================
