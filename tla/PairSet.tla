------------------------------ MODULE PairSet ------------------------------
(***************************************************************************)
(* What a B+-tree promises: it is a set of pairs of a key and a row id,    *)
(* whose insertions and removals take effect at once.                      *)
(***************************************************************************)
CONSTANTS Keys, Ids
VARIABLE pairs

Init == pairs = {}

Insert(e) == e \notin pairs /\ pairs' = pairs \cup {e}
Remove(e) == e \in pairs /\ pairs' = pairs \ {e}

Next == pairs' # pairs /\ \E e \in Keys \X Ids : Insert(e) \/ Remove(e)
Spec == Init /\ [][Next]_pairs
=============================================================================
