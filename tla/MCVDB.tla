------------------------------- MODULE MCVDB -------------------------------
(* Instances of VDBSearch for TLC: a tag, a text and an indexed number, which may be negative. *)
EXTENDS VDBSearch, TLC

MCCodes    == {-1, 1, 2}
MCAttrs    == {"tag", "text", "number"}
MCAttrType == [tag |-> "Tag", text |-> "Text", number |-> "Indexed"]
MCMetas    == {[tag |-> {1}, text |-> {1, 2}, number |-> {-1}],
               [tag |-> NoValue, text |-> {2}, number |-> {1}]}

Symmetry == Permutations(Threads) \cup Permutations(Vecs)
=============================================================================
