---------------------------- MODULE MCNsmIndexes ----------------------------
(* Bounds for checking the indexes of the namespace manager. *)
EXTENDS NsmIndexes, TLC

CONSTANTS o1, o2, d1, d2, d3, n1, n2

MCObjectId == {o1, o2}
MCOsd == {d1, d2, d3}

\* d1 and d2 share a node
MCNode == [d \in MCOsd |-> IF d = d3 THEN n2 ELSE n1]

MCPolicy == {<<2, 1>>}

MCSymmetry == Permutations(MCObjectId) \union Permutations({d1, d2})

\* no operation reads keys_to_be_deleted back into the indexes
IndexView == <<names, objects, minimum_epoch, next_epoch, active_osds, indexVars>>
=============================================================================
