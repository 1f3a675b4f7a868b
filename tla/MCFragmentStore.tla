-------------------------- MODULE MCFragmentStore --------------------------
(* Bounds for checking the fragment store. *)
EXTENDS FragmentStore, TLC

CONSTANTS o1, o2, d1, d2, g1, g2

MCObjectId == {o1, o2}
MCOsd == {d1, d2}
MCCollector == {g1, g2}

MCSymmetry == Permutations(MCObjectId) \union Permutations(MCOsd)
=============================================================================
