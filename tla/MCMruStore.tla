------------------------------ MODULE MCMruStore ------------------------------
(***************************************************************************)
(* Small instance of MruStore: two instances, lists of two entries.        *)
(***************************************************************************)
EXTENDS MruStore, TLC

Symmetry == Permutations(Instance) \cup Permutations(Item)
=============================================================================
