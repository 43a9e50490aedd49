------------------------- MODULE MCBusinessBranches -------------------------
(* Instances of BusinessBranches for TLC. *)
EXTENDS BusinessBranches, TLC

Symmetry == Permutations(Requests)
=============================================================================
