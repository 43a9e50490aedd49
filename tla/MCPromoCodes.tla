---------------------------- MODULE MCPromoCodes ----------------------------
(* Instances of PromoCodes for TLC. *)
EXTENDS PromoCodes, TLC

CONSTANTS o1, o2, o3, b1, b2

\* Two orders of one business and one of another.
MCBusinessOf == (o1 :> b1) @@ (o2 :> b1) @@ (o3 :> b2)

Symmetry ==
    Permutations({o1, o2}) \union Permutations(Codes) \union Permutations(Slots)
    \union Permutations(Clears)
=============================================================================
