-------------------------- MODULE MCLoyaltyPoints --------------------------
(* A small instance of LoyaltyPoints: two orders that earn and a small one that does not. *)
EXTENDS LoyaltyPoints, TLC

CONSTANTS o1, o2, o3

MCEarns == o1 :> 2 @@ o2 :> 3 @@ o3 :> 0

Symmetry == Permutations(Customers) \cup Permutations(Requests)

=============================================================================
