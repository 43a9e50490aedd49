--------------------------- MODULE MCOrderDispatch ---------------------------
(* Instances of OrderDispatch for TLC. *)
EXTENDS OrderDispatch, TLC

Symmetry == Permutations(Couriers) \union Permutations(Requests) \union Permutations(Orders)

\* lastLogged, informed, announced and interrupted are written and never read by a handler,
\* so states that differ in them alone have the same futures.
HandlerView == <<order, assignment, credits, req>>
=============================================================================
