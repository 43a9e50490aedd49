---------------------------- MODULE OrderStatuses ----------------------------
(***************************************************************************)
(* The order statuses and the transition table of orders.service.ts,       *)
(* shared by the abstract lifecycle and the detailed dispatch module.      *)
(***************************************************************************)

\* ABSENT: the row does not exist yet.  The other nine are the OrderStatus enum.
Statuses ==
    {"ABSENT", "PENDING", "ACCEPTED", "PREPARING", "COURIER_ASSIGNED",
     "ARRIVED_AT_RESTAURANT", "PICKED_UP", "DELIVERING", "DELIVERED", "CANCELLED"}

\* The statuses a status request may move an order to.
STATUS_FLOW ==
    [s \in Statuses |->
        CASE s = "PENDING"               -> {"ACCEPTED", "CANCELLED"}
          [] s = "ACCEPTED"              -> {"PREPARING", "CANCELLED"}
          [] s = "PREPARING"             -> {"CANCELLED"}
          [] s = "COURIER_ASSIGNED"      -> {"ARRIVED_AT_RESTAURANT", "CANCELLED"}
          [] s = "ARRIVED_AT_RESTAURANT" -> {"PICKED_UP", "CANCELLED"}
          [] s = "PICKED_UP"             -> {"DELIVERING"}
          [] s = "DELIVERING"            -> {"DELIVERED"}
          [] OTHER                       -> {}]

\* allowedStatuses and removableStatuses: where a courier may be attached or removed.
Assignable == {"PREPARING", "COURIER_ASSIGNED"}

\* Statuses with no way out.
Terminal == {"DELIVERED", "CANCELLED"}
=============================================================================
