--------------------------- MODULE OrderLifecycle ---------------------------
(***************************************************************************)
(* What an order promises, independently of requests, reads and writes: a  *)
(* status that moves along the published transitions, a courier who holds  *)
(* the order from assignment to delivery, and a delivery that is credited  *)
(* to that courier at most once.  OrderDispatch is the detailed module.    *)
(***************************************************************************)
EXTENDS Naturals, OrderStatuses

CONSTANTS
    Orders,
    Couriers,
    NoCourier   \* stands for a NULL courierId

VARIABLES
    status,     \* order -> status, ABSENT before the order is placed
    holder,     \* order -> the courier the order belongs to, or NoCourier
    credits     \* order -> courier -> deliveries counted for that order

vars == <<status, holder, credits>>

Init ==
    /\ status = [o \in Orders |-> "ABSENT"]
    /\ holder = [o \in Orders |-> NoCourier]
    /\ credits = [o \in Orders |-> [c \in Couriers |-> 0]]

Place(o) ==
    /\ status[o] = "ABSENT"
    /\ status' = [status EXCEPT ![o] = "PENDING"]
    /\ UNCHANGED <<holder, credits>>

Move(o, to) ==
    /\ to \in STATUS_FLOW[status[o]]
    /\ status' = [status EXCEPT ![o] = to]
    /\ holder' = [holder EXCEPT ![o] = IF to = "CANCELLED" THEN NoCourier ELSE @]
    /\ UNCHANGED credits

Assign(o, c) ==
    /\ status[o] \in Assignable
    /\ status' = [status EXCEPT ![o] = "COURIER_ASSIGNED"]
    /\ holder' = [holder EXCEPT ![o] = c]
    /\ UNCHANGED credits

Release(o) ==
    /\ status[o] = "COURIER_ASSIGNED"
    /\ status' = [status EXCEPT ![o] = "PREPARING"]
    /\ holder' = [holder EXCEPT ![o] = NoCourier]
    /\ UNCHANGED credits

Credit(o) ==
    /\ status[o] = "DELIVERED"
    /\ holder[o] \in Couriers
    /\ \A c \in Couriers : credits[o][c] = 0
    /\ credits' = [credits EXCEPT ![o][holder[o]] = 1]
    /\ UNCHANGED <<status, holder>>

Next ==
    \E o \in Orders :
        \/ Place(o)
        \/ \E to \in Statuses : Move(o, to)
        \/ \E c \in Couriers : Assign(o, c)
        \/ Release(o)
        \/ Credit(o)

Spec == Init /\ [][Next]_vars
=============================================================================
