---------------------------- MODULE OrderDispatch ----------------------------
(***************************************************************************)
(* The order handlers of backend/src/modules/orders/orders.service.ts and  *)
(* declineOrder of couriers.service.ts, as they run in a Node server: each *)
(* HTTP request reads the order row, checks what it read, and writes later *)
(* with other requests running between any two awaits.  One action is one  *)
(* await: a query, one database transaction, or the notifications at the   *)
(* end.  req[r] is the request that slot r is serving, with the order row  *)
(* as that request last read it.                                           *)
(***************************************************************************)
EXTENDS Naturals, FiniteSets, OrderStatuses

CONSTANTS
    Orders,
    Couriers,
    NoCourier,   \* NULL in courierId
    Requests,    \* request slots: how many handlers can be in flight together
    Overlap,     \* may two requests about the same order be in flight together?
    MaxCredits   \* bound: no further delivery request once an order has this many credits

ASSUME DispatchAssumption ==
    /\ NoCourier \notin Couriers
    /\ Overlap \in BOOLEAN
    /\ MaxCredits \in Nat

VARIABLES
    order,       \* order -> row of table orders: status, courierId, courierRequestedAt
    assignment,  \* order -> row of table courier_assignments (courier = NoCourier: no row)
    credits,     \* order -> courier -> times the order was added to the courier's stats
    lastLogged,  \* order -> status of its newest order_status_history row
    informed,    \* order -> couriers last told (or whose own act told them) it is theirs
    announced,   \* order -> the couriers were told of it since it last lost its courier
    req,         \* request slot -> the request it serves
    interrupted  \* orders on which a request died half way

db == <<order, assignment, credits>>
told == <<informed, announced>>
vars == <<order, assignment, credits, lastLogged, informed, announced, req, interrupted>>

CourierOrNull == Couriers \union {NoCourier}

Row == [status : Statuses, courier : CourierOrNull, requested : BOOLEAN]

AbsentRow == [status |-> "ABSENT", courier |-> NoCourier, requested |-> FALSE]

\* accepted is acceptedAt, remembering which courier's request set it.
AssignmentRow ==
    [courier : CourierOrNull, accepted : CourierOrNull, delivered : BOOLEAN]

NoAssignment == [courier |-> NoCourier, accepted |-> NoCourier, delivered |-> FALSE]

Ops == {"none", "place", "status", "request", "accept", "claim", "reassign", "remove",
        "decline"}

\* "select": before the order read of assignCourier; "write": before the write that the
\* read justified; "log": before recordStatusChange; "finalize" and "credit": before the
\* two halves of finalizeCourierDelivery; "notify": before the notifications.
Phases == {"idle", "select", "write", "log", "finalize", "credit", "notify"}

Request ==
    [phase : Phases, op : Ops, order : Orders \union {"none"}, to : Statuses,
     courier : CourierOrNull, seen : Row]

Idle ==
    [phase |-> "idle", op |-> "none", order |-> "none", to |-> "ABSENT",
     courier |-> NoCourier, seen |-> AbsentRow]

-----------------------------------------------------------------------------
(* Helpers *)

InFlight(o) == {r \in Requests : req[r].phase # "idle" /\ req[r].order = o}

Quiet(o) == InFlight(o) = {}

\* Slot r may take a new request about o.
Free(r, o) == req[r].phase = "idle" /\ (Overlap \/ Quiet(o))

Serving(r, op, phase) == req[r].op = op /\ req[r].phase = phase

Goto(r, phase) == req' = [req EXCEPT ![r].phase = phase]

Finish(r) == req' = [req EXCEPT ![r] = Idle]

Start(r, o, op, phase, c, to) ==
    req' = [req EXCEPT ![r] = [phase |-> phase, op |-> op, order |-> o, to |-> to,
                               courier |-> c, seen |-> order[o]]]

\* The pool query of getCourierInbox, and the test of renotifyCourierPoolIfOpen.
InPool(row) == row.status = "PREPARING" /\ row.courier = NoCourier /\ row.requested

Holders(row) == {row.courier} \ {NoCourier}

\* A pool claim: the manager's allowReassign is off and no courier was read.
IsPoolClaim(q) == q.op = "claim" /\ q.seen.courier = NoCourier

\* statusChanged || allowReassign
Announces(q) == q.seen.status # "COURIER_ASSIGNED" \/ q.op = "reassign"

\* The row a status write leaves behind.
Moved(row, to) ==
    IF to = "CANCELLED"
    THEN [status |-> to, courier |-> NoCourier, requested |-> FALSE]
    ELSE [row EXCEPT !.status = to]
-----------------------------------------------------------------------------
(* createGuestOrder and updateStatus *)

\* createGuestOrder: one transaction creates the row; the PENDING history row follows.
PlaceOrder(r, o) ==
    /\ Free(r, o)
    /\ order[o].status = "ABSENT"
    /\ order' = [order EXCEPT ![o].status = "PENDING"]
    /\ Start(r, o, "place", "log", NoCourier, "PENDING")
    /\ UNCHANGED <<assignment, credits, lastLogged, told, interrupted>>

\* assertCanUpdateOrder: staff may update any order, a courier only one he was read on.
CanUpdateOrder(o, who) == who = NoCourier \/ order[o].courier = who

\* updateStatus up to its checks.  who is the courier asking, NoCourier for staff.
ReadForStatus(r, o, to, who) ==
    /\ Free(r, o)
    /\ CanUpdateOrder(o, who)
    /\ to \in STATUS_FLOW[order[o].status]
    /\ to = "DELIVERED" => \A c \in Couriers : credits[o][c] < MaxCredits
    /\ Start(r, o, "status", "write", NoCourier, to)
    /\ UNCHANGED <<db, lastLogged, told, interrupted>>

\* order.update: unconditional, whatever the row has become since it was read.
WriteStatus(r) ==
    LET o == req[r].order
        row == Moved(order[o], req[r].to)
    IN  /\ Serving(r, "status", "write")
        /\ order' = [order EXCEPT ![o] = row]
        /\ req' = [req EXCEPT ![r].phase = "log", ![r].seen = row]
        /\ UNCHANGED <<assignment, credits, lastLogged, told, interrupted>>

\* finalizeCourierDelivery, first await: read the order and its assignment.
ReadForFinalize(r) ==
    LET o == req[r].order
    IN  /\ Serving(r, "status", "finalize")
        /\ req' = IF order[o].courier = NoCourier \/ assignment[o].delivered
                  THEN [req EXCEPT ![r].phase = "notify"]
                  ELSE [req EXCEPT ![r].phase = "credit", ![r].seen = order[o]]
        /\ UNCHANGED <<db, lastLogged, told, interrupted>>

\* Mutated form of WriteCredit: no stamp on the assignment, and a retry that runs again.
WriteCreditRetried(r) ==
    LET o == req[r].order
    IN  /\ Serving(r, "status", "credit")
        /\ \/ Goto(r, "notify")
           \/ Goto(r, "finalize")
        /\ credits' = [credits EXCEPT ![o][req[r].seen.courier] = @ + 1]
        /\ UNCHANGED <<order, assignment, lastLogged, told, interrupted>>

\* Its transaction: stamp the assignment, add the delivery to the courier's stats.  The
\* update of an assignment row that is gone fails and rolls the transaction back.
WriteCredit(r) ==
    LET o == req[r].order
    IN  /\ Serving(r, "status", "credit")
        /\ IF assignment[o].courier = NoCourier
           THEN Finish(r) /\ UNCHANGED <<assignment, credits, interrupted>>
           ELSE /\ Goto(r, "notify")
                /\ assignment' = [assignment EXCEPT ![o].delivered = TRUE]
                /\ credits' = [credits EXCEPT ![o][req[r].seen.courier] = @ + 1]
        /\ UNCHANGED <<order, lastLogged, told, interrupted>>

-----------------------------------------------------------------------------
(* requestCourier *)

\* An order already requested is only re-emitted, so no request is left to model.
ReadForRequest(r, o) ==
    /\ Free(r, o)
    /\ order[o].status = "PREPARING"
    /\ order[o].courier = NoCourier
    /\ ~order[o].requested
    /\ Start(r, o, "request", "write", NoCourier, "PREPARING")
    /\ UNCHANGED <<db, lastLogged, told, interrupted>>

WriteRequest(r) ==
    /\ Serving(r, "request", "write")
    /\ order' = [order EXCEPT ![req[r].order].requested = TRUE]
    /\ Goto(r, "log")
    /\ UNCHANGED <<assignment, credits, lastLogged, told, interrupted>>

-----------------------------------------------------------------------------
(* acceptOrderAsCourier, assignCourierByManager, reassignCourier, assignCourier *)

\* The order is already the courier's own: only acceptedAt is to be written.
ReadForAccept(r, o, c) ==
    /\ Free(r, o)
    /\ order[o].status \in Assignable
    /\ order[o].courier = c
    /\ Start(r, o, "accept", "write", c, "ABSENT")
    /\ UNCHANGED <<db, lastLogged, told, interrupted>>

\* The assignment row is updated by order id; with no row the update fails.
WriteAccept(r) ==
    LET o == req[r].order
    IN  /\ Serving(r, "accept", "write")
        /\ assignment' = IF assignment[o].courier = NoCourier THEN assignment
                         ELSE [assignment EXCEPT ![o].accepted = req[r].courier]
        /\ Finish(r)
        /\ UNCHANGED <<order, credits, lastLogged, told, interrupted>>

\* The order is in the pool: go on to assignCourier, which reads it again.
ReadForClaim(r, o, c) ==
    /\ Free(r, o)
    /\ order[o].status \in Assignable
    /\ order[o].courier = NoCourier
    /\ order[o].requested
    /\ Start(r, o, "claim", "select", c, "COURIER_ASSIGNED")
    /\ UNCHANGED <<db, lastLogged, told, interrupted>>

\* PATCH reassign-courier enters here; assign-courier (assignCourierByManager) first asks
\* for a courier, a check its own read makes and the next read does not repeat.
StartReassign(r, o, c) ==
    /\ Free(r, o)
    /\ order[o].status # "ABSENT"
    /\ Start(r, o, "reassign", "select", c, "COURIER_ASSIGNED")
    /\ UNCHANGED <<db, lastLogged, told, interrupted>>

\* The order read of assignCourier and its two rejections.
SelectForAssign(r) ==
    LET o == req[r].order
        taken == order[o].courier \notin {NoCourier, req[r].courier}
    IN  /\ req[r].phase = "select"
        /\ IF order[o].status \in Assignable /\ (taken => req[r].op = "reassign")
           THEN req' = [req EXCEPT ![r].phase = "write", ![r].seen = order[o]]
           ELSE Finish(r)
        /\ UNCHANGED <<db, lastLogged, told, interrupted>>

\* Mutated form of WriteAllowed: updateMany without courierId: null in its where.
WriteAllowedUnguarded(q) ==
    IsPoolClaim(q) => order[q.order].status \in Assignable

\* The condition of updateMany: a claim needs the row still free and assignable.  Every
\* other path uses an unconditional update.
WriteAllowed(q) ==
    IsPoolClaim(q) =>
        order[q.order].courier = NoCourier /\ order[q.order].status \in Assignable

\* Mutated form of WriteAssign: the upsert leaves acceptedAt as it was.
WriteAssignStillAccepted(r) ==
    LET q == req[r]
        o == q.order
        accepted == IF IsPoolClaim(q) THEN q.courier ELSE assignment[o].accepted
    IN  /\ q.op \in {"claim", "reassign"}
        /\ q.phase = "write"
        /\ WriteAllowed(q)
        /\ order' = [order EXCEPT ![o].courier = q.courier, ![o].status = "COURIER_ASSIGNED"]
        /\ assignment' = [assignment EXCEPT ![o].courier = q.courier,
                                            ![o].accepted = accepted]
        /\ announced' = [announced EXCEPT ![o] = FALSE]
        /\ Goto(r, IF Announces(q) THEN "log" ELSE "notify")
        /\ UNCHANGED <<credits, lastLogged, informed, interrupted>>

\* The transaction of assignCourier: the order row and the assignment upsert together.
WriteAssign(r) ==
    LET q == req[r]
        o == q.order
        accepted == IF IsPoolClaim(q) THEN q.courier ELSE NoCourier
    IN  /\ q.op \in {"claim", "reassign"}
        /\ q.phase = "write"
        /\ WriteAllowed(q)
        /\ order' = [order EXCEPT ![o].courier = q.courier, ![o].status = "COURIER_ASSIGNED"]
        /\ assignment' = [assignment EXCEPT ![o].courier = q.courier,
                                            ![o].accepted = accepted]
        /\ announced' = [announced EXCEPT ![o] = FALSE]
        /\ Goto(r, IF Announces(q) THEN "log" ELSE "notify")
        /\ UNCHANGED <<credits, lastLogged, informed, interrupted>>

\* The claim lost the race: count is 0 and the request is refused.
LoseClaim(r) ==
    /\ Serving(r, "claim", "write")
    /\ ~WriteAllowed(req[r])
    /\ Finish(r)
    /\ UNCHANGED <<db, lastLogged, told, interrupted>>

-----------------------------------------------------------------------------
(* removeCourier and declineOrder *)

\* Mutated form of ReadForRemove: removableStatuses is not checked.
ReadForRemoveAnytime(r, o) ==
    /\ Free(r, o)
    /\ order[o].courier # NoCourier
    /\ Start(r, o, "remove", "write", NoCourier, "PREPARING")
    /\ UNCHANGED <<db, lastLogged, told, interrupted>>

ReadForRemove(r, o) ==
    /\ Free(r, o)
    /\ order[o].courier # NoCourier
    /\ order[o].status \in Assignable
    /\ Start(r, o, "remove", "write", NoCourier, "PREPARING")
    /\ UNCHANGED <<db, lastLogged, told, interrupted>>

ReadForDecline(r, o, c) ==
    /\ Free(r, o)
    /\ order[o].courier = c
    /\ order[o].status = "COURIER_ASSIGNED"
    /\ Start(r, o, "decline", "write", c, "PREPARING")
    /\ UNCHANGED <<db, lastLogged, told, interrupted>>

\* Mutated forms of Detach: the order keeps its courierId; it keeps its status; it gets a
\* status the enum does not have.
DetachKeepsCourier(o) ==
    /\ assignment' = [assignment EXCEPT ![o] = NoAssignment]
    /\ order' = [order EXCEPT ![o].status = "PREPARING"]

DetachKeepsStatus(o) ==
    /\ assignment' = [assignment EXCEPT ![o] = NoAssignment]
    /\ order' = [order EXCEPT ![o].courier = NoCourier]

DetachDeclined(o) ==
    /\ assignment' = [assignment EXCEPT ![o] = NoAssignment]
    /\ order' = [order EXCEPT ![o].courier = NoCourier, ![o].status = "DECLINED"]

\* Both transactions delete the assignment and put the order back to PREPARING, again
\* whatever the row has become.
Detach(o) ==
    /\ assignment' = [assignment EXCEPT ![o] = NoAssignment]
    /\ order' = [order EXCEPT ![o].courier = NoCourier, ![o].status = "PREPARING"]

\* Mutated form of WriteRemove: no recordStatusChange follows.
WriteRemoveUnlogged(r) ==
    /\ Serving(r, "remove", "write")
    /\ Detach(req[r].order)
    /\ Goto(r, "notify")
    /\ UNCHANGED <<credits, lastLogged, told, interrupted>>

WriteRemove(r) ==
    /\ Serving(r, "remove", "write")
    /\ Detach(req[r].order)
    /\ Goto(r, "log")
    /\ UNCHANGED <<credits, lastLogged, told, interrupted>>

\* declineOrder writes the history row in the same transaction.
WriteDecline(r) ==
    LET o == req[r].order
    IN  /\ Serving(r, "decline", "write")
        /\ Detach(o)
        /\ lastLogged' = [lastLogged EXCEPT ![o] = "PREPARING"]
        /\ informed' = [informed EXCEPT ![o] = @ \ {req[r].courier}]
        /\ Goto(r, "notify")
        /\ UNCHANGED <<credits, announced, interrupted>>
-----------------------------------------------------------------------------
(* What follows the write *)

\* Mutated form of Log: a delivery goes straight to its notifications.
LogUnfinalized(r) ==
    LET q == req[r]
    IN  /\ q.phase = "log"
        /\ lastLogged' = [lastLogged EXCEPT ![q.order] = q.to]
        /\ IF q.op = "place" THEN Finish(r) ELSE Goto(r, "notify")
        /\ UNCHANGED <<db, told, interrupted>>

\* recordStatusChange, then the next await of the handler.
Log(r) ==
    LET q == req[r]
    IN  /\ q.phase = "log"
        /\ lastLogged' = [lastLogged EXCEPT ![q.order] = q.to]
        /\ CASE q.op = "place"                          -> Finish(r)
             [] q.op = "status" /\ q.to = "DELIVERED"   -> Goto(r, "finalize")
             [] OTHER                                   -> Goto(r, "notify")
        /\ UNCHANGED <<db, told, interrupted>>

\* emitOrderStatusNotifications for a status request: courierOrderCancelled goes to the
\* courier of the updated row.
NotifyStatus(r) ==
    LET q == req[r]
        cancelled == IF q.to = "CANCELLED" THEN Holders(q.seen) ELSE {}
    IN  /\ Serving(r, "status", "notify")
        /\ informed' = [informed EXCEPT ![q.order] = @ \ cancelled]
        /\ Finish(r)
        /\ UNCHANGED <<db, lastLogged, announced, interrupted>>

\* notifyCouriersPoolOrder
NotifyPool(r) ==
    /\ Serving(r, "request", "notify")
    /\ announced' = [announced EXCEPT ![req[r].order] = TRUE]
    /\ Finish(r)
    /\ UNCHANGED <<db, lastLogged, informed, interrupted>>

\* Mutated form of NotifyAssign: the previous courier is not told.
NotifyAssignOnly(r) ==
    LET q == req[r]
        current == IF Announces(q) THEN Holders(order[q.order]) ELSE {}
    IN  /\ q.op \in {"claim", "reassign"}
        /\ q.phase = "notify"
        /\ informed' = [informed EXCEPT ![q.order] = @ \union current]
        /\ Finish(r)
        /\ UNCHANGED <<db, lastLogged, announced, interrupted>>

\* notifyCourierAssigned to the courier of the row as it is now, then courierUnassigned
\* to the one read before the write.
NotifyAssign(r) ==
    LET q == req[r]
        current == IF Announces(q) THEN Holders(order[q.order]) ELSE {}
        previous == Holders(q.seen) \ {q.courier}
    IN  /\ q.op \in {"claim", "reassign"}
        /\ q.phase = "notify"
        /\ informed' = [informed EXCEPT ![q.order] = (@ \union current) \ previous]
        /\ Finish(r)
        /\ UNCHANGED <<db, lastLogged, announced, interrupted>>

\* Mutated form of NotifyRemove: the pool does not hear of the order again.
NotifyRemoveSilently(r) ==
    LET q == req[r]
    IN  /\ Serving(r, "remove", "notify")
        /\ informed' = [informed EXCEPT ![q.order] = @ \ Holders(q.seen)]
        /\ Finish(r)
        /\ UNCHANGED <<db, lastLogged, announced, interrupted>>

\* courierUnassigned, then renotifyCourierPoolIfOpen.
NotifyRemove(r) ==
    LET q == req[r]
    IN  /\ Serving(r, "remove", "notify")
        /\ informed' = [informed EXCEPT ![q.order] = @ \ Holders(q.seen)]
        /\ announced' = [announced EXCEPT ![q.order] = @ \/ InPool(order[q.order])]
        /\ Finish(r)
        /\ UNCHANGED <<db, lastLogged, interrupted>>

\* declineOrder offers the order to the pool again whenever it was requested.
NotifyDecline(r) ==
    LET o == req[r].order
    IN  /\ Serving(r, "decline", "notify")
        /\ announced' = [announced EXCEPT ![o] = @ \/ order[o].requested]
        /\ Finish(r)
        /\ UNCHANGED <<db, lastLogged, informed, interrupted>>

\* A query fails or the server restarts: the rest of the handler never runs.
Fail(r) ==
    /\ req[r].phase # "idle"
    /\ interrupted' = interrupted \union {req[r].order}
    /\ Finish(r)
    /\ UNCHANGED <<db, lastLogged, told>>

-----------------------------------------------------------------------------

Init ==
    /\ order = [o \in Orders |-> AbsentRow]
    /\ assignment = [o \in Orders |-> NoAssignment]
    /\ credits = [o \in Orders |-> [c \in Couriers |-> 0]]
    /\ lastLogged = [o \in Orders |-> "ABSENT"]
    /\ informed = [o \in Orders |-> {}]
    /\ announced = [o \in Orders |-> FALSE]
    /\ req = [r \in Requests |-> Idle]
    /\ interrupted = {}

\* A new request arrives.
Arrive(r) ==
    \E o \in Orders :
        \/ PlaceOrder(r, o)
        \/ \E to \in Statuses, who \in CourierOrNull : ReadForStatus(r, o, to, who)
        \/ ReadForRequest(r, o)
        \/ ReadForRemove(r, o)
        \/ \E c \in Couriers :
              \/ ReadForAccept(r, o, c)
              \/ ReadForClaim(r, o, c)
              \/ StartReassign(r, o, c)
              \/ ReadForDecline(r, o, c)

\* A request in flight takes its next step.
Continue(r) ==
    \/ WriteStatus(r)
    \/ ReadForFinalize(r)
    \/ WriteCredit(r)
    \/ WriteRequest(r)
    \/ WriteAccept(r)
    \/ SelectForAssign(r)
    \/ WriteAssign(r)
    \/ LoseClaim(r)
    \/ WriteRemove(r)
    \/ WriteDecline(r)
    \/ Log(r)
    \/ NotifyStatus(r)
    \/ NotifyPool(r)
    \/ NotifyAssign(r)
    \/ NotifyRemove(r)
    \/ NotifyDecline(r)

Next == \E r \in Requests : Arrive(r) \/ Continue(r) \/ Fail(r)

Spec == Init /\ [][Next]_vars

\* A handler that has started runs on: the event loop resumes every pending await.
FairSpec == Spec /\ \A r \in Requests : WF_vars(Continue(r))

-----------------------------------------------------------------------------
(* Properties of every interleaving *)

\* Every variable keeps its type; a status is always one of the enum.
TypeOK ==
    /\ order \in [Orders -> Row]
    /\ assignment \in [Orders -> AssignmentRow]
    /\ credits \in [Orders -> [Couriers -> Nat]]
    /\ lastLogged \in [Orders -> Statuses]
    /\ informed \in [Orders -> SUBSET Couriers]
    /\ announced \in [Orders -> BOOLEAN]
    /\ req \in [Requests -> Request]
    /\ interrupted \in SUBSET Orders

\* An order with a courier has the assignment row of that same courier, however claims,
\* reassignments, removals, declines and cancellations overlap: the fee, the acceptance
\* and the delivery stamp are read from that row.
CourierHasAssignment ==
    \A o \in Orders :
        order[o].courier # NoCourier => assignment[o].courier = order[o].courier

\* COURIER_ASSIGNED is never left on an order nobody holds: such an order is in no
\* courier's list and not in the pool, so nobody could move it on.
AssignedHasCourier ==
    \A o \in Orders :
        order[o].status = "COURIER_ASSIGNED" => order[o].courier # NoCourier

\* This step takes order o from one courier and gives it to another.
HandsOver(o) ==
    order[o].courier # NoCourier /\ order'[o].courier \notin {NoCourier, order[o].courier}

HandsOverOnlyKnowingly ==
    \A o \in Orders :
        HandsOver(o) => \E r \in Requests :
                            /\ req'[r] # req[r]
                            /\ req[r].order = o
                            /\ \/ req[r].op = "reassign"
                               \/ req[r].seen.courier = order'[o].courier

\* An order passes straight from one courier to another only by a reassignment or by a
\* courier whom assignCourier had read as its holder: of the couriers who read it as free,
\* one at most gets it (the guarded updateMany of the pool claim).
FreshClaimNeverSteals == [][HandsOverOnlyKnowingly]_vars

-----------------------------------------------------------------------------
(* Properties when requests about one order do not overlap *)

Lifecycle == INSTANCE OrderLifecycle WITH
    status <- [o \in Orders |-> order[o].status],
    holder <- [o \in Orders |-> order[o].courier]

\* Every step of a handler is a step of the abstract lifecycle or leaves it unchanged,
\* even when handlers die half way.
ImplementsLifecycle == Lifecycle!Spec

\* A delivery is added to the stats of one courier at most, once, and it is the courier
\* who holds the delivered order (finalizeCourierDelivery).
CreditedAtMostOnce ==
    \A o \in Orders : \A c \in Couriers :
        credits[o][c] > 0 => /\ credits[o][c] = 1
                             /\ order[o].courier = c
                             /\ order[o].status = "DELIVERED"

\* acceptedAt on an assignment was set by the courier the assignment names; a courier
\* put on the order by a manager has not accepted until he does.
AcceptedByHolder ==
    \A o \in Orders : assignment[o].accepted \in {NoCourier, assignment[o].courier}

\* No handler is at work on the order and none died on it.
Settled(o) == Quiet(o) /\ o \notin interrupted

\* With no handler at work on it, an order's newest history row shows its status.
HistoryCurrent ==
    \A o \in Orders : Settled(o) => lastLogged[o] = order[o].status

\* An order waiting in the pool with no handler at work on it has been offered to the
\* couriers since it last lost its courier.
PoolAnnounced ==
    \A o \in Orders : Settled(o) /\ InPool(order[o]) => announced[o]

\* Unless it is cancelled, the couriers who believe an order to be theirs are exactly the
\* one who holds it: every courier who loses an order hears of it.
OnlyHolderInformed ==
    \A o \in Orders :
        Settled(o) /\ order[o].status # "CANCELLED" => informed[o] = Holders(order[o])

\* A delivered order is eventually counted for a courier, unless a handler died on it.
DeliveredIsCredited ==
    \A o \in Orders :
        order[o].status = "DELIVERED" ~>
            o \in interrupted \/ \E c \in Couriers : credits[o][c] = 1

-----------------------------------------------------------------------------
(* What the documents and comments say and the code does not do *)

\* ORDER_LIFECYCLE.md, Transitions: nothing leads out of CANCELLED or DELIVERED, and
\* PICKED_UP leads to DELIVERING alone.
DocumentedTransitions ==
    [][\A o \in Orders :
          LET was == order[o].status
              is == order'[o].status
          IN  /\ was \in Terminal => is = was
              /\ was = "PICKED_UP" => is \in {was, "DELIVERING"}]_vars

\* "syncs courier lifetime stats (idempotent)": one delivery, one credit.
FinalizeIdempotent ==
    \A o \in Orders : \A c \in Couriers : credits[o][c] <= 1

=============================================================================
