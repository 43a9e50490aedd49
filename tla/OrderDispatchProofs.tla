------------------------- MODULE OrderDispatchProofs -------------------------
(***************************************************************************)
(* Proofs about OrderDispatch, for any sets of orders, couriers and        *)
(* request slots: first of every interleaving, then of requests that do    *)
(* not overlap on one order (Overlap = FALSE).  What a handler read is     *)
(* then still true when it writes, the handlers implement OrderLifecycle,  *)
(* and each leaves the order's history, the pool and the couriers up to    *)
(* date.  Requests may still die half way, and requests about different    *)
(* orders interleave.                                                      *)
(***************************************************************************)
EXTENDS OrderDispatch, TLAPS

\* A request in flight is about an order, and where its operation names a courier, about
\* a courier.
SlotOK(q) ==
    q.phase # "idle" =>
        /\ q.order \in Orders
        /\ q.op \in {"accept", "claim", "reassign", "decline"} => q.courier \in Couriers
        /\ q.phase = "select" => q.op \in {"claim", "reassign"}
        /\ q.phase = "write" /\ q.op = "claim" => q.seen.courier \in {NoCourier, q.courier}
        /\ q.op = "status" => q.to # "COURIER_ASSIGNED"

RequestsOK == \A r \in Requests : SlotOK(req[r])

\* The inductive invariant of every interleaving.
DispatchInv == TypeOK /\ RequestsOK /\ CourierHasAssignment /\ AssignedHasCourier

LEMMA InitDispatchInv == Init => DispatchInv
  BY DispatchAssumption
  DEF Init, DispatchInv, TypeOK, RequestsOK, SlotOK, CourierHasAssignment, AssignedHasCourier,
      Row, AbsentRow, AssignmentRow, NoAssignment, Request, Idle, CourierOrNull, Phases,
      Ops, Statuses

-----------------------------------------------------------------------------
(* Typing: what the updates of one row or one slot leave behind *)

LEMMA RequestTyped ==
  ASSUME TypeOK, NEW r \in Requests
  PROVE  /\ req[r] \in Request
         /\ req[r].courier \in CourierOrNull
         /\ req[r].to \in Statuses
         /\ req[r].seen \in Row
         /\ req[r].seen.courier \in CourierOrNull
  BY DEF TypeOK, Request, Row

LEMMA RowTyped ==
  ASSUME TypeOK, NEW o \in Orders
  PROVE  /\ order[o] \in Row
         /\ order[o].courier \in CourierOrNull
         /\ order[o].status \in Statuses
         /\ assignment[o] \in AssignmentRow
         /\ assignment[o].courier \in CourierOrNull
  BY DEF TypeOK, Row, AssignmentRow

LEMMA StartTyped ==
  ASSUME TypeOK, NEW r \in Requests, NEW o \in Orders, NEW op \in Ops, NEW p \in Phases,
         NEW c \in CourierOrNull, NEW to \in Statuses, Start(r, o, op, p, c, to)
  PROVE  req' \in [Requests -> Request]
  BY RowTyped DEF TypeOK, Start, Request

LEMMA GotoTyped ==
  ASSUME TypeOK, NEW r \in Requests, NEW p \in Phases, Goto(r, p)
  PROVE  req' \in [Requests -> Request]
  BY DEF TypeOK, Goto, Request

\* A request goes on with the row it has just read or written.
LEMMA SeenTyped ==
  ASSUME TypeOK, NEW r \in Requests, NEW p \in Phases, NEW row \in Row
  PROVE  [req EXCEPT ![r].phase = p, ![r].seen = row] \in [Requests -> Request]
  <1>1. PICK q : q = [req[r] EXCEPT !.phase = p, !.seen = row]
    OBVIOUS
  <1>2. q \in Request
    BY <1>1, RequestTyped DEF Request
  <1>3. [req EXCEPT ![r].phase = p, ![r].seen = row] = [req EXCEPT ![r] = q]
    BY <1>1
  <1> QED
    BY <1>2, <1>3 DEF TypeOK

LEMMA FinishTyped ==
  ASSUME TypeOK, NEW r \in Requests, Finish(r)
  PROVE  req' \in [Requests -> Request]
  <1>1. Idle \in Request
    BY DEF Idle, Request, AbsentRow, Row, CourierOrNull, Phases, Ops, Statuses
  <1> QED
    BY <1>1 DEF TypeOK, Finish

LEMMA DetachTyped ==
  ASSUME TypeOK, NEW o \in Orders, Detach(o)
  PROVE  /\ order' \in [Orders -> Row]
         /\ assignment' \in [Orders -> AssignmentRow]
  <1>1. NoAssignment \in AssignmentRow
    BY DEF NoAssignment, AssignmentRow, CourierOrNull
  <1>2. [order[o] EXCEPT !.courier = NoCourier, !.status = "PREPARING"] \in Row
    BY RowTyped DEF Row, Statuses, CourierOrNull
  <1> QED
    BY <1>1, <1>2 DEF TypeOK, Detach

LEMMA TallyTyped ==
  ASSUME NEW tally \in [Couriers -> Nat], NEW c
  PROVE  [tally EXCEPT ![c] = @ + 1] \in [Couriers -> Nat]
  <1>1. CASE c \in Couriers
    <2>1. \A n \in Nat : n + 1 \in Nat
      OBVIOUS
    <2>2. tally[c] + 1 \in Nat
      BY <1>1, <2>1
    <2> HIDE <2>1
    <2> QED
      BY <1>1, <2>2
  <1>2. CASE c \notin Couriers
    <2>1. [tally EXCEPT ![c] = @ + 1] = tally
      BY <1>2
    <2> QED
      BY <2>1
  <1> QED
    BY <1>1, <1>2

LEMMA TypeStep ==
  ASSUME TypeOK, RequestsOK, NEW r \in Requests, Arrive(r) \/ Continue(r) \/ Fail(r)
  PROVE  TypeOK'
  <1>1. ASSUME NEW o \in Orders, PlaceOrder(r, o)  PROVE TypeOK'
    <2>1. req' \in [Requests -> Request]
      BY <1>1, StartTyped DEF PlaceOrder, Ops, Phases, Statuses, CourierOrNull
    <2>2. order' \in [Orders -> Row]
      <3>1. PICK row : row = [order[o] EXCEPT !.status = "PENDING"]
        OBVIOUS
      <3>2. row \in Row
        BY <3>1, RowTyped DEF Row, Statuses
      <3>3. order' = [order EXCEPT ![o] = row]
        BY <1>1, <3>1 DEF PlaceOrder
      <3> QED
        BY <3>2, <3>3 DEF TypeOK
    <2> QED
      BY <1>1, <2>1, <2>2 DEF TypeOK, PlaceOrder, told
  <1>2. ASSUME NEW o \in Orders, ReadForRequest(r, o)  PROVE TypeOK'
    BY <1>2, StartTyped DEF TypeOK, ReadForRequest, Ops, Phases, Statuses, CourierOrNull, db, told
  <1>3. ASSUME NEW o \in Orders, ReadForRemove(r, o)  PROVE TypeOK'
    BY <1>3, StartTyped DEF TypeOK, ReadForRemove, Ops, Phases, Statuses, CourierOrNull, db, told
  <1>4. ASSUME NEW o \in Orders, NEW to \in Statuses, NEW who \in CourierOrNull,
                ReadForStatus(r, o, to, who)
          PROVE TypeOK'
    BY <1>4, StartTyped DEF TypeOK, ReadForStatus, Ops, Phases, Statuses, CourierOrNull, db, told
  <1>5. ASSUME NEW o \in Orders, NEW c \in Couriers, ReadForAccept(r, o, c)  PROVE TypeOK'
    BY <1>5, StartTyped DEF TypeOK, ReadForAccept, Ops, Phases, Statuses, CourierOrNull, db, told
  <1>6. ASSUME NEW o \in Orders, NEW c \in Couriers, ReadForClaim(r, o, c)  PROVE TypeOK'
    BY <1>6, StartTyped DEF TypeOK, ReadForClaim, Ops, Phases, Statuses, CourierOrNull, db, told
  <1>7. ASSUME NEW o \in Orders, NEW c \in Couriers, StartReassign(r, o, c)  PROVE TypeOK'
    BY <1>7, StartTyped DEF TypeOK, StartReassign, Ops, Phases, Statuses, CourierOrNull, db, told
  <1>8. ASSUME NEW o \in Orders, NEW c \in Couriers, ReadForDecline(r, o, c)  PROVE TypeOK'
    BY <1>8, StartTyped DEF TypeOK, ReadForDecline, Ops, Phases, Statuses, CourierOrNull, db, told
  <1>9. CASE WriteStatus(r)
    <2> DEFINE o == req[r].order
    <2>1. o \in Orders
      BY <1>9 DEF RequestsOK, SlotOK, WriteStatus, Serving
    <2>2. Moved(order[o], req[r].to) \in Row
      BY <2>1, RowTyped, RequestTyped DEF Moved, Row, CourierOrNull
    <2>3. order' \in [Orders -> Row]
      BY <1>9, <2>1, <2>2 DEF TypeOK, WriteStatus
    <2>4. req' \in [Requests -> Request]
      <3>1. req' = [req EXCEPT ![r].phase = "log", ![r].seen = Moved(order[o], req[r].to)]
        BY <1>9 DEF WriteStatus
      <3> QED
        BY <2>2, <3>1, SeenTyped DEF Phases
    <2>5. UNCHANGED <<assignment, credits, lastLogged, told, interrupted>>
      BY <1>9 DEF WriteStatus
    <2> QED
      BY <2>3, <2>4, <2>5 DEF TypeOK, told
  <1>10. CASE ReadForFinalize(r)
    <2> DEFINE o == req[r].order
    <2>1. o \in Orders
      BY <1>10 DEF RequestsOK, SlotOK, ReadForFinalize, Serving
    <2>2. req' \in [Requests -> Request]
      <3>1. [req EXCEPT ![r].phase = "notify"] \in [Requests -> Request]
        BY DEF TypeOK, Request, Phases
      <3>2. [req EXCEPT ![r].phase = "credit", ![r].seen = order[o]] \in [Requests -> Request]
        BY <2>1, RowTyped, SeenTyped DEF Phases
      <3> QED
        BY <1>10, <3>1, <3>2 DEF ReadForFinalize
    <2> QED
      BY <1>10, <2>2 DEF TypeOK, ReadForFinalize, db, told
  <1>11. CASE WriteCredit(r)
    <2> DEFINE o == req[r].order
    <2>1. o \in Orders
      BY <1>11 DEF RequestsOK, SlotOK, WriteCredit, Serving
    <2>2. req' \in [Requests -> Request]
      BY <1>11, GotoTyped, FinishTyped DEF WriteCredit, Phases
    <2>3. assignment' \in [Orders -> AssignmentRow]
      <3>1. [assignment[o] EXCEPT !.delivered = TRUE] \in AssignmentRow
        BY <2>1, RowTyped DEF AssignmentRow
      <3>2. [assignment EXCEPT ![o].delivered = TRUE] \in [Orders -> AssignmentRow]
        BY <2>1, <3>1 DEF TypeOK
      <3> QED
        BY <1>11, <3>2 DEF TypeOK, WriteCredit
    <2>4. credits' \in [Orders -> [Couriers -> Nat]]
      <3>1. [credits EXCEPT ![o][req[r].seen.courier] = @ + 1] \in [Orders -> [Couriers -> Nat]]
        <4>1. [credits[o] EXCEPT ![req[r].seen.courier] = @ + 1] \in [Couriers -> Nat]
          BY <2>1, TallyTyped DEF TypeOK
        <4> QED
          BY <2>1, <4>1 DEF TypeOK
      <3> QED
        BY <1>11, <3>1 DEF TypeOK, WriteCredit
    <2> QED
      BY <1>11, <2>2, <2>3, <2>4 DEF TypeOK, WriteCredit, told
  <1>12. CASE WriteRequest(r)
    <2> DEFINE o == req[r].order
    <2>1. o \in Orders
      BY <1>12 DEF RequestsOK, SlotOK, WriteRequest, Serving
    <2>2. req' \in [Requests -> Request]
      BY <1>12, GotoTyped DEF WriteRequest, Phases
    <2>3. order' \in [Orders -> Row]
      BY <1>12, <2>1 DEF TypeOK, WriteRequest, Row
    <2> QED
      BY <1>12, <2>2, <2>3 DEF TypeOK, WriteRequest, told
  <1>13. CASE WriteAccept(r)
    <2> DEFINE o == req[r].order
    <2>1. o \in Orders
      BY <1>13 DEF RequestsOK, SlotOK, WriteAccept, Serving
    <2>2. req' \in [Requests -> Request]
      BY <1>13, FinishTyped DEF WriteAccept
    <2>3. assignment' \in [Orders -> AssignmentRow]
      BY <1>13, <2>1, RequestTyped DEF TypeOK, WriteAccept, AssignmentRow
    <2> QED
      BY <1>13, <2>2, <2>3 DEF TypeOK, WriteAccept, told
  <1>14. CASE SelectForAssign(r)
    <2> DEFINE o == req[r].order
    <2>1. o \in Orders
      BY <1>14 DEF RequestsOK, SlotOK, SelectForAssign
    <2>2. req' \in [Requests -> Request]
      <3>1. [req EXCEPT ![r].phase = "write", ![r].seen = order[o]] \in [Requests -> Request]
        BY <2>1, RowTyped, SeenTyped DEF Phases
      <3> QED
        BY <1>14, <3>1, FinishTyped DEF SelectForAssign
    <2> QED
      BY <1>14, <2>2 DEF TypeOK, SelectForAssign, db, told
  <1>15. CASE WriteAssign(r)
    <2> DEFINE o == req[r].order
    <2>1. o \in Orders
      BY <1>15 DEF RequestsOK, SlotOK, WriteAssign
    <2>2. req' \in [Requests -> Request]
      BY <1>15, GotoTyped DEF WriteAssign, Phases
    <2>3. order' \in [Orders -> Row]
      <3>1. [order[o] EXCEPT !.courier = req[r].courier, !.status = "COURIER_ASSIGNED"] \in Row
        BY <2>1, RowTyped, RequestTyped DEF Row, Statuses
      <3> QED
        BY <1>15, <2>1, <3>1 DEF TypeOK, WriteAssign
    <2>4. assignment' \in [Orders -> AssignmentRow]
      <3>1. \A a \in CourierOrNull :
               [assignment[o] EXCEPT !.courier = req[r].courier, !.accepted = a] \in AssignmentRow
        BY <2>1, RowTyped, RequestTyped DEF AssignmentRow
      <3>2. (IF IsPoolClaim(req[r]) THEN req[r].courier ELSE NoCourier) \in CourierOrNull
        BY RequestTyped DEF CourierOrNull
      <3> QED
        BY <1>15, <2>1, <3>1, <3>2 DEF TypeOK, WriteAssign
    <2>5. announced' \in [Orders -> BOOLEAN]
      BY <1>15, <2>1 DEF TypeOK, WriteAssign
    <2> QED
      BY <1>15, <2>2, <2>3, <2>4, <2>5 DEF TypeOK, WriteAssign
  <1>16. CASE LoseClaim(r)
    BY <1>16, FinishTyped DEF TypeOK, LoseClaim, db, told
  <1>17. CASE WriteRemove(r)
    <2> DEFINE o == req[r].order
    <2>1. o \in Orders
      BY <1>17 DEF RequestsOK, SlotOK, WriteRemove, Serving
    <2>2. req' \in [Requests -> Request]
      BY <1>17, GotoTyped DEF WriteRemove, Phases
    <2> QED
      BY <1>17, <2>1, <2>2, DetachTyped DEF TypeOK, WriteRemove, told
  <1>18. CASE WriteDecline(r)
    <2> DEFINE o == req[r].order
    <2>1. o \in Orders
      BY <1>18 DEF RequestsOK, SlotOK, WriteDecline, Serving
    <2>2. req' \in [Requests -> Request]
      BY <1>18, GotoTyped DEF WriteDecline, Phases
    <2>3. lastLogged' \in [Orders -> Statuses]
      BY <1>18, <2>1 DEF TypeOK, WriteDecline, Statuses
    <2>4. informed' \in [Orders -> SUBSET Couriers]
      BY <1>18, <2>1 DEF TypeOK, WriteDecline
    <2> QED
      BY <1>18, <2>1, <2>2, <2>3, <2>4, DetachTyped DEF TypeOK, WriteDecline
  <1>19. CASE Log(r)
    <2> DEFINE o == req[r].order
    <2>1. o \in Orders
      BY <1>19 DEF RequestsOK, SlotOK, Log
    <2>2. req' \in [Requests -> Request]
      BY <1>19, GotoTyped, FinishTyped DEF Log, Phases
    <2>3. lastLogged' \in [Orders -> Statuses]
      BY <1>19, <2>1, RequestTyped DEF TypeOK, Log
    <2> QED
      BY <1>19, <2>2, <2>3 DEF TypeOK, Log, db, told
  <1>20. CASE NotifyStatus(r)
    <2> DEFINE o == req[r].order
    <2>1. o \in Orders
      BY <1>20 DEF RequestsOK, SlotOK, NotifyStatus, Serving
    <2>2. req' \in [Requests -> Request]
      BY <1>20, FinishTyped DEF NotifyStatus
    <2>3. informed' \in [Orders -> SUBSET Couriers]
      BY <1>20, <2>1, RowTyped DEF TypeOK, NotifyStatus, Holders, CourierOrNull
    <2> QED
      BY <1>20, <2>2, <2>3 DEF TypeOK, NotifyStatus, db, told
  <1>21. CASE NotifyPool(r)
    <2> DEFINE o == req[r].order
    <2>1. o \in Orders
      BY <1>21 DEF RequestsOK, SlotOK, NotifyPool, Serving
    <2>2. req' \in [Requests -> Request]
      BY <1>21, FinishTyped DEF NotifyPool
    <2>4. announced' \in [Orders -> BOOLEAN]
      BY <1>21, <2>1, RowTyped DEF TypeOK, NotifyPool, Row, InPool
    <2> QED
      BY <1>21, <2>2, <2>4 DEF TypeOK, NotifyPool, db, told
  <1>22. CASE NotifyAssign(r)
    <2> DEFINE o == req[r].order
    <2>1. o \in Orders
      BY <1>22 DEF RequestsOK, SlotOK, NotifyAssign, Serving
    <2>2. req' \in [Requests -> Request]
      BY <1>22, FinishTyped DEF NotifyAssign
    <2>3. informed' \in [Orders -> SUBSET Couriers]
      BY <1>22, <2>1, RowTyped DEF TypeOK, NotifyAssign, Holders, CourierOrNull
    <2> QED
      BY <1>22, <2>2, <2>3 DEF TypeOK, NotifyAssign, db, told
  <1>23. CASE NotifyRemove(r)
    <2> DEFINE o == req[r].order
    <2>1. o \in Orders
      BY <1>23 DEF RequestsOK, SlotOK, NotifyRemove, Serving
    <2>2. req' \in [Requests -> Request]
      BY <1>23, FinishTyped DEF NotifyRemove
    <2>3. informed' \in [Orders -> SUBSET Couriers]
      BY <1>23, <2>1, RowTyped DEF TypeOK, NotifyRemove, Holders, CourierOrNull
    <2>4. announced' \in [Orders -> BOOLEAN]
      BY <1>23, <2>1, RowTyped DEF TypeOK, NotifyRemove, Row, InPool
    <2> QED
      BY <1>23, <2>2, <2>3, <2>4 DEF TypeOK, NotifyRemove, db, told
  <1>24. CASE NotifyDecline(r)
    <2> DEFINE o == req[r].order
    <2>1. o \in Orders
      BY <1>24 DEF RequestsOK, SlotOK, NotifyDecline, Serving
    <2>2. req' \in [Requests -> Request]
      BY <1>24, FinishTyped DEF NotifyDecline
    <2>4. announced' \in [Orders -> BOOLEAN]
      BY <1>24, <2>1, RowTyped DEF TypeOK, NotifyDecline, Row, InPool
    <2> QED
      BY <1>24, <2>2, <2>4 DEF TypeOK, NotifyDecline, db, told
  <1>25. CASE Fail(r)
    <2>1. req' \in [Requests -> Request]
      BY <1>25, FinishTyped DEF Fail
    <2>2. interrupted' \in SUBSET Orders
      BY <1>25 DEF TypeOK, RequestsOK, SlotOK, Fail
    <2> QED
      BY <1>25, <2>1, <2>2 DEF TypeOK, Fail, db, told
  <1> QED
    BY <1>1, <1>2, <1>3, <1>4, <1>5, <1>6, <1>7, <1>8, <1>9, <1>10, <1>11, <1>12,
       <1>13, <1>14, <1>15, <1>16, <1>17, <1>18, <1>19, <1>20, <1>21, <1>22, <1>23,
       <1>24, <1>25 DEF Arrive, Continue

-----------------------------------------------------------------------------
(* The request slots *)

LEMMA FinishOK ==
  ASSUME TypeOK, RequestsOK, NEW r \in Requests, Finish(r)
  PROVE  RequestsOK'
  BY DEF TypeOK, RequestsOK, SlotOK, Finish, Idle

LEMMA AdvanceOK ==
  ASSUME TypeOK, RequestsOK, NEW r \in Requests, req[r].phase # "idle",
         NEW p \in Phases \ {"select", "write"}, NEW row,
         \/ Goto(r, p)
         \/ req' = [req EXCEPT ![r].phase = p, ![r].seen = row]
  PROVE  RequestsOK'
  <1>1. req'[r].phase = p /\ req'[r].op = req[r].op /\ req'[r].order = req[r].order
        /\ req'[r].courier = req[r].courier /\ req'[r].to = req[r].to
    BY DEF TypeOK, Request, Goto
  <1>2. \A s \in Requests : s # r => req'[s] = req[s]
    BY DEF TypeOK, Goto
  <1> QED
    BY <1>1, <1>2 DEF RequestsOK, SlotOK, Phases

LEMMA StartOK ==
  ASSUME TypeOK, RequestsOK, NEW r \in Requests, NEW o \in Orders, NEW op \in Ops,
         NEW p \in Phases, NEW c, NEW to, Start(r, o, op, p, c, to),
         op \in {"accept", "claim", "reassign", "decline"} => c \in Couriers,
         p = "select" => op \in {"claim", "reassign"},
         p = "write" => op # "claim",
         op = "status" => to # "COURIER_ASSIGNED"
  PROVE  RequestsOK'
  <1>1. req'[r].phase = p /\ req'[r].op = op /\ req'[r].order = o /\ req'[r].courier = c
        /\ req'[r].to = to
    BY DEF TypeOK, Start
  <1>2. \A s \in Requests : s # r => req'[s] = req[s]
    BY DEF TypeOK, Start
  <1> QED
    BY <1>1, <1>2 DEF RequestsOK, SlotOK

\* A status request never asks for COURIER_ASSIGNED.
LEMMA FlowNeverAssigns ==
  \A s \in Statuses : "COURIER_ASSIGNED" \notin STATUS_FLOW[s]
  BY DEF STATUS_FLOW

LEMMA RequestsStep ==
  ASSUME TypeOK, RequestsOK, NEW r \in Requests, Arrive(r) \/ Continue(r) \/ Fail(r)
  PROVE  RequestsOK'
  <1>1. ASSUME NEW o \in Orders, PlaceOrder(r, o)  PROVE RequestsOK'
    BY <1>1, StartOK DEF PlaceOrder, Ops, Phases
  <1>2. ASSUME NEW o \in Orders, ReadForRequest(r, o)  PROVE RequestsOK'
    BY <1>2, StartOK DEF ReadForRequest, Ops, Phases
  <1>3. ASSUME NEW o \in Orders, ReadForRemove(r, o)  PROVE RequestsOK'
    BY <1>3, StartOK DEF ReadForRemove, Ops, Phases
  <1>4. ASSUME NEW o \in Orders, NEW to \in Statuses, NEW who \in CourierOrNull,
               ReadForStatus(r, o, to, who)
        PROVE RequestsOK'
    BY <1>4, StartOK, RowTyped, FlowNeverAssigns DEF ReadForStatus, Ops, Phases
  <1>5. ASSUME NEW o \in Orders, NEW c \in Couriers, ReadForAccept(r, o, c)  PROVE RequestsOK'
    BY <1>5, StartOK DEF ReadForAccept, Ops, Phases
  <1>6. ASSUME NEW o \in Orders, NEW c \in Couriers, ReadForClaim(r, o, c)  PROVE RequestsOK'
    BY <1>6, StartOK DEF ReadForClaim, Ops, Phases
  <1>7. ASSUME NEW o \in Orders, NEW c \in Couriers, StartReassign(r, o, c)  PROVE RequestsOK'
    BY <1>7, StartOK DEF StartReassign, Ops, Phases
  <1>8. ASSUME NEW o \in Orders, NEW c \in Couriers, ReadForDecline(r, o, c)  PROVE RequestsOK'
    BY <1>8, StartOK DEF ReadForDecline, Ops, Phases
  <1>9. CASE WriteStatus(r)
    BY <1>9, AdvanceOK DEF WriteStatus, Serving, Phases
  <1>10. CASE ReadForFinalize(r)
    <2>1. Goto(r, "notify") \/ req' = [req EXCEPT ![r].phase = "credit", ![r].seen = order[req[r].order]]
      BY <1>10 DEF ReadForFinalize, Goto
    <2> QED
      BY <1>10, <2>1, AdvanceOK DEF ReadForFinalize, Serving, Phases
  <1>11. CASE WriteCredit(r)
    BY <1>11, AdvanceOK, FinishOK DEF WriteCredit, Serving, Phases
  <1>12. CASE WriteRequest(r)
    BY <1>12, AdvanceOK DEF WriteRequest, Serving, Phases
  <1>13. CASE SelectForAssign(r)
    <2> DEFINE o == req[r].order
               q == [req[r] EXCEPT !.phase = "write", !.seen = order[o]]
    <2>1. CASE order[o].status \in Assignable
               /\ (order[o].courier \notin {NoCourier, req[r].courier} => req[r].op = "reassign")
      <3>1. req' = [req EXCEPT ![r] = q]
        BY <1>13, <2>1 DEF SelectForAssign, TypeOK
      <3>2. q.phase = "write" /\ q.op = req[r].op /\ q.order = o /\ q.courier = req[r].courier
            /\ q.seen = order[o] /\ q.to = req[r].to
        BY DEF TypeOK, Request
      <3>3. q.op = "claim" => order[o].courier \in {NoCourier, req[r].courier}
        BY <2>1, <3>2
      <3>4. SlotOK(req[r]) /\ req[r].phase # "idle"
        BY <1>13 DEF SelectForAssign, RequestsOK
      <3>5. SlotOK(q)
        BY <3>2, <3>3, <3>4 DEF SlotOK
      <3> QED
        BY <3>1, <3>5 DEF TypeOK, RequestsOK
    <2>2. CASE Finish(r)
      BY <2>2, FinishOK
    <2> QED
      BY <1>13, <2>1, <2>2 DEF SelectForAssign
  <1>14. CASE WriteAssign(r)
    BY <1>14, AdvanceOK DEF WriteAssign, Phases
  <1>15. CASE WriteRemove(r)
    BY <1>15, AdvanceOK DEF WriteRemove, Serving, Phases
  <1>16. CASE WriteDecline(r)
    BY <1>16, AdvanceOK DEF WriteDecline, Serving, Phases
  <1>17. CASE Log(r)
    <2>1. Finish(r) \/ Goto(r, "finalize") \/ Goto(r, "notify")
      BY <1>17 DEF Log
    <2> QED
      BY <1>17, <2>1, AdvanceOK, FinishOK DEF Log, Phases
  <1>18. CASE WriteAccept(r)
    BY <1>18, FinishOK DEF WriteAccept
  <1>19. CASE LoseClaim(r)
    BY <1>19, FinishOK DEF LoseClaim
  <1>20. CASE NotifyStatus(r)
    BY <1>20, FinishOK DEF NotifyStatus
  <1>21. CASE NotifyPool(r)
    BY <1>21, FinishOK DEF NotifyPool
  <1>22. CASE NotifyAssign(r)
    BY <1>22, FinishOK DEF NotifyAssign
  <1>23. CASE NotifyRemove(r)
    BY <1>23, FinishOK DEF NotifyRemove
  <1>24. CASE NotifyDecline(r)
    BY <1>24, FinishOK DEF NotifyDecline
  <1>25. CASE Fail(r)
    BY <1>25, FinishOK DEF Fail
  <1> QED
    BY <1>1, <1>2, <1>3, <1>4, <1>5, <1>6, <1>7, <1>8, <1>9, <1>10, <1>11, <1>12,
       <1>13, <1>14, <1>15, <1>16, <1>17, <1>18, <1>19, <1>20, <1>21, <1>22, <1>23,
       <1>24, <1>25 DEF Arrive, Continue

-----------------------------------------------------------------------------
(* The order's courier and its assignment row *)

CourierInv == CourierHasAssignment /\ AssignedHasCourier

\* A step that writes no order keeps both parts if it keeps the couriers of the
\* assignments too.
LEMMA CourierKept ==
  ASSUME TypeOK, CourierInv, UNCHANGED order,
         \A o \in Orders : assignment'[o].courier = assignment[o].courier
  PROVE  CourierInv'
  BY DEF CourierInv, CourierHasAssignment, AssignedHasCourier

\* Assigning the order and its assignment row to the same courier restores both parts.
LEMMA CourierWritten ==
  ASSUME TypeOK, CourierInv, NEW o \in Orders, NEW row, NEW a,
         order' = [order EXCEPT ![o] = row],
         assignment' = [assignment EXCEPT ![o] = a],
         row.courier # NoCourier => a.courier = row.courier,
         row.status = "COURIER_ASSIGNED" => row.courier # NoCourier
  PROVE  CourierInv'
  BY DEF TypeOK, CourierInv, CourierHasAssignment, AssignedHasCourier

LEMMA CourierStep ==
  ASSUME TypeOK, RequestsOK, CourierInv, NEW r \in Requests,
         Arrive(r) \/ Continue(r) \/ Fail(r)
  PROVE  CourierInv'
  <1> DEFINE o == req[r].order
  <1>1. ASSUME NEW p \in Orders, PlaceOrder(r, p)  PROVE CourierInv'
    <2>1. order' = [order EXCEPT ![p] = [order[p] EXCEPT !.status = "PENDING"]]
      BY <1>1 DEF PlaceOrder, TypeOK
    <2>2. assignment' = [assignment EXCEPT ![p] = assignment[p]]
      BY <1>1 DEF PlaceOrder, TypeOK
    <2> QED
      BY <2>1, <2>2, CourierWritten, RowTyped DEF Row, CourierInv, CourierHasAssignment
  <1>2. CASE WriteStatus(r)
    <2> DEFINE row == Moved(order[o], req[r].to)
    <2>1. o \in Orders
      BY <1>2 DEF RequestsOK, SlotOK, WriteStatus, Serving
    <2>2. order' = [order EXCEPT ![o] = row] /\ assignment' = [assignment EXCEPT ![o] = assignment[o]]
      BY <1>2 DEF WriteStatus, TypeOK
    <2>3. row.courier # NoCourier => row.courier = order[o].courier
      BY <2>1, RowTyped DEF Moved, Row
    <2>4. row.status # "COURIER_ASSIGNED"
      <3>1. req[r].to # "COURIER_ASSIGNED"
        BY <1>2 DEF RequestsOK, SlotOK, WriteStatus, Serving
      <3>2. row.status = req[r].to
        BY <2>1, RowTyped DEF Moved, Row
      <3> QED
        BY <3>1, <3>2
    <2> HIDE DEF row
    <2> QED
      BY <2>1, <2>2, <2>3, <2>4, CourierWritten DEF CourierInv, CourierHasAssignment
  <1>3. CASE WriteRequest(r)
    <2>1. o \in Orders
      BY <1>3 DEF RequestsOK, SlotOK, WriteRequest, Serving
    <2>2. /\ order' = [order EXCEPT ![o] = [order[o] EXCEPT !.requested = TRUE]]
          /\ assignment' = [assignment EXCEPT ![o] = assignment[o]]
      BY <1>3 DEF WriteRequest, TypeOK
    <2> QED
      BY <2>1, <2>2, CourierWritten, RowTyped
      DEF Row, CourierInv, CourierHasAssignment, AssignedHasCourier
  <1>4. CASE WriteAssign(r)
    <2> DEFINE row == [order[o] EXCEPT !.courier = req[r].courier, !.status = "COURIER_ASSIGNED"]
               accepted == IF IsPoolClaim(req[r]) THEN req[r].courier ELSE NoCourier
               a == [assignment[o] EXCEPT !.courier = req[r].courier, !.accepted = accepted]
    <2>1. o \in Orders /\ req[r].courier \in Couriers
      BY <1>4 DEF RequestsOK, SlotOK, WriteAssign
    <2>2. order' = [order EXCEPT ![o] = row]
      BY <1>4 DEF WriteAssign
    <2>3. assignment' = [assignment EXCEPT ![o] = a]
      BY <1>4 DEF WriteAssign
    <2>4. row.courier = req[r].courier /\ a.courier = req[r].courier
      BY <2>1, RowTyped DEF Row, AssignmentRow
    <2>5. req[r].courier # NoCourier
      BY <2>1, DispatchAssumption
    <2> HIDE DEF row, a
    <2> QED
      BY <2>1, <2>2, <2>3, <2>4, <2>5, CourierWritten
  <1>5. CASE WriteRemove(r) \/ WriteDecline(r)
    <2>1. o \in Orders
      BY <1>5 DEF RequestsOK, SlotOK, WriteRemove, WriteDecline, Serving
    <2>2. Detach(o)
      BY <1>5 DEF WriteRemove, WriteDecline
    <2> DEFINE row == [order[o] EXCEPT !.courier = NoCourier, !.status = "PREPARING"]
    <2>3. row.courier = NoCourier /\ row.status = "PREPARING"
      BY <2>1, RowTyped DEF Row
    <2>4. order' = [order EXCEPT ![o] = row] /\ assignment' = [assignment EXCEPT ![o] = NoAssignment]
      BY <2>2 DEF Detach
    <2> HIDE DEF row
    <2> QED
      BY <2>1, <2>3, <2>4, CourierWritten
  <1>6. CASE WriteCredit(r) \/ WriteAccept(r)
    <2>1. o \in Orders
      BY <1>6 DEF RequestsOK, SlotOK, WriteCredit, WriteAccept, Serving
    <2>2. \/ UNCHANGED assignment
          \/ assignment' = [assignment EXCEPT ![o].delivered = TRUE]
          \/ assignment' = [assignment EXCEPT ![o].accepted = req[r].courier]
      BY <1>6 DEF WriteCredit, WriteAccept
    <2>3. \A p \in Orders : assignment'[p].courier = assignment[p].courier
      <3>1. \A p \in Orders : p # o => assignment'[p] = assignment[p]
        BY <2>1, <2>2 DEF TypeOK
      <3>2. assignment'[o].courier = assignment[o].courier
        <4>1. CASE assignment' = [assignment EXCEPT ![o].delivered = TRUE]
          BY <2>1, <4>1, RowTyped DEF TypeOK, AssignmentRow
        <4>2. CASE assignment' = [assignment EXCEPT ![o].accepted = req[r].courier]
          BY <2>1, <4>2, RowTyped DEF TypeOK, AssignmentRow
        <4> QED
          BY <2>2, <4>1, <4>2
      <3> QED
        BY <3>1, <3>2
    <2> QED
      BY <1>6, <2>3, CourierKept DEF WriteCredit, WriteAccept
  <1>7. CASE UNCHANGED <<order, assignment>>
    BY <1>7, CourierKept
  <1> QED
    BY <1>1, <1>2, <1>3, <1>4, <1>5, <1>6, <1>7 DEF Arrive, Continue, ReadForStatus,
       ReadForFinalize, ReadForRequest, ReadForAccept, ReadForClaim, StartReassign,
       SelectForAssign, LoseClaim, ReadForRemove, ReadForDecline, Log, NotifyStatus,
       NotifyPool, NotifyAssign, NotifyRemove, NotifyDecline, Fail, db

-----------------------------------------------------------------------------
(* The theorems *)

LEMMA StepDispatchInv == DispatchInv /\ [Next]_vars => DispatchInv'
  <1> SUFFICES ASSUME DispatchInv, [Next]_vars  PROVE DispatchInv'
    OBVIOUS
  <1> USE DEF DispatchInv
  <1>1. CASE Next
    <2>1. PICK r \in Requests : Arrive(r) \/ Continue(r) \/ Fail(r)
      BY <1>1 DEF Next
    <2> QED
      BY <2>1, TypeStep, RequestsStep, CourierStep DEF CourierInv
  <1>2. CASE UNCHANGED vars
    BY <1>2 DEF vars, TypeOK, RequestsOK, CourierHasAssignment, AssignedHasCourier
  <1> QED
    BY <1>1, <1>2

LEMMA DispatchInvariant == Spec => []DispatchInv
  BY InitDispatchInv, StepDispatchInv, PTL DEF Spec

\* Every variable keeps its type, however many requests overlap and fail.
THEOREM TypesHold == Spec => []TypeOK
  BY DispatchInvariant, PTL DEF DispatchInv

\* The transactions of assignCourier, removeCourier and declineOrder, and the updates of
\* updateStatus, keep the order row and its courier_assignments row on the same courier.
THEOREM CouriersMatch == Spec => []CourierHasAssignment
  BY DispatchInvariant, PTL DEF DispatchInv

\* No interleaving leaves COURIER_ASSIGNED on an order nobody holds.
THEOREM AssignedIsHeld == Spec => []AssignedHasCourier
  BY DispatchInvariant, PTL DEF DispatchInv

LEMMA ClaimStep ==
  ASSUME DispatchInv, [Next]_vars
  PROVE  HandsOverOnlyKnowingly
  <1> USE DEF DispatchInv
  <1> SUFFICES ASSUME NEW o \in Orders, HandsOver(o)
               PROVE  \E r \in Requests :
                         /\ req'[r] # req[r]
                         /\ req[r].order = o
                         /\ \/ req[r].op = "reassign"
                            \/ req[r].seen.courier = order'[o].courier
    BY DEF HandsOverOnlyKnowingly
  <1>1. order'[o].courier # NoCourier /\ order'[o].courier # order[o].courier
    BY DEF HandsOver
  <1>2. PICK r \in Requests : Arrive(r) \/ Continue(r) \/ Fail(r)
    BY <1>1 DEF Next, vars
  \* Every other write keeps the courier of an order or takes it away.
  <1>3. WriteAssign(r)
    <2>1. ASSUME NEW p \in Orders, PlaceOrder(r, p)  PROVE FALSE
      BY <2>1, <1>1 DEF PlaceOrder, TypeOK, Row
    <2>2. CASE WriteStatus(r)
      BY <2>2, <1>1, RowTyped DEF WriteStatus, Moved, TypeOK, Row
    <2>3. CASE WriteRequest(r)
      BY <2>3, <1>1 DEF WriteRequest, TypeOK, Row
    <2>4. CASE WriteRemove(r) \/ WriteDecline(r)
      BY <2>4, <1>1 DEF WriteRemove, WriteDecline, Detach, TypeOK, Row
    <2>5. CASE UNCHANGED order
      BY <2>5, <1>1
    <2> QED
      BY <1>2, <2>1, <2>2, <2>3, <2>4, <2>5 DEF Arrive, Continue, ReadForStatus,
         ReadForFinalize, WriteCredit, ReadForRequest, ReadForAccept, WriteAccept,
         ReadForClaim, StartReassign, SelectForAssign, LoseClaim, ReadForRemove,
         ReadForDecline, Log, NotifyStatus, NotifyPool, NotifyAssign, NotifyRemove,
         NotifyDecline, Fail, db
  <1>4. req[r].order = o
    BY <1>1, <1>3 DEF WriteAssign, TypeOK
  <1>5. order'[o].courier = req[r].courier
    BY <1>3, <1>4 DEF WriteAssign, TypeOK, Row
  <1>6. req'[r] # req[r]
    BY <1>3 DEF WriteAssign, Goto, TypeOK, Request
  <1>7. req[r].op = "claim" => req[r].seen.courier = req[r].courier
    <2>1. ~IsPoolClaim(req[r])
      BY <1>3, <1>4 DEF WriteAssign, WriteAllowed, HandsOver
    <2> QED
      BY <1>3, <2>1 DEF WriteAssign, IsPoolClaim, RequestsOK, SlotOK
  <1> QED
    BY <1>3, <1>4, <1>5, <1>6, <1>7 DEF WriteAssign

\* Of the couriers who read an order as free, one at most gets it.
THEOREM OneClaimWins == Spec => FreshClaimNeverSteals
  BY ClaimStep, DispatchInvariant, PTL DEF Spec, FreshClaimNeverSteals

-----------------------------------------------------------------------------
(* Requests about one order do not overlap *)

\* At most one slot is serving an order.
OneAtATime ==
    \A r, s \in Requests :
        req[r].phase # "idle" /\ req[s].phase # "idle" /\ req[r].order = req[s].order
        => r = s

\* The statuses in which an order has a courier.
Carried == {"COURIER_ASSIGNED", "ARRIVED_AT_RESTAURANT", "PICKED_UP", "DELIVERING",
            "DELIVERED"}

\* What holds of one order between any two steps.
RowOK(o) ==
    /\ order[o].courier # NoCourier => order[o].status \in Carried
    /\ assignment[o].accepted \in {NoCourier, assignment[o].courier}
    /\ \A c \in Couriers :
          credits[o][c] > 0 => /\ credits[o][c] = 1
                               /\ order[o].courier = c
                               /\ order[o].status = "DELIVERED"
                               /\ assignment[o].delivered

\* What the checks of a handler established, still true before its write.
Checked(q, row) ==
    /\ q.op = "status" => q.to \in STATUS_FLOW[row.status]
    /\ q.op = "request" => row.status = "PREPARING"
    /\ q.op = "accept" => row.courier = q.courier
    /\ q.op \in {"claim", "reassign"} => row.status \in Assignable
    /\ q.op = "remove" => row.courier # NoCourier /\ row.status \in Assignable
    /\ q.op = "decline" => /\ row.courier = q.courier
                           /\ row.courier # NoCourier
                           /\ row.status = "COURIER_ASSIGNED"

SlotFresh(q) ==
    LET row == order[q.order]
    IN  /\ q.phase = "write" => q.seen = row /\ Checked(q, row)
        /\ q.phase = "log" /\ q.op = "status" => row.status = q.to
        /\ q.phase = "finalize" => row.status = "DELIVERED"
        /\ q.phase = "credit" => /\ row.status = "DELIVERED"
                                 /\ row.courier = q.seen.courier
                                 /\ row.courier # NoCourier
                                 /\ ~assignment[q.order].delivered

\* The inductive invariant.
SerialInv ==
    /\ DispatchInv
    /\ OneAtATime
    /\ \A o \in Orders : RowOK(o)
    /\ \A r \in Requests : req[r].phase # "idle" => SlotFresh(req[r])

-----------------------------------------------------------------------------

LEMMA InitSerialInv == Init => SerialInv
  BY InitDispatchInv
  DEF Init, SerialInv, OneAtATime, RowOK, SlotFresh, AbsentRow, NoAssignment, Idle

\* A step of slot r that touches order o alone, while no other slot serves o, needs to
\* keep the invariant of o and of slot r: the rest follows.
LEMMA StepFrame ==
  ASSUME SerialInv, DispatchInv', NEW r \in Requests, NEW o \in Orders,
         \A s \in Requests \ {r} : req'[s] = req[s],
         \A s \in Requests \ {r} : req[s].phase # "idle" => req[s].order # o,
         req'[r].phase # "idle" => req'[r].order = o,
         \A p \in Orders \ {o} : /\ order'[p] = order[p]
                                 /\ assignment'[p] = assignment[p]
                                 /\ credits'[p] = credits[p],
         RowOK(o)',
         req'[r].phase # "idle" => SlotFresh(req[r])'
  PROVE  SerialInv'
  <1>1. OneAtATime'
    BY DEF SerialInv, OneAtATime
  <1>2. \A p \in Orders : RowOK(p)'
    <2> SUFFICES ASSUME NEW p \in Orders, p # o  PROVE RowOK(p)'
      OBVIOUS
    <2> QED
      BY DEF SerialInv, RowOK
  <1>3. \A s \in Requests : req'[s].phase # "idle" => SlotFresh(req[s])'
    <2> SUFFICES ASSUME NEW s \in Requests, s # r, req'[s].phase # "idle"
                 PROVE  SlotFresh(req[s])'
      OBVIOUS
    <2>1. req'[s] = req[s] /\ req[s].order # o /\ req[s].order \in Orders
      BY DEF SerialInv, DispatchInv, RequestsOK, SlotOK
    <2> QED
      BY <2>1 DEF SerialInv, SlotFresh, Checked
  <1> QED
    BY <1>1, <1>2, <1>3 DEF SerialInv

\* The slots other than r, at a step of r.
LEMMA ArriveAlone ==
  ASSUME Overlap = FALSE, NEW r \in Requests, NEW o \in Orders, Free(r, o)
  PROVE  \A s \in Requests \ {r} : req[s].phase # "idle" => req[s].order # o
  BY DEF Free, Quiet, InFlight

LEMMA ContinueAlone ==
  ASSUME SerialInv, NEW r \in Requests, req[r].phase # "idle"
  PROVE  \A s \in Requests \ {r} : req[s].phase # "idle" => req[s].order # req[r].order
  BY DEF SerialInv, OneAtATime

LEMMA OthersKept ==
  ASSUME TypeOK, NEW r \in Requests, Arrive(r) \/ Continue(r) \/ Fail(r)
  PROVE  \A s \in Requests \ {r} : req'[s] = req[s]
  <1>1. req \in [Requests -> Request]
    BY DEF TypeOK
  <1>2. CASE Arrive(r)
    BY <1>1, <1>2 DEF Arrive, PlaceOrder, ReadForStatus, ReadForRequest, ReadForAccept,
       ReadForClaim, StartReassign, ReadForRemove, ReadForDecline, Start
  <1>3. CASE WriteStatus(r) \/ ReadForFinalize(r) \/ WriteCredit(r) \/ WriteRequest(r)
             \/ WriteAccept(r) \/ SelectForAssign(r) \/ WriteAssign(r) \/ LoseClaim(r)
    BY <1>1, <1>3 DEF WriteStatus, ReadForFinalize, WriteCredit, WriteRequest, WriteAccept,
       SelectForAssign, WriteAssign, LoseClaim, Goto, Finish
  <1>4. CASE Continue(r) /\ ~(WriteStatus(r) \/ ReadForFinalize(r) \/ WriteCredit(r)
             \/ WriteRequest(r) \/ WriteAccept(r) \/ SelectForAssign(r) \/ WriteAssign(r)
             \/ LoseClaim(r))
    <2>1. WriteRemove(r) \/ WriteDecline(r) \/ Log(r) \/ NotifyStatus(r) \/ NotifyPool(r)
             \/ NotifyAssign(r) \/ NotifyRemove(r) \/ NotifyDecline(r)
      BY <1>4 DEF Continue
    <2> QED
      BY <1>1, <2>1 DEF WriteRemove, WriteDecline, Log, NotifyStatus, NotifyPool, NotifyAssign,
         NotifyRemove, NotifyDecline, Goto, Finish
  <1>5. CASE Fail(r)
    BY <1>1, <1>5 DEF Fail, Finish
  <1> QED
    BY <1>2, <1>3, <1>4, <1>5

\* A request that has just read order o.
LEMMA StartKeeps ==
  ASSUME SerialInv, Overlap = FALSE, DispatchInv', NEW r \in Requests, NEW o \in Orders,
         Free(r, o), NEW op, NEW p \in {"write", "select"}, NEW c, NEW to,
         Start(r, o, op, p, c, to), UNCHANGED db,
         p = "write" => Checked([phase |-> p, op |-> op, order |-> o, to |-> to,
                                 courier |-> c, seen |-> order[o]], order[o])
  PROVE  SerialInv'
  <1> DEFINE q == [phase |-> p, op |-> op, order |-> o, to |-> to, courier |-> c,
                   seen |-> order[o]]
  <1>1. req'[r] = q /\ \A s \in Requests \ {r} : req'[s] = req[s]
    BY DEF Start, SerialInv, DispatchInv, TypeOK
  <1>2. UNCHANGED <<order, assignment, credits>>
    BY DEF db
  <1>3. RowOK(o)'
    <2>1. RowOK(o)
      BY DEF SerialInv
    <2> QED
      BY <2>1, <1>2 DEF RowOK
  <1>4. SlotFresh(req[r])'
    BY <1>1, <1>2 DEF SlotFresh, Checked
  <1>5. \A t \in Orders \ {o} : /\ order'[t] = order[t]
                                /\ assignment'[t] = assignment[t]
                                /\ credits'[t] = credits[t]
    BY <1>2
  <1>6. \A s \in Requests \ {r} : req[s].phase # "idle" => req[s].order # o
    BY ArriveAlone
  <1>7. req'[r].order = o /\ \A s \in Requests \ {r} : req'[s] = req[s]
    BY <1>1
  <1> HIDE DEF q
  <1> QED
    BY <1>3, <1>4, <1>5, <1>6, <1>7, StepFrame

\* A request that ends or goes on to its notifications leaves nothing to be kept.
LEMMA RestKeeps ==
  ASSUME SerialInv, DispatchInv', NEW r \in Requests, req[r].phase # "idle",
         Finish(r) \/ Goto(r, "notify"), UNCHANGED db
  PROVE  SerialInv'
  <1>1. PICK o \in Orders : o = req[r].order
    BY DEF SerialInv, DispatchInv, RequestsOK, SlotOK
  <1>2. UNCHANGED <<order, assignment, credits>>
    BY DEF db
  <1>3. \A s \in Requests \ {r} : req'[s] = req[s]
    BY DEF Finish, Goto, SerialInv, DispatchInv, TypeOK
  <1>4. req'[r].phase \in {"idle", "notify"} /\ (req'[r].phase # "idle" => req'[r].order = o)
    BY <1>1 DEF Finish, Goto, Idle, SerialInv, DispatchInv, TypeOK, Request
  <1>5. RowOK(o)'
    <2>1. RowOK(o)
      BY DEF SerialInv
    <2> QED
      BY <2>1, <1>2 DEF RowOK
  <1>6. SlotFresh(req[r])'
    BY <1>4, <1>2 DEF SlotFresh
  <1>7. \A p \in Orders \ {o} : /\ order'[p] = order[p]
                                /\ assignment'[p] = assignment[p]
                                /\ credits'[p] = credits[p]
    BY <1>2
  <1>8. \A s \in Requests \ {r} : req[s].phase # "idle" => req[s].order # o
    BY <1>1, ContinueAlone
  <1> QED
    BY <1>3, <1>4, <1>5, <1>6, <1>7, <1>8, StepFrame

-----------------------------------------------------------------------------
(* The writes: each one needs what its handler checked *)

\* What a request in flight about order o brings to its next step.
LEMMA InHand ==
  ASSUME SerialInv, NEW r \in Requests, req[r].phase # "idle"
  PROVE  \E o \in Orders :
            /\ o = req[r].order
            /\ RowOK(o)
            /\ order[o] \in Row /\ assignment[o] \in AssignmentRow
            /\ credits[o] \in [Couriers -> Nat]
            /\ req[r].phase = "write" => req[r].seen = order[o] /\ Checked(req[r], order[o])
            /\ req[r].phase = "log" /\ req[r].op = "status" => order[o].status = req[r].to
            /\ req[r].phase = "finalize" => order[o].status = "DELIVERED"
            /\ req[r].phase = "credit" => /\ order[o].status = "DELIVERED"
                                          /\ order[o].courier = req[r].seen.courier
                                          /\ order[o].courier # NoCourier
                                          /\ ~assignment[o].delivered
            /\ order[o].courier # NoCourier => assignment[o].courier = order[o].courier
            /\ order[o].status = "COURIER_ASSIGNED" => order[o].courier # NoCourier
  BY DEF SerialInv, DispatchInv, TypeOK, RequestsOK, SlotOK, SlotFresh, CourierHasAssignment,
     AssignedHasCourier

LEMMA WriteKeeps ==
  ASSUME SerialInv, DispatchInv', NEW r \in Requests, NEW o \in Orders,
         req[r].phase # "idle", o = req[r].order,
         \A s \in Requests \ {r} : req'[s] = req[s],
         req'[r].phase # "idle" => req'[r].order = o,
         NEW row, NEW a, NEW tally,
         order' = [order EXCEPT ![o] = row],
         assignment' = [assignment EXCEPT ![o] = a],
         credits' = [credits EXCEPT ![o] = tally],
         RowOK(o)',
         req'[r].phase # "idle" => SlotFresh(req[r])'
  PROVE  SerialInv'
  <1>1. \A p \in Orders \ {o} : /\ order'[p] = order[p]
                                /\ assignment'[p] = assignment[p]
                                /\ credits'[p] = credits[p]
    BY DEF SerialInv, DispatchInv, TypeOK
  <1>2. \A s \in Requests \ {r} : req[s].phase # "idle" => req[s].order # o
    BY ContinueAlone
  <1> QED
    BY <1>1, <1>2, StepFrame

\* A delivered order stays where it is.
LEMMA FlowCarried ==
  /\ STATUS_FLOW["DELIVERED"] = {}
  /\ \A s \in Carried : \A to \in STATUS_FLOW[s] : to \in Carried \union {"CANCELLED"}
  BY DEF STATUS_FLOW, Carried, Statuses

LEMMA PlaceKeeps ==
  ASSUME SerialInv, Overlap = FALSE, DispatchInv', NEW r \in Requests, NEW o \in Orders,
         PlaceOrder(r, o)
  PROVE  SerialInv'
  <1>1. /\ order[o] \in Row /\ order[o].status = "ABSENT"
        /\ order'[o] = [order[o] EXCEPT !.status = "PENDING"]
        /\ assignment' = assignment /\ credits' = credits
    BY DEF PlaceOrder, SerialInv, DispatchInv, TypeOK
  <1>2. req'[r].phase = "log" /\ req'[r].op = "place" /\ req'[r].order = o
    BY DEF PlaceOrder, Start, SerialInv, DispatchInv, TypeOK
  <1>3. \A s \in Requests \ {r} : req'[s] = req[s]
    BY DEF PlaceOrder, Start, SerialInv, DispatchInv, TypeOK
  <1>4. \A p \in Orders \ {o} : /\ order'[p] = order[p]
                                /\ assignment'[p] = assignment[p]
                                /\ credits'[p] = credits[p]
    BY DEF PlaceOrder, SerialInv, DispatchInv, TypeOK
  <1>5. RowOK(o)'
    <2>1. RowOK(o)
      BY DEF SerialInv
    <2>2. order[o].courier = NoCourier
      BY <1>1, <2>1 DEF RowOK, Carried
    <2>3. order'[o].courier = NoCourier
      BY <1>1, <2>2 DEF Row
    <2> QED
      BY <1>1, <2>1, <2>2, <2>3 DEF RowOK
  <1>6. SlotFresh(req[r])'
    BY <1>2 DEF SlotFresh
  <1>7. \A s \in Requests \ {r} : req[s].phase # "idle" => req[s].order # o
    BY ArriveAlone DEF PlaceOrder
  <1> QED
    BY <1>2, <1>3, <1>4, <1>5, <1>6, <1>7, StepFrame

LEMMA WriteStatusKeeps ==
  ASSUME SerialInv, DispatchInv', NEW r \in Requests, WriteStatus(r)
  PROVE  SerialInv'
  <1> DEFINE to == req[r].to
  <1>1. req[r].phase = "write" /\ req[r].op = "status"
    BY DEF WriteStatus, Serving
  <1>2. PICK o \in Orders : /\ o = req[r].order
                           /\ RowOK(o)
                           /\ order[o] \in Row
                           /\ Checked(req[r], order[o])
    BY <1>1, InHand
  <1> DEFINE row == Moved(order[o], to)
  <1>3. to \in STATUS_FLOW[order[o].status]
    BY <1>1, <1>2 DEF Checked
  <1>4. /\ order' = [order EXCEPT ![o] = row]
        /\ assignment' = [assignment EXCEPT ![o] = assignment[o]]
        /\ credits' = [credits EXCEPT ![o] = credits[o]]
    BY <1>2 DEF WriteStatus, SerialInv, DispatchInv, TypeOK
  <1>5. /\ row.status = to
        /\ row.courier # NoCourier => row.courier = order[o].courier /\ to # "CANCELLED"
    BY <1>2 DEF Moved, Row
  <1>6. /\ order'[o] = row /\ assignment'[o] = assignment[o] /\ credits'[o] = credits[o]
    BY <1>4 DEF SerialInv, DispatchInv, TypeOK
  <1>7. /\ req'[r].phase = "log" /\ req'[r].op = "status" /\ req'[r].to = to
        /\ req'[r].order = o
    BY <1>1, <1>2 DEF WriteStatus, SerialInv, DispatchInv, TypeOK, Request
  <1>8. \A s \in Requests \ {r} : req'[s] = req[s]
    BY DEF WriteStatus, SerialInv, DispatchInv, TypeOK
  <1> HIDE DEF row
  <1>9. RowOK(o)'
    <2>1. row.courier # NoCourier => row.status \in Carried
      BY <1>2, <1>3, <1>5, FlowCarried DEF RowOK
    <2>2. \A c \in Couriers : ~(credits[o][c] > 0)
      BY <1>2, <1>3, FlowCarried DEF RowOK
    <2> QED
      BY <1>2, <1>6, <2>1, <2>2 DEF RowOK
  <1>10. SlotFresh(req[r])'
    BY <1>5, <1>6, <1>7 DEF SlotFresh
  <1> QED
    BY <1>1, <1>2, <1>4, <1>7, <1>8, <1>9, <1>10, WriteKeeps

\* finalizeCourierDelivery has read an order that is delivered and not yet stamped.
LEMMA FinalizeKeeps ==
  ASSUME SerialInv, DispatchInv', NEW r \in Requests, ReadForFinalize(r)
  PROVE  SerialInv'
  <1>1. req[r].phase = "finalize" /\ req[r].op = "status" /\ UNCHANGED <<order, assignment, credits>>
    BY DEF ReadForFinalize, Serving, db
  <1>2. PICK o \in Orders : /\ o = req[r].order
                           /\ RowOK(o)
                           /\ order[o].status = "DELIVERED"
    BY <1>1, InHand
  <1>3. CASE Goto(r, "notify")
    BY <1>1, <1>3, RestKeeps DEF db
  <1>4. CASE /\ order[o].courier # NoCourier
             /\ ~assignment[o].delivered
             /\ req' = [req EXCEPT ![r].phase = "credit", ![r].seen = order[o]]
    <2>1. req'[r].phase = "credit" /\ req'[r].order = o /\ req'[r].seen = order[o]
      BY <1>2, <1>4 DEF SerialInv, DispatchInv, TypeOK, Request
    <2>2. \A s \in Requests \ {r} : req'[s] = req[s]
      BY <1>4 DEF SerialInv, DispatchInv, TypeOK
    <2>3. RowOK(o)'
      BY <1>1, <1>2 DEF RowOK
    <2>4. SlotFresh(req[r])'
      BY <1>1, <1>2, <1>4, <2>1 DEF SlotFresh
    <2>5. \A p \in Orders \ {o} : /\ order'[p] = order[p]
                                  /\ assignment'[p] = assignment[p]
                                  /\ credits'[p] = credits[p]
      BY <1>1
    <2>6. \A s \in Requests \ {r} : req[s].phase # "idle" => req[s].order # o
      BY <1>1, <1>2, ContinueAlone
    <2> QED
      BY <2>1, <2>2, <2>3, <2>4, <2>5, <2>6, StepFrame
  <1> QED
    BY <1>2, <1>3, <1>4 DEF ReadForFinalize, Goto

LEMMA CreditKeeps ==
  ASSUME SerialInv, DispatchInv', NEW r \in Requests, WriteCredit(r)
  PROVE  SerialInv'
  <1>1. req[r].phase = "credit"
    BY DEF WriteCredit, Serving
  <1>2. PICK o \in Orders : /\ o = req[r].order
                           /\ RowOK(o)
                           /\ assignment[o] \in AssignmentRow
                           /\ credits[o] \in [Couriers -> Nat]
                           /\ order[o].status = "DELIVERED"
                           /\ order[o].courier = req[r].seen.courier
                           /\ order[o].courier # NoCourier
                           /\ ~assignment[o].delivered
    BY <1>1, InHand
  <1> DEFINE d == req[r].seen.courier
             a == [assignment[o] EXCEPT !.delivered = TRUE]
             tally == [credits[o] EXCEPT ![d] = @ + 1]
  <1>3. CASE Finish(r) /\ UNCHANGED <<assignment, credits>>
    BY <1>1, <1>3, RestKeeps DEF WriteCredit, db
  <1>4. CASE /\ Goto(r, "notify")
             /\ assignment' = [assignment EXCEPT ![o].delivered = TRUE]
             /\ credits' = [credits EXCEPT ![o][d] = @ + 1]
    <2>1. /\ order' = [order EXCEPT ![o] = order[o]]
          /\ assignment' = [assignment EXCEPT ![o] = a]
          /\ credits' = [credits EXCEPT ![o] = tally]
      BY <1>4 DEF WriteCredit, SerialInv, DispatchInv, TypeOK
    <2>2. order'[o] = order[o] /\ assignment'[o] = a /\ credits'[o] = tally
      BY <2>1 DEF SerialInv, DispatchInv, TypeOK
    <2>3. a.delivered /\ a.courier = assignment[o].courier /\ a.accepted = assignment[o].accepted
      BY <1>2 DEF AssignmentRow
    <2>4. \A c \in Couriers : credits[o][c] = 0
      <3>1. \A c \in Couriers : credits[o][c] \in Nat /\ ~(credits[o][c] > 0)
        BY <1>2 DEF RowOK
      <3> QED
        BY <3>1
    <2>5. \A c \in Couriers : tally[c] > 0 => tally[c] = 1 /\ c = d
      BY <1>2, <2>4
    <2> HIDE DEF a, tally
    <2>6. RowOK(o)'
      BY <1>2, <2>2, <2>3, <2>5 DEF RowOK
    <2>7. req'[r].phase = "notify" /\ req'[r].order = o
      BY <1>2, <1>4 DEF Goto, SerialInv, DispatchInv, TypeOK, Request
    <2>8. \A s \in Requests \ {r} : req'[s] = req[s]
      BY <1>4 DEF Goto, SerialInv, DispatchInv, TypeOK
    <2>9. SlotFresh(req[r])'
      BY <2>7 DEF SlotFresh
    <2> QED
      BY <1>1, <1>2, <2>1, <2>6, <2>7, <2>8, <2>9, WriteKeeps
  <1> QED
    BY <1>2, <1>3, <1>4 DEF WriteCredit

LEMMA WriteRequestKeeps ==
  ASSUME SerialInv, DispatchInv', NEW r \in Requests, WriteRequest(r)
  PROVE  SerialInv'
  <1>1. req[r].phase = "write" /\ req[r].op = "request"
    BY DEF WriteRequest, Serving
  <1>2. PICK o \in Orders : o = req[r].order /\ RowOK(o) /\ order[o] \in Row
    BY <1>1, InHand
  <1> DEFINE row == [order[o] EXCEPT !.requested = TRUE]
  <1>3. /\ order' = [order EXCEPT ![o] = row]
        /\ assignment' = [assignment EXCEPT ![o] = assignment[o]]
        /\ credits' = [credits EXCEPT ![o] = credits[o]]
    BY <1>2 DEF WriteRequest, SerialInv, DispatchInv, TypeOK
  <1>4. row.courier = order[o].courier /\ row.status = order[o].status
    BY <1>2 DEF Row
  <1>5. order'[o] = row /\ assignment'[o] = assignment[o] /\ credits'[o] = credits[o]
    BY <1>3 DEF SerialInv, DispatchInv, TypeOK
  <1> HIDE DEF row
  <1>6. RowOK(o)'
    BY <1>2, <1>4, <1>5 DEF RowOK
  <1>7. req'[r].phase = "log" /\ req'[r].op = "request" /\ req'[r].order = o
    BY <1>1, <1>2 DEF WriteRequest, Goto, SerialInv, DispatchInv, TypeOK, Request
  <1>8. \A s \in Requests \ {r} : req'[s] = req[s]
    BY DEF WriteRequest, Goto, SerialInv, DispatchInv, TypeOK
  <1>9. SlotFresh(req[r])'
    BY <1>7 DEF SlotFresh
  <1> QED
    BY <1>1, <1>2, <1>3, <1>6, <1>7, <1>8, <1>9, WriteKeeps

\* The courier who accepts is still the one the assignment names.
LEMMA AcceptKeeps ==
  ASSUME SerialInv, DispatchInv', NEW r \in Requests, WriteAccept(r)
  PROVE  SerialInv'
  <1>1. req[r].phase = "write" /\ req[r].op = "accept"
    BY DEF WriteAccept, Serving
  <1>2. PICK o \in Orders : /\ o = req[r].order
                           /\ RowOK(o)
                           /\ assignment[o] \in AssignmentRow
                           /\ order[o].courier = req[r].courier
                           /\ req[r].courier \in {NoCourier, assignment[o].courier}
    BY <1>1, InHand DEF Checked
  <1>3. CASE assignment' = assignment
    BY <1>1, <1>3, RestKeeps DEF WriteAccept, db
  <1>4. CASE assignment' = [assignment EXCEPT ![o].accepted = req[r].courier]
    <2> DEFINE a == [assignment[o] EXCEPT !.accepted = req[r].courier]
    <2>1. /\ order' = [order EXCEPT ![o] = order[o]]
          /\ assignment' = [assignment EXCEPT ![o] = a]
          /\ credits' = [credits EXCEPT ![o] = credits[o]]
      BY <1>4 DEF WriteAccept, SerialInv, DispatchInv, TypeOK
    <2>2. order'[o] = order[o] /\ assignment'[o] = a /\ credits'[o] = credits[o]
      BY <2>1 DEF SerialInv, DispatchInv, TypeOK
    <2>3. /\ a.accepted = req[r].courier /\ a.courier = assignment[o].courier
          /\ a.delivered = assignment[o].delivered
      BY <1>2 DEF AssignmentRow
    <2> HIDE DEF a
    <2>5. RowOK(o)'
      BY <1>2, <2>2, <2>3 DEF RowOK
    <2>6. req'[r].phase = "idle" /\ \A s \in Requests \ {r} : req'[s] = req[s]
      BY DEF WriteAccept, Finish, Idle, SerialInv, DispatchInv, TypeOK
    <2> QED
      BY <1>1, <1>2, <2>1, <2>5, <2>6, WriteKeeps
  <1> QED
    BY <1>2, <1>3, <1>4 DEF WriteAccept

LEMMA SelectKeeps ==
  ASSUME SerialInv, DispatchInv', NEW r \in Requests, SelectForAssign(r)
  PROVE  SerialInv'
  <1>1. /\ req[r].phase = "select" /\ req[r].op \in {"claim", "reassign"}
        /\ UNCHANGED <<order, assignment, credits>>
    BY DEF SelectForAssign, SerialInv, DispatchInv, RequestsOK, SlotOK, db
  <1>2. PICK o \in Orders : o = req[r].order /\ RowOK(o)
    BY <1>1, InHand
  <1>3. CASE Finish(r)
    BY <1>1, <1>3, RestKeeps DEF db
  <1>4. CASE /\ order[o].status \in Assignable
             /\ req' = [req EXCEPT ![r].phase = "write", ![r].seen = order[o]]
    <2>1. /\ req'[r].phase = "write" /\ req'[r].order = o /\ req'[r].seen = order[o]
          /\ req'[r].op \in {"claim", "reassign"}
      BY <1>1, <1>2, <1>4 DEF SerialInv, DispatchInv, TypeOK, Request
    <2>2. \A s \in Requests \ {r} : req'[s] = req[s]
      BY <1>4 DEF SerialInv, DispatchInv, TypeOK
    <2>3. RowOK(o)'
      BY <1>1, <1>2 DEF RowOK
    <2>4. SlotFresh(req[r])'
      BY <1>1, <1>4, <2>1 DEF SlotFresh, Checked
    <2>5. \A p \in Orders \ {o} : /\ order'[p] = order[p]
                                  /\ assignment'[p] = assignment[p]
                                  /\ credits'[p] = credits[p]
      BY <1>1
    <2>6. \A s \in Requests \ {r} : req[s].phase # "idle" => req[s].order # o
      BY <1>1, <1>2, ContinueAlone
    <2> QED
      BY <2>1, <2>2, <2>3, <2>4, <2>5, <2>6, StepFrame
  <1> QED
    BY <1>2, <1>3, <1>4 DEF SelectForAssign

\* The acceptance that comes with a new courier is his own or none.
LEMMA AssignKeeps ==
  ASSUME SerialInv, DispatchInv', NEW r \in Requests, WriteAssign(r)
  PROVE  SerialInv'
  <1>1. req[r].phase = "write" /\ req[r].op \in {"claim", "reassign"}
    BY DEF WriteAssign
  <1>2. PICK o \in Orders : /\ o = req[r].order
                           /\ RowOK(o)
                           /\ order[o] \in Row
                           /\ assignment[o] \in AssignmentRow
                           /\ order[o].status \in Assignable
    BY <1>1, InHand DEF Checked
  <1> DEFINE c == req[r].courier
             accepted == IF IsPoolClaim(req[r]) THEN c ELSE NoCourier
             row == [order[o] EXCEPT !.courier = c, !.status = "COURIER_ASSIGNED"]
             a == [assignment[o] EXCEPT !.courier = c, !.accepted = accepted]
  <1>3. /\ order' = [order EXCEPT ![o] = row]
        /\ assignment' = [assignment EXCEPT ![o] = a]
        /\ credits' = [credits EXCEPT ![o] = credits[o]]
    BY <1>2 DEF WriteAssign, SerialInv, DispatchInv, TypeOK
  <1>4. /\ row.status = "COURIER_ASSIGNED"
        /\ a.courier = c /\ a.accepted = accepted
    BY <1>2 DEF Row, AssignmentRow
  <1>5. order'[o] = row /\ assignment'[o] = a /\ credits'[o] = credits[o]
    BY <1>3 DEF SerialInv, DispatchInv, TypeOK
  <1>6. accepted \in {NoCourier, c}
    OBVIOUS
  <1> HIDE DEF row, a, accepted
  <1>7. RowOK(o)'
    <2>1. \A d \in Couriers : ~(credits[o][d] > 0)
      BY <1>2 DEF RowOK, Assignable
    <2> QED
      BY <1>4, <1>5, <1>6, <2>1 DEF RowOK, Carried
  <1>8. /\ req'[r].phase \in {"log", "notify"} /\ req'[r].op \in {"claim", "reassign"}
        /\ req'[r].order = o
    BY <1>1, <1>2 DEF WriteAssign, Goto, SerialInv, DispatchInv, TypeOK, Request
  <1>9. \A s \in Requests \ {r} : req'[s] = req[s]
    BY DEF WriteAssign, Goto, SerialInv, DispatchInv, TypeOK
  <1>10. SlotFresh(req[r])'
    BY <1>8 DEF SlotFresh
  <1> QED
    BY <1>1, <1>2, <1>3, <1>7, <1>8, <1>9, <1>10, WriteKeeps

LEMMA DetachKeeps ==
  ASSUME SerialInv, DispatchInv', NEW r \in Requests, WriteRemove(r) \/ WriteDecline(r)
  PROVE  SerialInv'
  <1>1. req[r].phase = "write" /\ req[r].op \in {"remove", "decline"}
    BY DEF WriteRemove, WriteDecline, Serving
  <1>2. PICK o \in Orders : /\ o = req[r].order
                           /\ RowOK(o)
                           /\ order[o] \in Row
                           /\ order[o].status \in Assignable
    BY <1>1, InHand DEF Checked, Assignable
  <1> DEFINE row == [order[o] EXCEPT !.courier = NoCourier, !.status = "PREPARING"]
  <1>3. /\ order' = [order EXCEPT ![o] = row]
        /\ assignment' = [assignment EXCEPT ![o] = NoAssignment]
        /\ credits' = [credits EXCEPT ![o] = credits[o]]
    BY <1>2 DEF WriteRemove, WriteDecline, Detach, SerialInv, DispatchInv, TypeOK
  <1>4. row.courier = NoCourier
    BY <1>2 DEF Row
  <1>5. order'[o] = row /\ assignment'[o] = NoAssignment /\ credits'[o] = credits[o]
    BY <1>3 DEF SerialInv, DispatchInv, TypeOK
  <1> HIDE DEF row
  <1>6. RowOK(o)'
    <2>1. \A d \in Couriers : ~(credits[o][d] > 0)
      BY <1>2 DEF RowOK, Assignable
    <2> QED
      BY <1>4, <1>5, <2>1 DEF RowOK, NoAssignment
  <1>7. /\ req'[r].phase \in {"log", "notify"} /\ req'[r].op \in {"remove", "decline"}
        /\ req'[r].order = o
    BY <1>1, <1>2 DEF WriteRemove, WriteDecline, Goto, SerialInv, DispatchInv, TypeOK, Request
  <1>8. \A s \in Requests \ {r} : req'[s] = req[s]
    BY DEF WriteRemove, WriteDecline, Goto, SerialInv, DispatchInv, TypeOK
  <1>9. SlotFresh(req[r])'
    BY <1>7 DEF SlotFresh
  <1> QED
    BY <1>1, <1>2, <1>3, <1>6, <1>7, <1>8, <1>9, WriteKeeps

LEMMA LogKeeps ==
  ASSUME SerialInv, DispatchInv', NEW r \in Requests, Log(r)
  PROVE  SerialInv'
  <1>1. req[r].phase = "log" /\ UNCHANGED db
    BY DEF Log
  <1>2. CASE Finish(r) \/ Goto(r, "notify")
    BY <1>1, <1>2, RestKeeps
  <1>3. CASE req[r].op = "status" /\ req[r].to = "DELIVERED" /\ Goto(r, "finalize")
    <2>1. PICK o \in Orders : /\ o = req[r].order
                             /\ RowOK(o)
                             /\ order[o].status = "DELIVERED"
      BY <1>1, <1>3, InHand
    <2>2. req'[r].phase = "finalize" /\ req'[r].order = o
      BY <1>3, <2>1 DEF Goto, SerialInv, DispatchInv, TypeOK, Request
    <2>3. \A s \in Requests \ {r} : req'[s] = req[s]
      BY <1>3 DEF Goto, SerialInv, DispatchInv, TypeOK
    <2>4. RowOK(o)'
      BY <1>1, <2>1 DEF RowOK, db
    <2>5. SlotFresh(req[r])'
      BY <1>1, <2>1, <2>2 DEF SlotFresh, db
    <2>6. \A p \in Orders \ {o} : /\ order'[p] = order[p]
                                  /\ assignment'[p] = assignment[p]
                                  /\ credits'[p] = credits[p]
      BY <1>1 DEF db
    <2>7. \A s \in Requests \ {r} : req[s].phase # "idle" => req[s].order # o
      BY <1>1, <2>1, ContinueAlone
    <2> QED
      BY <2>2, <2>3, <2>4, <2>5, <2>6, <2>7, StepFrame
  <1> QED
    BY <1>2, <1>3 DEF Log

-----------------------------------------------------------------------------

LEMMA ArriveKeeps ==
  ASSUME SerialInv, Overlap = FALSE, DispatchInv', NEW r \in Requests, Arrive(r)
  PROVE  SerialInv'
  <1>1. PICK o \in Orders :
            \/ PlaceOrder(r, o)
            \/ \E to \in Statuses, who \in CourierOrNull : ReadForStatus(r, o, to, who)
            \/ ReadForRequest(r, o)
            \/ ReadForRemove(r, o)
            \/ \E c \in Couriers :
                  \/ ReadForAccept(r, o, c)
                  \/ ReadForClaim(r, o, c)
                  \/ StartReassign(r, o, c)
                  \/ ReadForDecline(r, o, c)
    BY DEF Arrive
  <1>2. CASE PlaceOrder(r, o)
    BY <1>2, PlaceKeeps
  <1>3. ASSUME NEW to \in Statuses, NEW who \in CourierOrNull, ReadForStatus(r, o, to, who)
        PROVE SerialInv'
    BY <1>3, StartKeeps DEF ReadForStatus, Checked
  <1>4. CASE ReadForRequest(r, o)
    BY <1>4, StartKeeps DEF ReadForRequest, Checked
  <1>5. CASE ReadForRemove(r, o)
    BY <1>5, StartKeeps DEF ReadForRemove, Checked
  <1>6. ASSUME NEW c \in Couriers, ReadForAccept(r, o, c)  PROVE SerialInv'
    BY <1>6, StartKeeps DEF ReadForAccept, Checked
  <1>7. ASSUME NEW c \in Couriers, ReadForClaim(r, o, c)  PROVE SerialInv'
    BY <1>7, StartKeeps DEF ReadForClaim
  <1>8. ASSUME NEW c \in Couriers, StartReassign(r, o, c)  PROVE SerialInv'
    BY <1>8, StartKeeps DEF StartReassign
  <1>9. ASSUME NEW c \in Couriers, ReadForDecline(r, o, c)  PROVE SerialInv'
    BY <1>9, StartKeeps, DispatchAssumption DEF ReadForDecline, Checked
  <1> QED
    BY <1>1, <1>2, <1>3, <1>4, <1>5, <1>6, <1>7, <1>8, <1>9

LEMMA ContinueKeeps ==
  ASSUME SerialInv, DispatchInv', NEW r \in Requests, Continue(r)
  PROVE  SerialInv'
  <1>1. CASE LoseClaim(r) \/ NotifyStatus(r) \/ NotifyPool(r) \/ NotifyAssign(r)
             \/ NotifyRemove(r) \/ NotifyDecline(r)
    BY <1>1, RestKeeps DEF LoseClaim, NotifyStatus, NotifyPool, NotifyAssign, NotifyRemove,
       NotifyDecline, Serving
  <1> QED
    BY <1>1, WriteStatusKeeps, FinalizeKeeps, CreditKeeps, WriteRequestKeeps, AcceptKeeps,
       SelectKeeps, AssignKeeps, DetachKeeps, LogKeeps DEF Continue

LEMMA SerialStep ==
  ASSUME Overlap = FALSE, SerialInv, [Next]_vars
  PROVE  SerialInv'
  <1>1. DispatchInv'
    BY StepDispatchInv DEF SerialInv
  <1>2. CASE Next
    <2>1. PICK r \in Requests : Arrive(r) \/ Continue(r) \/ Fail(r)
      BY <1>2 DEF Next
    <2>2. CASE Fail(r)
      BY <1>1, <2>2, RestKeeps DEF Fail
    <2> QED
      BY <1>1, <2>1, <2>2, ArriveKeeps, ContinueKeeps
  <1>3. CASE UNCHANGED vars
    BY <1>1, <1>3 DEF vars, SerialInv, OneAtATime, RowOK, SlotFresh, Checked
  <1> QED
    BY <1>2, <1>3

LEMMA SerialInvariant ==
  ASSUME Overlap = FALSE
  PROVE  Spec => []SerialInv
  <1>1. SerialInv /\ [Next]_vars => SerialInv'
    BY SerialStep
  <1> QED
    BY <1>1, InitSerialInv, PTL DEF Spec

\* Without overlap a delivery is counted once, for the courier who holds the order
\* (finalizeCourierDelivery), whatever fails on the way.
THEOREM CreditsAreUnique ==
  ASSUME Overlap = FALSE
  PROVE  Spec => []CreditedAtMostOnce
  <1>1. SerialInv => CreditedAtMostOnce
    BY DEF SerialInv, RowOK, CreditedAtMostOnce
  <1> QED
    BY <1>1, SerialInvariant, PTL

\* Without overlap no courier carries the acceptance of another (assignCourier's upsert,
\* removeCourier, declineOrder).
THEOREM AcceptanceIsOwn ==
  ASSUME Overlap = FALSE
  PROVE  Spec => []AcceptedByHolder
  <1>1. SerialInv => AcceptedByHolder
    BY DEF SerialInv, RowOK, AcceptedByHolder
  <1> QED
    BY <1>1, SerialInvariant, PTL

-----------------------------------------------------------------------------
(* The handlers implement OrderLifecycle *)

\* The lifecycle's view of the order rows, as Lifecycle's INSTANCE gives it.
StatusOf == [o \in Orders |-> order[o].status]
HolderOf == [o \in Orders |-> order[o].courier]

LEMMA TablesAgree ==
  /\ Lifecycle!Statuses = Statuses
  /\ Lifecycle!STATUS_FLOW = STATUS_FLOW
  /\ Lifecycle!Assignable = Assignable
  <1>1. Lifecycle!Statuses = Statuses /\ Lifecycle!Assignable = Assignable
    BY DEF Lifecycle!Statuses, Statuses, Lifecycle!Assignable, Assignable
  <1> QED
    BY <1>1 DEF Lifecycle!STATUS_FLOW, STATUS_FLOW

LEMMA ViewWritten ==
  ASSUME TypeOK, NEW o \in Orders, NEW row, order' = [order EXCEPT ![o] = row]
  PROVE  /\ StatusOf' = [StatusOf EXCEPT ![o] = row.status]
         /\ HolderOf' = [HolderOf EXCEPT ![o] = row.courier]
  BY DEF TypeOK, StatusOf, HolderOf

LEMMA ViewKept ==
  ASSUME UNCHANGED <<order, credits>>
  PROVE  UNCHANGED Lifecycle!vars
  BY DEF Lifecycle!vars

LEMMA PlaceMaps ==
  ASSUME SerialInv, NEW r \in Requests, NEW o \in Orders, PlaceOrder(r, o)
  PROVE  Lifecycle!Place(o)
  <1>1. TypeOK /\ order[o] \in Row
    BY DEF SerialInv, DispatchInv, TypeOK
  <1>2. PICK row : row = [order[o] EXCEPT !.status = "PENDING"]
    OBVIOUS
  <1>3. order' = [order EXCEPT ![o] = row] /\ order[o].status = "ABSENT" /\ UNCHANGED credits
    BY <1>2 DEF PlaceOrder
  <1>4. row.status = "PENDING" /\ row.courier = order[o].courier
    BY <1>1, <1>2 DEF Row
  <1>5. StatusOf[o] = "ABSENT" /\ HolderOf[o] = order[o].courier
    BY <1>3 DEF StatusOf, HolderOf
  <1>6. /\ StatusOf' = [StatusOf EXCEPT ![o] = row.status]
        /\ HolderOf' = [HolderOf EXCEPT ![o] = row.courier]
    BY <1>1, <1>3, ViewWritten
  <1>7. HolderOf' = [HolderOf EXCEPT ![o] = order[o].courier]
    BY <1>4, <1>6
  <1>8. HolderOf' = HolderOf
    BY <1>5, <1>7 DEF HolderOf
  <1> QED
    BY <1>3, <1>4, <1>5, <1>6, <1>8 DEF Lifecycle!Place, StatusOf, HolderOf

LEMMA StatusMaps ==
  ASSUME SerialInv, NEW r \in Requests, WriteStatus(r)
  PROVE  \E o \in Orders : \E to \in Statuses : Lifecycle!Move(o, to)
  <1>1. req[r].phase = "write" /\ req[r].op = "status" /\ UNCHANGED credits
    BY DEF WriteStatus, Serving
  <1>2. TypeOK /\ req[r].to \in Statuses
    BY RequestTyped DEF SerialInv, DispatchInv
  <1>3. PICK to \in Statuses : to = req[r].to
    BY <1>2
  <1>4. PICK o \in Orders : /\ o = req[r].order
                           /\ order[o] \in Row
                           /\ to \in STATUS_FLOW[order[o].status]
    BY <1>1, <1>3, InHand DEF Checked
  <1>5. PICK row : row = Moved(order[o], to)
    OBVIOUS
  <1>6. order' = [order EXCEPT ![o] = row]
    BY <1>3, <1>4, <1>5 DEF WriteStatus
  <1>7. row.status = to /\ row.courier = IF to = "CANCELLED" THEN NoCourier ELSE order[o].courier
    BY <1>4, <1>5 DEF Moved, Row
  <1>8. StatusOf[o] = order[o].status /\ HolderOf[o] = order[o].courier
    BY DEF StatusOf, HolderOf
  <1>9. /\ StatusOf' = [StatusOf EXCEPT ![o] = row.status]
        /\ HolderOf' = [HolderOf EXCEPT ![o] = row.courier]
    BY <1>2, <1>6, ViewWritten
  <1>10. HolderOf' = [HolderOf EXCEPT ![o] = IF to = "CANCELLED" THEN NoCourier ELSE @]
    BY <1>7, <1>8, <1>9
  <1>11. to \in Lifecycle!STATUS_FLOW[StatusOf[o]]
    BY <1>4, <1>8, TablesAgree
  <1>12. Lifecycle!Move(o, to)
    BY <1>1, <1>7, <1>9, <1>10, <1>11 DEF Lifecycle!Move, StatusOf, HolderOf
  <1> QED
    BY <1>12

LEMMA AssignMaps ==
  ASSUME SerialInv, NEW r \in Requests, WriteAssign(r)
  PROVE  \E o \in Orders : \E c \in Couriers : Lifecycle!Assign(o, c)
  <1>1. req[r].phase = "write" /\ req[r].op \in {"claim", "reassign"} /\ UNCHANGED credits
    BY DEF WriteAssign
  <1>2. TypeOK /\ req[r].courier \in Couriers
    BY <1>1 DEF SerialInv, DispatchInv, RequestsOK, SlotOK
  <1>3. PICK c \in Couriers : c = req[r].courier
    BY <1>2
  <1>4. PICK o \in Orders : /\ o = req[r].order
                           /\ order[o] \in Row
                           /\ order[o].status \in Assignable
    BY <1>1, InHand DEF Checked
  <1>5. PICK row : row = [order[o] EXCEPT !.courier = c, !.status = "COURIER_ASSIGNED"]
    OBVIOUS
  <1>6. order' = [order EXCEPT ![o] = row]
    BY <1>3, <1>4, <1>5 DEF WriteAssign
  <1>7. row.status = "COURIER_ASSIGNED" /\ row.courier = c
    BY <1>4, <1>5 DEF Row
  <1>8. /\ StatusOf' = [StatusOf EXCEPT ![o] = "COURIER_ASSIGNED"]
        /\ HolderOf' = [HolderOf EXCEPT ![o] = c]
    BY <1>2, <1>6, <1>7, ViewWritten
  <1>9. StatusOf[o] \in Lifecycle!Assignable
    BY <1>4, TablesAgree DEF StatusOf
  <1>10. Lifecycle!Assign(o, c)
    BY <1>1, <1>8, <1>9 DEF Lifecycle!Assign, StatusOf, HolderOf
  <1> QED
    BY <1>10

\* An order with a courier and an assignable status is COURIER_ASSIGNED.
LEMMA DetachMaps ==
  ASSUME SerialInv, NEW r \in Requests, WriteRemove(r) \/ WriteDecline(r)
  PROVE  \E o \in Orders : Lifecycle!Release(o)
  <1>1. /\ req[r].phase = "write" /\ req[r].op \in {"remove", "decline"}
        /\ Detach(req[r].order) /\ UNCHANGED credits
    BY DEF WriteRemove, WriteDecline, Serving
  <1>2. PICK o \in Orders : /\ o = req[r].order
                           /\ RowOK(o)
                           /\ order[o] \in Row
                           /\ order[o].courier # NoCourier
                           /\ order[o].status \in Assignable
    BY <1>1, InHand DEF Checked, Assignable
  <1> DEFINE row == [order[o] EXCEPT !.courier = NoCourier, !.status = "PREPARING"]
  <1>3. TypeOK
    BY DEF SerialInv, DispatchInv
  <1>4. order' = [order EXCEPT ![o] = row]
    BY <1>1, <1>2 DEF Detach
  <1>5. row.status = "PREPARING" /\ row.courier = NoCourier
    BY <1>2 DEF Row
  <1>6. StatusOf[o] = "COURIER_ASSIGNED"
    BY <1>2 DEF StatusOf, RowOK, Carried, Assignable
  <1> HIDE DEF row
  <1>7. /\ StatusOf' = [StatusOf EXCEPT ![o] = "PREPARING"]
        /\ HolderOf' = [HolderOf EXCEPT ![o] = NoCourier]
    BY <1>3, <1>4, <1>5, ViewWritten
  <1>8. Lifecycle!Release(o)
    BY <1>1, <1>6, <1>7 DEF Lifecycle!Release, StatusOf, HolderOf
  <1> QED
    BY <1>8

\* The request flag is not part of the lifecycle.
LEMMA RequestMaps ==
  ASSUME SerialInv, NEW r \in Requests, WriteRequest(r)
  PROVE  UNCHANGED Lifecycle!vars
  <1>1. req[r].phase = "write" /\ UNCHANGED credits
    BY DEF WriteRequest, Serving
  <1>2. PICK o \in Orders : o = req[r].order /\ order[o] \in Row
    BY <1>1, InHand
  <1> DEFINE row == [order[o] EXCEPT !.requested = TRUE]
  <1>3. TypeOK
    BY DEF SerialInv, DispatchInv
  <1>4. order' = [order EXCEPT ![o] = row]
    BY <1>2 DEF WriteRequest
  <1>5. row.status = order[o].status /\ row.courier = order[o].courier
    BY <1>2 DEF Row
  <1> HIDE DEF row
  <1>6. StatusOf' = StatusOf /\ HolderOf' = HolderOf
    BY <1>3, <1>4, <1>5, ViewWritten DEF StatusOf, HolderOf
  <1> QED
    BY <1>1, <1>6 DEF Lifecycle!vars, StatusOf, HolderOf

LEMMA CreditMaps ==
  ASSUME SerialInv, NEW r \in Requests, WriteCredit(r)
  PROVE  (\E o \in Orders : Lifecycle!Credit(o)) \/ UNCHANGED <<order, credits>>
  <1>1. req[r].phase = "credit" /\ UNCHANGED order
    BY DEF WriteCredit, Serving
  <1>2. PICK o \in Orders : /\ o = req[r].order
                           /\ RowOK(o)
                           /\ order[o] \in Row
                           /\ credits[o] \in [Couriers -> Nat]
                           /\ order[o].status = "DELIVERED"
                           /\ order[o].courier = req[r].seen.courier
                           /\ order[o].courier # NoCourier
                           /\ ~assignment[o].delivered
    BY <1>1, InHand
  <1> DEFINE c == order[o].courier
  <1>3. c \in Couriers
    BY <1>2 DEF Row, CourierOrNull
  <1>4. \A d \in Couriers : credits[o][d] = 0
    <2>1. \A d \in Couriers : credits[o][d] \in Nat /\ ~(credits[o][d] > 0)
      BY <1>2 DEF RowOK
    <2> QED
      BY <2>1
  <1>5. CASE credits' = [credits EXCEPT ![o][c] = @ + 1]
    <2>1. credits[o][c] + 1 = 1
      BY <1>3, <1>4
    <2>2. credits' = [credits EXCEPT ![o][c] = 1]
      BY <1>5, <2>1
    <2>3. StatusOf[o] = "DELIVERED" /\ HolderOf[o] = c
      BY <1>2 DEF StatusOf, HolderOf
    <2>4. UNCHANGED <<StatusOf, HolderOf>>
      BY <1>1 DEF StatusOf, HolderOf
    <2>5. Lifecycle!Credit(o)
      BY <1>3, <1>4, <2>2, <2>3, <2>4 DEF Lifecycle!Credit, StatusOf, HolderOf
    <2> QED
      BY <2>5
  <1>6. CASE UNCHANGED credits
    BY <1>1, <1>6
  <1> QED
    BY <1>2, <1>5, <1>6 DEF WriteCredit

LEMMA StepMaps ==
  ASSUME SerialInv, [Next]_vars
  PROVE  [Lifecycle!Next]_(Lifecycle!vars)
  <1>1. CASE UNCHANGED <<order, credits>>
    BY <1>1, ViewKept
  <1>2. CASE Next
    <2>1. PICK r \in Requests : Arrive(r) \/ Continue(r) \/ Fail(r)
      BY <1>2 DEF Next
    <2>2. ASSUME NEW o \in Orders, PlaceOrder(r, o)  PROVE Lifecycle!Next
      BY <2>2, PlaceMaps DEF Lifecycle!Next
    <2>3. CASE WriteStatus(r)
      BY <2>3, StatusMaps, TablesAgree DEF Lifecycle!Next
    <2>4. CASE WriteAssign(r)
      BY <2>4, AssignMaps DEF Lifecycle!Next
    <2>5. CASE WriteRemove(r) \/ WriteDecline(r)
      BY <2>5, DetachMaps DEF Lifecycle!Next
    <2>6. CASE WriteCredit(r)
      BY <1>1, <2>6, CreditMaps DEF Lifecycle!Next
    <2>7. CASE WriteRequest(r)
      BY <2>7, RequestMaps
    <2> QED
      BY <1>1, <2>1, <2>2, <2>3, <2>4, <2>5, <2>6, <2>7 DEF Arrive, Continue,
         ReadForStatus, ReadForFinalize, ReadForRequest, ReadForAccept, WriteAccept,
         ReadForClaim, StartReassign, SelectForAssign, LoseClaim, ReadForRemove,
         ReadForDecline, Log, NotifyStatus, NotifyPool, NotifyAssign, NotifyRemove,
         NotifyDecline, Fail, db
  <1> QED
    BY <1>1, <1>2 DEF vars

LEMMA InitMaps == Init => Lifecycle!Init
  BY DEF Init, Lifecycle!Init, AbsentRow

\* With the requests about one order one after another, the handlers of orders.service.ts
\* and declineOrder implement the abstract lifecycle, even when handlers die half way.
THEOREM SerialRefinement ==
  ASSUME Overlap = FALSE
  PROVE  Spec => ImplementsLifecycle
  <1>1. SerialInv /\ [Next]_vars => [Lifecycle!Next]_(Lifecycle!vars)
    BY StepMaps
  <1> QED
    BY <1>1, InitMaps, SerialInvariant, PTL DEF Spec, ImplementsLifecycle, Lifecycle!Spec

-----------------------------------------------------------------------------
(* What a handler still owes the history, the pool and the couriers *)

\* A request is added to an order from PREPARING on.
RequestedLate(row) == row.requested => row.status \notin {"ABSENT", "PENDING", "ACCEPTED"}

\* The history, the pool and the couriers know an order as its row is.
UpToDate(row, logged, offered, knowing) ==
    /\ logged = row.status
    /\ InPool(row) => offered
    /\ row.status # "CANCELLED" => knowing = Holders(row)

\* The request has written the order row and has steps to come.
Written(q) == q.phase \in {"log", "finalize", "credit", "notify"}

\* The same while request q is at work on the order: all that is missing is what the steps
\* q has left will write.
Owing(q, row, logged, offered, knowing) ==
    /\ q.op \in {"request", "remove"} => q.to = "PREPARING"
    /\ q.op \in {"claim", "reassign"} => q.to = "COURIER_ASSIGNED"
    /\ q.phase = "log" => q.to = row.status
    /\ q.phase # "log" => logged = row.status
    /\ InPool(row) => offered \/ (Written(q) /\ q.op \in {"request", "remove", "decline"})
    /\ Written(q) /\ q.op \in {"claim", "reassign", "remove"} => knowing = Holders(q.seen)
    /\ ~(Written(q) /\ q.op \in {"claim", "reassign", "remove"}) =>
          (row.status # "CANCELLED" => knowing = Holders(row))
    /\ Written(q) /\ q.op \in {"claim", "reassign"} =>
          row.courier = q.courier /\ (Announces(q) \/ q.seen.courier = q.courier)
    /\ Written(q) /\ q.op = "remove" => row.courier = NoCourier
    /\ Written(q) /\ q.op = "status" /\ q.to = "CANCELLED" => row.status = "CANCELLED"

Current(o) == UpToDate(order[o], lastLogged[o], announced[o], informed[o])

OwingOn(q, o) == Owing(q, order[o], lastLogged[o], announced[o], informed[o])

\* The inductive invariant, for the orders on which no request died.
SettledInv ==
    /\ SerialInv
    /\ \A o \in Orders : RequestedLate(order[o])
    /\ \A o \in Orders : Settled(o) => Current(o)
    /\ \A r \in Requests :
          req[r].phase # "idle" /\ req[r].order \notin interrupted
              => OwingOn(req[r], req[r].order)

LEMMA InitSettledInv == Init => SettledInv
  BY InitSerialInv
  DEF Init, SettledInv, RequestedLate, Current, UpToDate, InPool, Holders, AbsentRow, Idle

\* The requested flag is set on an order in PREPARING and cleared by a cancellation alone.
LEMMA RequestedStep ==
  ASSUME SerialInv, \A o \in Orders : RequestedLate(order[o]), [Next]_vars
  PROVE  \A o \in Orders : RequestedLate(order'[o])
  <1>1. CASE UNCHANGED order
    BY <1>1
  <1>2. ASSUME NEW o \in Orders, NEW row, order' = [order EXCEPT ![o] = row],
               RequestedLate(row)
        PROVE  \A p \in Orders : RequestedLate(order'[p])
    BY <1>2 DEF SerialInv, DispatchInv, TypeOK
  <1>3. ASSUME NEW r \in Requests, NEW o \in Orders, PlaceOrder(r, o)
        PROVE  \A p \in Orders : RequestedLate(order'[p])
    <2> DEFINE row == [order[o] EXCEPT !.status = "PENDING"]
    <2>1. order[o] \in Row /\ order[o].status = "ABSENT" /\ RequestedLate(order[o])
      BY <1>3 DEF PlaceOrder, SerialInv, DispatchInv, TypeOK
    <2>2. ~row.requested
      BY <2>1 DEF RequestedLate, Row
    <2>3. order' = [order EXCEPT ![o] = row]
      BY <1>3 DEF PlaceOrder
    <2> HIDE DEF row
    <2> QED
      BY <1>2, <2>2, <2>3 DEF RequestedLate
  <1>4. ASSUME NEW r \in Requests, WriteStatus(r)
        PROVE  \A p \in Orders : RequestedLate(order'[p])
    <2>1. req[r].phase = "write" /\ req[r].op = "status"
      BY <1>4 DEF WriteStatus, Serving
    <2>2. PICK o \in Orders : /\ o = req[r].order
                             /\ order[o] \in Row
                             /\ Checked(req[r], order[o])
      BY <2>1, InHand
    <2> DEFINE row == Moved(order[o], req[r].to)
    <2>3. req[r].to \in STATUS_FLOW[order[o].status] /\ RequestedLate(order[o])
      BY <2>1, <2>2 DEF Checked
    <2>4. row.status = req[r].to /\ (row.requested => order[o].requested)
      BY <2>2 DEF Moved, Row
    <2>5. order' = [order EXCEPT ![o] = row]
      BY <1>4, <2>2 DEF WriteStatus
    <2> HIDE DEF row
    <2>6. order[o].status \in Statuses \ {"ABSENT", "PENDING", "ACCEPTED"}
             => req[r].to \notin {"ABSENT", "PENDING", "ACCEPTED"}
      BY <2>3 DEF STATUS_FLOW
    <2>7. order[o].status \in Statuses
      BY <2>2 DEF Row
    <2> QED
      BY <1>2, <2>3, <2>4, <2>5, <2>6, <2>7 DEF RequestedLate
  <1>5. ASSUME NEW r \in Requests, WriteRequest(r)
        PROVE  \A p \in Orders : RequestedLate(order'[p])
    <2>1. req[r].phase = "write" /\ req[r].op = "request"
      BY <1>5 DEF WriteRequest, Serving
    <2>2. PICK o \in Orders : /\ o = req[r].order
                             /\ order[o] \in Row
                             /\ order[o].status = "PREPARING"
      BY <2>1, InHand DEF Checked
    <2> DEFINE row == [order[o] EXCEPT !.requested = TRUE]
    <2>3. row.status = "PREPARING"
      BY <2>2 DEF Row
    <2>4. order' = [order EXCEPT ![o] = row]
      BY <1>5, <2>2 DEF WriteRequest
    <2> HIDE DEF row
    <2> QED
      BY <1>2, <2>3, <2>4 DEF RequestedLate
  <1>6. ASSUME NEW r \in Requests, WriteAssign(r)
        PROVE  \A p \in Orders : RequestedLate(order'[p])
    <2>1. req[r].phase = "write"
      BY <1>6 DEF WriteAssign
    <2>2. PICK o \in Orders : o = req[r].order /\ order[o] \in Row
      BY <2>1, InHand
    <2> DEFINE row == [order[o] EXCEPT !.courier = req[r].courier, !.status = "COURIER_ASSIGNED"]
    <2>3. row.status = "COURIER_ASSIGNED"
      BY <2>2 DEF Row
    <2>4. order' = [order EXCEPT ![o] = row]
      BY <1>6, <2>2 DEF WriteAssign
    <2> HIDE DEF row
    <2> QED
      BY <1>2, <2>3, <2>4 DEF RequestedLate
  <1>7. ASSUME NEW r \in Requests, WriteRemove(r) \/ WriteDecline(r)
        PROVE  \A p \in Orders : RequestedLate(order'[p])
    <2>1. req[r].phase = "write" /\ Detach(req[r].order)
      BY <1>7 DEF WriteRemove, WriteDecline, Serving
    <2>2. PICK o \in Orders : o = req[r].order /\ order[o] \in Row
      BY <2>1, InHand
    <2> DEFINE row == [order[o] EXCEPT !.courier = NoCourier, !.status = "PREPARING"]
    <2>3. row.status = "PREPARING"
      BY <2>2 DEF Row
    <2>4. order' = [order EXCEPT ![o] = row]
      BY <2>1, <2>2 DEF Detach
    <2> HIDE DEF row
    <2> QED
      BY <1>2, <2>3, <2>4 DEF RequestedLate
  <1>8. CASE Next
    <2>1. PICK r \in Requests : Arrive(r) \/ Continue(r) \/ Fail(r)
      BY <1>8 DEF Next
    <2>2. CASE Arrive(r)
      BY <2>2, <1>1, <1>3 DEF Arrive, ReadForStatus, ReadForRequest, ReadForAccept,
         ReadForClaim, StartReassign, ReadForRemove, ReadForDecline, db
    <2>3. CASE Continue(r)
      BY <2>3, <1>1, <1>4, <1>5, <1>6, <1>7 DEF Continue, ReadForFinalize, WriteCredit,
         WriteAccept, SelectForAssign, LoseClaim, Log, NotifyStatus, NotifyPool,
         NotifyAssign, NotifyRemove, NotifyDecline, db
    <2>4. CASE Fail(r)
      BY <2>4, <1>1 DEF Fail, db
    <2> QED
      BY <2>1, <2>2, <2>3, <2>4
  <1> QED
    BY <1>1, <1>8 DEF vars

\* A step of slot r that writes to the rows of order o alone, while no other slot serves
\* o, needs to leave o up to date or r owing what is missing: the rest follows.
LEMMA SettledFrame ==
  ASSUME SettledInv, SerialInv', \A p \in Orders : RequestedLate(order'[p]),
         NEW r \in Requests, NEW o \in Orders,
         \A s \in Requests \ {r} : req'[s] = req[s],
         \A s \in Requests \ {r} : req[s].phase # "idle" => req[s].order # o,
         req[r].phase # "idle" => req[r].order = o,
         req'[r].phase # "idle" => req'[r].order = o,
         \A p \in Orders \ {o} : /\ order'[p] = order[p]
                                 /\ lastLogged'[p] = lastLogged[p]
                                 /\ announced'[p] = announced[p]
                                 /\ informed'[p] = informed[p],
         \A p \in Orders \ {o} : p \in interrupted' <=> p \in interrupted,
         o \notin interrupted' /\ req'[r].phase = "idle" => Current(o)',
         o \notin interrupted' /\ req'[r].phase # "idle" =>
             Owing(req'[r], order'[o], lastLogged'[o], announced'[o], informed'[o])
  PROVE  SettledInv'
  <1>1. ASSUME NEW p \in Orders, Settled(p)'  PROVE Current(p)'
    <2>1. p \notin interrupted' /\ \A s \in Requests : req'[s].phase # "idle" => req'[s].order # p
      BY <1>1 DEF Settled, Quiet, InFlight
    <2>2. CASE p = o
      BY <2>1, <2>2
    <2>3. CASE p # o
      <3>1. Settled(p)
        BY <2>1, <2>3 DEF Settled, Quiet, InFlight
      <3>2. Current(p)
        BY <3>1 DEF SettledInv
      <3> QED
        BY <2>3, <3>2 DEF Current
    <2> QED
      BY <2>2, <2>3
  <1>2. ASSUME NEW s \in Requests, req'[s].phase # "idle", req'[s].order \notin interrupted'
        PROVE  OwingOn(req[s], req[s].order)'
    <2>1. CASE s = r
      BY <1>2, <2>1 DEF OwingOn
    <2>2. CASE s # r
      <3>1. /\ req'[s] = req[s] /\ req[s].order # o /\ req[s].order \in Orders
            /\ req[s].order \notin interrupted
        BY <1>2, <2>2 DEF SettledInv, SerialInv, DispatchInv, RequestsOK, SlotOK
      <3>2. OwingOn(req[s], req[s].order)
        BY <1>2, <3>1 DEF SettledInv
      <3> QED
        BY <3>1, <3>2 DEF OwingOn
    <2> QED
      BY <2>1, <2>2
  <1> QED
    BY <1>1, <1>2 DEF SettledInv

-----------------------------------------------------------------------------
(* Each step of a handler pays what it writes and owes the rest *)

\* What slot r leaves of order o.
Passed(r, o) ==
    /\ req'[r].phase = "idle" => Current(o)'
    /\ req'[r].phase # "idle" =>
          Owing(req'[r], order'[o], lastLogged'[o], announced'[o], informed'[o])

\* A request keeps what it was sent with until it ends.
LEMMA SlotKept ==
  ASSUME TypeOK, NEW r \in Requests, Continue(r)
  PROVE  \/ req'[r] = Idle
         \/ /\ req'[r].order = req[r].order /\ req'[r].op = req[r].op
            /\ req'[r].courier = req[r].courier /\ req'[r].to = req[r].to
  <1>1. req[r] \in Request
    BY DEF TypeOK
  <1>2. CASE Finish(r)
    BY <1>2 DEF TypeOK, Finish
  <1>3. ASSUME NEW p, Goto(r, p)
        PROVE  /\ req'[r].order = req[r].order /\ req'[r].op = req[r].op
               /\ req'[r].courier = req[r].courier /\ req'[r].to = req[r].to
    BY <1>1, <1>3 DEF TypeOK, Goto, Request
  <1>4. ASSUME NEW p, NEW row, req' = [req EXCEPT ![r].phase = p, ![r].seen = row]
        PROVE  /\ req'[r].order = req[r].order /\ req'[r].op = req[r].op
               /\ req'[r].courier = req[r].courier /\ req'[r].to = req[r].to
    BY <1>1, <1>4 DEF TypeOK, Request
  <1>5. CASE WriteStatus(r) \/ SelectForAssign(r)
    BY <1>2, <1>4, <1>5 DEF WriteStatus, SelectForAssign
  <1>6. CASE ReadForFinalize(r)
    BY <1>3, <1>4, <1>6 DEF ReadForFinalize, Goto
  <1>7. CASE \/ WriteCredit(r) \/ WriteRequest(r) \/ WriteAccept(r) \/ WriteAssign(r)
             \/ LoseClaim(r) \/ WriteRemove(r) \/ WriteDecline(r) \/ Log(r)
    BY <1>2, <1>3, <1>7 DEF WriteCredit, WriteRequest, WriteAccept, WriteAssign, LoseClaim,
       WriteRemove, WriteDecline, Log
  <1>8. CASE \/ NotifyStatus(r) \/ NotifyPool(r) \/ NotifyAssign(r) \/ NotifyRemove(r)
             \/ NotifyDecline(r)
    BY <1>2, <1>8 DEF NotifyStatus, NotifyPool, NotifyAssign, NotifyRemove, NotifyDecline
  <1> QED
    BY <1>5, <1>6, <1>7, <1>8 DEF Continue

\* It writes to the rows of its own order alone.
LEMMA Elsewhere ==
  ASSUME TypeOK, NEW r \in Requests, Continue(r) \/ Fail(r), NEW p \in Orders,
         p # req[r].order
  PROVE  /\ order'[p] = order[p]
         /\ lastLogged'[p] = lastLogged[p]
         /\ announced'[p] = announced[p]
         /\ informed'[p] = informed[p]
         /\ p \in interrupted' <=> p \in interrupted
  BY DEF TypeOK, Continue, WriteStatus, ReadForFinalize, WriteCredit, WriteRequest,
     WriteAccept, SelectForAssign, WriteAssign, LoseClaim, WriteRemove, WriteDecline, Log,
     NotifyStatus, NotifyPool, NotifyAssign, NotifyRemove, NotifyDecline, Fail, Detach, db,
     told

LEMMA StatusPasses ==
  ASSUME SettledInv, NEW r \in Requests, WriteStatus(r), NEW o \in Orders, o = req[r].order,
         OwingOn(req[r], o)
  PROVE  Passed(r, o)
  <1> DEFINE to == req[r].to
             row == Moved(order[o], to)
  <1>1. req[r].phase = "write" /\ req[r].op = "status"
    BY DEF WriteStatus, Serving
  <1>2. TypeOK /\ order[o] \in Row /\ RequestedLate(order[o]) /\ req[r] \in Request
    BY DEF SettledInv, SerialInv, DispatchInv, TypeOK
  <1>3. to \in STATUS_FLOW[order[o].status] /\ order[o].status \in Statuses
    BY <1>1, <1>2, InHand DEF SettledInv, Checked, Row
  <1>4. /\ row.status = to
        /\ to # "CANCELLED" => row.courier = order[o].courier /\ row.requested = order[o].requested
    BY <1>2 DEF Moved, Row
  <1>5. order[o].status # "CANCELLED" /\ (to = "PREPARING" => order[o].status = "ACCEPTED")
    BY <1>3 DEF STATUS_FLOW
  <1>6. ~InPool(row)
    BY <1>2, <1>4, <1>5 DEF InPool, RequestedLate
  <1>7. order'[o] = row /\ UNCHANGED <<lastLogged, announced, informed>>
    BY <1>2 DEF WriteStatus, TypeOK, told
  <1>8. /\ req'[r].phase = "log" /\ req'[r].op = "status" /\ req'[r].to = to
    BY <1>1, <1>2 DEF WriteStatus, TypeOK, Request
  <1>9. to # "CANCELLED" => informed[o] = Holders(row)
    BY <1>1, <1>4, <1>5 DEF OwingOn, Owing, Written, Holders
  <1> HIDE DEF row, to
  <1> QED
    BY <1>4, <1>6, <1>7, <1>8, <1>9 DEF Passed, Owing, Written

\* The reads and the credit of finalizeCourierDelivery come after the history row.
LEMMA FinalizePasses ==
  ASSUME SettledInv, NEW r \in Requests, ReadForFinalize(r) \/ WriteCredit(r),
         NEW o \in Orders, o = req[r].order, OwingOn(req[r], o)
  PROVE  Passed(r, o)
  <1>1. /\ req[r].phase \in {"finalize", "credit"} /\ req[r].op = "status"
        /\ UNCHANGED <<order, lastLogged, informed, announced>>
    BY DEF ReadForFinalize, WriteCredit, Serving, db, told
  <1>2. TypeOK /\ req[r] \in Request
    BY DEF SettledInv, SerialInv, DispatchInv, TypeOK
  <1>3. \/ req'[r] = Idle
        \/ /\ req'[r].phase \in {"credit", "notify"} /\ req'[r].op = req[r].op
           /\ req'[r].to = req[r].to
    BY <1>2 DEF ReadForFinalize, WriteCredit, Finish, Goto, TypeOK, Request
  <1> QED
    BY <1>1, <1>3 DEF Passed, Current, OwingOn, Owing, UpToDate, Written, Idle

LEMMA RequestPasses ==
  ASSUME SettledInv, NEW r \in Requests, WriteRequest(r), NEW o \in Orders, o = req[r].order,
         OwingOn(req[r], o)
  PROVE  Passed(r, o)
  <1> DEFINE row == [order[o] EXCEPT !.requested = TRUE]
  <1>1. req[r].phase = "write" /\ req[r].op = "request"
    BY DEF WriteRequest, Serving
  <1>2. TypeOK /\ order[o] \in Row /\ req[r] \in Request
    BY DEF SettledInv, SerialInv, DispatchInv, TypeOK
  <1>3. order[o].status = "PREPARING"
    BY <1>1, InHand DEF SettledInv, Checked
  <1>4. row.status = "PREPARING" /\ row.courier = order[o].courier
    BY <1>2, <1>3 DEF Row
  <1>5. order'[o] = row /\ UNCHANGED <<lastLogged, announced, informed>>
    BY <1>2 DEF WriteRequest, TypeOK, told
  <1>6. /\ req'[r].phase = "log" /\ req'[r].op = "request" /\ req'[r].to = req[r].to
    BY <1>1, <1>2 DEF WriteRequest, Goto, TypeOK, Request
  <1>7. req[r].to = "PREPARING"
    BY <1>1 DEF OwingOn, Owing
  <1> HIDE DEF row
  <1> QED
    BY <1>1, <1>3, <1>4, <1>5, <1>6, <1>7 DEF Passed, OwingOn, Owing, Written, Holders

\* A claim or a reassignment that has read the order owes nothing yet.
LEMMA AcceptPasses ==
  ASSUME SettledInv, NEW r \in Requests,
         WriteAccept(r) \/ SelectForAssign(r) \/ LoseClaim(r),
         NEW o \in Orders, o = req[r].order, OwingOn(req[r], o)
  PROVE  Passed(r, o)
  <1>1. /\ req[r].phase \in {"write", "select"} /\ UNCHANGED <<order, lastLogged, informed, announced>>
    BY DEF WriteAccept, SelectForAssign, LoseClaim, Serving, db, told
  <1>2. TypeOK /\ req[r] \in Request
    BY DEF SettledInv, SerialInv, DispatchInv, TypeOK
  <1>3. \/ req'[r] = Idle
        \/ req'[r].phase = "write" /\ req'[r].op = req[r].op /\ req'[r].to = req[r].to
    BY <1>2 DEF WriteAccept, SelectForAssign, LoseClaim, Finish, TypeOK, Request
  <1> QED
    BY <1>1, <1>3 DEF Passed, Current, OwingOn, Owing, UpToDate, Written, Idle

\* The order is the new courier's; the pool has nothing to hear; both couriers have.
LEMMA AssignPasses ==
  ASSUME SettledInv, NEW r \in Requests, WriteAssign(r), NEW o \in Orders, o = req[r].order,
         OwingOn(req[r], o)
  PROVE  Passed(r, o)
  <1> DEFINE c == req[r].courier
             row == [order[o] EXCEPT !.courier = c, !.status = "COURIER_ASSIGNED"]
             q == req[r]
  <1>1. q.phase = "write" /\ q.op \in {"claim", "reassign"}
    BY DEF WriteAssign
  <1>2. TypeOK /\ order[o] \in Row /\ q \in Request
    BY DEF SettledInv, SerialInv, DispatchInv, TypeOK
  <1>3. /\ q.seen = order[o] /\ order[o].status \in Assignable
        /\ order[o].status = "COURIER_ASSIGNED" => order[o].courier # NoCourier
    BY <1>1, InHand DEF SettledInv, Checked
  <1>4. row.courier = c /\ row.status = "COURIER_ASSIGNED"
    BY <1>2 DEF Row
  <1>5. order'[o] = row /\ UNCHANGED <<lastLogged, informed>>
    BY <1>2 DEF WriteAssign, TypeOK
  <1>6. /\ req'[r].phase = IF Announces(q) THEN "log" ELSE "notify"
        /\ req'[r].op = q.op /\ req'[r].courier = c /\ req'[r].to = q.to
        /\ req'[r].seen = q.seen
    BY <1>2 DEF WriteAssign, Goto, TypeOK, Request
  <1>7. q.to = "COURIER_ASSIGNED" /\ informed[o] = Holders(q.seen) /\ lastLogged[o] = q.seen.status
    BY <1>1, <1>3 DEF OwingOn, Owing, Written, Assignable
  <1>8. Announces(q) \/ q.seen.courier = c
    <2>1. q.op = "claim" => q.seen.courier \in {NoCourier, c}
      BY <1>1 DEF SettledInv, SerialInv, DispatchInv, RequestsOK, SlotOK
    <2> QED
      BY <1>1, <1>3, <2>1 DEF Announces
  <1>9. ~Announces(q) => lastLogged[o] = "COURIER_ASSIGNED"
    BY <1>7 DEF Announces
  <1>10. Announces(req'[r]) <=> Announces(q)
    BY <1>6 DEF Announces
  <1> HIDE DEF row, c, q
  <1> QED
    BY <1>1, <1>4, <1>5, <1>6, <1>7, <1>8, <1>9, <1>10 DEF Passed, Owing, Written, InPool

\* The courier who declines hears of it himself; the one removed, and the pool, do not yet.
LEMMA DetachPasses ==
  ASSUME SettledInv, NEW r \in Requests, WriteRemove(r) \/ WriteDecline(r),
         NEW o \in Orders, o = req[r].order, OwingOn(req[r], o)
  PROVE  Passed(r, o)
  <1> DEFINE row == [order[o] EXCEPT !.courier = NoCourier, !.status = "PREPARING"]
             q == req[r]
  <1>1. q.phase = "write" /\ q.op \in {"remove", "decline"}
    BY DEF WriteRemove, WriteDecline, Serving
  <1>2. TypeOK /\ order[o] \in Row /\ q \in Request
    BY DEF SettledInv, SerialInv, DispatchInv, TypeOK
  <1>3. /\ q.seen = order[o] /\ order[o].status \in Assignable
        /\ q.op = "decline" => order[o].courier = q.courier
    BY <1>1, InHand DEF SettledInv, Checked, Assignable
  <1>4. row.courier = NoCourier /\ row.status = "PREPARING" /\ Holders(row) = {}
    BY <1>2 DEF Row, Holders
  <1>5. order'[o] = row /\ UNCHANGED announced
    BY <1>2 DEF WriteRemove, WriteDecline, Detach, TypeOK, told
  <1>6. informed[o] = Holders(q.seen)
    BY <1>1, <1>3 DEF OwingOn, Owing, Written, Assignable
  <1>7. CASE WriteRemove(r)
    <2>1. /\ req'[r].phase = "log" /\ req'[r].op = "remove" /\ req'[r].to = q.to
          /\ req'[r].seen = q.seen
      BY <1>2, <1>7 DEF WriteRemove, Serving, Goto, TypeOK, Request
    <2>2. q.to = "PREPARING" /\ UNCHANGED informed
      BY <1>7 DEF WriteRemove, Serving, OwingOn, Owing, told
    <2> HIDE DEF row, q
    <2> QED
      BY <1>4, <1>5, <1>6, <2>1, <2>2 DEF Passed, Owing, Written
  <1>8. CASE WriteDecline(r)
    <2>1. req'[r].phase = "notify" /\ req'[r].op = "decline"
      BY <1>2, <1>8 DEF WriteDecline, Serving, Goto, TypeOK, Request
    <2>2. lastLogged'[o] = "PREPARING" /\ informed'[o] = informed[o] \ {q.courier}
      BY <1>2, <1>8 DEF WriteDecline, TypeOK
    <2>3. informed'[o] = {}
      BY <1>3, <1>6, <1>8, <2>2 DEF WriteDecline, Serving, Holders
    <2> HIDE DEF row, q
    <2> QED
      BY <1>4, <1>5, <2>1, <2>2, <2>3 DEF Passed, Owing, Written
  <1> QED
    BY <1>7, <1>8

LEMMA LogPasses ==
  ASSUME SettledInv, NEW r \in Requests, Log(r), NEW o \in Orders, o = req[r].order,
         OwingOn(req[r], o)
  PROVE  Passed(r, o)
  <1>1. req[r].phase = "log" /\ UNCHANGED <<order, informed, announced>>
    BY DEF Log, db, told
  <1>2. TypeOK /\ req[r] \in Request
    BY DEF SettledInv, SerialInv, DispatchInv, TypeOK
  <1>3. lastLogged'[o] = req[r].to
    BY <1>2 DEF Log, TypeOK
  <1>4. \/ req'[r] = Idle /\ req[r].op = "place"
        \/ /\ req'[r].phase \in {"finalize", "notify"} /\ req'[r].op = req[r].op
           /\ req'[r].to = req[r].to /\ req'[r].seen = req[r].seen
           /\ req'[r].courier = req[r].courier
    BY <1>2 DEF Log, Finish, Goto, TypeOK, Request
  <1> QED
    BY <1>1, <1>3, <1>4
    DEF Passed, Current, OwingOn, Owing, UpToDate, Written, Announces, Idle

\* The notifications pay the last of it.
LEMMA NotifyPasses ==
  ASSUME SettledInv, NEW r \in Requests,
         NotifyStatus(r) \/ NotifyPool(r) \/ NotifyRemove(r) \/ NotifyDecline(r),
         NEW o \in Orders, o = req[r].order, OwingOn(req[r], o)
  PROVE  Passed(r, o)
  <1>1. /\ req[r].phase = "notify" /\ UNCHANGED <<order, lastLogged>>
        /\ req[r].op \in {"status", "request", "remove", "decline"}
    BY DEF NotifyStatus, NotifyPool, NotifyRemove, NotifyDecline, Serving, db
  <1>2. TypeOK /\ req[r] \in Request /\ req'[r] = Idle
    BY DEF SettledInv, SerialInv, DispatchInv, TypeOK, NotifyStatus, NotifyPool, NotifyRemove,
       NotifyDecline, Finish
  <1>3. lastLogged[o] = order[o].status
    BY <1>1 DEF OwingOn, Owing
  <1>4. CASE NotifyStatus(r)
    <2>1. req[r].op = "status" /\ UNCHANGED announced
      BY <1>4 DEF NotifyStatus, Serving
    <2>2. order[o].status # "CANCELLED" => informed'[o] = informed[o]
      BY <1>1, <1>2, <1>4, <2>1 DEF NotifyStatus, TypeOK, OwingOn, Owing, Written
    <2> QED
      BY <1>1, <1>2, <1>3, <2>1, <2>2
      DEF Passed, Current, OwingOn, Owing, UpToDate, Written, Idle
  <1>5. CASE NotifyPool(r)
    <2>1. req[r].op = "request" /\ UNCHANGED informed /\ announced'[o] = TRUE
      BY <1>2, <1>5 DEF NotifyPool, Serving, TypeOK
    <2> QED
      BY <1>1, <1>2, <1>3, <2>1 DEF Passed, Current, OwingOn, Owing, UpToDate, Written, Idle
  <1>6. CASE NotifyRemove(r)
    <2>1. req[r].op = "remove" /\ informed'[o] = informed[o] \ Holders(req[r].seen)
      BY <1>2, <1>6 DEF NotifyRemove, Serving, TypeOK
    <2>2. InPool(order[o]) => announced'[o]
      BY <1>2, <1>6 DEF NotifyRemove, TypeOK
    <2>3. informed'[o] = Holders(order[o])
      BY <1>1, <2>1 DEF OwingOn, Owing, Written, Holders
    <2> QED
      BY <1>1, <1>2, <1>3, <2>2, <2>3 DEF Passed, Current, UpToDate, Idle
  <1>7. CASE NotifyDecline(r)
    <2>1. req[r].op = "decline" /\ UNCHANGED informed
      BY <1>7 DEF NotifyDecline, Serving
    <2>2. InPool(order[o]) => announced'[o]
      BY <1>2, <1>7 DEF NotifyDecline, TypeOK, InPool
    <2> QED
      BY <1>1, <1>2, <1>3, <2>1, <2>2
      DEF Passed, Current, OwingOn, Owing, UpToDate, Written, Idle
  <1> QED
    BY <1>4, <1>5, <1>6, <1>7

LEMMA NotifyAssignPasses ==
  ASSUME SettledInv, NEW r \in Requests, NotifyAssign(r), NEW o \in Orders, o = req[r].order,
         OwingOn(req[r], o)
  PROVE  Passed(r, o)
  <1> DEFINE q == req[r]
             current == IF Announces(q) THEN Holders(order[o]) ELSE {}
  <1>1. /\ q.phase = "notify" /\ q.op \in {"claim", "reassign"}
        /\ UNCHANGED <<order, lastLogged, announced>>
    BY DEF NotifyAssign, db
  <1>2. TypeOK /\ req'[r] = Idle
    BY DEF SettledInv, SerialInv, DispatchInv, TypeOK, NotifyAssign, Finish
  <1>3. q.courier \in Couriers /\ q.courier # NoCourier
    BY <1>1, DispatchAssumption DEF SettledInv, SerialInv, DispatchInv, RequestsOK, SlotOK
  <1>4. /\ lastLogged[o] = order[o].status
        /\ InPool(order[o]) => announced[o]
        /\ informed[o] = Holders(q.seen)
        /\ order[o].courier = q.courier
        /\ Announces(q) \/ q.seen.courier = q.courier
    BY <1>1 DEF OwingOn, Owing, Written
  <1>5. informed'[o] = (informed[o] \union current) \ (Holders(q.seen) \ {q.courier})
    BY <1>2 DEF NotifyAssign, TypeOK
  <1>6. informed'[o] = {q.courier} /\ Holders(order[o]) = {q.courier}
    BY <1>3, <1>4, <1>5 DEF Holders
  <1> QED
    BY <1>1, <1>2, <1>4, <1>6 DEF Passed, Current, UpToDate, Idle

LEMMA ContinueSettles ==
  ASSUME SettledInv, SerialInv', \A p \in Orders : RequestedLate(order'[p]),
         NEW r \in Requests, Continue(r)
  PROVE  SettledInv'
  <1>1. TypeOK /\ SerialInv /\ req[r].phase # "idle" /\ UNCHANGED interrupted
    BY DEF SettledInv, SerialInv, DispatchInv, Continue, WriteStatus, ReadForFinalize,
       WriteCredit, WriteRequest, WriteAccept, SelectForAssign, WriteAssign, LoseClaim,
       WriteRemove, WriteDecline, Log, NotifyStatus, NotifyPool, NotifyAssign, NotifyRemove,
       NotifyDecline, Serving
  <1>2. PICK o \in Orders : o = req[r].order
    BY <1>1, InHand
  <1>3. \A s \in Requests \ {r} : req'[s] = req[s]
    BY <1>1, OthersKept
  <1>4. \A s \in Requests \ {r} : req[s].phase # "idle" => req[s].order # o
    BY <1>1, <1>2, ContinueAlone
  <1>5. req'[r].phase # "idle" => req'[r].order = o
    BY <1>1, <1>2, SlotKept DEF Idle
  <1>6. \A p \in Orders \ {o} : /\ order'[p] = order[p]
                                /\ lastLogged'[p] = lastLogged[p]
                                /\ announced'[p] = announced[p]
                                /\ informed'[p] = informed[p]
    BY <1>1, <1>2, Elsewhere
  <1>7. o \notin interrupted => Passed(r, o)
    <2> SUFFICES ASSUME o \notin interrupted  PROVE Passed(r, o)
      OBVIOUS
    <2>1. OwingOn(req[r], o)
      BY <1>1, <1>2 DEF SettledInv
    <2> QED
      BY <1>2, <2>1, StatusPasses, FinalizePasses, RequestPasses, AcceptPasses, AssignPasses,
         DetachPasses, LogPasses, NotifyPasses, NotifyAssignPasses DEF Continue
  <1> QED
    BY <1>1, <1>2, <1>3, <1>4, <1>5, <1>6, <1>7, SettledFrame DEF Passed

\* A new request finds the order up to date.
LEMMA ArriveSettles ==
  ASSUME Overlap = FALSE, SettledInv, SerialInv', \A p \in Orders : RequestedLate(order'[p]),
         NEW r \in Requests, Arrive(r)
  PROVE  SettledInv'
  <1>1. SerialInv /\ TypeOK
    BY DEF SettledInv, SerialInv, DispatchInv
  <1>2. PICK o \in Orders :
            \/ PlaceOrder(r, o)
            \/ \E to \in Statuses, who \in CourierOrNull : ReadForStatus(r, o, to, who)
            \/ ReadForRequest(r, o)
            \/ ReadForRemove(r, o)
            \/ \E c \in Couriers :
                  \/ ReadForAccept(r, o, c)
                  \/ ReadForClaim(r, o, c)
                  \/ StartReassign(r, o, c)
                  \/ ReadForDecline(r, o, c)
    BY DEF Arrive
  <1>3. /\ Free(r, o) /\ UNCHANGED <<lastLogged, announced, informed, interrupted>>
        /\ \A p \in Orders \ {o} : order'[p] = order[p]
    BY <1>1, <1>2 DEF TypeOK, PlaceOrder, ReadForStatus, ReadForRequest, ReadForRemove,
       ReadForAccept, ReadForClaim, StartReassign, ReadForDecline, db, told
  <1>4. req[r].phase = "idle" /\ (o \notin interrupted => Current(o))
    BY <1>3 DEF Free, SettledInv, Settled
  <1>5. \A s \in Requests \ {r} : req[s].phase # "idle" => req[s].order # o
    BY <1>3, ArriveAlone
  <1>6. \A s \in Requests \ {r} : req'[s] = req[s]
    BY <1>1, OthersKept
  <1>7. ASSUME PlaceOrder(r, o), o \notin interrupted
        PROVE  Owing(req'[r], order'[o], lastLogged'[o], announced'[o], informed'[o])
    <2>1. order[o] \in Row /\ order[o].status = "ABSENT"
      BY <1>1, <1>7 DEF PlaceOrder, TypeOK
    <2>2. order'[o] = [order[o] EXCEPT !.status = "PENDING"]
      BY <1>1, <1>7 DEF PlaceOrder, TypeOK
    <2>3. order'[o].status = "PENDING" /\ order'[o].courier = order[o].courier
      BY <2>1, <2>2 DEF Row
    <2>4. req'[r].phase = "log" /\ req'[r].op = "place" /\ req'[r].to = "PENDING"
      BY <1>1, <1>7 DEF PlaceOrder, Start, TypeOK
    <2> QED
      BY <1>3, <1>4, <1>7, <2>1, <2>3, <2>4
      DEF Owing, Written, Current, UpToDate, InPool, Holders
  <1>8. ASSUME NEW op, NEW phase \in {"write", "select"}, NEW c, NEW to,
               Start(r, o, op, phase, c, to), UNCHANGED order, o \notin interrupted,
               op \in {"request", "remove"} => to = "PREPARING",
               op \in {"claim", "reassign"} => to = "COURIER_ASSIGNED"
        PROVE  Owing(req'[r], order'[o], lastLogged'[o], announced'[o], informed'[o])
    <2>1. req'[r].phase = phase /\ req'[r].op = op /\ req'[r].to = to
      BY <1>1, <1>8 DEF Start, TypeOK
    <2> QED
      BY <1>3, <1>4, <1>8, <2>1 DEF Owing, Written, Current, UpToDate
  <1>9. req'[r].phase # "idle" /\ req'[r].order = o
    BY <1>1, <1>2 DEF TypeOK, PlaceOrder, ReadForStatus, ReadForRequest, ReadForRemove,
       ReadForAccept, ReadForClaim, StartReassign, ReadForDecline, Start
  <1>10. o \notin interrupted =>
            Owing(req'[r], order'[o], lastLogged'[o], announced'[o], informed'[o])
    <2> SUFFICES ASSUME o \notin interrupted
                 PROVE  Owing(req'[r], order'[o], lastLogged'[o], announced'[o], informed'[o])
      OBVIOUS
    <2>1. CASE PlaceOrder(r, o)
      BY <1>7, <2>1
    <2>2. ASSUME NEW to \in Statuses, NEW who \in CourierOrNull, ReadForStatus(r, o, to, who)
          PROVE  Owing(req'[r], order'[o], lastLogged'[o], announced'[o], informed'[o])
      BY <1>8, <2>2 DEF ReadForStatus, db
    <2>3. CASE ReadForRequest(r, o)
      BY <1>8, <2>3 DEF ReadForRequest, db
    <2>4. CASE ReadForRemove(r, o)
      BY <1>8, <2>4 DEF ReadForRemove, db
    <2>5. ASSUME NEW c \in Couriers, ReadForAccept(r, o, c)
          PROVE  Owing(req'[r], order'[o], lastLogged'[o], announced'[o], informed'[o])
      BY <1>8, <2>5 DEF ReadForAccept, db
    <2>6. ASSUME NEW c \in Couriers, ReadForClaim(r, o, c)
          PROVE  Owing(req'[r], order'[o], lastLogged'[o], announced'[o], informed'[o])
      BY <1>8, <2>6 DEF ReadForClaim, db
    <2>7. ASSUME NEW c \in Couriers, StartReassign(r, o, c)
          PROVE  Owing(req'[r], order'[o], lastLogged'[o], announced'[o], informed'[o])
      BY <1>8, <2>7 DEF StartReassign, db
    <2>8. ASSUME NEW c \in Couriers, ReadForDecline(r, o, c)
          PROVE  Owing(req'[r], order'[o], lastLogged'[o], announced'[o], informed'[o])
      BY <1>8, <2>8 DEF ReadForDecline, db
    <2> QED
      BY <1>2, <2>1, <2>2, <2>3, <2>4, <2>5, <2>6, <2>7, <2>8
  <1> QED
    BY <1>3, <1>4, <1>5, <1>6, <1>9, <1>10, SettledFrame

\* A request that dies leaves its order among the interrupted ones.
LEMMA FailSettles ==
  ASSUME SettledInv, SerialInv', \A p \in Orders : RequestedLate(order'[p]),
         NEW r \in Requests, Fail(r)
  PROVE  SettledInv'
  <1>1. SerialInv /\ TypeOK /\ req[r].phase # "idle"
    BY DEF Fail, SettledInv, SerialInv, DispatchInv
  <1>2. PICK o \in Orders : o = req[r].order
    BY <1>1, InHand
  <1>3. \A s \in Requests \ {r} : req'[s] = req[s]
    BY <1>1, OthersKept
  <1>4. \A s \in Requests \ {r} : req[s].phase # "idle" => req[s].order # o
    BY <1>1, <1>2, ContinueAlone
  <1>5. o \in interrupted' /\ req'[r].phase = "idle"
    BY <1>1, <1>2 DEF Fail, Finish, Idle, TypeOK
  <1>6. \A p \in Orders \ {o} : /\ order'[p] = order[p]
                                /\ lastLogged'[p] = lastLogged[p]
                                /\ announced'[p] = announced[p]
                                /\ informed'[p] = informed[p]
                                /\ p \in interrupted' <=> p \in interrupted
    BY <1>1, <1>2, Elsewhere
  <1> QED
    BY <1>2, <1>3, <1>4, <1>5, <1>6, SettledFrame

LEMMA SettledStep ==
  ASSUME Overlap = FALSE, SettledInv, [Next]_vars
  PROVE  SettledInv'
  <1>1. SerialInv' /\ \A p \in Orders : RequestedLate(order'[p])
    BY SerialStep, RequestedStep DEF SettledInv
  <1>2. CASE Next
    <2>1. PICK r \in Requests : Arrive(r) \/ Continue(r) \/ Fail(r)
      BY <1>2 DEF Next
    <2> QED
      BY <1>1, <2>1, ArriveSettles, ContinueSettles, FailSettles
  <1>3. CASE UNCHANGED vars
    <2>1. UNCHANGED <<order, lastLogged, announced, informed, req, interrupted>>
      BY <1>3 DEF vars
    <2> QED
      BY <1>1, <2>1 DEF SettledInv, Settled, Quiet, InFlight, Current, OwingOn
  <1> QED
    BY <1>2, <1>3

LEMMA SettledInvariant ==
  ASSUME Overlap = FALSE
  PROVE  Spec => []SettledInv
  <1>1. SettledInv /\ [Next]_vars => SettledInv'
    BY SettledStep
  <1> QED
    BY <1>1, InitSettledInv, PTL DEF Spec

\* The newest history row of a settled order shows its status (recordStatusChange after
\* every write of a status, declineOrder's own row).
THEOREM HistoryKept ==
  ASSUME Overlap = FALSE
  PROVE  Spec => []HistoryCurrent
  <1>1. SettledInv => HistoryCurrent
    BY DEF SettledInv, Current, UpToDate, HistoryCurrent
  <1> QED
    BY <1>1, SettledInvariant, PTL

\* A settled order in the pool has been offered to the couriers since it last lost its
\* courier (requestCourier, removeCourier and declineOrder announce it).
THEOREM PoolHears ==
  ASSUME Overlap = FALSE
  PROVE  Spec => []PoolAnnounced
  <1>1. SettledInv => PoolAnnounced
    BY DEF SettledInv, Current, UpToDate, PoolAnnounced
  <1> QED
    BY <1>1, SettledInvariant, PTL

\* The couriers who believe a settled order theirs are exactly its holder, unless it is
\* cancelled (assignCourier tells the new one and the previous one, removeCourier the one
\* it removes).
THEOREM HolderAloneInformed ==
  ASSUME Overlap = FALSE
  PROVE  Spec => []OnlyHolderInformed
  <1>1. SettledInv => OnlyHolderInformed
    BY DEF SettledInv, Current, UpToDate, OnlyHolderInformed
  <1> QED
    BY <1>1, SettledInvariant, PTL

=============================================================================
