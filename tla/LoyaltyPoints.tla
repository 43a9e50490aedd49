--------------------------- MODULE LoyaltyPoints ---------------------------
(***************************************************************************)
(* The points customers earn: loyalty.service.ts, run by updateOrderStatus *)
(* when an order becomes DELIVERED, and the two transactions of            *)
(* customers.service.ts that move or remove what it reads: the merge of    *)
(* two accounts and the deletion of one.                                   *)
(*                                                                         *)
(* Every step of a handler is one database call.  updateStatus checks the  *)
(* status it read and writes by id, so two requests may both deliver one   *)
(* order, or one take a delivery back; of the statuses only DELIVERED is   *)
(* told apart.  A level is a function of the points written with it and is *)
(* left out.                                                               *)
(***************************************************************************)
EXTENDS Integers, FiniteSets

CONSTANTS
    Customers,
    Orders,
    Requests,   \* bound: status requests in flight
    Earns,      \* order -> points it earns, floor(total / 1000)
    Reward,     \* points of a referral, rewardPoints || 100
    Onwards     \* bound: are status requests taken after a delivery has been written over?

None == "none"
NoRow == -1     \* the customer has no loyalty row

ASSUME LoyaltyAssumption ==
    /\ None \notin Customers
    /\ Earns \in [Orders -> Nat]
    /\ Reward \in Nat \ {0}
    /\ Onwards \in BOOLEAN

VARIABLES
    order,      \* order -> is it delivered, and whose is it?
    loyalty,    \* customer -> points of its loyalty row, or NoRow
    referral,   \* invited customer -> its inviter, and has that one been rewarded?
    live,       \* customers neither merged away nor deleted
    request,    \* request -> what its handler has read
    owed,       \* history: customer -> points promised by the orders delivered
    paid,       \* history: invited customer -> how often its inviter was rewarded
    disturbed   \* history: what has run beside a handler

vars == <<order, loyalty, referral, live, request, owed, paid, disturbed>>

Order == [delivered : BOOLEAN, customer : Customers \cup {None}]

Referral == [inviter : Customers \cup {None}, rewarded : BOOLEAN]
NoReferral == [inviter |-> None, rewarded |-> FALSE]

\* at: the call the handler makes next; "deliver" and "other" write the status.  holder: whose
\* points it adds to; it has read them.
\* for: the invited customer, when it pays a reward.
Request == [at : {"idle", "deliver", "other", "order", "read", "create", "write", "count",
                  "referral"},
            order : Orders \cup {None}, customer : Customers \cup {None},
            holder : Customers \cup {None}, points : Nat,
            for : Customers \cup {None}]

Idle == [at |-> "idle", order |-> None, customer |-> None, holder |-> None,
         points |-> 0, for |-> None]

\* handlers: another handler ran; accounts: a merge or a deletion did; died: a call failed;
\* stale: a status was written over a delivery that the request had not seen.
Disturbances == SUBSET {"handlers", "accounts", "died", "stale"}

-----------------------------------------------------------------------------
(* Helpers *)

\* The order is not written yet, and onOrderDelivered not called.
Before == {"idle", "deliver", "other"}

Busy == {r \in Requests : request[r].at \notin Before}

OtherDelivered(o, c) ==
    {p \in Orders \ {o} : order[p].delivered /\ order[p].customer = c}

Goto(r, q) == request' = [request EXCEPT ![r] = q]

Note(what) == disturbed' = disturbed \cup what

Stale(o) == IF order[o].delivered THEN {"stale"} ELSE {}
Beside(what) == IF Busy # {} THEN {what} ELSE {}

-----------------------------------------------------------------------------
(* updateOrderStatus and onOrderDelivered *)

\* STATUS_FLOW lets nothing follow DELIVERED; the status it lets follow is written later.
CheckStatus(r, o, write) ==
    /\ request[r].at = "idle"
    /\ ~order[o].delivered
    /\ "stale" \in disturbed => Onwards
    /\ Goto(r, [Idle EXCEPT !.at = write, !.order = o])
    /\ UNCHANGED <<order, loyalty, referral, live, owed, paid, disturbed>>

\* Another status than DELIVERED is written by id, whatever the order's status is by now.
WriteOther(r) ==
    LET o == request[r].order
    IN  /\ request[r].at = "other"
        /\ order' = [order EXCEPT ![o].delivered = FALSE]
        /\ Goto(r, Idle)
        /\ Note(Stale(o))
        /\ UNCHANGED <<loyalty, referral, live, owed, paid>>

\* DELIVERED is written by id, also over a DELIVERED.  What it promises, once for an order
\* not delivered: its points to the customer, and for the first the reward to the inviter.
Deliver(r) ==
    LET o == request[r].order
        c == order[o].customer
        new == ~order[o].delivered
        earned == [d \in Customers |-> IF new /\ d = c THEN Earns[o] ELSE 0]
        first == new /\ c # None /\ OtherDelivered(o, c) = {}
        reward == [d \in Customers |->
                      IF first /\ referral[c].inviter = d /\ ~referral[c].rewarded
                      THEN Reward ELSE 0]
    IN  /\ request[r].at = "deliver"
        /\ order' = [order EXCEPT ![o].delivered = TRUE]
        /\ owed' = [d \in Customers |-> owed[d] + earned[d] + reward[d]]
        /\ Goto(r, [Idle EXCEPT !.at = "order", !.order = o])
        /\ Note(Stale(o) \cup Beside("handlers"))
        /\ UNCHANGED <<loyalty, referral, live, paid>>

\* Nothing is done for an order of a guest, or one that is DELIVERED no longer; an order
\* below a thousand sums skips awardOrderPoints.
ReadOrder(r) ==
    LET q == request[r]
        c == order[q.order].customer
    IN  /\ q.at = "order"
        /\ Goto(r, IF c = None \/ ~order[q.order].delivered THEN Idle
                   ELSE IF Earns[q.order] = 0 THEN [q EXCEPT !.at = "count", !.customer = c]
                   ELSE [q EXCEPT !.at = "read", !.customer = c, !.holder = c])
        /\ UNCHANGED <<order, loyalty, referral, live, owed, paid, disturbed>>

\* Mutated form of ReadLoyalty: a missing row is not noticed.
ReadLoyaltyOnly(r) ==
    LET q == request[r]
    IN  /\ q.at = "read"
        /\ Goto(r, [q EXCEPT !.at = "write", !.points = loyalty[q.holder]])
        /\ UNCHANGED <<order, loyalty, referral, live, owed, paid, disturbed>>

\* getOrCreate: the points are read, or a row is to be created.
ReadLoyalty(r) ==
    LET q == request[r]
        points == loyalty[q.holder]
    IN  /\ q.at = "read"
        /\ Goto(r, IF points = NoRow THEN [q EXCEPT !.at = "create"]
                   ELSE [q EXCEPT !.at = "write", !.points = points])
        /\ UNCHANGED <<order, loyalty, referral, live, owed, paid, disturbed>>

\* customer_id is unique: the create fails when another handler was first (see Die).
CreateLoyalty(r) ==
    LET q == request[r]
    IN  /\ q.at = "create"
        /\ loyalty[q.holder] = NoRow
        /\ loyalty' = [loyalty EXCEPT ![q.holder] = 0]
        /\ Goto(r, [q EXCEPT !.at = "write", !.points = 0])
        /\ UNCHANGED <<order, referral, live, owed, paid, disturbed>>

\* Mutated form of AwardPoints: the points are written over those the customer has.
AwardPointsOver(r) ==
    LET q == request[r]
    IN  /\ q.at = "write" /\ q.for = None
        /\ loyalty[q.holder] # NoRow
        /\ loyalty' = [loyalty EXCEPT ![q.holder] = Earns[q.order]]
        /\ Goto(r, [q EXCEPT !.at = "count"])
        /\ UNCHANGED <<order, referral, live, owed, paid, disturbed>>

\* The sum is of the points read, not of those the row has by now.
AwardPoints(r) ==
    LET q == request[r]
    IN  /\ q.at = "write" /\ q.for = None
        /\ loyalty[q.holder] # NoRow
        /\ loyalty' = [loyalty EXCEPT ![q.holder] = q.points + Earns[q.order]]
        /\ Goto(r, [q EXCEPT !.at = "count"])
        /\ UNCHANGED <<order, referral, live, owed, paid, disturbed>>

\* Mutated form of CountPrior: the count is compared as if this order were part of it.
CountPriorWithOwn(r) ==
    LET q == request[r]
    IN  /\ q.at = "count"
        /\ Goto(r, IF Cardinality(OtherDelivered(q.order, q.customer)) <= 1
                   THEN [q EXCEPT !.at = "referral"] ELSE Idle)
        /\ UNCHANGED <<order, loyalty, referral, live, owed, paid, disturbed>>

\* priorDelivered: delivered orders of the customer except this one, as they are now.
CountPrior(r) ==
    LET q == request[r]
    IN  /\ q.at = "count"
        /\ Goto(r, IF OtherDelivered(q.order, q.customer) = {}
                   THEN [q EXCEPT !.at = "referral"] ELSE Idle)
        /\ UNCHANGED <<order, loyalty, referral, live, owed, paid, disturbed>>

ReadReferral(r) ==
    LET q == request[r]
        row == referral[q.customer]
    IN  /\ q.at = "referral"
        /\ Goto(r, IF row = NoReferral \/ row.rewarded THEN Idle
                   ELSE [q EXCEPT !.at = "read", !.holder = row.inviter, !.for = q.customer])
        /\ UNCHANGED <<order, loyalty, referral, live, owed, paid, disturbed>>

\* One transaction: the inviter's points and rewardedAt.
PayReward(r) ==
    LET q == request[r]
    IN  /\ q.at = "write" /\ q.for # None
        /\ loyalty[q.holder] # NoRow /\ referral[q.for] # NoReferral
        /\ loyalty' = [loyalty EXCEPT ![q.holder] = q.points + Reward]
        /\ referral' = [referral EXCEPT ![q.for].rewarded = TRUE]
        /\ paid' = [paid EXCEPT ![q.for] = @ + 1]
        /\ Goto(r, Idle)
        /\ UNCHANGED <<order, live, owed, disturbed>>

\* A call of the handler fails, and what it had still to do is not done.
Die(r) ==
    /\ request[r].at # "idle"
    /\ Goto(r, Idle)
    /\ Note(IF r \in Busy THEN {"died"} ELSE {})
    /\ UNCHANGED <<order, loyalty, referral, live, owed, paid>>

-----------------------------------------------------------------------------
(* customers.service.ts *)

Guests == {o \in Orders : order[o].customer = None}

\* mergeCustomers: the orders move, and those of guests placed under the source's phone,
\* phones being left out any of them; the points and the referrals stay behind.
Merge(source, target) == \E guests \in SUBSET Guests :
    /\ {source, target} \subseteq live /\ source # target
    /\ order' = [o \in Orders |->
                    IF order[o].customer = source \/ o \in guests
                    THEN [order[o] EXCEPT !.customer = target] ELSE order[o]]
    /\ live' = live \ {source}
    /\ Note(Beside("accounts"))
    /\ UNCHANGED <<loyalty, referral, request, owed, paid>>

\* softDeleteCustomer: the orders lose their customer, the rows go.
Delete(c) ==
    /\ c \in live
    /\ order' = [o \in Orders |->
                    IF order[o].customer = c
                    THEN [order[o] EXCEPT !.customer = None] ELSE order[o]]
    /\ loyalty' = [loyalty EXCEPT ![c] = NoRow]
    /\ referral' = [d \in Customers |->
                       IF d = c \/ referral[d].inviter = c THEN NoReferral ELSE referral[d]]
    /\ live' = live \ {c}
    /\ owed' = [owed EXCEPT ![c] = 0]
    /\ Note(Beside("accounts"))
    /\ UNCHANGED <<request, paid>>

-----------------------------------------------------------------------------

\* Orders under way.  The code reads referrals and creates none: the rows are given.
Init ==
    /\ order \in [Orders -> [delivered : {FALSE}, customer : Customers \cup {None}]]
    /\ loyalty = [c \in Customers |-> NoRow]
    /\ referral \in [Customers -> [inviter : Customers \cup {None}, rewarded : {FALSE}]]
    /\ \A c \in Customers : referral[c].inviter # c
    /\ live = Customers
    /\ request = [r \in Requests |-> Idle]
    /\ owed = [c \in Customers |-> 0]
    /\ paid = [c \in Customers |-> 0]
    /\ disturbed = {}

Handle(r) ==
    \/ WriteOther(r) \/ Deliver(r)
    \/ ReadOrder(r) \/ ReadLoyalty(r) \/ CreateLoyalty(r) \/ AwardPoints(r)
    \/ CountPrior(r) \/ ReadReferral(r) \/ PayReward(r)
    \/ Die(r)

Next ==
    \/ \E r \in Requests, o \in Orders, write \in {"deliver", "other"} : CheckStatus(r, o, write)
    \/ \E r \in Requests : Handle(r)
    \/ \E c, d \in Customers : Merge(c, d)
    \/ \E c \in Customers : Delete(c)

Spec == Init /\ [][Next]_vars

-----------------------------------------------------------------------------
(* Properties *)

\* Every variable keeps its type.
TypeOK ==
    /\ order \in [Orders -> Order]
    /\ loyalty \in [Customers -> Nat \cup {NoRow}]
    /\ referral \in [Customers -> Referral]
    /\ live \subseteq Customers
    /\ request \in [Requests -> Request]
    /\ owed \in [Customers -> Nat] /\ paid \in [Customers -> Nat]
    /\ disturbed \in Disturbances

\* No account was merged or deleted beside a handler, and no status request wrote over a
\* delivery it had not seen.  Two that deliver one order both award its points, and both
\* find it the customer's first: nothing in the code tells them apart.
Regular == disturbed \cap {"accounts", "stale"} = {}

\* However handlers of different orders overlap, an inviter is rewarded once for a customer:
\* of two first orders the later one sees the earlier.  A merge beside two handlers hides
\* each order from the other, and two deliveries of one order leave each other out.
RewardedOnce ==
    Regular => \A c \in Customers : paid[c] <= 1

\* However handlers of different orders overlap or die, nobody has more points than the
\* deliveries promised, though he may have less (an update is lost, a handler dies); and
\* once handlers that ran alone are done, exactly those.
PointsAddUp ==
    \A c \in Customers :
        LET points == IF loyalty[c] = NoRow THEN 0 ELSE loyalty[c]
        IN  /\ Regular => points <= owed[c]
            /\ disturbed = {} /\ Busy = {} => points = owed[c]

=============================================================================
