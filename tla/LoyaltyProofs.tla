--------------------------- MODULE LoyaltyProofs ---------------------------
(***************************************************************************)
(* For any number of customers, orders and handlers, while no request      *)
(* writes over a delivery it has not seen: the inviter of a customer is    *)
(* rewarded once, and nobody has more points than were promised.           *)
(* A handler counts after its own order is DELIVERED, so of two first      *)
(* orders the one counted later sees the other: Unpaid and Apart say       *)
(* it of the handlers in flight, whose orders keep their customers         *)
(* meanwhile.  What the handlers may still add is summed by tallies.       *)
(***************************************************************************)
EXTENDS LoyaltyPoints, WellFoundedInduction, TLAPS

\* What a handler holds is there: its order, and from ReadOrder on the customers it works for.
Prepared ==
    \A r \in Requests :
        LET q == request[r]
        IN  /\ q.at # "idle" => q.order \in Orders
            /\ q.at \in {"read", "create", "write"} => q.holder \in Customers
            /\ q.at \in {"read", "create", "write", "count", "referral"} =>
                   q.customer \in Customers
            /\ q.at \in Before \cup {"order", "count", "referral"} => q.for = None
            /\ q.for # None => q.for = q.customer

\* The order of a handler is delivered and has the customer the handler read.
Holds ==
    \A r \in Busy :
        /\ order[request[r].order].delivered
        /\ request[r].customer # None =>
               order[request[r].order].customer = request[r].customer

\* No two handlers have the same order.
Distinct == \A r, s \in Busy : r # s => request[r].order # request[s].order

\* The handler found that its order is the customer's first.
Passed(r) == request[r].at = "referral" \/ request[r].for # None

\* No two handlers have found that of one customer.
Apart ==
    \A r, s \in Requests :
        r # s /\ Passed(r) /\ Passed(s) => request[r].customer # request[s].customer

\* A handler about to reward pays for the first time, and a paid referral is marked or gone.
Unpaid ==
    /\ \A r \in Requests : request[r].for # None => paid[request[r].for] = 0
    /\ \A c \in Customers :
        /\ paid[c] <= 1
        /\ paid[c] = 0 \/ referral[c].rewarded \/ referral[c] = NoReferral

Safe == Holds /\ Distinct /\ Apart /\ Unpaid

IInv ==
    /\ TypeOK
    /\ Prepared
    /\ Regular => Safe

\* The initial states satisfy the invariant: nobody is being handled or has been paid.
LEMMA InitIInv == Init => IInv
<1>. SUFFICES ASSUME Init PROVE IInv
  OBVIOUS
<1>. USE LoyaltyAssumption DEF Init
<1>1. TypeOK
  <2>1. order \in [Orders -> Order]
    BY DEF Order
  <2>2. referral \in [Customers -> Referral]
    BY DEF Referral
  <2>3. request \in [Requests -> Request]
    BY DEF Idle, Request
  <2>. QED
    BY <2>1, <2>2, <2>3 DEF TypeOK, NoRow, Disturbances
<1>2. Prepared
  BY DEF Prepared, Idle
<1>3. Safe
  <2>1. \A r \in Requests : request[r].at = "idle" /\ request[r].for = None
    BY DEF Idle
  <2>2. Busy = {}
    BY <2>1 DEF Busy, Before
  <2>3. paid = [c \in Customers |-> 0]
    OBVIOUS
  <2>. QED
    BY ONLY <2>1, <2>2, <2>3 DEF Safe, Holds, Distinct, Apart, Passed, Unpaid
<1>. QED
  BY <1>1, <1>2, <1>3 DEF IInv

-----------------------------------------------------------------------------
(* The steps of the handlers *)

\* A request's record after a step of its own; the others keep theirs.
LEMMA Goes ==
    ASSUME NEW r \in Requests, NEW q, TypeOK, Goto(r, q)
    PROVE  /\ request'[r] = q
           /\ \A s \in Requests \ {r} : request'[s] = request[s]
           /\ q \in Request => request' \in [Requests -> Request]
  BY DEF Goto, TypeOK

\* Without a stale write the order that is written was not delivered.
LEMMA FreshWrite ==
    ASSUME NEW o, NEW what, disturbed' = disturbed \cup Stale(o) \cup what, Regular'
    PROVE  Regular /\ ~order[o].delivered
  BY DEF Regular, Stale

\* A status is written: what the order row is then.
LEMMA OrderWritten ==
    ASSUME TypeOK, NEW o \in Orders, NEW b \in BOOLEAN,
           order' = [order EXCEPT ![o].delivered = b]
    PROVE  /\ order' \in [Orders -> Order]
           /\ order'[o].delivered = b
           /\ \A p \in Orders : order'[p].customer = order[p].customer
           /\ \A p \in Orders \ {o} : order'[p] = order[p]
<1>1. PICK row : row = [order[o] EXCEPT !.delivered = b]
  OBVIOUS
<1>2. row \in Order /\ row.delivered = b /\ row.customer = order[o].customer
  <2>1. order[o] \in Order
    BY DEF TypeOK
  <2>. QED
    BY <1>1, <2>1 DEF Order
<1>3. order' = [order EXCEPT ![o] = row]
  BY <1>1
<1>. QED
  BY <1>2, <1>3 DEF TypeOK

\* An order becomes DELIVERED.
LEMMA DeliverIInv ==
    ASSUME IInv, NEW r \in Requests, Deliver(r)
    PROVE  IInv'
<1>. USE LoyaltyAssumption DEF Before
<1>1. TypeOK /\ Prepared
  BY DEF IInv
<1>o. PICK o \in Orders : o = request[r].order
  BY <1>1 DEF Deliver, Prepared
<1>a. PICK q : q = [Idle EXCEPT !.at = "order", !.order = o]
  OBVIOUS
<1>0. q \in Request /\ q.at = "order" /\ q.order = o /\ q.for = None /\ q.customer = None
  BY <1>a DEF Idle, Request
<1>2. /\ request'[r] = q
      /\ \A s \in Requests \ {r} : request'[s] = request[s]
      /\ request' \in [Requests -> Request]
  BY <1>o, <1>a, <1>0, <1>1, Goes DEF Deliver
<1>b. /\ order' \in [Orders -> Order]
      /\ order'[o].delivered
      /\ \A p \in Orders : order'[p].customer = order[p].customer
      /\ \A p \in Orders \ {o} : order'[p] = order[p]
  <2>1. order' = [order EXCEPT ![o].delivered = TRUE]
    BY <1>o DEF Deliver
  <2>2. TRUE \in BOOLEAN
    OBVIOUS
  <2>. QED
    BY ONLY <1>1, <2>1, <2>2, OrderWritten
<1>3. TypeOK'
  <2>2. owed' \in [Customers -> Nat]
    <3>1. Earns[o] \in Nat /\ Reward \in Nat /\ owed \in [Customers -> Nat]
      BY <1>1 DEF TypeOK
    <3>2. owed' = [d \in Customers |->
                     owed[d]
                       + (IF ~order[o].delivered /\ d = order[o].customer THEN Earns[o] ELSE 0)
                       + (IF /\ ~order[o].delivered /\ order[o].customer # None
                             /\ OtherDelivered(o, order[o].customer) = {}
                             /\ referral[order[o].customer].inviter = d
                             /\ ~referral[order[o].customer].rewarded
                          THEN Reward ELSE 0)]
      BY <1>o DEF Deliver
    <3>. QED
      BY ONLY <3>1, <3>2
  <2>3. disturbed' \in Disturbances
    BY <1>1 DEF TypeOK, Deliver, Note, Stale, Beside, Disturbances
  <2>. QED
    <3>1. UNCHANGED <<loyalty, referral, live, paid>>
      BY DEF Deliver
    <3>. QED
      BY <1>1, <1>2, <1>b, <2>2, <2>3, <3>1 DEF TypeOK
<1>4. Prepared'
  BY <1>0, <1>1, <1>2 DEF Prepared
<1>5. ASSUME Regular' PROVE Safe'
  <2>0. Regular /\ ~order[o].delivered
    BY <1>o, <1>5, FreshWrite DEF Deliver, Note
  <2>1. Safe
    BY <2>0 DEF IInv
  <2>2. Busy' = Busy \cup {r} /\ r \notin Busy
    BY <1>0, <1>2 DEF Busy, Deliver
  <2>3. Holds'
    <3>1. ASSUME NEW s \in Busy \ {r}
          PROVE  /\ order'[request'[s].order].delivered
                 /\ request'[s].customer # None =>
                        order'[request'[s].order].customer = request'[s].customer
      <4>1. request[s].order \in Orders /\ order[request[s].order].delivered
        BY <1>1, <2>1 DEF Safe, Holds, Prepared, Busy
      <4>. QED
        BY <1>2, <1>b, <2>0, <2>1, <4>1 DEF Safe, Holds, Busy
    <3>. QED
      BY <1>0, <1>2, <1>b, <2>2, <3>1 DEF Holds
  <2>4. Distinct'
    <3>1. \A s \in Busy : request[s].order # o
      BY <2>0, <2>1 DEF Safe, Holds
    <3>. QED
      BY <1>0, <1>2, <2>1, <2>2, <3>1 DEF Distinct, Safe, Busy
  <2>5. Apart'
    BY <1>0, <1>2, <2>1 DEF Apart, Safe, Passed
  <2>6. Unpaid'
    BY <1>0, <1>2, <2>1 DEF Unpaid, Safe, Deliver
  <2>. QED
    BY <2>3, <2>4, <2>5, <2>6 DEF Safe
<1>. QED
  BY <1>3, <1>4, <1>5 DEF IInv

\* Another status is written: over a delivery it is stale, over another it changes nothing here.
LEMMA WriteOtherIInv ==
    ASSUME IInv, NEW r \in Requests, WriteOther(r)
    PROVE  IInv'
<1>. USE LoyaltyAssumption DEF Before
<1>1. TypeOK /\ Prepared
  BY DEF IInv
<1>o. PICK o \in Orders : o = request[r].order
  BY <1>1 DEF WriteOther, Prepared
<1>0. Idle \in Request /\ Idle.at = "idle" /\ Idle.for = None /\ Idle.customer = None
  BY DEF Idle, Request
<1>2. /\ request'[r] = Idle
      /\ \A s \in Requests \ {r} : request'[s] = request[s]
      /\ request' \in [Requests -> Request]
  BY <1>0, <1>1, Goes DEF WriteOther
<1>b. /\ order' \in [Orders -> Order]
      /\ ~order'[o].delivered
      /\ \A p \in Orders : order'[p].customer = order[p].customer
      /\ \A p \in Orders \ {o} : order'[p] = order[p]
  <2>1. order' = [order EXCEPT ![o].delivered = FALSE]
    BY <1>o DEF WriteOther
  <2>2. FALSE \in BOOLEAN
    OBVIOUS
  <2>. QED
    BY ONLY <1>1, <2>1, <2>2, OrderWritten
<1>3. TypeOK'
  <2>1. disturbed' \in Disturbances
    BY <1>1 DEF TypeOK, WriteOther, Note, Stale, Disturbances
  <2>. QED
    BY <1>1, <1>2, <1>b, <2>1 DEF TypeOK, WriteOther
<1>4. Prepared'
  BY <1>0, <1>1, <1>2 DEF Prepared
<1>5. ASSUME Regular' PROVE Safe'
  <2>0. Regular /\ ~order[o].delivered
    <3>1. disturbed' = disturbed \cup Stale(o) \cup {}
      BY <1>o DEF WriteOther, Note
    <3>. QED
      BY <1>5, <3>1, FreshWrite
  <2>1. Safe
    BY <2>0 DEF IInv
  <2>2. Busy' = Busy /\ r \notin Busy
    BY <1>0, <1>2 DEF Busy, WriteOther
  <2>3. Holds'
    <3>1. ASSUME NEW s \in Busy
          PROVE  /\ order'[request'[s].order].delivered
                 /\ request'[s].customer # None =>
                        order'[request'[s].order].customer = request'[s].customer
      <4>1. request[s].order \in Orders /\ order[request[s].order].delivered /\ s # r
        BY <1>1, <2>1, <2>2 DEF Safe, Holds, Prepared, Busy
      <4>. QED
        BY <1>2, <1>b, <2>0, <2>1, <4>1 DEF Safe, Holds, Busy
    <3>. QED
      BY <2>2, <3>1 DEF Holds
  <2>4. Distinct'
    BY <1>2, <2>1, <2>2 DEF Distinct, Safe, Busy
  <2>5. Apart'
    BY <1>0, <1>2, <2>1 DEF Apart, Safe, Passed
  <2>6. Unpaid'
    BY <1>0, <1>2, <2>1 DEF Unpaid, Safe, WriteOther
  <2>. QED
    BY <2>3, <2>4, <2>5, <2>6 DEF Safe
<1>. QED
  BY <1>3, <1>4, <1>5 DEF IInv

\* What a handler's step that writes no order, no referral and no payment must show: its
\* new record is prepared, and it is the first to pass for its customer if it passes.
LEMMA OwnStep ==
    ASSUME IInv, NEW r \in Requests, NEW q \in Request, Goto(r, q),
           loyalty' \in [Customers -> Nat \cup {NoRow}],
           UNCHANGED <<order, referral, live, owed, paid>>,
           disturbed' \in Disturbances,
           Regular' => Regular,
           q.at # "idle" => q.order \in Orders,
           q.at \notin Before => request[r].at \notin Before /\ q.order = request[r].order,
           q.at \in {"read", "create", "write"} => q.holder \in Customers,
           q.at \in {"read", "create", "write", "count", "referral"} =>
               q.customer \in Customers,
           q.at \in Before \cup {"order", "count", "referral"} => q.for = None,
           q.for # None => q.for = q.customer,
           Safe /\ q.at \notin Before /\ q.customer # None =>
               order[q.order].customer = q.customer,
           Safe /\ (q.at = "referral" \/ q.for # None) =>
               \A s \in Requests \ {r} : Passed(s) => request[s].customer # q.customer,
           Safe /\ q.for # None => paid[q.for] = 0
    PROVE  IInv'
<1>1. TypeOK /\ Prepared
  BY DEF IInv
<1>2. /\ request'[r] = q
      /\ \A s \in Requests \ {r} : request'[s] = request[s]
      /\ request' \in [Requests -> Request]
  BY <1>1, Goes
<1>3. TypeOK'
  BY <1>1, <1>2 DEF TypeOK
<1>4. Prepared'
  BY <1>1, <1>2 DEF Prepared
<1>5. ASSUME Regular' PROVE Safe'
  <2>1. Safe
    BY <1>5 DEF IInv
  <2>2. Holds'
    BY <1>2, <2>1 DEF Holds, Safe, Busy
  <2>3. Distinct'
    BY <1>2, <2>1 DEF Distinct, Safe, Busy
  <2>4. Apart'
    BY <1>2, <2>1 DEF Apart, Safe, Passed
  <2>5. Unpaid'
    BY <1>2, <2>1 DEF Unpaid, Safe
  <2>. QED
    BY <2>2, <2>3, <2>4, <2>5 DEF Safe
<1>. QED
  BY <1>3, <1>4, <1>5 DEF IInv

\* A step of a handler that keeps what its record says of the order and the customer.
LEMMA Keeps ==
    ASSUME IInv, NEW r \in Requests, NEW q \in Request, Goto(r, q),
           loyalty' \in [Customers -> Nat \cup {NoRow}],
           UNCHANGED <<order, referral, live, owed, paid>>,
           disturbed' = disturbed, disturbed' \in Disturbances,
           request[r].at \notin Before, request[r].customer \in Customers,
           q.at \in {"create", "write"} \/ (q.at = "count" /\ request[r].for = None),
           q.at # "count" => q.holder \in Customers,
           q.order = request[r].order, q.customer = request[r].customer,
           q.for = request[r].for
    PROVE  IInv'
<1>. USE DEF Before
<1>1. /\ Prepared /\ (request[r].for # None => request[r].for = request[r].customer)
      /\ request[r].order \in Orders
  BY DEF IInv, Prepared
<1>2. ASSUME Safe
      PROVE  /\ order[q.order].customer = q.customer
             /\ q.for # None => paid[q.for] = 0
             /\ q.for # None => \A s \in Requests \ {r} :
                                   Passed(s) => request[s].customer # q.customer
  BY <1>2, LoyaltyAssumption DEF Safe, Holds, Unpaid, Apart, Passed, Busy
<1>. QED
  <2>1. Regular' => Regular
    BY DEF Regular
  <2>. QED
    BY <1>1, <1>2, <2>1, OwnStep

\* A request is checked: nothing but its record changes.
LEMMA CheckIInv ==
    ASSUME IInv, NEW r \in Requests, NEW o \in Orders, NEW write \in {"deliver", "other"},
           CheckStatus(r, o, write)
    PROVE  IInv'
<1>. USE LoyaltyAssumption DEF Before
<1>1. TypeOK
  BY DEF IInv
<1>2. PICK q : q = [Idle EXCEPT !.at = write, !.order = o]
  OBVIOUS
<1>3. q \in Request /\ q.at = write /\ q.order = o /\ q.for = None /\ q.customer = None
  BY <1>2 DEF Idle, Request
<1>4. Goto(r, q)
  BY <1>2 DEF CheckStatus
<1>5. /\ UNCHANGED <<order, referral, live, owed, paid>>
      /\ loyalty' \in [Customers -> Nat \cup {NoRow}]
      /\ disturbed' \in Disturbances /\ (Regular' => Regular)
  BY <1>1 DEF CheckStatus, TypeOK, Regular
<1>. QED
  BY <1>3, <1>4, <1>5, OwnStep

\* The steps that only read, create a row, add points or give up.
LEMMA HandleIInv ==
    ASSUME IInv, NEW r \in Requests, Handle(r), ~PayReward(r), ~Deliver(r), ~WriteOther(r)
    PROVE  IInv'
<1>. USE LoyaltyAssumption DEF Before
<1>1. TypeOK /\ Prepared /\ request[r] \in Request
  BY DEF IInv, TypeOK
<1>i. Idle \in Request /\ Idle.at = "idle" /\ Idle.for = None /\ Idle.customer = None
  BY DEF Idle, Request
<1>g. disturbed' = disturbed => (Regular' => Regular)
  BY DEF Regular
<1>2. CASE ReadOrder(r)
  <2>1. PICK c : c = order[request[r].order].customer
    OBVIOUS
  <2>2. /\ request[r].at = "order" /\ request[r].order \in Orders /\ request[r].for = None
        /\ c \in Customers \cup {None}
    BY <1>1, <1>2, <2>1 DEF ReadOrder, Prepared, TypeOK, Order
  <2>3. CASE c = None \/ ~order[request[r].order].delivered
    <3>1. Goto(r, Idle)
      BY <1>2, <2>1, <2>3 DEF ReadOrder
    <3>. QED
      BY <1>1, <1>2, <1>i, <2>2, <3>1, <1>g, OwnStep DEF ReadOrder, TypeOK
  <2>4. CASE /\ c # None /\ order[request[r].order].delivered
             /\ Earns[request[r].order] = 0
    <3>1. PICK q : q = [request[r] EXCEPT !.at = "count", !.customer = c]
      OBVIOUS
    <3>2. /\ q \in Request /\ q.at = "count" /\ q.order = request[r].order
          /\ q.customer = c /\ q.for = None
      BY <1>1, <2>2, <3>1 DEF Request
    <3>3. Goto(r, q)
      BY <1>2, <2>1, <2>4, <3>1 DEF ReadOrder
    <3>. QED
      BY <1>1, <1>2, <2>1, <2>2, <2>4, <3>2, <3>3, <1>g, OwnStep DEF ReadOrder, TypeOK
  <2>5. CASE /\ c # None /\ order[request[r].order].delivered
             /\ Earns[request[r].order] # 0
    <3>1. PICK q : q = [request[r] EXCEPT !.at = "read", !.customer = c, !.holder = c]
      OBVIOUS
    <3>2. /\ q \in Request /\ q.at = "read" /\ q.order = request[r].order
          /\ q.customer = c /\ q.holder = c /\ q.for = None
      BY <1>1, <2>2, <3>1 DEF Request
    <3>3. Goto(r, q)
      BY <1>2, <2>1, <2>5, <3>1 DEF ReadOrder
    <3>. QED
      BY <1>1, <1>2, <2>1, <2>2, <2>5, <3>2, <3>3, <1>g, OwnStep DEF ReadOrder, TypeOK
  <2>. QED
    BY <2>3, <2>4, <2>5
<1>3. CASE ReadLoyalty(r)
  <2>1. /\ request[r].at = "read" /\ request[r].holder \in Customers
        /\ request[r].customer \in Customers
        /\ loyalty[request[r].holder] \in Nat \cup {NoRow}
    BY <1>1, <1>3 DEF ReadLoyalty, Prepared, TypeOK
  <2>2. PICK q : q = IF loyalty[request[r].holder] = NoRow
                     THEN [request[r] EXCEPT !.at = "create"]
                     ELSE [request[r] EXCEPT !.at = "write",
                                             !.points = loyalty[request[r].holder]]
    OBVIOUS
  <2>3. /\ q \in Request /\ q.at \in {"create", "write"} /\ q.order = request[r].order
        /\ q.customer = request[r].customer /\ q.holder = request[r].holder
        /\ q.for = request[r].for
    BY <1>1, <2>1, <2>2 DEF Request
  <2>4. Goto(r, q)
    BY <1>3, <2>2 DEF ReadLoyalty
  <2>5. /\ UNCHANGED <<order, referral, live, owed, paid>>
        /\ loyalty' \in [Customers -> Nat \cup {NoRow}]
        /\ disturbed' = disturbed /\ disturbed' \in Disturbances
    BY <1>1, <1>3 DEF ReadLoyalty, TypeOK
  <2>. QED
    BY <1>1, <2>1, <2>3, <2>4, <2>5, Keeps
<1>4. CASE CreateLoyalty(r)
  <2>1. /\ request[r].at = "create" /\ request[r].holder \in Customers
        /\ request[r].customer \in Customers
    BY <1>1, <1>4 DEF CreateLoyalty, Prepared
  <2>2. PICK q : q = [request[r] EXCEPT !.at = "write", !.points = 0]
    OBVIOUS
  <2>3. /\ q \in Request /\ q.at \in {"create", "write"} /\ q.order = request[r].order
        /\ q.customer = request[r].customer /\ q.holder = request[r].holder
        /\ q.for = request[r].for
    BY <1>1, <2>1, <2>2 DEF Request
  <2>4. Goto(r, q)
    BY <1>4, <2>2 DEF CreateLoyalty
  <2>5. /\ UNCHANGED <<order, referral, live, owed, paid>>
        /\ loyalty' \in [Customers -> Nat \cup {NoRow}]
        /\ disturbed' = disturbed /\ disturbed' \in Disturbances
    BY <1>1, <1>4, <2>1 DEF CreateLoyalty, TypeOK
  <2>. QED
    BY <1>1, <2>1, <2>3, <2>4, <2>5, Keeps
<1>5. CASE AwardPoints(r)
  <2>1. /\ request[r].at = "write" /\ request[r].for = None
        /\ request[r].holder \in Customers /\ request[r].customer \in Customers
        /\ request[r].order \in Orders /\ request[r].points \in Nat
    BY <1>1, <1>5 DEF AwardPoints, Prepared, Request
  <2>2. PICK q : q = [request[r] EXCEPT !.at = "count"]
    OBVIOUS
  <2>3. /\ q \in Request /\ q.at = "count" /\ q.order = request[r].order
        /\ q.customer = request[r].customer /\ q.for = None
    BY <1>1, <2>1, <2>2 DEF Request
  <2>4. Goto(r, q)
    BY <1>5, <2>2 DEF AwardPoints
  <2>5. /\ UNCHANGED <<order, referral, live, owed, paid>>
        /\ loyalty' \in [Customers -> Nat \cup {NoRow}]
        /\ disturbed' = disturbed /\ disturbed' \in Disturbances
    BY <1>1, <1>5, <2>1 DEF AwardPoints, TypeOK
  <2>. QED
    BY <1>1, <2>1, <2>3, <2>4, <2>5, Keeps
<1>6. CASE CountPrior(r)
  <2>1. /\ request[r].at = "count" /\ request[r].for = None
        /\ request[r].customer \in Customers /\ request[r].order \in Orders
    BY <1>1, <1>6 DEF CountPrior, Prepared
  <2>5. /\ UNCHANGED <<order, referral, live, owed, paid>>
        /\ loyalty' \in [Customers -> Nat \cup {NoRow}]
        /\ disturbed' = disturbed /\ disturbed' \in Disturbances
    BY <1>1, <1>6 DEF CountPrior, TypeOK
  <2>6. CASE OtherDelivered(request[r].order, request[r].customer) # {}
    <3>1. Goto(r, Idle)
      BY <1>6, <2>6 DEF CountPrior
    <3>. QED
      BY <1>i, <2>1, <2>5, <3>1, <1>g, OwnStep
  <2>7. CASE OtherDelivered(request[r].order, request[r].customer) = {}
    <3>2. PICK q : q = [request[r] EXCEPT !.at = "referral"]
      OBVIOUS
    <3>3. /\ q \in Request /\ q.at = "referral" /\ q.order = request[r].order
          /\ q.customer = request[r].customer /\ q.for = None
      BY <1>1, <2>1, <3>2 DEF Request
    <3>4. Goto(r, q)
      BY <1>6, <2>7, <3>2 DEF CountPrior
    <3>5. ASSUME Safe, NEW s \in Requests \ {r}, Passed(s)
          PROVE  request[s].customer # request[r].customer
      <4>1. /\ request[s].at \notin Before /\ request[s].order \in Orders
            /\ request[s].customer \in Customers
        <5>1. request[s].at \in Before \cup {"order", "read", "create", "write", "count",
                                              "referral"}
          BY <1>1, <3>5 DEF TypeOK, Request
        <5>. QED
          BY <1>1, <3>5, <5>1 DEF Passed, Prepared
      <4>2. /\ request[s].order # request[r].order
            /\ order[request[s].order].delivered
            /\ order[request[s].order].customer = request[s].customer
        BY <2>1, <3>5, <4>1 DEF Safe, Distinct, Holds, Busy
      <4>. QED
        BY <2>7, <4>1, <4>2 DEF OtherDelivered
    <3>6. Safe => order[request[r].order].customer = request[r].customer
      BY <2>1 DEF Safe, Holds, Busy
    <3>. QED
      BY <1>1, <2>1, <2>5, <3>3, <3>4, <3>5, <3>6, <1>g, OwnStep
  <2>. QED
    BY <2>6, <2>7
<1>7. CASE ReadReferral(r)
  <2>1. /\ request[r].at = "referral" /\ request[r].for = None
        /\ request[r].customer \in Customers /\ request[r].order \in Orders
        /\ referral[request[r].customer] \in Referral
    BY <1>1, <1>7 DEF ReadReferral, Prepared, TypeOK
  <2>5. /\ UNCHANGED <<order, referral, live, owed, paid>>
        /\ loyalty' \in [Customers -> Nat \cup {NoRow}]
        /\ disturbed' = disturbed /\ disturbed' \in Disturbances
    BY <1>1, <1>7 DEF ReadReferral, TypeOK
  <2>6. CASE referral[request[r].customer] = NoReferral \/ referral[request[r].customer].rewarded
    <3>1. Goto(r, Idle)
      BY <1>7, <2>6 DEF ReadReferral
    <3>. QED
      BY <1>i, <2>1, <2>5, <3>1, <1>g, OwnStep
  <2>7. CASE /\ referral[request[r].customer] # NoReferral
             /\ ~referral[request[r].customer].rewarded
    <3>1. referral[request[r].customer].inviter \in Customers
      BY <2>1, <2>7 DEF Referral, NoReferral
    <3>2. PICK q : q = [request[r] EXCEPT !.at = "read",
                            !.holder = referral[request[r].customer].inviter,
                            !.for = request[r].customer]
      OBVIOUS
    <3>3. /\ q \in Request /\ q.at = "read" /\ q.order = request[r].order
          /\ q.customer = request[r].customer /\ q.for = request[r].customer
          /\ q.holder \in Customers
      BY <1>1, <2>1, <3>1, <3>2 DEF Request
    <3>4. Goto(r, q)
      BY <1>7, <2>7, <3>2 DEF ReadReferral
    <3>5. Safe => \A s \in Requests \ {r} :
                      Passed(s) => request[s].customer # request[r].customer
      BY <2>1 DEF Safe, Apart, Passed
    <3>6. Safe => paid[request[r].customer] = 0
      BY <2>1, <2>7 DEF Safe, Unpaid
    <3>7. Safe => order[request[r].order].customer = request[r].customer
      BY <2>1 DEF Safe, Holds, Busy
    <3>. QED
      BY <1>1, <2>1, <2>5, <3>3, <3>4, <3>5, <3>6, <3>7, <1>g, OwnStep
  <2>. QED
    BY <2>6, <2>7
<1>8. CASE Die(r)
  <2>1. /\ Goto(r, Idle)
        /\ UNCHANGED <<order, referral, live, owed, paid>>
        /\ loyalty' \in [Customers -> Nat \cup {NoRow}]
    BY <1>1, <1>8 DEF Die, TypeOK
  <2>2. /\ disturbed' \in Disturbances
        /\ Regular' => Regular
    BY <1>1, <1>8 DEF Die, Note, Disturbances, TypeOK, Regular
  <2>. QED
    BY <1>i, <2>1, <2>2, OwnStep
<1>. QED
  BY <1>2, <1>3, <1>4, <1>5, <1>6, <1>7, <1>8 DEF Handle


-----------------------------------------------------------------------------
(* The reward, and the accounts *)

\* The inviter is paid: the first time, and the referral is marked.
LEMMA PayRewardIInv ==
    ASSUME IInv, NEW r \in Requests, PayReward(r)
    PROVE  IInv'
<1>. USE LoyaltyAssumption DEF Before
<1>1. TypeOK /\ Prepared /\ request[r] \in Request
  BY DEF IInv, TypeOK
<1>i. Idle \in Request /\ Idle.at = "idle" /\ Idle.for = None /\ Idle.customer = None
  BY DEF Idle, Request
<1>2. PICK c : c = request[r].for
  OBVIOUS
<1>3. /\ request[r].at = "write" /\ c \in Customers /\ request[r].holder \in Customers
      /\ request[r].customer = c /\ request[r].points \in Nat
  BY <1>1, <1>2 DEF PayReward, Prepared, Request
<1>4. /\ request'[r] = Idle
      /\ \A s \in Requests \ {r} : request'[s] = request[s]
      /\ request' \in [Requests -> Request]
  BY <1>1, <1>i, Goes DEF PayReward
<1>5. /\ referral' \in [Customers -> Referral]
      /\ referral'[c].rewarded
      /\ \A d \in Customers \ {c} : referral'[d] = referral[d]
  <2>1. PICK row : row = [referral[c] EXCEPT !.rewarded = TRUE]
    OBVIOUS
  <2>a. referral[c] \in Referral
    BY <1>1, <1>3 DEF TypeOK
  <2>b. row = [inviter |-> referral[c].inviter, rewarded |-> TRUE]
    BY <2>a, <2>1 DEF Referral
  <2>2. row \in Referral
    <3>1. referral[c].inviter \in Customers \cup {None}
      BY <2>a DEF Referral
    <3>. QED
      BY <2>b, <3>1 DEF Referral
  <2>3. row.rewarded
    BY <2>b
  <2>4. referral' = [referral EXCEPT ![c] = row]
    BY <1>2, <2>1 DEF PayReward
  <2>. QED
    BY <1>1, <1>3, <2>2, <2>3, <2>4 DEF TypeOK
<1>6. /\ paid' \in [Customers -> Nat]
      /\ paid'[c] = paid[c] + 1
      /\ \A d \in Customers \ {c} : paid'[d] = paid[d]
  BY <1>1, <1>2, <1>3 DEF PayReward, TypeOK
<1>7. loyalty' \in [Customers -> Nat \cup {NoRow}]
  BY <1>1, <1>3 DEF PayReward, TypeOK
<1>8. TypeOK'
  BY <1>1, <1>4, <1>5, <1>6, <1>7 DEF TypeOK, PayReward
<1>9. Prepared'
  BY <1>1, <1>i, <1>4 DEF Prepared
<1>10. ASSUME Regular' PROVE Safe'
  <2>1. Safe
    BY <1>10 DEF IInv, PayReward, Regular
  <2>2. Holds'
    BY <1>i, <1>4, <2>1 DEF Holds, Safe, PayReward, Busy
  <2>3. Distinct'
    BY <1>i, <1>4, <2>1 DEF Distinct, Safe, Busy
  <2>4. Apart'
    BY <1>i, <1>4, <2>1 DEF Apart, Safe, Passed
  <2>5. \A s \in Requests \ {r} : request[s].for # None => request[s].for # c
    BY <1>1, <1>2, <1>3, <2>1 DEF Safe, Apart, Passed, Prepared
  <2>6. \A s \in Requests : request[s].for \in Customers \cup {None}
    BY <1>1 DEF TypeOK, Request
  <2>7. paid[c] = 0
    BY <1>2, <1>3, <2>1 DEF Safe, Unpaid
  <2>8. Unpaid'
    BY <1>i, <1>4, <1>5, <1>6, <2>1, <2>5, <2>6, <2>7 DEF Safe, Unpaid
  <2>. QED
    BY <2>2, <2>3, <2>4, <2>8 DEF Safe
<1>. QED
  BY <1>8, <1>9, <1>10 DEF IInv

\* Merges and deletions beside no handler: nobody is in flight, and a row that goes stays gone.
LEMMA AccountsIInv ==
    ASSUME IInv,
           order' \in [Orders -> Order], loyalty' \in [Customers -> Nat \cup {NoRow}],
           referral' \in [Customers -> Referral], live' \subseteq Customers,
           owed' \in [Customers -> Nat], UNCHANGED <<request, paid>>,
           \A c \in Customers : referral'[c] = referral[c] \/ referral'[c] = NoReferral,
           Note(Beside("accounts"))
    PROVE  IInv'
<1>1. TypeOK /\ Prepared
  BY DEF IInv
<1>2. TypeOK'
  BY <1>1 DEF TypeOK, Note, Beside, Disturbances
<1>3. Prepared'
  BY <1>1 DEF Prepared
<1>4. ASSUME Regular' PROVE Safe'
  <2>1. Safe /\ Busy = {}
    BY <1>1, <1>4 DEF IInv, Note, Beside, Regular
  <2>2. \A r \in Requests : request[r].at \in Before /\ request[r].for = None
    BY <1>1, <2>1 DEF Busy, Prepared, Before
  <2>3. Busy' = {}
    BY <2>1 DEF Busy
  <2>. QED
    BY <2>1, <2>2, <2>3 DEF Safe, Holds, Distinct, Apart, Passed, Unpaid, Before
<1>. QED
  BY <1>2, <1>3, <1>4 DEF IInv

\* The orders of a merged account move to the other.
LEMMA MergeIInv ==
    ASSUME IInv, NEW c \in Customers, NEW d \in Customers, Merge(c, d)
    PROVE  IInv'
<1>1. TypeOK
  BY DEF IInv
<1>2. order' \in [Orders -> Order]
  BY <1>1 DEF Merge, TypeOK, Order
<1>. QED
  BY <1>1, <1>2, AccountsIInv DEF Merge, TypeOK

\* The orders of a deleted account lose it, and its rows go.
LEMMA DeleteIInv ==
    ASSUME IInv, NEW c \in Customers, Delete(c)
    PROVE  IInv'
<1>1. TypeOK
  BY DEF IInv
<1>2. order' \in [Orders -> Order]
  BY <1>1 DEF Delete, TypeOK, Order
<1>3. NoReferral \in Referral
  BY DEF NoReferral, Referral
<1>4. /\ referral' \in [Customers -> Referral]
      /\ \A d \in Customers : referral'[d] = referral[d] \/ referral'[d] = NoReferral
  BY <1>1, <1>3 DEF Delete, TypeOK
<1>. QED
  BY <1>1, <1>2, <1>4, AccountsIInv DEF Delete, TypeOK

\* Every step keeps the invariant.
LEMMA NextIInv == IInv /\ [Next]_vars => IInv'
<1>. SUFFICES ASSUME IInv, [Next]_vars PROVE IInv'
  OBVIOUS
<1>1. ASSUME NEW r \in Requests, NEW o \in Orders, NEW write \in {"deliver", "other"},
             CheckStatus(r, o, write)
      PROVE  IInv'
  BY <1>1, CheckIInv
<1>2. ASSUME NEW r \in Requests, Handle(r) PROVE IInv'
  BY <1>2, HandleIInv, DeliverIInv, WriteOtherIInv, PayRewardIInv
<1>3. ASSUME NEW c \in Customers, NEW d \in Customers, Merge(c, d) PROVE IInv'
  BY <1>3, MergeIInv
<1>4. ASSUME NEW c \in Customers, Delete(c) PROVE IInv'
  BY <1>4, DeleteIInv
<1>5. CASE UNCHANGED vars
  BY <1>5 DEF vars, IInv, TypeOK, Prepared, Safe, Holds, Distinct, Apart, Passed, Unpaid,
              Busy, Regular
<1>. QED
  BY <1>1, <1>2, <1>3, <1>4, <1>5 DEF Next

\* The invariant holds throughout.
LEMMA SpecIInv == Spec => []IInv
  BY InitIInv, NextIInv, PTL DEF Spec

\* Every variable of loyalty.service.ts's model keeps its type.
THEOREM LoyaltyTypeCorrect == Spec => []TypeOK
<1>1. IInv => TypeOK
  BY DEF IInv
<1>. QED
  BY SpecIInv, <1>1, PTL

\* The inviter of a customer is rewarded at most once, however the onOrderDelivered of its
\* orders overlap or die half way, as long as no account is merged or deleted beside one and
\* no status request writes over a delivery it has not seen: with two DELIVERED requests of
\* one order under way he may be paid twice.
THEOREM LoyaltyRewardedOnce == Spec => []RewardedOnce
<1>1. IInv => RewardedOnce
  BY DEF IInv, Safe, Unpaid, RewardedOnce
<1>. QED
  BY SpecIInv, <1>1, PTL

-----------------------------------------------------------------------------
(* What is still to be added *)

(***************************************************************************)
(* That nobody has more points than were promised needs the sum of what    *)
(* the handlers in flight may still add.  A sum over a set is a            *)
(* recursion; what the argument needs of it is said without one.  A tally  *)
(* visits handlers, each once, and adds at most what each may still add;   *)
(* a bound on the sum is a bound on the end of every tally.                *)
(***************************************************************************)
Tally(n, s, t, v, F) ==
    /\ n \in Nat /\ s \in [1 .. n -> Requests] /\ t \in [0 .. n -> Int]
    /\ \A i, j \in 1 .. n : i # j => s[i] # s[j]
    /\ t[0] = v
    /\ \A i \in 1 .. n : t[i] <= t[i - 1] + F[s[i]]

\* v and all that the handlers may still add make at most b.
Within(v, F, b) == \A n, s, t : Tally(n, s, t, v, F) => t[n] <= b

\* A bound on the sum bounds what is there.
LEMMA WithinBounds ==
    ASSUME NEW v \in Int, NEW b \in Int, NEW F \in [Requests -> Nat], Within(v, F, b)
    PROVE  v <= b
<1>. DEFINE s == [i \in 1 .. 0 |-> 0]
            t == [i \in 0 .. 0 |-> v]
<1>1. s \in [1 .. 0 -> Requests] /\ t \in [0 .. 0 -> Int] /\ t[0] = v
  OBVIOUS
<1>2. Tally(0, s, t, v, F)
  BY <1>1 DEF Tally
<1>. HIDE DEF s, t
<1>. QED
  BY <1>1, <1>2 DEF Within

\* A set of natural numbers that is not empty has a least element.
LEMMA LeastNat == ASSUME NEW S, S \subseteq Nat, S # {} PROVE \E x \in S : \A y \in S : x <= y
<1>. DEFINE R == OpToRel(<, Nat)
<1>1. IsWellFoundedOn(R, Nat)
  BY NatLessThanWellFounded
<1>2. ASSUME NEW x \in Nat, NEW y \in Nat, x < y PROVE <<x, y>> \in R
  BY <1>2 DEF OpToRel
<1>. HIDE DEF R
<1>3. \E x \in S : \A y \in S : ~(<<y, x>> \in R)
  BY <1>1, WFMin
<1>4. PICK x \in S : \A y \in S : ~(<<y, x>> \in R)
  BY <1>3
<1>5. ASSUME NEW y \in S PROVE x <= y
  <2>1. ~(y < x)
    BY <1>2, <1>4
  <2>. QED
    BY <2>1
<1>. QED
  BY <1>5

\* With no handler in flight what is there is all there will be.
LEMMA NothingComing ==
    ASSUME NEW v \in Int, NEW b \in Int, v <= b, NEW F, \A r \in Requests : F[r] = 0
    PROVE  Within(v, F, b)
<1>. SUFFICES ASSUME NEW n \in Nat, NEW s, NEW t, Tally(n, s, t, v, F) PROVE t[n] <= b
  BY DEF Within, Tally
<1>1. /\ t \in [0 .. n -> Int] /\ t[0] = v
      /\ \A i \in 1 .. n : t[i] <= t[i - 1]
  <2>1. /\ t \in [0 .. n -> Int] /\ t[0] = v /\ s \in [1 .. n -> Requests]
        /\ \A i \in 1 .. n : t[i] <= t[i - 1] + F[s[i]]
    BY DEF Tally
  <2>2. ASSUME NEW i \in 1 .. n PROVE t[i] <= t[i - 1]
    <3>1. F[s[i]] = 0 /\ t[i] <= t[i - 1] + F[s[i]]
      BY <2>1
    <3>2. i - 1 \in 0 .. n /\ i \in 0 .. n
      OBVIOUS
    <3>3. t[i] \in Int /\ t[i - 1] \in Int
      BY <2>1, <3>2
    <3>. QED
      BY <3>1, <3>3
  <2>. QED
    BY <2>1, <2>2
<1>. DEFINE Above == {i \in 0 .. n : t[i] > v}
<1>2. CASE Above = {}
  <2>1. n \in 0 .. n /\ t[n] \in Int
    BY <1>1
  <2>. QED
    BY <1>2, <2>1
<1>3. CASE Above # {}
  <2>0. /\ Above \subseteq Nat /\ 0 \notin Above
        /\ \A i : i \in Above <=> i \in 0 .. n /\ t[i] > v
    BY <1>1
  <2>. HIDE DEF Above
  <2>1. PICK i \in Above : \A j \in Above : i <= j
    BY <1>3, <2>0, LeastNat
  <2>2. i \in 1 .. n
    BY <2>0, <2>1
  <2>3. i - 1 \in 0 .. n /\ i - 1 \notin Above
    <3>1. i - 1 \in 0 .. n /\ i \in Int /\ ~(i <= i - 1)
      BY <2>2
    <3>. QED
      BY <2>1, <3>1
  <2>4. t[i] \in Int /\ t[i - 1] \in Int /\ t[i] <= t[i - 1] /\ t[i] > v
    BY <1>1, <2>0, <2>1, <2>2, <2>3
  <2>. QED
    BY <2>0, <2>3, <2>4
<1>. QED
  BY <1>2, <1>3

\* A step of the handler r takes what is there from v to w and the promises from b to e, and
\* what r may add from f to g: r pays for the difference.
Pays(v, f, b, w, g, e) == w - v + g <= f + (e - b)

\* Then the bound is kept, when the others are left with no more to add.
LEMMA WithinKept ==
    ASSUME NEW v \in Int, NEW b \in Int, NEW w \in Int, NEW e \in Int,
           NEW F \in [Requests -> Nat], NEW G \in [Requests -> Nat], NEW r \in Requests,
           \A q \in Requests \ {r} : G[q] <= F[q],
           Pays(v, F[r], b, w, G[r], e),
           Within(v, F, b)
    PROVE  Within(w, G, e)
<1>. SUFFICES ASSUME NEW n \in Nat, NEW s, NEW t, Tally(n, s, t, w, G) PROVE t[n] <= e
  BY DEF Within, Tally
<1>1. /\ s \in [1 .. n -> Requests] /\ t \in [0 .. n -> Int]
      /\ \A i, j \in 1 .. n : i # j => s[i] # s[j]
      /\ t[0] = w
      /\ \A i \in 1 .. n : t[i] <= t[i - 1] + G[s[i]]
  BY DEF Tally
<1>2. \A i \in 1 .. n : i \in 0 .. n /\ i - 1 \in 0 .. n
  OBVIOUS
<1>3. n \in 0 .. n /\ t[n] \in Int
  BY <1>1
<1>. USE DEF Pays
<1>4. ASSUME NEW k \in 1 .. n, s[k] = r PROVE t[n] <= e
  <2>. DEFINE u == [i \in 0 .. n |-> IF i < k THEN t[i] - (w - v) ELSE t[i] - (e - b)]
  <2>1. u \in [0 .. n -> Int]
    BY <1>1
  <2>2. u[0] = v
    BY <1>1
  <2>3. ASSUME NEW i \in 1 .. n PROVE u[i] <= u[i - 1] + F[s[i]]
    <3>1. /\ t[i] \in Int /\ t[i - 1] \in Int /\ t[i] <= t[i - 1] + G[s[i]]
          /\ s[i] \in Requests /\ F[s[i]] \in Nat /\ G[s[i]] \in Nat
      BY <1>1, <1>2
    <3>2. /\ u[i] = IF i < k THEN t[i] - (w - v) ELSE t[i] - (e - b)
          /\ u[i - 1] = IF i - 1 < k THEN t[i - 1] - (w - v) ELSE t[i - 1] - (e - b)
      BY <1>2
    <3>. HIDE DEF u
    <3>3. CASE i = k
      BY <1>4, <3>1, <3>2, <3>3
    <3>4. CASE i # k
      <4>1. G[s[i]] <= F[s[i]]
        BY <1>1, <1>4, <3>1, <3>4
      <4>. QED
        BY <3>1, <3>2, <3>4, <4>1
    <3>. QED
      BY <3>3, <3>4
  <2>4. u[n] = t[n] - (e - b)
    BY <1>3
  <2>. HIDE DEF u
  <2>5. Tally(n, s, u, v, F)
    BY <1>1, <2>1, <2>2, <2>3 DEF Tally
  <2>6. u[n] <= b
    BY <2>5 DEF Within
  <2>. QED
    BY <1>3, <2>4, <2>6
<1>5. ASSUME \A k \in 1 .. n : s[k] # r PROVE t[n] <= e
  <2>. DEFINE m == n + 1
              x == [i \in 1 .. m |-> IF i <= n THEN s[i] ELSE r]
              u == [i \in 0 .. m |-> IF i <= n THEN t[i] - (w - v) ELSE t[n] - (e - b)]
  <2>0. m \in Nat /\ m \in 0 .. m
    OBVIOUS
  <2>1. x \in [1 .. m -> Requests]
    BY <1>1
  <2>2. u \in [0 .. m -> Int] /\ u[0] = v
    <3>1. ASSUME NEW i \in 0 .. m PROVE u[i] \in Int
      <4>1. i <= n => t[i] \in Int
        BY <1>1
      <4>. QED
        BY <1>3, <4>1
    <3>2. u[0] = v
      BY <1>1
    <3>3. u = [i \in 0 .. m |-> u[i]]
      OBVIOUS
    <3>. HIDE DEF u
    <3>. QED
      BY <3>1, <3>2, <3>3
  <2>3. ASSUME NEW i \in 1 .. m, NEW j \in 1 .. m, i # j PROVE x[i] # x[j]
    <3>1. CASE i <= n /\ j <= n
      BY <1>1, <2>3, <3>1
    <3>2. CASE i = m
      BY <1>5, <2>3, <3>2
    <3>3. CASE j = m
      BY <1>5, <2>3, <3>3
    <3>. QED
      BY <3>1, <3>2, <3>3
  <2>4. ASSUME NEW i \in 1 .. m PROVE u[i] <= u[i - 1] + F[x[i]]
    <3>1. CASE i <= n
      <4>0. i \in 1 .. n
        BY <3>1
      <4>1. /\ t[i] \in Int /\ t[i - 1] \in Int /\ t[i] <= t[i - 1] + G[s[i]]
            /\ s[i] \in Requests /\ F[s[i]] \in Nat /\ G[s[i]] \in Nat
        BY <1>1, <1>2, <4>0
      <4>2. G[s[i]] <= F[s[i]]
        BY <1>5, <4>0, <4>1
      <4>3. /\ u[i] = t[i] - (w - v) /\ u[i - 1] = t[i - 1] - (w - v)
            /\ x[i] = s[i]
        BY <4>0
      <4>4. t[i] - (w - v) <= t[i - 1] - (w - v) + F[s[i]]
        BY <4>1, <4>2
      <4>. HIDE DEF u, x
      <4>. QED
        BY <4>3, <4>4
    <3>2. CASE i = m
      <4>1. u[i] = t[n] - (e - b) /\ u[i - 1] = t[n] - (w - v) /\ x[i] = r
        BY <3>2, <1>3
      <4>2. F[r] \in Nat /\ G[r] \in Nat /\ w - v <= F[r] + (e - b)
        OBVIOUS
      <4>3. t[n] - (e - b) <= t[n] - (w - v) + F[r]
        BY <1>3, <4>2
      <4>. HIDE DEF u, x
      <4>. QED
        BY <4>1, <4>3
    <3>. QED
      BY <3>1, <3>2
  <2>5. u[m] = t[n] - (e - b)
    BY <2>0
  <2>. HIDE DEF u, x, m
  <2>6. Tally(m, x, u, v, F)
    BY <2>0, <2>1, <2>2, <2>3, <2>4 DEF Tally
  <2>7. u[m] <= b
    BY <2>0, <2>6 DEF Within
  <2>. QED
    BY <1>3, <2>5, <2>7
<1>. QED
  BY <1>4, <1>5

\* A customer's points; who has no row has none.
Points(c) == IF loyalty[c] = NoRow THEN 0 ELSE loyalty[c]

Adding == {"read", "create", "write"}

\* No other order of the customer is delivered.
First(o, c, orders) ==
    \A p \in Orders \ {o} : ~(orders[p].delivered /\ orders[p].customer = c)

\* Whom the handler works for.
Customer(q, orders) == IF q.at = "order" THEN orders[q.order].customer ELSE q.customer

\* The points of its order are still to be added to d.
ToAdd(q, d, orders) ==
    \/ q.at = "order" /\ orders[q.order].customer = d
    \/ q.at \in Adding /\ q.for = None /\ q.holder = d

\* The reward is still to be added to d, as the orders and the referrals are now.
ToReward(q, d, orders, referrals) ==
    \/ q.at \in Adding /\ q.for # None /\ q.holder = d
    \/ /\ q.at \notin Before /\ q.for = None /\ Customer(q, orders) # None
       /\ referrals[Customer(q, orders)].inviter = d
       /\ ~referrals[Customer(q, orders)].rewarded
       /\ q.at = "referral" \/ First(q.order, Customer(q, orders), orders)

Coming(q, d, orders, referrals) ==
    (IF ToAdd(q, d, orders) THEN Earns[q.order] ELSE 0)
      + (IF ToReward(q, d, orders, referrals) THEN Reward ELSE 0)

\* What each handler may still add to d.
Owes(d) == [r \in Requests |-> Coming(request[r], d, order, referral)]

\* The points a customer has, and those a handler has read and is about to write over.
Known(c) ==
    {Points(c)} \cup
    {request[r].points : r \in {s \in Requests : request[s].at = "write"
                                                  /\ request[s].holder = c}}

\* To whichever of these the handlers add, it will not be more than was promised.
Sums == \A c \in Customers : \A v \in Known(c) : Within(v, Owes(c), owed[c])

\* A handler alone has read what is there, and what it has still to add is what is missing.
Exact ==
    /\ Busy = {} => \A c \in Customers : Points(c) = owed[c]
    /\ \A r \in Busy :
        /\ Busy = {r}
        /\ request[r].at = "write" => request[r].points = loyalty[request[r].holder]
        /\ \A c \in Customers : Points(c) + Owes(c)[r] = owed[c]

AddUpInv ==
    /\ IInv
    /\ Regular => Sums
    /\ disturbed = {} => Exact

\* What the terms of a sum are.
LEMMA SumTypes ==
    ASSUME IInv, NEW c \in Customers
    PROVE  /\ Points(c) \in Nat /\ owed[c] \in Nat
           /\ Known(c) \subseteq Nat
           /\ Owes(c) \in [Requests -> Nat]
<1>. USE LoyaltyAssumption
<1>1. TypeOK /\ Prepared
  BY DEF IInv
<1>2. Points(c) \in Nat /\ owed[c] \in Nat
  BY <1>1 DEF TypeOK, Points, NoRow
<1>3. \A r \in Requests : request[r].points \in Nat
  BY <1>1 DEF TypeOK, Request
<1>4. ASSUME NEW r \in Requests PROVE Coming(request[r], c, order, referral) \in Nat
  <2>1. ToAdd(request[r], c, order) => Earns[request[r].order] \in Nat
    BY <1>1 DEF Prepared, ToAdd, Adding
  <2>. QED
    BY <2>1 DEF Coming
<1>. QED
  BY <1>2, <1>3, <1>4 DEF Known, Owes

\* The same of the next state.
LEMMA SumTypesNext ==
    IInv' => (\A c \in Customers :
                 /\ Points(c) \in Nat /\ owed[c] \in Nat
                 /\ Known(c) \subseteq Nat
                 /\ Owes(c) \in [Requests -> Nat])'
<1>1. IInv => \A c \in Customers :
                 /\ Points(c) \in Nat /\ owed[c] \in Nat
                 /\ Known(c) \subseteq Nat
                 /\ Owes(c) \in [Requests -> Nat]
  BY SumTypes
<1>. QED
  BY <1>1, PTL

\* A request that has not written its order yet, or is done, adds nothing.
LEMMA IdleOwes ==
    ASSUME NEW q, NEW d, NEW orders, NEW referrals, q.at \in Before
    PROVE  Coming(q, d, orders, referrals) = 0
  BY DEF Coming, ToAdd, ToReward, Adding, Before

\* While orders keep their customers, deliveries and rewards by others only take away.
LEMMA ComingShrinks ==
    ASSUME NEW q, NEW d, NEW ord, NEW ref, NEW ord2, NEW ref2,
           q.at \notin Before =>
               q.order \in Orders /\ ord[q.order].customer \in Customers \cup {None},
           q.at \notin Before \cup {"order"} => q.customer \in Customers,
           \A o \in Orders : /\ ord2[o].customer = ord[o].customer
                             /\ ord[o].delivered => ord2[o].delivered,
           \A c \in Customers : /\ ref2[c].inviter = ref[c].inviter
                                /\ ref[c].rewarded => ref2[c].rewarded
    PROVE  Coming(q, d, ord2, ref2) <= Coming(q, d, ord, ref)
<1>. USE LoyaltyAssumption
<1>1. ToAdd(q, d, ord2) <=> ToAdd(q, d, ord)
  BY DEF ToAdd, Adding, Before
<1>2. q.at \notin Before => /\ Customer(q, ord2) = Customer(q, ord)
                           /\ Customer(q, ord) \in Customers \cup {None}
  BY DEF Customer
<1>3. ASSUME NEW o, NEW c, First(o, c, ord2) PROVE First(o, c, ord)
  BY <1>3 DEF First
<1>4. ToReward(q, d, ord2, ref2) => ToReward(q, d, ord, ref)
  BY <1>2, <1>3 DEF ToReward
<1>5. ToAdd(q, d, ord) => Earns[q.order] \in Nat
  BY DEF ToAdd, Adding, Before
<1>. QED
  BY <1>1, <1>4, <1>5 DEF Coming

\* A step of r keeps the bound when every value known after it was known before, or is one
\* that was, with what r no longer owes.
LEMMA StepSums ==
    ASSUME AddUpInv, IInv', NEW r \in Requests,
           \A s \in Requests \ {r} : request'[s] = request[s],
           \A o \in Orders : /\ order'[o].customer = order[o].customer
                             /\ order[o].delivered => order'[o].delivered,
           \A c \in Customers : /\ referral'[c].inviter = referral[c].inviter
                                /\ referral[c].rewarded => referral'[c].rewarded,
           \A c \in Customers : \E g \in Nat :
               /\ Owes(c)'[r] + g = Owes(c)[r] + (owed'[c] - owed[c])
               /\ \A w \in Known(c)' : w \in Known(c) \/ \E v \in Known(c) : w = v + g,
           Regular
    PROVE  Sums'
<1>1. IInv /\ Sums
  BY DEF AddUpInv
<1>2. TypeOK /\ Prepared
  BY <1>1 DEF IInv
<1>. SUFFICES ASSUME NEW c \in Customers, NEW w \in Known(c)'
              PROVE  Within(w, Owes(c)', owed'[c])
  BY DEF Sums
<1>3. /\ Owes(c) \in [Requests -> Nat] /\ owed[c] \in Nat /\ Known(c) \subseteq Nat
  BY <1>1, SumTypes
<1>4. /\ Owes(c)' \in [Requests -> Nat] /\ owed'[c] \in Nat /\ Known(c)' \subseteq Nat
  BY SumTypesNext
<1>5. ASSUME NEW s \in Requests \ {r} PROVE Owes(c)'[s] <= Owes(c)[s]
  <2>1. PICK q : q = request[s]
    OBVIOUS
  <2>2. /\ q.at \notin Before =>
               q.order \in Orders /\ order[q.order].customer \in Customers \cup {None}
        /\ q.at \notin Before \cup {"order"} => q.customer \in Customers
    <3>1. q \in Request
      BY <1>2, <2>1 DEF TypeOK
    <3>. QED
      BY <1>2, <2>1, <3>1 DEF TypeOK, Prepared, Order, Request, Before
  <2>3. Coming(q, c, order', referral') <= Coming(q, c, order, referral)
    BY <2>2, ComingShrinks
  <2>. QED
    BY <2>1, <2>3 DEF Owes
<1>6. PICK g \in Nat :
               /\ Owes(c)'[r] + g = Owes(c)[r] + (owed'[c] - owed[c])
               /\ w \in Known(c) \/ \E v \in Known(c) : w = v + g
  OBVIOUS
<1>7. PICK v \in Known(c) : w = v \/ w = v + g
  BY <1>6
<1>8. w - v + Owes(c)'[r] <= Owes(c)[r] + (owed'[c] - owed[c])
  <2>1. /\ v \in Int /\ w \in Int /\ Owes(c)'[r] \in Int /\ Owes(c)[r] \in Int
        /\ owed'[c] \in Int /\ owed[c] \in Int
    BY <1>3, <1>4
  <2>. QED
    BY <1>6, <1>7, <2>1
<1>9. Within(v, Owes(c), owed[c])
  BY <1>1 DEF Sums
<1>. QED
  <2>1. PICK F, G, b, e : F = Owes(c) /\ G = Owes(c)' /\ b = owed[c] /\ e = owed'[c]
    OBVIOUS
  <2>2. v \in Int /\ w \in Int /\ b \in Int /\ e \in Int
    BY <1>3, <1>4, <2>1
  <2>3. /\ F \in [Requests -> Nat] /\ G \in [Requests -> Nat]
        /\ \A s \in Requests \ {r} : G[s] <= F[s]
        /\ Pays(v, F[r], b, w, G[r], e)
        /\ Within(v, F, b)
    BY <1>3, <1>4, <1>5, <1>8, <1>9, <2>1 DEF Pays
  <2>4. Within(w, G, e)
    BY <2>2, <2>3, WithinKept
  <2>. QED
    BY <2>1, <2>4

\* A step of a handler that is alone keeps the sums exact when it moves what it adds from
\* what it owes to what is there.
LEMMA StepExact ==
    ASSUME AddUpInv, IInv', NEW r \in Requests,
           \A s \in Requests \ {r} : request'[s] = request[s],
           request[r].at \notin Before, owed' = owed,
           Exact => \A c \in Customers :
                        Points(c)' + Owes(c)'[r] = Points(c) + Owes(c)[r],
           Exact => (request'[r].at = "write" =>
                        request'[r].points = loyalty'[request'[r].holder]),
           disturbed = {}
    PROVE  Exact'
<1>1. Exact
  BY DEF AddUpInv
<1>2. r \in Busy /\ Busy = {r}
  BY <1>1 DEF Exact, Busy
<1>3. \A c \in Customers : Points(c)' + Owes(c)'[r] = owed'[c]
  BY <1>1, <1>2 DEF Exact
<1>4. \A s \in Busy' : s = r
  BY <1>2 DEF Busy
<1>5. ASSUME Busy' = {}, NEW c \in Customers PROVE Points(c)' = owed'[c]
  <2>1. request'[r].at \in Before
    BY <1>5 DEF Busy
  <2>2. Owes(c)'[r] = 0
    <3>1. PICK q, ord, ref : q = request'[r] /\ ord = order' /\ ref = referral'
      OBVIOUS
    <3>2. Coming(q, c, ord, ref) = 0
      BY <2>1, <3>1, IdleOwes
    <3>. QED
      BY <3>1, <3>2 DEF Owes
  <2>3. Points(c)' \in Nat
    BY SumTypesNext
  <2>. QED
    BY <1>3, <2>2, <2>3
<1>6. ASSUME NEW s \in Busy' PROVE s = r /\ Busy' = {s}
  BY <1>4, <1>6
<1>7. Exact => (request'[r].at = "write" =>
                        request'[r].points = loyalty'[request'[r].holder])
  OBVIOUS
<1>. QED
  BY <1>1, <1>3, <1>5, <1>6, <1>7 DEF Exact

\* A step that only reads, or creates a row without points: r owes what it owed, the points
\* are the same, and if r is about to write it has read them.
LEMMA ReadAddsUp ==
    ASSUME AddUpInv, IInv', NEW r \in Requests,
           \A s \in Requests \ {r} : request'[s] = request[s],
           request[r].at \notin Before, UNCHANGED <<order, referral, owed, disturbed>>,
           \A c \in Customers :
               Coming(request'[r], c, order, referral) = Coming(request[r], c, order, referral),
           \A c \in Customers : Points(c)' = Points(c),
           request'[r].at = "write" => /\ request'[r].holder \in Customers
                                       /\ request'[r].points = loyalty'[request'[r].holder]
                                       /\ loyalty'[request'[r].holder] # NoRow
    PROVE  AddUpInv'
<1>1. ASSUME NEW c \in Customers PROVE Owes(c)'[r] = Owes(c)[r]
  BY DEF Owes
<1>2. ASSUME NEW c \in Customers, NEW w \in Known(c)' PROVE w \in Known(c)
  <2>1. CASE w = Points(c)'
    BY <2>1 DEF Known
  <2>2. CASE w # Points(c)'
    <3>1. PICK s \in Requests : /\ request'[s].at = "write" /\ request'[s].holder = c
                                /\ w = request'[s].points
      BY <1>2, <2>2 DEF Known
    <3>2. CASE s = r
      <4>1. w = Points(c)'
        BY <3>1, <3>2 DEF Points
      <4>. QED
        BY <2>2, <4>1
    <3>3. CASE s # r
      BY <3>1, <3>3 DEF Known
    <3>. QED
      BY <3>2, <3>3
  <2>. QED
    BY <2>1, <2>2
<1>3. ASSUME NEW c \in Customers
      PROVE  \E g \in Nat :
               /\ Owes(c)'[r] + g = Owes(c)[r] + (owed'[c] - owed[c])
               /\ \A w \in Known(c)' : w \in Known(c) \/ \E v \in Known(c) : w = v + g
  <2>1. Owes(c)[r] \in Int /\ owed[c] \in Int
    BY SumTypes DEF AddUpInv
  <2>2. Owes(c)'[r] + 0 = Owes(c)[r] + (owed'[c] - owed[c])
    BY <1>1, <2>1
  <2>. QED
    BY <1>2, <2>2
<1>4. Regular' => Sums'
  BY <1>3, StepSums DEF Regular
<1>5. disturbed' = {} => Exact'
  BY <1>1, StepExact
<1>. QED
  BY <1>4, <1>5 DEF AddUpInv

\* A step that writes points: what r read and a more, to the one it owed a.
LEMMA WriteAddsUp ==
    ASSUME AddUpInv, IInv', NEW r \in Requests,
           \A s \in Requests \ {r} : request'[s] = request[s],
           request[r].at = "write", request'[r].at # "write",
           UNCHANGED <<order, owed, disturbed>>,
           \A c \in Customers : /\ referral'[c].inviter = referral[c].inviter
                                /\ referral[c].rewarded => referral'[c].rewarded,
           NEW a \in Nat, NEW h \in Customers, request[r].holder = h,
           loyalty[h] # NoRow,
           loyalty' = [loyalty EXCEPT ![h] = request[r].points + a],
           \A c \in Customers : Owes(c)'[r] + (IF c = h THEN a ELSE 0) = Owes(c)[r]
    PROVE  AddUpInv'
<1>. USE DEF Before
<1>1. TypeOK /\ request[r].points \in Nat
  BY DEF AddUpInv, IInv, TypeOK, Request
<1>2. /\ loyalty'[h] = request[r].points + a
      /\ \A c \in Customers \ {h} : loyalty'[c] = loyalty[c]
  BY <1>1 DEF TypeOK
<1>3. /\ Points(h)' = request[r].points + a
      /\ \A c \in Customers \ {h} : Points(c)' = Points(c)
  BY <1>1, <1>2 DEF Points, NoRow
<1>4. ASSUME NEW c \in Customers, NEW w \in Known(c)'
      PROVE  w \in Known(c) \/ (c = h /\ w = request[r].points + a)
  <2>1. CASE w = Points(c)'
    BY <1>3, <2>1 DEF Known
  <2>2. CASE w # Points(c)'
    <3>1. PICK s \in Requests : /\ request'[s].at = "write" /\ request'[s].holder = c
                                /\ w = request'[s].points
      BY <1>4, <2>2 DEF Known
    <3>2. s # r /\ request'[s] = request[s]
      BY <3>1
    <3>. QED
      BY <3>1, <3>2 DEF Known
  <2>. QED
    BY <2>1, <2>2
<1>5. request[r].points \in Known(h)
  BY DEF Known
<1>6. ASSUME NEW c \in Customers
      PROVE  \E g \in Nat :
               /\ Owes(c)'[r] + g = Owes(c)[r] + (owed'[c] - owed[c])
               /\ \A w \in Known(c)' : w \in Known(c) \/ \E v \in Known(c) : w = v + g
  <2>1. Owes(c)[r] \in Int /\ owed[c] \in Int
    BY SumTypes DEF AddUpInv
  <2>2. PICK g : g = IF c = h THEN a ELSE 0
    OBVIOUS
  <2>3. g \in Nat /\ Owes(c)'[r] + g = Owes(c)[r]
    BY <2>2
  <2>4. Owes(c)'[r] + g = Owes(c)[r] + (owed'[c] - owed[c])
    BY <2>1, <2>3
  <2>5. \A w \in Known(c)' : w \in Known(c) \/ \E v \in Known(c) : w = v + g
    BY <1>4, <1>5, <2>2
  <2>. QED
    BY <2>3, <2>4, <2>5
<1>7. Regular' => Sums'
  BY <1>6, StepSums DEF Regular
<1>8. ASSUME disturbed' = {} PROVE Exact'
  <2>1. Exact /\ r \in Busy
    BY <1>8 DEF AddUpInv, Busy
  <2>2. request[r].points = loyalty[h] /\ Points(h) = loyalty[h]
    BY <2>1 DEF Exact, Points
  <2>3. ASSUME NEW c \in Customers
        PROVE  Points(c)' + Owes(c)'[r] = Points(c) + Owes(c)[r]
    <3>1. Owes(c)'[r] \in Int /\ Owes(c)[r] \in Int /\ Points(c) \in Int
      BY SumTypes, SumTypesNext DEF AddUpInv
    <3>2. CASE c = h
      <4>1. Owes(c)'[r] + a = Owes(c)[r]
        BY <3>2
      <4>2. Points(c)' = Points(c) + a
        BY <1>3, <2>2, <3>2
      <4>. QED
        BY <3>1, <4>1, <4>2
    <3>3. CASE c # h
      <4>1. Owes(c)'[r] + 0 = Owes(c)[r]
        BY <3>3
      <4>2. Points(c)' = Points(c)
        BY <1>3, <3>3
      <4>. QED
        BY <3>1, <4>1, <4>2
    <3>. QED
      BY <3>2, <3>3
  <2>. QED
    BY <1>8, <2>3, StepExact
<1>. QED
  BY <1>7, <1>8 DEF AddUpInv

\* Once a step was irregular nothing is claimed of the sums.
LEMMA IrregularAddsUp ==
    ASSUME IInv', ~Regular'
    PROVE  AddUpInv'
<1>1. ~(disturbed' = {})
  BY DEF Regular
<1>. QED
  BY <1>1 DEF AddUpInv

\* Of a delivered order of its customer, CountPrior and First ask the same.
LEMMA FirstIs ==
    ASSUME NEW o, NEW c
    PROVE  OtherDelivered(o, c) = {} <=> First(o, c, order)
  BY DEF OtherDelivered, First

\* The handler reads its order: from then on it works for the customer it found.
LEMMA ReadOrderAddsUp ==
    ASSUME AddUpInv, IInv', NEW r \in Requests, ReadOrder(r)
    PROVE  AddUpInv'
<1>. USE LoyaltyAssumption DEF Before
<1>1. TypeOK /\ Prepared /\ request[r] \in Request
  BY DEF AddUpInv, IInv, TypeOK
<1>2. PICK q, c : q = request[r] /\ c = order[q.order].customer
  OBVIOUS
<1>3. /\ q \in Request /\ q.at = "order" /\ q.order \in Orders /\ q.for = None
      /\ c \in Customers \cup {None} /\ Earns[q.order] \in Nat
  BY <1>1, <1>2 DEF ReadOrder, Prepared, TypeOK, Order
<1>r. SUFFICES ASSUME Regular PROVE AddUpInv'
  BY IrregularAddsUp DEF ReadOrder, Regular
<1>d. order[q.order].delivered
  BY <1>2, <1>3, <1>r DEF AddUpInv, IInv, Safe, Holds, Busy
<1>4. PICK p : p = IF c = None THEN Idle
                   ELSE IF Earns[q.order] = 0 THEN [q EXCEPT !.at = "count", !.customer = c]
                   ELSE [q EXCEPT !.at = "read", !.customer = c, !.holder = c]
  OBVIOUS
<1>5. /\ request'[r] = p
      /\ \A s \in Requests \ {r} : request'[s] = request[s]
      /\ UNCHANGED <<order, loyalty, referral, owed, disturbed>>
  BY <1>1, <1>2, <1>4, <1>d, Goes DEF ReadOrder
<1>6. /\ c = None => p.at = "idle"
      /\ c # None /\ Earns[q.order] = 0 =>
             p.at = "count" /\ p.customer = c /\ p.order = q.order /\ p.for = None
      /\ c # None /\ Earns[q.order] # 0 =>
             /\ p.at = "read" /\ p.customer = c /\ p.holder = c /\ p.order = q.order
             /\ p.for = None
  BY <1>3, <1>4 DEF Request, Idle
<1>7. ASSUME NEW d \in Customers
      PROVE  Coming(p, d, order, referral) = Coming(q, d, order, referral)
  <2>1. CASE c = None
    <3>1. ~ToAdd(q, d, order) /\ ~ToReward(q, d, order, referral)
      BY <1>2, <1>3, <2>1 DEF ToAdd, ToReward, Customer, Adding
    <3>2. Coming(p, d, order, referral) = 0
      BY <1>6, <2>1, IdleOwes
    <3>. QED
      BY <3>1, <3>2 DEF Coming
  <2>2. CASE c # None
    <3>1. ToReward(p, d, order, referral) <=> ToReward(q, d, order, referral)
      BY <1>2, <1>3, <1>6, <2>2 DEF ToReward, Customer, Adding
    <3>2. CASE Earns[q.order] = 0
      BY <1>3, <1>6, <2>2, <3>1, <3>2 DEF Coming
    <3>3. CASE Earns[q.order] # 0
      <4>1. ToAdd(p, d, order) <=> ToAdd(q, d, order)
        BY <1>2, <1>3, <1>6, <2>2, <3>3 DEF ToAdd, Adding
      <4>. QED
        BY <1>3, <1>6, <2>2, <3>1, <3>3, <4>1 DEF Coming
    <3>. QED
      BY <3>2, <3>3
  <2>. QED
    BY <2>1, <2>2
<1>8. p.at # "write"
  BY <1>6
<1>9. \A d \in Customers : Points(d)' = Points(d)
  BY <1>5 DEF Points
<1>. QED
  BY <1>2, <1>3, <1>5, <1>7, <1>8, <1>9, ReadAddsUp

\* The points are read, or a row without points is to be created.
LEMMA ReadLoyaltyAddsUp ==
    ASSUME AddUpInv, IInv', NEW r \in Requests, ReadLoyalty(r)
    PROVE  AddUpInv'
<1>. USE DEF Before
<1>1. TypeOK /\ Prepared /\ request[r] \in Request
  BY DEF AddUpInv, IInv, TypeOK
<1>2. PICK q : q = request[r]
  OBVIOUS
<1>3. /\ q \in Request /\ q.at = "read" /\ q.holder \in Customers
      /\ loyalty[q.holder] \in Nat \cup {NoRow}
  BY <1>1, <1>2 DEF ReadLoyalty, Prepared, TypeOK
<1>4. PICK p : p = IF loyalty[q.holder] = NoRow THEN [q EXCEPT !.at = "create"]
                   ELSE [q EXCEPT !.at = "write", !.points = loyalty[q.holder]]
  OBVIOUS
<1>5. /\ request'[r] = p
      /\ \A s \in Requests \ {r} : request'[s] = request[s]
      /\ UNCHANGED <<order, loyalty, referral, owed, disturbed>>
  BY <1>1, <1>2, <1>4, Goes DEF ReadLoyalty
<1>6. /\ p.at \in {"create", "write"} /\ p.order = q.order /\ p.customer = q.customer
      /\ p.holder = q.holder /\ p.for = q.for
      /\ p.at = "write" => p.points = loyalty[q.holder] /\ loyalty[q.holder] # NoRow
  BY <1>3, <1>4 DEF Request
<1>7. ASSUME NEW d \in Customers
      PROVE  Coming(p, d, order, referral) = Coming(q, d, order, referral)
  <2>1. ToAdd(p, d, order) <=> ToAdd(q, d, order)
    BY <1>3, <1>6 DEF ToAdd, Adding
  <2>2. ToReward(p, d, order, referral) <=> ToReward(q, d, order, referral)
    BY <1>3, <1>6 DEF ToReward, Adding, Customer
  <2>. QED
    BY <1>6, <2>1, <2>2 DEF Coming
<1>9. \A d \in Customers : Points(d)' = Points(d)
  BY <1>5 DEF Points
<1>. QED
  BY <1>2, <1>3, <1>5, <1>6, <1>7, <1>9, ReadAddsUp

\* A row is created, with no points in it.
LEMMA CreateLoyaltyAddsUp ==
    ASSUME AddUpInv, IInv', NEW r \in Requests, CreateLoyalty(r)
    PROVE  AddUpInv'
<1>. USE DEF Before
<1>1. TypeOK /\ Prepared /\ request[r] \in Request
  BY DEF AddUpInv, IInv, TypeOK
<1>2. PICK q : q = request[r]
  OBVIOUS
<1>3. /\ q \in Request /\ q.at = "create" /\ q.holder \in Customers
      /\ loyalty[q.holder] = NoRow
  BY <1>1, <1>2 DEF CreateLoyalty, Prepared
<1>4. PICK p : p = [q EXCEPT !.at = "write", !.points = 0]
  OBVIOUS
<1>5. /\ request'[r] = p
      /\ \A s \in Requests \ {r} : request'[s] = request[s]
      /\ UNCHANGED <<order, referral, owed, disturbed>>
  BY <1>1, <1>2, <1>4, Goes DEF CreateLoyalty
<1>6. /\ p.at = "write" /\ p.order = q.order /\ p.customer = q.customer
      /\ p.holder = q.holder /\ p.for = q.for /\ p.points = 0
  BY <1>3, <1>4 DEF Request
<1>7. ASSUME NEW d \in Customers
      PROVE  Coming(p, d, order, referral) = Coming(q, d, order, referral)
  <2>1. ToAdd(p, d, order) <=> ToAdd(q, d, order)
    BY <1>3, <1>6 DEF ToAdd, Adding
  <2>2. ToReward(p, d, order, referral) <=> ToReward(q, d, order, referral)
    BY <1>3, <1>6 DEF ToReward, Adding, Customer
  <2>. QED
    BY <1>6, <2>1, <2>2 DEF Coming
<1>8. /\ loyalty'[q.holder] = 0
      /\ \A d \in Customers \ {q.holder} : loyalty'[d] = loyalty[d]
  BY <1>1, <1>2, <1>3 DEF CreateLoyalty, TypeOK
<1>9. \A d \in Customers : Points(d)' = Points(d)
  BY <1>3, <1>8 DEF Points, NoRow
<1>. QED
  BY <1>2, <1>3, <1>5, <1>6, <1>7, <1>8, <1>9, ReadAddsUp DEF NoRow

\* The handler counts the customer's other orders, and goes on if this is the first.
LEMMA CountPriorAddsUp ==
    ASSUME AddUpInv, IInv', NEW r \in Requests, CountPrior(r)
    PROVE  AddUpInv'
<1>. USE LoyaltyAssumption DEF Before
<1>1. TypeOK /\ Prepared /\ request[r] \in Request
  BY DEF AddUpInv, IInv, TypeOK
<1>2. PICK q : q = request[r]
  OBVIOUS
<1>3. q \in Request /\ q.at = "count" /\ q.customer \in Customers /\ q.for = None
  BY <1>1, <1>2 DEF CountPrior, Prepared
<1>4. PICK p : p = IF First(q.order, q.customer, order)
                   THEN [q EXCEPT !.at = "referral"] ELSE Idle
  OBVIOUS
<1>5. /\ request'[r] = p
      /\ \A s \in Requests \ {r} : request'[s] = request[s]
      /\ UNCHANGED <<order, loyalty, referral, owed, disturbed>>
  BY <1>1, <1>2, <1>4, FirstIs, Goes DEF CountPrior
<1>6. /\ First(q.order, q.customer, order) =>
             p.at = "referral" /\ p.customer = q.customer /\ p.order = q.order /\ p.for = None
      /\ ~First(q.order, q.customer, order) => p.at = "idle"
  BY <1>3, <1>4 DEF Request, Idle
<1>7. ASSUME NEW d \in Customers
      PROVE  Coming(p, d, order, referral) = Coming(q, d, order, referral)
  <2>0. Customer(q, order) = q.customer /\ ~ToAdd(q, d, order)
    BY <1>3 DEF Customer, ToAdd, Adding
  <2>1. CASE First(q.order, q.customer, order)
    <3>1. ~ToAdd(p, d, order) /\ Customer(p, order) = q.customer
      BY <1>6, <2>1 DEF ToAdd, Adding, Customer
    <3>2. ToReward(p, d, order, referral) <=> ToReward(q, d, order, referral)
      BY <1>3, <1>6, <2>0, <2>1, <3>1 DEF ToReward, Adding
    <3>. QED
      BY <2>0, <3>1, <3>2 DEF Coming
  <2>2. CASE ~First(q.order, q.customer, order)
    <3>1. ~ToReward(q, d, order, referral)
      BY <1>3, <2>0, <2>2 DEF ToReward, Adding
    <3>2. Coming(p, d, order, referral) = 0
      BY <1>6, <2>2, IdleOwes
    <3>. QED
      BY <2>0, <3>1, <3>2 DEF Coming
  <2>. QED
    BY <2>1, <2>2
<1>8. p.at # "write"
  BY <1>6
<1>9. \A d \in Customers : Points(d)' = Points(d)
  BY <1>5 DEF Points
<1>. QED
  BY <1>2, <1>3, <1>5, <1>7, <1>8, <1>9, ReadAddsUp

\* The referral is read: there is an inviter to reward, or nothing is owed.
LEMMA ReadReferralAddsUp ==
    ASSUME AddUpInv, IInv', NEW r \in Requests, ReadReferral(r)
    PROVE  AddUpInv'
<1>. USE LoyaltyAssumption DEF Before
<1>1. TypeOK /\ Prepared /\ request[r] \in Request
  BY DEF AddUpInv, IInv, TypeOK
<1>2. PICK q, row : q = request[r] /\ row = referral[q.customer]
  OBVIOUS
<1>3. /\ q \in Request /\ q.at = "referral" /\ q.customer \in Customers /\ q.for = None
      /\ row \in Referral
  BY <1>1, <1>2 DEF ReadReferral, Prepared, TypeOK
<1>4. PICK p : p = IF row = NoReferral \/ row.rewarded THEN Idle
                   ELSE [q EXCEPT !.at = "read", !.holder = row.inviter, !.for = q.customer]
  OBVIOUS
<1>5. /\ request'[r] = p
      /\ \A s \in Requests \ {r} : request'[s] = request[s]
      /\ UNCHANGED <<order, loyalty, referral, owed, disturbed>>
  BY <1>1, <1>2, <1>4, Goes DEF ReadReferral
<1>6. /\ row = NoReferral \/ row.rewarded => p.at = "idle"
      /\ row # NoReferral /\ ~row.rewarded =>
             p.at = "read" /\ p.holder = row.inviter /\ p.for = q.customer
  BY <1>3, <1>4 DEF Request, Idle
<1>7. ASSUME NEW d \in Customers
      PROVE  Coming(p, d, order, referral) = Coming(q, d, order, referral)
  <2>0. Customer(q, order) = q.customer /\ ~ToAdd(q, d, order)
    BY <1>3 DEF Customer, ToAdd, Adding
  <2>1. ToReward(q, d, order, referral) <=> row.inviter = d /\ ~row.rewarded
    BY <1>2, <1>3, <2>0 DEF ToReward, Adding
  <2>2. CASE row = NoReferral \/ row.rewarded
    <3>1. ~ToReward(q, d, order, referral)
      BY <2>1, <2>2 DEF NoReferral
    <3>2. Coming(p, d, order, referral) = 0
      BY <1>6, <2>2, IdleOwes
    <3>. QED
      BY <2>0, <3>1, <3>2 DEF Coming
  <2>3. CASE row # NoReferral /\ ~row.rewarded
    <3>0. p.for # None /\ p.at = "read" /\ p.holder = row.inviter
      BY <1>3, <1>6, <2>3
    <3>1. ~ToAdd(p, d, order)
      BY <3>0 DEF ToAdd
    <3>2. ToReward(p, d, order, referral) <=> row.inviter = d
      BY <3>0 DEF ToReward, Adding
    <3>. QED
      BY <2>0, <2>1, <2>3, <3>1, <3>2 DEF Coming
  <2>. QED
    BY <2>2, <2>3
<1>8. p.at # "write"
  BY <1>6
<1>9. \A d \in Customers : Points(d)' = Points(d)
  BY <1>5 DEF Points
<1>. QED
  BY <1>2, <1>3, <1>5, <1>7, <1>8, <1>9, ReadAddsUp

\* The points of the order are written.
LEMMA AwardPointsAddsUp ==
    ASSUME AddUpInv, IInv', NEW r \in Requests, AwardPoints(r)
    PROVE  AddUpInv'
<1>. USE LoyaltyAssumption DEF Before
<1>1. TypeOK /\ Prepared /\ request[r] \in Request
  BY DEF AddUpInv, IInv, TypeOK
<1>2. PICK q : q = request[r]
  OBVIOUS
<1>3. /\ q \in Request /\ q.at = "write" /\ q.holder \in Customers /\ q.for = None
      /\ q.customer \in Customers /\ Earns[q.order] \in Nat
  BY <1>1, <1>2 DEF AwardPoints, Prepared
<1>4. PICK p : p = [q EXCEPT !.at = "count"]
  OBVIOUS
<1>5. /\ request'[r] = p
      /\ \A s \in Requests \ {r} : request'[s] = request[s]
      /\ UNCHANGED <<order, referral, owed, disturbed>>
  BY <1>1, <1>2, <1>4, Goes DEF AwardPoints
<1>6. p.at = "count" /\ p.customer = q.customer /\ p.order = q.order /\ p.for = None
  BY <1>3, <1>4 DEF Request
<1>7. ASSUME NEW d \in Customers
      PROVE  Owes(d)'[r] + (IF d = q.holder THEN Earns[q.order] ELSE 0) = Owes(d)[r]
  <2>1. ~ToAdd(p, d, order) /\ (ToAdd(q, d, order) <=> d = q.holder)
    BY <1>3, <1>6 DEF ToAdd, Adding
  <2>2. ToReward(p, d, order, referral) <=> ToReward(q, d, order, referral)
    BY <1>3, <1>6 DEF ToReward, Customer, Adding
  <2>3. Coming(p, d, order, referral) + (IF d = q.holder THEN Earns[q.order] ELSE 0)
          = Coming(q, d, order, referral)
    BY <1>3, <1>6, <2>1, <2>2 DEF Coming
  <2>. QED
    BY <1>2, <1>5, <2>3 DEF Owes
<1>8. /\ loyalty[q.holder] # NoRow
      /\ loyalty' = [loyalty EXCEPT ![q.holder] = q.points + Earns[q.order]]
  BY <1>2 DEF AwardPoints
<1>. QED
  BY <1>2, <1>3, <1>5, <1>6, <1>7, <1>8, WriteAddsUp

\* The reward is written, and the referral marked.
LEMMA PayRewardAddsUp ==
    ASSUME AddUpInv, IInv', NEW r \in Requests, PayReward(r)
    PROVE  AddUpInv'
<1>. USE LoyaltyAssumption DEF Before
<1>1. TypeOK /\ Prepared /\ request[r] \in Request
  BY DEF AddUpInv, IInv, TypeOK
<1>2. PICK q : q = request[r]
  OBVIOUS
<1>3. /\ q \in Request /\ q.at = "write" /\ q.holder \in Customers /\ q.for # None
      /\ q.for \in Customers
  BY <1>1, <1>2 DEF PayReward, Prepared
<1>5. /\ request'[r] = Idle
      /\ \A s \in Requests \ {r} : request'[s] = request[s]
      /\ UNCHANGED <<order, owed, disturbed>>
  BY <1>1, Goes DEF PayReward
<1>6. \A c \in Customers : /\ referral'[c].inviter = referral[c].inviter
                           /\ referral[c].rewarded => referral'[c].rewarded
  BY <1>1, <1>2, <1>3 DEF PayReward, TypeOK, Referral
<1>7. ASSUME NEW d \in Customers
      PROVE  Owes(d)'[r] + (IF d = q.holder THEN Reward ELSE 0) = Owes(d)[r]
  <2>1. ~ToAdd(q, d, order)
    BY <1>3 DEF ToAdd
  <2>2. ToReward(q, d, order, referral) <=> d = q.holder
    BY <1>3 DEF ToReward, Adding
  <2>3. Coming(q, d, order, referral) = IF d = q.holder THEN Reward ELSE 0
    BY <2>1, <2>2 DEF Coming
  <2>4. Owes(d)'[r] = 0
    <3>1. PICK ref : ref = referral'
      OBVIOUS
    <3>2. Coming(Idle, d, order, ref) = 0
      BY IdleOwes DEF Idle
    <3>. QED
      BY <1>5, <3>1, <3>2 DEF Owes
  <2>. QED
    BY <1>2, <2>3, <2>4 DEF Owes
<1>8. /\ loyalty[q.holder] # NoRow
      /\ loyalty' = [loyalty EXCEPT ![q.holder] = q.points + Reward]
  BY <1>2 DEF PayReward
<1>9. Idle.at # "write"
  BY DEF Idle
<1>. QED
  BY <1>2, <1>3, <1>5, <1>6, <1>7, <1>8, <1>9, WriteAddsUp

\* A status request is checked or gives up, or writes over no delivery: nothing is summed anew.
LEMMA AsideAddsUp ==
    ASSUME AddUpInv, IInv', NEW r \in Requests, request[r].at \in Before,
           request'[r].at \in Before, \A s \in Requests \ {r} : request'[s] = request[s],
           UNCHANGED <<order, loyalty, referral, owed, disturbed>>
    PROVE  AddUpInv'
<1>1. Busy' = Busy /\ r \notin Busy
  BY DEF Busy
<1>2. ASSUME NEW c \in Customers PROVE Owes(c)' = Owes(c)
  <2>1. ASSUME NEW s \in Requests
        PROVE  Coming(request'[s], c, order, referral) = Coming(request[s], c, order, referral)
    <3>1. CASE s = r
      BY <3>1, IdleOwes
    <3>. QED
      BY <3>1
  <2>. QED
    BY <2>1 DEF Owes
<1>3. ASSUME NEW c \in Customers PROVE Known(c)' = Known(c) /\ Points(c)' = Points(c)
  <2>1. Points(c)' = Points(c)
    BY DEF Points
  <2>2. \A s \in Requests : \/ request'[s] = request[s]
                            \/ request'[s].at # "write" /\ request[s].at # "write"
    BY DEF Before
  <2>. QED
    BY <2>1, <2>2 DEF Known
<1>4. Regular' => Sums'
  BY <1>2, <1>3 DEF AddUpInv, Sums, Regular
<1>5. disturbed' = {} => Exact'
  BY <1>1, <1>2, <1>3 DEF AddUpInv, Exact, Busy
<1>. QED
  BY <1>4, <1>5 DEF AddUpInv

\* A handler dies: what it had still to add is not added.
LEMMA DieAddsUp ==
    ASSUME AddUpInv, IInv', NEW r \in Requests, Die(r)
    PROVE  AddUpInv'
<1>. USE DEF Before
<1>1. TypeOK
  BY DEF AddUpInv, IInv
<1>2. /\ request'[r] = Idle
      /\ \A s \in Requests \ {r} : request'[s] = request[s]
      /\ UNCHANGED <<order, loyalty, referral, owed>>
      /\ Regular' => Regular
  BY <1>1, Goes DEF Die, Note, Regular
<1>a. CASE r \notin Busy
  <2>1. /\ request[r].at \in Before /\ Idle.at \in Before
        /\ disturbed' = disturbed
    BY <1>a DEF Busy, Idle, Die, Note
  <2>. QED
    BY <1>2, <2>1, AsideAddsUp
<1>3. ASSUME NEW c \in Customers
      PROVE  \E g \in Nat :
               /\ Owes(c)'[r] + g = Owes(c)[r] + (owed'[c] - owed[c])
               /\ \A w \in Known(c)' : w \in Known(c) \/ \E v \in Known(c) : w = v + g
  <2>1. Owes(c)[r] \in Nat /\ owed[c] \in Nat
    BY SumTypes DEF AddUpInv
  <2>2. Owes(c)'[r] = 0
    <3>1. Coming(Idle, c, order, referral) = 0
      BY IdleOwes DEF Idle
    <3>. QED
      BY <1>2, <3>1 DEF Owes
  <2>3. Owes(c)'[r] + Owes(c)[r] = Owes(c)[r] + (owed'[c] - owed[c])
    BY <1>2, <2>1, <2>2
  <2>4. ASSUME NEW w \in Known(c)' PROVE w \in Known(c)
    <3>1. Points(c)' = Points(c)
      BY <1>2 DEF Points
    <3>2. CASE w # Points(c)
      <4>1. PICK s \in Requests : /\ request'[s].at = "write" /\ request'[s].holder = c
                                  /\ w = request'[s].points
        BY <2>4, <3>1, <3>2 DEF Known
      <4>2. s # r
        BY <1>2, <4>1 DEF Idle
      <4>. QED
        BY <1>2, <4>1, <4>2 DEF Known
    <3>. QED
      BY <3>2 DEF Known
  <2>. QED
    BY <2>1, <2>3, <2>4
<1>4. Regular' => Sums'
  BY <1>2, <1>3, StepSums
<1>5. CASE r \in Busy
  <2>1. disturbed' # {}
    BY <1>5 DEF Die, Note
  <2>. QED
    BY <1>4, <2>1 DEF AddUpInv
<1>. QED
  BY <1>a, <1>5

\* A delivery promises what its handler is then to add.
LEMMA DeliverAddsUp ==
    ASSUME AddUpInv, IInv', NEW r \in Requests, Deliver(r)
    PROVE  AddUpInv'
<1>. USE LoyaltyAssumption DEF Before
<1>r. SUFFICES ASSUME Regular' PROVE AddUpInv'
  BY IrregularAddsUp
<1>1. TypeOK /\ Prepared
  BY DEF AddUpInv, IInv
<1>o. PICK o \in Orders : o = request[r].order
  BY <1>1 DEF Deliver, Prepared
<1>n. Regular /\ ~order[o].delivered
  BY <1>o, <1>r, FreshWrite DEF Deliver, Note
<1>2. PICK p, ord, c : /\ p = [Idle EXCEPT !.at = "order", !.order = o]
                       /\ ord = order' /\ c = order[o].customer
  OBVIOUS
<1>3. p.at = "order" /\ p.order = o /\ p.for = None
  BY <1>2 DEF Idle
<1>4. /\ request[r].at = "deliver" /\ request'[r] = p
      /\ \A s \in Requests \ {r} : request'[s] = request[s]
      /\ UNCHANGED <<loyalty, referral>>
      /\ disturbed' = {} => disturbed = {} /\ Busy = {}
  BY <1>o, <1>1, <1>2, Goes DEF Deliver, Note, Beside
<1>5. /\ \A x \in Orders : ord[x].customer = order[x].customer
      /\ \A x \in Orders : order[x].delivered => ord[x].delivered
      /\ \A x \in Orders \ {o} : ord[x] = order[x]
      /\ ord[o].customer = c /\ c \in Customers \cup {None}
  <2>1. order' = [order EXCEPT ![o].delivered = TRUE]
    BY <1>o DEF Deliver
  <2>2. c \in Customers \cup {None}
    BY <1>1, <1>2 DEF TypeOK, Order
  <2>3. TRUE \in BOOLEAN
    OBVIOUS
  <2>. QED
    BY <1>1, <1>2, <1>n, <2>1, <2>2, <2>3, OrderWritten
<1>6. ASSUME NEW d \in Customers
      PROVE  /\ Owes(d)'[r] = owed'[d] - owed[d] /\ Owes(d)[r] = 0
             /\ owed[d] \in Nat /\ owed'[d] \in Nat
  <2>1. owed[d] \in Nat /\ owed'[d] \in Nat
    BY SumTypes, SumTypesNext DEF AddUpInv
  <2>2. owed'[d] = owed[d] + (IF d = c THEN Earns[o] ELSE 0)
                     + (IF /\ c # None /\ OtherDelivered(o, c) = {}
                           /\ referral[c].inviter = d /\ ~referral[c].rewarded
                        THEN Reward ELSE 0)
    BY <1>o, <1>2, <1>n DEF Deliver
  <2>3. ToAdd(p, d, ord) <=> d = c
    BY <1>3, <1>5 DEF ToAdd, Adding
  <2>4. First(o, c, ord) <=> OtherDelivered(o, c) = {}
    BY <1>5 DEF First, OtherDelivered
  <2>5. ToReward(p, d, ord, referral) <=>
            /\ c # None /\ OtherDelivered(o, c) = {}
            /\ referral[c].inviter = d /\ ~referral[c].rewarded
    <3>1. Customer(p, ord) = c
      BY <1>3, <1>5 DEF Customer
    <3>. QED
      BY <1>3, <2>4, <3>1 DEF ToReward, Adding
  <2>6. Coming(p, d, ord, referral) =
            (IF d = c THEN Earns[o] ELSE 0)
              + (IF /\ c # None /\ OtherDelivered(o, c) = {}
                    /\ referral[c].inviter = d /\ ~referral[c].rewarded
                 THEN Reward ELSE 0)
    BY <1>3, <2>3, <2>5 DEF Coming
  <2>7. Owes(d)'[r] = Coming(p, d, ord, referral)
    BY <1>2, <1>4 DEF Owes
  <2>8. Owes(d)[r] = 0
    BY <1>4, IdleOwes DEF Owes
  <2>9. (IF d = c THEN Earns[o] ELSE 0) \in Nat
    OBVIOUS
  <2>. QED
    BY <2>1, <2>2, <2>6, <2>7, <2>8, <2>9
<1>7. ASSUME NEW d \in Customers
      PROVE  \E g \in Nat :
               /\ Owes(d)'[r] + g = Owes(d)[r] + (owed'[d] - owed[d])
               /\ \A w \in Known(d)' : w \in Known(d) \/ \E v \in Known(d) : w = v + g
  <2>1. Owes(d)'[r] + 0 = Owes(d)[r] + (owed'[d] - owed[d])
    BY <1>6
  <2>2. ASSUME NEW w \in Known(d)' PROVE w \in Known(d)
    <3>1. Points(d)' = Points(d)
      BY <1>4 DEF Points
    <3>2. CASE w # Points(d)
      <4>1. PICK s \in Requests : /\ request'[s].at = "write" /\ request'[s].holder = d
                                  /\ w = request'[s].points
        BY <2>2, <3>1, <3>2 DEF Known
      <4>2. s # r
        BY <1>3, <1>4, <4>1
      <4>. QED
        BY <1>4, <4>1, <4>2 DEF Known
    <3>. QED
      BY <3>2 DEF Known
  <2>. QED
    BY <2>1, <2>2
<1>8. Sums'
  BY <1>2, <1>4, <1>5, <1>7, <1>n, StepSums
<1>9. ASSUME disturbed' = {} PROVE Exact'
  <2>1. Exact /\ Busy = {}
    BY <1>4, <1>9 DEF AddUpInv
  <2>2. Busy' = {r}
    BY <1>3, <1>4, <2>1 DEF Busy
  <2>3. ASSUME NEW d \in Customers PROVE Points(d)' + Owes(d)'[r] = owed'[d]
    <3>1. Points(d)' = owed[d]
      BY <1>4, <2>1 DEF Exact, Points
    <3>. QED
      BY <1>6, <3>1
  <2>. QED
    BY <1>3, <1>4, <2>2, <2>3 DEF Exact
<1>. QED
  BY <1>8, <1>9 DEF AddUpInv

\* The check of a status adds nothing.
LEMMA CheckAddsUp ==
    ASSUME AddUpInv, IInv', NEW r \in Requests, NEW o \in Orders,
           NEW write \in {"deliver", "other"}, CheckStatus(r, o, write)
    PROVE  AddUpInv'
<1>1. TypeOK
  BY DEF AddUpInv, IInv
<1>2. PICK q : q = [Idle EXCEPT !.at = write, !.order = o]
  OBVIOUS
<1>3. q.at \in Before /\ request[r].at \in Before
  BY <1>2 DEF CheckStatus, Idle, Before
<1>4. /\ request'[r] = q /\ \A s \in Requests \ {r} : request'[s] = request[s]
      /\ UNCHANGED <<order, loyalty, referral, owed, disturbed>>
  BY <1>1, <1>2, Goes DEF CheckStatus
<1>. QED
  BY <1>3, <1>4, AsideAddsUp

\* Nor does another status than DELIVERED, over no delivery.
LEMMA WriteOtherAddsUp ==
    ASSUME AddUpInv, IInv', NEW r \in Requests, WriteOther(r)
    PROVE  AddUpInv'
<1>r. SUFFICES ASSUME Regular' PROVE AddUpInv'
  BY IrregularAddsUp
<1>1. TypeOK /\ Prepared
  BY DEF AddUpInv, IInv
<1>o. PICK o \in Orders : o = request[r].order
  BY <1>1 DEF WriteOther, Prepared
<1>n. Regular /\ ~order[o].delivered /\ disturbed' = disturbed
  <2>1. disturbed' = disturbed \cup Stale(o) \cup {}
    BY <1>o DEF WriteOther, Note
  <2>2. Regular /\ ~order[o].delivered
    BY <1>r, <2>1, FreshWrite
  <2>. QED
    BY <2>1, <2>2 DEF Stale
<1>2. order' = order
  <2>1. PICK row : row = [order[o] EXCEPT !.delivered = FALSE]
    OBVIOUS
  <2>2. row = order[o]
    <3>1. order[o] \in Order /\ order[o].delivered = FALSE
      BY <1>1, <1>n DEF TypeOK, Order
    <3>. QED
      BY <2>1, <3>1 DEF Order
  <2>3. order' = [order EXCEPT ![o] = row]
    BY <1>o, <2>1 DEF WriteOther
  <2>. QED
    BY <1>1, <2>2, <2>3 DEF TypeOK
<1>3. /\ request'[r] = Idle /\ \A s \in Requests \ {r} : request'[s] = request[s]
      /\ UNCHANGED <<loyalty, referral, owed>>
  BY <1>1, Goes DEF WriteOther
<1>4. Idle.at \in Before /\ request[r].at \in Before
  BY DEF WriteOther, Idle, Before
<1>. QED
  BY <1>n, <1>2, <1>3, <1>4, AsideAddsUp

\* Nobody is in flight, and the points are the promises, or less if handlers met or died.
AtRest ==
    /\ Busy = {}
    /\ Regular => \A c \in Customers : Points(c) <= owed[c]
    /\ disturbed = {} => \A c \in Customers : Points(c) = owed[c]

\* Then there is nothing to sum.
LEMMA IdleAddsUp ==
    ASSUME IInv, AtRest
    PROVE  AddUpInv
<1>. USE DEF AtRest
<1>1. \A r \in Requests : request[r].at \in Before
  BY DEF Busy
<1>2. ASSUME NEW c \in Customers, NEW v \in Known(c), Points(c) <= owed[c]
      PROVE  Within(v, Owes(c), owed[c])
  <2>1. v = Points(c)
    BY <1>1, <1>2 DEF Known, Before
  <2>2. \A r \in Requests : Owes(c)[r] = 0
    BY <1>1, IdleOwes DEF Owes
  <2>3. v \in Int /\ owed[c] \in Int
    BY <2>1, SumTypes
  <2>. QED
    BY <1>2, <2>1, <2>2, <2>3, NothingComing
<1>3. Regular => Sums
  BY <1>2 DEF Sums
<1>4. disturbed = {} => Exact
  BY DEF Exact
<1>. QED
  BY <1>3, <1>4 DEF AddUpInv

\* The same of the next state.
LEMMA IdleAddsUpNext == IInv' /\ AtRest' => AddUpInv'
<1>1. IInv /\ AtRest => AddUpInv
  BY IdleAddsUp
<1>. QED
  BY <1>1, PTL

\* The invariant gives the property.
LEMMA AddUpBounds ==
    ASSUME AddUpInv
    PROVE  /\ Regular => \A c \in Customers : Points(c) <= owed[c]
           /\ disturbed = {} /\ Busy = {} => \A c \in Customers : Points(c) = owed[c]
<1>1. ASSUME Regular, NEW c \in Customers PROVE Points(c) <= owed[c]
  <2>1. Within(Points(c), Owes(c), owed[c])
    BY <1>1 DEF AddUpInv, Sums, Known
  <2>2. /\ Points(c) \in Int /\ owed[c] \in Int /\ Owes(c) \in [Requests -> Nat]
    BY SumTypes DEF AddUpInv
  <2>3. PICK v, b, F : v = Points(c) /\ b = owed[c] /\ F = Owes(c)
    OBVIOUS
  <2>4. v <= b
    BY <2>1, <2>2, <2>3, WithinBounds
  <2>. QED
    BY <2>3, <2>4
<1>. QED
  BY <1>1 DEF AddUpInv, Exact

\* A merge or a deletion beside no handler: who loses his points loses the promises with them.
LEMMA AccountsAddUp ==
    ASSUME AddUpInv, IInv', UNCHANGED request, Note(Beside("accounts")),
           \A c \in Customers : \/ loyalty'[c] = loyalty[c] /\ owed'[c] = owed[c]
                                \/ loyalty'[c] = NoRow /\ owed'[c] = 0
    PROVE  AddUpInv'
<1>1. disturbed = {} /\ Busy = {} => \A c \in Customers : Points(c) = owed[c]
  BY AddUpBounds
<1>2. Regular => \A c \in Customers : Points(c) <= owed[c]
  BY AddUpBounds
<1>3. \A c \in Customers : \/ Points(c)' = Points(c) /\ owed'[c] = owed[c]
                           \/ Points(c)' = 0 /\ owed'[c] = 0
  BY DEF Points
<1>4. CASE Busy = {}
  <2>1. Busy' = {} /\ disturbed' = disturbed
    BY <1>4 DEF Note, Beside, Busy
  <2>2. (Regular => \A c \in Customers : Points(c) <= owed[c])'
    BY <1>2, <1>3, <2>1 DEF Regular
  <2>3. (disturbed = {} => \A c \in Customers : Points(c) = owed[c])'
    BY <1>1, <1>3, <1>4, <2>1
  <2>. QED
    BY <2>1, <2>2, <2>3, IdleAddsUpNext DEF AtRest
<1>5. CASE Busy # {}
  <2>1. ~Regular'
    BY <1>5 DEF Note, Beside, Regular
  <2>. QED
    BY <2>1, IrregularAddsUp
<1>. QED
  BY <1>4, <1>5

\* Nobody has points and nothing is promised at first.
LEMMA InitAddUp == Init => AddUpInv
<1>. SUFFICES ASSUME Init PROVE AddUpInv
  OBVIOUS
<1>1. IInv
  BY InitIInv
<1>2. Busy = {} /\ \A c \in Customers : Points(c) = 0 /\ owed[c] = 0
  BY DEF Init, Busy, Idle, Points, Before
<1>. QED
  BY <1>1, <1>2, IdleAddsUp DEF AtRest

\* Every step keeps the sums.
LEMMA NextAddUp == AddUpInv /\ [Next]_vars => AddUpInv'
<1>. SUFFICES ASSUME AddUpInv, [Next]_vars PROVE AddUpInv'
  OBVIOUS
<1>0. IInv'
  BY NextIInv DEF AddUpInv
<1>1. ASSUME NEW r \in Requests, NEW o \in Orders, NEW write \in {"deliver", "other"},
             CheckStatus(r, o, write)
      PROVE  AddUpInv'
  BY <1>0, <1>1, CheckAddsUp
<1>2. ASSUME NEW r \in Requests, Handle(r) PROVE AddUpInv'
  BY <1>0, <1>2, DeliverAddsUp, WriteOtherAddsUp, ReadOrderAddsUp, ReadLoyaltyAddsUp, CreateLoyaltyAddsUp, AwardPointsAddsUp,
     CountPriorAddsUp, ReadReferralAddsUp, PayRewardAddsUp, DieAddsUp DEF Handle
<1>3. ASSUME NEW c \in Customers, NEW d \in Customers, Merge(c, d) PROVE AddUpInv'
  BY <1>0, <1>3, AccountsAddUp DEF Merge
<1>4. ASSUME NEW c \in Customers, Delete(c) PROVE AddUpInv'
  <2>1. \A d \in Customers : \/ loyalty'[d] = loyalty[d] /\ owed'[d] = owed[d]
                             \/ loyalty'[d] = NoRow /\ owed'[d] = 0
    BY <1>4 DEF Delete, AddUpInv, IInv, TypeOK
  <2>. QED
    BY <1>0, <1>4, <2>1, AccountsAddUp DEF Delete
<1>5. CASE UNCHANGED vars
  <2>1. UNCHANGED <<Busy, order, referral, request, owed, loyalty, disturbed>>
    BY <1>5 DEF vars, Busy
  <2>2. \A c \in Customers : Points(c)' = Points(c) /\ Owes(c)' = Owes(c) /\ Known(c)' = Known(c)
    BY <2>1 DEF Points, Owes, Known
  <2>. QED
    BY <1>0, <2>1, <2>2 DEF AddUpInv, Sums, Exact, Regular
<1>. QED
  BY <1>1, <1>2, <1>3, <1>4, <1>5 DEF Next

\* Nobody ever has more points than the deliveries promised, however the handlers of different
\* orders overlap and die, as long as no account is merged or deleted beside one and no status
\* request writes over a delivery it has not seen: two DELIVERED requests of one order both
\* award it.  And once handlers that ran alone are done, exactly those.
THEOREM LoyaltyAddsUp == Spec => []PointsAddUp
<1>1. AddUpInv => PointsAddUp
  BY AddUpBounds DEF PointsAddUp, Points
<1>. QED
  BY InitAddUp, NextAddUp, <1>1, PTL DEF Spec

=============================================================================
