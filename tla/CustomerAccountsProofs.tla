----------------------- MODULE CustomerAccountsProofs -----------------------
(***************************************************************************)
(* Proofs about CustomerAccounts, for any sets of rows, phones, Google     *)
(* accounts and request slots: the types under every interleaving, and     *)
(* the rest when one request is served at a time (Overlap = FALSE).  A     *)
(* request may die at any step.                                            *)
(***************************************************************************)
EXTENDS CustomerAccounts, TLAPS

\* What the phase of a request says of the rows it names.
SlotOK(q) ==
    /\ q.phase \in {"googleUpdate", "findOther", "readMerge", "merge", "block",
                    "assertCanOrder", "readDelete", "delete", "complete"} => q.who \in Customers
    /\ q.phase \in {"readMerge", "merge", "setPhone"} => q.target \in Customers
    /\ q.phase \in {"readMerge", "merge"} => q.target # q.who
    /\ q.phase \in {"readDelete", "delete", "complete"} => q.request \in Deletions

RequestsOK == \A r \in Requests : SlotOK(req[r])

\* The inductive invariant of every interleaving.
AccountInv == TypeOK /\ RequestsOK

-----------------------------------------------------------------------------
(* Typing *)

LEMMA IdleTyped == Idle \in Request /\ SlotOK(Idle)
  BY DEF Idle, Request, NoCustomer, CustomerRow, SlotOK

LEMMA InitAccountInv == Init => AccountInv
  <1> SUFFICES ASSUME Init  PROVE AccountInv
    OBVIOUS
  <1>1. NoCustomer \in CustomerRow /\ NoOrder \in OrderRow /\ NoDeletion \in DeletionRow
    BY DEF NoCustomer, CustomerRow, NoOrder, OrderRow, NoDeletion, DeletionRow
  <1>2. TypeOK
    BY <1>1, IdleTyped DEF Init, TypeOK
  <1>3. RequestsOK
    BY IdleTyped DEF Init, RequestsOK
  <1> QED
    BY <1>2, <1>3 DEF AccountInv

\* A slot that takes a typed request is all that changes of req.
LEMMA SlotWritten ==
  ASSUME AccountInv, NEW r \in Requests, NEW q \in Request, SlotOK(q),
         req' = [req EXCEPT ![r] = q]
  PROVE  (req' \in [Requests -> Request]) /\ RequestsOK'
  BY DEF AccountInv, TypeOK, RequestsOK

LEMMA FinishTyped ==
  ASSUME AccountInv, NEW r \in Requests, Finish(r)
  PROVE  (req' \in [Requests -> Request]) /\ RequestsOK'
  BY IdleTyped, SlotWritten DEF Finish

LEMMA RowTyped ==
  ASSUME TypeOK, NEW c \in Customers
  PROVE  /\ customer[c] \in CustomerRow
         /\ customer[c].phone \in Phones \cup {None, Scrubbed}
         /\ customer[c].google \in Googles \cup {None}
         /\ customer[c].email \in Googles \cup {None}
  BY DEF TypeOK, CustomerRow

LEMMA RequestTyped ==
  ASSUME TypeOK, NEW r \in Requests
  PROVE  /\ req[r] \in Request
         /\ req[r].who \in Customers \cup {None}
         /\ req[r].target \in Customers \cup {None}
         /\ req[r].phone \in Phones \cup {None}
         /\ req[r].google \in Googles \cup {None}
         /\ req[r].flag \in BOOLEAN
         /\ req[r].request \in Deletions \cup {None}
         /\ req[r].source \in CustomerRow /\ req[r].into \in CustomerRow
  BY DEF TypeOK, Request

LEMMA CreateTyped ==
  ASSUME TypeOK, NEW phone \in Phones \cup {None}, NEW google \in Googles \cup {None},
         NEW email \in Googles \cup {None}, Create(phone, google, email)
  PROVE  customer' \in [Customers -> CustomerRow]
  BY DEF TypeOK, Create, CustomerRow

LEMMA LiveTyped ==
  ASSUME NEW field, NEW v
  PROVE  LiveWith(field, v) \subseteq Live /\ Live \subseteq Customers
  BY DEF LiveWith, Live

\* A request just begun or moved on, as a record with some fields replaced.
LEMMA BeginTyped ==
  ASSUME AccountInv, NEW r \in Requests, NEW phase, NEW q \in Request,
         q.phase = phase, SlotOK(q), req' = [req EXCEPT ![r] = q],
         UNCHANGED <<rows, broken>>
  PROVE  AccountInv'
  BY SlotWritten DEF AccountInv, TypeOK, rows

\* Register, Google sign-in and their writes.
LEMMA FoundTyped ==
  ASSUME AccountInv, NEW r \in Requests, NEW found \in SUBSET Customers,
         NEW g \in Googles \cup {None}, NEW otherwise \in {"byEmail", "googleCreate"},
         Found(r, found, g, otherwise), UNCHANGED <<rows, broken>>
  PROVE  AccountInv'
  <1>1. CASE found = {}
    <2> DEFINE q == [Idle EXCEPT !.phase = otherwise, !.google = g]
    <2>1. q \in Request /\ SlotOK(q)
      BY DEF Idle, Request, NoCustomer, CustomerRow, SlotOK
    <2> QED
      BY <1>1, <2>1, BeginTyped DEF Found
  <1>2. ASSUME NEW c \in found,
               req' = [req EXCEPT ![r] = [Idle EXCEPT !.phase = "googleUpdate", !.who = c,
                                                      !.google = g]]
        PROVE  AccountInv'
    <2> DEFINE q == [Idle EXCEPT !.phase = "googleUpdate", !.who = c, !.google = g]
    <2>1. q \in Request /\ SlotOK(q)
      BY DEF Idle, Request, NoCustomer, CustomerRow, SlotOK
    <2> QED
      BY <1>2, <2>1, BeginTyped
  <1>3. CASE Finish(r)
    BY <1>3, IdleTyped, BeginTyped DEF Finish
  <1> QED
    BY <1>1, <1>2, <1>3 DEF Found

LEMMA ArriveTyped ==
  ASSUME AccountInv, NEW r \in Requests, Arrive(r)
  PROVE  AccountInv'
  <1>1. ASSUME NEW p \in Phones, NEW email \in Googles \cup {None}, StartRegister(r, p, email)
        PROVE  AccountInv'
    <2> DEFINE q == [Idle EXCEPT !.phase = "insert", !.phone = p, !.google = email]
    <2>1. q \in Request /\ SlotOK(q)
      BY DEF Idle, Request, NoCustomer, CustomerRow, SlotOK
    <2> QED
      BY <1>1, <2>1, BeginTyped DEF StartRegister
  <1>2. ASSUME NEW p \in Phones, NEW c \in Customers, StartProfile(r, c, p)
        PROVE  AccountInv'
    <2> DEFINE q == [Idle EXCEPT !.phase = "findOther", !.who = c, !.phone = p]
    <2>1. q \in Request /\ SlotOK(q)
      BY DEF Idle, Request, NoCustomer, CustomerRow, SlotOK
    <2> QED
      BY <1>2, <2>1, BeginTyped DEF StartProfile
  <1>3. ASSUME NEW p \in Phones, NEW named \in BOOLEAN, StartOrder(r, p, named)
        PROVE  AccountInv'
    <2>1. PICK c \in Customers \cup {None} :
             /\ named => c \in Customers
             /\ req' = [req EXCEPT ![r] =
                          [Idle EXCEPT !.phase = IF named THEN "assertCanOrder" ELSE "place",
                                       !.who = c, !.phone = p]]
      BY <1>3, LiveTyped DEF StartOrder
    <2> DEFINE q == [Idle EXCEPT !.phase = IF named THEN "assertCanOrder" ELSE "place",
                                 !.who = c, !.phone = p]
    <2>2. q \in Request /\ SlotOK(q)
      BY <2>1 DEF Idle, Request, NoCustomer, CustomerRow, SlotOK
    <2> QED
      BY <1>3, <2>1, <2>2, BeginTyped DEF StartOrder
  <1>4. ASSUME NEW p \in Phones, StartDeletion(r, p)
        PROVE  AccountInv'
    <2>1. PICK c \in Customers \cup {None} :
             req' = [req EXCEPT ![r] = [Idle EXCEPT !.phase = "record", !.who = c, !.phone = p]]
      BY <1>4, LiveTyped DEF StartDeletion
    <2> DEFINE q == [Idle EXCEPT !.phase = "record", !.who = c, !.phone = p]
    <2>2. q \in Request /\ SlotOK(q)
      BY DEF Idle, Request, NoCustomer, CustomerRow, SlotOK
    <2> QED
      BY <1>4, <2>1, <2>2, BeginTyped DEF StartDeletion
  <1>5. ASSUME NEW g \in Googles, FindByGoogle(r, g)  PROVE AccountInv'
    BY <1>5, FoundTyped, LiveTyped DEF FindByGoogle
  <1>6. ASSUME NEW c \in Customers, NEW active \in BOOLEAN, StartBlock(r, c, active)
        PROVE  AccountInv'
    <2> DEFINE q == [Idle EXCEPT !.phase = "block", !.who = c, !.flag = active]
    <2>1. q \in Request /\ SlotOK(q)
      BY DEF Idle, Request, NoCustomer, CustomerRow, SlotOK
    <2> QED
      BY <1>6, <2>1, BeginTyped DEF StartBlock
  <1> QED
    BY <1>1, <1>2, <1>3, <1>4, <1>5, <1>6 DEF Arrive

\* A step of slot r that keeps the request but for its phase and what it has read.
LEMMA AdvanceTyped ==
  ASSUME AccountInv, NEW r \in Requests, NEW q \in Request, SlotOK(q),
         req' = [req EXCEPT ![r] = q] \/ Finish(r),
         customer' \in [Customers -> CustomerRow], order' \in [Orders -> OrderRow],
         deletion' \in [Deletions -> DeletionRow], broken' \in BOOLEAN
  PROVE  AccountInv'
  BY SlotWritten, FinishTyped DEF AccountInv, TypeOK

LEMMA GotoTyped ==
  ASSUME AccountInv, NEW r \in Requests,
         NEW phase \in {"setPhone", "place", "complete"}, Goto(r, phase),
         phase = "setPhone" => req[r].target \in Customers,
         phase = "complete" => req[r].who \in Customers /\ req[r].request \in Deletions
  PROVE  \E q \in Request : SlotOK(q) /\ req' = [req EXCEPT ![r] = q]
  <1> DEFINE q == [req[r] EXCEPT !.phase = phase]
  <1>1. req[r] \in Request
    BY DEF AccountInv, TypeOK
  <1>2. q \in Request /\ q.phase = phase /\ q.who = req[r].who /\ q.target = req[r].target
        /\ q.request = req[r].request
    BY <1>1 DEF Request
  <1>3. req' = [req EXCEPT ![r] = q]
    BY DEF Goto
  <1>4. SlotOK(q)
    BY <1>2 DEF SlotOK
  <1> HIDE DEF q
  <1> QED
    BY <1>2, <1>3, <1>4

LEMMA OrdersTyped ==
  ASSUME TypeOK, NEW c \in Customers, NEW d \in Customers, NEW phone
  PROVE  /\ MergeOrders(c, d, phone) \in [Orders -> OrderRow]
         /\ Anonymize(c, phone) \in [Orders -> OrderRow]
  <1>1. \A o \in Orders : /\ [order[o] EXCEPT !.owner = d] \in OrderRow
                          /\ [order[o] EXCEPT !.owner = None, !.phone = Scrubbed] \in OrderRow
                          /\ order[o] \in OrderRow
    BY DEF TypeOK, OrderRow
  <1> QED
    BY <1>1 DEF MergeOrders, Anonymize

\* The rows that a merge leaves of its two customers.
Enriched(row, patch) ==
    [row EXCEPT !.phone = IF patch["phone"] = None THEN @ ELSE patch["phone"],
                !.google = IF patch["google"] = None THEN @ ELSE patch["google"],
                !.email = IF patch["email"] = None THEN @ ELSE patch["email"]]

Refused(q) ==
    \E f \in {"phone", "google"} : Taken(f, Patch(q.into, q.source)[f], q.target)

LEMMA MergeWrites ==
  ASSUME TypeOK, NEW r \in Requests, Merge(r), ~Refused(req[r]),
         NEW c \in Customers, NEW d \in Customers, c = req[r].who, d = req[r].target, c # d
  PROVE  /\ customer' = [customer EXCEPT
                            ![d] = Enriched(customer[d], Patch(req[r].into, req[r].source)),
                            ![c] = Retire(customer[c], req[r].source.phone)]
         /\ order' = MergeOrders(c, d, req[r].source.phone)
         /\ Goto(r, "setPhone")
         /\ UNCHANGED <<deletion, broken>>
  <1> DEFINE q == req[r]
             patch == Patch(q.into, q.source)
  <1>1. /\ customer' = [customer EXCEPT
              ![d].phone = IF patch["phone"] = None THEN @ ELSE patch["phone"],
              ![d].google = IF patch["google"] = None THEN @ ELSE patch["google"],
              ![d].email = IF patch["email"] = None THEN @ ELSE patch["email"],
              ![c] = Retire(@, q.source.phone)]
        /\ order' = MergeOrders(c, d, q.source.phone)
        /\ Goto(r, "setPhone")
        /\ UNCHANGED <<deletion, broken>>
    BY DEF Merge, Refused
  <1> HIDE DEF patch
  <1>2. customer' = [customer EXCEPT ![d] = Enriched(customer[d], patch),
                                     ![c] = Retire(customer[c], q.source.phone)]
    BY <1>1 DEF Enriched, TypeOK
  <1> QED
    BY <1>1, <1>2 DEF patch

LEMMA MergeTyped ==
  ASSUME TypeOK, NEW row \in CustomerRow, NEW into \in CustomerRow, NEW source \in CustomerRow
  PROVE  /\ Enriched(row, Patch(into, source)) \in CustomerRow
         /\ Retire(row, source.phone) \in CustomerRow
  <1> DEFINE patch == Patch(into, source)
  <1>1. /\ patch["phone"] \in Phones \cup {None, Scrubbed}
        /\ patch["google"] \in Googles \cup {None} /\ patch["email"] \in Googles \cup {None}
    BY DEF Patch, CustomerRow
  <1>2. Enriched(row, patch) \in CustomerRow
    <2> HIDE DEF patch
    <2> QED
      BY <1>1, ZenonT(60) DEF Enriched, CustomerRow
  <1>3. Retire(row, source.phone) \in CustomerRow
    BY ZenonT(60) DEF Retire, CustomerRow
  <1> QED
    BY <1>2, <1>3

LEMMA ContinueTyped ==
  ASSUME AccountInv, NEW r \in Requests, Continue(r)
  PROVE  AccountInv'
  <1> DEFINE q == req[r]
  <1>1. /\ TypeOK /\ SlotOK(q) /\ q \in Request
        /\ q.who \in Customers \cup {None} /\ q.target \in Customers \cup {None}
        /\ q.phone \in Phones \cup {None} /\ q.google \in Googles \cup {None}
        /\ q.flag \in BOOLEAN /\ q.source \in CustomerRow /\ q.into \in CustomerRow
    BY RequestTyped DEF AccountInv, RequestsOK
  <1>2. /\ customer \in [Customers -> CustomerRow] /\ order \in [Orders -> OrderRow]
        /\ deletion \in [Deletions -> DeletionRow] /\ broken \in BOOLEAN
    BY <1>1 DEF TypeOK
  <1>3. CASE Register(r) \/ CreateFromGoogle(r)
    <2>1. customer' \in [Customers -> CustomerRow]
      BY <1>1, <1>2, <1>3, CreateTyped DEF Register, CreateFromGoogle
    <2> QED
      BY <1>2, <1>3, <2>1, IdleTyped, AdvanceTyped DEF Register, CreateFromGoogle
  <1>4. CASE FindByEmail(r)
    BY <1>1, <1>4, FoundTyped, LiveTyped DEF FindByEmail
  <1>5. CASE UpdateFromGoogle(r)
    <2>1. q.who \in Customers
      BY <1>1, <1>5 DEF UpdateFromGoogle, SlotOK
    <2>2. customer' \in [Customers -> CustomerRow]
      BY <1>1, <1>2, <1>5, <2>1 DEF UpdateFromGoogle, CustomerRow
    <2> QED
      BY <1>2, <1>5, <2>2, IdleTyped, AdvanceTyped DEF UpdateFromGoogle
  <1>6. CASE FindOther(r)
    <2>1. PICK p \in {"setPhone", "readMerge"}, t \in Customers :
             /\ p = "readMerge" => t # q.who
             /\ req' = [req EXCEPT ![r].phase = p, ![r].target = t]
      BY <1>1, <1>6, LiveTyped DEF FindOther, SlotOK
    <2> DEFINE n == [q EXCEPT !.phase = p, !.target = t]
    <2>2. /\ n \in Request /\ n.phase = p /\ n.target = t /\ n.who = q.who
      BY <1>1 DEF Request
    <2>3. req' = [req EXCEPT ![r] = n]
      BY <2>1
    <2>4. SlotOK(n)
      BY <1>1, <1>6, <2>1, <2>2 DEF SlotOK, FindOther
    <2> HIDE DEF n
    <2> QED
      BY <1>6, <2>2, <2>3, <2>4, BeginTyped DEF FindOther
  <1>7. CASE ReadForMerge(r)
    <2>1. CASE Goto(r, "setPhone")
      <3>1. q.target \in Customers
        BY <1>1, <1>7 DEF SlotOK, ReadForMerge
      <3> QED
        BY <1>2, <1>7, <2>1, <3>1, GotoTyped, AdvanceTyped DEF ReadForMerge, rows
    <2>2. CASE req' = [req EXCEPT ![r].phase = "merge", ![r].source = customer[q.who],
                                  ![r].into = customer[q.target]]
      <3> DEFINE n == [q EXCEPT !.phase = "merge", !.source = customer[q.who],
                                !.into = customer[q.target]]
      <3>1. q.who \in Customers /\ q.target \in Customers /\ q.target # q.who
        BY <1>1, <1>7 DEF SlotOK, ReadForMerge
      <3>2. n \in Request /\ n.phase = "merge" /\ n.target = q.target /\ n.who = q.who
        BY <1>1, <3>1, RowTyped DEF Request
      <3>3. req' = [req EXCEPT ![r] = n]
        BY <2>2
      <3>4. SlotOK(n)
        BY <3>1, <3>2 DEF SlotOK
      <3> HIDE DEF n
      <3> QED
        BY <1>7, <3>2, <3>3, <3>4, BeginTyped DEF ReadForMerge
    <2> QED
      BY <1>7, <2>1, <2>2 DEF ReadForMerge
  <1>8. CASE Merge(r)
    <2>1. CASE Refused(q)
      BY <1>2, <1>8, <2>1, IdleTyped, AdvanceTyped DEF Merge, Refused
    <2>2. CASE ~Refused(q)
      <3>1. q.who \in Customers /\ q.target \in Customers /\ q.who # q.target
        BY <1>1, <1>8 DEF SlotOK, Merge
      <3>2. /\ customer' = [customer EXCEPT
                               ![q.target] = Enriched(customer[q.target], Patch(q.into, q.source)),
                               ![q.who] = Retire(customer[q.who], q.source.phone)]
            /\ order' = MergeOrders(q.who, q.target, q.source.phone)
            /\ Goto(r, "setPhone")
            /\ UNCHANGED <<deletion, broken>>
        BY <1>1, <1>8, <2>2, <3>1, MergeWrites
      <3>3. customer' \in [Customers -> CustomerRow]
        <4>1. /\ Enriched(customer[q.target], Patch(q.into, q.source)) \in CustomerRow
              /\ Retire(customer[q.who], q.source.phone) \in CustomerRow
          BY <1>1, <3>1, RowTyped, MergeTyped
        <4> QED
          BY <1>2, <3>1, <3>2, <4>1
      <3>4. order' \in [Orders -> OrderRow]
        BY <1>1, <3>1, <3>2, OrdersTyped
      <3> QED
        BY <1>2, <3>1, <3>2, <3>3, <3>4, GotoTyped, AdvanceTyped
    <2> QED
      BY <2>1, <2>2
  <1>9. CASE SetPhone(r)
    <2>1. q.target \in Customers
      BY <1>1, <1>9 DEF SetPhone, SlotOK
    <2>2. customer' \in [Customers -> CustomerRow]
      BY <1>1, <1>2, <1>9, <2>1 DEF SetPhone, CustomerRow
    <2> QED
      BY <1>2, <1>9, <2>2, IdleTyped, AdvanceTyped DEF SetPhone
  <1>10. CASE Block(r)
    <2>1. q.who \in Customers
      BY <1>1, <1>10 DEF Block, SlotOK
    <2>2. customer' \in [Customers -> CustomerRow]
      BY <1>1, <1>2, <1>10, <2>1 DEF Block, CustomerRow
    <2> QED
      BY <1>2, <1>10, <2>2, IdleTyped, AdvanceTyped DEF Block
  <1>11. CASE AssertCanOrder(r)
    BY <1>2, <1>11, IdleTyped, GotoTyped, AdvanceTyped DEF AssertCanOrder, rows
  <1>12. CASE PlaceOrder(r)
    <2>1. order' \in [Orders -> OrderRow]
      BY <1>1, <1>2, <1>12 DEF PlaceOrder, OrderRow
    <2> QED
      BY <1>2, <1>12, <2>1, IdleTyped, AdvanceTyped DEF PlaceOrder
  <1>13. CASE RecordDeletion(r)
    <2>1. PICK d \in Deletions :
             /\ deletion' = [deletion EXCEPT ![d] =
                   [status |-> IF q.who = None THEN "FAILED" ELSE "PROCESSING",
                    user |-> q.who]]
             /\ IF q.who = None THEN Finish(r)
                ELSE req' = [req EXCEPT ![r].phase = "readDelete", ![r].request = d]
      BY <1>13 DEF RecordDeletion
    <2>2. deletion' \in [Deletions -> DeletionRow]
      BY <1>1, <1>2, <2>1 DEF DeletionRow
    <2>3. CASE Finish(r)
      BY <1>2, <1>13, <2>2, <2>3, IdleTyped, AdvanceTyped DEF RecordDeletion
    <2>4. CASE q.who # None
      <3> DEFINE n == [q EXCEPT !.phase = "readDelete", !.request = d]
      <3>1. n \in Request /\ n.phase = "readDelete" /\ n.request = d /\ n.who = q.who
        BY <1>1 DEF Request
      <3>2. req' = [req EXCEPT ![r] = n]
        BY <2>1, <2>4
      <3>3. SlotOK(n)
        BY <1>1, <2>4, <3>1 DEF SlotOK
      <3> HIDE DEF n
      <3> QED
        BY <1>2, <1>13, <2>2, <3>1, <3>2, <3>3, AdvanceTyped DEF RecordDeletion
    <2> QED
      BY <2>1, <2>3, <2>4
  <1>14. CASE ReadForDelete(r)
    <2>1. CASE Finish(r)
      BY <1>2, <1>14, <2>1, IdleTyped, AdvanceTyped DEF ReadForDelete, rows
    <2>2. CASE req' = [req EXCEPT ![r].phase = "delete", ![r].source = customer[q.who]]
      <3> DEFINE n == [q EXCEPT !.phase = "delete", !.source = customer[q.who]]
      <3>1. q.who \in Customers /\ q.request \in Deletions
        BY <1>1, <1>14 DEF SlotOK, ReadForDelete
      <3>2. n \in Request /\ n.phase = "delete" /\ n.request = q.request /\ n.who = q.who
        BY <1>1, <3>1, RowTyped DEF Request
      <3>3. req' = [req EXCEPT ![r] = n]
        BY <2>2
      <3>4. SlotOK(n)
        BY <3>1, <3>2 DEF SlotOK
      <3> HIDE DEF n
      <3> QED
        BY <1>14, <3>2, <3>3, <3>4, BeginTyped DEF ReadForDelete
    <2> QED
      BY <1>14, <2>1, <2>2 DEF ReadForDelete
  <1>15. CASE DeleteAccount(r)
    <2>1. q.who \in Customers /\ q.request \in Deletions
      BY <1>1, <1>15 DEF SlotOK, DeleteAccount
    <2>2. customer' \in [Customers -> CustomerRow]
      BY <1>2, <1>15, <2>1 DEF DeleteAccount, CustomerRow
    <2>3. order' \in [Orders -> OrderRow]
      BY <1>1, <1>15, <2>1, OrdersTyped DEF DeleteAccount
    <2> QED
      BY <1>2, <1>15, <2>1, <2>2, <2>3, GotoTyped, AdvanceTyped DEF DeleteAccount
  <1>16. CASE CompleteDeletion(r)
    <2>1. deletion' \in [Deletions -> DeletionRow]
      BY <1>1, <1>2, <1>16 DEF CompleteDeletion, SlotOK, DeletionRow
    <2> QED
      BY <1>2, <1>16, <2>1, IdleTyped, AdvanceTyped DEF CompleteDeletion
  <1> QED
    BY <1>3, <1>4, <1>5, <1>6, <1>7, <1>8, <1>9, <1>10, <1>11, <1>12, <1>13, <1>14, <1>15,
       <1>16 DEF Continue

LEMMA FailTyped ==
  ASSUME AccountInv, NEW r \in Requests, Fail(r)
  PROVE  AccountInv'
  BY FinishTyped DEF Fail, AccountInv, TypeOK, rows

LEMMA AccountStep ==
  ASSUME AccountInv, [Next]_vars
  PROVE  AccountInv'
  <1>1. CASE Next
    BY <1>1, ArriveTyped, ContinueTyped, FailTyped DEF Next
  <1>2. CASE UNCHANGED vars
    BY <1>2 DEF vars, AccountInv, TypeOK, RequestsOK
  <1> QED
    BY <1>1, <1>2

LEMMA AccountInvariant == Spec => []AccountInv
  <1>1. AccountInv /\ [Next]_vars => AccountInv'
    BY AccountStep
  <1> QED
    BY <1>1, InitAccountInv, PTL DEF Spec

\* Every variable keeps its type, however requests of customers.service.ts,
\* google-auth.service.ts and account-deletion.service.ts overlap and die.
THEOREM AccountTypes == Spec => []TypeOK
  BY AccountInvariant, PTL DEF AccountInv

-----------------------------------------------------------------------------
(* One request at a time *)

AtMostOne ==
    \A r, s \in Requests : req[r].phase # "idle" /\ req[s].phase # "idle" => r = s

RowOK(row) ==
    /\ row.state = "dead" => row.phone \notin Phones
    /\ row.state = "live" => row.phone # Scrubbed

\* A customer that is gone with its identities.
Gone(c) == customer[c].state = "dead" /\ customer[c].google = None /\ customer[c].email = None

CustomersOK == \A c \in Customers : RowOK(customer[c])

OrdersOK ==
    /\ OrdersOwnedByLive
    /\ \A o \in Orders : ~order[o].placed => order[o].owner = None /\ order[o].phone = None

DeletionsOK ==
    \A d \in Deletions :
        /\ deletion[d].status \in {"PROCESSING", "COMPLETED"} => deletion[d].user \in Customers
        /\ deletion[d].status = "COMPLETED" => Gone(deletion[d].user)

Deleting == {"readDelete", "delete", "complete"}

\* A deletion in PROCESSING has a handler at work on it, unless one died.
PendingOK ==
    \A d \in Deletions :
        deletion[d].status = "PROCESSING" =>
            broken \/ \E r \in Requests : req[r].phase \in Deleting /\ req[r].request = d

RowsOK == CustomersOK /\ OrdersOK /\ DeletionsOK

\* What a handler found is still so at its next step.
SlotFresh(q) ==
    /\ q.phase \in {"googleUpdate", "findOther", "block", "readMerge", "merge",
                    "assertCanOrder", "readDelete", "delete"} => q.who \in Live
    /\ q.phase \in {"readMerge", "merge", "setPhone"} => q.target \in Live
    /\ q.phase \in {"place", "record"} => q.who \in Live \cup {None}
    /\ q.phase \in {"merge", "delete"} => q.source = customer[q.who]
    /\ q.phase \in Deleting => deletion[q.request].user = q.who
    /\ q.phase = "complete" => Gone(q.who)

\* The inductive invariant.
SerialInv ==
    /\ AccountInv
    /\ AtMostOne
    /\ RowsOK
    /\ PendingOK
    /\ \A r \in Requests : SlotFresh(req[r])

LEMMA InitSerialInv == Init => SerialInv
  BY InitAccountInv
  DEF Init, SerialInv, AtMostOne, RowsOK, CustomersOK, RowOK, OrdersOK, OrdersOwnedByLive,
      DeletionsOK, PendingOK, SlotFresh, Deleting, Idle, NoCustomer, NoOrder, NoDeletion

\* The slots other than the one that takes a step are idle.
LEMMA Alone ==
  ASSUME SerialInv, Overlap = FALSE, NEW r \in Requests,
         Arrive(r) \/ Continue(r) \/ Fail(r)
  PROVE  \A s \in Requests \ {r} : req[s].phase = "idle" /\ req'[s] = req[s]
  <1>1. \A s \in Requests \ {r} : req'[s] = req[s]
    BY DEF SerialInv, AccountInv, TypeOK, Arrive, StartRegister, StartProfile, StartOrder,
       StartDeletion, FindByGoogle, Found, StartBlock, Continue, Register, FindByEmail,
       UpdateFromGoogle, CreateFromGoogle, FindOther, ReadForMerge, Merge, SetPhone, Block,
       AssertCanOrder, PlaceOrder, RecordDeletion, ReadForDelete, DeleteAccount,
       CompleteDeletion, Fail, Goto, Finish
  <1>2. CASE Arrive(r)
    BY <1>1, <1>2 DEF Arrive, StartRegister, StartProfile, StartOrder, StartDeletion,
       FindByGoogle, StartBlock, Free, Quiet
  <1>3. CASE Continue(r) \/ Fail(r)
    <2>1. req[r].phase # "idle"
      BY <1>3 DEF Continue, Register, FindByEmail, UpdateFromGoogle, CreateFromGoogle,
         FindOther, ReadForMerge, Merge, SetPhone, Block, AssertCanOrder, PlaceOrder,
         RecordDeletion, ReadForDelete, DeleteAccount, CompleteDeletion, Fail
    <2> QED
      BY <1>1, <2>1 DEF SerialInv, AtMostOne
  <1> QED
    BY <1>2, <1>3

LEMMA SerialFrame ==
  ASSUME SerialInv, AccountInv', NEW r \in Requests,
         \A s \in Requests \ {r} : req[s].phase = "idle" /\ req'[s] = req[s],
         RowsOK', PendingOK', req'[r].phase # "idle" => SlotFresh(req[r])'
  PROVE  SerialInv'
  BY DEF SerialInv, AtMostOne, SlotFresh, Deleting

\* No deletion is pending but the one the slot is at work on.
LEMMA PendingFrame ==
  ASSUME SerialInv, NEW r \in Requests,
         \A s \in Requests \ {r} : req[s].phase = "idle",
         UNCHANGED deletion, broken => broken',
         req[r].phase \in Deleting =>
             broken' \/ (req'[r].phase \in Deleting /\ req'[r].request = req[r].request)
  PROVE  PendingOK'
  BY DEF SerialInv, PendingOK, Deleting

\* A step that writes customers alone, kills none and leaves the dead alone.
LEMMA RowsFrame ==
  ASSUME SerialInv, UNCHANGED <<order, deletion>>,
         \A c \in Customers : customer[c].state = "live" => customer'[c].state = "live",
         \A c \in Customers : customer[c].state = "dead" => customer'[c] = customer[c],
         \A c \in Customers : RowOK(customer'[c])
  PROVE  RowsOK' /\ NoOrderLeft
  <1>1. Live \subseteq Live'
    BY DEF Live
  <1>2. CustomersOK'
    BY DEF CustomersOK
  <1>3. OrdersOK'
    BY <1>1 DEF SerialInv, RowsOK, OrdersOK, OrdersOwnedByLive
  <1>4. DeletionsOK'
    BY DEF SerialInv, RowsOK, DeletionsOK, Gone
  <1>5. NoOrderLeft
    BY DEF NoOrderLeft, Live
  <1> QED
    BY <1>2, <1>3, <1>4, <1>5 DEF RowsOK

\* A step that writes no row.
LEMMA ReadFrame ==
  ASSUME SerialInv, UNCHANGED rows
  PROVE  RowsOK' /\ NoOrderLeft
  BY RowsFrame DEF rows, SerialInv, RowsOK, CustomersOK

\* What slot r brings to its next step.
LEMMA InHand ==
  ASSUME SerialInv, NEW r \in Requests
  PROVE  /\ TypeOK /\ SlotOK(req[r]) /\ SlotFresh(req[r]) /\ req[r] \in Request
         /\ req[r].phone \in Phones \cup {None} /\ req[r].google \in Googles \cup {None}
         /\ req[r].who \in Customers \cup {None}
         /\ Live \subseteq Customers
         /\ customer \in [Customers -> CustomerRow]
         /\ \A c \in Customers : RowOK(customer[c])
  BY RequestTyped DEF SerialInv, AccountInv, RequestsOK, RowsOK, CustomersOK, TypeOK, Live

\* A request that ends after a step that killed nobody.
LEMMA EndKeeps ==
  ASSUME SerialInv, AccountInv', NEW r \in Requests, Finish(r),
         \A s \in Requests \ {r} : req[s].phase = "idle" /\ req'[s] = req[s],
         UNCHANGED <<order, deletion>>, broken => broken',
         req[r].phase \in Deleting => broken',
         \A c \in Customers : customer[c].state = "live" => customer'[c].state = "live",
         \A c \in Customers : customer[c].state = "dead" => customer'[c] = customer[c],
         \A c \in Customers : RowOK(customer'[c])
  PROVE  SerialInv' /\ NoOrderLeft
  <1>1. req'[r].phase = "idle"
    BY DEF Finish, Idle, SerialInv, AccountInv, TypeOK
  <1>2. PendingOK'
    BY PendingFrame
  <1> QED
    BY <1>1, <1>2, RowsFrame, SerialFrame

\* A request that reads and goes on to phase q.phase.
LEMMA MoveKeeps ==
  ASSUME SerialInv, AccountInv', NEW r \in Requests, UNCHANGED <<rows, broken>>,
         \A s \in Requests \ {r} : req[s].phase = "idle" /\ req'[s] = req[s],
         req[r].phase \in Deleting =>
             req'[r].phase \in Deleting /\ req'[r].request = req[r].request,
         req'[r].phase # "idle" => SlotFresh(req'[r])
  PROVE  SerialInv' /\ NoOrderLeft
  <1>1. UNCHANGED <<customer, deletion>>
    BY DEF rows
  <1>2. req'[r].phase # "idle" => SlotFresh(req[r])'
    BY <1>1 DEF SlotFresh, Live, Gone
  <1>3. PendingOK'
    BY <1>1, PendingFrame
  <1> QED
    BY <1>2, <1>3, ReadFrame, SerialFrame

-----------------------------------------------------------------------------

LEMMA FoundKeeps ==
  ASSUME SerialInv, AccountInv', NEW r \in Requests, UNCHANGED <<rows, broken>>,
         \A s \in Requests \ {r} : req[s].phase = "idle" /\ req'[s] = req[s],
         req[r].phase \in {"idle", "byEmail"}, NEW field, NEW v, NEW g,
         NEW otherwise \in {"byEmail", "googleCreate"},
         Found(r, LiveWith(field, v), g, otherwise)
  PROVE  SerialInv' /\ NoOrderLeft
  <1>1. req \in [Requests -> Request]
    BY DEF SerialInv, AccountInv, TypeOK
  <1>2. \/ req'[r].phase \in {"idle", otherwise}
        \/ req'[r].phase = "googleUpdate" /\ req'[r].who \in Live
    <2>1. CASE LiveWith(field, v) = {}
      <3>1. req' = [req EXCEPT ![r] = [Idle EXCEPT !.phase = otherwise, !.google = g]]
        BY <2>1 DEF Found
      <3> QED
        BY <1>1, <3>1 DEF Idle
    <2>2. ASSUME NEW c \in Live,
                 req' = [req EXCEPT ![r] = [Idle EXCEPT !.phase = "googleUpdate", !.who = c,
                                                        !.google = g]]
          PROVE  req'[r].phase = "googleUpdate" /\ req'[r].who \in Live
      BY <1>1, <2>2 DEF Idle
    <2>3. CASE Finish(r)
      BY <1>1, <2>3 DEF Finish, Idle
    <2> QED
      BY <2>1, <2>2, <2>3, LiveTyped DEF Found
  <1>3. req'[r].phase # "idle" => SlotFresh(req'[r])
    BY <1>2 DEF SlotFresh, Deleting
  <1> QED
    BY <1>3, MoveKeeps DEF Deleting

LEMMA ArriveKeeps ==
  ASSUME SerialInv, AccountInv', Overlap = FALSE, NEW r \in Requests, Arrive(r)
  PROVE  SerialInv' /\ NoOrderLeft
  <1>1. \A s \in Requests \ {r} : req[s].phase = "idle" /\ req'[s] = req[s]
    BY Alone
  <1>2. req \in [Requests -> Request]
    BY DEF SerialInv, AccountInv, TypeOK
  <1>3. req[r].phase = "idle" /\ UNCHANGED <<rows, broken>>
    BY DEF Arrive, StartRegister, StartProfile, StartOrder, StartDeletion, FindByGoogle,
       StartBlock, Free
  <1>4. ASSUME NEW g \in Googles, FindByGoogle(r, g)  PROVE SerialInv' /\ NoOrderLeft
    BY <1>1, <1>3, <1>4, FoundKeeps DEF FindByGoogle
  <1>5. ASSUME req'[r].phase # "idle" => SlotFresh(req'[r])
        PROVE  SerialInv' /\ NoOrderLeft
    BY <1>1, <1>3, <1>5, MoveKeeps DEF Deleting
  <1>6. ASSUME NEW p \in Phones, NEW email \in Googles \cup {None}, StartRegister(r, p, email)
        PROVE  SlotFresh(req'[r])
    <2>1. req'[r].phase = "insert"
      BY <1>2, <1>6 DEF StartRegister, Idle
    <2> QED
      BY <2>1 DEF SlotFresh, Deleting
  <1>7. ASSUME NEW p \in Phones, NEW c \in Customers, StartProfile(r, c, p)
        PROVE  SlotFresh(req'[r])
    <2>1. req'[r].phase = "findOther" /\ req'[r].who = c
      BY <1>2, <1>7 DEF StartProfile, Idle
    <2> QED
      BY <1>7, <2>1 DEF SlotFresh, Deleting, StartProfile
  <1>8. ASSUME NEW p \in Phones, NEW named \in BOOLEAN, StartOrder(r, p, named)
        PROVE  SlotFresh(req'[r])
    <2>1. PICK c \in Live \cup {None} :
             /\ named => c \in Live
             /\ req' = [req EXCEPT ![r] =
                          [Idle EXCEPT !.phase = IF named THEN "assertCanOrder" ELSE "place",
                                       !.who = c, !.phone = p]]
      BY <1>8, LiveTyped DEF StartOrder
    <2>2. /\ req'[r].phase = IF named THEN "assertCanOrder" ELSE "place"
          /\ req'[r].who = c
      BY <1>2, <2>1 DEF Idle
    <2> QED
      BY <2>1, <2>2 DEF SlotFresh, Deleting
  <1>9. ASSUME NEW p \in Phones, StartDeletion(r, p)  PROVE SlotFresh(req'[r])
    <2>1. PICK c \in Live \cup {None} :
             req' = [req EXCEPT ![r] = [Idle EXCEPT !.phase = "record", !.who = c, !.phone = p]]
      BY <1>9, LiveTyped DEF StartDeletion
    <2>2. req'[r].phase = "record" /\ req'[r].who = c
      BY <1>2, <2>1 DEF Idle
    <2> QED
      BY <2>2 DEF SlotFresh, Deleting
  <1>10. ASSUME NEW c \in Customers, NEW active \in BOOLEAN, StartBlock(r, c, active)
         PROVE  SlotFresh(req'[r])
    <2>1. req'[r].phase = "block" /\ req'[r].who = c
      BY <1>2, <1>10 DEF StartBlock, Idle
    <2> QED
      BY <1>10, <2>1 DEF SlotFresh, Deleting, StartBlock
  <1> QED
    BY <1>4, <1>5, <1>6, <1>7, <1>8, <1>9, <1>10 DEF Arrive

LEMMA FailKeeps ==
  ASSUME SerialInv, AccountInv', Overlap = FALSE, NEW r \in Requests, Fail(r)
  PROVE  SerialInv' /\ NoOrderLeft
  <1>1. \A s \in Requests \ {r} : req[s].phase = "idle" /\ req'[s] = req[s]
    BY Alone
  <1>2. UNCHANGED <<customer, order, deletion>> /\ broken' /\ Finish(r)
    BY DEF Fail, rows
  <1> QED
    BY <1>1, <1>2, InHand, EndKeeps

\* register and the first sign-in with Google make a customer of a row that was not one.
LEMMA CreateKeeps ==
  ASSUME SerialInv, AccountInv', NEW r \in Requests,
         \A s \in Requests \ {r} : req[s].phase = "idle" /\ req'[s] = req[s],
         Register(r) \/ CreateFromGoogle(r)
  PROVE  SerialInv' /\ NoOrderLeft
  <1>1. /\ Finish(r) /\ UNCHANGED <<order, deletion, broken>> /\ req[r].phase \notin Deleting
    BY DEF Register, CreateFromGoogle, Deleting
  <1>2. CASE UNCHANGED customer
    BY <1>1, <1>2, InHand, EndKeeps
  <1>3. ASSUME NEW phone \in Phones \cup {None}, NEW google, NEW email,
               Create(phone, google, email)
        PROVE  SerialInv' /\ NoOrderLeft
    <2>1. PICK c \in Customers :
             /\ customer[c].state = "absent"
             /\ customer' = [customer EXCEPT ![c] =
                                [state |-> "live", active |-> TRUE, phone |-> phone,
                                 google |-> google, email |-> email]]
      BY <1>3 DEF Create
    <2>2. /\ customer'[c].state = "live" /\ customer'[c].phone = phone
          /\ \A d \in Customers \ {c} : customer'[d] = customer[d]
      BY <2>1, InHand
    <2>3. RowOK(customer'[c])
      BY <2>2, AccountAssumption DEF RowOK, None, Scrubbed
    <2> QED
      BY <1>1, <2>1, <2>2, <2>3, InHand, EndKeeps
  <1> QED
    BY <1>2, <1>3, InHand DEF Register, CreateFromGoogle

\* The writes to one live customer that leave it live.
LEMMA UpdateKeeps ==
  ASSUME SerialInv, AccountInv', NEW r \in Requests,
         \A s \in Requests \ {r} : req[s].phase = "idle" /\ req'[s] = req[s],
         UpdateFromGoogle(r) \/ SetPhone(r) \/ Block(r)
  PROVE  SerialInv' /\ NoOrderLeft
  <1>1. /\ Finish(r) /\ UNCHANGED <<order, deletion, broken>> /\ req[r].phase \notin Deleting
    BY DEF UpdateFromGoogle, SetPhone, Block, Deleting
  <1>2. CASE UNCHANGED customer
    BY <1>1, <1>2, InHand, EndKeeps
  <1>3. ASSUME NEW c \in Live, customer'[c].state = customer[c].state,
               customer'[c].phone \in {customer[c].phone} \cup Phones \cup {None},
               \A d \in Customers \ {c} : customer'[d] = customer[d]
        PROVE  SerialInv' /\ NoOrderLeft
    <2>1. customer[c].state = "live"
      BY DEF Live
    <2>2. RowOK(customer'[c])
      BY <1>3, <2>1, InHand, AccountAssumption DEF RowOK, None, Scrubbed
    <2> QED
      BY <1>1, <1>3, <2>1, <2>2, InHand, EndKeeps
  <1>4. CASE UpdateFromGoogle(r)
    <2>1. req[r].who \in Live
      BY <1>4, InHand DEF UpdateFromGoogle, SlotFresh
    <2>2. CASE customer' = [customer EXCEPT ![req[r].who].google = req[r].google,
                                            ![req[r].who].email = req[r].google]
      BY <1>3, <2>1, <2>2, InHand DEF CustomerRow
    <2> QED
      BY <1>2, <1>4, <2>2 DEF UpdateFromGoogle
  <1>5. CASE SetPhone(r)
    <2>1. req[r].target \in Live
      BY <1>5, InHand DEF SetPhone, SlotFresh
    <2>2. CASE customer' = [customer EXCEPT ![req[r].target].phone = req[r].phone]
      BY <1>3, <2>1, <2>2, InHand DEF CustomerRow
    <2> QED
      BY <1>2, <1>5, <2>2 DEF SetPhone
  <1>6. CASE Block(r)
    <2>1. req[r].who \in Live
      BY <1>6, InHand DEF Block, SlotFresh
    <2> QED
      BY <1>3, <1>6, <2>1, InHand DEF Block, CustomerRow
  <1> QED
    BY <1>4, <1>5, <1>6

\* The reads of completeProfile, assertCustomerCanOrder and deleteCustomerAccount.
LEMMA ReadKeeps ==
  ASSUME SerialInv, AccountInv', NEW r \in Requests,
         \A s \in Requests \ {r} : req[s].phase = "idle" /\ req'[s] = req[s],
         FindOther(r) \/ ReadForMerge(r) \/ AssertCanOrder(r) \/ ReadForDelete(r)
  PROVE  SerialInv' /\ NoOrderLeft
  <1> DEFINE q == req[r]
  <1>1. /\ UNCHANGED <<rows, broken>> /\ q \in Request /\ SlotFresh(q) /\ SlotOK(q)
        /\ req \in [Requests -> Request]
    BY InHand DEF FindOther, ReadForMerge, AssertCanOrder, ReadForDelete, TypeOK
  <1>2. CASE FindOther(r)
    <2>1. q.phase = "findOther" /\ q.who \in Live
      BY <1>1, <1>2 DEF FindOther, SlotFresh
    <2>2. PICK p \in {"setPhone", "readMerge"}, t \in Live :
             req' = [req EXCEPT ![r].phase = p, ![r].target = t]
      BY <1>2, <2>1, LiveTyped DEF FindOther
    <2>3. req'[r].phase = p /\ req'[r].target = t /\ req'[r].who = q.who
      BY <1>1, <2>2 DEF Request
    <2>4. SlotFresh(req'[r])
      BY <2>1, <2>3 DEF SlotFresh, Deleting
    <2> QED
      BY <1>1, <2>1, <2>4, MoveKeeps DEF Deleting
  <1>3. CASE ReadForMerge(r)
    <2>1. q.phase = "readMerge" /\ q.who \in Live /\ q.target \in Live
      BY <1>1, <1>3 DEF ReadForMerge, SlotFresh
    <2>2. req' = [req EXCEPT ![r].phase = "merge", ![r].source = customer[q.who],
                             ![r].into = customer[q.target]]
      BY <1>3, <2>1 DEF ReadForMerge
    <2>3. /\ req'[r].phase = "merge" /\ req'[r].target = q.target /\ req'[r].who = q.who
          /\ req'[r].source = customer[q.who]
      BY <1>1, <2>2 DEF Request
    <2>4. SlotFresh(req'[r])
      BY <2>1, <2>3 DEF SlotFresh, Deleting
    <2> QED
      BY <1>1, <2>1, <2>4, MoveKeeps DEF Deleting
  <1>4. CASE AssertCanOrder(r)
    <2>1. q.phase = "assertCanOrder" /\ q.who \in Live
      BY <1>1, <1>4 DEF AssertCanOrder, SlotFresh
    <2>2. \/ req'[r].phase = "idle"
          \/ req'[r].phase = "place" /\ req'[r].who = q.who
      BY <1>1, <1>4 DEF AssertCanOrder, Goto, Finish, Idle, Request
    <2>3. req'[r].phase # "idle" => SlotFresh(req'[r])
      BY <2>1, <2>2 DEF SlotFresh, Deleting
    <2> QED
      BY <1>1, <2>1, <2>3, MoveKeeps DEF Deleting
  <1>5. CASE ReadForDelete(r)
    <2>1. q.phase = "readDelete" /\ q.who \in Live /\ deletion[q.request].user = q.who
      BY <1>1, <1>5 DEF ReadForDelete, SlotFresh, Deleting
    <2>2. req' = [req EXCEPT ![r].phase = "delete", ![r].source = customer[q.who]]
      BY <1>5, <2>1 DEF ReadForDelete
    <2>3. /\ req'[r].phase = "delete" /\ req'[r].request = q.request /\ req'[r].who = q.who
          /\ req'[r].source = customer[q.who]
      BY <1>1, <2>2 DEF Request
    <2>4. SlotFresh(req'[r])
      BY <2>1, <2>3 DEF SlotFresh, Deleting
    <2> QED
      BY <1>1, <2>3, <2>4, MoveKeeps DEF Deleting
  <1> QED
    BY <1>2, <1>3, <1>4, <1>5

\* The order goes to the live customer it was linked to, or to nobody.
LEMMA PlaceKeeps ==
  ASSUME SerialInv, AccountInv', NEW r \in Requests,
         \A s \in Requests \ {r} : req[s].phase = "idle" /\ req'[s] = req[s],
         PlaceOrder(r)
  PROVE  SerialInv' /\ NoOrderLeft
  <1> DEFINE q == req[r]
  <1>1. /\ q.phase = "place" /\ q.who \in Live \cup {None} /\ Finish(r)
        /\ UNCHANGED <<customer, deletion, broken>>
        /\ order \in [Orders -> OrderRow]
    BY InHand DEF PlaceOrder, SlotFresh, TypeOK
  <1>2. PICK o \in Orders : order' = [order EXCEPT ![o] = [placed |-> TRUE, owner |-> q.who,
                                                          phone |-> q.phone]]
    BY DEF PlaceOrder
  <1>3. /\ order'[o].placed /\ order'[o].owner = q.who
        /\ \A p \in Orders \ {o} : order'[p] = order[p]
    BY <1>1, <1>2
  <1>4. Live' = Live
    BY <1>1 DEF Live
  <1>5. OrdersOK'
    BY <1>1, <1>3, <1>4 DEF SerialInv, RowsOK, OrdersOK, OrdersOwnedByLive
  <1>6. RowsOK'
    BY <1>1, <1>5 DEF SerialInv, RowsOK, CustomersOK, DeletionsOK, Gone
  <1>7. PendingOK'
    BY <1>1, PendingFrame DEF Deleting
  <1>8. NoOrderLeft
    BY <1>1 DEF NoOrderLeft, Live
  <1>9. req'[r].phase = "idle"
    BY <1>1 DEF Finish, Idle, SerialInv, AccountInv, TypeOK
  <1> QED
    BY <1>6, <1>7, <1>8, <1>9, SerialFrame

-----------------------------------------------------------------------------
(* The two steps after which a customer is gone *)

\* Customer c goes, every order it had goes to somebody live or to nobody, and no order
\* nobody live owns is left under its phone.
LEMMA GoneFrame ==
  ASSUME SerialInv, NEW c \in Live,
         customer'[c].state = "dead", RowOK(customer'[c]),
         \A d \in Customers \ {c} : customer'[d].state = customer[d].state,
         \A d \in Customers \ {c} : customer[d].state = "dead" => customer'[d] = customer[d],
         \A d \in Customers \ {c} : RowOK(customer'[d]),
         UNCHANGED deletion,
         \A o \in Orders : /\ order'[o].owner # c
                           /\ order'[o].owner \in {order[o].owner, None} \cup (Live \ {c})
                           /\ order[o].placed => order'[o].placed
                           /\ ~order[o].placed => order'[o] = order[o],
         \A o \in Orders :
             customer[c].phone # None /\ order'[o].phone = customer[c].phone =>
                 order'[o].owner # None
  PROVE  RowsOK' /\ NoOrderLeft
  <1>1. Live' = Live \ {c}
    BY DEF Live
  <1>2. CustomersOK'
    BY DEF CustomersOK
  <1>3. OrdersOK'
    BY <1>1 DEF SerialInv, RowsOK, OrdersOK, OrdersOwnedByLive
  <1>4. DeletionsOK'
    <2>1. customer[c].state = "live"
      BY DEF Live
    <2> QED
      BY <2>1 DEF SerialInv, RowsOK, DeletionsOK, Gone
  <1>5. NoOrderLeft
    <2> SUFFICES ASSUME NEW d \in Live, customer'[d].state = "dead", NEW o \in Orders,
                        customer[d].phone # None, order'[o].phone = customer[d].phone
                 PROVE  order'[o].owner \in Live'
      BY DEF NoOrderLeft
    <2>1. d = c
      BY DEF Live
    <2>2. order'[o].owner # None
      BY <2>1
    <2> QED
      BY <1>3, <2>2 DEF OrdersOK, OrdersOwnedByLive
  <1> QED
    BY <1>2, <1>3, <1>4, <1>5 DEF RowsOK

LEMMA MergeKeeps ==
  ASSUME SerialInv, AccountInv', NEW r \in Requests,
         \A s \in Requests \ {r} : req[s].phase = "idle" /\ req'[s] = req[s],
         Merge(r)
  PROVE  SerialInv' /\ NoOrderLeft
  <1> DEFINE q == req[r]
             c == q.who
             d == q.target
             phone == q.source.phone
  <1>1. /\ TypeOK /\ q.phase = "merge" /\ q \in Request
        /\ c \in Live /\ d \in Live /\ c # d
        /\ q.source = customer[c]
        /\ Live \subseteq Customers
    BY InHand DEF Merge, SlotFresh, SlotOK
  <1>2. CASE Refused(q)
    <2>1. UNCHANGED <<customer, order, deletion, broken>> /\ Finish(r)
      BY <1>2 DEF Merge, Refused
    <2> QED
      BY <1>1, <2>1, InHand, EndKeeps DEF Deleting
  <1>3. CASE ~Refused(q)
    <2> DEFINE patch == Patch(q.into, q.source)
    <2>1. /\ customer' = [customer EXCEPT ![d] = Enriched(customer[d], patch),
                                          ![c] = Retire(customer[c], phone)]
          /\ order' = MergeOrders(c, d, phone)
          /\ Goto(r, "setPhone")
          /\ UNCHANGED <<deletion, broken>>
      BY <1>1, <1>3, MergeWrites
    <2>2. /\ customer'[c] = Retire(customer[c], phone)
          /\ customer'[d] = Enriched(customer[d], patch)
          /\ \A e \in Customers \ {c, d} : customer'[e] = customer[e]
      BY <1>1, <2>1 DEF TypeOK
    <2>3. customer[c] \in CustomerRow /\ customer[d] \in CustomerRow
      BY <1>1 DEF TypeOK
    <2>4. customer'[c].state = "dead" /\ RowOK(customer'[c])
      <3>1. customer'[c].state = "dead" /\ customer'[c].phone \in {None, Scrubbed}
        BY <2>2, <2>3 DEF Retire, CustomerRow
      <3> QED
        BY <3>1, AccountAssumption DEF RowOK
    <2>5. customer'[d].state = "live" /\ RowOK(customer'[d])
      <3>1. patch["phone"] \in {None, customer[c].phone}
        BY <1>1 DEF Patch
      <3>2. customer[c].phone # Scrubbed /\ customer[d].phone # Scrubbed /\ customer[d].state = "live"
        BY <1>1 DEF Live, SerialInv, RowsOK, CustomersOK, RowOK
      <3> HIDE DEF patch
      <3>3. /\ Enriched(customer[d], patch).state = "live"
            /\ Enriched(customer[d], patch).phone \in {customer[d].phone, patch["phone"]}
        BY <2>3, <3>2 DEF Enriched, CustomerRow
      <3>4. patch["phone"] # Scrubbed
        BY <3>1, <3>2 DEF None, Scrubbed
      <3> QED
        BY <2>2, <3>2, <3>3, <3>4 DEF RowOK
    <2> HIDE DEF patch
    <2>6. \A o \in Orders :
             /\ order[o] \in OrderRow
             /\ ~order[o].placed => order[o].owner = None /\ order[o].phone = None
             /\ order[o].owner \in Live \cup {None}
      BY <1>1 DEF SerialInv, RowsOK, OrdersOK, OrdersOwnedByLive, TypeOK
    <2>7. None \notin Live
      BY <1>1, AccountAssumption
    <2>8. \A o \in Orders :
             IF \/ order[o].placed /\ order[o].owner = c
                \/ phone # None /\ order[o].owner = None /\ order[o].phone = phone
             THEN /\ order'[o].owner = d /\ order'[o].placed = order[o].placed
                  /\ order'[o].phone = order[o].phone
             ELSE order'[o] = order[o]
      BY <2>1, <2>6 DEF MergeOrders, OrderRow
    <2>9. \A o \in Orders : /\ order'[o].owner # c
                            /\ order'[o].owner \in {order[o].owner, None} \cup (Live \ {c})
                            /\ order[o].placed => order'[o].placed
                            /\ ~order[o].placed => order'[o] = order[o]
      BY <1>1, <2>6, <2>7, <2>8
    <2>10. \A o \in Orders :
             customer[c].phone # None /\ order'[o].phone = customer[c].phone =>
                 order'[o].owner # None
      BY <1>1, <2>6, <2>7, <2>8
    <2>11. \A e \in Customers \ {c} : customer'[e].state = customer[e].state
      BY <1>1, <2>2, <2>5 DEF Live
    <2>12. \A e \in Customers \ {c} : customer[e].state = "dead" => customer'[e] = customer[e]
      BY <1>1, <2>2 DEF Live
    <2>13. \A e \in Customers \ {c} : RowOK(customer'[e])
      BY <2>2, <2>5 DEF SerialInv, RowsOK, CustomersOK
    <2>14. RowsOK' /\ NoOrderLeft
      BY <1>1, <2>1, <2>4, <2>9, <2>10, <2>11, <2>12, <2>13, GoneFrame
    <2>15. req'[r].phase = "setPhone" /\ req'[r].target = d
      BY <1>1, <2>1 DEF Goto, TypeOK, Request
    <2>16. SlotFresh(req[r])'
      BY <1>1, <2>5, <2>15 DEF SlotFresh, Deleting, Live
    <2>17. PendingOK'
      BY <1>1, <2>1, PendingFrame DEF Deleting
    <2> QED
      BY <2>14, <2>16, <2>17, SerialFrame
  <1> QED
    BY <1>2, <1>3

LEMMA DeleteKeeps ==
  ASSUME SerialInv, AccountInv', NEW r \in Requests,
         \A s \in Requests \ {r} : req[s].phase = "idle" /\ req'[s] = req[s],
         DeleteAccount(r)
  PROVE  SerialInv' /\ NoOrderLeft
  <1> DEFINE q == req[r]
             c == q.who
             phone == q.source.phone
  <1>1. /\ TypeOK /\ q.phase = "delete" /\ q \in Request
        /\ c \in Live /\ q.source = customer[c] /\ deletion[q.request].user = c
        /\ Live \subseteq Customers
        /\ UNCHANGED <<deletion, broken>> /\ Goto(r, "complete")
    BY InHand DEF DeleteAccount, SlotFresh, Deleting
  <1>2. /\ customer'[c] = [state |-> "dead", active |-> FALSE, google |-> None, email |-> None,
                           phone |-> IF phone = None THEN None ELSE Scrubbed]
        /\ \A e \in Customers \ {c} : customer'[e] = customer[e]
    BY <1>1 DEF DeleteAccount, TypeOK
  <1>3. /\ customer'[c].state = "dead" /\ customer'[c].google = None /\ customer'[c].email = None
        /\ customer'[c].phone \in {None, Scrubbed}
    BY <1>2
  <1>4. RowOK(customer'[c])
    BY <1>3, AccountAssumption DEF RowOK
  <1>5. \A e \in Customers \ {c} : RowOK(customer'[e])
    BY <1>2 DEF SerialInv, RowsOK, CustomersOK
  <1>6. \A o \in Orders :
           /\ order[o] \in OrderRow
           /\ ~order[o].placed => order[o].owner = None /\ order[o].phone = None
           /\ order[o].owner \in Live \cup {None}
    BY <1>1 DEF SerialInv, RowsOK, OrdersOK, OrdersOwnedByLive, TypeOK
  <1>7. None \notin Live /\ customer[c].phone # Scrubbed
    BY <1>1, AccountAssumption DEF Live, SerialInv, RowsOK, CustomersOK, RowOK
  <1>8. \A o \in Orders :
           IF order[o].placed /\ (\/ order[o].owner = c
                                  \/ order[o].owner = None /\ order[o].phone = phone)
           THEN /\ order'[o].owner = None /\ order'[o].placed = order[o].placed
                /\ order'[o].phone = Scrubbed
           ELSE order'[o] = order[o]
    BY <1>6 DEF DeleteAccount, Anonymize, OrderRow
  <1>9. \A o \in Orders : /\ order'[o].owner # c
                          /\ order'[o].owner \in {order[o].owner, None} \cup (Live \ {c})
                          /\ order[o].placed => order'[o].placed
                          /\ ~order[o].placed => order'[o] = order[o]
    BY <1>1, <1>6, <1>7, <1>8
  <1>10. \A o \in Orders :
           customer[c].phone # None /\ order'[o].phone = customer[c].phone =>
               order'[o].owner # None
    BY <1>1, <1>6, <1>7, <1>8
  <1>11. RowsOK' /\ NoOrderLeft
    BY <1>1, <1>2, <1>3, <1>4, <1>5, <1>9, <1>10, GoneFrame
  <1>12. /\ req'[r].phase = "complete" /\ req'[r].who = c /\ req'[r].request = q.request
    BY <1>1 DEF Goto, TypeOK, Request
  <1>13. SlotFresh(req[r])'
    BY <1>1, <1>3, <1>12 DEF SlotFresh, Deleting, Gone
  <1>14. PendingOK'
    BY <1>1, <1>12, PendingFrame DEF Deleting
  <1> QED
    BY <1>11, <1>13, <1>14, SerialFrame

-----------------------------------------------------------------------------
(* The record of a deletion *)

LEMMA RecordKeeps ==
  ASSUME SerialInv, AccountInv', NEW r \in Requests,
         \A s \in Requests \ {r} : req[s].phase = "idle" /\ req'[s] = req[s],
         RecordDeletion(r)
  PROVE  SerialInv' /\ NoOrderLeft
  <1> DEFINE q == req[r]
  <1>1. /\ TypeOK /\ q.phase = "record" /\ q \in Request /\ q.who \in Live \cup {None}
        /\ Live \subseteq Customers /\ UNCHANGED <<customer, order, broken>>
    BY InHand DEF RecordDeletion, SlotFresh
  <1>2. PICK d \in Deletions :
           /\ deletion' = [deletion EXCEPT ![d] =
                 [status |-> IF q.who = None THEN "FAILED" ELSE "PROCESSING", user |-> q.who]]
           /\ IF q.who = None THEN Finish(r)
              ELSE req' = [req EXCEPT ![r].phase = "readDelete", ![r].request = d]
    BY DEF RecordDeletion
  <1>3. /\ deletion'[d].status = IF q.who = None THEN "FAILED" ELSE "PROCESSING"
        /\ deletion'[d].user = q.who
        /\ \A e \in Deletions \ {d} : deletion'[e] = deletion[e]
    BY <1>1, <1>2 DEF TypeOK
  <1>4. DeletionsOK'
    BY <1>1, <1>3 DEF SerialInv, RowsOK, DeletionsOK, Gone
  <1>5. RowsOK' /\ NoOrderLeft
    <2>1. Live' = Live
      BY <1>1 DEF Live
    <2>2. OrdersOK'
      BY <1>1, <2>1 DEF SerialInv, RowsOK, OrdersOK, OrdersOwnedByLive
    <2>3. CustomersOK'
      BY <1>1 DEF SerialInv, RowsOK, CustomersOK
    <2>4. NoOrderLeft
      BY <1>1 DEF NoOrderLeft, Live
    <2> QED
      BY <1>4, <2>2, <2>3, <2>4 DEF RowsOK
  \* No other deletion has a handler.
  <1>6. \A e \in Deletions : deletion[e].status = "PROCESSING" => broken
    BY <1>1 DEF SerialInv, PendingOK, Deleting
  <1>7. CASE q.who = None
    <2>1. req'[r].phase = "idle"
      BY <1>1, <1>2, <1>7 DEF Finish, Idle, TypeOK
    <2>2. PendingOK'
      BY <1>1, <1>3, <1>6, <1>7 DEF PendingOK
    <2> QED
      BY <1>5, <2>1, <2>2, SerialFrame
  <1>8. CASE q.who # None
    <2>1. req'[r].phase = "readDelete" /\ req'[r].request = d /\ req'[r].who = q.who
      BY <1>1, <1>2, <1>8 DEF TypeOK, Request
    <2>2. PendingOK'
      BY <1>1, <1>3, <1>6, <2>1 DEF PendingOK, Deleting
    <2>3. SlotFresh(req[r])'
      BY <1>1, <1>3, <1>8, <2>1 DEF SlotFresh, Deleting, Live
    <2> QED
      BY <1>5, <2>2, <2>3, SerialFrame
  <1> QED
    BY <1>7, <1>8

LEMMA CompleteKeeps ==
  ASSUME SerialInv, AccountInv', NEW r \in Requests,
         \A s \in Requests \ {r} : req[s].phase = "idle" /\ req'[s] = req[s],
         CompleteDeletion(r)
  PROVE  SerialInv' /\ NoOrderLeft
  <1> DEFINE q == req[r]
             d == q.request
  <1>1. /\ TypeOK /\ q.phase = "complete" /\ d \in Deletions /\ q.who \in Customers
        /\ deletion[d].user = q.who /\ Gone(q.who) /\ Finish(r)
        /\ UNCHANGED <<customer, order, broken>>
    BY InHand DEF CompleteDeletion, SlotFresh, SlotOK, Deleting
  <1>2. /\ deletion'[d].status = "COMPLETED" /\ deletion'[d].user = deletion[d].user
        /\ \A e \in Deletions \ {d} : deletion'[e] = deletion[e]
    BY <1>1 DEF CompleteDeletion, TypeOK, DeletionRow
  <1>3. DeletionsOK'
    BY <1>1, <1>2 DEF SerialInv, RowsOK, DeletionsOK, Gone
  <1>4. RowsOK' /\ NoOrderLeft
    <2>1. Live' = Live
      BY <1>1 DEF Live
    <2>2. OrdersOK'
      BY <1>1, <2>1 DEF SerialInv, RowsOK, OrdersOK, OrdersOwnedByLive
    <2>3. CustomersOK'
      BY <1>1 DEF SerialInv, RowsOK, CustomersOK
    <2>4. NoOrderLeft
      BY <1>1 DEF NoOrderLeft, Live
    <2> QED
      BY <1>3, <2>2, <2>3, <2>4 DEF RowsOK
  <1>5. PendingOK'
    BY <1>1, <1>2 DEF SerialInv, PendingOK, Deleting
  <1>6. req'[r].phase = "idle"
    BY <1>1 DEF Finish, Idle, TypeOK
  <1> QED
    BY <1>4, <1>5, <1>6, SerialFrame

-----------------------------------------------------------------------------
(* The theorems *)

LEMMA SerialStep ==
  ASSUME Overlap = FALSE, SerialInv, [Next]_vars
  PROVE  SerialInv' /\ [NoOrderLeft]_vars
  <1>1. AccountInv'
    BY AccountStep DEF SerialInv
  <1>2. CASE Next
    <2>1. PICK r \in Requests : Arrive(r) \/ Continue(r) \/ Fail(r)
      BY <1>2 DEF Next
    <2>2. \A s \in Requests \ {r} : req[s].phase = "idle" /\ req'[s] = req[s]
      BY <2>1, Alone
    <2>3. CASE FindByEmail(r)
      BY <1>1, <2>2, <2>3, FoundKeeps DEF FindByEmail
    <2> QED
      BY <1>1, <2>1, <2>2, <2>3, ArriveKeeps, FailKeeps, CreateKeeps, UpdateKeeps, ReadKeeps,
         PlaceKeeps, MergeKeeps, DeleteKeeps, RecordKeeps, CompleteKeeps DEF Continue
  <1>3. CASE UNCHANGED vars
    <2>1. UNCHANGED <<customer, order, deletion, req, broken>>
      BY <1>3 DEF vars
    <2>2. RowsOK'
      BY <2>1, ReadFrame DEF rows
    <2> QED
      BY <1>1, <1>3, <2>1, <2>2 DEF SerialInv, AtMostOne, PendingOK, SlotFresh, Gone, Live
  <1> QED
    BY <1>2, <1>3

LEMMA SerialInvariant ==
  ASSUME Overlap = FALSE
  PROVE  Spec => []SerialInv
  <1>1. SerialInv /\ [Next]_vars => SerialInv'
    BY SerialStep
  <1> QED
    BY <1>1, InitSerialInv, PTL DEF Spec

\* One request at a time, an order belongs to a live customer or to nobody (createGuestOrder,
\* mergeCustomers, deleteCustomerAccount).
THEOREM OwnersLive ==
  ASSUME Overlap = FALSE
  PROVE  Spec => []OrdersOwnedByLive
  <1>1. SerialInv => OrdersOwnedByLive
    BY DEF SerialInv, RowsOK, OrdersOK
  <1> QED
    BY <1>1, SerialInvariant, PTL

\* One request at a time, no merged or deleted customer keeps a phone that register would
\* then refuse (the renaming of mergeCustomers and deleteCustomerAccount).
THEOREM PhonesFreed ==
  ASSUME Overlap = FALSE
  PROVE  Spec => []DeadHoldNoPhone
  <1>1. SerialInv => DeadHoldNoPhone
    BY DEF SerialInv, RowsOK, CustomersOK, RowOK, DeadHoldNoPhone
  <1> QED
    BY <1>1, SerialInvariant, PTL

\* One request at a time, a deletion recorded as COMPLETED means the account is gone with
\* its identities and owns no order, ever after (createDeleteRequest).
THEOREM CompletedIsGone ==
  ASSUME Overlap = FALSE
  PROVE  Spec => []CompletedMeansGone
  <1>1. SerialInv => CompletedMeansGone
    <2> SUFFICES ASSUME SerialInv, NEW d \in Deletions, deletion[d].status = "COMPLETED"
                 PROVE  /\ Gone(deletion[d].user)
                        /\ \A o \in Orders : order[o].owner # deletion[d].user
      BY DEF CompletedMeansGone, Gone
    <2>1. deletion[d].user \in Customers /\ Gone(deletion[d].user)
      BY DEF SerialInv, RowsOK, DeletionsOK
    <2>2. deletion[d].user # None /\ deletion[d].user \notin Live
      BY <2>1, AccountAssumption DEF Gone, Live
    <2> QED
      BY <2>1, <2>2 DEF SerialInv, RowsOK, OrdersOK, OrdersOwnedByLive
  <1> QED
    BY <1>1, SerialInvariant, PTL

\* One request at a time, no deletion is left in PROCESSING unless its handler died.
THEOREM DeletionsSettle ==
  ASSUME Overlap = FALSE
  PROVE  Spec => []RequestsSettle
  <1>1. SerialInv => RequestsSettle
    BY DEF SerialInv, PendingOK, RequestsSettle, Quiet, Deleting
  <1> QED
    BY <1>1, SerialInvariant, PTL

\* One request at a time, the step that takes a customer away leaves no order under its
\* phone that a live customer does not own (MergeOrders, Anonymize).
THEOREM NoOrderBehind ==
  ASSUME Overlap = FALSE
  PROVE  Spec => NothingLeftBehind
  <1>1. SerialInv /\ [Next]_vars => [NoOrderLeft]_vars
    BY SerialStep
  <1> QED
    BY <1>1, SerialInvariant, PTL DEF Spec, NothingLeftBehind

====
