-------------------------- MODULE CustomerAccounts --------------------------
(***************************************************************************)
(* Customer accounts and the guest orders they own: customers.service.ts,  *)
(* google-auth.service.ts, account-deletion.service.ts and the linking of  *)
(* a customer in createGuestOrder.  One action is one query; a Prisma      *)
(* transaction is one action.  A Google account stands for its e-mail      *)
(* address too, the one it signs in with.                                  *)
(***************************************************************************)
EXTENDS Naturals, FiniteSets

CONSTANTS
    Customers,     \* bound: the customer rows ever created
    Orders,        \* bound: the guest orders ever placed
    Deletions,     \* bound: the account deletion requests ever recorded
    Phones,        \* phone numbers, normalised
    Googles,       \* Google accounts
    Requests,      \* request slots
    Overlap        \* may two requests be in flight together?

None == "none"

\* A phone that was rewritten as phone_merged_id or phone_deleted_id.
Scrubbed == "scrubbed"

ASSUME AccountAssumption ==
    /\ Overlap \in BOOLEAN
    /\ None \notin Phones \cup Googles \cup Customers \cup Orders \cup Deletions
    /\ Scrubbed \notin Phones

VARIABLES
    customer,   \* customer -> its row; live means deletedAt is null
    order,      \* guest order -> its row
    deletion,   \* account deletion request -> its row
    req,        \* request slot -> the request it serves
    broken      \* has a request died half way?

rows == <<customer, order, deletion>>
vars == <<customer, order, deletion, req, broken>>

CustomerRow ==
    [state : {"absent", "live", "dead"}, active : BOOLEAN,
     phone : Phones \cup {None, Scrubbed}, google : Googles \cup {None},
     email : Googles \cup {None}]

NoCustomer ==
    [state |-> "absent", active |-> TRUE, phone |-> None, google |-> None, email |-> None]

OrderRow == [placed : BOOLEAN, owner : Customers \cup {None},
             phone : Phones \cup {None, Scrubbed}]

NoOrder == [placed |-> FALSE, owner |-> None, phone |-> None]

DeletionRow == [status : {"absent", "PROCESSING", "COMPLETED", "FAILED"},
                user : Customers \cup {None}]

NoDeletion == [status |-> "absent", user |-> None]

Request ==
    [phase : {"idle", "insert", "byEmail", "googleUpdate", "googleCreate", "findOther",
              "readMerge", "merge", "setPhone", "block", "assertCanOrder", "place",
              "record", "readDelete", "delete", "complete"},
     who : Customers \cup {None},      \* the customer the request is about
     target : Customers \cup {None},   \* completeProfile.targetId
     phone : Phones \cup {None}, google : Googles \cup {None}, flag : BOOLEAN,
     request : Deletions \cup {None},
     source : CustomerRow, into : CustomerRow]   \* rows as the handler read them

Idle == [phase |-> "idle", who |-> None, target |-> None, phone |-> None, google |-> None,
         flag |-> FALSE, request |-> None, source |-> NoCustomer, into |-> NoCustomer]

-----------------------------------------------------------------------------
(* Helpers *)

Live == {c \in Customers : customer[c].state = "live"}

\* findFirst({ phone, deletedAt: null }) and the like: any row that matches.
LiveWith(field, v) == {c \in Live : customer[c][field] = v}

\* Customer.phone and Customer.googleId are unique, over deleted rows too.
Taken(field, v, c) == v # None /\ \E d \in Customers \ {c} : customer[d][field] = v

Quiet == \A r \in Requests : req[r].phase = "idle"

Free(r) == req[r].phase = "idle" /\ (Overlap \/ Quiet)

Goto(r, phase) == req' = [req EXCEPT ![r].phase = phase]

Finish(r) == req' = [req EXCEPT ![r] = Idle]

\* create() picks a row that does not exist yet.
Create(phone, google, email) ==
    \E c \in Customers :
        /\ customer[c].state = "absent"
        /\ customer' = [customer EXCEPT ![c] =
                            [state |-> "live", active |-> TRUE, phone |-> phone,
                             google |-> google, email |-> email]]

-----------------------------------------------------------------------------
(* register, and signInWithIdToken of a Google account *)

StartRegister(r, p, email) ==
    /\ Free(r)
    /\ LiveWith("phone", p) = {}
    /\ req' = [req EXCEPT ![r] = [Idle EXCEPT !.phase = "insert", !.phone = p,
                                              !.google = email]]
    /\ UNCHANGED <<rows, broken>>

Register(r) ==
    LET q == req[r]
    IN  /\ q.phase = "insert"
        /\ IF Taken("phone", q.phone, None) THEN UNCHANGED customer
           ELSE Create(q.phone, None, q.google)
        /\ Finish(r)
        /\ UNCHANGED <<order, deletion, broken>>

\* What a lookup of a Google account leads to: a blocked customer is refused.
Found(r, found, g, otherwise) ==
    IF found = {} THEN req' = [req EXCEPT ![r] = [Idle EXCEPT !.phase = otherwise, !.google = g]]
    ELSE \E c \in found :
            IF customer[c].active
            THEN req' = [req EXCEPT ![r] = [Idle EXCEPT !.phase = "googleUpdate", !.who = c,
                                                        !.google = g]]
            ELSE Finish(r)

FindByGoogle(r, g) ==
    /\ Free(r)
    /\ Found(r, LiveWith("google", g), g, "byEmail")
    /\ UNCHANGED <<rows, broken>>

FindByEmail(r) ==
    /\ req[r].phase = "byEmail"
    /\ Found(r, LiveWith("email", req[r].google), req[r].google, "googleCreate")
    /\ UNCHANGED <<rows, broken>>

UpdateFromGoogle(r) ==
    LET q == req[r]
    IN  /\ q.phase = "googleUpdate"
        /\ customer' = IF Taken("google", q.google, q.who) THEN customer
                       ELSE [customer EXCEPT ![q.who].google = q.google,
                                             ![q.who].email = q.google]
        /\ Finish(r)
        /\ UNCHANGED <<order, deletion, broken>>

CreateFromGoogle(r) ==
    LET q == req[r]
    IN  /\ q.phase = "googleCreate"
        /\ IF Taken("google", q.google, None) THEN UNCHANGED customer
           ELSE Create(None, q.google, q.google)
        /\ Finish(r)
        /\ UNCHANGED <<order, deletion, broken>>

-----------------------------------------------------------------------------
(* completeProfile and mergeCustomers *)

\* The token's customer is live and not blocked.  A request that names the phone the
\* customer has writes a delivery address only.
StartProfile(r, c, p) ==
    /\ Free(r)
    /\ c \in Live /\ customer[c].active
    /\ customer[c].phone # p
    /\ req' = [req EXCEPT ![r] = [Idle EXCEPT !.phase = "findOther", !.who = c, !.phone = p]]
    /\ UNCHANGED <<rows, broken>>

FindOther(r) ==
    LET q == req[r]
        others == LiveWith("phone", q.phone) \ {q.who}
    IN  /\ q.phase = "findOther"
        /\ IF others = {}
           THEN req' = [req EXCEPT ![r].phase = "setPhone", ![r].target = q.who]
           ELSE \E o \in others :
                    req' = [req EXCEPT ![r].phase = "readMerge", ![r].target = o]
        /\ UNCHANGED <<rows, broken>>

\* The merge is skipped when one of the two has gone.
ReadForMerge(r) ==
    LET q == req[r]
    IN  /\ q.phase = "readMerge"
        /\ IF {q.who, q.target} \subseteq Live
           THEN req' = [req EXCEPT ![r].phase = "merge", ![r].source = customer[q.who],
                                   ![r].into = customer[q.target]]
           ELSE Goto(r, "setPhone")
        /\ UNCHANGED <<rows, broken>>

\* The fields the target has not and the source has (None: not in the patch).
Patch(into, source) ==
    [f \in {"phone", "google", "email"} |-> IF into[f] = None THEN source[f] ELSE None]

\* Mutated form of MergeOrders: orders that belong to nobody stay so, and the source keeps its.
MergeNoOrders(source, target, phone) == order

\* The source's orders, and those placed under its phone that belong to nobody.
MergeOrders(source, target, phone) ==
    [o \in Orders |->
        IF \/ order[o].placed /\ order[o].owner = source
           \/ phone # None /\ order[o].owner = None /\ order[o].phone = phone
        THEN [order[o] EXCEPT !.owner = target] ELSE order[o]]

\* Mutated form of Retire: the merged row keeps its phone.
RetireKeepingPhone(row, phone) == [row EXCEPT !.state = "dead"]

\* The merged row's phone is renamed, or cleared when it was read as absent.
Retire(row, phone) ==
    [row EXCEPT !.state = "dead", !.phone = IF phone = None THEN None ELSE Scrubbed]

\* The patch is written first, while the source still holds its phone and its Google
\* account: a unique field that it moves is refused and the transaction rolls back.
Merge(r) ==
    LET q == req[r]
        patch == Patch(q.into, q.source)
        Patched(f, old) == IF patch[f] = None THEN old ELSE patch[f]
        refused == \E f \in {"phone", "google"} : Taken(f, patch[f], q.target)
    IN  /\ q.phase = "merge"
        /\ IF refused THEN UNCHANGED <<customer, order>> /\ Finish(r)
           ELSE /\ customer' = [customer EXCEPT
                        ![q.target].phone = Patched("phone", @),
                        ![q.target].google = Patched("google", @),
                        ![q.target].email = Patched("email", @),
                        ![q.who] = Retire(@, q.source.phone)]
                /\ order' = MergeOrders(q.who, q.target, q.source.phone)
                /\ Goto(r, "setPhone")
        /\ UNCHANGED <<deletion, broken>>

\* The last write is by id alone: the row may have been deleted since it was read.
SetPhone(r) ==
    LET q == req[r]
    IN  /\ q.phase = "setPhone"
        /\ customer' = IF Taken("phone", q.phone, q.target) THEN customer
                       ELSE [customer EXCEPT ![q.target].phone = q.phone]
        /\ Finish(r)
        /\ UNCHANGED <<order, deletion, broken>>

-----------------------------------------------------------------------------
(* updateStatus, and an order placed under a phone *)

StartBlock(r, c, active) ==
    /\ Free(r)
    /\ c \in Live
    /\ req' = [req EXCEPT ![r] = [Idle EXCEPT !.phase = "block", !.who = c, !.flag = active]]
    /\ UNCHANGED <<rows, broken>>

Block(r) ==
    /\ req[r].phase = "block"
    /\ customer' = [customer EXCEPT ![req[r].who].active = req[r].flag]
    /\ Finish(r)
    /\ UNCHANGED <<order, deletion, broken>>

\* createGuestOrder links the live customer of the phone; a request that names a customer
\* must name that one, and is checked by assertCustomerCanOrder.
StartOrder(r, p, named) ==
    LET linked == LiveWith("phone", p)
    IN  /\ Free(r)
        /\ named => linked # {}
        /\ \E c \in IF linked = {} THEN {None} ELSE linked :
              req' = [req EXCEPT ![r] =
                         [Idle EXCEPT !.phase = IF named THEN "assertCanOrder" ELSE "place",
                                      !.who = c, !.phone = p]]
        /\ UNCHANGED <<rows, broken>>

AssertCanOrder(r) ==
    LET q == req[r]
    IN  /\ q.phase = "assertCanOrder"
        /\ IF q.who \in Live /\ customer[q.who].active /\ customer[q.who].phone # None
           THEN Goto(r, "place") ELSE Finish(r)
        /\ UNCHANGED <<rows, broken>>

PlaceOrder(r) ==
    LET q == req[r]
    IN  /\ q.phase = "place"
        /\ \E o \in Orders :
              /\ ~order[o].placed
              /\ order' = [order EXCEPT ![o] = [placed |-> TRUE, owner |-> q.who,
                                                phone |-> q.phone]]
        /\ Finish(r)
        /\ UNCHANGED <<customer, deletion, broken>>

-----------------------------------------------------------------------------
(* createDeleteRequest and deleteCustomerAccount *)

\* By the phone, or by a token whose customer has the phone: the same customer.  Only the
\* public form records a request for a phone nobody has.
StartDeletion(r, p) ==
    /\ Free(r)
    /\ \E c \in IF LiveWith("phone", p) = {} THEN {None} ELSE LiveWith("phone", p) :
          req' = [req EXCEPT ![r] = [Idle EXCEPT !.phase = "record", !.who = c, !.phone = p]]
    /\ UNCHANGED <<rows, broken>>

\* Mutated form of RecordDeletion: the request is recorded with the column's default.
RecordDeletionPending(r) ==
    LET q == req[r]
    IN  /\ q.phase = "record"
        /\ \E d \in Deletions :
              /\ deletion[d].status = "absent"
              /\ deletion' = [deletion EXCEPT ![d] = [status |-> "PENDING", user |-> q.who]]
              /\ IF q.who = None THEN Finish(r)
                 ELSE req' = [req EXCEPT ![r].phase = "readDelete", ![r].request = d]
        /\ UNCHANGED <<customer, order, broken>>

RecordDeletion(r) ==
    LET q == req[r]
        status == IF q.who = None THEN "FAILED" ELSE "PROCESSING"
    IN  /\ q.phase = "record"
        /\ \E d \in Deletions :
              /\ deletion[d].status = "absent"
              /\ deletion' = [deletion EXCEPT ![d] = [status |-> status, user |-> q.who]]
              /\ IF q.who = None THEN Finish(r)
                 ELSE req' = [req EXCEPT ![r].phase = "readDelete", ![r].request = d]
        /\ UNCHANGED <<customer, order, broken>>

\* 'Customer not found' leaves the request as it is.
ReadForDelete(r) ==
    LET q == req[r]
    IN  /\ q.phase = "readDelete"
        /\ IF q.who \in Live
           THEN req' = [req EXCEPT ![r].phase = "delete", ![r].source = customer[q.who]]
           ELSE Finish(r)
        /\ UNCHANGED <<rows, broken>>

\* Mutated form of Anonymize: orders placed under the phone by nobody are left.
AnonymizeOwned(c, phone) ==
    [o \in Orders |-> IF order[o].placed /\ order[o].owner = c
                      THEN [order[o] EXCEPT !.owner = None, !.phone = Scrubbed]
                      ELSE order[o]]

Anonymize(c, phone) ==
    [o \in Orders |->
        IF order[o].placed /\ (\/ order[o].owner = c
                               \/ order[o].owner = None /\ order[o].phone = phone)
        THEN [order[o] EXCEPT !.owner = None, !.phone = Scrubbed] ELSE order[o]]

\* Mutated form of DeleteAccount: the e-mail and the Google account stay on the row.
DeleteAccountKeepingGoogle(r) ==
    LET q == req[r]
    IN  /\ q.phase = "delete"
        /\ order' = Anonymize(q.who, q.source.phone)
        /\ customer' = [customer EXCEPT
                ![q.who].state = "dead", ![q.who].active = FALSE,
                ![q.who].phone = IF q.source.phone = None THEN None ELSE Scrubbed]
        /\ Goto(r, "complete")
        /\ UNCHANGED <<deletion, broken>>

DeleteAccount(r) ==
    LET q == req[r]
    IN  /\ q.phase = "delete"
        /\ order' = Anonymize(q.who, q.source.phone)
        /\ customer' = [customer EXCEPT ![q.who] =
                            [state |-> "dead", active |-> FALSE, google |-> None, email |-> None,
                             phone |-> IF q.source.phone = None THEN None ELSE Scrubbed]]
        /\ Goto(r, "complete")
        /\ UNCHANGED <<deletion, broken>>

\* Mutated form of CompleteDeletion: the last write is forgotten.
ForgetDeletion(r) ==
    /\ req[r].phase = "complete"
    /\ Finish(r)
    /\ UNCHANGED <<rows, broken>>

CompleteDeletion(r) ==
    /\ req[r].phase = "complete"
    /\ deletion' = [deletion EXCEPT ![req[r].request].status = "COMPLETED"]
    /\ Finish(r)
    /\ UNCHANGED <<customer, order, broken>>

\* A query fails or the server restarts: the rest of the handler never runs.
Fail(r) ==
    /\ req[r].phase # "idle"
    /\ broken' = TRUE
    /\ Finish(r)
    /\ UNCHANGED rows

-----------------------------------------------------------------------------

Init ==
    /\ customer = [c \in Customers |-> NoCustomer]
    /\ order = [o \in Orders |-> NoOrder]
    /\ deletion = [d \in Deletions |-> NoDeletion]
    /\ req = [r \in Requests |-> Idle]
    /\ broken = FALSE

Arrive(r) ==
    \/ \E p \in Phones :
          \/ \E email \in Googles \cup {None} : StartRegister(r, p, email)
          \/ \E c \in Customers : StartProfile(r, c, p)
          \/ \E named \in BOOLEAN : StartOrder(r, p, named)
          \/ StartDeletion(r, p)
    \/ \E g \in Googles : FindByGoogle(r, g)
    \/ \E c \in Customers, active \in BOOLEAN : StartBlock(r, c, active)

Continue(r) ==
    \/ Register(r)
    \/ FindByEmail(r)
    \/ UpdateFromGoogle(r)
    \/ CreateFromGoogle(r)
    \/ FindOther(r)
    \/ ReadForMerge(r)
    \/ Merge(r)
    \/ SetPhone(r)
    \/ Block(r)
    \/ AssertCanOrder(r)
    \/ PlaceOrder(r)
    \/ RecordDeletion(r)
    \/ ReadForDelete(r)
    \/ DeleteAccount(r)
    \/ CompleteDeletion(r)

Next == \E r \in Requests : Arrive(r) \/ Continue(r) \/ Fail(r)

Spec == Init /\ [][Next]_vars

-----------------------------------------------------------------------------
(* Properties *)

\* Every variable keeps its type.
TypeOK ==
    /\ customer \in [Customers -> CustomerRow]
    /\ order \in [Orders -> OrderRow]
    /\ deletion \in [Deletions -> DeletionRow]
    /\ req \in [Requests -> Request]
    /\ broken \in BOOLEAN

\* An order that belongs to a customer belongs to one that exists: merging moves the
\* orders and deleting an account releases them.
OrdersOwnedByLive ==
    \A o \in Orders : order[o].owner # None => order[o].owner \in Live

\* A merged or deleted customer keeps no phone that could be registered again: phone is
\* unique over deleted rows too, so register would be refused for good.
DeadHoldNoPhone ==
    \A c \in Customers : customer[c].state = "dead" => customer[c].phone \notin Phones

\* A request recorded as COMPLETED: the account is gone, with its identities, and no order
\* belongs to it.
CompletedMeansGone ==
    \A d \in Deletions :
        LET c == deletion[d].user
        IN  deletion[d].status = "COMPLETED" =>
                /\ customer[c].state = "dead"
                /\ customer[c].google = None /\ customer[c].email = None
                /\ \A o \in Orders : order[o].owner # c

\* A request stays in PROCESSING only while its handler runs, unless one died half way.
RequestsSettle ==
    Quiet /\ ~broken => \A d \in Deletions : deletion[d].status # "PROCESSING"

\* When an account goes, by a merge or by deletion, no order is left under its phone that
\* is not a live customer's: the rest was anonymized.
NoOrderLeft ==
    \A c \in Live :
        customer'[c].state = "dead" =>
            \A o \in Orders :
                customer[c].phone # None /\ order'[o].phone = customer[c].phone =>
                    order'[o].owner \in Live'

NothingLeftBehind == [][NoOrderLeft]_vars

\* "Merge source customer into target; target survives.": the merge of two customers read
\* as live leaves only the target, when nothing fails and no other request is in flight.
MergeLeavesTarget ==
    \A r \in Requests :
        req[r].phase = "merge" /\ req'[r].phase # "merge" /\ ~broken' =>
            req[r].who \notin Live' /\ req[r].target \in Live'

MergeCommits == [][MergeLeavesTarget]_vars

=============================================================================
