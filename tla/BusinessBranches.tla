-------------------------- MODULE BusinessBranches --------------------------
(***************************************************************************)
(* The branches of one business: business-branches.service.ts and          *)
(* upsertPrimaryBranch of restaurants.service.ts.  No handler uses a       *)
(* transaction, so one action is one query.  Branches are numbered in      *)
(* order of creation, which is the order createdAt sorts them in.          *)
(***************************************************************************)
EXTENDS Naturals, FiniteSets

CONSTANTS
    MaxBranches,   \* bound: how many branches are ever created
    Requests,      \* request slots
    Overlap        \* may two requests about the business be in flight together?

ASSUME BranchAssumption ==
    /\ MaxBranches \in Nat
    /\ Overlap \in BOOLEAN

VARIABLES
    created,   \* how many branches were created
    branch,    \* branch -> its row: deleted, isActive, isPrimary
    req,       \* request slot -> the request it serves
    broken     \* has a request died half way?

rows == <<created, branch>>
vars == <<created, branch, req, broken>>

Branches == 1 .. MaxBranches

BranchRow == [deleted : BOOLEAN, active : BOOLEAN, primary : BOOLEAN]

NewRow == [deleted |-> FALSE, active |-> FALSE, primary |-> FALSE]

\* A field of an update: left alone, or set.
Field == {"keep", "true", "false"}

Set(field, old) == IF field = "keep" THEN old ELSE field = "true"

Request ==
    [phase : {"idle", "clear", "look", "insert", "write", "count", "delete", "find", "promote"},
     op : {"none", "create", "update", "delete"},
     branch : Nat, active : Field, primary : Field, wasPrimary : BOOLEAN]

Idle == [phase |-> "idle", op |-> "none", branch |-> 0, active |-> "keep",
         primary |-> "keep", wasPrimary |-> FALSE]

-----------------------------------------------------------------------------
(* Helpers *)

Existing == 1 .. created

\* deletedAt: null
Live == {b \in Existing : ~branch[b].deleted}

Active == {b \in Live : branch[b].active}

Primary == {b \in Live : branch[b].primary}

Oldest(S) == CHOOSE b \in S : \A d \in S : b <= d

\* orderBy isPrimary desc, createdAt asc
PrimaryFirst(S) == Oldest(IF S \cap Primary # {} THEN S \cap Primary ELSE S)

Quiet == \A r \in Requests : req[r].phase = "idle"

Free(r) == req[r].phase = "idle" /\ (Overlap \/ Quiet)

Start(r, op, phase, b, active, primary, was) ==
    req' = [req EXCEPT ![r] = [phase |-> phase, op |-> op, branch |-> b, active |-> active,
                               primary |-> primary, wasPrimary |-> was]]

Goto(r, phase) == req' = [req EXCEPT ![r].phase = phase]

Finish(r) == req' = [req EXCEPT ![r] = Idle]

-----------------------------------------------------------------------------
(* create, and upsertPrimaryBranch when there is no branch *)

StartCreate(r, active, primary) ==
    /\ Free(r)
    /\ created < MaxBranches
    /\ Start(r, "create", IF primary = "true" THEN "clear" ELSE "look", 0, active, primary,
             FALSE)
    /\ UNCHANGED <<rows, broken>>

\* A branch not asked to be primary becomes it when there is no other.
LookForPrimary(r) ==
    /\ req[r].phase = "look"
    /\ req' = [req EXCEPT ![r].phase = "insert",
                          ![r].primary = IF Primary = {} THEN "true" ELSE "false"]
    /\ UNCHANGED <<rows, broken>>

Insert(r) ==
    LET q == req[r]
    IN  /\ q.phase = "insert"
        /\ created < MaxBranches
        /\ created' = created + 1
        /\ branch' = [branch EXCEPT ![created + 1] =
                         [deleted |-> FALSE, active |-> q.active = "true",
                          primary |-> q.primary = "true"]]
        /\ Finish(r)
        /\ UNCHANGED broken

\* Mutated form of StartUpsert: it updates the branch without looking whether there is one.
StartUpsertBlind(r) ==
    /\ Free(r)
    /\ created < MaxBranches
    /\ Start(r, "update", "write", IF Live = {} THEN created + 1 ELSE PrimaryFirst(Live),
             "true", "true", FALSE)
    /\ UNCHANGED <<rows, broken>>

\* upsertPrimaryBranch reads the branch it will use; it updates that one to be active and
\* primary, or creates the first, primary at once.
StartUpsert(r) ==
    /\ Free(r)
    /\ IF Live = {}
       THEN created < MaxBranches /\ Start(r, "create", "insert", 0, "true", "true", FALSE)
       ELSE Start(r, "update", "write", PrimaryFirst(Live), "true", "true", FALSE)
    /\ UNCHANGED <<rows, broken>>

-----------------------------------------------------------------------------
(* update and setPrimary *)

\* isPrimary false is refused on a branch that was read as primary.  setPrimary is the
\* update that makes a branch active and primary.
StartUpdate(r, b, active, primary) ==
    /\ Free(r)
    /\ b \in Live
    /\ primary = "false" => ~branch[b].primary
    /\ Start(r, "update", IF primary = "true" THEN "clear" ELSE "write", b, active, primary,
             branch[b].primary)
    /\ UNCHANGED <<rows, broken>>

\* Mutated form of ClearPrimary: only active branches lose the flag.
ClearActivePrimary(r) ==
    LET q == req[r]
    IN  /\ q.phase = "clear"
        /\ branch' = [b \in Branches |->
                        IF b \in Active \ {q.branch} THEN [branch[b] EXCEPT !.primary = FALSE]
                        ELSE branch[b]]
        /\ Goto(r, IF q.op = "create" THEN "insert" ELSE "write")
        /\ UNCHANGED <<created, broken>>

\* clearPrimary(businessId, exceptId)
ClearPrimary(r) ==
    LET q == req[r]
    IN  /\ q.phase = "clear"
        /\ branch' = [b \in Branches |->
                        IF b \in Live \ {q.branch} THEN [branch[b] EXCEPT !.primary = FALSE]
                        ELSE branch[b]]
        /\ Goto(r, IF q.op = "create" THEN "insert" ELSE "write")
        /\ UNCHANGED <<created, broken>>

\* The update is by id alone: the branch may have been deleted since it was read.
WriteUpdate(r) ==
    LET q == req[r]
    IN  /\ q.phase = "write"
        /\ branch' = [branch EXCEPT ![q.branch].active = Set(q.active, @),
                                    ![q.branch].primary = Set(q.primary, @)]
        /\ Finish(r)
        /\ UNCHANGED <<created, broken>>

-----------------------------------------------------------------------------
(* softDelete *)

StartDelete(r, b) ==
    /\ Free(r)
    /\ b \in Live
    /\ Start(r, "delete", "count", b, "keep", "keep", branch[b].primary)
    /\ UNCHANGED <<rows, broken>>

\* Mutated form of CountActive: the last active branch may go.
CountAny(r) ==
    /\ req[r].phase = "count"
    /\ IF Active = {} THEN Finish(r) ELSE Goto(r, "delete")
    /\ UNCHANGED <<rows, broken>>

\* 'Cannot delete the last active branch'
CountActive(r) ==
    /\ req[r].phase = "count"
    /\ IF Cardinality(Active) <= 1 THEN Finish(r) ELSE Goto(r, "delete")
    /\ UNCHANGED <<rows, broken>>

\* Mutated form of WriteDelete: the next primary is never looked for.
WriteDeleteOnly(r) ==
    LET q == req[r]
    IN  /\ q.phase = "delete"
        /\ branch' = [branch EXCEPT ![q.branch] =
                         [deleted |-> TRUE, active |-> FALSE, primary |-> FALSE]]
        /\ Finish(r)
        /\ UNCHANGED <<created, broken>>

WriteDelete(r) ==
    LET q == req[r]
    IN  /\ q.phase = "delete"
        /\ branch' = [branch EXCEPT ![q.branch] =
                         [deleted |-> TRUE, active |-> FALSE, primary |-> FALSE]]
        /\ IF q.wasPrimary THEN Goto(r, "find") ELSE Finish(r)
        /\ UNCHANGED <<created, broken>>

FindNext(r) ==
    /\ req[r].phase = "find"
    /\ IF Active = {} THEN Finish(r)
       ELSE req' = [req EXCEPT ![r].phase = "promote", ![r].branch = Oldest(Active)]
    /\ UNCHANGED <<rows, broken>>

Promote(r) ==
    /\ req[r].phase = "promote"
    /\ branch' = [branch EXCEPT ![req[r].branch].primary = TRUE]
    /\ Finish(r)
    /\ UNCHANGED <<created, broken>>

\* A query fails or the server restarts: the rest of the handler never runs.
Fail(r) ==
    /\ req[r].phase # "idle"
    /\ broken' = TRUE
    /\ Finish(r)
    /\ UNCHANGED rows

-----------------------------------------------------------------------------

Init ==
    /\ created = 0
    /\ branch = [b \in Branches |-> NewRow]
    /\ req = [r \in Requests |-> Idle]
    /\ broken = FALSE

Arrive(r) ==
    \/ \E active \in {"true", "false"}, primary \in {"true", "false"} :
          StartCreate(r, active, primary)
    \/ StartUpsert(r)
    \/ \E b \in Branches : \/ \E active, primary \in Field : StartUpdate(r, b, active, primary)
                           \/ StartDelete(r, b)

Continue(r) ==
    \/ LookForPrimary(r)
    \/ Insert(r)
    \/ ClearPrimary(r)
    \/ WriteUpdate(r)
    \/ CountActive(r)
    \/ WriteDelete(r)
    \/ FindNext(r)
    \/ Promote(r)

Next == \E r \in Requests : Arrive(r) \/ Continue(r) \/ Fail(r)

Spec == Init /\ [][Next]_vars

-----------------------------------------------------------------------------
(* Properties *)

\* Every variable keeps its type, and a row that was not created yet is untouched.
TypeOK ==
    /\ created \in 0 .. MaxBranches
    /\ branch \in [Branches -> BranchRow]
    /\ req \in [Requests -> Request]
    /\ broken \in BOOLEAN
    /\ \A b \in Branches \ Existing : branch[b] = NewRow

\* Two live branches are never both primary, even when handlers die half way, as long as
\* the requests about one business do not overlap.
OnePrimaryAtMost == \A b, d \in Primary : b = d

\* A business with a branch has a primary one whenever no handler is at work on it, as
\* long as handlers run to their end and do not overlap (softDelete promotes the next).
SomePrimary == Quiet /\ Live # {} /\ ~broken => Primary # {}

\* Deleting a branch leaves the business an active one.
DeletionsLeaveActive ==
    (\E b \in Existing : ~branch[b].deleted /\ branch'[b].deleted) => Active' # {}

\* "Cannot delete the last active branch"
LastActiveKept == [][DeletionsLeaveActive]_vars

=============================================================================
