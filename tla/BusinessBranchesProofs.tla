----------------------- MODULE BusinessBranchesProofs -----------------------
(***************************************************************************)
(* Proofs about BusinessBranches, for any number of branches and request   *)
(* slots.                                                                  *)
(***************************************************************************)
EXTENDS BusinessBranches, FiniteSetTheorems, WellFoundedInduction, TLAPS

\* The two variables that hold the business's rows.
USE DEF rows

-----------------------------------------------------------------------------
(* Lemmas about the operators *)

LEMMA OldestIsMember ==
  ASSUME NEW S \in SUBSET Nat, S # {}
  PROVE  Oldest(S) \in S
  <1> DEFINE Less == {pair \in Nat \X Nat : pair[1] < pair[2]}
  <1>1. IsWellFoundedOn(Less, Nat)
    BY NatLessThanWellFounded DEF OpToRel
  <1>2. \A x, y \in Nat : x < y => <<x, y>> \in Less
    OBVIOUS
  <1> HIDE DEF Less
  <1>3. PICK x \in S : \A y \in S : ~(<<y, x>> \in Less)
    BY <1>1, WFMin
  <1>4. \A y \in S : ~(y < x)
    BY <1>2, <1>3
  <1>5. \A y \in S : x <= y
    BY <1>4
  <1> QED
    BY <1>5 DEF Oldest

LEMMA PrimaryFirstIsMember ==
  ASSUME NEW S \in SUBSET Nat, S # {}
  PROVE  /\ PrimaryFirst(S) \in S
         /\ S \cap Primary # {} => PrimaryFirst(S) \in Primary
  BY OldestIsMember DEF PrimaryFirst

\* Of two or more active branches, one is not the one to be deleted.
LEMMA AnotherActive ==
  ASSUME NEW S, NEW b, ~(Cardinality(S) <= 1), S \ {b} = {}
  PROVE  FALSE
  <1>1. S \subseteq {b}
    OBVIOUS
  <1>2. IsFiniteSet({b}) /\ Cardinality({b}) = 1
    BY FS_Singleton
  <1> QED
    BY <1>1, <1>2, FS_Subset

-----------------------------------------------------------------------------
(* Every interleaving *)

\* A request that works on a branch works on one that was created.
SlotOK(q) ==
    /\ q.phase = "clear" => q.op \in {"create", "update"} /\ q.primary = "true"
    /\ q.phase \in {"write", "count", "delete", "promote"} \/ (q.phase = "clear" /\ q.op = "update")
       => q.branch \in Existing

BranchInv == TypeOK /\ (\A r \in Requests : SlotOK(req[r]))

LEMMA InitBranchInv == Init => BranchInv
  <1> SUFFICES ASSUME Init  PROVE BranchInv
    OBVIOUS
  <1>1. NewRow \in BranchRow
    BY DEF BranchRow, NewRow
  <1>0. Idle \in Request /\ SlotOK(Idle)
    BY DEF SlotOK, Request, Idle, Field
  <1>2. created \in 0 .. MaxBranches
    BY BranchAssumption DEF Init
  <1>5. broken \in BOOLEAN
    BY Zenon DEF Init
  <1>3. branch \in [Branches -> BranchRow] /\ \A b \in Branches \ Existing : branch[b] = NewRow
    BY <1>1 DEF Init
  <1>4. req \in [Requests -> Request] /\ \A r \in Requests : SlotOK(req[r])
    BY <1>0 DEF Init
  <1> QED
    BY <1>2, <1>3, <1>4, <1>5 DEF BranchInv, TypeOK

LEMMA SlotsInNat ==
  ASSUME TypeOK
  PROVE  /\ created \in Nat
         /\ Existing \in SUBSET Branches
         /\ Branches \in SUBSET Nat
         /\ Live \in SUBSET Existing
         /\ Active \in SUBSET Live
         /\ Primary \in SUBSET Live
  BY BranchAssumption DEF TypeOK, Existing, Branches, Live, Active, Primary

LEMMA StartTyped ==
  ASSUME BranchInv, NEW r \in Requests, UNCHANGED <<rows, broken>>,
         NEW op \in {"create", "update", "delete"},
         NEW p \in {"clear", "look", "insert", "write", "count"},
         NEW b \in Nat, NEW a \in Field, NEW f \in Field, NEW w \in BOOLEAN,
         Start(r, op, p, b, a, f, w),
         p = "clear" => op \in {"create", "update"} /\ f = "true",
         p \in {"write", "count"} \/ (p = "clear" /\ op = "update") => b \in Existing
  PROVE  BranchInv'
  <1>1. PICK q : q = [phase |-> p, op |-> op, branch |-> b, active |-> a, primary |-> f,
                      wasPrimary |-> w]
    OBVIOUS
  <1>2. q \in Request /\ SlotOK(q)
    BY <1>1 DEF Request, SlotOK
  <1>3. req' = [req EXCEPT ![r] = q]
    BY <1>1 DEF Start
  <1> QED
    BY <1>2, <1>3 DEF BranchInv, TypeOK, SlotOK, Existing

LEMMA ArriveTyped ==
  ASSUME BranchInv, NEW r \in Requests, Arrive(r)
  PROVE  BranchInv'
  <1>0. TypeOK /\ Live \in SUBSET Existing /\ Existing \in SUBSET Nat
    BY SlotsInNat DEF BranchInv
  <1>1. ASSUME NEW a \in {"true", "false"}, NEW f \in {"true", "false"}, StartCreate(r, a, f)
        PROVE  BranchInv'
    BY <1>1, StartTyped DEF StartCreate, Field
  <1>2. CASE StartUpsert(r)
    <2>1. Live # {} => PrimaryFirst(Live) \in Existing
      BY <1>0, PrimaryFirstIsMember
    <2> QED
      BY <1>0, <1>2, <2>1, StartTyped DEF StartUpsert, Field
  <1>3. ASSUME NEW b \in Branches, NEW a \in Field, NEW f \in Field, StartUpdate(r, b, a, f)
        PROVE  BranchInv'
    <2>1. b \in Existing /\ b \in Nat /\ branch[b].primary \in BOOLEAN
      BY <1>0, <1>3 DEF StartUpdate, TypeOK, BranchRow
    <2> QED
      BY <1>3, <2>1, StartTyped DEF StartUpdate, Field
  <1>4. ASSUME NEW b \in Branches, StartDelete(r, b)  PROVE BranchInv'
    <2>1. b \in Existing /\ b \in Nat /\ branch[b].primary \in BOOLEAN
      BY <1>0, <1>4 DEF StartDelete, TypeOK, BranchRow
    <2> QED
      BY <1>4, <2>1, StartTyped DEF StartDelete, Field
  <1> QED
    BY <1>1, <1>2, <1>3, <1>4 DEF Arrive

\* A step of slot r that leaves it in a state q, with the rows well typed.
LEMMA StepTyped ==
  ASSUME BranchInv, NEW r \in Requests, NEW q \in Request, req' = [req EXCEPT ![r] = q],
         created' \in created .. MaxBranches,
         branch' \in [Branches -> BranchRow],
         broken' \in BOOLEAN,
         \A b \in Branches \ Existing' : branch'[b] = NewRow,
         SlotOK(q)'
  PROVE  BranchInv'
  <1>1. created \in Nat /\ MaxBranches \in Nat
    BY SlotsInNat, BranchAssumption DEF BranchInv
  <1>2. Existing \subseteq Existing'
    BY <1>1 DEF Existing
  <1>3. TypeOK'
    BY <1>1 DEF BranchInv, TypeOK
  <1>4. \A s \in Requests : SlotOK(req[s])'
    <2> SUFFICES ASSUME NEW s \in Requests  PROVE SlotOK(req[s])'
      OBVIOUS
    <2>1. CASE s = r
      BY <2>1 DEF BranchInv, TypeOK
    <2>2. CASE s # r
      BY <1>2, <2>2 DEF BranchInv, TypeOK, SlotOK
    <2> QED
      BY <2>1, <2>2
  <1> QED
    BY <1>3, <1>4 DEF BranchInv

\* A step of slot r that changes no row.
LEMMA ReadTyped ==
  ASSUME BranchInv, NEW r \in Requests, NEW q \in Request, req' = [req EXCEPT ![r] = q],
         UNCHANGED rows, broken' \in BOOLEAN,
         SlotOK(q)
  PROVE  BranchInv'
  BY DEF BranchInv, TypeOK, SlotOK, Existing

LEMMA ContinueTyped ==
  ASSUME BranchInv, NEW r \in Requests, Continue(r) \/ Fail(r)
  PROVE  BranchInv'
  <1>0. /\ TypeOK /\ req[r] \in Request /\ SlotOK(req[r])
        /\ created \in Nat /\ MaxBranches \in Nat /\ created <= MaxBranches
        /\ Active \in SUBSET Existing /\ Existing \in SUBSET Branches /\ Branches \in SUBSET Nat
    BY SlotsInNat, BranchAssumption DEF BranchInv, TypeOK
  <1>a. Continue(r) => broken' \in BOOLEAN
    BY <1>0 DEF Continue, LookForPrimary, Insert, ClearPrimary, WriteUpdate, CountActive,
       WriteDelete, FindNext, Promote, TypeOK
  <1>1. Idle \in Request /\ SlotOK(Idle) /\ SlotOK(Idle)'
    BY DEF Idle, Request, Field, SlotOK
  <1>2. ASSUME Finish(r), UNCHANGED rows, broken' \in BOOLEAN  PROVE BranchInv'
    BY <1>1, <1>2, ReadTyped DEF Finish
  <1>3. CASE LookForPrimary(r)
    <2>1. PICK q : q = [req[r] EXCEPT !.phase = "insert",
                                     !.primary = IF Primary = {} THEN "true" ELSE "false"]
      OBVIOUS
    <2>2. q \in Request /\ q.phase = "insert"
      BY <1>0, <2>1 DEF Request, Field
    <2>3. req' = [req EXCEPT ![r] = q]
      BY <1>3, <2>1 DEF LookForPrimary
    <2> QED
      BY <1>a, <1>3, <2>2, <2>3, ReadTyped DEF LookForPrimary, SlotOK, Continue
  <1>4. CASE Insert(r)
    <2>1. PICK row : row = [deleted |-> FALSE, active |-> req[r].active = "true",
                            primary |-> req[r].primary = "true"]
      OBVIOUS
    <2>2. row \in BranchRow /\ branch' = [branch EXCEPT ![created + 1] = row]
      BY <1>4, <2>1 DEF Insert, BranchRow
    <2>3. created' = created + 1 /\ created' \in created .. MaxBranches
      BY <1>0, <1>4 DEF Insert
    <2>4. \A b \in Branches \ Existing' : b \notin Existing /\ b # created + 1
      BY <1>0, <2>3 DEF Existing, Branches
    <2>5. \A b \in Branches \ Existing' : branch'[b] = NewRow
      BY <1>0, <2>2, <2>4 DEF TypeOK
    <2>6. branch' \in [Branches -> BranchRow]
      BY <1>0, <2>2 DEF TypeOK
    <2>7. req' = [req EXCEPT ![r] = Idle]
      BY <1>4 DEF Insert, Finish
    <2> QED
      BY <1>1, <1>4, <1>a, <2>3, <2>5, <2>6, <2>7, StepTyped DEF Continue
  <1>5. CASE ClearPrimary(r)
    <2>1. PICK q : q = [req[r] EXCEPT !.phase = IF req[r].op = "create" THEN "insert" ELSE "write"]
      OBVIOUS
    <2>2. /\ q \in Request
          /\ q.phase = "insert" \/ (q.phase = "write" /\ q.branch \in Existing)
      BY <1>0, <1>5, <2>1 DEF Request, ClearPrimary, SlotOK
    <2>3. req' = [req EXCEPT ![r] = q]
      BY <1>5, <2>1 DEF ClearPrimary, Goto
    <2>4. \A b \in Branches : [branch[b] EXCEPT !.primary = FALSE] \in BranchRow
      BY <1>0 DEF TypeOK, BranchRow
    <2>5. branch' \in [Branches -> BranchRow]
      BY <1>0, <1>5, <2>4 DEF ClearPrimary, TypeOK
    <2>6. \A b \in Branches \ Existing : branch'[b] = NewRow
      BY <1>0, <1>5 DEF ClearPrimary, TypeOK, Live
    <2>7. SlotOK(q)'
      BY <1>5, <2>2 DEF ClearPrimary, SlotOK, Existing
    <2>8. Existing' = Existing /\ created' \in created .. MaxBranches
      BY <1>0, <1>5 DEF ClearPrimary, Existing
    <2> QED
      BY <1>0, <1>a, <1>5, <2>2, <2>3, <2>5, <2>6, <2>7, <2>8, StepTyped DEF Continue
  <1>6. CASE WriteUpdate(r) \/ Promote(r) \/ WriteDelete(r)
    <2>1. PICK b \in Existing : b = req[r].branch
      BY <1>0, <1>6 DEF WriteUpdate, Promote, WriteDelete, SlotOK
    <2>2. PICK row \in BranchRow : branch' = [branch EXCEPT ![b] = row]
      <3>1. branch[b] \in BranchRow
        BY <1>0, <2>1 DEF TypeOK
      <3>2. CASE WriteUpdate(r)
        <4>1. [branch[b] EXCEPT !.active = Set(req[r].active, @),
                                !.primary = Set(req[r].primary, @)] \in BranchRow
          BY <3>1 DEF BranchRow, Set
        <4> QED
          BY <2>1, <3>2, <4>1 DEF WriteUpdate
      <3>3. CASE Promote(r)
        <4>1. [branch[b] EXCEPT !.primary = TRUE] \in BranchRow
          BY <3>1 DEF BranchRow
        <4> QED
          BY <2>1, <3>3, <4>1 DEF Promote
      <3>4. CASE WriteDelete(r)
        BY <2>1, <3>4 DEF WriteDelete, BranchRow
      <3> QED
        BY <1>6, <3>2, <3>3, <3>4
    <2>3. created' \in created .. MaxBranches /\ Existing' = Existing
      BY <1>0, <1>6 DEF WriteUpdate, Promote, WriteDelete, Existing
    <2>4. branch' \in [Branches -> BranchRow] /\ \A d \in Branches \ Existing : branch'[d] = NewRow
      BY <1>0, <2>1, <2>2 DEF TypeOK
    <2>5. PICK q \in Request : SlotOK(q)' /\ req' = [req EXCEPT ![r] = q]
      <3>1. [req[r] EXCEPT !.phase = "find"] \in Request /\ SlotOK([req[r] EXCEPT !.phase = "find"])'
        BY <1>0 DEF Request, SlotOK
      <3> QED
        BY <1>1, <1>6, <3>1 DEF WriteUpdate, Promote, WriteDelete, Finish, Goto
    <2> QED
      BY <1>0, <1>6, <1>a, <2>3, <2>4, <2>5, StepTyped DEF Continue
  <1>7. CASE CountActive(r)
    <2>1. PICK q : q = [req[r] EXCEPT !.phase = "delete"]
      OBVIOUS
    <2>2. q \in Request /\ q.phase = "delete" /\ q.branch \in Existing
      BY <1>0, <1>7, <2>1 DEF Request, CountActive, SlotOK
    <2>3. UNCHANGED rows /\ (Finish(r) \/ req' = [req EXCEPT ![r] = q])
      BY <1>7, <2>1 DEF CountActive, Goto
    <2>4. SlotOK(q)
      BY <2>2 DEF SlotOK
    <2> QED
      BY <1>2, <1>7, <1>a, <2>2, <2>3, <2>4, ReadTyped DEF Continue
  <1>8. CASE FindNext(r)
    <2>1. CASE Active = {}
      BY <1>2, <1>8, <1>a, <2>1 DEF FindNext, Continue
    <2>2. CASE Active # {}
      <3>1. PICK b \in Existing : b = Oldest(Active)
        BY <1>0, <2>2, OldestIsMember
      <3>2. PICK q : q = [req[r] EXCEPT !.phase = "promote", !.branch = b]
        OBVIOUS
      <3>3. q \in Request /\ q.phase = "promote" /\ q.branch \in Existing
        BY <1>0, <3>1, <3>2 DEF Request
      <3>4. UNCHANGED rows /\ req' = [req EXCEPT ![r] = q]
        BY <1>8, <2>2, <3>1, <3>2 DEF FindNext
      <3>5. SlotOK(q)
        BY <3>3 DEF SlotOK
      <3> QED
        BY <1>8, <1>a, <3>3, <3>4, <3>5, ReadTyped DEF Continue
    <2> QED
      BY <2>1, <2>2
  <1>9. CASE Fail(r)
    BY <1>2, <1>9 DEF Fail
  <1> QED
    BY <1>3, <1>4, <1>5, <1>6, <1>7, <1>8, <1>9 DEF Continue

LEMMA BranchStep ==
  ASSUME BranchInv, [Next]_vars
  PROVE  BranchInv'
  <1>1. CASE UNCHANGED vars
    BY <1>1 DEF vars, BranchInv, TypeOK, SlotOK, Existing
  <1> QED
    BY <1>1, ArriveTyped, ContinueTyped DEF Next

LEMMA BranchInvariant == Spec => []BranchInv
  <1>1. BranchInv /\ [Next]_vars => BranchInv'
    BY BranchStep
  <1> QED
    BY <1>1, InitBranchInv, PTL DEF Spec

\* Every reachable state is well typed, however requests overlap: no handler ever writes
\* to a branch that was not created.
THEOREM BranchTypes == Spec => []TypeOK
  BY BranchInvariant, PTL DEF BranchInv

-----------------------------------------------------------------------------
(* When the requests about the business do not overlap *)

OneAtATime == \A r, s \in Requests : req[r].phase # "idle" /\ req[s].phase # "idle" => r = s

\* What a handler has established so far is still true.
SlotFresh(q) ==
    /\ q.phase = "insert" =>
          /\ q.primary = "true" => Primary = {}
          /\ q.primary # "true" => Primary # {}
    /\ q.phase = "write" =>
          /\ q.branch \in Live
          /\ q.primary = "true" => Primary \subseteq {q.branch}
          /\ q.primary = "false" => q.branch \notin Primary
    /\ q.phase = "clear" => IF q.op = "create" THEN q.branch = 0 ELSE q.branch \in Live
    /\ q.phase \in {"count", "delete"} =>
          q.branch \in Live /\ (q.branch \in Primary => q.wasPrimary)
    /\ q.phase \in {"count", "delete"} /\ q.wasPrimary => Primary \subseteq {q.branch}
    /\ q.phase = "delete" => Active \ {q.branch} # {}
    /\ q.phase = "find" => Primary = {} /\ Active # {}
    /\ q.phase = "promote" => Primary = {} /\ q.branch \in Live

SerialInv ==
    /\ BranchInv
    /\ OneAtATime
    /\ OnePrimaryAtMost
    /\ \A r \in Requests : SlotFresh(req[r])

\* Nothing is asked of a slot that has finished.
LEMMA IdleFresh == SlotFresh(Idle) /\ SlotFresh(Idle)'
  BY DEF SlotFresh, Idle

LEMMA InitSerialInv == Init => SerialInv
  <1> SUFFICES ASSUME Init  PROVE SerialInv
    OBVIOUS
  <1>1. Existing = {}
    BY DEF Init, Existing
  <1>2. \A r \in Requests : req[r] = Idle /\ req[r].phase = "idle"
    BY DEF Init, Idle
  <1>3. OnePrimaryAtMost
    BY <1>1 DEF OnePrimaryAtMost, Primary, Live
  <1> QED
    BY <1>2, <1>3, InitBranchInv, IdleFresh DEF SerialInv, OneAtATime

\* A request that starts reads what it needs in the same query.
LEMMA StartKeeps ==
  ASSUME SerialInv, BranchInv', NEW r \in Requests, Quiet, UNCHANGED rows,
         NEW q, req' = [req EXCEPT ![r] = q], SlotFresh(q)
  PROVE  SerialInv'
  <1>1. /\ Live' = Live /\ Active' = Active /\ Primary' = Primary
    BY DEF Live, Active, Primary, Existing
  <1>2. /\ req'[r] = q
        /\ \A s \in Requests \ {r} : req'[s] = req[s] /\ req'[s].phase = "idle"
    BY DEF SerialInv, BranchInv, TypeOK, Quiet
  <1>3. \A s \in Requests : SlotFresh(req[s])'
    BY <1>1, <1>2 DEF SerialInv, SlotFresh
  <1> QED
    BY <1>1, <1>2, <1>3 DEF SerialInv, OneAtATime, OnePrimaryAtMost

LEMMA ArriveKeeps ==
  ASSUME Overlap = FALSE, SerialInv, BranchInv', NEW r \in Requests, Arrive(r)
  PROVE  SerialInv'
  <1>0. /\ TypeOK /\ OnePrimaryAtMost /\ Live \in SUBSET Nat
        /\ Primary \in SUBSET Live
    BY SlotsInNat DEF SerialInv, BranchInv
  <1>1. Quiet /\ UNCHANGED rows
    BY DEF Arrive, StartCreate, StartUpsert, StartUpdate, StartDelete, Free
  <1>2. ASSUME NEW a \in {"true", "false"}, NEW f \in {"true", "false"}, StartCreate(r, a, f)
        PROVE  SerialInv'
    <2>1. PICK q : q = [phase |-> IF f = "true" THEN "clear" ELSE "look", op |-> "create",
                        branch |-> 0, active |-> a, primary |-> f, wasPrimary |-> FALSE]
      OBVIOUS
    <2>2. SlotFresh(q) /\ req' = [req EXCEPT ![r] = q]
      BY <1>2, <2>1 DEF StartCreate, Start, SlotFresh
    <2> QED
      BY <1>1, <2>2, StartKeeps
  <1>3. CASE StartUpsert(r)
    <2>1. CASE Live = {}
      <3>1. PICK q : q = [phase |-> "insert", op |-> "create", branch |-> 0, active |-> "true",
                          primary |-> "true", wasPrimary |-> FALSE]
        OBVIOUS
      <3>2. SlotFresh(q) /\ req' = [req EXCEPT ![r] = q]
        BY <1>0, <1>3, <2>1, <3>1 DEF StartUpsert, Start, SlotFresh
      <3> QED
        BY <1>1, <3>2, StartKeeps
    <2>2. CASE Live # {}
      <3>1. PICK b \in Live : b = PrimaryFirst(Live) /\ Primary \subseteq {b}
        BY <1>0, <2>2, PrimaryFirstIsMember DEF OnePrimaryAtMost
      <3>2. PICK q : q = [phase |-> "write", op |-> "update", branch |-> b, active |-> "true",
                          primary |-> "true", wasPrimary |-> FALSE]
        OBVIOUS
      <3>3. SlotFresh(q) /\ req' = [req EXCEPT ![r] = q]
        BY <1>3, <2>2, <3>1, <3>2 DEF StartUpsert, Start, SlotFresh
      <3> QED
        BY <1>1, <3>3, StartKeeps
    <2> QED
      BY <2>1, <2>2
  <1>4. ASSUME NEW b \in Branches, NEW a \in Field, NEW f \in Field, StartUpdate(r, b, a, f)
        PROVE  SerialInv'
    <2>1. b \in Live /\ (f = "false" => b \notin Primary)
      BY <1>4 DEF StartUpdate, Primary
    <2>2. PICK q : q = [phase |-> IF f = "true" THEN "clear" ELSE "write", op |-> "update",
                        branch |-> b, active |-> a, primary |-> f,
                        wasPrimary |-> branch[b].primary]
      OBVIOUS
    <2>3. SlotFresh(q) /\ req' = [req EXCEPT ![r] = q]
      BY <1>4, <2>1, <2>2 DEF StartUpdate, Start, SlotFresh
    <2> QED
      BY <1>1, <2>3, StartKeeps
  <1>5. ASSUME NEW b \in Branches, StartDelete(r, b)  PROVE SerialInv'
    <2>1. b \in Live /\ (b \in Primary <=> branch[b].primary)
      BY <1>5 DEF StartDelete, Primary
    <2>2. b \in Primary => Primary \subseteq {b}
      BY <1>0 DEF OnePrimaryAtMost
    <2>3. PICK q : q = [phase |-> "count", op |-> "delete", branch |-> b, active |-> "keep",
                        primary |-> "keep", wasPrimary |-> branch[b].primary]
      OBVIOUS
    <2>4. SlotFresh(q) /\ req' = [req EXCEPT ![r] = q]
      BY <1>5, <2>1, <2>2, <2>3 DEF StartDelete, Start, SlotFresh
    <2> QED
      BY <1>1, <2>4, StartKeeps
  <1> QED
    BY <1>2, <1>3, <1>4, <1>5 DEF Arrive

\* A step of the one request in flight.
LEMMA ContinueFrame ==
  ASSUME SerialInv, BranchInv', NEW r \in Requests, req[r].phase # "idle",
         NEW q, req' = [req EXCEPT ![r] = q], SlotFresh(q)', OnePrimaryAtMost'
  PROVE  SerialInv'
  <1>1. /\ req'[r] = q
        /\ \A s \in Requests \ {r} : req'[s] = req[s] /\ req'[s].phase = "idle"
    BY DEF SerialInv, BranchInv, TypeOK, OneAtATime
  <1>2. \A s \in Requests : SlotFresh(req[s])'
    BY <1>1 DEF SlotFresh
  <1> QED
    BY <1>1, <1>2 DEF SerialInv, OneAtATime

\* One that changes no row.
LEMMA ReadKeeps ==
  ASSUME SerialInv, BranchInv', NEW r \in Requests, req[r].phase # "idle",
         UNCHANGED rows,
         NEW q, req' = [req EXCEPT ![r] = q], SlotFresh(q)
  PROVE  SerialInv'
  <1>1. /\ Live' = Live /\ Active' = Active /\ Primary' = Primary
    BY DEF Live, Active, Primary, Existing
  <1>2. SlotFresh(q)' /\ OnePrimaryAtMost'
    BY <1>1 DEF SlotFresh, SerialInv, OnePrimaryAtMost
  <1> QED
    BY <1>2, ContinueFrame

LEMMA ClearKeeps ==
  ASSUME SerialInv, BranchInv', NEW r \in Requests, ClearPrimary(r)
  PROVE  SerialInv'
  <1>0. /\ TypeOK /\ SlotOK(req[r]) /\ SlotFresh(req[r]) /\ OnePrimaryAtMost
        /\ Live \in SUBSET Branches /\ Existing \in SUBSET Branches
        /\ Primary \in SUBSET Live
    BY SlotsInNat DEF SerialInv, BranchInv
  <1>1. PICK b : b = req[r].branch
    OBVIOUS
  <1>2. branch' = [d \in Branches |-> IF d \in Live \ {b} THEN [branch[d] EXCEPT !.primary = FALSE]
                                     ELSE branch[d]]
        /\ UNCHANGED created /\ req[r].phase = "clear"
    BY <1>1 DEF ClearPrimary
  <1>3. \A d \in Branches : /\ branch'[d].deleted = branch[d].deleted
                            /\ d \in Live /\ d # b => ~branch'[d].primary
                            /\ d = b => branch'[d] = branch[d]
    BY <1>0, <1>2 DEF TypeOK, BranchRow
  <1>4. Live' = Live
    <2>1. Existing' = Existing
      BY <1>2 DEF Existing
    <2> QED
      BY <1>0, <1>3, <2>1 DEF Live
  <1>5. Primary' \subseteq {b} /\ (b \notin Live => Primary' = {})
    BY <1>0, <1>3, <1>4 DEF Primary
  <1>6. PICK q : q = [req[r] EXCEPT !.phase = IF req[r].op = "create" THEN "insert" ELSE "write"]
    OBVIOUS
  <1>7. /\ req' = [req EXCEPT ![r] = q]
        /\ q.phase = IF req[r].op = "create" THEN "insert" ELSE "write"
        /\ q.branch = b /\ q.primary = "true"
    BY <1>0, <1>1, <1>2, <1>6 DEF ClearPrimary, Goto, SlotOK, TypeOK, Request
  <1>8. req[r].op = "create" => b \notin Live
    BY <1>0, <1>1, <1>2 DEF SlotFresh, Branches
  <1>9. req[r].op # "create" => b \in Live
    BY <1>0, <1>1, <1>2 DEF SlotFresh
  <1>10. SlotFresh(q)'
    BY <1>4, <1>5, <1>7, <1>8, <1>9 DEF SlotFresh
  <1>11. OnePrimaryAtMost'
    BY <1>5 DEF OnePrimaryAtMost
  <1> QED
    BY <1>2, <1>7, <1>10, <1>11, ContinueFrame

\* What a write to one row does to the sets the handlers look at.
LEMMA RowWritten ==
  ASSUME TypeOK, NEW b \in Existing, NEW row \in BranchRow, UNCHANGED created,
         branch' = [branch EXCEPT ![b] = row]
  PROVE  /\ Live' \ {b} = Live \ {b}
         /\ Active' \ {b} = Active \ {b}
         /\ Primary' \ {b} = Primary \ {b}
         /\ b \in Live' <=> ~row.deleted
         /\ b \in Primary' <=> ~row.deleted /\ row.primary
  <1>0. b \in Branches /\ Existing \in SUBSET Branches /\ Existing' = Existing
    BY SlotsInNat DEF Existing
  <1>1. branch'[b] = row /\ \A d \in Branches \ {b} : branch'[d] = branch[d]
    BY <1>0 DEF TypeOK
  <1>2. Live' \ {b} = Live \ {b} /\ (b \in Live' <=> ~row.deleted)
    BY <1>0, <1>1 DEF Live
  <1>3. Live \in SUBSET Branches /\ Live' \in SUBSET Branches
    BY <1>0 DEF Live
  <1> QED
    BY <1>1, <1>2, <1>3 DEF Active, Primary

\* The last write of a handler.
LEMMA FinishKeeps ==
  ASSUME SerialInv, BranchInv', NEW r \in Requests, req[r].phase # "idle", Finish(r),
         OnePrimaryAtMost'
  PROVE  SerialInv'
  BY IdleFresh, ContinueFrame DEF Finish

LEMMA InsertKeeps ==
  ASSUME SerialInv, BranchInv', NEW r \in Requests, Insert(r)
  PROVE  SerialInv'
  <1>0. /\ TypeOK /\ SlotFresh(req[r]) /\ OnePrimaryAtMost /\ created \in Nat
        /\ Existing \in SUBSET Branches /\ MaxBranches \in Nat
    BY SlotsInNat, BranchAssumption DEF SerialInv, BranchInv
  <1>1. /\ req[r].phase = "insert" /\ created' = created + 1 /\ created + 1 \in Branches
        /\ Finish(r)
    BY <1>0 DEF Insert, Branches
  <1>2. PICK c : c = created + 1
    OBVIOUS
  <1>3. PICK row : row = [deleted |-> FALSE, active |-> req[r].active = "true",
                          primary |-> req[r].primary = "true"]
    OBVIOUS
  <1>4. /\ branch'[c] = row /\ \A d \in Existing : branch'[d] = branch[d]
        /\ Existing' = Existing \cup {c} /\ c \notin Existing
    <2>1. Existing' = Existing \cup {c} /\ c \notin Existing
      BY <1>0, <1>1, <1>2 DEF Existing
    <2>2. branch' = [branch EXCEPT ![c] = row]
      BY <1>2, <1>3 DEF Insert
    <2> QED
      BY <1>0, <1>1, <1>2, <2>1, <2>2 DEF TypeOK
  <1>5. Primary' \ {c} = Primary \ {c} /\ (c \in Primary' => req[r].primary = "true")
    <2>1. Live' = Live \cup {c} /\ Live \in SUBSET Existing
      BY <1>3, <1>4 DEF Live
    <2>2. \A d \in Live : d \in Primary' <=> d \in Primary
      BY <1>4, <2>1 DEF Primary
    <2>3. row.primary <=> req[r].primary = "true"
      BY <1>3
    <2> QED
      BY <1>4, <2>1, <2>2, <2>3 DEF Primary
  <1>6. c \in Primary' => Primary = {}
    BY <1>0, <1>1, <1>5 DEF SlotFresh
  <1>7. OnePrimaryAtMost'
    BY <1>0, <1>5, <1>6 DEF OnePrimaryAtMost
  <1> QED
    BY <1>1, <1>7, FinishKeeps

LEMMA WriteUpdateKeeps ==
  ASSUME SerialInv, BranchInv', NEW r \in Requests, WriteUpdate(r)
  PROVE  SerialInv'
  <1>0. /\ TypeOK /\ SlotFresh(req[r]) /\ OnePrimaryAtMost
        /\ req[r].phase = "write" /\ UNCHANGED created /\ Finish(r) /\ req[r] \in Request
    BY DEF SerialInv, BranchInv, WriteUpdate, TypeOK
  <1>1. PICK b \in Existing : b = req[r].branch /\ b \in Live
    BY <1>0, SlotsInNat DEF SlotFresh
  <1>2. branch[b] \in BranchRow
    BY <1>0, SlotsInNat DEF TypeOK
  <1>3. PICK row \in BranchRow : /\ row = [branch[b] EXCEPT !.active = Set(req[r].active, @),
                                                          !.primary = Set(req[r].primary, @)]
                                 /\ row.primary = Set(req[r].primary, branch[b].primary)
    <2>1. [branch[b] EXCEPT !.active = Set(req[r].active, @),
                            !.primary = Set(req[r].primary, @)] \in BranchRow
      BY <1>2 DEF BranchRow, Set
    <2>2. [branch[b] EXCEPT !.active = Set(req[r].active, @),
                            !.primary = Set(req[r].primary, @)].primary
          = Set(req[r].primary, branch[b].primary)
      BY <1>2 DEF BranchRow
    <2> QED
      BY <2>1, <2>2
  <1>4. branch' = [branch EXCEPT ![b] = row]
    BY <1>0, <1>1, <1>3 DEF WriteUpdate
  <1>5. Primary' \ {b} = Primary \ {b} /\ (b \in Primary' => row.primary)
    BY <1>0, <1>4, RowWritten
  <1>6. row.primary => b \in Primary \/ req[r].primary = "true"
    BY <1>0, <1>1, <1>2, <1>3 DEF Set, Primary
  <1>7. b \in Primary' => Primary \subseteq {b}
    BY <1>0, <1>1, <1>5, <1>6 DEF SlotFresh, OnePrimaryAtMost
  <1>8. OnePrimaryAtMost'
    BY <1>0, <1>5, <1>7 DEF OnePrimaryAtMost
  <1> QED
    BY <1>0, <1>8, FinishKeeps

LEMMA CountKeeps ==
  ASSUME SerialInv, BranchInv', NEW r \in Requests, CountActive(r)
  PROVE  SerialInv'
  <1>0. /\ req[r].phase = "count" /\ UNCHANGED rows /\ SlotFresh(req[r])
        /\ req[r] \in Request
    BY DEF SerialInv, BranchInv, TypeOK, CountActive
  <1>1. CASE Finish(r)
    BY <1>0, <1>1, IdleFresh, ReadKeeps DEF Finish
  <1>2. CASE ~(Cardinality(Active) <= 1) /\ Goto(r, "delete")
    <2>1. PICK q : q = [req[r] EXCEPT !.phase = "delete"]
      OBVIOUS
    <2>2. /\ q.phase = "delete" /\ q.branch = req[r].branch /\ q.wasPrimary = req[r].wasPrimary
          /\ req' = [req EXCEPT ![r] = q]
      BY <1>0, <1>2, <2>1 DEF Request, Goto
    <2>3. Active \ {q.branch} # {}
      BY <1>2, AnotherActive
    <2>4. SlotFresh(q)
      BY <1>0, <2>2, <2>3 DEF SlotFresh
    <2> QED
      BY <1>0, <2>2, <2>4, ReadKeeps
  <1> QED
    BY <1>1, <1>2 DEF CountActive

LEMMA DeleteKeeps ==
  ASSUME SerialInv, BranchInv', NEW r \in Requests, WriteDelete(r)
  PROVE  SerialInv' /\ DeletionsLeaveActive
  <1>0. /\ TypeOK /\ SlotFresh(req[r]) /\ OnePrimaryAtMost
        /\ req[r].phase = "delete" /\ UNCHANGED created /\ req[r] \in Request
    BY DEF SerialInv, BranchInv, WriteDelete, TypeOK
  <1>1. PICK b \in Existing : b = req[r].branch
    BY <1>0, SlotsInNat DEF SlotFresh
  <1>2. PICK row \in BranchRow : row = [deleted |-> TRUE, active |-> FALSE, primary |-> FALSE]
    BY DEF BranchRow
  <1>3. branch' = [branch EXCEPT ![b] = row]
    BY <1>1, <1>2 DEF WriteDelete
  <1>4. /\ Primary' \ {b} = Primary \ {b} /\ b \notin Primary'
        /\ Active' \ {b} = Active \ {b}
    BY <1>0, <1>2, <1>3, RowWritten
  <1>5. Active' # {}
    BY <1>0, <1>1, <1>4 DEF SlotFresh
  <1>6. OnePrimaryAtMost'
    BY <1>0, <1>4 DEF OnePrimaryAtMost
  <1>7. CASE Finish(r)
    BY <1>0, <1>5, <1>6, <1>7, FinishKeeps DEF DeletionsLeaveActive
  <1>8. CASE req[r].wasPrimary /\ Goto(r, "find")
    <2>1. PICK q : q = [req[r] EXCEPT !.phase = "find"]
      OBVIOUS
    <2>2. q.phase = "find" /\ req' = [req EXCEPT ![r] = q]
      BY <1>0, <1>8, <2>1 DEF Request, Goto
    <2>3. Primary' = {}
      BY <1>0, <1>1, <1>4, <1>8 DEF SlotFresh
    <2>4. SlotFresh(q)'
      BY <1>5, <2>2, <2>3 DEF SlotFresh
    <2> QED
      BY <1>0, <1>5, <1>6, <2>2, <2>4, ContinueFrame DEF DeletionsLeaveActive
  <1> QED
    BY <1>7, <1>8 DEF WriteDelete

LEMMA PromoteKeeps ==
  ASSUME SerialInv, BranchInv', NEW r \in Requests, Promote(r)
  PROVE  SerialInv'
  <1>0. /\ TypeOK /\ SlotFresh(req[r]) /\ req[r].phase = "promote" /\ UNCHANGED created
        /\ Finish(r)
    BY DEF SerialInv, BranchInv, Promote
  <1>1. PICK b \in Existing : b = req[r].branch
    BY <1>0, SlotsInNat DEF SlotFresh
  <1>2. PICK row \in BranchRow : branch' = [branch EXCEPT ![b] = row]
    <2>1. branch[b] \in BranchRow
      BY <1>0, SlotsInNat DEF TypeOK
    <2>2. [branch[b] EXCEPT !.primary = TRUE] \in BranchRow
      BY <2>1 DEF BranchRow
    <2> QED
      BY <1>1, <2>2 DEF Promote
  <1>3. Primary' \ {b} = Primary \ {b} /\ Primary = {}
    BY <1>0, <1>2, RowWritten DEF SlotFresh
  <1>4. OnePrimaryAtMost'
    BY <1>3 DEF OnePrimaryAtMost
  <1> QED
    BY <1>0, <1>4, FinishKeeps

\* The steps that only read.
LEMMA LookKeeps ==
  ASSUME SerialInv, BranchInv', NEW r \in Requests,
         LookForPrimary(r) \/ FindNext(r) \/ Fail(r)
  PROVE  SerialInv'
  <1>0. /\ TypeOK /\ SlotFresh(req[r]) /\ req[r].phase # "idle" /\ UNCHANGED rows
        /\ req[r] \in Request /\ Active \in SUBSET Nat /\ Active \in SUBSET Live
    BY SlotsInNat DEF SerialInv, BranchInv, TypeOK, LookForPrimary, FindNext, Fail
  <1>1. CASE Finish(r)
    BY <1>0, <1>1, IdleFresh, ReadKeeps DEF Finish
  <1>2. CASE LookForPrimary(r)
    <2>1. PICK q : q = [req[r] EXCEPT !.phase = "insert",
                                     !.primary = IF Primary = {} THEN "true" ELSE "false"]
      OBVIOUS
    <2>2. q.phase = "insert" /\ q.primary = IF Primary = {} THEN "true" ELSE "false"
      BY <1>0, <2>1 DEF Request
    <2>3. SlotFresh(q)
      BY <2>2 DEF SlotFresh
    <2>4. req' = [req EXCEPT ![r] = q]
      BY <1>2, <2>1 DEF LookForPrimary
    <2> QED
      BY <1>0, <2>3, <2>4, ReadKeeps
  <1>3. CASE FindNext(r) /\ Active # {}
    <2>1. PICK b \in Live : b = Oldest(Active)
      BY <1>0, <1>3, OldestIsMember
    <2>2. PICK q : q = [req[r] EXCEPT !.phase = "promote", !.branch = b]
      OBVIOUS
    <2>3. q.phase = "promote" /\ q.branch = b /\ Primary = {}
      BY <1>0, <1>3, <2>2 DEF Request, SlotFresh, FindNext
    <2>4. SlotFresh(q) /\ req' = [req EXCEPT ![r] = q]
      BY <1>3, <2>1, <2>2, <2>3 DEF SlotFresh, FindNext
    <2> QED
      BY <1>0, <2>4, ReadKeeps
  <1> QED
    BY <1>1, <1>2, <1>3 DEF FindNext, Fail

LEMMA SerialStep ==
  ASSUME Overlap = FALSE, SerialInv, [Next]_vars
  PROVE  SerialInv' /\ [DeletionsLeaveActive]_vars
  <1>0. BranchInv'
    BY BranchStep DEF SerialInv
  <1>1. CASE UNCHANGED vars
    BY <1>0, <1>1 DEF vars, SerialInv, OneAtATime, OnePrimaryAtMost, SlotFresh, Live, Active,
                      Primary, Existing
  <1>2. ASSUME NEW r \in Requests, Arrive(r)  PROVE SerialInv' /\ UNCHANGED rows
    <2>1. UNCHANGED rows
      BY <1>2 DEF Arrive, StartCreate, StartUpsert, StartUpdate, StartDelete
    <2> QED
      BY <1>0, <1>2, <2>1, ArriveKeeps
  <1>3. ASSUME NEW r \in Requests, Continue(r) \/ Fail(r)  PROVE SerialInv'
    BY <1>0, <1>3, InsertKeeps, ClearKeeps, WriteUpdateKeeps, CountKeeps, DeleteKeeps,
       PromoteKeeps, LookKeeps DEF Continue
  <1>4. ASSUME NEW r \in Requests, Continue(r) \/ Fail(r)  PROVE DeletionsLeaveActive
    <2>1. CASE WriteDelete(r)
      BY <1>0, <2>1, DeleteKeeps
    <2>2. CASE \A b \in Existing : branch'[b].deleted = branch[b].deleted
      BY <2>2 DEF DeletionsLeaveActive
    <2>3. TypeOK /\ created \in Nat /\ Existing \in SUBSET Branches
      BY SlotsInNat DEF SerialInv, BranchInv
    <2>4. ASSUME Insert(r), NEW b \in Existing  PROVE branch'[b].deleted = branch[b].deleted
      <3>1. b # created + 1 /\ b \in Branches
        BY <2>3 DEF Existing
      <3> QED
        BY <2>3, <2>4, <3>1 DEF Insert, TypeOK
    <2>5. ASSUME ClearPrimary(r), NEW b \in Existing
          PROVE  branch'[b].deleted = branch[b].deleted
      BY <2>3, <2>5 DEF ClearPrimary, TypeOK, BranchRow
    <2>6. ASSUME WriteUpdate(r) \/ Promote(r), NEW b \in Existing
          PROVE  branch'[b].deleted = branch[b].deleted
      BY <2>3, <2>6 DEF WriteUpdate, Promote, TypeOK, BranchRow
    <2>7. ASSUME LookForPrimary(r) \/ CountActive(r) \/ FindNext(r) \/ Fail(r),
                 NEW b \in Existing
          PROVE  branch'[b].deleted = branch[b].deleted
      BY <2>7 DEF LookForPrimary, CountActive, FindNext, Fail
    <2> QED
      BY <1>4, <2>1, <2>2, <2>4, <2>5, <2>6, <2>7 DEF Continue
  <1>5. UNCHANGED rows => DeletionsLeaveActive
    BY DEF DeletionsLeaveActive
  <1> QED
    BY <1>1, <1>2, <1>3, <1>4, <1>5 DEF Next

\* Handlers that run one at a time, even when they die half way, never leave two live
\* branches primary: clearPrimary comes before the write that sets the flag.
THEOREM OnePrimary ==
  ASSUME Overlap = FALSE
  PROVE  Spec => []OnePrimaryAtMost
  <1>1. SerialInv /\ [Next]_vars => SerialInv'
    BY SerialStep
  <1>2. SerialInv => OnePrimaryAtMost
    BY DEF SerialInv
  <1> QED
    BY <1>1, <1>2, InitSerialInv, PTL DEF Spec

\* Handlers that run one at a time never delete the last active branch: no other request
\* deactivates one between softDelete's count and its write.
THEOREM ActiveKept ==
  ASSUME Overlap = FALSE
  PROVE  Spec => LastActiveKept
  <1>1. SerialInv /\ [Next]_vars => SerialInv' /\ [DeletionsLeaveActive]_vars
    BY SerialStep
  <1> QED
    BY <1>1, InitSerialInv, PTL DEF Spec, LastActiveKept

-----------------------------------------------------------------------------
(* When, besides, no handler has died half way *)

\* The handler that took the flag away, or is about to give it, is still at work.
Pending(q) ==
    \/ q.phase \in {"find", "promote"}
    \/ q.phase \in {"insert", "write"} /\ q.primary = "true"

PrimaryPending ==
    Live # {} /\ Primary = {} /\ ~broken => \E r \in Requests : Pending(req[r])

\* Nothing but the request in flight can have taken the flag away.
LEMMA NotPending ==
  ASSUME SerialInv, PrimaryPending, ~broken, NEW r \in Requests, req[r].phase # "idle",
         ~Pending(req[r]), Live # {}
  PROVE  Primary # {}
  BY DEF SerialInv, OneAtATime, PrimaryPending, Pending

LEMMA PendingWrites ==
  ASSUME SerialInv, SerialInv', PrimaryPending, NEW r \in Requests,
         WriteUpdate(r) \/ WriteDelete(r) \/ Promote(r)
  PROVE  PrimaryPending'
  <1>b. UNCHANGED broken
    BY DEF WriteUpdate, WriteDelete, Promote
  <1> SUFFICES ASSUME ~broken  PROVE PrimaryPending'
    BY <1>b DEF PrimaryPending
  <1>0. /\ TypeOK /\ TypeOK' /\ SlotFresh(req[r]) /\ req[r].phase # "idle" /\ UNCHANGED created
        /\ req[r] \in Request
    BY DEF SerialInv, BranchInv, TypeOK, WriteUpdate, WriteDelete, Promote
  <1>1. PICK b \in Existing : b = req[r].branch /\ b \in Live
    BY <1>0, SlotsInNat DEF SlotFresh, WriteUpdate, WriteDelete, Promote
  <1>2. branch[b] \in BranchRow
    BY <1>0, SlotsInNat DEF TypeOK
  <1>3. CASE WriteUpdate(r)
    <2>1. PICK row \in BranchRow : /\ branch' = [branch EXCEPT ![b] = row]
                                   /\ row.deleted = branch[b].deleted
                                   /\ row.primary = Set(req[r].primary, branch[b].primary)
      <3>1. [branch[b] EXCEPT !.active = Set(req[r].active, @),
                              !.primary = Set(req[r].primary, @)] \in BranchRow
        BY <1>2 DEF BranchRow, Set
      <3>2. /\ [branch[b] EXCEPT !.active = Set(req[r].active, @),
                                 !.primary = Set(req[r].primary, @)].primary
               = Set(req[r].primary, branch[b].primary)
            /\ [branch[b] EXCEPT !.active = Set(req[r].active, @),
                                 !.primary = Set(req[r].primary, @)].deleted
               = branch[b].deleted
        BY <1>2 DEF BranchRow
      <3>3. branch' = [branch EXCEPT ![b] = [branch[b] EXCEPT !.active = Set(req[r].active, @),
                                                              !.primary = Set(req[r].primary, @)]]
        BY <1>1, <1>3 DEF WriteUpdate
      <3> QED
        BY <3>1, <3>2, <3>3
    <2>2. /\ Primary' \ {b} = Primary \ {b}
          /\ b \in Primary' <=> ~row.deleted /\ row.primary
      BY <1>0, <2>1, RowWritten
    <2>3. ~row.deleted /\ (b \in Primary <=> branch[b].primary)
      BY <1>1, <2>1 DEF Live, Primary
    <2>4. CASE req[r].primary = "true"
      BY <2>1, <2>2, <2>3, <2>4 DEF Set, PrimaryPending
    <2>5. CASE req[r].primary # "true"
      <3>1. Primary # {}
        BY <1>0, <1>1, <1>3, <2>5, NotPending DEF Pending, WriteUpdate
      <3>2. req[r].primary \in {"keep", "false"} /\ (req[r].primary = "false" => b \notin Primary)
        BY <1>0, <1>1, <1>3, <2>5 DEF SlotFresh, WriteUpdate, Request, Field
      <3>3. b \in Primary => row.primary
        BY <2>1, <2>3, <3>2 DEF Set
      <3> QED
        BY <2>2, <2>3, <3>1, <3>3 DEF PrimaryPending
    <2> QED
      BY <2>4, <2>5
  <1>4. CASE WriteDelete(r)
    <2>1. PICK row \in BranchRow : row = [deleted |-> TRUE, active |-> FALSE, primary |-> FALSE]
      BY DEF BranchRow
    <2>2. branch' = [branch EXCEPT ![b] = row]
      BY <1>1, <1>4, <2>1 DEF WriteDelete
    <2>3. Primary' \ {b} = Primary \ {b}
      BY <1>0, <2>2, RowWritten
    <2>4. CASE req[r].wasPrimary
      <3>1. req'[r].phase = "find"
        BY <1>0, <1>4, <2>4 DEF WriteDelete, Goto, TypeOK, Request
      <3> QED
        BY <3>1 DEF PrimaryPending, Pending
    <2>5. CASE ~req[r].wasPrimary
      <3>1. Primary # {}
        BY <1>0, <1>1, <1>4, NotPending DEF Pending, WriteDelete
      <3>2. b \notin Primary
        BY <1>0, <1>1, <1>4, <2>5 DEF SlotFresh, WriteDelete
      <3> QED
        BY <2>3, <3>1, <3>2 DEF PrimaryPending
    <2> QED
      BY <2>4, <2>5
  <1>5. CASE Promote(r)
    <2>1. PICK row \in BranchRow : /\ branch' = [branch EXCEPT ![b] = row]
                                   /\ row.deleted = branch[b].deleted /\ row.primary
      <3>1. /\ [branch[b] EXCEPT !.primary = TRUE] \in BranchRow
            /\ [branch[b] EXCEPT !.primary = TRUE].primary
            /\ [branch[b] EXCEPT !.primary = TRUE].deleted = branch[b].deleted
        BY <1>2 DEF BranchRow
      <3>2. branch' = [branch EXCEPT ![b] = [branch[b] EXCEPT !.primary = TRUE]]
        BY <1>1, <1>5 DEF Promote
      <3> QED
        BY <3>1, <3>2
    <2>2. b \in Primary'
      BY <1>0, <1>1, <2>1, RowWritten DEF Live
    <2> QED
      BY <2>2 DEF PrimaryPending
  <1> QED
    BY <1>3, <1>4, <1>5

LEMMA PendingInsert ==
  ASSUME SerialInv, NEW r \in Requests, Insert(r)
  PROVE  PrimaryPending'
  <1>0. /\ TypeOK /\ SlotFresh(req[r]) /\ created \in Nat
        /\ Existing \in SUBSET Branches /\ MaxBranches \in Nat
    BY SlotsInNat, BranchAssumption DEF SerialInv, BranchInv
  <1>1. req[r].phase = "insert" /\ created' = created + 1 /\ created + 1 \in Branches
    BY <1>0 DEF Insert, Branches
  <1>2. PICK c : c = created + 1
    OBVIOUS
  <1>3. PICK row : row = [deleted |-> FALSE, active |-> req[r].active = "true",
                          primary |-> req[r].primary = "true"]
    OBVIOUS
  <1>4. /\ branch'[c] = row /\ \A d \in Existing : branch'[d] = branch[d]
        /\ Existing' = Existing \cup {c}
    <2>1. Existing' = Existing \cup {c} /\ c \notin Existing
      BY <1>0, <1>1, <1>2 DEF Existing
    <2>2. branch' = [branch EXCEPT ![c] = row]
      BY <1>2, <1>3 DEF Insert
    <2> QED
      BY <1>0, <1>1, <1>2, <2>1, <2>2 DEF TypeOK
  <1>5. CASE req[r].primary = "true"
    <2>1. ~row.deleted /\ row.primary
      BY <1>3, <1>5
    <2>2. c \in Live'
      BY <1>4, <2>1 DEF Live
    <2>3. c \in Primary'
      BY <1>4, <2>1, <2>2 DEF Primary
    <2> QED
      BY <2>3 DEF PrimaryPending
  <1>6. CASE req[r].primary # "true"
    <2>1. PICK b \in Primary : TRUE
      BY <1>0, <1>1, <1>6 DEF SlotFresh
    <2>2. b \in Primary'
      BY <1>4, <2>1 DEF Primary, Live
    <2> QED
      BY <2>2 DEF PrimaryPending
  <1> QED
    BY <1>5, <1>6

LEMMA PendingStep ==
  ASSUME Overlap = FALSE, SerialInv, SerialInv', PrimaryPending, [Next]_vars
  PROVE  PrimaryPending'
  <1>1. ASSUME UNCHANGED rows
        PROVE  Live' = Live /\ Primary' = Primary /\ Active' = Active
    BY <1>1 DEF Live, Primary, Active, Existing
  <1>2. CASE UNCHANGED vars
    BY <1>1, <1>2 DEF vars, PrimaryPending, Pending
  <1>3. ASSUME NEW r \in Requests, Arrive(r)  PROVE PrimaryPending'
    <2>1. Quiet /\ UNCHANGED <<rows, broken>>
      BY <1>3 DEF Arrive, StartCreate, StartUpsert, StartUpdate, StartDelete, Free
    <2>2. ~(Live # {} /\ Primary = {} /\ ~broken)
      BY <2>1 DEF Quiet, PrimaryPending, Pending
    <2> QED
      BY <1>1, <2>1, <2>2 DEF PrimaryPending
  <1>4. ASSUME NEW r \in Requests, ClearPrimary(r)  PROVE PrimaryPending'
    <2>1. TypeOK /\ SlotOK(req[r]) /\ req[r] \in Request
      BY DEF SerialInv, BranchInv, TypeOK
    <2>2. req'[r].phase \in {"insert", "write"} /\ req'[r].primary = "true"
      BY <1>4, <2>1 DEF ClearPrimary, Goto, SlotOK, TypeOK, Request
    <2> QED
      BY <2>2 DEF PrimaryPending, Pending
  <1>5. ASSUME NEW r \in Requests, LookForPrimary(r)  PROVE PrimaryPending'
    <2>1. TypeOK /\ req[r] \in Request
      BY DEF SerialInv, BranchInv, TypeOK
    <2>2. Primary = {} => req'[r].phase = "insert" /\ req'[r].primary = "true"
      BY <1>5, <2>1 DEF LookForPrimary, TypeOK, Request
    <2> QED
      BY <1>1, <1>5, <2>2 DEF LookForPrimary, PrimaryPending, Pending
  <1>6. ASSUME NEW r \in Requests, CountActive(r)  PROVE PrimaryPending'
    <2>1. Live # {} /\ ~broken => Primary # {}
      BY <1>6, NotPending DEF CountActive, Pending
    <2> QED
      BY <1>1, <1>6, <2>1 DEF CountActive, PrimaryPending
  <1>7. ASSUME NEW r \in Requests, FindNext(r)  PROVE PrimaryPending'
    <2>1. TypeOK /\ req[r] \in Request /\ SlotFresh(req[r])
      BY DEF SerialInv, BranchInv, TypeOK
    <2>2. req'[r].phase = "promote"
      BY <1>7, <2>1 DEF FindNext, SlotFresh, TypeOK, Request
    <2> QED
      BY <2>2 DEF PrimaryPending, Pending
  <1>8. ASSUME NEW r \in Requests, Fail(r)  PROVE PrimaryPending'
    BY <1>8 DEF Fail, PrimaryPending
  <1> QED
    BY <1>2, <1>3, <1>4, <1>5, <1>6, <1>7, <1>8, PendingWrites, PendingInsert DEF Next, Continue

\* Handlers that run one at a time, and all of them to their end, leave a business that has a branch with
\* a primary one: softDelete promotes another, and create makes the first one primary.
THEOREM APrimary ==
  ASSUME Overlap = FALSE
  PROVE  Spec => []SomePrimary
  <1>1. Init => SerialInv /\ PrimaryPending
    BY InitSerialInv DEF Init, PrimaryPending, Live, Existing
  <1>2. SerialInv /\ PrimaryPending /\ [Next]_vars => (SerialInv /\ PrimaryPending)'
    BY SerialStep, PendingStep
  <1>3. PrimaryPending => SomePrimary
    BY DEF PrimaryPending, SomePrimary, Quiet, Pending
  <1> QED
    BY <1>1, <1>2, <1>3, PTL DEF Spec

=============================================================================
