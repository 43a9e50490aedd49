----------------------------- MODULE PromoCodes -----------------------------
(***************************************************************************)
(* The accounting of promo codes: applyInTransaction of                    *)
(* backend/src/modules/promo-codes/promo-codes.service.ts inside the       *)
(* transaction of createGuestOrder, the admin edits of a code, and         *)
(* clearTestData of restaurants.service.ts, which deletes orders and gives *)
(* their uses back.  The database is PostgreSQL at READ COMMITTED: a       *)
(* statement sees what is committed when it starts, an UPDATE waits for    *)
(* the row's lock and then tests its condition on the newest row, and a    *)
(* transaction holds the rows it updated until it ends.  tx[s] is the      *)
(* order transaction of slot s, clear[k] the clean-up of slot k.           *)
(***************************************************************************)
EXTENDS Integers, FiniteSets

CONSTANTS
    Orders,
    Codes,
    NoCode,         \* NULL in promoCodeId
    Businesses,
    BusinessOf,     \* order -> the business it is placed with
    Limits,         \* the usage limits an admin may set
    NoLimit,        \* NULL in usageLimit
    Slots,          \* order transactions that may be in flight together
    Clears,         \* clean-ups that may be in flight together
    ClearsOverlap   \* may two clean-ups of one business be in flight together?

ASSUME PromoAssumption ==
    /\ IsFiniteSet(Orders)
    /\ NoCode \notin Codes
    /\ BusinessOf \in [Orders -> Businesses]
    /\ Limits \subseteq Int
    /\ NoLimit \notin Int
    /\ ClearsOverlap \in BOOLEAN

VARIABLES
    promo,    \* code -> its row: isActive, usageLimit, usageCount
    orders,   \* order -> "absent", "placed" or "deleted"
    usage,    \* order -> the code its promo_code_usages row names, or NoCode
    tx,       \* slot -> its order transaction
    clear     \* slot -> its clean-up

vars == <<promo, orders, usage, tx, clear>>

Promo == [active : BOOLEAN, limit : Limits \union {NoLimit}, count : Int]

\* "reserve": the code was read and found eligible; "commit": its row is updated, not yet
\* committed; "refused": updateMany matched no row and the request is about to be answered
\* 'Promo code usage limit reached'.
Tx == [phase : {"idle", "reserve", "commit", "refused"}, order : Orders \union {"none"},
       code : Codes \union {NoCode}, seen : Int, limit : Limits \union {NoLimit}]

IdleTx == [phase |-> "idle", order |-> "none", code |-> NoCode, seen |-> 0,
           limit |-> NoLimit]

Clear == [phase : {"idle", "count", "delete"}, business : Businesses \union {"none"},
          ids : SUBSET Orders, counted : [Codes -> Nat]]

IdleClear == [phase |-> "idle", business |-> "none", ids |-> {},
              counted |-> [c \in Codes |-> 0]]

-----------------------------------------------------------------------------
(* Helpers *)

Uses(c, ids) == {o \in ids : usage[o] = c}

Usages(c) == Uses(c, Orders)

AtLimit(count, limit) == limit # NoLimit /\ count >= limit

\* The transaction that updated the code's row and has not ended yet.
Locked(c) == \E s \in Slots : tx[s].phase = "commit" /\ tx[s].code = c

Clearing(b) == {k \in Clears : clear[k].phase # "idle" /\ clear[k].business = b}

Unclaimed(o) == orders[o] = "absent" /\ \A s \in Slots : tx[s].order # o

-----------------------------------------------------------------------------
(* The admin's create, update and remove of a code *)

\* A code that is not active is not found, so creating one is an edit like the others.
EditCode(c, active, limit) ==
    /\ ~Locked(c)
    /\ promo' = [promo EXCEPT ![c].active = active, ![c].limit = limit]
    /\ UNCHANGED <<orders, usage, tx, clear>>

-----------------------------------------------------------------------------
(* createGuestOrder and applyInTransaction *)

PlaceWithoutCode(o) ==
    /\ Unclaimed(o)
    /\ orders' = [orders EXCEPT ![o] = "placed"]
    /\ UNCHANGED <<promo, usage, tx, clear>>

\* The read of the code and checkPromoEligibility.  The dates and the minimum amount are
\* left to chance: a code they rule out is refused here and changes nothing.
ReadCode(s, o, c) ==
    /\ tx[s].phase = "idle"
    /\ Unclaimed(o)
    /\ promo[c].active
    /\ ~AtLimit(promo[c].count, promo[c].limit)
    /\ tx' = [tx EXCEPT ![s] = [phase |-> "reserve", order |-> o, code |-> c,
                                seen |-> promo[c].count, limit |-> promo[c].limit]]
    /\ UNCHANGED <<promo, orders, usage, clear>>

\* Mutated form of Matches: updateMany by id and isActive alone.
MatchesAnyCount(q) == promo[q.code].active

\* Mutated form of Matches: a code an admin has switched off still counts.
MatchesInactive(q) == promo[q.code].count = q.seen /\ ~AtLimit(q.seen, q.limit)

\* The condition of updateMany, on the row as it is once its lock is free.
Matches(q) ==
    /\ promo[q.code].active
    /\ promo[q.code].count = q.seen
    /\ ~AtLimit(promo[q.code].count, q.limit)

Reserve(s) ==
    /\ tx[s].phase = "reserve"
    /\ ~Locked(tx[s].code)
    /\ tx' = [tx EXCEPT ![s].phase = IF Matches(tx[s]) THEN "commit" ELSE "refused"]
    /\ UNCHANGED <<promo, orders, usage, clear>>

\* The usage row, the totals and the end of the transaction: all of it appears at once.
CommitOrder(s) ==
    LET q == tx[s]
    IN  /\ q.phase = "commit"
        /\ promo' = [promo EXCEPT ![q.code].count = @ + 1]
        /\ orders' = [orders EXCEPT ![q.order] = "placed"]
        /\ usage' = [usage EXCEPT ![q.order] = q.code]
        /\ tx' = [tx EXCEPT ![s] = IdleTx]
        /\ UNCHANGED clear

\* Mutated form of Rollback: the increment was made outside the transaction.
RollbackUsageOnly(s) ==
    /\ tx[s].phase # "idle"
    /\ promo' = IF tx[s].phase = "commit"
                THEN [promo EXCEPT ![tx[s].code].count = @ + 1] ELSE promo
    /\ tx' = [tx EXCEPT ![s] = IdleTx]
    /\ UNCHANGED <<orders, usage, clear>>

\* The transaction ends without effect: refused, failed, timed out or cut off by a restart.
Rollback(s) ==
    /\ tx[s].phase # "idle"
    /\ tx' = [tx EXCEPT ![s] = IdleTx]
    /\ UNCHANGED <<promo, orders, usage, clear>>

-----------------------------------------------------------------------------
(* clearTestData, one business of the request at a time *)

\* The order ids are read before the transaction starts.
ReadOrders(k, b) ==
    LET ids == {o \in Orders : orders[o] = "placed" /\ BusinessOf[o] = b}
    IN  /\ clear[k].phase = "idle"
        /\ ClearsOverlap \/ Clearing(b) = {}
        /\ ids # {}
        /\ clear' = [clear EXCEPT ![k] = [IdleClear EXCEPT !.phase = "count",
                                                           !.business = b, !.ids = ids]]
        /\ UNCHANGED <<promo, orders, usage, tx>>

\* groupBy: how many uses of each code the orders account for.
CountUses(k) ==
    /\ clear[k].phase = "count"
    /\ clear' = [clear EXCEPT ![k].phase = "delete",
                              ![k].counted = [c \in Codes |->
                                                 Cardinality(Uses(c, clear[k].ids))]]
    /\ UNCHANGED <<promo, orders, usage, tx>>

\* Mutated form of DeleteOrders: the rows stay, marked.
HideOrders(k) ==
    /\ clear[k].phase = "delete"
    /\ \A c \in Codes : clear[k].counted[c] > 0 => ~Locked(c)
    /\ orders' = [o \in Orders |-> IF o \in clear[k].ids THEN "hidden" ELSE orders[o]]
    /\ usage' = [o \in Orders |-> IF o \in clear[k].ids THEN NoCode ELSE usage[o]]
    /\ promo' = [c \in Codes |-> [promo[c] EXCEPT !.count = @ - clear[k].counted[c]]]
    /\ clear' = [clear EXCEPT ![k] = IdleClear]
    /\ UNCHANGED tx

\* The deletions and the decrements, which wait for the codes an order transaction holds.
\* deleteMany removes what is still there; the decrement is by the number counted before.
DeleteOrders(k) ==
    LET q == clear[k]
    IN  /\ q.phase = "delete"
        /\ \A c \in Codes : q.counted[c] > 0 => ~Locked(c)
        /\ orders' = [o \in Orders |-> IF o \in q.ids THEN "deleted" ELSE orders[o]]
        /\ usage' = [o \in Orders |-> IF o \in q.ids THEN NoCode ELSE usage[o]]
        /\ promo' = [c \in Codes |-> [promo[c] EXCEPT !.count = @ - q.counted[c]]]
        /\ clear' = [clear EXCEPT ![k] = IdleClear]
        /\ UNCHANGED tx

RollbackClear(k) ==
    /\ clear[k].phase # "idle"
    /\ clear' = [clear EXCEPT ![k] = IdleClear]
    /\ UNCHANGED <<promo, orders, usage, tx>>

-----------------------------------------------------------------------------

Init ==
    /\ promo = [c \in Codes |-> [active |-> FALSE, limit |-> NoLimit, count |-> 0]]
    /\ orders = [o \in Orders |-> "absent"]
    /\ usage = [o \in Orders |-> NoCode]
    /\ tx = [s \in Slots |-> IdleTx]
    /\ clear = [k \in Clears |-> IdleClear]

Next ==
    \/ \E c \in Codes, active \in BOOLEAN, limit \in Limits \union {NoLimit} :
          EditCode(c, active, limit)
    \/ \E o \in Orders : PlaceWithoutCode(o)
    \/ \E s \in Slots, o \in Orders, c \in Codes : ReadCode(s, o, c)
    \/ \E s \in Slots : Reserve(s) \/ CommitOrder(s) \/ Rollback(s)
    \/ \E k \in Clears, b \in Businesses : ReadOrders(k, b)
    \/ \E k \in Clears : CountUses(k) \/ DeleteOrders(k) \/ RollbackClear(k)

Spec == Init /\ [][Next]_vars

-----------------------------------------------------------------------------
(* Properties *)

\* Every variable keeps its type: a committed order is placed or deleted, nothing else.
TypeOK ==
    /\ promo \in [Codes -> Promo]
    /\ orders \in [Orders -> {"absent", "placed", "deleted"}]
    /\ usage \in [Orders -> Codes \union {NoCode}]
    /\ tx \in [Slots -> Tx]
    /\ clear \in [Clears -> Clear]

\* usageCount of a code is the number of its usage rows, however orders, rollbacks and
\* clean-ups interleave, as long as no two clean-ups of one business overlap.
CountIsUsages == \A c \in Codes : promo[c].count = Cardinality(Usages(c))

\* In this step order o becomes a use of code c.
Grants(o, c) == usage[o] # c /\ usage'[o] = c

GrantsOnlyActive == \A o \in Orders : \A c \in Codes : Grants(o, c) => promo[c].active

\* No order gets a discount from a code that is switched off by the time the order is
\* committed, though the code was read earlier: updateMany asks for isActive again and
\* holds the row until the commit.
InactiveNeverGranted == [][GrantsOnlyActive]_vars

\* The transaction that grants it had read a limit the code is still below.
GrantsOnlyBelowLimit ==
    \A o \in Orders : \A c \in Codes :
        Grants(o, c) => \E s \in Slots : /\ tx[s].order = o
                                        /\ tx[s].code = c
                                        /\ ~AtLimit(Cardinality(Usages(c)), tx[s].limit)

\* An order becomes a use of a code only while the code has fewer uses than the limit the
\* order had read, of however many orders that read the same count, while the code is
\* edited and uses are given back, as long as no two clean-ups of one business overlap.
LimitNeverExceeded == [][GrantsOnlyBelowLimit]_vars

=============================================================================
