-------------------------- MODULE PromoCodesProofs --------------------------
(***************************************************************************)
(* Proofs about PromoCodes, for any finite set of orders and any sets of   *)
(* codes, businesses, limits and slots.                                    *)
(***************************************************************************)
EXTENDS PromoCodes, FiniteSetTheorems, TLAPS

-----------------------------------------------------------------------------
(* What holds of every interleaving *)

\* A transaction in flight is about an order that does not exist yet.
TxOK(s) ==
    tx[s].phase # "idle" =>
        /\ tx[s].order \in Orders
        /\ tx[s].code \in Codes
        /\ orders[tx[s].order] = "absent"

OwnOrders ==
    \A s, t \in Slots :
        s # t /\ tx[s].phase # "idle" /\ tx[t].phase # "idle" => tx[s].order # tx[t].order

\* Only placed orders have a usage row, and a clean-up works on orders that existed.
RowsOK ==
    /\ \A o \in Orders : orders[o] # "placed" => usage[o] = NoCode
    /\ \A k \in Clears : \A o \in clear[k].ids : orders[o] # "absent"

\* The code whose row a transaction holds is active: nobody edits it meanwhile.
ActiveHeld == \A s \in Slots : tx[s].phase = "commit" => promo[tx[s].code].active

PromoInv == TypeOK /\ (\A s \in Slots : TxOK(s)) /\ OwnOrders /\ RowsOK /\ ActiveHeld

LEMMA InitPromoInv == Init => PromoInv
  BY PromoAssumption
  DEF Init, PromoInv, TypeOK, TxOK, OwnOrders, RowsOK, ActiveHeld, Promo, Tx, IdleTx, Clear,
      IdleClear

LEMMA UsesFinite ==
  ASSUME NEW c, NEW ids \in SUBSET Orders
  PROVE  /\ IsFiniteSet(Uses(c, ids))
         /\ Cardinality(Uses(c, ids)) \in Nat
  BY PromoAssumption, FS_Subset, FS_CardinalityType DEF Uses

LEMMA TxTyped ==
  ASSUME TypeOK, NEW s \in Slots
  PROVE  /\ tx[s] \in Tx
         /\ tx[s].seen \in Int
         /\ tx[s].limit \in Limits \union {NoLimit}
  BY DEF TypeOK, Tx

LEMMA CodeTyped ==
  ASSUME TypeOK, NEW c \in Codes
  PROVE  /\ promo[c] \in Promo
         /\ promo[c].count \in Int
         /\ promo[c].active \in BOOLEAN
         /\ promo[c].limit \in Limits \union {NoLimit}
  BY DEF TypeOK, Promo

LEMMA ClearTyped ==
  ASSUME TypeOK, NEW k \in Clears
  PROVE  /\ clear[k] \in Clear
         /\ clear[k].ids \in SUBSET Orders
         /\ clear[k].counted \in [Codes -> Nat]
  BY DEF TypeOK, Clear

LEMMA TypeStep ==
  ASSUME PromoInv, [Next]_vars
  PROVE  TypeOK'
  <1>0. TypeOK
    BY DEF PromoInv
  <1>1. ASSUME NEW c \in Codes, NEW active \in BOOLEAN, NEW limit \in Limits \union {NoLimit},
               EditCode(c, active, limit)
        PROVE  TypeOK'
    BY <1>0, <1>1 DEF EditCode, TypeOK, Promo
  <1>2. ASSUME NEW o \in Orders, PlaceWithoutCode(o)  PROVE TypeOK'
    BY <1>0, <1>2 DEF PlaceWithoutCode, TypeOK
  <1>3. ASSUME NEW s \in Slots, NEW o \in Orders, NEW c \in Codes, ReadCode(s, o, c)
        PROVE  TypeOK'
    BY <1>0, <1>3, CodeTyped DEF ReadCode, TypeOK, Tx
  <1>4. ASSUME NEW s \in Slots, Reserve(s)  PROVE TypeOK'
    BY <1>0, <1>4 DEF Reserve, TypeOK, Tx
  <1>5. ASSUME NEW s \in Slots, CommitOrder(s)  PROVE TypeOK'
    <2>1. tx[s].code \in Codes /\ tx[s].order \in Orders
      BY <1>5 DEF CommitOrder, PromoInv, TxOK
    <2>2. IdleTx \in Tx
      BY PromoAssumption DEF IdleTx, Tx
    <2>3. tx' \in [Slots -> Tx]
      BY <1>0, <1>5, <2>2 DEF CommitOrder, TypeOK
    <2>4. promo' \in [Codes -> Promo]
      BY <1>0, <1>5, <2>1 DEF CommitOrder, TypeOK, Promo
    <2> QED
      BY <1>0, <1>5, <2>1, <2>3, <2>4 DEF CommitOrder, TypeOK
  <1>6. ASSUME NEW s \in Slots, Rollback(s)  PROVE TypeOK'
    BY <1>0, <1>6 DEF Rollback, TypeOK, Tx, IdleTx
  <1>7. ASSUME NEW k \in Clears, NEW b \in Businesses, ReadOrders(k, b)  PROVE TypeOK'
    BY <1>0, <1>7 DEF ReadOrders, TypeOK, Clear, IdleClear
  <1>8. ASSUME NEW k \in Clears, CountUses(k)  PROVE TypeOK'
    <2>1. [c \in Codes |-> Cardinality(Uses(c, clear[k].ids))] \in [Codes -> Nat]
      BY <1>0, UsesFinite, ClearTyped
    <2> QED
      BY <1>0, <1>8, <2>1, ZenonT(60) DEF CountUses, TypeOK, Clear
  <1>9. ASSUME NEW k \in Clears, DeleteOrders(k)  PROVE TypeOK'
    <2>1. \A c \in Codes : [promo[c] EXCEPT !.count = @ - clear[k].counted[c]] \in Promo
      BY <1>0, CodeTyped, ClearTyped DEF Promo
    <2>2. IdleClear \in Clear
      BY DEF IdleClear, Clear
    <2>3. clear' \in [Clears -> Clear]
      BY <1>0, <1>9, <2>2 DEF DeleteOrders, TypeOK
    <2> QED
      BY <1>0, <1>9, <2>1, <2>3 DEF DeleteOrders, TypeOK
  <1>10. ASSUME NEW k \in Clears, RollbackClear(k)  PROVE TypeOK'
    BY <1>0, <1>10 DEF RollbackClear, TypeOK, Clear, IdleClear
  <1>11. CASE UNCHANGED vars
    BY <1>0, <1>11 DEF vars, TypeOK
  <1> QED
    BY <1>1, <1>2, <1>3, <1>4, <1>5, <1>6, <1>7, <1>8, <1>9, <1>10, <1>11 DEF Next

LEMMA PromoStep ==
  ASSUME PromoInv, [Next]_vars
  PROVE  PromoInv'
  <1>0. TypeOK /\ TypeOK'
    BY TypeStep DEF PromoInv
  <1>1. ASSUME NEW c \in Codes, NEW active \in BOOLEAN, NEW limit \in Limits \union {NoLimit},
               EditCode(c, active, limit)
        PROVE  PromoInv'
    <2>1. \A d \in Codes : d # c => promo'[d] = promo[d]
      BY <1>0, <1>1 DEF EditCode, TypeOK
    <2>2. ActiveHeld'
      BY <1>1, <2>1 DEF EditCode, Locked, PromoInv, TxOK, ActiveHeld
    <2> QED
      BY <1>0, <1>1, <2>2 DEF EditCode, PromoInv, TxOK, OwnOrders, RowsOK
  <1>2. ASSUME NEW o \in Orders, PlaceWithoutCode(o)  PROVE PromoInv'
    <2>1. \A s \in Slots : tx[s].order # o
      BY <1>2 DEF PlaceWithoutCode, Unclaimed
    <2> QED
      BY <1>0, <1>2, <2>1, ClearTyped
      DEF PlaceWithoutCode, Unclaimed, PromoInv, TxOK, OwnOrders, RowsOK, ActiveHeld, TypeOK
  <1>3. ASSUME NEW s \in Slots, NEW o \in Orders, NEW c \in Codes, ReadCode(s, o, c)
        PROVE  PromoInv'
    <2>1. \A t \in Slots : t # s => tx'[t] = tx[t]
      BY <1>0, <1>3 DEF ReadCode, TypeOK
    <2>2. tx'[s].phase = "reserve" /\ tx'[s].order = o /\ tx'[s].code = c
      BY <1>0, <1>3 DEF ReadCode, TypeOK
    <2>3. orders[o] = "absent" /\ \A t \in Slots : tx[t].order # o
      BY <1>3 DEF ReadCode, Unclaimed
    <2>4. UNCHANGED <<promo, orders, usage, clear>>
      BY <1>3 DEF ReadCode
    <2> QED
      BY <1>0, <2>1, <2>2, <2>3, <2>4
      DEF PromoInv, TxOK, OwnOrders, RowsOK, ActiveHeld
  <1>4. ASSUME NEW s \in Slots, Reserve(s)  PROVE PromoInv'
    <2>1. \A t \in Slots : t # s => tx'[t] = tx[t]
      BY <1>0, <1>4 DEF Reserve, TypeOK
    <2>2. /\ tx'[s].order = tx[s].order
          /\ tx'[s].code = tx[s].code
          /\ tx[s].phase # "idle"
          /\ tx'[s].phase = "commit" => promo[tx[s].code].active
      BY <1>0, <1>4, TxTyped DEF Reserve, TypeOK, Tx, Matches
    <2>3. UNCHANGED <<promo, orders, usage, clear>>
      BY <1>4 DEF Reserve
    <2> QED
      BY <1>0, <2>1, <2>2, <2>3 DEF PromoInv, TxOK, OwnOrders, RowsOK, ActiveHeld
  <1>5. ASSUME NEW s \in Slots, CommitOrder(s)  PROVE PromoInv'
    <2>1. PICK o \in Orders : o = tx[s].order /\ orders[o] = "absent" /\ tx[s].phase = "commit"
      BY <1>5 DEF CommitOrder, PromoInv, TxOK
    <2>2. /\ tx' = [tx EXCEPT ![s] = IdleTx]
          /\ orders' = [orders EXCEPT ![o] = "placed"]
          /\ \A p \in Orders : p # o => usage'[p] = usage[p]
          /\ UNCHANGED clear
      BY <1>0, <1>5, <2>1 DEF CommitOrder, TypeOK
    <2>3. /\ tx'[s].phase = "idle"
          /\ \A t \in Slots : t # s => tx'[t] = tx[t]
          /\ \A t \in Slots : t # s /\ tx[t].phase # "idle" => tx[t].order # o
      BY <1>0, <2>1, <2>2 DEF TypeOK, IdleTx, PromoInv, OwnOrders
    <2>4. \A c \in Codes : promo'[c].active = promo[c].active
      BY <1>0, <1>5, CodeTyped DEF CommitOrder, TypeOK, Promo
    <2>5. (\A t \in Slots : TxOK(t))'
      BY <1>0, <2>2, <2>3 DEF PromoInv, TxOK, TypeOK
    <2>6. OwnOrders' /\ ActiveHeld'
      BY <2>3, <2>4 DEF PromoInv, TxOK, OwnOrders, ActiveHeld
    <2>7. RowsOK'
      BY <1>0, <2>2, ClearTyped DEF PromoInv, RowsOK, TypeOK
    <2> QED
      BY <1>0, <2>5, <2>6, <2>7 DEF PromoInv
  <1>6. ASSUME NEW s \in Slots, Rollback(s)  PROVE PromoInv'
    <2>1. /\ tx'[s].phase = "idle"
          /\ \A t \in Slots : t # s => tx'[t] = tx[t]
          /\ UNCHANGED <<promo, orders, usage, clear>>
      BY <1>0, <1>6 DEF Rollback, TypeOK, IdleTx
    <2> QED
      BY <1>0, <2>1 DEF PromoInv, TxOK, OwnOrders, RowsOK, ActiveHeld
  <1>7. ASSUME NEW k \in Clears, NEW b \in Businesses, ReadOrders(k, b)  PROVE PromoInv'
    <2>1. /\ \A j \in Clears : j # k => clear'[j] = clear[j]
          /\ clear'[k].ids = {o \in Orders : orders[o] = "placed" /\ BusinessOf[o] = b}
          /\ UNCHANGED <<promo, orders, usage, tx>>
      BY <1>0, <1>7 DEF ReadOrders, TypeOK, IdleClear
    <2> QED
      BY <1>0, <2>1 DEF PromoInv, TxOK, OwnOrders, RowsOK, ActiveHeld
  <1>8. ASSUME NEW k \in Clears, CountUses(k)  PROVE PromoInv'
    <2>1. /\ \A j \in Clears : clear'[j].ids = clear[j].ids
          /\ UNCHANGED <<promo, orders, usage, tx>>
      BY <1>0, <1>8 DEF CountUses, TypeOK, Clear
    <2> QED
      BY <1>0, <2>1 DEF PromoInv, TxOK, OwnOrders, RowsOK, ActiveHeld
  <1>9. ASSUME NEW k \in Clears, DeleteOrders(k)  PROVE PromoInv'
    <2>1. /\ \A j \in Clears : j # k => clear'[j] = clear[j]
          /\ clear'[k].ids = {}
          /\ UNCHANGED tx
      BY <1>0, <1>9 DEF DeleteOrders, TypeOK, IdleClear
    <2>2. \A c \in Codes : promo'[c].active = promo[c].active
      BY <1>0, <1>9, CodeTyped DEF DeleteOrders, Promo
    <2>3. \A o \in Orders : /\ o \in clear[k].ids => orders'[o] = "deleted" /\ usage'[o] = NoCode
                            /\ o \notin clear[k].ids => orders'[o] = orders[o] /\ usage'[o] = usage[o]
      BY <1>9 DEF DeleteOrders
    <2>4. RowsOK'
      BY <1>0, <2>1, <2>3, ClearTyped DEF PromoInv, RowsOK
    <2> QED
      BY <1>0, <2>1, <2>2, <2>3, <2>4 DEF PromoInv, TxOK, OwnOrders, RowsOK, ActiveHeld
  <1>10. ASSUME NEW k \in Clears, RollbackClear(k)  PROVE PromoInv'
    <2>1. /\ \A j \in Clears : j # k => clear'[j] = clear[j]
          /\ clear'[k].ids = {}
          /\ UNCHANGED <<promo, orders, usage, tx>>
      BY <1>0, <1>10 DEF RollbackClear, TypeOK, IdleClear
    <2> QED
      BY <1>0, <2>1 DEF PromoInv, TxOK, OwnOrders, RowsOK, ActiveHeld
  <1>11. CASE UNCHANGED vars
    BY <1>0, <1>11 DEF vars, PromoInv, TxOK, OwnOrders, RowsOK, ActiveHeld
  <1> QED
    BY <1>1, <1>2, <1>3, <1>4, <1>5, <1>6, <1>7, <1>8, <1>9, <1>10, <1>11 DEF Next

LEMMA PromoInvariant == Spec => []PromoInv
  <1>1. PromoInv /\ [Next]_vars => PromoInv'
    BY PromoStep
  <1> QED
    BY <1>1, InitPromoInv, PTL DEF Spec

\* Every reachable state is well typed: orders are placed or deleted whole.
THEOREM PromoTypes == Spec => []TypeOK
  BY PromoInvariant, PTL DEF PromoInv

\* The only step that adds a use of a code is the commit of an order transaction.
LEMMA GrantIsCommit ==
  ASSUME PromoInv, [Next]_vars, NEW o \in Orders, NEW c \in Codes, Grants(o, c)
  PROVE  \E s \in Slots : CommitOrder(s) /\ tx[s].order = o /\ tx[s].code = c
  <1>1. usage'[o] # usage[o] /\ usage'[o] # NoCode
    BY PromoAssumption DEF Grants
  <1>2. PICK s \in Slots : CommitOrder(s)
    BY <1>1, PromoAssumption
    DEF Next, vars, EditCode, PlaceWithoutCode, ReadCode, Reserve, Rollback, ReadOrders,
        CountUses, DeleteOrders, RollbackClear
  <1>3. tx[s].order = o /\ tx[s].code = c
    BY <1>2 DEF CommitOrder, Grants, PromoInv, TypeOK
  <1> QED
    BY <1>2, <1>3

\* A code that an admin has switched off is given to no further order
\* (applyInTransaction's second look at isActive and the lock of its update).
THEOREM OnlyActiveGranted == Spec => InactiveNeverGranted
  <1>1. PromoInv /\ [Next]_vars => [GrantsOnlyActive]_vars
    <2> SUFFICES ASSUME PromoInv, [Next]_vars, NEW o \in Orders, NEW c \in Codes, Grants(o, c)
                 PROVE  promo[c].active
      BY DEF GrantsOnlyActive
    <2>1. PICK s \in Slots : CommitOrder(s) /\ tx[s].order = o /\ tx[s].code = c
      BY GrantIsCommit
    <2>2. tx[s].phase = "commit"
      BY <2>1 DEF CommitOrder
    <2> QED
      BY <2>1, <2>2 DEF PromoInv, ActiveHeld
  <1> QED
    BY <1>1, PromoInvariant, PTL DEF Spec, InactiveNeverGranted

-----------------------------------------------------------------------------
(* When the clean-ups of one business do not overlap *)

\* A clean-up works on placed orders of its business, and what it counted is what it will
\* delete.
ClearOK(k) ==
    /\ clear[k].phase # "idle" =>
          \A o \in clear[k].ids : orders[o] = "placed" /\ BusinessOf[o] = clear[k].business
    /\ clear[k].phase = "delete" =>
          \A c \in Codes : clear[k].counted[c] = Cardinality(Uses(c, clear[k].ids))

AloneClear ==
    \A k, j \in Clears :
        k # j /\ clear[k].phase # "idle" /\ clear[j].phase # "idle"
        => clear[k].business # clear[j].business

CountInv == PromoInv /\ (\A k \in Clears : ClearOK(k)) /\ AloneClear /\ CountIsUsages

LEMMA InitCountInv == Init => CountInv
  <1> SUFFICES ASSUME Init  PROVE CountInv
    OBVIOUS
  <1>1. \A c \in Codes : Usages(c) = {}
    BY PromoAssumption DEF Init, Usages, Uses
  <1> QED
    BY <1>1, InitPromoInv, FS_EmptySet
    DEF Init, CountInv, ClearOK, AloneClear, CountIsUsages, IdleClear

\* A step that changes no usage row, no count and no placed order keeps the counts.
LEMMA CountsKept ==
  ASSUME CountInv, PromoInv', UNCHANGED usage,
         \A c \in Codes : promo'[c].count = promo[c].count,
         \A k \in Clears : ClearOK(k)',
         AloneClear'
  PROVE  CountInv'
  <1>1. \A c \in Codes : Usages(c)' = Usages(c)
    BY DEF Usages, Uses
  <1> QED
    BY <1>1 DEF CountInv, CountIsUsages

\* Such a step that leaves the clean-ups alone too.
LEMMA ClearsKept ==
  ASSUME CountInv, PromoInv', UNCHANGED <<usage, clear>>,
         \A c \in Codes : promo'[c].count = promo[c].count,
         \A o \in Orders : orders[o] = "placed" => orders'[o] = "placed"
  PROVE  CountInv'
  <1>1. \A k \in Clears : ClearOK(k)'
    <2> SUFFICES ASSUME NEW k \in Clears  PROVE ClearOK(k)'
      OBVIOUS
    <2>1. \A c \in Codes : Uses(c, clear[k].ids)' = Uses(c, clear[k].ids)
      BY DEF Uses
    <2>2. clear[k].ids \in SUBSET Orders
      BY ClearTyped DEF CountInv, PromoInv
    <2> QED
      BY <2>1, <2>2 DEF CountInv, ClearOK
  <1>2. AloneClear'
    BY DEF CountInv, AloneClear
  <1> QED
    BY <1>1, <1>2, CountsKept

LEMMA CommitCounts ==
  ASSUME CountInv, PromoInv', NEW s \in Slots, CommitOrder(s)
  PROVE  CountInv'
  <1>0. TypeOK
    BY DEF CountInv, PromoInv
  <1>1. PICK o \in Orders : /\ o = tx[s].order
                           /\ orders[o] = "absent"
                           /\ orders' = [orders EXCEPT ![o] = "placed"]
                           /\ UNCHANGED clear
    BY DEF CommitOrder, CountInv, PromoInv, TxOK
  <1>2. PICK d \in Codes : /\ d = tx[s].code
                          /\ promo' = [promo EXCEPT ![d].count = @ + 1]
                          /\ usage' = [usage EXCEPT ![o] = d]
    BY <1>1 DEF CommitOrder, CountInv, PromoInv, TxOK
  <1>3. usage[o] = NoCode /\ usage \in [Orders -> Codes \union {NoCode}]
    BY <1>0, <1>1 DEF CountInv, PromoInv, RowsOK, TypeOK
  <1>4. \A c \in Codes : c # d => promo'[c] = promo[c] /\ Usages(c)' = Usages(c)
    BY <1>0, <1>2, <1>3, PromoAssumption DEF Usages, Uses, TypeOK
  <1>5. promo'[d].count = promo[d].count + 1
    BY <1>0, <1>2, CodeTyped DEF TypeOK, Promo
  <1>6. Usages(d)' = Usages(d) \union {o} /\ o \notin Usages(d)
    BY <1>2, <1>3, PromoAssumption DEF Usages, Uses
  <1>7. Cardinality(Usages(d)') = Cardinality(Usages(d)) + 1
    <2>1. IsFiniteSet(Usages(d))
      BY UsesFinite DEF Usages
    <2> QED
      BY <1>6, <2>1, FS_AddElement
  <1>8. CountIsUsages'
    BY <1>4, <1>5, <1>7 DEF CountInv, CountIsUsages
  <1>9. \A k \in Clears : ClearOK(k)'
    <2> SUFFICES ASSUME NEW k \in Clears  PROVE ClearOK(k)'
      OBVIOUS
    <2>1. clear[k].ids \in SUBSET Orders /\ o \notin clear[k].ids
      BY <1>0, <1>1, ClearTyped DEF CountInv, PromoInv, RowsOK
    <2>2. \A c \in Codes : Uses(c, clear[k].ids)' = Uses(c, clear[k].ids)
      BY <1>1, <1>2, <1>3, <2>1 DEF Uses
    <2>3. \A p \in clear[k].ids : orders'[p] = orders[p]
      BY <1>0, <1>1, <2>1 DEF TypeOK
    <2> QED
      BY <1>1, <2>2, <2>3 DEF CountInv, ClearOK
  <1>10. AloneClear'
    BY <1>1 DEF CountInv, AloneClear
  <1> QED
    BY <1>8, <1>9, <1>10 DEF CountInv

\* A clean-up that ends.
LEMMA ClearEnds ==
  ASSUME CountInv, NEW k \in Clears, clear' = [clear EXCEPT ![k] = IdleClear]
  PROVE  /\ clear'[k].phase = "idle"
         /\ \A j \in Clears : j # k => clear'[j] = clear[j]
         /\ AloneClear'
  BY DEF CountInv, PromoInv, TypeOK, AloneClear, IdleClear

LEMMA DeleteCounts ==
  ASSUME CountInv, PromoInv', NEW k \in Clears, DeleteOrders(k)
  PROVE  CountInv'
  <1>0. TypeOK /\ clear[k].ids \in SUBSET Orders /\ clear[k].phase = "delete"
    BY ClearTyped DEF CountInv, PromoInv, DeleteOrders
  <1>1. PICK ids \in SUBSET Orders : ids = clear[k].ids
    BY <1>0
  <1>2. /\ usage' = [o \in Orders |-> IF o \in ids THEN NoCode ELSE usage[o]]
        /\ orders' = [o \in Orders |-> IF o \in ids THEN "deleted" ELSE orders[o]]
        /\ clear' = [clear EXCEPT ![k] = IdleClear]
    BY <1>1 DEF DeleteOrders
  <1>3. \A c \in Codes : Cardinality(Usages(c)') = Cardinality(Usages(c)) - clear[k].counted[c]
    <2> SUFFICES ASSUME NEW c \in Codes
                 PROVE  Cardinality(Usages(c)') = Cardinality(Usages(c)) - clear[k].counted[c]
      OBVIOUS
    <2>1. Usages(c)' = Usages(c) \ Uses(c, ids)
      BY <1>2, PromoAssumption DEF Usages, Uses
    <2>2. Usages(c) \cap Uses(c, ids) = Uses(c, ids)
      BY DEF Usages, Uses
    <2>3. clear[k].counted[c] = Cardinality(Uses(c, ids))
      BY <1>0, <1>1 DEF CountInv, ClearOK
    <2>4. IsFiniteSet(Usages(c))
      BY UsesFinite DEF Usages
    <2> QED
      BY <2>1, <2>2, <2>3, <2>4, FS_Difference
  <1>4. \A c \in Codes : promo'[c].count = promo[c].count - clear[k].counted[c]
    BY <1>0, CodeTyped, ClearTyped DEF DeleteOrders, Promo
  <1>5. CountIsUsages'
    BY <1>3, <1>4 DEF CountInv, CountIsUsages
  <1>6. \A j \in Clears : ClearOK(j)'
    <2> SUFFICES ASSUME NEW j \in Clears, clear'[j].phase # "idle"  PROVE ClearOK(j)'
      BY DEF ClearOK
    <2>1. j # k /\ clear'[j] = clear[j]
      BY <1>2, ClearEnds
    <2>2. clear[j].business # clear[k].business
      BY <1>0, <2>1 DEF CountInv, AloneClear
    <2>3. clear[j].ids \in SUBSET Orders /\ clear[j].ids \cap ids = {}
      BY <1>0, <1>1, <2>1, <2>2, ClearTyped DEF CountInv, ClearOK
    <2>4. \A o \in clear[j].ids : orders'[o] = orders[o] /\ usage'[o] = usage[o]
      BY <1>2, <2>3
    <2>5. \A c \in Codes : Uses(c, clear[j].ids)' = Uses(c, clear[j].ids)
      BY <2>1, <2>4 DEF Uses
    <2> QED
      BY <2>1, <2>4, <2>5 DEF CountInv, ClearOK
  <1>7. AloneClear'
    BY <1>2, ClearEnds
  <1> QED
    BY <1>5, <1>6, <1>7 DEF CountInv

LEMMA CountStep ==
  ASSUME ClearsOverlap = FALSE, CountInv, [Next]_vars
  PROVE  CountInv'
  <1>0. PromoInv' /\ TypeOK
    BY PromoStep DEF CountInv, PromoInv
  <1>1. ASSUME NEW c \in Codes, NEW active \in BOOLEAN, NEW limit \in Limits \union {NoLimit},
               EditCode(c, active, limit)
        PROVE  CountInv'
    <2>1. \A d \in Codes : promo'[d].count = promo[d].count
      BY <1>0, <1>1, CodeTyped DEF EditCode, TypeOK, Promo
    <2> QED
      BY <1>0, <1>1, <2>1, ClearsKept DEF EditCode
  <1>2. ASSUME NEW o \in Orders, PlaceWithoutCode(o)  PROVE CountInv'
    BY <1>0, <1>2, ClearsKept DEF PlaceWithoutCode, TypeOK
  <1>3. CASE \E s \in Slots : \/ \E o \in Orders, c \in Codes : ReadCode(s, o, c)
                             \/ Reserve(s) \/ Rollback(s)
    BY <1>0, <1>3, ClearsKept DEF ReadCode, Reserve, Rollback
  <1>4. ASSUME NEW s \in Slots, CommitOrder(s)  PROVE CountInv'
    BY <1>0, <1>4, CommitCounts
  <1>5. ASSUME NEW k \in Clears, NEW b \in Businesses, ReadOrders(k, b)  PROVE CountInv'
    <2>1. /\ clear'[k].phase = "count"
          /\ clear'[k].business = b
          /\ clear'[k].ids = {o \in Orders : orders[o] = "placed" /\ BusinessOf[o] = b}
          /\ \A j \in Clears : j # k => clear'[j] = clear[j]
          /\ Clearing(b) = {}
          /\ UNCHANGED <<promo, orders, usage>>
      BY <1>0, <1>5 DEF ReadOrders, TypeOK, IdleClear
    <2>2. AloneClear'
      BY <2>1 DEF CountInv, AloneClear, Clearing
    <2>3. \A j \in Clears : ClearOK(j)'
      <3> SUFFICES ASSUME NEW j \in Clears  PROVE ClearOK(j)'
        OBVIOUS
      <3>1. CASE j = k
        BY <2>1, <3>1 DEF ClearOK
      <3>2. CASE j # k
        <4>1. \A c \in Codes : Uses(c, clear[j].ids)' = Uses(c, clear[j].ids)
          BY <2>1, <3>2 DEF Uses
        <4> QED
          BY <2>1, <3>2, <4>1 DEF CountInv, ClearOK
      <3> QED
        BY <3>1, <3>2
    <2> QED
      BY <1>0, <2>1, <2>2, <2>3, CountsKept
  <1>6. ASSUME NEW k \in Clears, CountUses(k)  PROVE CountInv'
    <2>1. PICK ids \in SUBSET Orders : ids = clear[k].ids
      BY <1>0, ClearTyped
    <2>2. /\ clear[k].phase = "count"
          /\ clear'[k].business = clear[k].business
          /\ clear'[k].ids = ids
          /\ \A c \in Codes : clear'[k].counted[c] = Cardinality(Uses(c, ids))
          /\ \A j \in Clears : j # k => clear'[j] = clear[j]
          /\ UNCHANGED <<promo, orders, usage>>
      BY <1>0, <1>6, <2>1 DEF CountUses, TypeOK, Clear
    <2>3. AloneClear'
      BY <2>2 DEF CountInv, AloneClear
    <2>4. \A j \in Clears : ClearOK(j)'
      <3> SUFFICES ASSUME NEW j \in Clears  PROVE ClearOK(j)'
        OBVIOUS
      <3>1. CASE j = k
        <4>1. \A c \in Codes : Uses(c, clear[k].ids)' = Uses(c, ids)
          BY <2>2 DEF Uses
        <4> QED
          BY <2>1, <2>2, <3>1, <4>1 DEF CountInv, ClearOK
      <3>2. CASE j # k
        <4>1. \A c \in Codes : Uses(c, clear[j].ids)' = Uses(c, clear[j].ids)
          BY <2>2, <3>2 DEF Uses
        <4> QED
          BY <2>2, <3>2, <4>1 DEF CountInv, ClearOK
      <3> QED
        BY <3>1, <3>2
    <2> QED
      BY <1>0, <2>2, <2>3, <2>4, CountsKept
  <1>7. ASSUME NEW k \in Clears, DeleteOrders(k)  PROVE CountInv'
    BY <1>0, <1>7, DeleteCounts
  <1>8. ASSUME NEW k \in Clears, RollbackClear(k)  PROVE CountInv'
    <2>1. /\ clear'[k].phase = "idle"
          /\ \A j \in Clears : j # k => clear'[j] = clear[j]
          /\ AloneClear'
          /\ UNCHANGED <<promo, orders, usage>>
      BY <1>8, ClearEnds DEF RollbackClear
    <2>2. \A j \in Clears : ClearOK(j)'
      <3> SUFFICES ASSUME NEW j \in Clears, j # k  PROVE ClearOK(j)'
        BY <2>1 DEF ClearOK
      <3>1. \A c \in Codes : Uses(c, clear[j].ids)' = Uses(c, clear[j].ids)
        BY <2>1 DEF Uses
      <3> QED
        BY <2>1, <3>1 DEF CountInv, ClearOK
    <2> QED
      BY <1>0, <2>1, <2>2, CountsKept
  <1>9. CASE UNCHANGED vars
    BY <1>0, <1>9, ClearsKept DEF vars
  <1> QED
    BY <1>1, <1>2, <1>3, <1>4, <1>5, <1>6, <1>7, <1>8, <1>9 DEF Next

LEMMA CountInvariant ==
  ASSUME ClearsOverlap = FALSE
  PROVE  Spec => []CountInv
  <1>1. CountInv /\ [Next]_vars => CountInv'
    BY CountStep
  <1> QED
    BY <1>1, InitCountInv, PTL DEF Spec

\* usageCount and the usage rows agree after any interleaving of orders, edits, rollbacks
\* and clean-ups, as long as the clean-ups of one business do not overlap.
THEOREM CountMatches ==
  ASSUME ClearsOverlap = FALSE
  PROVE  Spec => []CountIsUsages
  BY CountInvariant, PTL DEF CountInv

-----------------------------------------------------------------------------
(* The limit, as the transaction read it *)

\* One transaction at most holds a code's row.
OneHolder ==
    \A s, t \in Slots :
        tx[s].phase = "commit" /\ tx[t].phase = "commit" /\ tx[s].code = tx[t].code => s = t

\* A code whose row is held has room for one more use, by the limit its holder read.
RoomLeft(s) ==
    tx[s].phase = "commit" => ~AtLimit(promo[tx[s].code].count, tx[s].limit)

LimitInv == CountInv /\ OneHolder /\ (\A s \in Slots : RoomLeft(s))

LEMMA InitLimitInv == Init => LimitInv
  BY InitCountInv DEF Init, LimitInv, OneHolder, RoomLeft, IdleTx

\* A step that leaves the transactions alone, and the rows of the codes they work on.
LEMMA RoomKept ==
  ASSUME LimitInv, CountInv', UNCHANGED tx,
         \A c \in Codes : Locked(c) => promo'[c].count = promo[c].count
  PROVE  LimitInv'
  <1>1. OneHolder'
    BY DEF LimitInv, OneHolder
  <1>2. \A s \in Slots : RoomLeft(s)'
    <2> SUFFICES ASSUME NEW s \in Slots, tx[s].phase = "commit"  PROVE RoomLeft(s)'
      BY DEF RoomLeft
    <2>1. tx[s].code \in Codes /\ Locked(tx[s].code)
      BY DEF LimitInv, CountInv, PromoInv, TxOK, Locked
    <2> QED
      BY <2>1 DEF LimitInv, RoomLeft, AtLimit
  <1> QED
    BY <1>1, <1>2 DEF LimitInv

LEMMA LimitStep ==
  ASSUME ClearsOverlap = FALSE, LimitInv, [Next]_vars
  PROVE  LimitInv'
  <1>0. CountInv' /\ TypeOK
    BY CountStep DEF LimitInv, CountInv, PromoInv
  <1>1. ASSUME NEW c \in Codes, NEW active \in BOOLEAN, NEW limit \in Limits \union {NoLimit},
               EditCode(c, active, limit)
        PROVE  LimitInv'
    <2>1. ~Locked(c) /\ UNCHANGED tx
      BY <1>1 DEF EditCode
    <2>2. \A d \in Codes : d # c => promo'[d] = promo[d]
      BY <1>0, <1>1 DEF EditCode, TypeOK
    <2> QED
      BY <1>0, <2>1, <2>2, RoomKept
  <1>2. CASE \/ \E o \in Orders : PlaceWithoutCode(o)
             \/ \E k \in Clears : \/ \E b \in Businesses : ReadOrders(k, b)
                                 \/ CountUses(k) \/ RollbackClear(k)
    BY <1>0, <1>2, RoomKept DEF PlaceWithoutCode, ReadOrders, CountUses, RollbackClear
  <1>3. ASSUME NEW s \in Slots, NEW o \in Orders, NEW c \in Codes, ReadCode(s, o, c)
        PROVE  LimitInv'
    <2>1. /\ \A t \in Slots : t # s => tx'[t] = tx[t]
          /\ tx'[s].phase = "reserve"
          /\ tx'[s].code = c
          /\ tx'[s].limit = promo[c].limit
          /\ UNCHANGED promo
      BY <1>0, <1>3 DEF ReadCode, TypeOK
    <2> QED
      BY <1>0, <2>1 DEF LimitInv, OneHolder, RoomLeft, AtLimit
  <1>4. ASSUME NEW s \in Slots, Reserve(s)  PROVE LimitInv'
    <2>1. /\ \A t \in Slots : t # s => tx'[t] = tx[t]
          /\ tx'[s].phase = IF Matches(tx[s]) THEN "commit" ELSE "refused"
          /\ tx'[s].code = tx[s].code
          /\ tx'[s].limit = tx[s].limit
          /\ UNCHANGED promo
      BY <1>0, <1>4, TxTyped DEF Reserve, TypeOK, Tx
    <2>2. \A t \in Slots : tx[t].phase = "commit" => tx[t].code # tx[s].code
      BY <1>4 DEF Reserve, Locked
    <2>3. tx'[s].phase = "commit" => ~AtLimit(promo[tx[s].code].count, tx[s].limit)
      BY <2>1 DEF Matches
    <2>4. OneHolder'
      BY <2>1, <2>2 DEF LimitInv, OneHolder
    <2>5. \A t \in Slots : RoomLeft(t)'
      BY <2>1, <2>2, <2>3 DEF LimitInv, RoomLeft, AtLimit
    <2> QED
      BY <1>0, <2>4, <2>5 DEF LimitInv
  <1>5. ASSUME NEW s \in Slots, CommitOrder(s)  PROVE LimitInv'
    <2>1. PICK d \in Codes : d = tx[s].code
      BY <1>5 DEF CommitOrder, LimitInv, CountInv, PromoInv, TxOK
    <2>2. /\ tx[s].phase = "commit"
          /\ tx'[s].phase = "idle"
          /\ \A t \in Slots : t # s => tx'[t] = tx[t]
      BY <1>0, <1>5 DEF CommitOrder, TypeOK, IdleTx
    <2>3. \A c \in Codes : c # d => promo'[c] = promo[c]
      BY <1>0, <1>5, <2>1 DEF CommitOrder, TypeOK
    <2>4. \A t \in Slots : t # s /\ tx[t].phase = "commit" => tx[t].code # d
      BY <2>1, <2>2 DEF LimitInv, OneHolder
    <2>5. OneHolder'
      BY <2>2 DEF LimitInv, OneHolder
    <2>6. \A t \in Slots : RoomLeft(t)'
      <3> SUFFICES ASSUME NEW t \in Slots, t # s, tx[t].phase # "idle"  PROVE RoomLeft(t)'
        BY <2>2 DEF RoomLeft
      <3>1. tx[t].code \in Codes /\ tx'[t] = tx[t]
        BY <2>2 DEF LimitInv, CountInv, PromoInv, TxOK
      <3> QED
        BY <2>3, <2>4, <3>1 DEF LimitInv, RoomLeft, AtLimit
    <2> QED
      BY <1>0, <2>5, <2>6 DEF LimitInv
  <1>6. ASSUME NEW s \in Slots, Rollback(s)  PROVE LimitInv'
    <2>1. /\ tx'[s].phase = "idle"
          /\ \A t \in Slots : t # s => tx'[t] = tx[t]
          /\ UNCHANGED promo
      BY <1>0, <1>6 DEF Rollback, TypeOK, IdleTx
    <2> QED
      BY <1>0, <2>1 DEF LimitInv, OneHolder, RoomLeft, AtLimit
  <1>7. ASSUME NEW k \in Clears, DeleteOrders(k)  PROVE LimitInv'
    <2>1. \A c \in Codes : promo'[c].count = promo[c].count - clear[k].counted[c]
      BY <1>0, <1>7, CodeTyped, ClearTyped DEF DeleteOrders, Promo
    <2>2. \A c \in Codes : Locked(c) => clear[k].counted[c] = 0
      BY <1>0, <1>7, ClearTyped DEF DeleteOrders
    <2>3. \A c \in Codes : Locked(c) => promo'[c].count = promo[c].count
      BY <1>0, <2>1, <2>2, CodeTyped
    <2>4. UNCHANGED tx
      BY <1>7 DEF DeleteOrders
    <2> QED
      BY <1>0, <2>3, <2>4, RoomKept
  <1>8. CASE UNCHANGED vars
    BY <1>0, <1>8, RoomKept DEF vars
  <1> QED
    BY <1>1, <1>2, <1>3, <1>4, <1>5, <1>6, <1>7, <1>8 DEF Next

LEMMA LimitInvariant ==
  ASSUME ClearsOverlap = FALSE
  PROVE  Spec => []LimitInv
  <1>1. LimitInv /\ [Next]_vars => LimitInv'
    BY LimitStep
  <1> QED
    BY <1>1, InitLimitInv, PTL DEF Spec

\* Of any number of orders that read the same count of a code, no more get its discount
\* than its limit has room for (the condition of applyInTransaction's updateMany).
THEOREM LimitHolds ==
  ASSUME ClearsOverlap = FALSE
  PROVE  Spec => LimitNeverExceeded
  <1>1. LimitInv /\ [Next]_vars => [GrantsOnlyBelowLimit]_vars
    <2> SUFFICES ASSUME LimitInv, [Next]_vars, NEW o \in Orders, NEW c \in Codes, Grants(o, c)
                 PROVE  \E s \in Slots : /\ tx[s].order = o
                                         /\ tx[s].code = c
                                         /\ ~AtLimit(Cardinality(Usages(c)), tx[s].limit)
      BY DEF GrantsOnlyBelowLimit
    <2>1. PICK s \in Slots : CommitOrder(s) /\ tx[s].order = o /\ tx[s].code = c
      BY GrantIsCommit DEF LimitInv, CountInv
    <2>2. tx[s].phase = "commit"
      BY <2>1 DEF CommitOrder
    <2>3. ~AtLimit(promo[c].count, tx[s].limit)
      BY <2>1, <2>2 DEF LimitInv, RoomLeft
    <2>4. promo[c].count = Cardinality(Usages(c))
      BY DEF LimitInv, CountInv, CountIsUsages
    <2> QED
      BY <2>1, <2>3, <2>4
  <1> QED
    BY <1>1, LimitInvariant, PTL DEF Spec, LimitNeverExceeded

=============================================================================
