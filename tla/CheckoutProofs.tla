-------------------------- MODULE CheckoutProofs --------------------------
(***************************************************************************)
(* What the web shop promises, for any restaurants, places, zones, prices, *)
(* codes and edits, and any number of calls in flight, while codes begin,  *)
(* expire and are used up at any time: the customer never pays more than   *)
(* was shown of what is ordered, and less only where the code had been     *)
(* refused; the amounts add up, one cart makes one order, and zones of a   *)
(* city give way.                                                          *)
(***************************************************************************)
EXTENDS Checkout, WellFoundedInduction, TLAPS

-----------------------------------------------------------------------------
(* Zones *)

\* A set of numbers that is not empty has a least one.
LEMMA LeastNat == ASSUME NEW S, S \subseteq Nat, S # {} PROVE \E x \in S : \A y \in S : x <= y
<1>. DEFINE R == OpToRel(<, Nat)
<1>1. IsWellFoundedOn(R, Nat)
  BY NatLessThanWellFounded
<1>2. ASSUME NEW x \in Nat, NEW y \in Nat, x < y PROVE <<x, y>> \in R
  BY <1>2 DEF OpToRel
<1>. HIDE DEF R
<1>3. \E x \in S : \A y \in S : ~(<<y, x>> \in R)
  BY <1>1, WFMin
<1>4. PICK x \in S : \A y \in S : ~(<<y, x>> \in R)
  BY <1>3
<1>5. ASSUME NEW y \in S PROVE x <= y
  <2>1. ~(y < x)
    BY <1>2, <1>4
  <2>. QED
    BY <2>1
<1>. QED
  BY <1>5

\* What is known of a zone that reaches a place.
LEMMA ZoneTypes ==
    ASSUME NEW z \in Zones, NEW p \in Places
    PROVE  /\ z \in Nat /\ Scope(z) \in 0 .. 3
           /\ ZoneRow[z].distance[p] # Outside => ZoneRow[z].distance[p] \in Nat
           /\ ZoneRow[z].baseFee \in Nat /\ ZoneRow[z].pricePerKm \in Nat
           /\ ZoneRow[z].minDeliveryFee \in Nat
<1>1. ZoneRow[z] \in ZoneRows /\ z \in Nat
  BY DeliveryAssumption
<1>2. Scope(z) \in 0 .. 3
  BY DEF Scope
<1>. QED
  BY <1>1, <1>2 DEF ZoneRows, Outside

\* Of zones that reach a place one comes first in the order of check.
LEMMA PreferredExists ==
    ASSUME NEW p \in Places, NEW S, S \subseteq Zones, S # {},
           \A z \in S : ZoneRow[z].distance[p] # Outside
    PROVE  \E z \in S : \A y \in S : Preferred(z, y, p)
<1>. DEFINE d(z) == ZoneRow[z].distance[p]
            A == {3 - Scope(z) : z \in S}
<1>1. \A z \in S : z \in Nat /\ Scope(z) \in 0 .. 3 /\ d(z) \in Nat
  BY ZoneTypes
<1>2. A \subseteq Nat /\ A # {}
  BY <1>1
<1>3. PICK a \in A : \A b \in A : a <= b
  BY <1>2, LeastNat
<1>. DEFINE S1 == {z \in S : 3 - Scope(z) = a}
            B == {d(z) : z \in S1}
<1>4. B \subseteq Nat /\ B # {}
  BY <1>1
<1>. HIDE DEF A, d
<1>5. PICK b \in B : \A c \in B : b <= c
  BY <1>4, LeastNat
<1>. DEFINE S2 == {z \in S1 : d(z) = b}
<1>6. S2 \subseteq Nat /\ S2 # {}
  BY <1>1
<1>7. PICK z \in S2 : \A y \in S2 : z <= y
  BY <1>6, LeastNat
<1>8. z \in S /\ 3 - Scope(z) = a /\ d(z) = b
  BY DEF S1, S2
<1>9. ASSUME NEW y \in S PROVE Preferred(z, y, p)
  <2>1. a <= 3 - Scope(y)
    BY <1>3 DEF A
  <2>2. Scope(z) >= Scope(y)
    BY <2>1, <1>1, <1>8
  <2>3. Scope(z) = Scope(y) => d(z) <= d(y)
    BY <1>5, <1>8 DEF S1, B
  <2>4. Scope(z) = Scope(y) /\ d(z) = d(y) => z <= y
    BY <1>7, <1>8 DEF S1, S2
  <2>. QED
    BY <1>1, <1>8, <2>2, <2>3, <2>4 DEF Preferred, d
<1>. QED
  BY <1>8, <1>9

\* Two zones cannot both come first.
LEMMA PreferredUnique ==
    ASSUME NEW p \in Places, NEW z \in Zones, NEW y \in Zones,
           ZoneRow[z].distance[p] # Outside, ZoneRow[y].distance[p] # Outside,
           Preferred(z, y, p), Preferred(y, z, p)
    PROVE  z = y
<1>1. /\ z \in Nat /\ Scope(z) \in 0 .. 3 /\ ZoneRow[z].distance[p] \in Nat
      /\ y \in Nat /\ Scope(y) \in 0 .. 3 /\ ZoneRow[y].distance[p] \in Nat
  BY ZoneTypes
<1>. QED
  BY <1>1 DEF Preferred

\* The zone that sets the fee.
First(hits, p) == CHOOSE z \in hits : \A y \in hits : Preferred(z, y, p)

LEMMA FirstIs ==
    ASSUME NEW zones, zones \subseteq Zones, NEW r \in Restaurants, NEW p \in Places,
           Hits(zones, r, p) # {}
    PROVE  /\ First(Hits(zones, r, p), p) \in Hits(zones, r, p)
           /\ \A y \in Hits(zones, r, p) : Preferred(First(Hits(zones, r, p), p), y, p)
<1>. DEFINE S == Hits(zones, r, p)
<1>1. S \subseteq Zones /\ \A z \in S : ZoneRow[z].distance[p] # Outside
  BY DEF Hits
<1>2. \E z \in S : \A y \in S : Preferred(z, y, p)
  BY <1>1, PreferredExists
<1>. QED
  BY <1>2 DEF First

\* A rounded amount is one.
LEMMA RoundNat == ASSUME NEW n \in Nat, NEW d \in Nat \ {0} PROVE Round(n, d) \in Nat
<1>1. 2 * n + d \in Nat /\ 2 * d \in Nat \ {0}
  OBVIOUS
<1>2. \A x \in Nat : \A y \in Nat \ {0} : x \div y \in Nat
  OBVIOUS
<1>. QED
  BY <1>1, <1>2 DEF Round

\* A quote is an amount or a refusal.
LEMMA QuoteType ==
    ASSUME NEW zones, zones \subseteq Zones, NEW pricing \in PricingRows,
           NEW r \in Restaurants, NEW p \in Places
    PROVE  Quote(zones, pricing, r, p) \in Nat \cup {Refused}
<1>1. ASSUME Hits(zones, r, p) # {} PROVE Quote(zones, pricing, r, p) \in Nat
  <2>. DEFINE z == First(Hits(zones, r, p), p)
  <2>1. z \in Zones /\ ZoneRow[z].distance[p] # Outside
    BY <1>1, FirstIs DEF Hits
  <2>2. Quote(zones, pricing, r, p) = ZoneFee(z, p)
    BY <1>1 DEF Quote, First
  <2>. HIDE DEF z
  <2>3. /\ 10 * ZoneRow[z].baseFee + ZoneRow[z].pricePerKm * ZoneRow[z].distance[p] \in Nat
        /\ 10 * ZoneRow[z].minDeliveryFee \in Nat
    BY <2>1, ZoneTypes
  <2>. QED
    BY <2>2, <2>3, RoundNat DEF ZoneFee
<1>2. FallbackFee(pricing, Km[<<r, p>>]) \in Nat
  <2>1. Km[<<r, p>>] \in Nat
    BY DeliveryAssumption
  <2>2. 10 * pricing.baseDeliveryFee + pricing.perKmFee * Km[<<r, p>>] \in Nat
    BY <2>1 DEF PricingRows
  <2>. QED
    BY <2>2, RoundNat DEF FallbackFee
<1>. QED
  BY <1>1, <1>2 DEF Quote

CityWide(z) == ZoneRow[z].branch = None /\ ZoneRow[z].business = None

\* Where a zone of the restaurant or of its branch delivers, city-wide zones set no fee.
LEMMA CityGivesWay ==
    ASSUME NEW zones, zones \subseteq Zones, NEW pricing,
           NEW later, later \subseteq Zones, NEW edited,
           NEW r \in Restaurants, NEW p \in Places,
           \A z \in (zones \ later) \cup (later \ zones) : CityWide(z),
           NEW own \in Hits(zones, r, p), ~CityWide(own)
    PROVE  Quote(later, edited, r, p) = Quote(zones, pricing, r, p)
<1>. DEFINE f == First(Hits(zones, r, p), p)
            g == First(Hits(later, r, p), p)
<1>1. own \in Hits(later, r, p)
  BY DEF Hits
<1>2. /\ f \in Hits(zones, r, p) /\ \A y \in Hits(zones, r, p) : Preferred(f, y, p)
      /\ g \in Hits(later, r, p) /\ \A y \in Hits(later, r, p) : Preferred(g, y, p)
  BY <1>1, FirstIs
<1>3. /\ Quote(zones, pricing, r, p) = ZoneFee(f, p)
      /\ Quote(later, edited, r, p) = ZoneFee(g, p)
  BY <1>1 DEF Quote, First
<1>. HIDE DEF f, g
<1>4. ASSUME NEW z \in Zones, Preferred(z, own, p) PROVE ~CityWide(z)
  <2>1. own \in Zones
    BY DEF Hits
  <2>2. Scope(own) >= 2 /\ Scope(z) \in 0 .. 3 /\ Scope(own) \in 0 .. 3
    BY <2>1, ZoneTypes DEF Scope, CityWide
  <2>3. Scope(z) >= Scope(own)
    BY <1>4, <2>2 DEF Preferred
  <2>. QED
    BY <2>2, <2>3 DEF Scope, CityWide
<1>5. f \in Zones /\ g \in Zones /\ ~CityWide(f) /\ ~CityWide(g)
  BY <1>1, <1>2, <1>4 DEF Hits
<1>6. f \in Hits(later, r, p) /\ g \in Hits(zones, r, p)
  BY <1>2, <1>5 DEF Hits
<1>7. ZoneRow[f].distance[p] # Outside /\ ZoneRow[g].distance[p] # Outside
  BY <1>2 DEF Hits
<1>8. f = g
  BY <1>2, <1>5, <1>6, <1>7, PreferredUnique
<1>. QED
  BY <1>3, <1>8

-----------------------------------------------------------------------------
(* Amounts *)

LEMMA ServerType ==
    ASSUME edits \in 0 .. Len(Servers) - 1
    PROVE  server \in ServerRows
<1>1. Servers \in Seq(ServerRows) /\ edits + 1 \in 1 .. Len(Servers)
  BY CheckoutAssumption
<1>. QED
  BY <1>1 DEF server

LEMMA DiscountType ==
    ASSUME NEW row \in PromoRows, NEW subtotal \in Nat
    PROVE  Discount(row, subtotal) \in 0 .. Exact * subtotal
<1>1. row.value \in Nat /\ row.maximumDiscount \in Nat
  BY DEF PromoRows
<1>2. /\ Exact * row.value \in Nat /\ subtotal * row.value \in Nat
      /\ Exact * row.maximumDiscount \in Nat /\ Exact * subtotal \in Nat
  BY <1>1 DEF Exact
<1>. HIDE DEF Exact
<1>. QED
  BY <1>2 DEF Discount, Least

\* What server s takes off for a code it has not refused.
Due(s, code, subtotal, refused) ==
    IF code # None /\ ~refused THEN Discount(s.promo[code], subtotal) ELSE 0

LEMMA DueType ==
    ASSUME NEW s \in ServerRows, NEW code \in Codes \cup {None}, NEW subtotal \in Nat,
           NEW refused
    PROVE  Due(s, code, subtotal, refused) \in 0 .. Exact * subtotal
<1>1. Exact * subtotal \in Nat
  BY DEF Exact
<1>2. ASSUME code # None PROVE Discount(s.promo[code], subtotal) \in 0 .. Exact * subtotal
  <2>1. s.promo[code] \in PromoRows
    BY <1>2 DEF ServerRows
  <2>. QED
    BY <2>1, DiscountType
<1>. HIDE DEF Exact
<1>. QED
  BY <1>1, <1>2 DEF Due

\* The button's sum is never cut off at nothing.
LEMMA GrandTotalIs ==
    ASSUME NEW c, NEW s, Subtotal(c) \in Nat, s.discount \in Nat, s.fee \in Nat
    PROVE  /\ GrandTotal(c, s) \in Nat
           /\ s.discount <= Exact * Subtotal(c) =>
                  GrandTotal(c, s) = Exact * Subtotal(c) - s.discount + Exact * 100 * s.fee
BY DEF GrandTotal, Exact

\* What costs more costs no less when it is stored.
LEMMA StoredMonotone ==
    ASSUME NEW x \in Nat, NEW y \in Nat, x <= y PROVE Stored(x) <= Stored(y)
<1>1. Stored(x) \in Nat /\ Stored(y) \in Nat
  BY RoundNat DEF Stored, Exact
<1>2. 20000 * Stored(x) <= 2 * x + 10000 /\ 2 * y + 10000 < 20000 * Stored(y) + 20000
  BY DEF Stored, Round, Exact
<1>. QED
  BY <1>1, <1>2

\* The columns of an order add up to one unit of the last decimal.
LEMMA AmountsAre ==
    ASSUME NEW c, NEW subtotal \in Nat, NEW fee \in Nat, NEW discount \in 0 .. Exact * subtotal
    PROVE  LET a == Amounts(c, subtotal, discount, fee)
           IN  /\ a.subtotal \in Nat /\ a.deliveryFee \in Nat
               /\ a.discountAmount \in Nat /\ a.total \in Nat
               /\ a.discountAmount <= a.subtotal
               /\ LET sum == a.subtotal - a.discountAmount + a.deliveryFee
                  IN  a.total \in sum - 1 .. sum + 1
<1>. DEFINE x == Exact * subtotal - discount + Exact * 100 * fee
<1>1. discount \in Nat /\ x \in Nat
  BY DEF Exact
<1>2. Stored(discount) \in Nat /\ Stored(x) \in Nat
  BY <1>1, RoundNat DEF Stored, Exact
<1>3. /\ 20000 * Stored(discount) <= 2 * discount + 10000
      /\ 2 * discount + 10000 < 20000 * Stored(discount) + 20000
      /\ 20000 * Stored(x) <= 2 * x + 10000
      /\ 2 * x + 10000 < 20000 * Stored(x) + 20000
  BY <1>1 DEF Stored, Round, Exact
<1>4. x = 10000 * subtotal - discount + 1000000 * fee /\ discount <= 10000 * subtotal
  BY DEF Exact
<1>. HIDE DEF x
<1>5. Stored(discount) <= subtotal
  BY <1>1, <1>2, <1>3, <1>4
<1>6. Stored(x) \in (subtotal - Stored(discount) + 100 * fee) - 1
                        .. (subtotal - Stored(discount) + 100 * fee) + 1
  BY <1>1, <1>2, <1>3, <1>4
<1>. QED
  BY <1>2, <1>5, <1>6 DEF Amounts, x

-----------------------------------------------------------------------------
(* The invariant, a part for each variable; s is what the server reads *)

CartOK(s, c) ==
    /\ c \in Cart
    /\ c.qty > 0 => c.restaurant \in Restaurants /\ c.price \in Prices
    /\ c.qty = 0 => c.restaurant = None
    /\ c.qty > 0 /\ c.current => c.price = s.price[c.restaurant]

\* A fee belongs to a place, and to a restaurant until an edit; so does a discount to a code
\* and to whether it was refused.
StoreOK(s, t) ==
    /\ t \in Store
    /\ t.fee # NoFee => t.place \in Places
    /\ t.quotedFor # None =>
           t.place \in Places /\ t.fee = Quote(s.active, s.pricing, t.quotedFor, t.place)
    /\ t.appliedFor.code = None => t.discount = 0 /\ ~t.appliedFor.refused
    /\ t.appliedFor.code # None /\ t.appliedFor.subtotal # 0 =>
           t.discount = Due(s, t.appliedFor.code, t.appliedFor.subtotal, t.appliedFor.refused)

\* What the server charges for an order, exactly, or would if its code were still refused.
Charge(s, c) ==
    LET subtotal == s.price[c.restaurant] * c.qty
    IN  Exact * subtotal - Due(s, c.code, subtotal, c.refused)
            + Exact * 100 * Quote(s.active, s.pricing, c.restaurant, c.place)

CallOK(s, c) ==
    /\ c \in Call
    /\ c.kind = "quote" => c.restaurant \in Restaurants
    /\ c.kind = "promo" => c.code \in Codes /\ c.subtotal # 0
    /\ c.placed \/ c.fresh => c.kind = "order"
    /\ c.kind = "order" /\ ~c.placed =>
           c.restaurant \in Restaurants /\ c.qty # 0 /\ c.place \in Places
    /\ c.fresh => ~c.placed /\ c.shown = Charge(s, c)

Awaited(k) == call[k].kind = "order" /\ call[k].mounted

\* The page that placed the order waits for one answer.
OneAwaited ==
    /\ \A k \in Calls : Awaited(k) => page.name = "delivery"
    /\ \A j, k \in Calls : Awaited(j) /\ Awaited(k) => j = k
    /\ cart.order = "placed" => \E k \in Calls : Awaited(k) /\ call[k].placed

IInv ==
    /\ edits \in 0 .. Len(Servers) - 1
    /\ open \subseteq Active(server)
    /\ CartOK(server, cart)
    /\ StoreOK(server, store)
    /\ page \in Page
    /\ call \in [Calls -> Call] /\ \A k \in Calls : CallOK(server, call[k])
    /\ OneAwaited
    /\ receipt \in Order /\ ChargedAsShown /\ AmountsAddUp

-----------------------------------------------------------------------------
(* The values the actions write *)

LEMMA Numbers ==
    ASSUME NEW s \in ServerRows
    PROVE  /\ 0 \in Quantities /\ 1 \in Quantities /\ 0 \in Subtotals
           /\ Quantities \subseteq Nat
           /\ \A x \in Prices, q \in Quantities :
                  x * q \in Subtotals /\ x * q \in Nat /\ (q # 0 => x * q # 0)
<1>1. PICK r \in Restaurants : TRUE
  BY CheckoutAssumption
<1>2. MaxQty[r] \in Nat \ {0} /\ s.price[r] \in Prices /\ Prices \subseteq Nat \ {0}
  BY CheckoutAssumption DEF ServerRows
<1>3. 0 \in Quantities /\ 1 \in Quantities
  BY <1>2 DEF Quantities
<1>4. Quantities \subseteq Nat
  BY CheckoutAssumption DEF Quantities
<1>. DEFINE x == s.price[r]
<1>5. x * 0 \in Subtotals /\ x * 0 = 0
  <2>. HIDE DEF x
  <2>1. x \in Prices /\ x \in Nat
    BY <1>2 DEF x
  <2>2. x * 0 \in Subtotals
    BY <1>3, <2>1 DEF Subtotals
  <2>. QED
    BY <2>1, <2>2
<1>6. ASSUME NEW y \in Prices, NEW q \in Quantities
      PROVE  y * q \in Subtotals /\ y * q \in Nat /\ (q # 0 => y * q # 0)
  <2>1. y * q \in Subtotals
    BY DEF Subtotals
  <2>2. y \in Nat \ {0} /\ q \in Nat
    BY <1>2, <1>4
  <2>. QED
    BY <2>1, <2>2
<1>. QED
  BY <1>3, <1>4, <1>5, <1>6

LEMMA EmptyCartOK == ASSUME NEW s \in ServerRows PROVE CartOK(s, EmptyCart)
BY Numbers DEF CartOK, EmptyCart, Cart

LEMMA EmptyStoreOK == ASSUME NEW s \in ServerRows PROVE StoreOK(s, EmptyStore)
BY Numbers DEF StoreOK, EmptyStore, Store, Applications, NotApplied, NoFee

LEMMA NoCallOK == ASSUME NEW s \in ServerRows PROVE CallOK(s, NoCall)
BY Numbers DEF CallOK, NoCall, Call

LEMMA NoOrderOK == NoOrder \in Order
BY DEF NoOrder, Order

-----------------------------------------------------------------------------
(* What a step has to show, when it creates no order *)

LEMMA Kept ==
    ASSUME IInv, edits' = edits, open' = open, CartOK(server, cart'), StoreOK(server, store'),
           page' \in Page,
           call' \in [Calls -> Call], \A k \in Calls : CallOK(server, call'[k]), OneAwaited',
           receipt' = NoOrder
    PROVE  IInv'
<1>1. server' = server
  BY DEF server
<1>2. receipt' \in Order /\ ChargedAsShown' /\ AmountsAddUp'
  BY NoOrderOK DEF NoOrder, ChargedAsShown, AmountsAddUp
<1>. QED
  BY <1>1, <1>2 DEF IInv

\* The page goes on waiting for the answer it waited for.
LEMMA StillAwaited ==
    ASSUME IInv, page'.name = page.name, cart'.order \in {cart.order, "none"},
           \A k \in Calls : /\ Awaited(k)' <=> Awaited(k)
                            /\ Awaited(k) => (call[k].placed <=> call'[k].placed)
    PROVE  OneAwaited'
BY DEF IInv, OneAwaited, Awaited

\* It waits for none.
LEMMA NoneAwaited ==
    ASSUME \A k \in Calls : ~Awaited(k)', cart'.order # "placed"
    PROVE  OneAwaited'
BY DEF OneAwaited

\* A call that is started, or ends.
LEMMA OneCall ==
    ASSUME IInv, NEW k \in Calls, NEW c, CallOK(server, c), call' = [call EXCEPT ![k] = c]
    PROVE  call' \in [Calls -> Call] /\ \A j \in Calls : CallOK(server, call'[j])
<1>1. c \in Call
  BY DEF CallOK
<1>. QED
  BY <1>1 DEF IInv

\* And one that is for no order changes nothing the page waits for.
LEMMA OtherCall ==
    ASSUME IInv, NEW k \in Calls, NEW c, call' = [call EXCEPT ![k] = c],
           call[k].kind # "order", c.kind # "order"
    PROVE  \A j \in Calls : /\ Awaited(j)' <=> Awaited(j)
                            /\ Awaited(j) => (call[j].placed <=> call'[j].placed)
<1>. SUFFICES ASSUME NEW j \in Calls
              PROVE  /\ Awaited(j)' <=> Awaited(j)
                     /\ Awaited(j) => (call[j].placed <=> call'[j].placed)
  OBVIOUS
<1>1. call'[j] = IF j = k THEN c ELSE call[j]
  BY DEF IInv
<1>. QED
  BY <1>1 DEF Awaited

LEMMA UnmountedOK ==
    ASSUME IInv
    PROVE  /\ Unmounted \in [Calls -> Call]
           /\ \A k \in Calls : CallOK(server, Unmounted[k]) /\ ~Unmounted[k].mounted
<1>. SUFFICES ASSUME NEW k \in Calls PROVE CallOK(server, Unmounted[k]) /\ ~Unmounted[k].mounted
  BY DEF Unmounted, CallOK
<1>1. CallOK(server, call[k]) /\ call[k] \in Call
  BY DEF IInv
<1>. DEFINE c == [call[k] EXCEPT !.mounted = FALSE]
<1>2. c \in Call
  BY <1>1 DEF Call
<1>3. /\ ~c.mounted /\ c.kind = call[k].kind /\ c.restaurant = call[k].restaurant
      /\ c.subtotal = call[k].subtotal /\ c.qty = call[k].qty /\ c.code = call[k].code
      /\ c.place = call[k].place /\ c.shown = call[k].shown /\ c.fresh = call[k].fresh
      /\ c.refused = call[k].refused /\ c.placed = call[k].placed
  BY <1>1 DEF Call
<1>4. Unmounted[k] = c
  BY DEF Unmounted
<1>. HIDE DEF c
<1>. QED
  BY <1>1, <1>2, <1>3, <1>4 DEF CallOK, Charge

-----------------------------------------------------------------------------
(* The cart, and moving between pages *)

LEMMA Parts ==
    ASSUME IInv
    PROVE  /\ server \in ServerRows
           /\ CartOK(server, cart) /\ StoreOK(server, store)
           /\ cart \in Cart /\ store \in Store /\ page \in Page /\ call \in [Calls -> Call]
           /\ \A k \in Calls : CallOK(server, call[k]) /\ call[k] \in Call
BY ServerType DEF IInv, CartOK, StoreOK

LEMMA AddItemKeeps ==
    ASSUME IInv, NEW r \in Restaurants, AddItem(r), receipt' = NoOrder PROVE IInv'
<1>1. CASE cart.restaurant = r
  <2>1. cart.qty \in Nat /\ cart.qty + 1 \in Quantities
    <3>1. cart.qty \in Nat
      BY Parts, Numbers DEF Cart
    <3>2. MaxQty[r] \in Nat /\ cart.qty + 1 \in 0 .. MaxQty[r]
      BY <1>1, <3>1, CheckoutAssumption DEF AddItem
    <3>. QED
      BY <3>1, <3>2 DEF Quantities
  <2>2. cart.qty # 0
    BY <1>1, Parts, DeliveryAssumption DEF CartOK
  <2>3. /\ cart' \in Cart /\ cart'.restaurant = cart.restaurant /\ cart'.price = cart.price
        /\ cart'.qty = cart.qty + 1 /\ cart'.current = cart.current /\ cart'.order = cart.order
    BY <1>1, <2>1, Parts DEF AddItem, Cart
  <2>4. CartOK(server, cart')
    BY <2>1, <2>2, <2>3, Parts DEF CartOK
  <2>. QED
    BY <2>3, <2>4, Parts, Kept, StillAwaited DEF AddItem, Awaited
<1>2. CASE cart.restaurant # r
  <2>. DEFINE c == [EmptyCart EXCEPT !.restaurant = r, !.qty = 1, !.price = server.price[r]]
  <2>1. server.price[r] \in Prices
    BY Parts DEF ServerRows
  <2>2. c \in Cart
    BY <2>1, Numbers, Parts DEF Cart, EmptyCart
  <2>3. /\ c.restaurant = r /\ c.qty = 1 /\ c.price = server.price[r] /\ c.order = "none"
        /\ cart' = c
    BY <1>2 DEF EmptyCart, AddItem
  <2>. HIDE DEF c
  <2>4. CartOK(server, cart')
    BY <2>1, <2>2, <2>3 DEF CartOK
  <2>. QED
    BY <2>3, <2>4, Parts, Kept, StillAwaited DEF AddItem, Awaited
<1>. QED
  BY <1>1, <1>2

LEMMA DecrementItemKeeps ==
    ASSUME IInv, DecrementItem, receipt' = NoOrder PROVE IInv'
<1>1. cart.qty \in Nat /\ cart.qty - 1 \in Quantities /\ cart.qty - 1 > 0
  <2>1. PICK r \in Restaurants : cart.qty \in 0 .. MaxQty[r]
    BY Parts DEF Cart, Quantities
  <2>2. cart.qty - 1 \in 0 .. MaxQty[r]
    BY <2>1, CheckoutAssumption DEF DecrementItem
  <2>. QED
    BY <2>1, <2>2, CheckoutAssumption DEF Quantities, DecrementItem
<1>2. /\ cart' \in Cart /\ cart'.restaurant = cart.restaurant /\ cart'.price = cart.price
      /\ cart'.qty = cart.qty - 1 /\ cart'.current = cart.current /\ cart'.order = cart.order
  BY <1>1, Parts DEF DecrementItem, Cart
<1>3. CartOK(server, cart')
  BY <1>1, <1>2, Parts DEF CartOK, DecrementItem
<1>. QED
  BY <1>2, <1>3, Parts, Kept, StillAwaited DEF DecrementItem, Awaited

LEMMA RemoveItemKeeps ==
    ASSUME IInv, RemoveItem, receipt' = NoOrder PROVE IInv'
<1>1. cart' = EmptyCart /\ cart'.order = "none"
  BY DEF RemoveItem, EmptyCart
<1>. QED
  BY <1>1, Parts, EmptyCartOK, Kept, StillAwaited DEF RemoveItem, Awaited

LEMMA ClearAllKeeps ==
    ASSUME IInv, ClearAll, receipt' = NoOrder PROVE IInv'
<1>1. cart'.order = "none" /\ page' \in Page
  BY DEF ClearAll, EmptyCart, Page
<1>2. /\ call' = Unmounted /\ cart' = EmptyCart /\ store' = EmptyStore
      /\ edits' = edits /\ open' = open
  BY DEF ClearAll
<1>3. OneAwaited'
  BY <1>1, <1>2, UnmountedOK, NoneAwaited DEF Awaited
<1>. QED
  BY <1>1, <1>2, <1>3, Parts, UnmountedOK, EmptyCartOK, EmptyStoreOK, Kept

LEMMA OpenKeeps ==
    ASSUME IInv, NEW name \in {"shop", "details", "delivery"}, Open(name), receipt' = NoOrder
    PROVE  IInv'
<1>1. page' \in Page /\ call' = Unmounted /\ store' = store /\ edits' = edits /\ open' = open
  BY DEF Open, Page
<1>2. /\ cart' \in Cart /\ cart'.restaurant = cart.restaurant /\ cart'.price = cart.price
      /\ cart'.qty = cart.qty /\ cart'.current = cart.current
      /\ cart'.order = IF Mounted("order") = {} THEN cart.order ELSE "lost"
  BY Parts DEF Open, Cart
<1>3. CartOK(server, cart')
  BY <1>2, Parts DEF CartOK
<1>4. cart'.order # "placed"
  BY <1>2 DEF IInv, OneAwaited, Awaited, Mounted
<1>5. OneAwaited'
  BY <1>1, <1>4, UnmountedOK, NoneAwaited DEF Awaited
<1>. QED
  BY <1>1, <1>3, <1>5, Parts, UnmountedOK, Kept

LEMMA EditPhoneKeeps ==
    ASSUME IInv, EditPhone, receipt' = NoOrder PROVE IInv'
<1>1. /\ store' \in Store /\ store'.fee = NoFee /\ store'.quotedFor = None
      /\ store'.appliedFor = store.appliedFor /\ store'.discount = store.discount
  BY Parts DEF EditPhone, Store
<1>2. StoreOK(server, store')
  BY <1>1, Parts DEF StoreOK
<1>. QED
  BY <1>2, Parts, Kept, StillAwaited DEF EditPhone, Awaited

LEMMA EditCodeKeeps ==
    ASSUME IInv, NEW code \in Codes \cup {None}, EditCode(code), receipt' = NoOrder PROVE IInv'
<1>1. /\ store' \in Store /\ store'.fee = store.fee /\ store'.quotedFor = store.quotedFor
      /\ store'.place = store.place
      /\ store'.appliedFor = store.appliedFor /\ store'.discount = store.discount
  BY Parts DEF EditCode, Store
<1>2. StoreOK(server, store')
  BY <1>1, Parts DEF StoreOK
<1>. QED
  BY <1>2, Parts, Kept, StillAwaited DEF EditCode, Awaited

-----------------------------------------------------------------------------
(* Promo codes *)

LEMMA ApplyPromoKeeps ==
    ASSUME IInv, NEW k \in Calls, ApplyPromo(k), receipt' = NoOrder PROVE IInv'
<1>. DEFINE c == [NoCall EXCEPT !.kind = "promo", !.mounted = TRUE, !.code = store.code,
                                !.subtotal = Subtotal(cart)]
<1>1. call' = [call EXCEPT ![k] = c] /\ call[k].kind = "none"
  BY DEF ApplyPromo, Start
<1>2. Subtotal(cart) \in Subtotals /\ Subtotal(cart) # 0
  BY Parts, Numbers DEF ApplyPromo, CartOK, Cart, Subtotal
<1>3. store.code \in Codes
  BY Parts DEF ApplyPromo, Store
<1>4. c \in Call
  BY <1>2, <1>3, NoCallOK, Parts DEF CallOK, Call
<1>5. c.kind = "promo" /\ c.code = store.code /\ c.subtotal = Subtotal(cart)
      /\ ~c.placed /\ ~c.fresh
  BY DEF NoCall
<1>. HIDE DEF c
<1>6. CallOK(server, c)
  BY <1>2, <1>3, <1>4, <1>5 DEF CallOK
<1>7. /\ store' \in Store /\ store'.fee = store.fee /\ store'.place = store.place
      /\ store'.quotedFor = store.quotedFor
      /\ store'.appliedFor = NotApplied /\ store'.discount = 0
  BY Parts, Numbers DEF ApplyPromo, Store, Applications, NotApplied
<1>8. StoreOK(server, store')
  BY <1>7, Parts DEF StoreOK, NotApplied
<1>9. cart' = cart /\ page' = page /\ edits' = edits /\ open' = open
  BY DEF ApplyPromo
<1>10. OneAwaited'
  BY <1>1, <1>5, <1>9, OtherCall, StillAwaited DEF Awaited
<1>. QED
  BY <1>1, <1>6, <1>8, <1>9, <1>10, Parts, OneCall, Kept

LEMMA PromoAnsweredKeeps ==
    ASSUME IInv, NEW k \in Calls, PromoAnswered(k), receipt' = NoOrder PROVE IInv'
<1>. DEFINE c == call[k]
            row == server.promo[c.code]
            valid == Eligible(c.code, c.subtotal)
            discount == IF valid THEN Discount(row, c.subtotal) ELSE 0
<1>1. call' = [call EXCEPT ![k] = NoCall] /\ c.kind = "promo"
  BY DEF PromoAnswered, Ends
<1>2. c.code \in Codes /\ c.subtotal \in Subtotals /\ c.subtotal # 0
  BY <1>1, Parts DEF CallOK, Call
<1>3. c.subtotal \in Nat /\ c.code # None /\ row \in PromoRows
  <2>1. PICK x \in Prices, q \in Quantities : c.subtotal = x * q
    BY <1>2 DEF Subtotals
  <2>2. c.subtotal \in Nat
    BY <2>1, Numbers, Parts
  <2>. QED
    BY <1>2, <2>2, Parts, CheckoutAssumption DEF ServerRows
<1>4. discount \in Nat /\ discount = Due(server, c.code, c.subtotal, ~valid)
  BY <1>3, DiscountType DEF Due, Exact
<1>. DEFINE a == [code |-> c.code, subtotal |-> c.subtotal, refused |-> ~valid]
<1>5. store' = [store EXCEPT !.discount = discount, !.appliedFor = a]
  BY DEF PromoAnswered
<1>6. /\ a \in Applications
      /\ a.code = c.code /\ a.subtotal = c.subtotal /\ a.refused = ~valid
  <2>1. valid \in BOOLEAN
    BY DEF Eligible
  <2>. HIDE DEF valid
  <2>. QED
    BY <1>2, <2>1 DEF Applications
<1>. HIDE DEF discount, a, valid
<1>7. /\ store' \in Store /\ store'.fee = store.fee /\ store'.place = store.place
      /\ store'.quotedFor = store.quotedFor
      /\ store'.appliedFor = a /\ store'.discount = discount
  BY <1>4, <1>5, <1>6, Parts DEF Store
<1>8. StoreOK(server, store')
  BY <1>3, <1>4, <1>6, <1>7, Parts DEF StoreOK
<1>9. cart' = cart /\ page' = page /\ edits' = edits /\ open' = open
  BY DEF PromoAnswered
<1>10. OneAwaited'
  BY <1>1, <1>9, OtherCall, StillAwaited DEF NoCall, Awaited
<1>. QED
  BY <1>1, <1>8, <1>9, <1>10, Parts, OneCall, NoCallOK, Kept

LEMMA PromoFailsKeeps ==
    ASSUME IInv, NEW k \in Calls, PromoFails(k), receipt' = NoOrder PROVE IInv'
<1>1. call' = [call EXCEPT ![k] = NoCall] /\ call[k].kind = "promo"
  BY DEF PromoFails, Ends
<1>2. /\ store' \in Store /\ store'.fee = store.fee /\ store'.place = store.place
      /\ store'.quotedFor = store.quotedFor
      /\ store'.appliedFor = NotApplied /\ store'.discount = 0
  BY Parts, Numbers DEF PromoFails, Store, Applications, NotApplied
<1>3. StoreOK(server, store')
  BY <1>2, Parts DEF StoreOK, NotApplied
<1>4. cart' = cart /\ page' = page /\ edits' = edits /\ open' = open
  BY DEF PromoFails
<1>5. OneAwaited'
  BY <1>1, <1>4, OtherCall, StillAwaited DEF NoCall, Awaited
<1>. QED
  BY <1>1, <1>3, <1>4, <1>5, Parts, OneCall, NoCallOK, Kept

-----------------------------------------------------------------------------
(* Quotes *)

LEMMA RequestQuoteKeeps ==
    ASSUME IInv, NEW k \in Calls, RequestQuote(k), receipt' = NoOrder PROVE IInv'
<1>. DEFINE c == [NoCall EXCEPT !.kind = "quote", !.mounted = TRUE,
                                !.restaurant = cart.restaurant]
<1>1. call' = [call EXCEPT ![k] = c] /\ call[k].kind = "none"
  BY DEF RequestQuote, Start
<1>2. cart.restaurant \in Restaurants
  BY Parts DEF RequestQuote, CartOK
<1>3. c \in Call
  BY <1>2, NoCallOK, Parts DEF CallOK, Call
<1>4. c.kind = "quote" /\ c.restaurant = cart.restaurant /\ ~c.placed /\ ~c.fresh
  BY DEF NoCall
<1>. HIDE DEF c
<1>5. CallOK(server, c)
  BY <1>2, <1>3, <1>4 DEF CallOK
<1>6. /\ store' \in Store /\ store'.fee = NoFee /\ store'.quotedFor = None
      /\ store'.appliedFor = store.appliedFor /\ store'.discount = store.discount
  BY Parts DEF RequestQuote, Store
<1>7. StoreOK(server, store')
  BY <1>6, Parts DEF StoreOK
<1>8. cart' = cart /\ page' \in Page /\ page'.name = page.name /\ edits' = edits /\ open' = open
  BY Parts DEF RequestQuote, Page
<1>9. OneAwaited'
  BY <1>1, <1>4, <1>8, OtherCall, StillAwaited DEF Awaited
<1>. QED
  BY <1>1, <1>5, <1>7, <1>8, <1>9, Parts, OneCall, Kept

LEMMA QuoteAnsweredKeeps ==
    ASSUME IInv, NEW k \in Calls, NEW p \in Places, QuoteAnswered(k, p), receipt' = NoOrder
    PROVE  IInv'
<1>. DEFINE c == call[k]
            fee == Quote(server.active, server.pricing, c.restaurant, p)
<1>1. /\ call' = [call EXCEPT ![k] = NoCall] /\ c.kind = "quote" /\ fee # Refused
      /\ store' = [store EXCEPT !.fee = fee, !.quotedFor = c.restaurant, !.place = p]
      /\ page' = [page EXCEPT !.error = @ /\ ~c.mounted]
      /\ cart' = cart /\ edits' = edits /\ open' = open
  BY DEF QuoteAnswered, Ends
<1>2. c.restaurant \in Restaurants
  BY <1>1, Parts DEF CallOK
<1>3. fee \in Nat
  BY <1>1, <1>2, QuoteType, Parts DEF ServerRows
<1>. HIDE DEF fee
<1>4. /\ store' \in Store /\ store'.fee = fee /\ store'.place = p
      /\ store'.quotedFor = c.restaurant
      /\ store'.appliedFor = store.appliedFor /\ store'.discount = store.discount
  BY <1>1, <1>2, <1>3, Parts DEF Store
<1>5. StoreOK(server, store')
  BY <1>4, Parts DEF StoreOK, fee
<1>6. page' \in Page /\ page'.name = page.name
  <2>1. c.mounted \in BOOLEAN /\ page.error \in BOOLEAN
    BY Parts DEF Call, Page
  <2>2. (page.error /\ ~c.mounted) \in BOOLEAN
    OBVIOUS
  <2>. QED
    BY <1>1, <2>2, Parts DEF Page
<1>7. OneAwaited'
  BY <1>1, <1>6, OtherCall, StillAwaited DEF NoCall, Awaited
<1>. QED
  BY <1>1, <1>5, <1>6, <1>7, Parts, OneCall, NoCallOK, Kept

LEMMA QuoteFailsKeeps ==
    ASSUME IInv, NEW k \in Calls, QuoteFails(k), receipt' = NoOrder PROVE IInv'
<1>1. /\ call' = [call EXCEPT ![k] = NoCall] /\ call[k].kind = "quote"
      /\ page' = [page EXCEPT !.error = @ \/ call[k].mounted]
      /\ cart' = cart /\ store' = store /\ edits' = edits /\ open' = open
  BY DEF QuoteFails, Ends
<1>2. page' \in Page /\ page'.name = page.name
  <2>1. (page.error \/ call[k].mounted) \in BOOLEAN
    OBVIOUS
  <2>. QED
    BY <1>1, <2>1, Parts DEF Page
<1>3. OneAwaited'
  BY <1>1, <1>2, OtherCall, StillAwaited DEF NoCall, Awaited
<1>. QED
  BY <1>1, <1>2, <1>3, Parts, OneCall, NoCallOK, Kept

-----------------------------------------------------------------------------
(* Orders *)

\* What is shown, when it belongs to what is ordered, is what the server would charge.
LEMMA FreshIsCharge ==
    ASSUME IInv, Fresh, cart.qty > 0, store.fee # NoFee, NEW c,
           c.restaurant = cart.restaurant, c.qty = cart.qty, c.code = store.code,
           c.place = store.place, c.refused = store.appliedFor.refused
    PROVE  GrandTotal(cart, store) \in Nat /\ GrandTotal(cart, store) = Charge(server, c)
<1>. DEFINE x == Subtotal(cart)
            fee == Quote(server.active, server.pricing, cart.restaurant, store.place)
<1>1. cart.restaurant \in Restaurants /\ cart.price = server.price[cart.restaurant]
  BY Parts DEF CartOK, Fresh
<1>2. x \in Nat /\ x # 0 /\ x = server.price[cart.restaurant] * cart.qty
  BY <1>1, Parts, Numbers DEF CartOK, Cart, Subtotal
<1>3. store.fee = fee /\ store.place \in Places /\ store.fee \in Nat
  <2>1. store.quotedFor = cart.restaurant /\ store.quotedFor # None
    BY <1>1, DeliveryAssumption DEF Fresh
  <2>2. store.fee \in Nat
    BY Parts DEF Store
  <2>. QED
    BY <2>1, <2>2, Parts DEF StoreOK
<1>. HIDE DEF x, fee
<1>4. store.discount = Due(server, store.code, x, c.refused)
  <2>1. store.appliedFor.code = store.code
    BY DEF Fresh
  <2>2. CASE store.code = None
    BY <2>1, <2>2, Parts DEF StoreOK, Due
  <2>3. CASE store.code # None
    <3>1. store.appliedFor.subtotal = x
      BY <2>3 DEF Fresh, x
    <3>. QED
      BY <1>2, <2>1, <2>3, <3>1, Parts DEF StoreOK
  <2>. QED
    BY <2>2, <2>3
<1>5. store.discount \in Nat /\ store.discount <= Exact * x
  BY <1>2, <1>4, DueType, Parts DEF Store, Exact
<1>6. /\ GrandTotal(cart, store) \in Nat
      /\ GrandTotal(cart, store) = Exact * x - store.discount + Exact * 100 * store.fee
  BY <1>2, <1>3, <1>5, GrandTotalIs DEF x
<1>7. Charge(server, c) = Exact * x - Due(server, store.code, x, c.refused) + Exact * 100 * fee
  BY <1>2 DEF Charge, fee
<1>. QED
  BY <1>3, <1>4, <1>6, <1>7

LEMMA SubmitOrderKeeps ==
    ASSUME IInv, NEW k \in Calls, SubmitOrder(k), receipt' = NoOrder PROVE IInv'
<1>. DEFINE shown == IF Fresh THEN GrandTotal(cart, store) ELSE 0
            fresh == Fresh
            refused == Fresh /\ store.appliedFor.refused
            c == [NoCall EXCEPT !.kind = "order", !.mounted = TRUE,
                    !.restaurant = cart.restaurant, !.qty = cart.qty,
                    !.code = store.code, !.place = store.place,
                    !.shown = shown, !.fresh = fresh, !.refused = refused]
<1>1. /\ call' = [call EXCEPT ![k] = c] /\ call[k].kind = "none"
      /\ page.name = "delivery" /\ cart.qty > 0 /\ store.fee # NoFee /\ Mounted("order") = {}
      /\ edits' = edits /\ open' = open /\ cart' = cart /\ store' = store /\ page' = page
  BY DEF SubmitOrder, Start
<1>2. /\ cart.restaurant \in Restaurants /\ store.place \in Places
      /\ cart.qty \in Quantities /\ cart.qty \in Nat /\ store.code \in Codes \cup {None}
  BY <1>1, Parts, Numbers DEF CartOK, StoreOK, Cart, Store
<1>3. /\ c.kind = "order" /\ c.mounted /\ c.restaurant = cart.restaurant /\ c.qty = cart.qty
      /\ c.code = store.code /\ c.place = store.place /\ c.shown = shown /\ c.fresh = fresh
      /\ c.refused = refused /\ ~c.placed
  BY DEF NoCall
<1>4. fresh \in BOOLEAN /\ refused \in BOOLEAN /\ (fresh => refused = store.appliedFor.refused)
  BY Parts DEF Fresh, Store, Applications
<1>5. ASSUME fresh PROVE shown \in Nat /\ shown = Charge(server, c)
  <2>1. Fresh /\ shown = GrandTotal(cart, store)
    BY <1>5
  <2>. HIDE DEF c
  <2>. QED
    BY <1>1, <1>3, <1>4, <2>1, FreshIsCharge
<1>6. shown \in Nat
  BY <1>5
<1>. HIDE DEF shown, fresh, refused
<1>7. c \in Call
  BY <1>2, <1>4, <1>6, NoCallOK, Parts DEF CallOK, Call
<1>. HIDE DEF c
<1>8. CallOK(server, c)
  BY <1>1, <1>2, <1>3, <1>5, <1>7 DEF CallOK
<1>9. OneAwaited'
  <2>1. \A j \in Calls : ~Awaited(j) /\ (Awaited(j)' => j = k)
    BY <1>1, Parts DEF Awaited, Mounted
  <2>2. cart.order # "placed"
    BY <2>1 DEF IInv, OneAwaited
  <2>. QED
    BY <1>1, <2>1, <2>2 DEF OneAwaited, Awaited
<1>. QED
  BY <1>1, <1>8, <1>9, Parts, OneCall, Kept

LEMMA OrderAnsweredKeeps ==
    ASSUME IInv, NEW k \in Calls, OrderAnswered(k), receipt' = NoOrder PROVE IInv'
<1>1. /\ cart' = EmptyCart /\ cart'.order = "none" /\ store' = EmptyStore /\ page' \in Page
      /\ call' = [Unmounted EXCEPT ![k] = NoCall] /\ edits' = edits /\ open' = open
  BY DEF OrderAnswered, EmptyCart, Page
<1>2. call' \in [Calls -> Call] /\ \A j \in Calls : CallOK(server, call'[j]) /\ ~call'[j].mounted
  BY <1>1, UnmountedOK, NoCallOK, Parts DEF CallOK, NoCall
<1>3. OneAwaited'
  BY <1>1, <1>2, NoneAwaited DEF Awaited
<1>. QED
  BY <1>1, <1>2, <1>3, Parts, EmptyCartOK, EmptyStoreOK, Kept

LEMMA OrderFailsKeeps ==
    ASSUME IInv, NEW k \in Calls, OrderFails(k), receipt' = NoOrder PROVE IInv'
<1>. DEFINE order == IF call[k].mounted /\ call[k].placed THEN "lost" ELSE cart.order
<1>1. /\ call' = [call EXCEPT ![k] = NoCall] /\ call[k].kind = "order"
      /\ cart' = [cart EXCEPT !.order = order]
      /\ page' = page /\ store' = store /\ edits' = edits /\ open' = open
  BY DEF OrderFails, Ends
<1>2. order \in {"none", "placed", "lost"}
  BY Parts DEF Cart
<1>3. /\ cart' \in Cart /\ cart'.restaurant = cart.restaurant /\ cart'.price = cart.price
      /\ cart'.qty = cart.qty /\ cart'.current = cart.current /\ cart'.order = order
  BY <1>1, <1>2, Parts DEF Cart
<1>4. CartOK(server, cart')
  BY <1>3, Parts DEF CartOK
<1>5. \A j \in Calls : call'[j] = IF j = k THEN NoCall ELSE call[j]
  BY <1>1, Parts
<1>6. \A j \in Calls : Awaited(j)' => Awaited(j) /\ j # k
  BY <1>5 DEF Awaited, NoCall
<1>7. ASSUME cart'.order = "placed"
      PROVE  \E j \in Calls : call'[j].kind = "order" /\ call'[j].mounted /\ call'[j].placed
  <2>1. cart.order = "placed" /\ ~(call[k].mounted /\ call[k].placed)
    BY <1>3, <1>7
  <2>2. PICK j \in Calls : Awaited(j) /\ call[j].placed
    BY <2>1 DEF IInv, OneAwaited
  <2>. QED
    BY <1>5, <2>1, <2>2 DEF Awaited
<1>8. OneAwaited'
  BY <1>1, <1>6, <1>7 DEF IInv, OneAwaited, Awaited
<1>. QED
  BY <1>1, <1>4, <1>8, Parts, OneCall, NoCallOK, Kept

-----------------------------------------------------------------------------
(* Administrators, and time *)

LEMMA EditKeeps ==
    ASSUME IInv, Edit, receipt' = NoOrder PROVE IInv'
<1>1. edits' \in 0 .. Len(Servers) - 1 /\ page' = page
  <2>1. Len(Servers) \in Nat
    BY CheckoutAssumption
  <2>2. edits \in 0 .. Len(Servers) - 1
    BY DEF IInv
  <2>3. edits < Len(Servers) - 1 /\ edits' = edits + 1 /\ page' = page
    BY DEF Edit
  <2>. QED
    BY <2>1, <2>2, <2>3
<1>2. server' \in ServerRows
  <2>1. Servers \in Seq(ServerRows)
    BY CheckoutAssumption
  <2>2. \A n \in 0 .. Len(Servers) - 1 : n + 1 \in 1 .. Len(Servers)
    BY <2>1
  <2>3. edits' + 1 \in 1 .. Len(Servers)
    BY <1>1, <2>2
  <2>. QED
    BY <2>1, <2>3 DEF server
<1>3. /\ cart' \in Cart /\ cart'.restaurant = cart.restaurant /\ cart'.price = cart.price
      /\ cart'.qty = cart.qty /\ (cart.qty # 0 => ~cart'.current) /\ cart'.order = cart.order
  BY Parts DEF Edit, Cart
<1>4. CartOK(server', cart')
  <2>1. cart.qty \in Nat
    BY Parts, Numbers DEF Cart
  <2>. QED
    BY <1>3, <2>1, Parts DEF CartOK
<1>5. /\ store' \in Store /\ store'.fee = store.fee /\ store'.place = store.place
      /\ store'.quotedFor = None /\ store'.discount = store.discount
      /\ store'.appliedFor.code = store.appliedFor.code /\ store'.appliedFor.subtotal = 0
      /\ store'.appliedFor.refused = store.appliedFor.refused
  <2>. DEFINE a == [store.appliedFor EXCEPT !.subtotal = 0]
  <2>1. /\ a \in Applications /\ a.code = store.appliedFor.code /\ a.subtotal = 0
        /\ a.refused = store.appliedFor.refused
    BY Parts, Numbers DEF Store, Applications
  <2>2. store' = [store EXCEPT !.quotedFor = None, !.appliedFor = a]
    BY Parts DEF Edit, Store
  <2>. HIDE DEF a
  <2>. QED
    BY <2>1, <2>2, Parts DEF Store
<1>6. StoreOK(server', store')
  BY <1>5, Parts DEF StoreOK
<1>7. ASSUME NEW k \in Calls
      PROVE  /\ CallOK(server', call'[k]) /\ call'[k] \in Call
             /\ call'[k].kind = call[k].kind /\ call'[k].mounted = call[k].mounted
             /\ call'[k].placed = call[k].placed
  <2>. DEFINE c == [call[k] EXCEPT !.fresh = FALSE, !.shown = 0, !.refused = FALSE]
  <2>1. call'[k] = c
    BY DEF Edit
  <2>2. c \in Call
    BY Parts DEF Call
  <2>3. /\ c.mounted = call[k].mounted /\ c.kind = call[k].kind
        /\ c.restaurant = call[k].restaurant
        /\ c.subtotal = call[k].subtotal /\ c.qty = call[k].qty /\ c.code = call[k].code
        /\ c.place = call[k].place /\ ~c.fresh /\ c.placed = call[k].placed
    BY Parts DEF Call
  <2>4. CallOK(server, call[k])
    BY Parts
  <2>. HIDE DEF c
  <2>. QED
    BY <2>1, <2>2, <2>3, <2>4 DEF CallOK
<1>8. call' \in [Calls -> Call]
  BY <1>7 DEF Edit
<1>9. OneAwaited'
  BY <1>1, <1>3, <1>7, StillAwaited DEF Awaited
<1>10. receipt' \in Order /\ ChargedAsShown' /\ AmountsAddUp'
  BY NoOrderOK DEF NoOrder, ChargedAsShown, AmountsAddUp
<1>11. open' \subseteq Active(server')
  BY DEF Edit
<1>. QED
  BY <1>1, <1>4, <1>6, <1>7, <1>8, <1>9, <1>10, <1>11, Parts DEF IInv

LEMMA CodeTurnsKeeps ==
    ASSUME IInv, NEW code \in Codes, CodeTurns(code), receipt' = NoOrder PROVE IInv'
<1>1. /\ edits' = edits /\ cart' = cart /\ store' = store /\ page' = page /\ call' = call
      /\ server' = server
  BY DEF CodeTurns, server
<1>2. open' \subseteq Active(server)
  BY DEF IInv, CodeTurns, Active
<1>3. OneAwaited'
  BY <1>1, StillAwaited DEF Awaited
<1>4. receipt' \in Order /\ ChargedAsShown' /\ AmountsAddUp'
  BY NoOrderOK DEF NoOrder, ChargedAsShown, AmountsAddUp
<1>. QED
  BY <1>1, <1>2, <1>3, <1>4 DEF IInv

-----------------------------------------------------------------------------
(* The step that creates an order *)

LEMMA CreateGuestOrderKeeps ==
    ASSUME IInv, NEW k \in Calls, CreateGuestOrder(k) PROVE IInv' /\ SecondOrder
<1>. DEFINE c == call[k]
            fee == Quote(server.active, server.pricing, c.restaurant, c.place)
            subtotal == server.price[c.restaurant] * c.qty
            discount == IF c.code = None THEN 0 ELSE Discount(server.promo[c.code], subtotal)
            order == IF c.mounted /\ cart.order = "none" THEN "placed" ELSE cart.order
            after == [NoCall EXCEPT !.kind = "order", !.mounted = c.mounted, !.placed = TRUE]
<1>1. /\ c.kind = "order" /\ ~c.placed /\ fee # Refused
      /\ c.code # None => Eligible(c.code, subtotal)
      /\ receipt' = Amounts(c, subtotal, discount, fee)
      /\ cart' = [cart EXCEPT !.order = order]
      /\ call' = [call EXCEPT ![k] = after]
      /\ edits' = edits /\ open' = open /\ store' = store /\ page' = page
  BY DEF CreateGuestOrder
<1>2. server' = server
  BY <1>1 DEF server
<1>3. c.restaurant \in Restaurants /\ c.place \in Places /\ c \in Call
  BY <1>1, Parts DEF CallOK
<1>4. subtotal \in Nat
  <2>1. server.price[c.restaurant] \in Prices /\ c.qty \in Quantities
    BY <1>3, Parts DEF ServerRows, Call
  <2>. QED
    BY <2>1, Numbers, Parts
<1>5. fee \in Nat
  BY <1>1, <1>3, QuoteType, Parts DEF ServerRows
<1>6. discount = Due(server, c.code, subtotal, FALSE)
  BY DEF Due
<1>7. discount \in 0 .. Exact * subtotal
  <2>1. c.code \in Codes \cup {None}
    BY <1>3 DEF Call
  <2>. HIDE DEF c
  <2>. QED
    BY <1>4, <1>6, <2>1, DueType, Parts
<1>8. c.fresh =>
          c.shown = Exact * subtotal - (IF c.refused THEN 0 ELSE discount) + Exact * 100 * fee
  <2>1. c.refused \in BOOLEAN
    BY <1>3 DEF Call
  <2>2. Due(server, c.code, subtotal, c.refused) = IF c.refused THEN 0 ELSE discount
    BY <2>1 DEF Due
  <2>3. c.fresh => c.shown = Charge(server, c)
    BY Parts DEF CallOK
  <2>. HIDE DEF discount, c
  <2>. QED
    BY <2>2, <2>3 DEF Charge
<1>. HIDE DEF fee, subtotal, discount
<1>9. receipt' \in Order /\ AmountsAddUp'
  <2>1. /\ receipt'.subtotal \in Nat /\ receipt'.deliveryFee \in Nat
        /\ receipt'.discountAmount \in Nat /\ receipt'.total \in Nat /\ AmountsAddUp'
    BY <1>1, <1>4, <1>5, <1>7, AmountsAre DEF AmountsAddUp
  <2>2. /\ receipt' = [subtotal |-> receipt'.subtotal, deliveryFee |-> receipt'.deliveryFee,
                       discountAmount |-> receipt'.discountAmount, total |-> receipt'.total,
                       shown |-> c.shown, fresh |-> c.fresh, refused |-> c.refused]
        /\ c.shown \in Nat /\ c.fresh \in BOOLEAN /\ c.refused \in BOOLEAN
    BY <1>1, <1>3 DEF Amounts, Call
  <2>. QED
    BY <2>1, <2>2 DEF Order
<1>10. ChargedAsShown'
  <2>. DEFINE x == Exact * subtotal - discount + Exact * 100 * fee
              y == Exact * subtotal - 0 + Exact * 100 * fee
  <2>1. /\ receipt'.fresh = c.fresh /\ receipt'.shown = c.shown
        /\ receipt'.refused = c.refused /\ receipt'.total = Stored(x)
    BY <1>1 DEF Amounts
  <2>2. Stored(x) <= Stored(y)
    <3>1. x \in Nat /\ y \in Nat /\ x <= y
      BY <1>4, <1>5, <1>7 DEF Exact
    <3>. HIDE DEF x, y
    <3>. QED
      BY <3>1, StoredMonotone
  <2>3. c.fresh => c.shown = IF c.refused THEN y ELSE x
    BY <1>8
  <2>. HIDE DEF x, y
  <2>. QED
    BY <2>1, <2>2, <2>3 DEF ChargedAsShown
<1>11. /\ after \in Call /\ after.kind = "order" /\ after.mounted = c.mounted /\ after.placed
       /\ ~after.fresh
  <2>1. c.mounted \in BOOLEAN
    BY <1>3 DEF Call
  <2>. QED
    BY <2>1, NoCallOK, Parts DEF CallOK, Call, NoCall
<1>. HIDE DEF after
<1>12. CallOK(server, after)
  BY <1>11 DEF CallOK
<1>13. call' \in [Calls -> Call] /\ \A j \in Calls : CallOK(server, call'[j])
  BY <1>1, <1>12, OneCall
<1>14. order \in {"none", "placed", "lost"}
  BY Parts DEF Cart
<1>15. /\ cart' \in Cart /\ cart'.restaurant = cart.restaurant /\ cart'.price = cart.price
       /\ cart'.qty = cart.qty /\ cart'.current = cart.current /\ cart'.order = order
  BY <1>1, <1>14, Parts DEF Cart
<1>16. CartOK(server, cart')
  BY <1>15, Parts DEF CartOK
<1>17. \A j \in Calls : call'[j] = IF j = k THEN after ELSE call[j]
  BY <1>1, Parts
<1>18. \A j \in Calls : Awaited(j)' <=> Awaited(j)
  BY <1>1, <1>11, <1>17 DEF Awaited
<1>19. ASSUME order = "placed"
       PROVE  \E j \in Calls : call'[j].kind = "order" /\ call'[j].mounted /\ call'[j].placed
  <2>1. CASE cart.order = "placed"
    <3>1. PICK j \in Calls : Awaited(j) /\ call[j].placed
      BY <2>1 DEF IInv, OneAwaited
    <3>. QED
      BY <1>1, <1>17, <3>1 DEF Awaited
  <2>2. CASE cart.order # "placed"
    BY <1>11, <1>17, <1>19, <2>2
  <2>. QED
    BY <2>1, <2>2
<1>20. OneAwaited'
  BY <1>1, <1>15, <1>18, <1>19 DEF IInv, OneAwaited, Awaited
<1>21. IInv'
  BY <1>1, <1>2, <1>9, <1>10, <1>13, <1>16, <1>20 DEF IInv
<1>22. SecondOrder
  <2>. SUFFICES ASSUME NEW j \in Calls, ~call[j].placed, call'[j].placed,
                       call[j].mounted, cart.order = "placed"
                PROVE  FALSE
    BY DEF SecondOrder
  <2>1. j = k
    BY <1>17
  <2>2. PICK i \in Calls : Awaited(i) /\ call[i].placed
    BY DEF IInv, OneAwaited
  <2>. QED
    BY <1>1, <2>1, <2>2 DEF IInv, OneAwaited, Awaited
<1>. QED
  BY <1>21, <1>22

\* No other step places an order.
LEMMA PlacesNone ==
    ASSUME IInv, \/ \A k \in Calls : call'[k].placed => call[k].placed
                 \/ UNCHANGED call
    PROVE  SecondOrder
BY DEF SecondOrder

-----------------------------------------------------------------------------
(* The theorems *)

LEMMA Starts == Init => IInv
<1>. SUFFICES ASSUME Init PROVE IInv
  OBVIOUS
<1>1. edits = 0 /\ 0 \in 0 .. Len(Servers) - 1
  BY CheckoutAssumption DEF Init
<1>2. server \in ServerRows
  BY <1>1, ServerType
<1>3. CartOK(server, cart) /\ StoreOK(server, store)
  BY <1>2, EmptyCartOK, EmptyStoreOK DEF Init
<1>4. call \in [Calls -> Call] /\ \A k \in Calls : CallOK(server, call[k]) /\ call[k] = NoCall
  BY <1>2, NoCallOK DEF Init, CallOK
<1>5. page \in Page
  BY DEF Init, Page
<1>6. OneAwaited
  BY <1>4 DEF OneAwaited, Awaited, NoCall, Init, EmptyCart
<1>7. receipt \in Order /\ ChargedAsShown /\ AmountsAddUp
  BY NoOrderOK DEF Init, NoOrder, ChargedAsShown, AmountsAddUp
<1>8. open \subseteq Active(server)
  BY DEF Init
<1>. QED
  BY <1>1, <1>3, <1>4, <1>5, <1>6, <1>7, <1>8 DEF IInv

\* A step that creates no order.
LEMMA OtherStep ==
    ASSUME IInv, receipt' = NoOrder,
           Customer \/ Edit \/ (\E code \in Codes : CodeTurns(code))
                    \/ \E k \in Calls : Communicate(k)
    PROVE  IInv' /\ SecondOrder
<1>1. CASE \E r \in Restaurants : AddItem(r)
  BY <1>1, AddItemKeeps, PlacesNone DEF AddItem
<1>2. CASE DecrementItem
  BY <1>2, DecrementItemKeeps, PlacesNone DEF DecrementItem
<1>3. CASE RemoveItem
  BY <1>3, RemoveItemKeeps, PlacesNone DEF RemoveItem
<1>4. \A k \in Calls : Unmounted[k].placed = call[k].placed
  BY Parts DEF Unmounted, Call
<1>5. CASE ClearAll
  <2>1. call' = Unmounted
    BY <1>5 DEF ClearAll
  <2>. QED
    BY <1>4, <1>5, <2>1, ClearAllKeeps, PlacesNone
<1>6. CASE \E name \in {"shop", "details", "delivery"} : Open(name)
  <2>1. PICK name \in {"shop", "details", "delivery"} : Open(name)
    BY <1>6
  <2>2. call' = Unmounted
    BY <2>1 DEF Open
  <2>. QED
    BY <1>4, <2>1, <2>2, OpenKeeps, PlacesNone
<1>7. CASE EditPhone
  BY <1>7, EditPhoneKeeps, PlacesNone DEF EditPhone
<1>8. CASE \E code \in Codes \cup {None} : EditCode(code)
  BY <1>8, EditCodeKeeps, PlacesNone DEF EditCode
<1>9. CASE Edit
  <2>1. \A k \in Calls : call'[k].placed = call[k].placed
    BY <1>9, Parts DEF Edit, Call
  <2>. QED
    BY <1>9, <2>1, EditKeeps, PlacesNone
<1>10. CASE \E k \in Calls : Communicate(k)
  <2>1. PICK k \in Calls : Communicate(k)
    BY <1>10
  <2>2. IInv'
    BY <2>1, ApplyPromoKeeps, PromoAnsweredKeeps, PromoFailsKeeps, RequestQuoteKeeps,
       QuoteAnsweredKeeps, QuoteFailsKeeps, SubmitOrderKeeps, OrderAnsweredKeeps,
       OrderFailsKeeps DEF Communicate
  <2>3. CASE OrderAnswered(k)
    <3>1. call' = [Unmounted EXCEPT ![k] = NoCall] /\ ~NoCall.placed
      BY <2>3 DEF OrderAnswered, NoCall
    <3>2. \A j \in Calls : call'[j].placed => call[j].placed
      BY <1>4, <3>1, UnmountedOK
    <3>. QED
      BY <2>2, <3>2, PlacesNone
  <2>4. CASE \E c : call' = [call EXCEPT ![k] = c] /\ ~c.placed
    <3>1. PICK c : call' = [call EXCEPT ![k] = c] /\ ~c.placed
      BY <2>4
    <3>2. \A j \in Calls : call'[j].placed => call[j].placed
      BY <3>1, Parts
    <3>. QED
      BY <2>2, <3>2, PlacesNone
  <2>5. CASE \/ PromoAnswered(k) \/ PromoFails(k) \/ QuoteFails(k) \/ OrderFails(k)
             \/ \E p \in Places : QuoteAnswered(k, p)
    <3>1. call' = [call EXCEPT ![k] = NoCall]
      BY <2>5 DEF PromoAnswered, PromoFails, QuoteFails, OrderFails, QuoteAnswered, Ends
    <3>2. ~NoCall.placed
      BY DEF NoCall
    <3>. QED
      BY <2>4, <3>1, <3>2
  <2>6. CASE ApplyPromo(k)
    <3>. DEFINE c == [NoCall EXCEPT !.kind = "promo", !.mounted = TRUE, !.code = store.code,
                                    !.subtotal = Subtotal(cart)]
    <3>1. call' = [call EXCEPT ![k] = c]
      BY <2>6 DEF ApplyPromo, Start
    <3>2. ~c.placed
      BY DEF NoCall
    <3>. QED
      BY <2>4, <3>1, <3>2
  <2>7. CASE RequestQuote(k)
    <3>. DEFINE c == [NoCall EXCEPT !.kind = "quote", !.mounted = TRUE,
                                    !.restaurant = cart.restaurant]
    <3>1. call' = [call EXCEPT ![k] = c]
      BY <2>7 DEF RequestQuote, Start
    <3>2. ~c.placed
      BY DEF NoCall
    <3>. QED
      BY <2>4, <3>1, <3>2
  <2>8. CASE SubmitOrder(k)
    <3>. DEFINE c == [NoCall EXCEPT !.kind = "order", !.mounted = TRUE,
                        !.restaurant = cart.restaurant, !.qty = cart.qty,
                        !.code = store.code, !.place = store.place,
                        !.shown = IF Fresh THEN GrandTotal(cart, store) ELSE 0,
                        !.fresh = Fresh, !.refused = Fresh /\ store.appliedFor.refused]
    <3>1. call' = [call EXCEPT ![k] = c]
      BY <2>8 DEF SubmitOrder, Start
    <3>2. ~c.placed
      BY DEF NoCall
    <3>. QED
      BY <2>4, <3>1, <3>2
  <2>. QED
    BY <2>1, <2>3, <2>5, <2>6, <2>7, <2>8 DEF Communicate
<1>11. CASE \E code \in Codes : CodeTurns(code)
  BY <1>11, CodeTurnsKeeps, PlacesNone DEF CodeTurns
<1>. QED
  BY <1>1, <1>2, <1>3, <1>5, <1>6, <1>7, <1>8, <1>9, <1>10, <1>11 DEF Customer

LEMMA Stutters == ASSUME IInv, UNCHANGED vars PROVE IInv'
BY DEF IInv, vars, server, OneAwaited, Awaited, ChargedAsShown, AmountsAddUp

LEMMA StepKeeps == ASSUME IInv, Next PROVE IInv' /\ SecondOrder
BY OtherStep, CreateGuestOrderKeeps DEF Next

LEMMA Invariant == Spec => []IInv
<1>1. IInv /\ [Next]_vars => IInv'
  BY StepKeeps, Stutters
<1>. QED
  BY <1>1, Starts, PTL DEF Spec

\* Every variable keeps its type.
THEOREM CheckoutTypes == Spec => []TypeOK
<1>1. IInv => TypeOK
  BY DEF IInv, TypeOK, CartOK, StoreOK
<1>. QED
  BY <1>1, Invariant, PTL

\* Of what the button said it of, the customer pays what it said; when it was said for a code
\* that had been refused, and that has begun or got a use back since, at most what it said.
THEOREM PaysWhatIsShown == Spec => []ChargedAsShown
<1>1. IInv => ChargedAsShown
  BY DEF IInv
<1>. QED
  BY <1>1, Invariant, PTL

\* The stored amounts of an order add up to one unit of their last decimal.
THEOREM ColumnsAddUp == Spec => []AmountsAddUp
<1>1. IInv => AmountsAddUp
  BY DEF IInv
<1>. QED
  BY <1>1, Invariant, PTL

\* While the page waits for the answer of an order placed, it places no other.
THEOREM NoSecondOrder == Spec => OneOrderPerCart
<1>1. IInv /\ [Next]_vars => [SecondOrder]_vars
  BY StepKeeps
<1>. QED
  BY <1>1, Invariant, PTL DEF Spec, OneOrderPerCart

\* Edits that switch no zones but those of a whole city leave the customer the fee that was
\* quoted where a zone of the restaurant delivers.
THEOREM OwnZonesFirst == Spec => CityZonesGiveWay
<1>1. ASSUME IInv, IInv' PROVE CityZoneSwitched
  <2>1. server.active \subseteq Zones /\ server'.active \subseteq Zones
    <3>1. server \in ServerRows
      BY <1>1, Parts
    <3>2. server' \in ServerRows
      <4>1. Servers \in Seq(ServerRows)
        BY CheckoutAssumption
      <4>2. \A n \in 0 .. Len(Servers) - 1 : n + 1 \in 1 .. Len(Servers)
        BY <4>1
      <4>3. edits' \in 0 .. Len(Servers) - 1
        BY <1>1 DEF IInv
      <4>. QED
        BY <4>1, <4>2, <4>3 DEF server
    <3>. QED
      BY <3>1, <3>2 DEF ServerRows
  <2>. DEFINE switched == (server.active \ server'.active) \cup (server'.active \ server.active)
              r == store.quotedFor
              p == store.place
  <2>2. ASSUME r # None
        PROVE  r \in Restaurants /\ p \in Places
               /\ store.fee = Quote(server.active, server.pricing, r, p)
    BY <1>1, <2>2, Parts DEF StoreOK, Store
  <2>3. ASSUME r # None, \A z \in switched : CityWide(z),
               NEW z \in Hits(server.active, r, p), ~CityWide(z)
        PROVE  Quote(server'.active, server'.pricing, r, p) = store.fee
    BY <2>1, <2>2, <2>3, CityGivesWay
  <2>. QED
    BY <2>3 DEF CityZoneSwitched, CityWide
<1>2. IInv /\ IInv' => [CityZoneSwitched]_vars
  BY <1>1
<1>. QED
  BY <1>2, Invariant, PTL DEF CityZonesGiveWay

=============================================================================
