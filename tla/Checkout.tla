------------------------------ MODULE Checkout ------------------------------
(***************************************************************************)
(* One customer of the web shop, from the cart to the placed order: the    *)
(* two stores the browser keeps (store/cart.ts, store/checkout.ts), the    *)
(* pages that share hooks/use-checkout-flow.ts, its calls in flight, and   *)
(* the server that quotes, validates and places (orders.service.ts,        *)
(* promo-codes.service.ts) while administrators edit what it reads and     *)
(* promo codes begin, expire and are used up.                              *)
(*                                                                         *)
(* A server handler is one action.  A restaurant has one product.  Money   *)
(* of an order is in hundredths of a sum, the column's two decimals.       *)
(***************************************************************************)
EXTENDS DeliveryPricing, Sequences

CONSTANTS
    Prices,     \* prices a product may have, in hundredths
    Codes,      \* promo codes a customer may type
    Servers,    \* bound: what the rows a checkout reads become, edit by edit
    MaxQty,     \* bound: restaurant -> pieces of its product in the cart
    Calls       \* bound: slots for calls in flight

NoPlace == "nowhere"
NoFee == -1

PromoRows == [isActive : BOOLEAN, type : {"PERCENT", "FIXED"}, value : Nat,
              maximumDiscount : Nat, minimumOrderAmount : Nat]   \* 0: not given

\* The prices of the products, the zones that are active and not deleted, the
\* delivery_pricing setting, and the promo codes.
ServerRows == [price : [Restaurants -> Prices], active : SUBSET Zones,
               pricing : PricingRows, promo : [Codes -> PromoRows]]

ASSUME CheckoutAssumption ==
    /\ Restaurants # {}
    /\ None \notin Codes /\ NoPlace \notin Places
    /\ Prices \subseteq Nat \ {0}
    /\ Servers \in Seq(ServerRows) /\ Servers # <<>>
    /\ MaxQty \in [Restaurants -> Nat \ {0}]

VARIABLES
    edits,      \* how many edits administrators have made
    open,       \* codes that are active, within their dates and with uses left
    cart,       \* the cart store
    store,      \* the checkout store
    page,       \* the page that is open, and its local error flag
    call,       \* slot -> a call in flight
    receipt     \* history: the order the last step created, if it created one

vars == <<edits, open, cart, store, page, call, receipt>>

\* The rows the server reads.
server == Servers[edits + 1]

Exact == 10000      \* discounts are computed to this fraction of a hundredth

Quantities == UNION {0 .. MaxQty[r] : r \in Restaurants}
Subtotals == {x * q : x \in Prices, q \in Quantities}

\* History: current: no edit since; order: was one placed of this cart, and was its answer
\* lost, or the page left while it was placed?
Cart == [restaurant : Restaurants \cup {None}, qty : Quantities,
         price : Prices \cup {0}, current : BOOLEAN, order : {"none", "placed", "lost"}]

EmptyCart == [restaurant |-> None, qty |-> 0, price |-> 0, current |-> TRUE,
              order |-> "none"]

\* History: a code that was validated, for which subtotal, and was it refused?
Applications == [code : Codes \cup {None}, subtotal : Subtotals, refused : BOOLEAN]

\* fee: in sums; discount: exact.  quotedFor, appliedFor: the restaurant the fee, and the
\* code and subtotal the discount were computed for, until an edit (history).
Store == [code : Codes \cup {None}, discount : Nat,
          place : Places \cup {NoPlace}, fee : Nat \cup {NoFee},
          quotedFor : Restaurants \cup {None}, appliedFor : Applications]

NotApplied == [code |-> None, subtotal |-> 0, refused |-> FALSE]

EmptyStore == [code |-> None, discount |-> 0, place |-> NoPlace, fee |-> NoFee,
               quotedFor |-> None, appliedFor |-> NotApplied]

Page == [name : {"shop", "details", "delivery"}, error : BOOLEAN]

\* The amounts of an order, and what its customer was shown: fresh when that belonged to it,
\* refused when it was shown for a code that had been refused.
Order == [subtotal : Nat, deliveryFee : Nat, discountAmount : Nat, total : Nat,
          shown : Nat, fresh : BOOLEAN, refused : BOOLEAN]

NoOrder == [subtotal |-> 0, deliveryFee |-> 0, discountAmount |-> 0, total |-> 0,
            shown |-> 0, fresh |-> FALSE, refused |-> FALSE]

\* A call holds what its closure saw of the stores.  mounted: is its page still open?
\* placed: has the server placed the order?  fresh, refused (history): of an order not placed,
\* does what was shown belong to what is ordered, and was its code refused?
Call == [kind : {"none", "quote", "promo", "order"}, mounted : BOOLEAN,
         restaurant : Restaurants \cup {None}, subtotal : Subtotals,
         qty : Quantities, code : Codes \cup {None}, place : Places \cup {NoPlace},
         shown : Nat, fresh : BOOLEAN, refused : BOOLEAN, placed : BOOLEAN]

NoCall == [kind |-> "none", mounted |-> FALSE, restaurant |-> None, subtotal |-> 0,
           qty |-> 0, code |-> None, place |-> NoPlace, shown |-> 0, fresh |-> FALSE,
           refused |-> FALSE, placed |-> FALSE]

-----------------------------------------------------------------------------
(* Helpers *)

Least(x, y) == IF x < y THEN x ELSE y

Subtotal(c) == c.price * c.qty

\* Exact: value is a number of hundredths, of a sum or of a percent.
Discount(row, subtotal) ==
    LET discount == IF row.type = "FIXED" THEN Exact * row.value ELSE subtotal * row.value
        capped == IF row.maximumDiscount = 0 THEN discount
                  ELSE Least(discount, Exact * row.maximumDiscount)
    IN  Least(capped, Exact * subtotal)

\* The codes that are active.
Active(s) == {code \in Codes : s.promo[code].isActive}

\* open stands for isActive, startsAt and expiresAt compared with now, and usageCount with
\* usageLimit.
Eligible(code, subtotal) ==
    /\ code \in open
    /\ subtotal >= server.promo[code].minimumOrderAmount

\* What the button of the delivery page says the order costs, exact.
GrandTotal(c, s) ==
    LET net == Exact * Subtotal(c) - s.discount
    IN  (IF net < 0 THEN 0 ELSE net) + Exact * 100 * s.fee

\* A column keeps two decimals.
Stored(x) == Round(x, Exact)

Mounted(kind) == {k \in Calls : call[k].kind = kind /\ call[k].mounted}

\* Does what is shown belong to what would be ordered now?
Fresh ==
    /\ cart.current
    /\ store.quotedFor = cart.restaurant
    /\ store.appliedFor.code = store.code
    /\ store.code # None => store.appliedFor.subtotal = Subtotal(cart)

\* A page starts a call in a free slot.
Start(k, c) ==
    /\ call[k].kind = "none"
    /\ call' = [call EXCEPT ![k] = c]

Unmounted == [k \in Calls |-> [call[k] EXCEPT !.mounted = FALSE]]

Ends(k, kind) ==
    /\ call[k].kind = kind
    /\ call' = [call EXCEPT ![k] = NoCall]

-----------------------------------------------------------------------------
(* The cart, and moving between pages *)

\* An item of another restaurant replaces the cart; the quote shown stays.
AddItem(r) ==
    /\ page.name = "shop"
    /\ IF cart.restaurant = r
       THEN cart.qty < MaxQty[r] /\ cart' = [cart EXCEPT !.qty = @ + 1]
       ELSE cart' = [EmptyCart EXCEPT !.restaurant = r, !.qty = 1, !.price = server.price[r]]
    /\ UNCHANGED <<edits, open, store, page, call>>

DecrementItem ==
    /\ page.name = "shop" /\ cart.qty > 1
    /\ cart' = [cart EXCEPT !.qty = @ - 1]
    /\ UNCHANGED <<edits, open, store, page, call>>

\* And decrementItem of the last piece.
RemoveItem ==
    /\ page.name = "shop" /\ cart.qty > 0
    /\ cart' = EmptyCart
    /\ UNCHANGED <<edits, open, store, page, call>>

ClearAll ==
    /\ page.name \in {"shop", "details"} /\ cart.qty > 0
    /\ cart' = EmptyCart
    /\ store' = EmptyStore
    /\ page' = [name |-> "shop", error |-> FALSE]
    /\ call' = Unmounted
    /\ UNCHANGED <<edits, open>>

\* Leaving a page forgets its flags; its calls go on.
Open(name) ==
    /\ page.name # name
    /\ name # "shop" => cart.qty > 0
    /\ page' = [name |-> name, error |-> FALSE]
    /\ call' = Unmounted
    /\ cart' = [cart EXCEPT !.order = IF Mounted("order") = {} THEN @ ELSE "lost"]
    /\ UNCHANGED <<edits, open, store>>

\* Typing a phone passes through numbers that are not valid: the quote is cleared.  The
\* delivery page does not open until the number is valid again.
EditPhone ==
    /\ page.name = "details" /\ cart.qty > 0
    /\ store.fee # NoFee
    /\ store' = [store EXCEPT !.fee = NoFee, !.place = NoPlace, !.quotedFor = None]
    /\ UNCHANGED <<edits, open, cart, page, call>>

EditCode(code) ==
    /\ page.name = "details" /\ cart.qty > 0
    /\ store.code # code
    /\ store' = [store EXCEPT !.code = code]
    /\ UNCHANGED <<edits, open, cart, page, call>>

-----------------------------------------------------------------------------
(* applyPromo, and validate of the server *)

ApplyPromo(k) ==
    /\ page.name = "details" /\ cart.qty > 0
    /\ store.code # None /\ Mounted("promo") = {}
    /\ Start(k, [NoCall EXCEPT !.kind = "promo", !.mounted = TRUE, !.code = store.code,
                               !.subtotal = Subtotal(cart)])
    /\ store' = [store EXCEPT !.discount = 0, !.appliedFor = NotApplied]
    /\ UNCHANGED <<edits, open, cart, page>>

PromoAnswered(k) ==
    LET c == call[k]
        valid == Eligible(c.code, c.subtotal)
    IN  /\ Ends(k, "promo")
        /\ store' = [store EXCEPT
                !.discount = IF valid THEN Discount(server.promo[c.code], c.subtotal) ELSE 0,
                !.appliedFor = [code |-> c.code, subtotal |-> c.subtotal, refused |-> ~valid]]
        /\ UNCHANGED <<edits, open, cart, page>>

\* The call, or its answer, is lost.
PromoFails(k) ==
    /\ Ends(k, "promo")
    /\ store' = [store EXCEPT !.discount = 0, !.appliedFor = NotApplied]
    /\ UNCHANGED <<edits, open, cart, page>>

-----------------------------------------------------------------------------
(* requestDeliveryQuote, and quoteDelivery of the server *)

\* The button is enabled while an order is being placed, too.
RequestQuote(k) ==
    /\ page.name = "delivery" /\ cart.qty > 0 /\ Mounted("quote") = {}
    /\ Start(k, [NoCall EXCEPT !.kind = "quote", !.mounted = TRUE,
                               !.restaurant = cart.restaurant])
    /\ page' = [page EXCEPT !.error = FALSE]
    /\ store' = [store EXCEPT !.fee = NoFee, !.place = NoPlace, !.quotedFor = None]
    /\ UNCHANGED <<edits, open, cart>>

\* Mutated form of QuoteAnswered: a refusal is stored like a fee.
QuoteAnsweredAnyway(k, p) ==
    LET c == call[k]
        fee == Quote(server.active, server.pricing, c.restaurant, p)
    IN  /\ Ends(k, "quote")
        /\ store' = [store EXCEPT !.fee = fee, !.quotedFor = c.restaurant, !.place = p]
        /\ page' = [page EXCEPT !.error = @ /\ ~c.mounted]
        /\ UNCHANGED <<edits, open, cart>>

\* Mutated form of QuoteAnswered: a place that is known is not replaced.
QuoteAnsweredKeepingPlace(k, p) ==
    LET c == call[k]
        fee == Quote(server.active, server.pricing, c.restaurant, p)
    IN  /\ Ends(k, "quote")
        /\ fee # Refused
        /\ store' = [store EXCEPT !.fee = fee, !.quotedFor = c.restaurant,
                                   !.place = IF @ = NoPlace THEN p ELSE @]
        /\ page' = [page EXCEPT !.error = @ /\ ~c.mounted]
        /\ UNCHANGED <<edits, open, cart>>

\* The position is known when the answer is.  The fee is written with the place it is for,
\* even when the page has gone.
QuoteAnswered(k, p) ==
    LET c == call[k]
        fee == Quote(server.active, server.pricing, c.restaurant, p)
    IN  /\ Ends(k, "quote")
        /\ fee # Refused
        /\ store' = [store EXCEPT !.fee = fee, !.quotedFor = c.restaurant, !.place = p]
        /\ page' = [page EXCEPT !.error = @ /\ ~c.mounted]
        /\ UNCHANGED <<edits, open, cart>>

\* No position, a refusal, or the call or its answer is lost.
QuoteFails(k) ==
    /\ Ends(k, "quote")
    /\ page' = [page EXCEPT !.error = @ \/ call[k].mounted]
    /\ UNCHANGED <<edits, open, cart, store>>

-----------------------------------------------------------------------------
(* submitOrder, and createGuestOrder of the server *)

\* Mutated form of SubmitOrder: the button stays enabled while the order is placed.
SubmitTwice(k) ==
    /\ page.name = "delivery" /\ cart.qty > 0
    /\ store.fee # NoFee /\ Mounted("quote") = {} /\ ~page.error
    /\ Start(k, [NoCall EXCEPT !.kind = "order", !.mounted = TRUE,
                    !.restaurant = cart.restaurant, !.qty = cart.qty,
                    !.code = store.code, !.place = store.place,
                    !.shown = IF Fresh THEN GrandTotal(cart, store) ELSE 0,
                    !.fresh = Fresh, !.refused = Fresh /\ store.appliedFor.refused])
    /\ UNCHANGED <<edits, open, cart, store, page>>

\* The items, the place and the code are sent; the fee, the prices and the discount are not.
SubmitOrder(k) ==
    /\ page.name = "delivery" /\ cart.qty > 0
    /\ store.fee # NoFee /\ Mounted("quote") = {} /\ ~page.error
    /\ Mounted("order") = {}
    /\ Start(k, [NoCall EXCEPT !.kind = "order", !.mounted = TRUE,
                    !.restaurant = cart.restaurant, !.qty = cart.qty,
                    !.code = store.code, !.place = store.place,
                    !.shown = IF Fresh THEN GrandTotal(cart, store) ELSE 0,
                    !.fresh = Fresh, !.refused = Fresh /\ store.appliedFor.refused])
    /\ UNCHANGED <<edits, open, cart, store, page>>

\* Mutated form of Amounts: the total is taken before the discount is known.
AmountsUndiscounted(c, subtotal, discount, fee) ==
    [subtotal |-> subtotal, deliveryFee |-> 100 * fee, discountAmount |-> Stored(discount),
     total |-> Stored(Exact * subtotal + Exact * 100 * fee),
     shown |-> c.shown, fresh |-> c.fresh, refused |-> c.refused]

Amounts(c, subtotal, discount, fee) ==
    [subtotal |-> subtotal, deliveryFee |-> 100 * fee, discountAmount |-> Stored(discount),
     total |-> Stored(Exact * subtotal - discount + Exact * 100 * fee),
     shown |-> c.shown, fresh |-> c.fresh, refused |-> c.refused]

CreateGuestOrder(k) ==
    LET c == call[k]
        fee == Quote(server.active, server.pricing, c.restaurant, c.place)
        subtotal == server.price[c.restaurant] * c.qty
        discount == IF c.code = None THEN 0 ELSE Discount(server.promo[c.code], subtotal)
    IN  /\ c.kind = "order" /\ ~c.placed
        /\ fee # Refused
        /\ c.code # None => Eligible(c.code, subtotal)
        /\ receipt' = Amounts(c, subtotal, discount, fee)
        /\ cart' = [cart EXCEPT !.order = IF c.mounted /\ @ = "none" THEN "placed" ELSE @]
        /\ call' = [call EXCEPT ![k] = [NoCall EXCEPT
                        !.kind = "order", !.mounted = c.mounted, !.placed = TRUE]]
        /\ UNCHANGED <<edits, open, store, page>>

\* Whatever the stores hold by now is cleared, and the tracking page opens.
OrderAnswered(k) ==
    /\ call[k].kind = "order" /\ call[k].placed
    /\ cart' = EmptyCart
    /\ store' = EmptyStore
    /\ page' = [name |-> "shop", error |-> FALSE]
    /\ call' = [Unmounted EXCEPT ![k] = NoCall]
    /\ UNCHANGED <<edits, open>>

\* The delivery, the code or another check refuses the order (approval, hours, products,
\* customer), or the call or its answer is lost.
OrderFails(k) ==
    /\ Ends(k, "order")
    /\ cart' = [cart EXCEPT !.order = IF call[k].mounted /\ call[k].placed THEN "lost" ELSE @]
    /\ UNCHANGED <<edits, open, store, page>>

-----------------------------------------------------------------------------
(* Administrators, and time *)

\* A product, a zone, the setting or a code is edited.  What is on the screen is
\* out of date, and so is an order on its way; an answer that is overtaken by an edit is one
\* that arrives just before it.  A code that is edited may begin, end or be switched.
Edit ==
    /\ edits < Len(Servers) - 1
    /\ edits' = edits + 1
    /\ cart' = [cart EXCEPT !.current = cart.qty = 0]
    /\ store' = [store EXCEPT !.quotedFor = None, !.appliedFor.subtotal = 0]
    /\ call' = [k \in Calls |-> [call[k] EXCEPT !.fresh = FALSE, !.shown = 0,
                                                   !.refused = FALSE]]
    /\ open' \in SUBSET Active(server')
    /\ UNCHANGED page

\* An active code begins or expires, other orders use it up, or a use is given back.
CodeTurns(code) ==
    /\ server.promo[code].isActive
    /\ open' = IF code \in open THEN open \ {code} ELSE open \cup {code}
    /\ UNCHANGED <<edits, cart, store, page, call>>

-----------------------------------------------------------------------------

Init ==
    /\ edits = 0
    /\ open \in SUBSET Active(server)
    /\ cart = EmptyCart
    /\ store = EmptyStore
    /\ page = [name |-> "shop", error |-> FALSE]
    /\ call = [k \in Calls |-> NoCall]
    /\ receipt = NoOrder

Customer ==
    \/ \E r \in Restaurants : AddItem(r)
    \/ DecrementItem
    \/ RemoveItem
    \/ ClearAll
    \/ \E name \in {"shop", "details", "delivery"} : Open(name)
    \/ EditPhone
    \/ \E code \in Codes \cup {None} : EditCode(code)

Communicate(k) ==
    \/ ApplyPromo(k) \/ PromoAnswered(k) \/ PromoFails(k)
    \/ RequestQuote(k)
    \/ \E p \in Places : QuoteAnswered(k, p)
    \/ QuoteFails(k)
    \/ SubmitOrder(k) \/ OrderAnswered(k) \/ OrderFails(k)

Next ==
    \/ /\ \/ Customer
          \/ Edit
          \/ \E code \in Codes : CodeTurns(code)
          \/ \E k \in Calls : Communicate(k)
       /\ receipt' = NoOrder
    \/ \E k \in Calls : CreateGuestOrder(k)

Spec == Init /\ [][Next]_vars

-----------------------------------------------------------------------------
(* Properties *)

\* Every variable keeps its type.
TypeOK ==
    /\ edits \in 0 .. Len(Servers) - 1 /\ open \subseteq Active(server)
    /\ cart \in Cart /\ store \in Store /\ page \in Page
    /\ call \in [Calls -> Call]
    /\ receipt \in Order

\* The customer pays what the button said, to the two decimals of the column, unless what
\* it said had been computed for another cart, code or restaurant, or before an edit.  A code
\* that was refused when it was applied is sent all the same: where it has begun by then, or
\* a use was given back, the order costs less than the button said, and never more.
ChargedAsShown ==
    receipt.fresh =>
        IF receipt.refused THEN receipt.total <= Stored(receipt.shown)
                           ELSE receipt.total = Stored(receipt.shown)

\* One cart makes one order, unless the page was left while the order was being placed, or
\* its answer was lost: the request carries nothing that would tell a second one.
SecondOrder ==
    \A k \in Calls :
        ~call[k].placed /\ call'[k].placed =>
            ~(call[k].mounted /\ cart.order = "placed")

OneOrderPerCart == [][SecondOrder]_vars

\* The columns of an order add up, to one unit of their last decimal, and the discount is
\* never more than the subtotal: the floating-point total is rounded on its own.
AmountsAddUp ==
    LET sum == receipt.subtotal - receipt.discountAmount + receipt.deliveryFee
    IN  /\ receipt.discountAmount <= receipt.subtotal
        /\ receipt.total \in sum - 1 .. sum + 1

\* "Prefer branch -> business -> city scope": where a zone of the restaurant or its branch
\* delivers, a customer who has a quote is charged it after any edit that switches no zones
\* but those of a whole city.
CityZoneSwitched ==
    LET CityWide(z) == ZoneRow[z].branch = None /\ ZoneRow[z].business = None
        switched == (server.active \ server'.active) \cup (server'.active \ server.active)
    IN  /\ edits' # edits /\ store.quotedFor # None
        /\ \A z \in switched : CityWide(z)
        /\ \E z \in Hits(server.active, store.quotedFor, store.place) : ~CityWide(z)
        => Quote(server'.active, server'.pricing, store.quotedFor, store.place) = store.fee

CityZonesGiveWay == [][CityZoneSwitched]_vars

=============================================================================
