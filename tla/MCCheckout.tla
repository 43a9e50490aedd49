---------------------------- MODULE MCCheckout ----------------------------
(* A small instance of Checkout: two restaurants of one city, a city-wide zone around the *)
(* nearer place and a zone of one restaurant that reaches both.                           *)
EXTENDS Checkout, TLC

CONSTANTS ra, rb, near, far, city, code

MCCityOf == [r \in Restaurants |-> city]
MCKm == (<<ra, near>> :> 13) @@ (<<ra, far>> :> 26) @@ (<<rb, near>> :> 13) @@ (<<rb, far>> :> 40)
MCMaxQty == (ra :> 1) @@ (rb :> 2)

MCZoneRow ==
    <<[branch |-> None, business |-> None, city |-> city,
       distance |-> (near :> 0) @@ (far :> Outside),
       baseFee |-> 3, pricePerKm |-> 0, minDeliveryFee |-> 0],
      [branch |-> None, business |-> ra, city |-> None,
       distance |-> (near :> 7) @@ (far :> 20),
       baseFee |-> 1, pricePerKm |-> 1, minDeliveryFee |-> 2]>>

Percent == [isActive |-> TRUE, type |-> "PERCENT", value |-> 500, maximumDiscount |-> 0,
            minimumOrderAmount |-> 30]

Base == [price |-> [r \in Restaurants |-> 25], active |-> Zones,
         pricing |-> [baseDeliveryFee |-> 300, perKmFee |-> 100, maxDeliveryDistance |-> 3],
         promo |-> code :> Percent]
\* The edits: the price of one product, the code and the city-wide zone off, the setting.
MCServers ==
    <<Base, [price |-> [Base.price EXCEPT ![ra] = 30], active |-> {2},
             pricing |-> [Base.pricing EXCEPT !.baseDeliveryFee = 800],
             promo |-> code :> [Percent EXCEPT !.isActive = FALSE]]>>

Symmetry == Permutations(Calls)

=============================================================================
