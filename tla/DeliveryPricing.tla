-------------------------- MODULE DeliveryPricing --------------------------
(***************************************************************************)
(* What a delivery costs: delivery-zones.service.ts, delivery-pricing      *)
(* .service.ts and delivery-fee.calculator.ts.  Money is in sums,          *)
(* distances in tenths of a kilometre; each restaurant has one branch.     *)
(***************************************************************************)
EXTENDS Integers, FiniteSets

CONSTANTS
    Restaurants, Places, Cities,
    CityOf,     \* restaurant -> the city of its branch
    Km,         \* restaurant, place -> billable distance
    Zones,      \* rows of delivery_zones, numbered in the order they were created
    ZoneRow     \* zone -> its row

None == "none"
Outside == -1       \* the place is not in the zone
Refused == -2       \* no delivery to the place

ZoneRows ==
    [branch : Restaurants \cup {None}, business : Restaurants \cup {None},
     city : Cities \cup {None},
     distance : [Places -> Nat \cup {Outside}],   \* to the centre; 0 in a polygon
     baseFee : Nat, pricePerKm : Nat, minDeliveryFee : Nat]

PricingRows == [baseDeliveryFee : Nat, perKmFee : Nat, maxDeliveryDistance : Nat]

ASSUME DeliveryAssumption ==
    /\ None \notin Restaurants \cup Cities
    /\ CityOf \in [Restaurants -> Cities]
    /\ Km \in [Restaurants \X Places -> Nat]
    /\ Zones \subseteq Nat /\ IsFiniteSet(Zones)
    /\ ZoneRow \in [Zones -> ZoneRows]

\* Math.round(n / d) for d > 0.
Round(n, d) == (2 * n + d) \div (2 * d)

-----------------------------------------------------------------------------

\* The zones that count for a restaurant: its branch's, its own, and every zone of its city,
\* those of other businesses there too.
InScope(r) ==
    {z \in Zones : \/ ZoneRow[z].branch = r
                   \/ ZoneRow[z].business = r
                   \/ ZoneRow[z].city = CityOf[r]}

Scope(z) ==
    IF ZoneRow[z].branch # None THEN 3
    ELSE IF ZoneRow[z].business # None THEN 2
    ELSE IF ZoneRow[z].city # None THEN 1 ELSE 0

\* Mutated form of Preferred: the nearest centre first, whatever the zone's scope.
PreferredNearest(z, y, p) ==
    LET d(x) == ZoneRow[x].distance[p]
    IN  d(z) < d(y) \/ (d(z) = d(y) /\ z <= y)

\* The order of the hits: by scope, then by the distance to the centre; the sort is stable.
Preferred(z, y, p) ==
    LET d(x) == ZoneRow[x].distance[p]
    IN  \/ Scope(z) > Scope(y)
        \/ Scope(z) = Scope(y) /\ d(z) < d(y)
        \/ Scope(z) = Scope(y) /\ d(z) = d(y) /\ z <= y

Hits(zones, r, p) == {z \in zones \cap InScope(r) : ZoneRow[z].distance[p] # Outside}

ZoneFee(z, p) ==
    LET row == ZoneRow[z]
        tenths == 10 * row.baseFee + row.pricePerKm * row.distance[p]
    IN  Round(IF tenths < 10 * row.minDeliveryFee THEN 10 * row.minDeliveryFee ELSE tenths, 10)

\* Without zones: base and distance, to the nearest 500 sums.
FallbackFee(pricing, km) ==
    500 * Round(10 * pricing.baseDeliveryFee + pricing.perKmFee * km, 5000)

Quote(zones, pricing, r, p) ==
    LET hits == Hits(zones, r, p)
    IN  IF hits # {}
        THEN ZoneFee(CHOOSE z \in hits : \A y \in hits : Preferred(z, y, p), p)
        ELSE IF zones \cap InScope(r) # {} THEN Refused
        ELSE IF Km[<<r, p>>] > 10 * pricing.maxDeliveryDistance THEN Refused
        ELSE FallbackFee(pricing, Km[<<r, p>>])

=============================================================================
