SPECIFICATION FairSpec
CONSTANTS
    Orders = {o1}
    Couriers = {c1, c2, c3}
    NoCourier = NoCourier
    Requests = {r1, r2}
    Overlap = FALSE
    MaxCredits = 1
INVARIANTS
    TypeOK
    CreditedAtMostOnce
    AcceptedByHolder
    HistoryCurrent
    PoolAnnounced
    OnlyHolderInformed
PROPERTIES
    ImplementsLifecycle
    DeliveredIsCredited
