SPECIFICATION Spec
CONSTANTS
    Orders = {o1}
    Couriers = {c1, c2}
    NoCourier = NoCourier
    Requests = {r1, r2}
    Overlap = TRUE
    MaxCredits = 1
PROPERTY DocumentedTransitions
