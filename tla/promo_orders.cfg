SPECIFICATION Spec
CONSTANTS
    o1 = o1
    o2 = o2
    o3 = o3
    b1 = b1
    b2 = b2
    Orders = {o1, o2, o3}
    Codes = {p1, p2}
    NoCode = NoCode
    Businesses = {b1, b2}
    BusinessOf <- MCBusinessOf
    Limits = {1, 2}
    NoLimit = NoLimit
    Slots = {s1, s2}
    Clears = {k1, k2}
    ClearsOverlap = FALSE
SYMMETRY Symmetry
INVARIANTS
    TypeOK
    CountIsUsages
PROPERTIES
    InactiveNeverGranted
    LimitNeverExceeded
