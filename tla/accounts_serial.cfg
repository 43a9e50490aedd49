SPECIFICATION Spec
CONSTANTS
  Customers = {c1, c2, c3}
  Orders = {o1, o2}
  Deletions = {d1, d2}
  Phones = {p1, p2}
  Googles = {g1}
  Requests = {r1}
  Overlap = FALSE
SYMMETRY Symmetry
INVARIANTS TypeOK OrdersOwnedByLive DeadHoldNoPhone CompletedMeansGone RequestsSettle
PROPERTY NothingLeftBehind
