SPECIFICATION Spec
CONSTANTS
  o1 = o1
  o2 = o2
  o3 = o3
  Customers = {c1, c2}
  Orders = {o1, o2, o3}
  Requests = {r1, r2}
  Earns <- MCEarns
  Reward = 5
  Onwards = FALSE
SYMMETRY Symmetry
CHECK_DEADLOCK FALSE
INVARIANTS TypeOK RewardedOnce PointsAddUp
