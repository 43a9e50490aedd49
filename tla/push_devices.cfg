SPECIFICATION Spec
CONSTANTS
  Devices = {d1}
  Users = {u1, u2}
  MaxToken = 2
  MaxCalls = 2
SYMMETRY Symmetry
INVARIANTS TypeOK LoggedInReached LoggedOutUnlinked
PROPERTY TokensKept
