SPECIFICATION Spec
CONSTANTS
    MaxBranches = 4
    Requests = {r1}
    Overlap = FALSE
SYMMETRY Symmetry
INVARIANTS
    TypeOK
    OnePrimaryAtMost
    SomePrimary
PROPERTY LastActiveKept
