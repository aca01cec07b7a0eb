SPECIFICATION Spec
CONSTANTS
    Release = {r1, r2}
    Build = {b1, b2}
    MaxRequests = 2
    MaxEdits = 1
    MaxFaults = 1
    None = None
INVARIANTS
    ReleasedByCompleted
    CompletedIsWhole
    RevertedIsGone
    Decided
SYMMETRY Symmetry
CHECK_DEADLOCK FALSE
