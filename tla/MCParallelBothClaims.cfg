SPECIFICATION Spec
CONSTANTS
    CellCount = 2
    LaneCount = 2
    MaxAttempts = 1
    Parallel = TRUE
    AmbiguousPuts = TRUE
    MaxOrphans = 0
INVARIANTS
    ExclusiveClaims
