SPECIFICATION Spec
CONSTANTS
    CellCount = 4
    LaneCount = 2
    MaxAttempts = 2
    Parallel = TRUE
    AmbiguousPuts = FALSE
    MaxOrphans = 0
INVARIANTS
    ExclusiveClaims
    ExitZeroIsHonest
PROPERTIES
    ImplementsLedger
