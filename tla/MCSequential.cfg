SPECIFICATION FairSpec
CONSTANTS
    CellCount = 4
    LaneCount = 1
    MaxAttempts = 3
    Parallel = FALSE
    AmbiguousPuts = FALSE
    MaxOrphans = 1
INVARIANTS
    ClaimsArePrefix
    ExitMatchesStore
PROPERTIES
    SeqImplementsLedger
    SeqRunEnds
