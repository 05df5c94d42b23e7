SPECIFICATION FairSpec
CONSTANTS
    CellCount = 3
    LaneCount = 2
    MaxAttempts = 2
    Parallel = TRUE
    AmbiguousPuts = TRUE
    MaxOrphans = 0
INVARIANTS
    TypeOK
    OneSystemicClaim
    LaneOrder
    NoCompletionOverFailure
PROPERTIES
    RunEnds
    OnlyTheOwnerPublishesAfterCancel
    KnownSystemicHaltsQueue
