SPECIFICATION FairSpec
CONSTANTS
    Cells = {x, y}
    x = x
    y = y
    ds = ds
    tok = tok
    pi = pi
    Artifacts = {ds, tok, pi}
    KindOf <- MCKindOf
    Order <- MCOrder
    Script <- MCScript
    FailurePolicy = "continue"
    MaxAttempts = 3
    MaxMishaps = 3
INVARIANTS
    CompletionSound
    ExitZeroEarned
    WorkOutlivesGroup
    UseIsExact
PROPERTIES
    OnlyMishapsBlock
    SignalEndsRun
CHECK_DEADLOCK FALSE
