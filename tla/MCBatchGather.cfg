SPECIFICATION FairSpec
CONSTANTS
    Callers = {c1, c2, c3}
    Closers = {k1, k2}
    MaxCalls = 2
    MaxBatch = 3
    Buckets = {2}
    Sentinel = Sentinel
    None = None
    Error = Error
    Pad = Pad
INVARIANTS
    OwnRow
    HeldOnce
PROPERTIES
    AnsweredIfOpen
\* Callers and closers have a bounded number of calls and then stop.
CHECK_DEADLOCK FALSE
