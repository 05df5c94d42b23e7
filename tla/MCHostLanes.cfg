SPECIFICATION FairSpec
CONSTANTS
    Campaigns = {a, b}
    Evals = {1, 2, 3}
    NoEval = 0
    Keys <- MCKeys
    MaxStarts = 2
    MaxTerms = 2
    MaxKills = 2
INVARIANTS
    Exclusive
    UseIsLeased
    StoppedMeansStopped
    NotBothRefused
PROPERTIES
    NewcomersSee
    StopEnds
CHECK_DEADLOCK FALSE
