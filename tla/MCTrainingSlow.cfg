SPECIFICATION FairSpec
CONSTANTS
    FinalStep = 2
    Milestones = {}
    Success = {}
    MaxTrainings = 3
    WholeDeletes = FALSE
    Prompt = FALSE
    LocalSurvives = TRUE
    ReadsFail = TRUE
PROPERTIES
    AttemptEnds
    ImplementsRegister
CHECK_DEADLOCK FALSE
