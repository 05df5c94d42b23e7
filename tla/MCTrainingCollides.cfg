SPECIFICATION Spec
CONSTANTS
    FinalStep = 2
    Milestones = {1}
    Success = {}
    MaxTrainings = 3
    WholeDeletes = FALSE
    Prompt = TRUE
    LocalSurvives = FALSE
    ReadsFail = FALSE
INVARIANTS
    RetryCanSeal
CHECK_DEADLOCK FALSE
