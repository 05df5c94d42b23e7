SPECIFICATION Spec
CONSTANTS
    FinalStep = 3
    Milestones = {1}
    Success = {1}
    MaxTrainings = 3
    WholeDeletes = TRUE
    Prompt = TRUE
    LocalSurvives = TRUE
    ReadsFail = TRUE
INVARIANTS
    PointerIsRestorable
    MilestonesSurvive
    DeployIsSealed
    RetryCanSeal
CHECK_DEADLOCK FALSE
