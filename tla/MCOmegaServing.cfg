SPECIFICATION Spec
CONSTANTS
    r1 = r1
    r2 = r2
    r3 = r3
    e1 = e1
    e2 = e2
    A = A
    B = B
    C = C
    Runners = {r1, r2, r3}
    Envs = {e1, e2}
    Episodes = {A, B, C}
    EnvOf <- MCEnvOf
    Plan <- MCPlan
    Horizon = 5
    Boundaries = {1}
    Window = 2
    Stride = 2
    MaxEnvs = 2
    MaxBatch = 3
    RepinResetsEncoder = FALSE
    MaxLives = 2
    MaxMishaps = 1
    NoSlot = NoSlot
INVARIANTS
    OneSlotPerEpisode
    BatchingIsInvisible
    OnlyConflictsReject
CHECK_DEADLOCK FALSE
