CONSTANTS
    LastLogin = 2
    AtOnce = 1
    BaseSeconds = 1
    MaxSeconds = 2
    MaxRestarts = 2
    ArgRoot = "good"
    Confs <- MCConfs
    Budgets <- MCBudgets
SPECIFICATION Spec
CHECK_DEADLOCK FALSE
INVARIANTS
    TokenIsSafe
    EngineOverVerifiedWorld
PROPERTIES
    SupervisionHolds
    CrashLoopEnds
