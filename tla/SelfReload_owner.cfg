SPECIFICATION FairSpec
CONSTANTS
    GraduationThreshold = 1
    Shas = {1, 2, 3}
    Ancestor <- MCAncestor
    Frozen <- MCFrozen
    Importable = {1, 2, 3}
    Good = {1, 2}
    Autonomous = FALSE
    DeadmanDelay = 2
    Margin = 1
    GitTimeout = 1
    ResetMayTear = FALSE
    CommandMayFail = TRUE
    MaxRequests = 2
    MaxCrashes = 1
    MaxMoves = 0
    Mixed = Mixed
    None = None
INVARIANTS
    TypeOK
    GuardedSwap
    DeadmanAimsAtProven
PROPERTIES
    UnprovenResolves
