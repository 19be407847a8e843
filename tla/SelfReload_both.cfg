SPECIFICATION Spec
CONSTANTS
    GraduationThreshold = 1
    Shas = {1, 3}
    Ancestor <- MCAncestor
    Frozen <- MCFrozen
    Importable = {1, 3}
    Good = {1}
    Autonomous = TRUE
    DeadmanDelay = 3
    Margin = 1
    GitTimeout = 2
    ResetMayTear = TRUE
    CommandMayFail = TRUE
    MaxRequests = 2
    MaxCrashes = 1
    MaxMoves = 1
    Mixed = Mixed
    None = None
INVARIANTS
    OneSwapper
    ArmedThreadCovered
