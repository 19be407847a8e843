SPECIFICATION FairSpec
CONSTANTS
    Request = {r1, r2}
    MaxLevel = 2
    GoodBase = 1
    GoodStep = 1
    MaxRatings = 4
    Limit = 2
    FreeLimit = 1
    ProLimit = 2
    EnterpriseLimit = 3
    MaxCost = 2
    MaxSessions = 1
    MaxFaults = 2
INVARIANTS
    OverspendBounded
    LevelEarned
PROPERTY
    BlockedEnds
