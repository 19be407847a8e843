SPECIFICATION FairSpec
CONSTANTS
    Runs = {"r1"}
    Clients = {"c1", "c2"}
    UserOf <- MCUserOf
    MaxEvents = 1
    MaxConnects = 2
    MayRaise = TRUE
INVARIANTS
    NoGapNoDuplicate
    EndsWithRunComplete
    StatusMatchesStream
PROPERTIES
    StreamEnds
CHECK_DEADLOCK FALSE
