SPECIFICATION FairSpec
CONSTANTS
    MaxSwaps = 3
    MaxCrashes = 2
    Good = {1, 3}
    GateOpen = TRUE
    Absent = Absent
    Partial = Partial
    Torn = Torn
INVARIANTS
    SwapCovered
    VenvRecoverable
PROPERTIES
    ReapsOnlyReplaced
    UnprovenResolves
CHECK_DEADLOCK FALSE
