SPECIFICATION Spec
CONSTANTS
    MaxRecords = 4
    MaxCrashes = 2
    Unreadable = Unreadable
    Nothing = Nothing
INVARIANTS
    TypeOK
    ChainVerifies
    TamperEvident
    MirrorAnchored
CHECK_DEADLOCK FALSE
