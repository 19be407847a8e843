SPECIFICATION ScanSpec
CONSTANTS
    GraduationThreshold = 1
    Service = {"svc"}
    Owner = {"o1"}
    Fix = {"f1", "f2"}
    AutoApplyEnabled = TRUE
    MaxScans = 4
    MaxCrashes = 1
INVARIANTS TrustedTree
PROPERTY OwnerCommitsKept
CHECK_DEADLOCK FALSE
