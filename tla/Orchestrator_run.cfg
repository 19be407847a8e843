SPECIFICATION IntentFairSpec
CONSTANTS
    Agent = {0, 1, 2}
    MaxToolRounds = 3
    CompressThreshold = 3
    KeepTurns = 1
    MaxCalls = 2
    Path = {"kernel", "study"}
    Tier1 = {"study"}
    Untested = {"study"}
    Missing = {}
    TaskId = {"t1", "t2"}
    MaxTasks = 2
    RecentN = 1
    BusyRounds = 1
INVARIANTS HistoryWellFormed 
 
