SPECIFICATION ProactiveFairSpec
CONSTANTS
    User = {"alice", "anima"}
    Entity = "anima"
    Facts = {{"5 edits"}}
    MaxConcurrent = 2
    MaxRuns = 2
    MaxFailures = 1
INVARIANTS OwnToolCalls
PROPERTY ScanEnds
