SPECIFICATION Spec
CONSTANTS
    Projects = {"p1", "t"}
    TopDir <- MCTopDir
    Flat = {"t"}
    InSource = FALSE
    Graduated = TRUE
    MaxEntries = 2
    MaxIntents = 1
    MaxRare = 1
    Home = Home
    Lost = Lost
    Nowhere = Nowhere
INVARIANTS
    TypeOK
    TrashRestorable
PROPERTIES
    ReapKeepsSealed
    ToolSparesActive
CHECK_DEADLOCK FALSE
