SPECIFICATION Spec
CONSTANTS
    GraduationThreshold = 1
    Files = {f, p}
    Services = {s}
    Units = {u}
    Boot = Boot
    Protected = {p}
    Enabled = {f, p, s, u, Boot}
    Edits = {good, bad}
    Valid = {good}
    Absent = Absent
    Torn = Torn
    MaxOps = 3
    MaxHand = 1
INVARIANTS
    TypeOK
    AutonomyEarned
    OwnerStateKept
