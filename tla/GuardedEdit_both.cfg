CONSTANTS
    PamFiles = {app, cups, sudo}
    Protected = {sudo}
    Dropin = dropin
    Edits = {c1}
    Absent = Absent
    Torn = Torn
    None = None
SPECIFICATION FairSpec
INVARIANTS TypeOK UnprovenGuarded
PROPERTIES RevertsToBase TrialEnds
