SPECIFICATION Spec
CONSTANTS
    Tabs = {t1}
    Jobs = {j1, j2}
    MaxEdits = 2
    MaxOutside = 1
    MaxFaults = 1
    MaxLost = 1
    MaxReloads = 1
    Neutral = {2}
    ReusesBuffer = TRUE
    MaxEvents = 3
    SlowProxy = TRUE
    OpenedBy = "zed"
INVARIANTS
    TypeOK
    WorkingCopyExact
    HashNamesBase
SYMMETRY Symmetry
