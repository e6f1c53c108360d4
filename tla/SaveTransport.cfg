SPECIFICATION Spec
CONSTANTS
    Tabs = {t1, t2}
    Jobs = {j1, j2}
    MaxEdits = 2
    MaxOutside = 0
    MaxFaults = 0
    MaxLost = 0
    MaxReloads = 0
    Neutral = {2}
    ReusesBuffer = TRUE
    MaxEvents = 9
    SlowProxy = TRUE
    OpenedBy = "ssh"
INVARIANT NothingOverwritten
SYMMETRY Symmetry
