SPECIFICATION Spec
CONSTANTS
    Tabs = {t1, t2}
    Jobs = {j1, j2}
    MaxEdits = 2
    MaxOutside = 0
    MaxFaults = 2
    MaxLost = 0
    MaxReloads = 0
    Neutral = {2}
    ReusesBuffer = FALSE
    MaxEvents = 9
    SlowProxy = FALSE
    OpenedBy = "zed"
INVARIANTS
    AppliedOnce
PROPERTY Implements
SYMMETRY Symmetry
