SPECIFICATION Spec
CONSTANTS
    Tabs = {t1}
    Jobs = {j1}
    MaxEdits = 2
    MaxOutside = 0
    MaxFaults = 0
    MaxLost = 0
    MaxReloads = 0
    Neutral = {2}
    ReusesBuffer = TRUE
    MaxEvents = 9
    SlowProxy = FALSE
    OpenedBy = "zed"
INVARIANT EditsTracked
SYMMETRY Symmetry
