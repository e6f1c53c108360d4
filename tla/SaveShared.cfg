SPECIFICATION FairSpec
CONSTANTS
    Tabs = {1, 2}
    Jobs = {1, 2}
    MaxEdits = 2
    MaxOutside = 0
    MaxFaults = 0
    MaxLost = 0
    MaxReloads = 0
    Neutral = {2}
    ReusesBuffer = TRUE
    MaxEvents = 9
    SlowProxy = FALSE
    OpenedBy = "zed"
INVARIANTS
    CopyCurrent
PROPERTY Implements
PROPERTY SaveAnswered
