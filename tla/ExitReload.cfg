SPECIFICATION Spec
CONSTANTS
    MaxEdits = 3
    MaxOutside = 1
    MaxOpens = 2
    MaxSaves = 1
    MaxReloads = 2
    MaxSessions = 3
    MaxFaults = 1
    Unshown = TRUE
    Overlaps = FALSE
    SlowDatabase = FALSE
INVARIANT WorkingCopyExact
PROPERTY EditsHeld
CHECK_DEADLOCK FALSE
