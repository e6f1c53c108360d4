SPECIFICATION Spec
CONSTANTS
    MaxEdits = 2
    MaxOutside = 0
    MaxOpens = 2
    MaxSaves = 1
    MaxReloads = 1
    MaxSessions = 2
    MaxFaults = 0
    Unshown = FALSE
    Overlaps = TRUE
    SlowDatabase = FALSE
PROPERTY EditsHeld
CHECK_DEADLOCK FALSE
