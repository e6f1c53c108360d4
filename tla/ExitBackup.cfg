SPECIFICATION FairSpec
CONSTANTS
    MaxEdits = 2
    MaxOutside = 1
    MaxOpens = 2
    MaxSaves = 1
    MaxReloads = 1
    MaxSessions = 2
    MaxFaults = 0
    Unshown = TRUE
    Overlaps = TRUE
    SlowDatabase = TRUE
INVARIANT BackupExact
PROPERTY EditBackedUp
CHECK_DEADLOCK FALSE
