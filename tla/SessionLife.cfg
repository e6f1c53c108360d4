SPECIFICATION FairSpec
CONSTANTS
    Calls = {1, 2}
    MaxReconnects = 2
    MaxCalls = 2
    MaxFaults = 2
    EventBuffer = 3
    Overlaps = FALSE
INVARIANTS
    TypeOK
    StatusTruthful
    ViewNotBehind
PROPERTY ReconnectEnds
CHECK_DEADLOCK FALSE
