SPECIFICATION FairSpec
CONSTANTS
    MaxRequests = 4
    Opens = {1, 3}
    Chunks = 2
    MaxFaults = 1
    Again = FALSE
INVARIANTS
    AnswerOwn
    OneSocket
    ToldOfClose
    LoadedWhole
PROPERTY Settles
CHECK_DEADLOCK FALSE
