SPECIFICATION FairSpec
CONSTANTS
    Buffers = {1, 2}
    MaxCalls = 2
    MaxSpoken = 1
    MaxEvents = 2
INVARIANTS
    TypeOK
    UnackedKept
    AckSound
    AnsweredOnce
    FlushRecovers
PROPERTIES
    AwaitSettles
    OpenSettles
CHECK_DEADLOCK FALSE
