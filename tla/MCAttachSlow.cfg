SPECIFICATION FairSpec
CONSTANTS
    Retain = 4
    Advance = 1
    Block = 1
    ReadMax = 1
    Recent = 1
    MaxBuffered = 1
    Batch = 2
    SockMax = 1
    MaxOut = 6
    MaxHandoffs = 0
    ReplayMax = 1
    Retries = 1
CHECK_DEADLOCK FALSE
INVARIANT
    BoundedClient
PROPERTY
    CatchesUp
