SPECIFICATION Spec
CONSTANTS
    Retain = 1
    Advance = 1
    Block = 2
    ReadMax = 1
    Recent = 1
    MaxBuffered = 1
    Batch = 1
    SockMax = 1
    MaxOut = 5
    MaxHandoffs = 1
    ReplayMax = 1
    Retries = 1
CHECK_DEADLOCK FALSE
INVARIANTS
    ScreenExact
    
