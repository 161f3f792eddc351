SPECIFICATION FairSpec
CONSTANTS
    ClientMax = 2
    IdMax = 3
    HostMax = 3
    OpMax = 2
    MoveMax = 1
CHECK_DEADLOCK FALSE
INVARIANTS
    OneChild
    
    StaysRemoved
    RefsExact
PROPERTIES
    ResumeSpares
    
