SPECIFICATION FairSpec
CONSTANTS
    ClientMax = 1
    IdMax = 2
    HostMax = 2
    OpMax = 1
    MoveMax = 1
CHECK_DEADLOCK FALSE
PROPERTIES
    EveryOperationEnds
