SPECIFICATION FairSpec
CONSTANTS
    GenMax = 3
    MoveMax = 2
INVARIANTS
    OneLaunch
    LatchCovers
    GenerationKnown
    
PROPERTIES
    LatchSettles
CHECK_DEADLOCK FALSE
