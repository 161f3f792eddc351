SPECIFICATION FairSpec
CONSTANTS
    ReadMax = 1
    High = 2
    Low = 1
    BatchMax = 2
    PtyBuffer = 2
    DrainMax = 1
    MaxOut = 4
    MaxHandoffs = 0
CHECK_DEADLOCK FALSE
PROPERTIES ReadsResume
