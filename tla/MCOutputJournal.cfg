SPECIFICATION FairSpec
CONSTANTS
    ReadMax = 1
    High = 2
    Low = 1
    BatchMax = 2
    PtyBuffer = 2
    DrainMax = 2
    MaxOut = 5
    MaxHandoffs = 1
CHECK_DEADLOCK FALSE
INVARIANTS
    BacklogExact
    BoundedBacklog
    ExitedJournalComplete
PROPERTIES
    PausedReadsResume
    KillPublishesExit
    ImplementsDurable
