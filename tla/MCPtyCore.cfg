SPECIFICATION FairSpec
CONSTANTS
    Cores = {c1, c2}
    Sessions = {s1}
    None = None
CHECK_DEADLOCK FALSE
INVARIANTS
    OneListener
    ShutdownEmpty
    LaunchOnce
PROPERTIES
    KeepsSessions
    HandoffSettles
    ImplementsHome
