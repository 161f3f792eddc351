SPECIFICATION FairSpec
CONSTANTS
    Cores = {c1, c2, c3}
    Sessions = {s1}
    None = None
    MaxRapid = 2
    BuildMax = 1
    FaultMax = 2
CHECK_DEADLOCK FALSE
PROPERTIES
    GivesUpAlone
    LostIsGone
    Managed
    Drains
