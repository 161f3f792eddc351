SPECIFICATION Spec
CONSTANTS
    Sessions = {s1, s2}
    None = None
    MaxHandoffs = 2
    MaxWedges = 1
CHECK_DEADLOCK FALSE
SYMMETRY Symmetry
INVARIANTS
    SlotsExact
    RetiredFirst
    JobsOnce
