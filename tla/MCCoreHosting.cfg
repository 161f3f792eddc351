SPECIFICATION Spec
CONSTANTS
    Cores = {c1, c2}
    Sessions = {s1}
    None = None
SYMMETRY Symmetry
CHECK_DEADLOCK FALSE
PROPERTIES
    NeverStopsHosting
