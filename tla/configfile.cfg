SPECIFICATION Spec
CONSTANTS
    Inits = {i1, i2}
    Setters = {s1, s2}
    Old = Old
    Partial = Partial
    None = None
SYMMETRY ProcSymmetry
INVARIANTS
    WholeConfig
    AckDurable
    InitSticks
CHECK_DEADLOCK FALSE
