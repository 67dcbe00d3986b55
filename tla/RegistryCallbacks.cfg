SPECIFICATION Spec
CONSTANTS
    NoCall = NoCall
    Keys = {k1}
    Calls = {c1, c2, c3}
    Drains = {}
    Prints = {p1, p2}
    Idents = {i1, i2}
SYMMETRY Symmetry
INVARIANTS
    Consistency
    ReleaseExclusion
    ReaderRetention
    OwnWorkOnly
PROPERTIES
    NoVerdictWhileRunning
    OutcomeKept
CHECK_DEADLOCK FALSE
