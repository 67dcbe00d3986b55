SPECIFICATION Spec
CONSTANTS
    NoCall = NoCall
    Keys = {k1, k2}
    Calls = {c1, c2}
    Drains = {d1, d2}
    Prints = {p1}
    Idents = {i1}
SYMMETRY Symmetry
INVARIANTS
    DrainedMeansQuiet
    DrainCancelsAll
PROPERTIES
    DrainFence
    ImplementsReleaseLock
CHECK_DEADLOCK FALSE
