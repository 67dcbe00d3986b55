SPECIFICATION FairSpec
CONSTANTS
    NoCall = NoCall
    Keys = {k1}
    Calls = {c1, c2}
    Drains = {d1}
    Prints = {p1}
    Idents = {i1}
PROPERTIES
    CallbacksReturn
    FlightsLeave
    DrainsEnd
CHECK_DEADLOCK FALSE
