SPECIFICATION Spec
CONSTANTS
    o1 = o1
    o2 = o2
    w1 = w1
    w2 = w2
    Objs = {o1, o2}
    Wants = {w1, w2}
    Hooked = {}
    Pinned = {w1, w2}
    Nothing = Nothing
    Slots = {1}
    MaxGen = 7
    MaxCrash = 1
    MaxRestart = 0
    MaxCli = 0
    MaxFault = 0
    MaxCommands = 2
    MaxTrouble = 4
    SlowAgent = FALSE
PROPERTY
    RecoveredMeansComplete
CHECK_DEADLOCK FALSE
