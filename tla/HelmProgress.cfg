SPECIFICATION FairSpec
CONSTANTS
    o1 = o1
    o2 = o2
    w1 = w1
    w2 = w2
    Objs = {o1, o2}
    Wants = {w1}
    Hooked = {}
    Pinned = {w1}
    Nothing = Nothing
    Slots = {1}
    MaxGen = 7
    MaxCrash = 1
    MaxRestart = 1
    MaxCli = 0
    MaxFault = 1
    MaxCommands = 2
    MaxTrouble = 1
    SlowAgent = FALSE
PROPERTIES
    CommandsEnd
CHECK_DEADLOCK FALSE
