SPECIFICATION Spec
CONSTANTS
    o1 = o1
    o2 = o2
    w1 = w1
    w2 = w2
    Objs = {o1, o2}
    Wants = {w1, w2}
    Hooked = {w1, w2}
    Pinned = {w1}
    Nothing = Nothing
    Slots = {1, 2}
    MaxGen = 7
    SlowAgent = TRUE
    MaxCrash = 1
    MaxRestart = 1
    MaxCli = 0
    MaxFault = 0
    MaxCommands = 2
    MaxTrouble = 4
SYMMETRY Symmetry
INVARIANTS
    TypeOK
    DeployedMeansDone
    RecoveryIsAlone
PROPERTIES
    SuccessIsLive
    NoRepeatedWork
    NoSuccessWhileRunning
    ImplementsReleasePromise
CHECK_DEADLOCK FALSE
