SPECIFICATION FairSpec
CONSTANTS
    c1 = c1
    c2 = c2
    c3 = c3
    t1 = t1
    t2 = t2
    Calls = {c1, c2, c3}
    Tokens = {t1}
    Nothing = Nothing
    Safety = 10
    Recheck = 10
    MinMargin = 60
    Lives = {15, 600}
    Instants = {0, 485, 495}
    MaxGen = 1
INVARIANTS
    FencedTokens
    OneRefresh
PROPERTIES
    NotExpired
    LiveCallsServed
    CheckedInTime
    CallsReturn
CHECK_DEADLOCK FALSE
