SPECIFICATION Spec
CONSTANTS
    Requests = {r1, r2}
    Callbacks = {c1, c2}
    Starter = c1
    Nobody = Nobody
    Clients = {k1}
    CallTimeout = 0
    PollInterval = 0
    RetryDelay = 1
    ThrottleMaxDelay = 0
    Reserve = 0
    Allowance = 2
    Safety = 0
    Lives = {1}
    MaxTokens = 2
    MaxTime = 2
INVARIANTS
    RefusedStaysOut
    RetryIsFresh
    ClosedHoldsNothing
    EndIsNoError
PROPERTIES
    RequestsEnd
