SPECIFICATION FairSpec
CONSTANTS
    Replicas = 2
    Managed <- AllProvisioners
    Surges = {0}
    Holds = {"none", "paused", "ondelete", "partition"}
    MaxCommands = 3
    MaxOthers = 1
    MaxFaults = 1
INVARIANTS
    DeletedIsGone
PROPERTIES
    SuccessIsRolledOut
    OnlyTheStuckAreForced
    StuckNamespaceGoes
CHECK_DEADLOCK FALSE
