SPECIFICATION FairSpec
CONSTANTS
    Replicas = 2
    Managed <- OnlyDeployments
    Surges = {1}
    Holds = {"none"}
    MaxCommands = 2
    MaxOthers = 0
    MaxFaults = 0
PROPERTIES
    SuccessIsRolledOut
CHECK_DEADLOCK FALSE
