CONSTANTS
    Jobs = {j1, j2, j3}
    Workers = {w1}
    MaxQueue = 1
    PromptStart = TRUE
    MaxCrashes = 0
    MaxFaults = 0
    MaxAges = 0
    Idle = Idle
    Dead = Dead
SPECIFICATION FairSpec
CHECK_DEADLOCK FALSE
PROPERTY AcceptedSettles
