CONSTANTS
    Jobs = {j1, j2, j3}
    Workers = {w1, w2}
    MaxQueue = 1
    PromptStart = TRUE
    MaxCrashes = 2
    MaxFaults = 0
    MaxAges = 2
    Idle = Idle
    Dead = Dead
SPECIFICATION Spec
CHECK_DEADLOCK FALSE
SYMMETRY Symmetry
INVARIANTS
    CompleteHasReport
    PendingHasOwner
    UnattendedIsSettled
    Ownership
PROPERTY KeepsLifecycle
