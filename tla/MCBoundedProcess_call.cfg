CONSTANTS
    Leader = leader
    Helpers = {helper}
    Chunk = 2
    Limit = 3
    Capacity = 2
    MaxOutput = 4
SPECIFICATION FairSpec
CHECK_DEADLOCK FALSE
INVARIANTS
    TypeOK
    CompletedIsWhole
    ChildIsSettled
PROPERTY CallReturns
