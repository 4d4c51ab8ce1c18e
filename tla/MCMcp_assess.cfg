CONSTANTS
    Ranges <- MCRanges
    Bare <- MCBare
    Order <- MCOrder
    MalwareIds <- MCMalware
    SampleSize = 2
    Retries = 1
    MaxPages = 2
    Budget = 2
    NONE = NONE
    Environments <- Worlds
SPECIFICATION Spec
CHECK_DEADLOCK FALSE
INVARIANTS
    TypeOK
    NothingLeftBehind
    AllowedRemoteIsOfficial
    VetoDecides
    DependencyVerdictHasSource
    NoPackageLost
