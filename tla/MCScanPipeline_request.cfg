CONSTANTS
    StaticProviders = {"javascript_ast", "semgrep"}
    BuiltIn = {"javascript_ast"}
    EnvRequired = {}
    N = 2
    Ids = {"a", "b"}
    Unknown = "unknown"
    Requests <- AllRequests
SPECIFICATION Spec
CHECK_DEADLOCK FALSE
INVARIANTS
    ApprovalIsCovered
    BlockHolds
    RuntimeIsCovered
    IInv
PROPERTY NothingForgotten
