CONSTANTS
    StaticProviders = {"javascript_ast"}
    BuiltIn = {"javascript_ast"}
    EnvRequired = {}
    N = 2
    Ids = {"a", "b"}
    Unknown = "unknown"
    Requests <- DuplicateRuntime
SPECIFICATION Spec
CHECK_DEADLOCK FALSE
INVARIANT ObservedAbuseBlocks
