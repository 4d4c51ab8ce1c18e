CONSTANTS
    ExtensionIds <- MCIds
    Declared <- MCDeclared
    DeclaredOrder <- MCOrder
    Security <- MCSecurity
    Excused = "security"
    MalwareIds = {"other"}
    MarketBatch = 1
    OsvBatch = 2
    Releases = {"r1", "r2", "r3"}
    Bytes <- MCBytes
    Unknown = "b3"
    Runs = {r1}
    Retries = 2
    Extensions <- PlainExtensions
SPECIFICATION Answers
CHECK_DEADLOCK FALSE
INVARIANTS
    MaliciousDependencyReported
    FailedSourceIsNamed
    ApprovalIsClosed
    AllowedIsClosed
    ReadersAgree
    PassedIsOfThisScan
    AppliedOnce
