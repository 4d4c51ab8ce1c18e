CONSTANTS
    Scans = {s1}
    Files = {f1, f2}
    MaxWrites = 3
    Calls = {w1, w2, w3}
    Contents = {c1, c2}
    Shards = {d1}
    ShardOf <- OneShard
    MaxLosses = 1
    MaxDamage = 1
    Versions = {v1, v2}
    NoVersion = NoVersion
    MaxParts = 3
    Cap = 2
SPECIFICATION Custody
CHECK_DEADLOCK FALSE
SYMMETRY Symmetry
INVARIANTS
    TypesOK
    SnapshotIsInstant
    CatalogHasObject
    DamageIsNoticed
    OneSource
    MatchedIsPublished
    CallLeavesNothing
    PinIsOfTheResult
