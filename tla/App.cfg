SPECIFICATION FairSpec
CONSTANTS
    None = None
    Container = {a, b}
    Default = a
    s1 = s1
    s2 = s2
    Shard = {s1, s2}
    Budget = 2
    Arriving <- MCArriving
    MaxEvents = 1
    MaxClicks = 2
INVARIANTS
    TypeOK
    OwnAnswer
    FlagsTell
PROPERTIES
    FingerprintCovers
    LoadsFound
    RefusesMissingShards
    BackendReturns
    Converges
CHECK_DEADLOCK FALSE
