SPECIFICATION FairSpec
CONSTANTS
    Seed = {s1}
    Key = {me, k1, k2}
    Local = me
    Connect = {c1}
    MaxRecords = 3
    Deniable = {k1}
    MaxQueue = 2
    MaxDials = 2
    MaxChain = 1
    MaxStops = 1
    None = None
CHECK_DEADLOCK FALSE
INVARIANTS
    SeedInv
    RecordsKeepPeer
PROPERTIES
    CallsSettle
