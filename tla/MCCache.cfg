CONSTANTS
    Keys = {k1, k2, k3}
    Users = {u1, u2}
    TTLs = {1, 2}
    MaxTTL = 2
    MaxSize = 2
    Tags = {t1, t2}
    Clients = {c1, c2}
    TTL = 2
    MaxDelay = 1
    Burst = 2
    PerTick = 2
    Cost = 3
    WindowRequests = 2
    WindowSize = 2
    MaxN = 2
    MaxTime = 6
    SharedBurst = 3
    Rate = 1
    BucketTtl = 3
    Skew = 1
    MaxClock = 4
    NoTime = NoTime
SYMMETRY Symmetry
SPECIFICATION MCSpec
INVARIANTS
    TypesOK
    SizeBounded
    TagsReachKeys
    StalenessBounded
    LimitsKept
PROPERTIES
    NoStampede
CHECK_DEADLOCK FALSE
