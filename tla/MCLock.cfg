CONSTANTS
    Clients = {c1, c2}
    TTL = 3
    Retry = 2
    WatchInterval = 2
    MaxHold = 2
    Failing = {"setnx", "extend", "unlock"}
    RedClients = {r1, r2}
    Servers = 3
    RedTTL = 2
    MaxSpent = 1
    Flaky = {2, 3}
SPECIFICATION MCSpec
INVARIANTS
    TypesOK
    MutualExclusion
PROPERTIES
    ImplementsLease
    OnlyOwnKeyDeleted
    RedLockSafe
    LocksComeFree
CHECK_DEADLOCK FALSE
