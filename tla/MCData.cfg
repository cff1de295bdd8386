CONSTANTS
    Parts = {"records", "migrations", "route", "ins", "bq", "shard", "tune", "sharded", "redis"}
    Models = {m1, m2}
    Ids = {1, 2, 3}
    Names = {1, 2}
    Chains <- MCChains
    Drivers = {"mysql", "postgres"}
    MaxOps = 3
    MaxFails = 1
    Runners = {r1, r2}
    Versions = {1, 2}
    MaxRuns = 3
    MaxTroubles = 1
    Replicas = {d1, d2, d3}
    MaxPicks = 5
    BatchRows = {x1, x2, x3}
    BatchSize = 2
    MaxFailures = 2
    Requests = {1, 2, 3}
    Texts = {"a", "b"}
    MaxConns = 1
    TableShards = 2
    ShardTypes = {"mod", "hash"}
    MaxConnections = 12
    MinConnections = 2
    Callers = {c1, c2}
    Keys = {k1, k2, k3}
    Hash <- MCHash
    Tags = {t1}
    CacheShards = 3
    MaxSize = 1
    TTLs = {0, 1}
    DefaultTTL = 1
    MaxExtra = 1
    MaxSets = 3
SYMMETRY Symmetry
SPECIFICATION MCSpec
INVARIANTS
    TypesOK
    
    RecordsMatchSchema
    
    ShardedSound
PROPERTIES
    RollbackUndoes
CHECK_DEADLOCK FALSE
