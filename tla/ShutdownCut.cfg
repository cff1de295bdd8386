CONSTANTS
    Parts = {"app"}
    Requests = {r1, r2}
    Contexts = {c1}
    Chains <- MCChains
    MaxRetries = 1
    MaxActive = 1
    MaxLate = 1
    Callers = {g1, g2}
    Ips = {i1, i2}
    Limiters = {"l1", "l2"}
    Limit <- MCLimit
    Window <- MCWindow
    Visits <- MCVisits
    Tokens = {t1, t2}
    Ids = {s1, s2}
    Keep = 3
    Rate = 1
    Life = 2
    MaxTime = 4
    MaxSessions = 2
    MaxMade = 3
    Methods = {"GET", "POST"}
    MaxRoutes = 3
    Patterns <- MCPatterns
    Paths <- MCPaths
    Fit = {"a"}
    Rules = {"none", "id", "enum"}
    Ports = {"http", "grpc"}
    Keys = {k1, k2}
    Values = {1, 2}
    MaxRounds = 2
    MaxCalls = 1
    MaxVersions = 3
    Slots = {w1, w2}
    Budgets <- MCBudgets
    Targets <- MCTargets
    Jobs <- MCJobs
    MaxTests = 2
    MaxStops = 1
    Latencies = {1, 2}
    DefaultConcurrency = 2
    DefaultIterations = 2
    MaxOps = 2
    MaxResults = 1
SPECIFICATION MCSpec
INVARIANT AllClosed
CHECK_DEADLOCK FALSE
