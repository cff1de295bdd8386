CONSTANTS
    Callers = {c1, c2}
    MaxFailures = 2
    ResetTimeout = 2
    RetryCount = 1
    RateLimit = 2
    HalfOpenMaxReq = 3
    MinRequests = 3
    MaxRequests = 4
    SuccessThreshold = 2
    N = 3
    MaxWeight = 3
    Cycle = 6
    Names = {s1, s2}
    MaxCalls = 3
    NoName = NoName
    QueueSize = 1
    MaxVersion = 2
    Instances = {i1}
    Loop = Loop
    CacheTime = 2
    WatchTime = 3
    MaxFetch = 2
SPECIFICATION MCSpec
INVARIANTS
    TypesOK
    TripsOnOutage
    AnswersSound
    BalancersSound
    DestinationsSound
PROPERTIES
    ShedsLoad
    RefusalsEnd
    
