------------------------------ MODULE MCCache -------------------------------
(***************************************************************************)
(* What is kept for a time, for TLC: MemoryCache used by itself,           *)
(* TaggedCache over it, one key of MultiLevelCache and one of QueryCache,  *)
(* and the counts of the limiters, in memory and in Redis.  A behaviour is *)
(* a behaviour of one of them, chosen in the initial state; the variables  *)
(* of the others keep their initial values.                                *)
(***************************************************************************)
EXTENDS TaggedCache, TLC

CONSTANTS
    Clients,        \* of MultiLevelCache, QueryCache and the shared bucket
    TTL,
    MaxDelay,
    Burst, PerTick, Cost, WindowRequests, WindowSize, MaxN, MaxTime,
    SharedBurst, Rate, BucketTtl, Skew, MaxClock, NoTime

VARIABLES
    cache,
    mem, red, mutex, call, fetched,
    enabled, entry, query,
    strategy, now, level, since, stamps, permits,
    clock, at, live, stock, lastTime, expires, born, latest, granted

Multi == INSTANCE MultiLevelCache
L == INSTANCE Limiter

multiVars == <<mem, red, mutex, call, fetched>>
queryVars == <<enabled, entry, query>>
limiterVars == <<strategy, now, level, since, stamps, permits>>
sharedVars == <<clock, at, live, stock, lastTime, expires, born, latest, granted>>
limitVars == <<limiterVars, sharedVars>>
mcVars == <<cache, vars, multiVars, queryVars, limitVars>>

MCInit ==
    /\ Init /\ Multi!Init /\ Multi!QueryInit /\ L!LocalInit /\ L!SharedInit
    /\ cache \in {"memory", "tagged", "multilevel", "query", "limiter", "shared"}
    /\ cache # "limiter" => strategy = "TokenBucket"

OnMemory(A) ==
    /\ cache = "memory" /\ A
    /\ UNCHANGED <<cache, tagVars, given, multiVars, queryVars, limitVars>>
OnTagged(A) == cache = "tagged" /\ A /\ UNCHANGED <<cache, multiVars, queryVars, limitVars>>
OnMulti(A) == cache = "multilevel" /\ A /\ UNCHANGED <<cache, vars, queryVars, limitVars>>
OnQuery(A) == cache = "query" /\ A /\ UNCHANGED <<cache, vars, multiVars, limitVars>>
OnLimiter(A) ==
    cache = "limiter" /\ A /\ UNCHANGED <<cache, vars, multiVars, queryVars, sharedVars>>
OnShared(A) ==
    cache = "shared" /\ A /\ UNCHANGED <<cache, vars, multiVars, queryVars, limiterVars>>

MCNext ==
    \/ OnMemory(CacheNext) \/ OnTagged(Next) \/ OnMulti(Multi!Next) \/ OnQuery(Multi!QueryNext)
    \/ OnLimiter(L!LocalNext) \/ OnShared(L!SharedNext)

MCSpec == MCInit /\ [][MCNext]_mcVars

-----------------------------------------------------------------------------
(* Keys, goroutines, tags and clients are interchangeable, and no property *)
(* is a liveness property.                                                 *)
Symmetry == Permutations(Keys) \cup Permutations(Users) \cup Permutations(Tags)
                \cup Permutations(Clients)

(* The cache that is used keeps its types, and the others stay as they     *)
(* were; those of the limiters in memory are with LimitsKept.              *)
TypesOK == TypeOK /\ Multi!TypeOK /\ Multi!QueryTypeOK /\ L!SharedTypeOK

(* What was read from the source is not served for ever: at most two ttls  *)
(* by MultiLevelCache (lines 142, 189), and one by QueryCache (line 73).   *)
StalenessBounded == Multi!StaleBounded /\ Multi!ResultsExpire

(* No limiter gives more than its allowance between any two moments        *)
(* (limiter.go:18), and the bucket in Redis no more than its burst and its *)
(* rate allow, however late scripts run (distributed_limiter.go:99-118).   *)
LimitsKept == L!LocalTypeOK /\ L!AllowancesKept /\ L!BucketKept

(* multilevel_cache.go:146: no second fetch while redis has the first one's *)
(* result, however many clients miss the key together.                     *)
NoStampede == Multi!OneFetchPerLoss
=============================================================================
