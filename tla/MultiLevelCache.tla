-------------------------- MODULE MultiLevelCache --------------------------
(***************************************************************************)
(* One key of MultiLevelCache of framework/cache/multilevel_cache.go: a    *)
(* MemoryCache in front of a RedisCache, each with its own lock, and a     *)
(* mutex around the fetch of GetWithProtection.  A call takes one step for *)
(* each call it makes to a level.                                          *)
(*                                                                         *)
(* A value is known by its age, the ticks since it was read from the       *)
(* source or given to Set.  An entry with no time left is one that has     *)
(* expired or that stores nil: Get does not return either, but the         *)
(* RedisCache's SetNX finds both.                                          *)
(*                                                                         *)
(* Behind it, one key of QueryCache of framework/cache/query_cache.go:     *)
(* CacheQuery looks the key up, runs the query and stores its result, with *)
(* no lock over the three, and InvalidateCache deletes the entry in        *)
(* between.  A result is known by its age too.  Statistics and the         *)
(* building of keys are left out.  The two caches share nothing.           *)
(***************************************************************************)
EXTENDS Integers, FiniteSets

CONSTANTS
    Clients,
    TTL,            \* mc.ttl, the ttl of Set and SetNX and of results, in ticks
    MaxDelay        \* bound: ticks from getting a value to storing it

VARIABLES
    mem, red,       \* the key's entries in memory and in redis
    mutex,          \* mc.mutex: who holds it
    call,           \* what each client's call is about to do
    fetched,        \* history: redis holds a fetched value that is not lost
    enabled,
    entry,          \* what the cache of queries has
    query           \* what each client's CacheQuery is about to do

levels == <<mem, red>>
vars == <<levels, mutex, call, fetched>>

Nobody == "nobody"
MaxAge == 2 * TTL + 2 * MaxDelay
AgeCap == MaxAge + 1        \* bound: ages are counted up to here

NoEntry == [left |-> -1, age |-> 0]
Dead == [left |-> 0, age |-> 0]
Fresh(age) == [left |-> TTL, age |-> age]
Live(e) == e.left > 0

Idle == [op |-> "none", at |-> "none", age |-> 0, slack |-> 0]
Holding == {"copy", "store_memory", "store_redis"}
Ats == Holding \cup {"read_memory", "read_redis", "lock", "fetch", "erase_memory",
                     "erase_redis", "delete_redis", "nx_redis"}

TypeOK ==
    /\ {mem, red} \subseteq [left : -1..TTL, age : 0..AgeCap]
    /\ mutex \in Clients \cup {Nobody}
    /\ call \in [Clients -> [op : {"get", "protected", "set", "delete", "setnx"},
                             at : Ats, age : 0..AgeCap, slack : 0..MaxDelay] \cup {Idle}]
    /\ fetched \in BOOLEAN

Init ==
    /\ mem = NoEntry /\ red = NoEntry
    /\ mutex = Nobody
    /\ call = [c \in Clients |-> Idle]
    /\ fetched = FALSE

-----------------------------------------------------------------------------
(* Steps of a call *)

At(c, at) == call[c].at = at
Does(c, op) == call[c].op = op

Begin(c, op, at) ==
    /\ call[c] = Idle
    /\ call' = [call EXCEPT ![c] = [Idle EXCEPT !.op = op, !.at = at, !.slack = MaxDelay]]

Go(c, at) == call' = [call EXCEPT ![c].at = at] /\ UNCHANGED mutex

Take(c, at, age) ==
    /\ call' = [call EXCEPT ![c].at = at, ![c].age = age, ![c].slack = MaxDelay]
    /\ UNCHANGED mutex

Return(c) ==
    /\ call' = [call EXCEPT ![c] = Idle]
    /\ mutex' = IF mutex = c THEN Nobody ELSE mutex

(* What is lost to redis has to be fetched again. *)
KeepHistory ==
    fetched' = (fetched /\ Live(red'))

(* Get and GetWithProtection; SetNX asks Has of memory first. *)
BeginRead(c) ==
    /\ Begin(c, "get", "read_memory") \/ Begin(c, "protected", "read_memory")
    /\ UNCHANGED <<levels, mutex, fetched>>

ReadMemory(c) ==
    /\ At(c, "read_memory")
    /\ IF Live(mem) THEN Return(c) ELSE Go(c, "read_redis")
    /\ UNCHANGED <<levels, fetched>>

ReadRedis(c) ==
    /\ At(c, "read_redis")
    /\ \/ Live(red) /\ Take(c, "copy", red.age)
       \/ ~Live(red) /\ Does(c, "get") /\ Return(c)
       \/ ~Live(red) /\ Does(c, "protected") /\ mutex # c /\ Go(c, "lock")
       \/ ~Live(red) /\ mutex = c /\ Go(c, "fetch")
    /\ UNCHANGED <<levels, fetched>>

(* mutant: what redis has lives on there when it is read *)
CopyRenews(c) ==
    /\ At(c, "copy")
    /\ mem' = Fresh(call[c].age)
    /\ red' = Fresh(call[c].age)
    /\ Return(c)
    /\ KeepHistory

(* The value read from redis gets a whole ttl in memory. *)
Copy(c) ==
    /\ At(c, "copy")
    /\ mem' = Fresh(call[c].age)
    /\ Return(c)
    /\ UNCHANGED red
    /\ KeepHistory

(* mutant: the levels are not read again under the mutex *)
LockAndFetch(c) ==
    /\ At(c, "lock") /\ mutex = Nobody
    /\ mutex' = c
    /\ call' = [call EXCEPT ![c].at = "fetch"]
    /\ UNCHANGED <<levels, fetched>>

(* Under the mutex the two levels are read once more. *)
Lock(c) ==
    /\ At(c, "lock") /\ mutex = Nobody
    /\ mutex' = c
    /\ call' = [call EXCEPT ![c].at = "read_memory"]
    /\ UNCHANGED <<levels, fetched>>

(* fetchFunc returns a value, nil, or an error: then nil is stored. *)
Fetch(c) ==
    /\ At(c, "fetch")
    /\ Take(c, "store_memory", 0) \/ Return(c) \/ Go(c, "erase_memory")
    /\ UNCHANGED <<levels, fetched>>

-----------------------------------------------------------------------------
(* Set and SetNX store in memory, then in redis, as GetWithProtection does. *)
BeginSet(c) ==
    /\ Begin(c, "set", "store_memory")
    /\ UNCHANGED <<levels, mutex, fetched>>

StoreMemory(c) ==
    /\ At(c, "store_memory")
    /\ mem' = Fresh(call[c].age)
    /\ Go(c, "store_redis")
    /\ UNCHANGED red
    /\ KeepHistory

StoreRedis(c) ==
    /\ At(c, "store_redis")
    /\ red' = Fresh(call[c].age)
    /\ Return(c)
    /\ fetched' = (fetched \/ Does(c, "protected"))
    /\ UNCHANGED mem

EraseMemory(c) ==
    /\ At(c, "erase_memory")
    /\ mem' = Dead
    /\ Go(c, "erase_redis")
    /\ UNCHANGED red
    /\ KeepHistory

EraseRedis(c) ==
    /\ At(c, "erase_redis")
    /\ red' = Dead
    /\ Return(c)
    /\ UNCHANGED mem
    /\ KeepHistory

(* Delete, and Clear, which flushes memory and makes a new RedisCache.     *)
BeginDelete(c) ==
    /\ Begin(c, "delete", "delete_redis")
    /\ mem' = NoEntry
    /\ UNCHANGED <<red, mutex>>
    /\ KeepHistory

DeleteRedis(c) ==
    /\ At(c, "delete_redis")
    /\ red' = NoEntry
    /\ Return(c)
    /\ UNCHANGED mem
    /\ KeepHistory

(* SetNX, whose only test under a lock is the one in redis. *)
BeginSetNX(c) ==
    /\ Begin(c, "setnx", IF Live(mem) THEN "nx_redis" ELSE "store_memory")
    /\ UNCHANGED <<levels, mutex, fetched>>

SetNXInRedis(c) ==
    /\ At(c, "nx_redis")
    /\ red' = IF red = NoEntry THEN Fresh(0) ELSE red
    /\ Return(c)
    /\ UNCHANGED <<mem, fetched>>

-----------------------------------------------------------------------------
(* Other keys push this one out of memory, or its cleanup takes it away.   *)
Evict ==
    /\ mem # NoEntry
    /\ mem' = NoEntry
    /\ UNCHANGED <<red, mutex, call>>
    /\ KeepHistory

(* cleanupExpired of the RedisCache *)
CleanupRedis ==
    /\ red.left = 0
    /\ red' = NoEntry
    /\ UNCHANGED <<mem, mutex, call, fetched>>

Older(n) == IF n < AgeCap THEN n + 1 ELSE n

Aged(e) ==
    CASE e.left > 1 -> [left |-> e.left - 1, age |-> Older(e.age)]
      [] e.left = 1 -> Dead
      [] OTHER          -> e

Tick ==
    /\ \A c \in Clients : call[c].at \in Holding => call[c].slack > 0
    /\ mem' = Aged(mem) /\ red' = Aged(red)
    /\ call' = [c \in Clients |->
                  IF call[c].at \in Holding
                    THEN [call[c] EXCEPT !.slack = @ - 1, !.age = Older(@)]
                    ELSE call[c]]
    /\ UNCHANGED mutex
    /\ KeepHistory

Next ==
    \/ \E c \in Clients :
          \/ BeginRead(c) \/ ReadMemory(c) \/ ReadRedis(c) \/ Copy(c)
          \/ Lock(c) \/ Fetch(c)
          \/ BeginSet(c) \/ StoreMemory(c) \/ StoreRedis(c)
          \/ EraseMemory(c) \/ EraseRedis(c)
          \/ BeginDelete(c) \/ DeleteRedis(c)
          \/ BeginSetNX(c) \/ SetNXInRedis(c)
    \/ Evict \/ CleanupRedis \/ Tick

Spec == Init /\ [][Next]_vars

-----------------------------------------------------------------------------
(* A value leaves the cache at most two ttls, and the time two calls take  *)
(* to store it, after it was current: it lives in redis for one ttl and,   *)
(* copied at the last moment, in memory for another (lines 142 and 189).   *)
StaleBounded == red.age <= TTL + MaxDelay /\ mem.age <= MaxAge

(* multilevel_cache.go:146: the mutex stops a stampede.  However many      *)
(* clients miss the key together, fetchFunc is not called again while      *)
(* redis has what an earlier call fetched.                                 *)
OneFetchPerLoss ==
    [][\A c \in Clients : At(c, "fetch") /\ Fetch(c) => ~fetched]_vars

-----------------------------------------------------------------------------
(* QueryCache *)

queryVars == <<enabled, entry, query>>

ResultAgeCap == TTL + MaxDelay + 1        \* bound: ages are counted up to here
NoResult == [left |-> 0, age |-> 0]
LiveResult == entry.left > 0
NoQuery == [at |-> "none", age |-> 0]

QueryTypeOK ==
    /\ enabled \in BOOLEAN
    /\ entry \in [left : 0..TTL, age : 0..ResultAgeCap]
    /\ query \in [Clients -> [at : {"none", "query", "store"}, age : 0..MaxDelay]]

QueryInit ==
    /\ enabled = TRUE
    /\ entry = NoResult
    /\ query = [c \in Clients |-> NoQuery]

-----------------------------------------------------------------------------
Miss(c) == query' = [query EXCEPT ![c].at = "query"]

(* mutant: a hit gives the entry its whole ttl again *)
LookupRenews(c) ==
    /\ enabled /\ query[c] = NoQuery
    /\ \/ LiveResult /\ entry' = [entry EXCEPT !.left = TTL] /\ UNCHANGED query
       \/ ~LiveResult /\ Miss(c) /\ UNCHANGED entry
    /\ UNCHANGED enabled

(* CacheQuery: a hit is returned and changes nothing. *)
Lookup(c) ==
    /\ enabled /\ query[c] = NoQuery
    /\ ~LiveResult /\ Miss(c)
    /\ UNCHANGED <<enabled, entry>>

(* queryFunc returns a result. *)
RunQuery(c) ==
    /\ query[c].at = "query"
    /\ query' = [query EXCEPT ![c] = [at |-> "store", age |-> 0]]
    /\ UNCHANGED <<enabled, entry>>

(* queryFunc fails, and the error goes to the caller. *)
QueryFails(c) ==
    /\ query[c].at = "query"
    /\ query' = [query EXCEPT ![c] = NoQuery]
    /\ UNCHANGED <<enabled, entry>>

(* The result is stored even if the cache was invalidated or disabled. *)
Store(c) ==
    /\ query[c].at = "store"
    /\ entry' = [left |-> TTL, age |-> query[c].age]
    /\ query' = [query EXCEPT ![c] = NoQuery]
    /\ UNCHANGED enabled

(* The underlying Cache fails to store: the result is returned all the same. *)
StoreFails(c) ==
    /\ query[c].at = "store"
    /\ query' = [query EXCEPT ![c] = NoQuery]
    /\ UNCHANGED <<enabled, entry>>

InvalidateCache ==
    /\ entry' = NoResult
    /\ UNCHANGED <<enabled, query>>

Enable == enabled' = TRUE /\ UNCHANGED <<entry, query>>
Disable == enabled' = FALSE /\ UNCHANGED <<entry, query>>

Storing(c) == query[c].at = "store"

QueryTick ==
    /\ \A c \in Clients : Storing(c) => query[c].age < MaxDelay
    /\ entry' = IF entry.left > 1
                  THEN [left |-> entry.left - 1,
                        age |-> IF entry.age < ResultAgeCap THEN entry.age + 1 ELSE entry.age]
                  ELSE NoResult
    /\ query' = [c \in Clients |->
                  IF Storing(c) THEN [query[c] EXCEPT !.age = @ + 1] ELSE query[c]]
    /\ UNCHANGED enabled

QueryNext ==
    \/ \E c \in Clients :
          Lookup(c) \/ RunQuery(c) \/ QueryFails(c) \/ Store(c) \/ StoreFails(c)
    \/ InvalidateCache \/ Enable \/ Disable \/ QueryTick

QuerySpec == QueryInit /\ [][QueryNext]_queryVars

-----------------------------------------------------------------------------
(* A result is served at most its ttl, and the time it took to store it,   *)
(* after its query ran: hits do not renew it, and one stored after an      *)
(* invalidation (query_cache.go:73) goes within that time.                 *)
ResultsExpire == entry.age < TTL + MaxDelay
=============================================================================
