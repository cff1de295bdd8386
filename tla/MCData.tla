------------------------------- MODULE MCData --------------------------------
(***************************************************************************)
(* What is kept in the database and in the caches that are shared, for     *)
(* TLC: the models and transactions of ActiveRecord, the Migrations that   *)
(* make its tables, the parts of Database under them, and the two caches   *)
(* of ShardedCache.  They meet only through the tables and redis, so a     *)
(* behaviour is a behaviour of one of them, chosen in the initial state;   *)
(* the variables of the others keep their initial values.                  *)
(***************************************************************************)
EXTENDS ActiveRecord, TLC

CONSTANTS
    Parts,          \* the parts a configuration is about
    Runners, Versions, MaxRuns, MaxTroubles,
    Replicas, MaxPicks, BatchRows, BatchSize, MaxFailures, Requests, Texts, MaxConns,
    TableShards, ShardTypes, MaxConnections, MinConnections,
    Callers, Keys, Tags, Hash, CacheShards, MaxSize, TTLs, DefaultTTL, MaxExtra, MaxSets

ASSUME DataAssumption ==
    /\ IsFiniteSet(Replicas) /\ IsFiniteSet(Requests) /\ {"a", "b"} \subseteq Texts
    /\ BatchSize \in Nat /\ TableShards \in Nat \ {0} /\ ShardTypes \subseteq {"mod", "hash"}
    /\ MaxConnections \in Nat \ {0} /\ MinConnections \in Nat \ {0}
    /\ IsFiniteSet(Keys) /\ Hash \in [Keys -> Nat] /\ CacheShards \in Nat \ {0}
    /\ MaxSize \in Int /\ MaxExtra \in Nat /\ TTLs \subseteq Nat /\ DefaultTTL \in Nat

VARIABLES
    part,
    applied, present, phase, todo, build, runs, troubles, clean,
    route, ins, bq, shard, tune,
    life, job, extra, value, tagged, call, given, loose, sets

-----------------------------------------------------------------------------
(* Chains of calls: no condition and a page; a list, a negation and a raw   *)
(* clause; an OR.                                                           *)
Chain(w, r, o) == [wheres |-> w, raws |-> r, offset |-> o]
MCChains == {
    Chain(<<>>, <<>>, 1),
    Chain(<<WhereIn("id", <<1, 2>>), WhereNot("name", 2)>>, <<Between("version", 1, 2)>>, 0),
    Chain(<<WhereNotIn("name", <<2>>), WhereOr("id", 1)>>, <<>>, 0)}

(* The last request has a text of its own and the first two share one,      *)
(* which has arguments.                                                     *)
MCText == [r \in Requests |-> IF r = Max(Requests) THEN "b" ELSE "a"]
MCHasArgs == [t \in Texts |-> t = "a"]

(* Keys of rows, one of them negative; any hash of the others and of the    *)
(* numbers of shards.                                                       *)
MCShardKeys == -1..3
MCHashed == MCShardKeys \cup 0..TableShards - 1
MCShardHashes == {h \in [MCHashed -> 0..TableShards - 1] : h[-1] = 0}

(* One key hashes to another shard than the rest, and to one the mask of    *)
(* three shards cannot reach as a remainder would.                          *)
MCHash == [k \in Keys |-> IF k = CHOOSE x \in Keys : TRUE THEN 2 ELSE 1]

Mig == INSTANCE Migrations
DB == INSTANCE Database WITH
        Text <- MCText, HasArgs <- MCHasArgs, ShardKeys <- MCShardKeys \ {0},
        ShardCount <- TableShards, ShardHashes <- MCShardHashes
(* Calls on many keys take all of them: two share a shard.                  *)
MCBatches == {Keys}

SC == INSTANCE ShardedCache WITH ShardCount <- CacheShards, Batches <- MCBatches

migVars == <<applied, present, phase, todo, build, runs, troubles, clean>>
dbVars == <<route, ins, bq, shard, tune>>
shardVars == <<life, job, extra>>
redisVars == <<value, tagged, call, given, loose, sets>>
mcVars == <<part, vars, migVars, dbVars, shardVars, redisVars>>

MCInit ==
    /\ part \in Parts
    /\ Init /\ Mig!Init /\ DB!Init /\ SC!CachesInit
    /\ IF part = "records" THEN (locking <=> soft /\ driver = "mysql") /\ (driver = "postgres" => soft) ELSE ~locking /\ ~soft /\ driver = "mysql"
    /\ part # "shard" =>
         shard.type = "mod" /\ \A k \in MCHashed : shard.hash[k] = 0

OnRecords(A) == part = "records" /\ A /\ UNCHANGED <<part, migVars, dbVars, shardVars, redisVars>>
OnMigrations(A) ==
    part = "migrations" /\ A /\ UNCHANGED <<part, vars, dbVars, shardVars, redisVars>>
OnStore(p, A, others) ==
    part = p /\ A /\ UNCHANGED <<part, vars, migVars, others, shardVars, redisVars>>
OnSharded(A) == part = "sharded" /\ A /\ UNCHANGED <<part, vars, migVars, dbVars, redisVars>>
OnRedis(A) == part = "redis" /\ A /\ UNCHANGED <<part, vars, migVars, dbVars, shardVars>>

MCNext ==
    \/ OnRecords(Next) \/ OnMigrations(Mig!Next)
    \/ OnStore("route", DB!RouteNext, <<ins, bq, shard, tune>>)
    \/ OnStore("ins", DB!InsNext, <<route, bq, shard, tune>>)
    \/ OnStore("bq", DB!BatchNext, <<route, ins, shard, tune>>)
    \/ OnStore("shard", DB!ShardNext, <<route, ins, bq, tune>>)
    \/ OnStore("tune", DB!TuneNext, <<route, ins, bq, shard>>)
    \/ OnSharded(SC!ShardedNext) \/ OnRedis(SC!RedisNext)

MCSpec == MCInit /\ [][MCNext]_mcVars

-----------------------------------------------------------------------------
(* Models and callers are interchangeable, and no property is a liveness    *)
(* property.                                                                *)
Symmetry == Permutations(Models) \cup Permutations(Callers)

(* The part that is used keeps its types, and the others stay as they were. *)
TypesOK == TypeOK /\ Mig!TypeOK /\ DB!TypeOK /\ SC!CachesTypeOK

(* migration.go:203-245, 248-320: calls of the migrator that do not overlap *)
(* and do not fail leave exactly the recorded versions in the schema.       *)
RecordsMatchSchema == Mig!RecordsMatchSchema

(* The stores keep what they are given: readers share the reads evenly      *)
(* (db.go:253), a batched row is stored once (batch.go:154), a batched      *)
(* query gets its own rows (batch.go:98), BatchInsert tells of every row it *)
(* did not store (sharding.go:285), no tuner lifts the limit of a pool      *)
(* (monitor.go:116), and a tag of the redis cache finds its keys            *)
(* (redis_cache.go:191).                                                    *)
StoresSound == DB!DatabaseSound /\ SC!TagsFindKeys

(* sharded_cache.go: a shard holds no more than its size and what GetOrSet  *)
(* added (302), Clear leaves nothing that was there before it, and Count is *)
(* exact when nothing changes.                                              *)
ShardedSound == SC!ShardedSound
=============================================================================
