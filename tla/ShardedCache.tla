---------------------------- MODULE ShardedCache -----------------------------
(***************************************************************************)
(* Two caches of framework/cache.  ShardedCache (sharded_cache.go) spreads *)
(* its keys over shards with a lock each: a call on one key is atomic, a   *)
(* call on many keys takes the locks one after the other, and other calls  *)
(* come between.  RedisCacheAdapter (redis_cache.go) keeps in redis, next  *)
(* to the keys, a set of keys for each tag, by one command after another.  *)
(*                                                                         *)
(* A value is left out; an entry is the time it has left.                  *)
(***************************************************************************)
EXTENDS Integers, Sequences, SequencesExt, FiniteSets, FiniteSetsExt

CONSTANTS
    Callers, Keys, Tags,
    Batches,        \* sets of keys the calls on many keys are made with
    Hash,           \* fnv32a of each key
    ShardCount,     \* ShardedCacheOption
    MaxSize,
    TTLs,           \* what callers ask for; 0 is "for_ever" to ShardedCache
    DefaultTTL,     \* and DefaultTTL to RedisCacheAdapter
    MaxExtra,       \* bound on the entries GetOrSet puts in a full shard
    MaxSets         \* bound on the calls to RedisCacheAdapter that write

VARIABLES
    life,           \* ShardedCache: the time each key has left
    job,            \* what each caller is in the middle of
    extra,          \* entries GetOrSet put in a full shard
    value,          \* RedisCacheAdapter: the time each key has left
    tagged,         \* its tag sets: [keys, life]
    call,           \* what each caller is in the middle of
    given,          \* the tags of the last write of each key
    loose,          \* tags that lost track of a key
    sets

shardVars == <<life, job, extra>>
redisVars == <<value, tagged, call, given, loose, sets>>
cacheVars == <<shardVars, redisVars>>

Absent == -2
Forever == -1           \* Expiry 0, the least of all
Left(ttl) == IF ttl = 0 THEN Forever ELSE ttl
Live(l, k) == l[k] = Forever \/ l[k] > 0
Present(l) == {k \in Keys : l[k] # Absent}
Older(l) == [k \in Keys |-> IF l[k] > 0 THEN l[k] - 1 ELSE l[k]]

-----------------------------------------------------------------------------
(* ShardedCache.  The mask is the number of shards less one, whether or not *)
(* that is a row of ones; a shard's number has the bits that the hash and   *)
(* the mask share.  The mask is a positive int32.                           *)

Bits(n) == {i \in 0..30 : (n \div 2^i) % 2 = 1}
Shards == 0..ShardCount - 1
ShardOf ==
    [k \in Keys |-> MapThenSumSet(LAMBDA i : 2^i, Bits(Hash[k]) \cap Bits(ShardCount - 1))]
ShardIndex(k) == ShardOf[k]
In(l, s) == {k \in Present(l) : ShardIndex(k) = s}
Free == [op |-> "none", left |-> {}, keys |-> {}, ttl |-> 0, old |-> {}, sum |-> 0, quiet |-> TRUE]

ShardedInit == life = [k \in Keys |-> Absent] /\ job = [c \in Callers |-> Free] /\ extra = 0

(* evictOne: of the entries of the shard, one whose Expiry is the least. *)
Soonest(l, s) == {k \in In(l, s) : \A j \in In(l, s) : l[k] <= l[j]}
(* Mutant: a shard makes room only when it has passed its size. *)
FullLate(l, s) == MaxSize > 0 /\ Cardinality(In(l, s)) > MaxSize
Full(l, s) == MaxSize > 0 /\ Cardinality(In(l, s)) >= MaxSize
Room(l, s) == IF Full(l, s) THEN {[l EXCEPT ![k] = Absent] : k \in Soonest(l, s)} ELSE {l}
Puts(l, k, ttl) == {[r EXCEPT ![k] = Left(ttl)] : r \in Room(l, ShardIndex(k))}

(* Calls in progress notice the keys that are written and the shards that   *)
(* change.                                                                  *)
Notice(j, written, changed) ==
    [c \in Callers |-> [j[c] EXCEPT !.old = @ \ written, !.quiet = @ /\ ~(changed /\ j[c].op = "count")]]

Set(k, ttl) ==
    /\ \E l \in Puts(life, k, ttl) : life' = l
    /\ job' = Notice(job, {k}, TRUE)
    /\ UNCHANGED extra

Delete(k) ==
    /\ life[k] # Absent
    /\ life' = [life EXCEPT ![k] = Absent]
    /\ job' = Notice(job, {}, TRUE)
    /\ UNCHANGED extra

(* GetOrSet does not look at the size. *)
GetOrSet(k, ttl) ==
    /\ ~Live(life, k)
    /\ life' = [life EXCEPT ![k] = Left(ttl)]
    /\ extra' = IF Full(life, ShardIndex(k)) /\ life[k] = Absent THEN extra + 1 ELSE extra
    /\ extra' <= MaxExtra
    /\ job' = Notice(job, {k}, TRUE)

(* The calls on many keys.  SetMulti and DeleteMulti start one goroutine    *)
(* for each shard; Clear, Count and cleanup go through the shards in order. *)
Many == {"set", "delete"}
Begin(c, op, keys, ttl) ==
    /\ job[c].op = "none"
    /\ job' = [job EXCEPT ![c] = [Free EXCEPT
            !.op = op, !.keys = keys, !.ttl = ttl,
            !.left = IF op \in Many THEN {ShardIndex(k) : k \in keys} ELSE Shards,
            !.old = IF op = "clear" THEN Present(life) ELSE {}]]
    /\ UNCHANGED <<life, extra>>

Next1(c) == IF job[c].op \in Many THEN job[c].left ELSE {s \in job[c].left : s = Min(job[c].left)}
Mine(c, s) == {k \in job[c].keys : ShardIndex(k) = s}
Passed(c, s) == [job EXCEPT ![c].left = @ \ {s}]

(* What a shard may be after some of its keys were set, in any order.       *)
After(l, K, ttl) ==
    LET set[S \in SUBSET K] ==
            IF S = {} THEN {l} ELSE UNION {UNION {Puts(m, k, ttl) : m \in set[S \ {k}]} : k \in S}
    IN set

SetShard(c, s) ==
    /\ job[c].op = "set"
    /\ \E l \in After(life, Mine(c, s), job[c].ttl)[Mine(c, s)] : life' = l
    /\ job' = Notice(Passed(c, s), Mine(c, s), TRUE)

Sweep(c, s, gone) ==
    /\ life' = [k \in Keys |-> IF k \in gone /\ ShardIndex(k) = s THEN Absent ELSE life[k]]
    /\ job' = Notice(Passed(c, s), {}, life' # life)
DeleteShard(c, s) == job[c].op = "delete" /\ Sweep(c, s, job[c].keys)
ClearShard(c, s) == job[c].op = "clear" /\ Sweep(c, s, Keys)
CleanShard(c, s) == job[c].op = "cleanup" /\ Sweep(c, s, {k \in Keys : life[k] = 0})

CountShard(c, s) ==
    /\ job[c].op = "count"
    /\ job' = [Passed(c, s) EXCEPT ![c].sum = @ + Cardinality(In(life, s))]
    /\ UNCHANGED life

Return(c) ==
    /\ job[c].op # "none" /\ job[c].left = {}
    /\ job' = [job EXCEPT ![c] = Free]
    /\ UNCHANGED <<life, extra>>

ShardTick ==
    /\ life' = Older(life) /\ life' # life
    /\ UNCHANGED <<job, extra>>

ShardedNext ==
    \/ ShardTick
    \/ \E k \in Keys : Delete(k) \/ \E ttl \in TTLs : Set(k, ttl) \/ GetOrSet(k, ttl)
    \/ \E c \in Callers :
        \/ \E K \in Batches :
            \/ \E ttl \in TTLs : Begin(c, "set", K, ttl)
            \/ Begin(c, "delete", K, 0)
        \/ \E op \in {"clear", "count", "cleanup"} : Begin(c, op, {}, 0)
        \/ \E s \in Next1(c) :
            /\ \/ SetShard(c, s) \/ DeleteShard(c, s)
               \/ ClearShard(c, s) \/ CountShard(c, s) \/ CleanShard(c, s)
            /\ UNCHANGED extra
        \/ Return(c)

(* How many entries each shard has over its limit. *)
Excess(l) == [s \in Shards |-> LET n == Cardinality(In(l, s)) - MaxSize IN IF n > 0 THEN n ELSE 0]

(* sharded_cache.go:95-116, 210-252: whatever calls overlap, a shard has    *)
(* more entries than its limit only by those that GetOrSet added to a full  *)
(* shard.                                                                   *)
ShardsBounded ==
    MaxSize > 0 => MapThenSumSet(LAMBDA s : Excess(life)[s], Shards) <= extra

(* sharded_cache.go:282-289: what was there when Clear began, and was not   *)
(* written since, is gone from the shards it has passed.                    *)
ClearSweeps ==
    \A c \in Callers : job[c].op = "clear" =>
        \A k \in job[c].old \cap Present(life) : ShardIndex(k) \in job[c].left

(* sharded_cache.go:291-300: a Count that no write overlaps is exact. *)
CountExact ==
    \A c \in Callers : job[c].op = "count" /\ job[c].quiet =>
        job[c].sum = Cardinality({k \in Present(life) : ShardIndex(k) \notin job[c].left})

(* The rules of ShardedCache together. *)
ShardedSound == ShardsBounded /\ ClearSweeps /\ CountExact

-----------------------------------------------------------------------------
(* RedisCacheAdapter.  EXPIRE with 0 deletes the key it is given. *)

Asleep == [op |-> "none", key |-> CHOOSE k \in Keys : TRUE, tag |-> CHOOSE t \in Tags : TRUE,
           ttl |-> 0, added |-> FALSE, todo |-> {}, listed |-> {}]
Nothing == [keys |-> {}, life |-> Forever]

RedisInit ==
    /\ value = [k \in Keys |-> Absent]
    /\ tagged = [t \in Tags |-> Nothing]
    /\ call = [c \in Callers |-> Asleep]
    /\ given = [k \in Keys |-> {}]
    /\ loose = {}
    /\ sets = 0

Written(k, ttl) == value' = [value EXCEPT ![k] = IF ttl = 0 THEN DefaultTTL ELSE ttl]
Write == sets < MaxSets /\ sets' = sets + 1

(* Set, and SetNX of a key that is not there. *)
SetKey(k, ttl) ==
    /\ Write
    /\ Written(k, ttl)
    /\ given' = [given EXCEPT ![k] = {}]
    /\ UNCHANGED <<tagged, call, loose>>

(* MSET takes no expiry: the ttl of SetMulti is not used. *)
SetMulti(K) ==
    /\ Write
    /\ value' = [k \in Keys |-> IF k \in K THEN Forever ELSE value[k]]
    /\ given' = [k \in Keys |-> IF k \in K THEN {} ELSE given[k]]
    /\ UNCHANGED <<tagged, call, loose>>

DeleteKey(k) ==
    /\ value[k] # Absent
    /\ value' = [value EXCEPT ![k] = Absent]
    /\ given' = [given EXCEPT ![k] = {}]
    /\ UNCHANGED <<tagged, call, loose, sets>>

(* Expire may let a key live longer than the sets of its tags. *)
Expire(k, ttl) ==
    /\ Write
    /\ Live(value, k) /\ ttl > value[k]
    /\ value' = [value EXCEPT ![k] = ttl]
    /\ loose' = loose \cup given[k]
    /\ UNCHANGED <<tagged, call, given>>

(* SetWithTags: SET, then SADD and EXPIRE for each tag. *)
SetWithTags(c, k, ttl, T) ==
    /\ Write
    /\ call[c].op = "none"
    /\ Written(k, ttl)
    /\ given' = [given EXCEPT ![k] = {}]
    /\ call' = [call EXCEPT ![c] = [Asleep EXCEPT !.op = "tag", !.key = k, !.ttl = ttl, !.todo = T]]
    /\ UNCHANGED <<tagged, loose>>

AddToTag(c, t) ==
    /\ call[c].op = "tag" /\ t \in call[c].todo /\ ~call[c].added
    /\ tagged' = [tagged EXCEPT ![t].keys = @ \cup {call[c].key}]
    /\ given' = [given EXCEPT ![call[c].key] = IF Live(value, call[c].key) THEN @ \cup {t} ELSE @]
    /\ call' = [call EXCEPT ![c].tag = t, ![c].added = TRUE]
    /\ UNCHANGED <<value, loose, sets>>

(* The set may be gone already, which EXPIRE does not mind. *)
Outlives(k, t, ttl) == t \in given[k] /\ Live(value, k) /\ (value[k] = Forever \/ value[k] > ttl)
Onward(j, t) == IF j.todo = {t} THEN Asleep ELSE [j EXCEPT !.todo = @ \ {t}, !.added = FALSE]
ExpireTag(c) ==
    LET t == call[c].tag ttl == call[c].ttl IN
    /\ call[c].added
    /\ tagged' = [tagged EXCEPT ![t] = IF ttl = 0 \/ @.keys = {} THEN Nothing ELSE [@ EXCEPT !.life = ttl]]
    /\ loose' = IF \E k \in Keys : Outlives(k, t, ttl) THEN loose \cup {t} ELSE loose
    /\ call' = [call EXCEPT ![c] = Onward(@, t)]
    /\ UNCHANGED <<value, given, sets>>

(* DeleteByTag: SMEMBERS, DEL of the keys, DEL of the set. *)
ListTag(c, t) ==
    /\ call[c].op = "none"
    /\ call' = [call EXCEPT ![c] = [Asleep EXCEPT !.op = "drop", !.tag = t, !.listed = tagged[t].keys]]
    /\ UNCHANGED <<value, tagged, given, loose, sets>>

DeleteListed(c) ==
    /\ call[c].op = "drop"
    /\ value' = [k \in Keys |-> IF k \in call[c].listed THEN Absent ELSE value[k]]
    /\ given' = [k \in Keys |-> IF k \in call[c].listed THEN {} ELSE given[k]]
    /\ call' = [call EXCEPT ![c].op = "forget"]
    /\ UNCHANGED <<tagged, loose, sets>>

(* A key that was tagged since the set was listed stays, without its tag. *)
DeleteTag(c) ==
    LET t == call[c].tag IN
    /\ call[c].op = "forget"
    /\ tagged' = [tagged EXCEPT ![t] = Nothing]
    /\ loose' = IF \E k \in tagged[t].keys : t \in given[k] THEN loose \cup {t} ELSE loose
    /\ call' = [call EXCEPT ![c] = Asleep]
    /\ UNCHANGED <<value, given, sets>>

(* Clear: SCAN finds what is there all the while; the sets of the tags have *)
(* the prefix too.                                                          *)
ClearRedis ==
    /\ value' = [k \in Keys |-> Absent] /\ value' # value
    /\ tagged' = [t \in Tags |-> Nothing]
    /\ given' = [k \in Keys |-> {}]
    /\ UNCHANGED <<call, loose, sets>>

RedisTick ==
    LET v == [k \in Keys |-> IF value[k] = 1 THEN Absent ELSE IF value[k] > 1 THEN value[k] - 1 ELSE value[k]] IN
    /\ value' = v
    /\ tagged' = [t \in Tags |-> IF tagged[t].life = 1 THEN Nothing
                                 ELSE IF tagged[t].life > 1 THEN [tagged[t] EXCEPT !.life = @ - 1] ELSE tagged[t]]
    /\ given' = [k \in Keys |-> IF v[k] = Absent THEN {} ELSE given[k]]
    /\ <<value', tagged'>> # <<value, tagged>>
    /\ loose' = loose \cup {t \in Tags : tagged[t].life = 1 /\ \E c \in Callers : call[c].added /\ call[c].tag = t}
    /\ UNCHANGED <<call, sets>>

RedisNext ==
    \/ RedisTick \/ ClearRedis
    \/ \E K \in Batches : SetMulti(K)
    \/ \E k \in Keys : DeleteKey(k) \/ \E ttl \in TTLs : SetKey(k, ttl) \/ Expire(k, ttl)
    \/ \E c \in Callers :
        \/ \E k \in Keys, ttl \in TTLs, T \in SUBSET Tags \ {{}} : SetWithTags(c, k, ttl, T)
        \/ \E t \in Tags : AddToTag(c, t) \/ ListTag(c, t)
        \/ ExpireTag(c) \/ DeleteListed(c) \/ DeleteTag(c)

(* redis_cache.go:175-211: DeleteByTag finds every live key of its tag,     *)
(* unless the set was given a shorter life than the key has (by a smaller   *)
(* ttl, by 0, or by Expire of the key), ran out under an unfinished call,   *)
(* or was deleted with a key that joined it meanwhile.                      *)
TagsFindKeys ==
    \A k \in Keys, t \in Tags : Live(value, k) /\ t \in given[k] /\ t \notin loose => k \in tagged[t].keys

-----------------------------------------------------------------------------
CachesInit == ShardedInit /\ RedisInit

CachesTypeOK ==
    /\ \A k \in Keys : life[k] >= Absent /\ value[k] >= Absent
    /\ \A c \in Callers : job[c].left \subseteq Shards /\ call[c].todo \subseteq Tags
    /\ extra \in 0..MaxExtra /\ loose \subseteq Tags
=============================================================================
