------------------------------- MODULE Database -------------------------------
(***************************************************************************)
(* What framework/db keeps around the query builder: the pools of readers  *)
(* and writers (db.go), the batch inserter and the batch query (batch.go), *)
(* the shards of a table (sharding.go) and the tuners of a pool's limit    *)
(* (monitor.go).  Each is a record; they                                   *)
(* share nothing, so each has a next-state relation of its own.            *)
(***************************************************************************)
EXTENDS Integers, Sequences, SequencesExt, FiniteSets, FiniteSetsExt, Functions

CONSTANTS
    Replicas,       \* data sources InitReadDBs and InitWriteDBs are given
    MaxPicks,       \* bound on the statements that are routed
    BatchRows, BatchSize, MaxFailures,
    Requests, Texts, Text, HasArgs, MaxConns,
    ShardKeys, ShardCount, ShardHashes, ShardTypes,
    MaxConnections, MinConnections

VARIABLES route, ins, bq, shard, tune

vars == <<route, ins, bq, shard, tune>>

-----------------------------------------------------------------------------
(* Reads and writes are spread by two counters.  A source that cannot be    *)
(* opened is skipped; without readers, reads go round the writers by the    *)
(* counter of the writes.                                                   *)

NoLoad == [d \in Replicas |-> 0]
RouteInit == route = [reads |-> <<>>, writes |-> <<>>, rc |-> 0, wc |-> 0, open |-> TRUE,
                      got |-> NoLoad, shared |-> FALSE, picks |-> 0]

InitReadDBs(alive) ==
    /\ route.open /\ route.reads = <<>> /\ route.picks = 0
    /\ route' = [route EXCEPT !.reads = SetToSeq(alive)]
InitWriteDBs(alive) ==
    /\ route.open /\ route.writes = <<>> /\ route.picks = 0
    /\ route' = [route EXCEPT !.writes = SetToSeq(alive)]

(* AddUint64 returns the new value of the counter. *)
Pick(pool, counter) == pool[(counter % Len(pool)) + 1]
Serve(db) == [route EXCEPT !.got[db] = @ + 1, !.picks = @ + 1]

GetReadDB ==
    /\ route.open /\ route.picks < MaxPicks
    /\ IF route.reads # <<>>
       THEN route' = [Serve(Pick(route.reads, route.rc + 1)) EXCEPT !.rc = @ + 1]
       ELSE IF route.writes # <<>>
       THEN route' = [Serve(Pick(route.writes, route.wc + 1)) EXCEPT !.wc = @ + 1, !.shared = TRUE]
       ELSE route' = [route EXCEPT !.picks = @ + 1]

GetWriteDB ==
    /\ route.open /\ route.picks < MaxPicks
    /\ IF route.writes # <<>>
       THEN route' = [Serve(Pick(route.writes, route.wc + 1)) EXCEPT !.wc = @ + 1]
       ELSE route' = [route EXCEPT !.picks = @ + 1]

CloseAll ==
    /\ route.open
    /\ route' = [route EXCEPT !.open = FALSE, !.reads = <<>>, !.writes = <<>>]

RouteNext ==
    \/ \E S \in SUBSET Replicas \ {{}} : InitReadDBs(S) \/ InitWriteDBs(S)
    \/ GetReadDB \/ GetWriteDB \/ CloseAll

(* db.go:253-269: the readers are given the same number of reads, to one.   *)
ReadersEven ==
    \A a, b \in Range(route.reads) :
        route.writes = <<>> => route.got[a] - route.got[b] \in -1..1

-----------------------------------------------------------------------------
(* BatchInserter: a row is buffered first, and a full buffer is flushed.    *)
(* When the INSERT fails the buffer keeps all its rows, the new one too,    *)
(* and Add returns an error, after which the caller may add it again.       *)

InsInit == ins = [buffer |-> <<>>, table |-> <<>>, inserted |-> 0, given |-> {}, doubted |-> {}, fails |-> 0]

(* Mutant: the buffer is not emptied. *)
FlushedTwice(i) == [i EXCEPT !.table = @ \o i.buffer, !.inserted = @ + Len(i.buffer)]
Flushed(i) == [i EXCEPT !.table = @ \o i.buffer, !.inserted = @ + Len(i.buffer), !.buffer = <<>>]

AddRow(r) ==
    LET held == [ins EXCEPT !.buffer = Append(@, r)] IN
    /\ r \notin ins.given \/ r \in ins.doubted
    /\ Len(ins.table) + Len(ins.buffer) < 2 * Cardinality(BatchRows)
    /\ \/ ins' = [IF Len(held.buffer) >= BatchSize THEN Flushed(held) ELSE held EXCEPT !.given = @ \cup {r}]
       \/ /\ Len(held.buffer) >= BatchSize /\ ins.fails < MaxFailures
          /\ ins' = [held EXCEPT !.given = @ \cup {r}, !.doubted = @ \cup {r}, !.fails = @ + 1]

Flush ==
    /\ ins.buffer # <<>>
    /\ \/ ins' = Flushed(ins)
       \/ ins.fails < MaxFailures /\ ins' = [ins EXCEPT !.fails = @ + 1]

InsNext == Flush \/ \E r \in BatchRows : AddRow(r)

Times(s, r) == Cardinality({k \in DOMAIN s : s[k] = r})

(* batch.go:154-211: a row that was added is in the buffer or in the table, *)
(* once, unless an Add of it returned an error and was repeated.            *)
RowsConserved ==
    /\ ins.inserted = Len(ins.table)
    /\ \A r \in ins.given :
        LET n == Times(ins.buffer \o ins.table, r) IN n >= 1 /\ (r \notin ins.doubted => n = 1)

-----------------------------------------------------------------------------
(* BatchQuery: requests are collected until the batch is full or the ticker *)
(* fires; equal texts become one query with all their arguments, whose      *)
(* result goes to every request of the text.  A request whose context ends  *)
(* leaves, and the result that still comes for it is never closed.          *)

BatchInit == bq = [queue |-> <<>>, batch |-> <<>>, todo |-> {}, state |-> [r \in Requests |-> "none"],
                   mates |-> [r \in Requests |-> {}], held |-> [t \in Texts |-> {}]]

Send(r) ==
    /\ bq.state[r] = "none"
    /\ bq' = [bq EXCEPT !.queue = Append(@, r), !.state[r] = "waiting"]

GiveUp(r) ==
    /\ bq.state[r] = "waiting"
    /\ bq' = [bq EXCEPT !.state[r] = "gone"]

OfText(t) == {r \in Range(bq.batch) : Text[r] = t}
Begin(b) == [bq EXCEPT !.batch = b, !.todo = {Text[r] : r \in Range(b)}]

Collect ==
    /\ bq.todo = {} /\ bq.queue # <<>>
    /\ LET b == Append(bq.batch, Head(bq.queue)) IN
       bq' = [IF Len(b) >= BatchSize THEN Begin(b) ELSE [bq EXCEPT !.batch = b] EXCEPT !.queue = Tail(@)]

TickBatch ==
    /\ bq.todo = {} /\ bq.batch # <<>>
    /\ bq' = Begin(bq.batch)

(* One query of the batch.  It waits for a connection; the arguments of two *)
(* requests do not fit the placeholders of one.                             *)
InUse == {t \in Texts : bq.held[t] # {}}
MergeFits(t) == Cardinality(OfText(t)) = 1 \/ ~HasArgs[t]
Execute(t) ==
    LET rs == OfText(t) ok == MergeFits(t) IN
    /\ t \in bq.todo
    /\ ok => Cardinality(InUse) < MaxConns
    /\ bq' = [bq EXCEPT
        !.todo = @ \ {t},
        !.batch = IF bq.todo = {t} THEN <<>> ELSE @,
        !.state = [r \in Requests |-> IF r \in rs /\ @[r] = "waiting" THEN IF ok THEN "reading" ELSE "error" ELSE @[r]],
        !.mates = [r \in Requests |-> IF r \in rs THEN rs ELSE @[r]],
        !.held[t] = IF ok THEN @ \cup rs ELSE @]

(* The reader that closes the rows first cuts the others short. *)
CloseRows(r) ==
    LET t == Text[r] IN
    /\ bq.state[r] = "reading"
    /\ bq' = [bq EXCEPT !.held[t] = @ \ bq.mates[r],
                        !.state = [s \in Requests |-> IF s = r THEN "read"
                                     ELSE IF s \in bq.mates[r] /\ @[s] = "reading" THEN "cut" ELSE @[s]]]

BatchNext ==
    \/ Collect \/ TickBatch
    \/ \E r \in Requests : Send(r) \/ GiveUp(r) \/ CloseRows(r)
    \/ \E t \in Texts : Execute(t)

(* batch.go:98-130: a request that shares its text with no other of its     *)
(* batch gets its own rows, whole; and rows that nobody will close belong   *)
(* to a request that gave up.                                               *)
AnswersOwn ==
    /\ \A r \in Requests : bq.mates[r] = {r} => bq.state[r] \notin {"cut", "error"}
    /\ \A r \in Requests : bq.state[r] \in {"reading", "read"} => ~HasArgs[Text[r]] \/ bq.mates[r] = {r}
    /\ \A t \in Texts : bq.held[t] # {} => \E r \in bq.held[t] : bq.state[r] \in {"reading", "gone"}

-----------------------------------------------------------------------------
(* Shards.  The remainder of Go has the sign of the dividend.  A table that *)
(* is not split by remainder is split by a hash of the printed key, or by a *)
(* function of the caller: any function of the key here.                    *)

GoMod(a, n) == IF a >= 0 THEN a % n ELSE -((-a) % n)
ShardIndex(type, hash, key) ==
    IF type = "mod" THEN GoMod(key, ShardCount) ELSE hash[key]

ShardInit ==
    \E type \in ShardTypes, hash \in ShardHashes :
        shard = [type |-> type, hash |-> hash, at |-> [k \in {} |-> 0], told |-> "none", asked |-> {}, keys |-> {}]

IndexOf(key) == ShardIndex(shard.type, shard.hash, key)

(* BatchInsert groups the rows by index, then asks GetShard for the shard   *)
(* of the index, as if the index were a key.  A shard whose inserts fail    *)
(* stops at the first failure; the others go on.                            *)
Target(key) == IndexOf(IndexOf(key))
BatchInsert(keys, stored) ==
    /\ keys \cap shard.keys = {} /\ stored \subseteq keys
    /\ shard' = [shard EXCEPT !.at = [k \in stored \cup DOMAIN @ |-> IF k \in stored THEN Target(k) ELSE @[k]],
                              !.keys = @ \cup keys, !.asked = keys,
                              !.told = IF stored = keys THEN "ok" ELSE "error"]
InsertOne(key) ==
    /\ key \notin shard.keys
    /\ shard' = [shard EXCEPT !.at = [k \in {key} \cup DOMAIN @ |-> IF k = key THEN IndexOf(key) ELSE @[k]],
                              !.keys = @ \cup {key}, !.told = "none"]

ShardNext == \E K \in SUBSET ShardKeys \ {{}} : \/ \E S \in SUBSET K : BatchInsert(K, S)
                                                \/ \E k \in K : K = {k} /\ InsertOne(k)

(* sharding.go:73-105: the shard a stored row is looked for in, by         *)
(* GetQuery, is the one that has it.                                        *)
RowsFindable == \A k \in DOMAIN shard.at : shard.at[k] = IndexOf(k)

(* sharding.go:285-333: BatchInsert returns no error only when every row of *)
(* every shard is stored; a table that is split by the remainder of its key *)
(* finds all its rows again; and GetAllShards passes over no row but those  *)
(* whose key is negative.                                                   *)
ShardsSound ==
    /\ shard.told = "ok" => shard.asked \subseteq DOMAIN shard.at
    /\ shard.type = "mod" => RowsFindable
    /\ \A k \in DOMAIN shard.at : k >= 0 => shard.at[k] \in 0..ShardCount - 1

-----------------------------------------------------------------------------
(* The tuners set the limit of a pool from its statistics: AutoTune from    *)
(* the limit, ConnectionPoolOptimizer from the open connections.  A limit   *)
(* of 0 is no limit to database/sql.  The thresholds are a half and a       *)
(* quarter of the pool.                                                     *)

TuneInit == tune = [limit |-> MaxConnections, open |-> 0, used |-> 0, before |-> MaxConnections, by |-> "none"]

Least(a, b) == IF a < b THEN a ELSE b
Most(a, b) == IF a < b THEN b ELSE a
Up(n) == (12 * n) \div 10
Down(n) == (8 * n) \div 10
SetLimit(n, who) == tune' = [tune EXCEPT !.before = tune.limit, !.limit = n, !.open = Least(@, n), !.used = Least(@, n), !.by = who]

Work(open, used) ==
    /\ used <= open /\ open <= tune.limit
    /\ tune' = [tune EXCEPT !.open = open, !.used = used, !.by = "none"]

AutoTune ==
    \/ 2 * tune.used > tune.limit /\ tune.open < tune.limit /\ Up(tune.limit) <= MaxConnections + 2
       /\ SetLimit(Up(tune.limit), "auto")
    \/ 4 * tune.used < tune.limit /\ tune.limit > 10 /\ SetLimit(Down(tune.limit), "auto")

Optimize ==
    /\ tune.open > 0
    /\ \/ /\ 2 * tune.used > tune.open /\ tune.open < MaxConnections
          /\ SetLimit(Least(Up(tune.open), MaxConnections), "optimizer_up")
       \/ /\ 4 * tune.used < tune.open /\ tune.open > MinConnections
          /\ SetLimit(Most(Down(tune.open), MinConnections), "optimizer_down")
TuneNext == AutoTune \/ Optimize \/ \E o, u \in 0..MaxConnections + 2 : Work(o, u)

(* monitor.go:116-147, 224-259: no tuner ever sets the limit to 0, which    *)
(* would lift it, and AutoTune never goes below 8 connections.              *)
LimitStays ==
    /\ tune.limit >= 1
    /\ tune.by = "auto" /\ tune.limit < tune.before => tune.limit >= 8

Init == RouteInit /\ InsInit /\ BatchInit /\ ShardInit /\ TuneInit
Next == RouteNext \/ InsNext \/ BatchNext \/ ShardNext \/ TuneNext

TypeOK ==
    /\ Range(route.reads) \cup Range(route.writes) \subseteq Replicas
    /\ Range(ins.buffer) \cup Range(ins.table) \subseteq BatchRows
    /\ \A r \in Requests : bq.state[r] \in {"none", "waiting", "reading", "read", "cut", "error", "gone"}
    /\ DOMAIN shard.at \subseteq shard.keys
    /\ tune.used <= tune.open /\ tune.open <= tune.limit

(* The rules above together, for the one part a behaviour uses. *)
DatabaseSound == ReadersEven /\ RowsConserved /\ AnswersOwn /\ ShardsSound /\ LimitStays
=============================================================================
