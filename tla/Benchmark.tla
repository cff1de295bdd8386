----------------------------- MODULE Benchmark -----------------------------
(***************************************************************************)
(* The two services that load the system on purpose:                       *)
(*   - app/service/benchmark: one singleton whose tests are started,       *)
(*     stopped and reset over a websocket, by their own timers, by their   *)
(*     monitor and by the resource limits, all on the same unguarded       *)
(*     fields (variables svc, agents, workers);                            *)
(*   - app/service/performance: six micro-benchmarks whose workers keep    *)
(*     totals, minimum and maximum with atomics (variables bench, plan,    *)
(*     results).                                                           *)
(* A context is named by the test it was made for.  Durations are left     *)
(* out: a timer may fire at any time after it was set, and the deadline of *)
(* the context, which is the same moment, comes with it.  The request      *)
(* counter stands for the eleven counters of a second, which are added and *)
(* swapped alike.                                                          *)
(***************************************************************************)
EXTENDS Integers, Sequences, FiniteSets, FiniteSetsExt

CONSTANTS Slots,       \* worker goroutines of the load test that may exist at once
          MaxTests,    \* bound: tests started, those of the largest budget
          Budgets,     \* bounds of the load test, one of them chosen at the start:
                       \* tests, crew (workers of a test), done (requests), late (waits
                       \* given up after 5 seconds), signs (changes of the machine or
                       \* a service), commands, clients
          MaxStops,    \* bound: calls of StopTest in progress at the same time
          Targets,     \* limits of operations a test may be started with, by kind
          Latencies,   \* latencies an operation of a micro-benchmark may take
          DefaultConcurrency, \* 10 in the source (100 for the QPS benchmark)
          DefaultIterations,  \* 1000 in the source
          MaxOps,      \* bound: operations of one QPS benchmark
          Jobs,        \* concurrency and iterations the benchmarks are asked for
          MaxResults   \* bound: results kept before they are cleared

VARIABLES svc, agents, workers, dead, truth, budget, bench, plan, results
loadVars == <<svc, agents, workers, dead, truth, budget>>
rest == <<dead, truth, budget>>
perfVars == <<bench, plan, results>>
benchVars == <<loadVars, perfVars>>

Tests == 1..MaxTests
Kinds == {"db", "mq"}
\* Who gives commands: a connection of the hub, a request of the controller.
Clients == {"client"} \X (1..2)
Overload == <<"limit", 0>>      \* the goroutine a snapshot starts at a limit
Agents == Clients \union {Overload} \union ({"timer", "monitor", "waiter"} \X Tests)

(***************************************************************************)
(* The load test.                                                          *)
(***************************************************************************)
Counters == [req |-> 0, ops |-> [k \in Kinds |-> 0]]

Idle == [running |-> FALSE, ctx |-> 0, tests |-> 0, wg |-> 0, http |-> FALSE,
         target |-> [k \in Kinds |-> 0], conn |-> FALSE, hot |-> FALSE,
         last |-> 0, final |-> 0, hasFinal |-> FALSE, count |-> Counters]

LoadInit ==
    /\ svc = Idle
    /\ agents = [a \in Agents |-> [at |-> "off", reg |-> 0, then |-> "off", test |-> 0]]
    /\ workers = [w \in Slots |-> [at |-> "off", http |-> FALSE, local |-> 0,
                                   may |-> {}]]
    /\ dead = {}
    /\ truth = [done |-> 0, issued |-> [k \in Kinds |-> 0]]
    /\ budget \in Budgets

Go(a, at) == agents' = [agents EXCEPT ![a].at = at]
Calls(a, then) == agents' = [agents EXCEPT ![a].at = "stop", ![a].then = then]

Spend(x) == budget[x] > 0 /\ budget' = [budget EXCEPT ![x] = @ - 1]

\* Every two seconds the hardware is looked at, every five the services: the
\* results are plain fields the snapshot and the workers read.
Sign == svc.running /\ Spend("signs") /\ UNCHANGED <<agents, workers, dead, truth>>

SystemMonitor == Sign /\ svc' = [svc EXCEPT !.hot = ~@]
CheckConnections == Sign /\ svc' = [svc EXCEPT !.conn = ~@]

\* A command of the benchmark channel: a start stops a running test first and
\* sleeps, a reset stops it and clears, a stop stops it.
Command(a, action) ==
    /\ a[2] <= budget.clients /\ agents[a].at = "off" /\ Spend("commands")
    /\ CASE action \in {"start", "start-http"} ->
              /\ budget.tests > 0
              /\ IF svc.running THEN Calls(a, action) ELSE Go(a, action)
         [] action = "stop" -> Calls(a, "off")
         [] action = "reset" ->
              IF svc.running THEN Calls(a, action) ELSE Go(a, action)
    /\ UNCHANGED <<svc, workers, dead, truth>>

\* The compare-and-swap lets one start in and the configuration is written
\* field by field.  A service that does not answer puts the flag back and
\* cancels the context just made.
Setup(a, http, target, answers) ==
    LET t == svc.tests + 1 IN
    /\ Spend("tests")
    /\ svc' = [svc EXCEPT !.ctx = t, !.tests = t, !.http = http,
                          !.target = IF http THEN @ ELSE target,
                          !.conn = @ \/ (answers /\ ~http),
                          !.running = answers,
                          !.count.ops = IF http THEN @ ELSE [k \in Kinds |-> 0]]
    /\ truth' = IF http THEN truth ELSE [truth EXCEPT !.issued = [k \in Kinds |-> 0]]
    /\ dead' = IF answers THEN dead ELSE dead \union {t}
    /\ agents' = [agents EXCEPT ![a].at = IF answers THEN "launch" ELSE "off", ![a].test = IF answers THEN t ELSE 0]
    /\ UNCHANGED workers

StartTest(a, target, answers) ==
    /\ agents[a].at = "start"
    /\ IF svc.running THEN Go(a, "off") /\ UNCHANGED <<svc, workers, rest>>
       ELSE Setup(a, FALSE, target, answers)

StartHTTPTest(a) ==
    /\ agents[a].at = "start-http"
    /\ IF svc.running THEN Go(a, "off") /\ UNCHANGED <<svc, workers, rest>>
       ELSE Setup(a, TRUE, svc.target, TRUE)

\* The counters are reset, then the timer, the workers, the goroutine that
\* waits for them and the monitor start.  The timer will call StopTest at
\* some time; earlier tests' timers stay set.
Launch(a) ==
    LET n == budget.crew
        free == {w \in Slots : workers[w].at = "off"}
        t == agents[a].test
    IN  /\ agents[a].at = "launch"
        /\ n <= Cardinality(free)
        /\ svc' = [svc EXCEPT !.last = 0, !.final = 0, !.hasFinal = FALSE,
                              !.count = Counters, !.wg = @ + n]
        /\ truth' = [truth EXCEPT !.issued = [k \in Kinds |-> 0]]
        /\ LET new == CHOOSE s \in SUBSET free : Cardinality(s) = n
           IN workers' = [w \in Slots |->
                  IF w \in new THEN [at |-> "loop", http |-> svc.http, local |-> 0,
                                     may |-> {}]
                  ELSE workers[w]]
        /\ agents' = [agents EXCEPT ![a].at = "off", ![a].test = 0,
                                    ![<<"timer", t>>].at = "stop",
                                    ![<<"waiter", t>>].at = "wg",
                                    ![<<"monitor", t>>].at = "tick"]
        /\ UNCHANGED <<dead, budget>>

Reset(a) ==
    /\ agents[a].at = "reset"
    /\ svc' = [svc EXCEPT !.running = FALSE, !.last = 0, !.final = 0,
                          !.hasFinal = FALSE, !.count = Counters]
    /\ truth' = [truth EXCEPT !.issued = [k \in Kinds |-> 0]]
    /\ Go(a, "off")
    /\ UNCHANGED <<workers, dead, budget>>

\* StopTest cancels whatever context the service holds now ...
StopCancel(a) ==
    /\ agents[a].at = "stop"
    /\ Cardinality({b \in Agents : agents[b].at \in {"wait", "swap", "publish", "final"}})
         < MaxStops
    /\ dead' = IF svc.ctx > 0 THEN dead \union {svc.ctx} ELSE dead
    /\ Go(a, "wait")
    /\ UNCHANGED <<svc, workers, truth, budget>>

\* ... waits for the workers, at most five seconds ...
StopWait(a) ==
    /\ agents[a].at = "wait"
    /\ \/ svc.wg = 0 /\ UNCHANGED budget
       \/ svc.wg > 0 /\ Spend("late")
    /\ Go(a, "swap")
    /\ UNCHANGED <<svc, workers, dead, truth>>

\* ... takes a last snapshot: the counters are swapped out first and added to
\* the last statistics under the lock afterwards ...
SnapshotSwap(a) ==
    /\ agents[a].at \in {"swap", "tick"}
    /\ agents' = [agents EXCEPT ![a].reg = svc.count.req,
                     ![a].at = IF @ = "swap" THEN "publish" ELSE "publish-tick"]
    /\ svc' = [svc EXCEPT !.count.req = 0]
    /\ UNCHANGED <<workers, rest>>

SnapshotPublish(a) ==
    /\ agents[a].at \in {"publish", "publish-tick"}
    /\ svc' = [svc EXCEPT !.last = @ + agents[a].reg]
    /\ LET next == [agents EXCEPT ![a].reg = 0,
                       ![a].at = IF @ = "publish" THEN "final" ELSE "ticked"]
       IN agents' = IF svc.running /\ svc.hot /\ agents[Overload].at = "off"
                    THEN [next EXCEPT ![Overload].at = "stop"] ELSE next
    /\ UNCHANGED <<workers, rest>>

\* ... keeps it as the test's result and lets the next test start.
StopEnd(a) ==
    /\ agents[a].at = "final"
    /\ svc' = [svc EXCEPT !.final = svc.last, !.hasFinal = TRUE, !.running = FALSE]
    /\ agents' = [agents EXCEPT ![a].at = agents[a].then, ![a].then = "off"]
    /\ UNCHANGED <<workers, rest>>

\* The monitor of a test takes a snapshot every second and one more when its
\* context is done; above a limit of the machine it stops the test itself.
Monitor(t) ==
    LET m == <<"monitor", t>> IN
    /\ agents[m].at = "ticked"
    /\ \/ t \in dead /\ agents[m].then = "off"
          /\ agents' = [agents EXCEPT ![m].at = "tick", ![m].then = "done"]
       \/ t \notin dead /\ svc.hot /\ Calls(m, "off")
       \/ t \notin dead /\ svc.count.req > 0 /\ Go(m, "tick")
       \/ agents[m].then = "done"
          /\ agents' = [agents EXCEPT ![m].at = "off", ![m].then = "off"]
    /\ UNCHANGED <<svc, workers, rest>>

\* The goroutine that waits for the workers clears the flag and cancels the
\* context the service holds by then.
Waiter(t) ==
    LET x == <<"waiter", t>> IN
    /\ \/ agents[x].at = "wg" /\ svc.wg = 0 /\ Go(x, "woken")
          /\ UNCHANGED <<svc, dead>>
       \/ agents[x].at = "woken" /\ Go(x, "off")
          /\ svc' = [svc EXCEPT !.running = FALSE]
          /\ dead' = dead \union {svc.ctx}
    /\ UNCHANGED <<workers, truth, budget>>

\* A worker looks at the service's context, not at the one it was started
\* under, and at which of the operations it may still do.
WorkerLoop(w) ==
    LET used(k) == svc.target[k] > 0 /\ svc.count.ops[k] >= svc.target[k] IN
    /\ workers[w].at = "loop"
    /\ workers' = [workers EXCEPT
          ![w].at = IF \/ svc.ctx \in dead
                       \/ /\ ~workers[w].http
                          /\ \A k \in Kinds : used(k)
                    THEN "leave" ELSE "work",
          ![w].may = {k \in Kinds : ~workers[w].http /\ svc.conn /\ ~used(k)}]
    /\ UNCHANGED <<svc, agents, rest>>

\* An operation counts only if the total it made is within the limit.
Admitted(k, n) == svc.target[k] <= 0 \/ n <= svc.target[k]

\* One round: the operations a worker may do, and one more request.
Round(w) ==
    LET n(k) == svc.count.ops[k] + 1
        tries == workers[w].may
    IN  /\ workers[w].at = "work"
        /\ Spend("done")
        /\ workers' = [workers EXCEPT ![w].at = "turn", ![w].local = @ + 1, ![w].may = {}]
        /\ svc' = [svc EXCEPT !.count.ops =
               [k \in Kinds |-> IF k \in tries /\ svc.target[k] > 0 THEN n(k) ELSE @[k]]]
        /\ truth' = [truth EXCEPT !.done = @ + 1,
               !.issued = [k \in Kinds |->
                  IF k \in tries /\ Admitted(k, n(k)) THEN @[k] + 1 ELSE @[k]]]
        /\ UNCHANGED <<agents, dead>>

WorkerRound(w) == ~workers[w].http /\ Round(w)
HttpRound(w) == workers[w].http /\ Round(w)

\* Every so many rounds, and when it leaves, a worker adds its own counts to
\* the service's; only then is it done.
Flush(w) ==
    /\ workers[w].at \in {"turn", "leave"}
    /\ \/ workers[w].at = "turn"
          /\ workers' = [workers EXCEPT ![w].at = "loop"]
          /\ UNCHANGED svc
       \/ workers[w].at = "turn"
          /\ workers' = [workers EXCEPT ![w].at = "loop", ![w].local = 0]
          /\ svc' = [svc EXCEPT !.count.req = @ + workers[w].local]
       \/ workers[w].at = "leave"
          /\ workers' = [workers EXCEPT ![w].at = "off", ![w].local = 0]
          /\ svc' = [svc EXCEPT !.count.req = @ + workers[w].local, !.wg = @ - 1]
    /\ UNCHANGED <<agents, rest>>

\* What GetStats answers: live figures while a test runs, the result of the
\* last stopped one afterwards, nothing otherwise.
GetStats == IF svc.running THEN svc.last ELSE IF svc.hasFinal THEN svc.final ELSE 0

LoadNext ==
    \/ SystemMonitor \/ CheckConnections
    \/ \E a \in Clients :
        \/ \E action \in {"start", "start-http", "stop", "reset"} : Command(a, action)
        \/ \E target \in Targets, answers \in BOOLEAN : StartTest(a, target, answers)
        \/ StartHTTPTest(a) \/ Launch(a) \/ Reset(a)
    \/ \E t \in Tests : Monitor(t) \/ Waiter(t)
    \/ \E a \in Agents : StopCancel(a) \/ StopWait(a) \/ SnapshotSwap(a)
                         \/ SnapshotPublish(a) \/ StopEnd(a)
    \/ \E w \in Slots : WorkerLoop(w) \/ Flush(w)
                        \/ WorkerRound(w) \/ HttpRound(w)

(***************************************************************************)
(* The micro-benchmarks.  One runs at a time; what its workers share is    *)
(* the record bench, reached only through atomics.                         *)
(***************************************************************************)
Names == {"database", "database_write", "redis", "queue", "qps", "memory"}
Nobody == [name |-> "none", per |-> 0, total |-> 0, errors |-> 0, sum |-> 0,
           min |-> 0, max |-> 0, queued |-> 0, room |-> 0, stop |-> FALSE,
           crew |-> <<>>, seen |-> {}, made |-> 0]
\* More than any operation takes: minLatency starts at an hour.
Hour == Max(Latencies) + 1

PerfInit == bench = Nobody /\ plan = <<>> /\ results = <<>>

Start(name, c, n, per) ==
    /\ bench.name = "none" /\ Cardinality(DOMAIN results) < MaxResults
    /\ bench' = [Nobody EXCEPT !.name = name, !.per = per, !.min = Hour, !.room = n,
                   !.crew = [i \in 1..c |-> [at |-> "op", left |-> per, lat |-> 0,
                                            old |-> 0, err |-> FALSE]]]
    /\ UNCHANGED results

\* The work is divided: what is left over after the division is not done.
Shared(name, conc, iters) ==
    LET c == IF conc <= 0 THEN DefaultConcurrency ELSE conc
        n == IF iters <= 0 THEN DefaultIterations ELSE iters
    IN Start(name, c, n, n \div c)

RunDatabaseBenchmark(c, n) == Shared("database", c, n)
RunDatabaseWriteBenchmark(c, n) == Shared("database_write", c, n)
RunRedisBenchmark(c, n) == Shared("redis", c, n)
RunQueueBenchmark(c, n) == Shared("queue", c, n)
\* This one runs until its context is done.
RunQPSBenchmark(c) ==
    LET k == IF c <= 0 THEN DefaultConcurrency ELSE c IN Start("qps", k, 0, MaxOps)
\* No workers: the blocks are allocated and the figures stored at once.
RunMemoryBenchmark(n) ==
    /\ bench.name = "none" /\ Cardinality(DOMAIN results) < MaxResults
    /\ results' = [x \in DOMAIN results \union {"memory"} |->
           IF x = "memory"
           THEN [total |-> IF n <= 0 THEN DefaultIterations ELSE n, errors |-> 0,
                 min |-> 0, max |-> 0, avg |-> 0, rate |-> 100]
           ELSE results[x]]
    /\ UNCHANGED bench

\* All six, one after the other, the writes with a tenth of the iterations.
RunAllBenchmarks(c, n) ==
    /\ bench.name = "none" /\ plan = <<>>
    /\ plan' = <<[name |-> "database", c |-> c, n |-> n],
                 [name |-> "database_write", c |-> c, n |-> n \div 10],
                 [name |-> "redis", c |-> c, n |-> n], [name |-> "queue", c |-> c, n |-> n],
                 [name |-> "qps", c |-> c, n |-> n], [name |-> "memory", c |-> c, n |-> n]>>
    /\ UNCHANGED <<bench, results>>

Run(name, c, n) ==
    \/ name = "database" /\ RunDatabaseBenchmark(c, n)
    \/ name = "database_write" /\ RunDatabaseWriteBenchmark(c, n)
    \/ name = "redis" /\ RunRedisBenchmark(c, n)
    \/ name = "queue" /\ RunQueueBenchmark(c, n)
    \/ name = "qps" /\ RunQPSBenchmark(c)
    \/ name = "memory" /\ RunMemoryBenchmark(n)

RunNext == /\ plan # <<>> /\ plan' = Tail(plan)
           /\ Run(Head(plan).name, Head(plan).c, Head(plan).n)

\* One operation of worker i, with the time it takes and whether it fails; a
\* send to the full queue fails and, there alone, is not counted.
Operate(i, lat, fails) ==
    LET w == bench.crew[i]
        full == bench.name = "queue" /\ bench.queued >= bench.room
    IN  /\ w.at = "op" /\ w.left > 0
        /\ bench.name = "qps" => ~fails /\ ~bench.stop /\ bench.made < MaxOps
        /\ bench.name = "queue" => fails = full
        /\ bench' = [bench EXCEPT
              !.crew[i].at = "sum", !.crew[i].lat = lat, !.crew[i].err = fails,
              !.total = IF full THEN @ ELSE @ + 1,
              !.queued = IF bench.name = "queue" /\ ~full THEN @ + 1 ELSE @,
              !.made = @ + 1, !.seen = @ \union {lat}]

AddLatency(i) ==
    /\ bench.crew[i].at = "sum"
    /\ bench' = [bench EXCEPT !.crew[i].at = "min", !.sum = @ + bench.crew[i].lat]

\* mutant: the minimum is stored, not swapped in.
SwapBlindly(now, old, new) == new
\* A compare-and-swap: the value changes only if it is still the one read.
CompareAndSwap(now, old, new) == IF now = old THEN new ELSE now

\* The loops that keep minimum and maximum: read, leave if the latency says
\* nothing new, else try to swap it in and start over if another was faster.
LoadMin(i) ==
    /\ bench.crew[i].at = "min"
    /\ bench' = [bench EXCEPT !.crew[i].old = bench.min,
                   !.crew[i].at = IF bench.crew[i].lat >= bench.min THEN "max" ELSE "swapmin"]

SwapMin(i) ==
    LET w == bench.crew[i] IN
    /\ w.at = "swapmin"
    /\ bench' = [bench EXCEPT !.min = CompareAndSwap(@, w.old, w.lat),
                   !.crew[i].at = IF bench.min = w.old THEN "max" ELSE "min"]

LoadMax(i) ==
    /\ bench.crew[i].at = "max"
    /\ bench' = [bench EXCEPT !.crew[i].old = bench.max,
                   !.crew[i].at = IF bench.crew[i].lat <= bench.max THEN "err" ELSE "swapmax"]

SwapMax(i) ==
    LET w == bench.crew[i] IN
    /\ w.at = "swapmax"
    /\ bench' = [bench EXCEPT !.max = CompareAndSwap(@, w.old, w.lat),
                   !.crew[i].at = IF bench.max = w.old THEN "err" ELSE "max"]

CountError(i) ==
    /\ bench.crew[i].at = "err"
    /\ bench' = [bench EXCEPT !.crew[i].at = "op", !.crew[i].left = @ - 1,
                   !.errors = IF bench.crew[i].err THEN @ + 1 ELSE @]

Worker(i) ==
    \/ \E lat \in Latencies, fails \in BOOLEAN : Operate(i, lat, fails)
    \/ AddLatency(i) \/ LoadMin(i) \/ SwapMin(i) \/ LoadMax(i) \/ SwapMax(i)
    \/ CountError(i)

QPSTimeUp ==
    /\ bench.name = "qps" /\ ~bench.stop
    /\ bench' = [bench EXCEPT !.stop = TRUE]

\* All workers are done: the figures are worked out and stored by name.
Finish ==
    /\ bench.name # "none"
    /\ \A i \in DOMAIN bench.crew : bench.crew[i].at = "op"
                                   /\ (bench.crew[i].left = 0 \/ bench.stop)
    /\ LET t == bench.total
           r == [total |-> t, errors |-> bench.errors,
                 min |-> IF t > 0 THEN bench.min ELSE 0,
                 max |-> IF t > 0 THEN bench.max ELSE 0,
                 avg |-> IF t > 0 THEN bench.sum \div t ELSE 0,
                 rate |-> IF t = 0 THEN 0
                          ELSE IF bench.name = "qps" THEN 100
                          ELSE ((t - bench.errors) * 100) \div t]
       IN results' = [x \in DOMAIN results \union {bench.name} |->
                        IF x = bench.name THEN r ELSE results[x]]
    /\ bench' = Nobody

ClearResults ==
    /\ results # <<>>
    /\ results' = <<>>
    /\ UNCHANGED <<bench, plan>>

PerfNext ==
    \/ \E j \in Jobs :
          \/ RunAllBenchmarks(j[1], j[2])
          \/ \E name \in Names : plan = <<>> /\ Run(name, j[1], j[2]) /\ UNCHANGED plan
    \/ RunNext
    \/ \E i \in DOMAIN bench.crew : Worker(i) /\ UNCHANGED <<plan, results>>
    \/ QPSTimeUp /\ UNCHANGED <<plan, results>>
    \/ Finish /\ UNCHANGED plan
    \/ ClearResults

(***************************************************************************)
(* What is to hold.                                                        *)
(***************************************************************************)
BenchInit == LoadInit /\ PerfInit
BenchNext == (LoadNext /\ UNCHANGED perfVars) \/ (PerfNext /\ UNCHANGED loadVars)

WorkloadsTypeOK ==
    /\ svc.ctx \in 0..MaxTests /\ svc.wg \in 0..Cardinality(Slots)
    /\ svc.running \in BOOLEAN /\ dead \subseteq Tests
    /\ \A a \in Agents : agents[a].reg \in 0..truth.done
    /\ \A w \in Slots : workers[w].local \in 0..truth.done
    /\ bench.name \in Names \union {"none"} /\ bench.min \in 0..Hour
    /\ DOMAIN results \subseteq Names

\* A test limited to a number of operations does not do more of them, with
\* however many workers racing for the last one (service.go:1410, 1449: the
\* look at the total at the top of the loop does not admit an operation, the
\* atomic addition does).
TargetsKept == \A k \in Kinds : svc.target[k] > 0 => truth.issued[k] <= svc.target[k]

\* However many goroutines take a snapshot at the same time (the monitor and
\* every StopTest), no request is counted twice: what is in the statistics,
\* in the counters, swapped out or still with a worker is at most what was
\* made (service.go:500-510, 564-660).  Requests may be lost to the result.
CountedOnce ==
    svc.last + svc.count.req + FoldSet(LAMBDA a, n : n + agents[a].reg, 0, Agents)
        + FoldSet(LAMBDA w, n : n + workers[w].local, 0, Slots) <= truth.done
    /\ GetStats <= truth.done

\* A benchmark's figures agree with each other and with what its workers saw:
\* the lock-free minimum and maximum are exact, the average lies between
\* them, no more operations failed than were made
\* (performance/service.go:88-101, 126-140).
FiguresExact ==
    /\ bench.seen # {} /\ (\A i \in DOMAIN bench.crew : bench.crew[i].at = "op")
          => bench.min = Min(bench.seen) /\ bench.max = Max(bench.seen)
    /\ \A x \in DOMAIN results :
          LET r == results[x] IN r.min <= r.avg /\ r.avg <= r.max
                                 /\ r.errors <= r.total /\ r.rate \in 0..100

WorkloadsSound ==
    TargetsKept /\ CountedOnce /\ FiguresExact
=============================================================================
