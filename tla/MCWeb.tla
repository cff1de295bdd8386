-------------------------------- MODULE MCWeb --------------------------------
(***************************************************************************)
(* The web side of the framework, for TLC: the chain of handlers of        *)
(* MiddlewareChain, what its guards decide by (Guards), the tables of      *)
(* Routes, the life of the process and of its configuration                *)
(* (AppLifecycle), and the two services that load the system (Benchmark).  *)
(* A guard's decision is a free choice in the chain, and a route is any of *)
(* a set there; so the parts share no state, and a behaviour is a          *)
(* behaviour of one of them, chosen in the initial state.                  *)
(***************************************************************************)
EXTENDS Integers, Sequences, FiniteSets

CONSTANTS
    Parts,          \* the parts a configuration is about
    Requests, Contexts, Chains, MaxRetries, MaxActive, MaxLate,
    Callers, Ips, Limiters, Limit, Window, Tokens, Ids, Visits, Keep, Rate, Life, MaxTime, MaxMade, MaxSessions,
    Methods, Patterns, Paths, Fit, Rules, MaxRoutes,
    Ports, Keys, Values, MaxRounds, MaxCalls, MaxVersions,
    Slots, Budgets, Targets, Jobs, MaxTests, MaxStops, Latencies, DefaultConcurrency, DefaultIterations, MaxOps, MaxResults

(* Times and sizes are numbers; a limiter lets something in; addresses are  *)
(* finitely many.                                                           *)
ASSUME WebAssumption ==
    /\ Keep \in Nat /\ Rate \in Nat \ {0} /\ Life \in Nat \ {0} /\ MaxTime \in Nat \ {0}
    /\ MaxMade \in Nat /\ MaxSessions \in Nat
    /\ IsFiniteSet(Ips)
    /\ Limit \in [Limiters -> Nat \ {0}] /\ Window \in [Limiters -> Nat]
    /\ {"http", "grpc"} \subseteq Ports /\ "none" \notin Ports
    /\ MaxRounds \in Nat \ {0} /\ MaxCalls \in Nat /\ MaxVersions \in Nat \ {0}

VARIABLES
    part,
    up, context, stack, answer, trace,
    history, buckets, jwt, sessions, browser,
    uses, added, cache, radix, trie,
    app, open, port, grpc, calls, center,
    svc, agents, workers, dead, truth, budget, bench, plan, results

-----------------------------------------------------------------------------
(* Chains of handlers.  The first request meets every middleware, the       *)
(* second a short chain, which may be given the Context the first has left. *)
MCChains ==
    LET first == CHOOSE r \in Requests : TRUE IN
    [r \in Requests |->
        IF r = first
        THEN {<<"logger", "guard", "breaker", "apperror", "handler">>,
              <<"recovery+abort", "pass", "guard", "handler">>,
              <<"recovery", "timeout", "guard", "handler">>,
              <<"retry", "fallback", "handler">>}
        ELSE {<<"recovery", "guard", "handler">>}]
Chain == INSTANCE MiddlewareChain WITH Routes <- Chains

(* A chain is short enough for Abort to leave it, and only its last handler *)
(* is the action of the route.                                              *)
ASSUME ChainsAssumption ==
    /\ MaxRetries \in Nat /\ Chain!Nobody \notin Requests
    /\ \A r \in Requests : \A chain \in Chains[r] :
        /\ chain \in Seq(STRING) /\ Len(chain) < Chain!AbortIndex
        /\ \A i \in 1..Len(chain) : chain[i] = "handler" => i = Len(chain)

(* Two limiters, one with the shorter window and the higher limit.          *)
MCLimit == [l1 |-> 1, l2 |-> 2]
MCWindow == [l1 |-> 3, l2 |-> 2]
MCVisits ==
    [internal : BOOLEAN, method : {"GET", "POST", "OPTIONS"}, origin : {"none", "allowed", "other"},
     ip : {"white", "other"}, threat : {"none", "query", "form"}, echo : {"none", "own", "other"},
     big : BOOLEAN, signed : {"late", "good"}]
Guard == INSTANCE Guards

(* Patterns that share a segment, name it differently, or end in a wildcard. *)
A == [kind |-> "static", name |-> "a"]
B == [kind |-> "static", name |-> "b"]
Param(n) == [kind |-> "param", name |-> n]
Rest(n) == [kind |-> "any", name |-> n]
MCPatterns == {<<A>>, <<A, B>>, <<A, Param("x")>>, <<Param("x")>>, <<Param("y"), B>>, <<Param("y"), Param("x")>>,
               <<A, Rest("w")>>, <<Rest("v")>>}
MCPaths == {<<x>> : x \in {"a", "b"}} \cup ({"a", "b"} \X {"a", "b"}) \cup {<<"a", "b", "a">>}
Table == INSTANCE Routes

Life1 == INSTANCE AppLifecycle

(* Tests of two workers that a limit of the machine may stop, or that       *)
(* outlive the wait of a stop; two tests of a worker each, one after the    *)
(* other; and two clients who start one at the same time.                   *)
Bounds(tests, crew, done, late, signs, clients) ==
    [tests |-> tests, crew |-> crew, done |-> done, late |-> late, signs |-> signs,
     commands |-> 2, clients |-> clients]
MCBudgets == {Bounds(1, 2, 1, 0, 1, 1), Bounds(1, 2, 2, 1, 0, 1), Bounds(2, 1, 1, 0, 0, 1), Bounds(1, 1, 1, 0, 0, 2)}
MCTargets == {[db |-> 1, mq |-> 1]}
MCJobs == {<<0, 0>>, <<2, 1>>, <<1, 3>>}
Load == INSTANCE Benchmark

-----------------------------------------------------------------------------
chainVars == <<up, context, stack, answer, trace>>
guardVars == <<history, buckets, jwt, sessions, browser>>
routeVars == <<uses, added, cache, radix, trie>>
appVars == <<app, open, port, grpc, calls>>
loadVars == <<svc, agents, workers, dead, truth, budget>>
perfVars == <<bench, plan, results>>
mcVars == <<part, chainVars, guardVars, routeVars, appVars, center, loadVars, perfVars>>

(* The parts that are not chosen stay in one of their initial states.       *)
MCInit ==
    /\ part \in Parts
    /\ Chain!ChainInit /\ Guard!GuardsInit /\ Table!RoutesInit /\ Life1!LifeInit /\ Load!BenchInit
    /\ part # "app" => \A p \in Ports : port[p] = "free"
    /\ part # "load" => budget.signs = 1

OnChain(N) == part = "chain" /\ N /\ UNCHANGED <<part, guardVars, routeVars, appVars, center, loadVars, perfVars>>
OnGuard(p, N, others) ==
    part = p /\ N /\ UNCHANGED <<part, chainVars, others, routeVars, appVars, center, loadVars, perfVars>>
OnRoutes(N) == part = "routes" /\ N /\ UNCHANGED <<part, chainVars, guardVars, appVars, center, loadVars, perfVars>>
OnLife(p, N) == part = p /\ N /\ UNCHANGED <<part, chainVars, guardVars, routeVars, loadVars, perfVars>>
OnLoad(p, N, others) ==
    part = p /\ N /\ UNCHANGED <<part, chainVars, guardVars, routeVars, appVars, center, others>>

MCNext ==
    \/ OnChain(Chain!ChainNext)
    \/ OnGuard("history", Guard!HistoryNext, <<buckets, jwt, sessions, browser>>)
    \/ OnGuard("buckets", Guard!BucketsNext, <<history, jwt, sessions, browser>>)
    \/ OnGuard("jwt", Guard!JwtNext, <<history, buckets, sessions, browser>>)
    \/ OnGuard("sessions", Guard!SessionsNext, <<history, buckets, jwt, browser>>)
    \/ OnGuard("browser", Guard!BrowserNext, <<history, buckets, jwt, sessions>>)
    \/ OnRoutes(Table!RoutesNext)
    \/ OnLife("app", Life1!AppNext) \/ OnLife("center", Life1!CenterNext)
    \/ OnLoad("load", Load!LoadNext, perfVars) \/ OnLoad("perf", Load!PerfNext, loadVars)

MCSpec == MCInit /\ [][MCNext]_mcVars

-----------------------------------------------------------------------------
(* context.go:83-97, router.go:153-182: a guard that rejects a request      *)
(* keeps it from what comes behind, no handler runs twice, a request that   *)
(* nothing disturbed gets one body, and only a goroutine that was late      *)
(* touches the Context of another request.                                  *)
ChainSound == part = "chain" => Chain!ChainTypeOK /\ Chain!ChainSound

(* middleware.go, jwt.go, rate_limiter.go, session_manager.go: the shortest *)
(* window lets no more in than its limit, an address is banned only for     *)
(* what several limiters let in, it has one bucket, a revoked token and a   *)
(* session that was logged out stay so, and a page carries a CSRF token.    *)
GuardsSound ==
    /\ part \in {"history", "buckets", "jwt", "sessions", "browser"} => Guard!GuardsTypeOK
    /\ part \in {"history", "buckets"} => Guard!LimitsKept
    /\ part = "jwt" => Guard!RevokedRefused
    /\ part = "sessions" => Guard!LoggedOutGone
    /\ part = "browser" => Guard!ChecksAgree

(* radixtree.go:50-181, trie_router.go:41-159: what either table finds fits *)
(* the path and is the newest of its kind, and what it misses is missed for *)
(* a reason the table has; parameters and rules belong to what was found.   *)
RoutesSound == part = "routes" => Table!RoutesSound

(* app.go:589-642, config: the database is closed under no request, hooks   *)
(* run once and in order, and no client of the configuration centre keeps   *)
(* or tells what was never published.                                       *)
LifeSound == part \in {"app", "center"} => Life1!LifeTypeOK /\ Life1!LifeSound

(* benchmark/service.go, performance/service.go: a test with a target does  *)
(* not exceed it, no request is counted twice, and the figures of the       *)
(* micro-benchmarks agree with what their workers measured.                 *)
WorkloadsSound == part \in {"load", "perf"} => Load!WorkloadsTypeOK /\ Load!WorkloadsSound

(* advanced.go:65: a request that the open breaker refuses is not handled.  *)
RefusedNotHandled == Chain!RefusedNotHandled

(* app.go:106, 590: when the process is gone everything was closed, in      *)
(* order, and the hooks of the end have run.                                *)
AllClosed == Life1!AllClosed
=============================================================================
