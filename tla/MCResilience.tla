--------------------------- MODULE MCResilience ----------------------------
(***************************************************************************)
(* What stands between the requests and the services, for TLC: the three   *)
(* circuit breakers, the gateway, the balancers, and the discovery of      *)
(* services at Nacos.  A behaviour is a behaviour of one of them, chosen   *)
(* in the initial state; the variables of the others keep their initial    *)
(* values.                                                                 *)
(*                                                                         *)
(*   "breaker"     Breaker, called directly, Reset included                *)
(*   "gateway"     Gateway, which calls the same breaker                   *)
(*   "adaptive"    AdaptiveBreaker                                         *)
(*   "middleware"  MiddlewareBreaker                                       *)
(*   "balancer"    LoadBalance                                             *)
(*   "nacos"       NacosClient                                             *)
(*   "lists"       NacosDiscovery                                          *)
(*   "discovery"   Discovery                                               *)
(***************************************************************************)
EXTENDS Gateway, FiniteSets

CONSTANTS
    HalfOpenMaxReq, MinRequests, MaxRequests, SuccessThreshold,
    N, MaxWeight, Cycle,
    Names, MaxCalls, NoName,
    QueueSize, MaxVersion,
    Instances, Loop, CacheTime, WatchTime, MaxFetch

ASSUME ResilienceAssumption ==
    /\ RetryCount \in Nat /\ RateLimit \in Nat
    /\ HalfOpenMaxReq \in Nat /\ MaxRequests \in Nat /\ SuccessThreshold \in Nat
    /\ MaxCalls \in Nat /\ {"off", "wait"} \cap Names = {}
    /\ QueueSize \in Nat /\ MaxVersion \in Nat
    /\ IsFiniteSet(Instances)
    /\ CacheTime \in Nat /\ WatchTime \in Nat /\ MaxFetch \in Nat

(* Callers are finitely many; an instance may have a weight; any number of *)
(* instances divides the cycle of the round robin, as the counter of the   *)
(* code does not come back to 0.                                           *)
ASSUME BalancersAssumption ==
    /\ IsFiniteSet(Callers) /\ N \in Nat /\ MaxWeight \in Nat \ {0}
    /\ Cycle \in Nat \ {0} /\ \A n \in 1..N : Cycle % n = 0

VARIABLES
    kind,
    aState, aSinceChange, requests, aFailures, consecutive, timers, op,
    mState, failures, successes, mSinceFailure, request, mStreak,
    strategy, weight, up, index, currentWeights, connectionCounts, using,
    turns, chosen, mixed,
    server, registered, serviceName, owner, service, calls, stopped, removed, beat,
    version, subscribed, due, watchers, channel, queue, seen, skipped, panicked,
    healthy, cached, cacheAge, dataAge, fetched, fetchAge,
    loop, ticker, lastInstances, notified

A == INSTANCE AdaptiveBreaker WITH
        SleepWindow <- ResetTimeout,
        state <- aState, sinceChange <- aSinceChange, failures <- aFailures
M == INSTANCE MiddlewareBreaker WITH
        Requests <- Callers, FailureThreshold <- MaxFailures,
        SleepWindow <- ResetTimeout,
        state <- mState, sinceFailure <- mSinceFailure, streak <- mStreak

B == INSTANCE LoadBalance WITH Users <- Callers
Nacos == INSTANCE NacosClient WITH Loops <- Callers
OneCaller == {CHOOSE c \in Callers : TRUE}
Disc == INSTANCE Discovery WITH Callers <- OneCaller, Watchers <- Callers

adaptiveVars == <<aState, aSinceChange, requests, aFailures, consecutive, timers, op>>
middlewareVars == <<mState, failures, successes, mSinceFailure, request, mStreak>>
breakerVars == <<gatewayVars, adaptiveVars, middlewareVars>>
balancerVars == <<strategy, weight, up, index, currentWeights, connectionCounts,
                  using, turns, chosen, mixed>>
nacosVars == <<server, registered, serviceName, owner, service, calls, stopped,
               removed, beat>>
listVars == <<version, subscribed, due, watchers, channel, queue, seen, skipped,
              panicked>>
discoveryVars == <<healthy, cached, cacheAge, dataAge, fetched, fetchAge,
                   loop, ticker, lastInstances, notified>>
registryVars == <<nacosVars, listVars, discoveryVars>>
trafficVars == <<balancerVars, registryVars>>
mcVars == <<kind, breakerVars, trafficVars>>

MCInit ==
    /\ kind \in {"breaker", "gateway", "adaptive", "middleware",
                "balancer", "nacos", "lists", "discovery"}
    /\ GatewayInit /\ A!Init /\ M!Init
    /\ B!Init /\ Nacos!Init /\ Disc!ListsInit /\ Disc!Init
    /\ kind # "balancer" => strategy = "round_robin"
    /\ kind # "discovery" => healthy = {}

OnBreaker(Act) ==
    /\ kind = "breaker" /\ Act
    /\ UNCHANGED <<kind, limiterVars, requestVars, adaptiveVars, middlewareVars, trafficVars>>
OnGateway(Act) ==
    kind = "gateway" /\ Act /\ UNCHANGED <<kind, adaptiveVars, middlewareVars, trafficVars>>
OnAdaptive(Act) ==
    kind = "adaptive" /\ Act /\ UNCHANGED <<kind, gatewayVars, middlewareVars, trafficVars>>
OnMiddleware(Act) ==
    kind = "middleware" /\ Act /\ UNCHANGED <<kind, gatewayVars, adaptiveVars, trafficVars>>
OnBalancer(Act) ==
    kind = "balancer" /\ Act /\ UNCHANGED <<kind, breakerVars, registryVars>>
OnNacos(Act) ==
    kind = "nacos" /\ Act /\ UNCHANGED <<kind, breakerVars, balancerVars, listVars, discoveryVars>>
OnLists(Act) ==
    kind = "lists" /\ Act /\ UNCHANGED <<kind, breakerVars, balancerVars, nacosVars, discoveryVars>>
OnDiscovery(Act) ==
    kind = "discovery" /\ Act /\ UNCHANGED <<kind, breakerVars, balancerVars, nacosVars, listVars>>

(* A client of Nacos may stop, and so may a process after a panic. *)
MCNext ==
    \/ OnBreaker(Next)
    \/ OnGateway(GatewayNext)
    \/ OnAdaptive(A!Next)
    \/ OnMiddleware(M!Next)
    \/ OnBalancer(B!Next)
    \/ OnNacos(Nacos!Next) \/ OnLists(Disc!ListsNext) \/ OnDiscovery(Disc!Next)
    \/ kind \in {"nacos", "lists"} /\ UNCHANGED mcVars

(* The fairness of each module; an operation behind the gateway ends       *)
(* because the proxy's requests have a time-out.  Only one of them runs,   *)
(* so that fairness to a disjunction of actions of several is fairness to  *)
(* each of those actions.                                                  *)
GatewayTick == Tick /\ UNCHANGED <<limiterVars, requestVars>>

MCSpec ==
    /\ MCInit
    /\ [][MCNext]_mcVars
    /\ WF_mcVars(\/ OnBreaker(Tick) \/ OnGateway(GatewayTick)
                 \/ OnAdaptive(A!Tick) \/ OnMiddleware(M!Tick)
                 \/ OnNacos(Nacos!Owns) \/ OnDiscovery(Disc!Tick))
    /\ WF_mcVars(OnAdaptive(A!WakeOne) \/ OnDiscovery(Disc!WatchTick))
    /\ WF_mcVars(OnAdaptive(A!AutoAdjust) \/ OnDiscovery(Disc!Ends(Loop)))
    /\ \A c \in Callers :
          /\ WF_mcVars(\/ OnBreaker(Finish(c)) \/ OnGateway(Attempt(c))
                       \/ OnMiddleware(M!Proceed(c)) \/ OnNacos(Nacos!Beats(c))
                       \/ c \in OneCaller /\ OnDiscovery(Disc!Ends(c)))
          /\ SF_mcVars(\/ OnBreaker(Reject(c) \/ Admit(c)) \/ OnGateway(Refuse(c) \/ Begin(c))
                       \/ OnNacos(Nacos!StopHeartbeat(c)) \/ OnDiscovery(Disc!Asks))
          /\ SF_mcVars(\/ OnNacos(Nacos!SendHeartbeat(c, TRUE))
                       \/ OnDiscovery(Disc!Store(Loop)))

-----------------------------------------------------------------------------
(* The component that is used keeps its types, and the others stay as they *)
(* were; those of the balancers are with BalancersSound.                   *)
TypesOK ==
    /\ TypeOK /\ GatewayTypeOK /\ A!TypeOK /\ M!TypeOK
    /\ Nacos!TypeOK /\ Disc!ListsTypeOK /\ Disc!TypeOK

(* What the gateway answers fits what happened behind it (gateway.go), and *)
(* the middleware opens in time (advanced.go:13).                          *)
AnswersSound == AnswerFits /\ M!TripsInTime

(* The balancers are fair while the list stays, and remember nothing wrong *)
(* when it changes (loadbalance/balancer.go:98-155, 287-344).              *)
BalancersSound == B!TypeOK /\ B!BalancersFair

(* After Close no heartbeat brings an instance back (nacos/client.go:605), *)
(* watchers see the list as it becomes (discovery/nacos.go:256), and what  *)
(* the cache gives out is of bounded age (discovery/discovery.go:155).     *)
DestinationsSound == Nacos!GoneAfterClose /\ Disc!WatchersSound /\ Disc!StaleBounded

(* The adaptive breaker stays open for the sleep window (adaptive.go:201); *)
(* a registered instance stays so until its client closes, which ends      *)
(* (nacos/client.go:437, 605), and the listeners learn of another number   *)
(* of instances (discovery/discovery.go:268).                              *)
StatesLast ==
    A!OpenLasts /\ Nacos!StaysRegistered /\ Nacos!CloseReturns /\ Disc!ChangesNotified

(* Nobody is shut out for ever: the breaker lets requests through again,   *)
(* the adaptive one leaves Open, the middleware closes again once its      *)
(* handlers work, and the gateway answers every request it let in.         *)
RefusalsEnd == Recovers /\ A!RefusalEnds /\ M!Recovers /\ RequestsAnswered
=============================================================================
