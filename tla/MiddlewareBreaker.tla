------------------------- MODULE MiddlewareBreaker --------------------------
(***************************************************************************)
(* The CircuitBreaker middleware of framework/middleware/advanced.go.  A   *)
(* request reads the state under a read lock, decides after it has given   *)
(* the lock back, runs the handler without a lock and records the outcome. *)
(* A handler that is not done in time is a failure; what it does later     *)
(* reaches the breaker no more (done is buffered and nobody reads it).     *)
(* A time stamp is kept as its age, up to SleepWindow + 1.                 *)
(***************************************************************************)
EXTENDS Naturals

CONSTANTS
    Requests,           \* requests at a time
    FailureThreshold,
    SuccessThreshold,
    SleepWindow         \* ticks

VARIABLES
    state,
    failures,           \* up to FailureThreshold
    successes,
    sinceFailure,       \* age of lastFailure
    request,            \* what each request is doing
    streak              \* history: failures recorded in a row

breakerVars == <<state, failures, successes, sinceFailure>>
vars == <<breakerVars, request, streak>>

AtMost(bound, n) == IF n < bound THEN n ELSE bound

TypeOK ==
    /\ state \in {"closed", "open", "half-open"}
    /\ failures \in 0..FailureThreshold
    /\ successes \in 0..SuccessThreshold
    /\ sinceFailure \in 0..SleepWindow + 1
    /\ request \in [Requests -> {"none", "sawOpen", "promoting", "running"}]
    /\ streak \in 0..FailureThreshold

Init ==
    /\ state = "closed"
    /\ failures = 0
    /\ successes = 0
    /\ sinceFailure = SleepWindow + 1
    /\ request = [r \in Requests |-> "none"]
    /\ streak = 0

-----------------------------------------------------------------------------
Move(r, to) == request' = [request EXCEPT ![r] = to]

(* The request reads the state. *)
ReadState(r) ==
    /\ request[r] = "none"
    /\ Move(r, IF state = "open" THEN "sawOpen" ELSE "running")
    /\ UNCHANGED <<breakerVars, streak>>

(* It saw the breaker open: 503, or the sleep window has passed. *)
Refuse(r) ==
    /\ request[r] = "sawOpen"
    /\ sinceFailure <= SleepWindow
    /\ Move(r, "none")
    /\ UNCHANGED <<breakerVars, streak>>

SleptEnough(r) ==
    /\ request[r] = "sawOpen"
    /\ sinceFailure > SleepWindow
    /\ Move(r, "promoting")
    /\ UNCHANGED <<breakerVars, streak>>

(* state = "half-open", whatever the state is by now. *)
Promote(r) ==
    /\ request[r] = "promoting"
    /\ state' = "half-open"
    /\ Move(r, "running")
    /\ UNCHANGED <<failures, successes, sinceFailure, streak>>

(* A failure counts, and at the threshold the breaker opens. *)
CountFailure ==
    /\ failures' = AtMost(FailureThreshold, failures + 1)
    /\ streak' = AtMost(FailureThreshold, streak + 1)
    /\ IF failures' >= FailureThreshold
       THEN state' = "open" /\ sinceFailure' = 0
       ELSE UNCHANGED <<state, sinceFailure>>

(* The handler has answered 5xx. *)
Fail(r) ==
    /\ request[r] = "running"
    /\ CountFailure
    /\ successes' = 0
    /\ Move(r, "none")

(* The handler is not done in time; successes keeps its value. *)
TimeOut(r) ==
    /\ request[r] = "running"
    /\ CountFailure
    /\ Move(r, "none")
    /\ UNCHANGED successes

(* A success in the half-open state: the breaker closes at the threshold. *)
CountSuccess ==
    /\ state = "half-open"
    /\ IF successes + 1 >= SuccessThreshold
       THEN state' = "closed" /\ failures' = 0 /\ successes' = 0
       ELSE successes' = successes + 1 /\ UNCHANGED <<state, failures>>

Succeed(r) ==
    /\ request[r] = "running"
    /\ \/ CountSuccess
       \/ state # "half-open" /\ failures' = 0 /\ successes' = 0 /\ UNCHANGED state
    /\ streak' = 0
    /\ Move(r, "none")
    /\ UNCHANGED sinceFailure

Tick ==
    /\ sinceFailure' = AtMost(SleepWindow + 1, sinceFailure + 1)
    /\ UNCHANGED <<state, failures, successes, request, streak>>

Finish(r) == Fail(r) \/ TimeOut(r) \/ Succeed(r)
Proceed(r) == Refuse(r) \/ SleptEnough(r) \/ Promote(r) \/ Finish(r)

Next ==
    \/ \E r \in Requests :
          ReadState(r) \/ Refuse(r) \/ SleptEnough(r) \/ Promote(r) \/ Finish(r)
    \/ Tick

Spec == Init /\ [][Next]_vars

(* Time passes, and a request goes on: its handler has a time-out. *)
Fairness == WF_vars(Tick) /\ \A r \in Requests : WF_vars(Proceed(r))

-----------------------------------------------------------------------------
(* advanced.go:13: a closed breaker has not recorded FailureThreshold      *)
(* failures in a row, whatever requests that were admitted in other states *)
(* record in between.                                                      *)
TripsInTime == state = "closed" => streak < FailureThreshold

(* Once no request fails any more and requests keep coming, the breaker    *)
(* closes and stays closed.                                                *)
Recovers ==
    /\ []<>(\E r \in Requests : request[r] # "none")
    /\ <>[][\A r \in Requests : ~Fail(r) /\ ~TimeOut(r)]_vars
    => <>[](state = "closed")

=============================================================================
