-------------------------- MODULE AdaptiveBreaker ---------------------------
(***************************************************************************)
(* The adaptive circuit breaker of framework/circuit/adaptive.go: Allow,   *)
(* MarkSuccess, MarkFailure, the goroutine changeState starts when the     *)
(* breaker opens, and autoAdjust.  Do calls Allow, runs the operation      *)
(* without the lock and marks its outcome; a slow success is a failure.    *)
(* maxRT only decides which operations are slow and is left out, and so    *)
(* are the callbacks.                                                      *)
(*                                                                         *)
(* totalRequests and totalFailures are reset by autoAdjust; MaxRequests    *)
(* bounds the operations between two resets.  consecutiveFailures          *)
(* saturates at the larger of the two limits it is compared with.          *)
(***************************************************************************)
EXTENDS Naturals, Sequences

CONSTANTS
    Callers,
    MaxFailures,    \* cb.maxFailures
    HalfOpenMaxReq, \* cb.halfOpenMaxReq
    MinRequests,    \* the 10 requests of shouldTrip
    SleepWindow,    \* cb.sleepWindow in ticks
    MaxRequests     \* bound: operations in one statistics window

VARIABLES
    state,
    sinceChange,    \* age of cb.lastChange, up to SleepWindow + 1
    requests,       \* cb.totalRequests
    failures,       \* cb.totalFailures
    consecutive,    \* cb.consecutiveFailures
    timers,         \* what is left of the sleep of each goroutine of changeState
    op              \* what each caller of Do is doing

statVars == <<requests, failures, consecutive>>
stateVars == <<state, sinceChange, timers>>
vars == <<stateVars, statVars, op>>

AtMost(bound, n) == IF n < bound THEN n ELSE bound
Most == IF MaxFailures > HalfOpenMaxReq THEN MaxFailures ELSE HalfOpenMaxReq

TypeOK ==
    /\ state \in {"Closed", "Open", "HalfOpen"}
    /\ sinceChange \in 0..SleepWindow + 1
    /\ requests \in 0..MaxRequests
    /\ failures \in 0..requests
    /\ consecutive \in 0..Most
    /\ timers \in Seq(0..SleepWindow)
    /\ op \in [Callers -> {"idle", "running"}]

Init ==
    /\ state = "Closed"
    /\ sinceChange = 0
    /\ requests = 0
    /\ failures = 0
    /\ consecutive = 0
    /\ timers = <<>>
    /\ op = [c \in Callers |-> "idle"]

-----------------------------------------------------------------------------
(* More than half of the requests of this window failed. *)
MostFail == 2 * failures > requests

(* Allow *)
Allowed ==
    \/ state = "Open" /\ sinceChange > SleepWindow
    \/ state = "HalfOpen" /\ consecutive < HalfOpenMaxReq
    \/ state = "Closed" /\ ~(requests > 0 /\ MostFail)

Begin(c) ==
    /\ op[c] = "idle"
    /\ Allowed
    /\ op' = [op EXCEPT ![c] = "running"]
    /\ UNCHANGED <<stateVars, statVars>>

(* mutant: changeState does not look at the old state *)
ChangeStateAgain(new) ==
    /\ state' = new
    /\ sinceChange' = 0
    /\ timers' = IF new = "Open" THEN Append(timers, SleepWindow) ELSE timers

(* changeState *)
ChangeState(new) ==
    IF state = new
    THEN UNCHANGED stateVars
    ELSE /\ state' = new
         /\ sinceChange' = 0
         /\ timers' = IF new = "Open" THEN Append(timers, SleepWindow) ELSE timers

Done(c) ==
    /\ op[c] = "running"
    /\ op' = [op EXCEPT ![c] = "idle"]
    /\ requests < MaxRequests
    /\ requests' = requests + 1

MarkSuccess(c) ==
    /\ Done(c)
    /\ consecutive' = 0
    /\ IF state = "HalfOpen" THEN ChangeState("Closed") ELSE UNCHANGED stateVars
    /\ UNCHANGED failures

(* shouldTrip, with the counters MarkFailure has just increased. *)
ShouldTrip ==
    \/ consecutive' >= MaxFailures
    \/ requests' >= MinRequests /\ 2 * failures' > requests'

MarkFailure(c) ==
    /\ Done(c)
    /\ failures' = failures + 1
    /\ consecutive' = AtMost(Most, consecutive + 1)
    /\ IF ShouldTrip THEN ChangeState("Open") ELSE UNCHANGED stateVars

(* The goroutine started by changeState wakes up. *)
Wake(i) ==
    /\ timers[i] = 0
    /\ timers' = SubSeq(timers, 1, i - 1) \o SubSeq(timers, i + 1, Len(timers))
    /\ IF state = "Open"
       THEN state' = "HalfOpen" /\ sinceChange' = 0
       ELSE UNCHANGED <<state, sinceChange>>
    /\ UNCHANGED <<statVars, op>>

(* autoAdjust *)
AutoAdjust ==
    /\ requests' = 0
    /\ failures' = 0
    /\ UNCHANGED <<stateVars, consecutive, op>>

Tick ==
    /\ sinceChange' = AtMost(SleepWindow + 1, sinceChange + 1)
    /\ timers' = [i \in DOMAIN timers |-> IF timers[i] > 0 THEN timers[i] - 1 ELSE 0]
    /\ UNCHANGED <<state, statVars, op>>

WakeOne == \E i \in DOMAIN timers : Wake(i)

Next ==
    \/ \E c \in Callers : Begin(c) \/ MarkSuccess(c) \/ MarkFailure(c)
    \/ WakeOne
    \/ AutoAdjust
    \/ Tick

Spec == Init /\ [][Next]_vars

(* Time passes, sleeping goroutines wake up, the ticker of autoAdjust fires. *)
Fairness == WF_vars(Tick) /\ WF_vars(WakeOne) /\ WF_vars(AutoAdjust)

-----------------------------------------------------------------------------
(* Whatever results arrive while the breaker is open, of operations that   *)
(* started before it opened too, it stays open for the whole sleep window, *)
(* leaves it only to the half-open state, and never twice: no goroutine of *)
(* an earlier opening is left over to end a later one early.               *)
OpenLasts ==
    [][/\ state = "Open" /\ state' # "Open"
            => state' = "HalfOpen" /\ sinceChange >= SleepWindow
       /\ state = "Closed" /\ state' # "Closed" => state' = "Open"
       /\ Len(timers') = IF state' = "Open" THEN 1 ELSE 0]_vars

(* An open breaker goes half-open, and a closed one that refuses because   *)
(* most requests of the window failed lets requests through again.         *)
RefusalEnds ==
    /\ state = "Open" ~> state = "HalfOpen"
    /\ state = "Closed" /\ ~Allowed ~> Allowed \/ state = "Open"
=============================================================================
