------------------------------ MODULE Breaker ------------------------------
(***************************************************************************)
(* The circuit breaker of framework/circuit/breaker.go.                    *)
(*                                                                         *)
(* Call takes cb.mu, decides, runs the protected operation and records its *)
(* outcome before it gives the mutex back (defer Unlock), so the protected *)
(* operations are serialised by the breaker; Reset and the cleanup         *)
(* goroutine need the same mutex.                                          *)
(*                                                                         *)
(* The two time stamps are kept as ages that saturate where the code's     *)
(* comparisons no longer tell larger values apart: an age of ResetTimeout  *)
(* for stateChangeAt, one tick more than twice ResetTimeout for            *)
(* lastFailure (whose zero value is older than any age).  failureCount     *)
(* saturates at MaxFailures for the same reason.  requestCount is only     *)
(* reported by GetStats and is left out.                                   *)
(***************************************************************************)
EXTENDS Naturals

CONSTANTS
    Callers,        \* goroutines that use the breaker
    MaxFailures,    \* failures after which the breaker opens
    ResetTimeout    \* ticks the breaker stays open

ASSUME CallersAssumption == Callers # {}
ASSUME MaxFailuresAssumption == MaxFailures \in Nat \ {0}
ASSUME ResetTimeoutAssumption == ResetTimeout \in Nat \ {0}

VARIABLES
    state,          \* cb.state
    failureCount,   \* cb.failureCount, up to MaxFailures
    sinceChange,    \* age of cb.stateChangeAt, up to ResetTimeout
    sinceFailure,   \* age of cb.lastFailure, up to FailureForgotten
    mu,             \* cb.mu, held while an operation runs
    call,           \* what each caller is doing in Call
    streak          \* history: see Streak below

cbVars == <<state, failureCount, sinceChange, sinceFailure>>
vars == <<cbVars, mu, call, streak>>

(* Failures older than this are forgotten by the cleanup goroutine. *)
FailureForgotten == 2 * ResetTimeout + 1

AtMost(bound, n) == IF n < bound THEN n ELSE bound

TypeOK ==
    /\ state \in {"Closed", "Open", "HalfOpen"}
    /\ failureCount \in 0..MaxFailures
    /\ sinceChange \in 0..ResetTimeout
    /\ sinceFailure \in 0..FailureForgotten
    /\ mu \in {"free", "held"}
    /\ call \in [Callers -> {"idle", "waiting", "running"}]
    /\ streak \in 0..MaxFailures

Running == {c \in Callers : call[c] = "running"}

Init ==
    /\ state = "Closed"
    /\ failureCount = 0
    /\ sinceChange = ResetTimeout
    /\ sinceFailure = FailureForgotten
    /\ mu = "free"
    /\ call = [c \in Callers |-> "idle"]
    /\ streak = 0

-----------------------------------------------------------------------------
(* Call blocks on cb.mu.  What is done under the mutex is one atomic step,  *)
(* except for the protected operation, which starts and finishes.          *)
Invoke(c) ==
    /\ call[c] = "idle"
    /\ call' = [call EXCEPT ![c] = "waiting"]
    /\ UNCHANGED <<cbVars, mu, streak>>

TimedOut == sinceChange >= ResetTimeout

(* mutant: every refusal restarts the reset timeout *)
RejectRestartsTimeout(c) ==
    /\ call[c] = "waiting"
    /\ mu = "free"
    /\ state = "Open"
    /\ ~TimedOut
    /\ sinceChange' = 0
    /\ call' = [call EXCEPT ![c] = "idle"]
    /\ UNCHANGED <<state, failureCount, sinceFailure, mu, streak>>

(* The breaker is open and stays open: OpenCircuitError. *)
Reject(c) ==
    /\ call[c] = "waiting"
    /\ mu = "free"
    /\ state = "Open"
    /\ ~TimedOut
    /\ call' = [call EXCEPT ![c] = "idle"]
    /\ UNCHANGED <<cbVars, mu, streak>>

(* mutant: Call gives the mutex back before it runs the operation *)
AdmitUnlocked(c) ==
    /\ call[c] = "waiting"
    /\ mu = "free"
    /\ \/ /\ state = "Open" /\ TimedOut
          /\ state' = "HalfOpen"
          /\ sinceChange' = 0
       \/ /\ state \in {"HalfOpen", "Closed"}
          /\ UNCHANGED <<state, sinceChange>>
    /\ call' = [call EXCEPT ![c] = "running"]
    /\ UNCHANGED <<failureCount, sinceFailure, mu, streak>>

(* The operation starts.  tryAcquireHalfOpenPermission asks no more than   *)
(* state = HalfOpen, so it refuses nobody.                                 *)
Admit(c) ==
    /\ call[c] = "waiting"
    /\ mu = "free"
    /\ \/ /\ state = "Open" /\ TimedOut
          /\ state' = "HalfOpen"
          /\ sinceChange' = 0
       \/ /\ state \in {"HalfOpen", "Closed"}
          /\ UNCHANGED <<state, sinceChange>>
    /\ mu' = "held"
    /\ call' = [call EXCEPT ![c] = "running"]
    /\ UNCHANGED <<failureCount, sinceFailure, streak>>

(* onSuccess *)
Succeed(c) ==
    /\ call[c] = "running"
    /\ state' = "Closed"
    /\ failureCount' = 0
    /\ sinceChange' = 0
    /\ mu' = "free"
    /\ call' = [call EXCEPT ![c] = "idle"]
    /\ streak' = 0
    /\ UNCHANGED sinceFailure

(* The failures in a row, each at most two reset timeouts after the one    *)
(* before: what a caller of the breaker may expect it to have counted.     *)
Streak == AtMost(MaxFailures,
                 1 + IF sinceFailure < FailureForgotten THEN streak ELSE 0)

(* onFailure *)
Fail(c) ==
    /\ call[c] = "running"
    /\ failureCount' = AtMost(MaxFailures, failureCount + 1)
    /\ sinceFailure' = 0
    /\ IF failureCount' >= MaxFailures /\ state # "Open"
       THEN state' = "Open" /\ sinceChange' = 0
       ELSE UNCHANGED <<state, sinceChange>>
    /\ mu' = "free"
    /\ call' = [call EXCEPT ![c] = "idle"]
    /\ streak' = Streak

(* The operation panics: the deferred Unlock runs and nothing is recorded. *)
Panic(c) ==
    /\ call[c] = "running"
    /\ mu' = "free"
    /\ call' = [call EXCEPT ![c] = "idle"]
    /\ UNCHANGED <<cbVars, streak>>

Reset ==
    /\ mu = "free"
    /\ state' = "Closed"
    /\ failureCount' = 0
    /\ sinceChange' = 0
    /\ sinceFailure' = FailureForgotten
    /\ streak' = 0
    /\ UNCHANGED <<mu, call>>

(* mutant: the age of the last failure is not looked at *)
CleanupAlways ==
    /\ mu = "free"
    /\ failureCount' = 0
    /\ UNCHANGED <<state, sinceChange, sinceFailure, mu, call, streak>>

(* One round of cleanupPeriodically. *)
Cleanup ==
    /\ mu = "free"
    /\ sinceFailure > 2 * ResetTimeout
    /\ failureCount' = 0
    /\ UNCHANGED <<state, sinceChange, sinceFailure, mu, call, streak>>

Tick ==
    /\ sinceChange' = AtMost(ResetTimeout, sinceChange + 1)
    /\ sinceFailure' = AtMost(FailureForgotten, sinceFailure + 1)
    /\ UNCHANGED <<state, failureCount, mu, call, streak>>

Finish(c) == Succeed(c) \/ Fail(c) \/ Panic(c)

Next ==
    \/ \E c \in Callers :
          Invoke(c) \/ Reject(c) \/ Admit(c) \/ Succeed(c) \/ Fail(c) \/ Panic(c)
    \/ Reset
    \/ Cleanup
    \/ Tick

Spec == Init /\ [][Next]_vars

(* The clock advances, an operation returns (the gateway's proxy has a     *)
(* time-out) and sync.Mutex is not handed over unfairly for ever (after    *)
(* 1 ms of waiting it is given to the longest waiter).                     *)
Fairness ==
    /\ WF_vars(Tick)
    /\ \A c \in Callers : WF_vars(Finish(c)) /\ SF_vars(Reject(c) \/ Admit(c))

FairSpec == Spec /\ Fairness

-----------------------------------------------------------------------------
(* A closed breaker has seen fewer than MaxFailures failures in a row: the *)
(* cleanup goroutine, which zeroes failureCount behind the callers' back,  *)
(* never makes it overlook an outage.                                      *)
TripsOnOutage == state = "Closed" => streak < MaxFailures

(* Only one protected operation runs at a time, whatever the number of     *)
(* callers (and so a slow operation delays every caller).                  *)
Serialised == \A c, d \in Running : c = d

(* While the breaker is open and the reset timeout has not passed, the     *)
(* failing service is left alone: no operation is running and none starts. *)
ShedsLoad ==
    [][state = "Open" /\ sinceChange < ResetTimeout
        => Running = {} /\ Running' = {}]_vars

(* Once the service works again (no operation fails or panics any more)    *)
(* and is still being called, the breaker closes and stays closed.         *)
Recovers ==
    /\ []<>(\E c \in Callers : call[c] = "waiting")
    /\ <>[][\A c \in Callers : ~Fail(c) /\ ~Panic(c)]_vars
    => <>[](state = "Closed")

=============================================================================
