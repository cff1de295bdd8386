------------------------------ MODULE Gateway ------------------------------
(***************************************************************************)
(* The gateway of framework/gateway/gateway.go: the token bucket of        *)
(* framework/middleware/rate_limiter.go in front of the circuit breaker,   *)
(* whose protected operation tries the backend RetryCount + 1 times.       *)
(* Whether a refused or failed request is answered by the fallback or with *)
(* 503 is not told apart ("degraded").                                     *)
(***************************************************************************)
EXTENDS Breaker

CONSTANTS
    RetryCount,     \* GatewayConfig.RetryCount
    RateLimit       \* GatewayConfig.RateLimit, the capacity of the bucket

VARIABLES
    tokens,         \* len(limiter.tokens)
    filling,        \* the refill goroutine is in its loop
    tried,          \* attempts made for each caller's request
    answer          \* what each caller's last request was answered with

limiterVars == <<tokens, filling>>
requestVars == <<tried, answer>>
gatewayVars == <<vars, limiterVars, requestVars>>

GatewayTypeOK ==
    /\ tokens \in 0..RateLimit
    /\ filling \in {"no", "yes"}
    /\ tried \in [Callers -> 0..RetryCount + 1]
    /\ answer \in [Callers -> {"none", "served", "degraded", "limited", "aborted"}]

GatewayInit ==
    /\ Init
    /\ tokens = RateLimit
    /\ filling = "no"
    /\ tried = [c \in Callers |-> 0]
    /\ answer = [c \in Callers |-> "none"]

-----------------------------------------------------------------------------
Answer(c, a) == answer' = [answer EXCEPT ![c] = a]
Attempted(c) == tried' = [tried EXCEPT ![c] = @ + 1]

(* ServeHTTP: a token is taken, or the answer is 429. *)
Pass(c) ==
    /\ tokens > 0
    /\ tokens' = tokens - 1
    /\ Invoke(c)
    /\ tried' = [tried EXCEPT ![c] = 0]
    /\ Answer(c, "none")
    /\ UNCHANGED filling

Limited(c) ==
    /\ call[c] = "idle"
    /\ tokens = 0
    /\ tried' = [tried EXCEPT ![c] = 0]
    /\ Answer(c, "limited")
    /\ UNCHANGED <<vars, limiterVars>>

(* The breaker is open: fallback or 503. *)
Refuse(c) ==
    /\ Reject(c)
    /\ Answer(c, "degraded")
    /\ UNCHANGED <<limiterVars, tried>>

Begin(c) == Admit(c) /\ UNCHANGED <<limiterVars, requestVars>>

(* mutant: the retry loop stops one attempt short *)
IsLastEarly(c) == tried[c] + 1 >= RetryCount

(* i < gw.retryCount does not hold any more: the last attempt. *)
IsLast(c) == tried[c] = RetryCount

(* The backend answers 5xx or not at all, and there is a retry left. *)
TryFails(c) ==
    /\ call[c] = "running"
    /\ ~IsLast(c)
    /\ Attempted(c)
    /\ UNCHANGED <<vars, limiterVars, answer>>

Exhausted(c) ==
    /\ IsLast(c)
    /\ Fail(c)
    /\ Attempted(c)
    /\ Answer(c, "degraded")
    /\ UNCHANGED limiterVars

Served(c) ==
    /\ Succeed(c)
    /\ Attempted(c)
    /\ Answer(c, "served")
    /\ UNCHANGED limiterVars

(* The backend breaks off in the body: the reverse proxy panics with       *)
(* ErrAbortHandler, and the breaker records neither outcome.               *)
Aborted(c) ==
    /\ Panic(c)
    /\ Attempted(c)
    /\ Answer(c, "aborted")
    /\ UNCHANGED limiterVars

(* The refill goroutine's ticker fires; the loop adds one token at a time, *)
(* while requests go on taking them, until the bucket is full.             *)
BeginRefill ==
    /\ filling = "no"
    /\ filling' = "yes"
    /\ UNCHANGED <<vars, requestVars, tokens>>

(* mutant: the goroutine does not stop at the capacity *)
RefillPastCapacity ==
    /\ filling = "yes"
    /\ \/ tokens' = tokens + 1 /\ UNCHANGED filling
       \/ filling' = "no" /\ UNCHANGED tokens
    /\ UNCHANGED <<vars, requestVars>>

Refill ==
    /\ filling = "yes"
    /\ IF tokens < RateLimit
       THEN tokens' = tokens + 1 /\ UNCHANGED filling
       ELSE filling' = "no" /\ UNCHANGED tokens
    /\ UNCHANGED <<vars, requestVars>>

Attempt(c) == TryFails(c) \/ Exhausted(c) \/ Served(c) \/ Aborted(c)

GatewayNext ==
    \/ \E c \in Callers :
          Pass(c) \/ Limited(c) \/ Refuse(c) \/ Begin(c) \/ Attempt(c)
    \/ BeginRefill \/ Refill
    \/ (Cleanup \/ Tick) /\ UNCHANGED <<limiterVars, requestVars>>

GatewaySpec == GatewayInit /\ [][GatewayNext]_gatewayVars

-----------------------------------------------------------------------------
(* A request that the backend was asked about is only given up after all   *)
(* RetryCount + 1 attempts; one refused by the breaker or the limiter cost *)
(* the backend nothing; one that is served cost at most RetryCount + 1.    *)
AnswerFits ==
    \A c \in Callers : call[c] = "idle" =>
        /\ answer[c] = "degraded" => tried[c] \in {0, RetryCount + 1}
        /\ answer[c] = "limited" => tried[c] = 0
        /\ answer[c] \in {"served", "aborted"} => tried[c] \in 1..RetryCount + 1
        /\ answer[c] = "none" => tried[c] = 0

(* A request that was let through by the limiter is answered, whatever the *)
(* others' attempts and their delays, all made under the breaker's mutex.  *)
RequestsAnswered == \A c \in Callers : call[c] # "idle" ~> call[c] = "idle"
=============================================================================
