--------------------------- MODULE MiddlewareChain ---------------------------
(***************************************************************************)
(* How framework/mvc runs the handlers of a request.  The Context of a     *)
(* request comes from a pool and holds the chain and an index into it;     *)
(* Next moves the index on and calls what it finds, in a loop, so that a   *)
(* middleware that returns without a call of Next lets the chain go on,    *)
(* unless it has called Abort.  The middlewares of framework/middleware    *)
(* are here by what they do with Next, Abort, the answer and goroutines;   *)
(* what a guard decides by is in module Guards.                            *)
(*                                                                         *)
(* Timeout and CircuitBreaker run the rest of the chain in a goroutine, on *)
(* the same Context, and go on without it when it is late.                 *)
(***************************************************************************)
EXTENDS Integers, Sequences, FiniteSets, FiniteSetsExt

CONSTANTS
    Requests, Contexts,
    Routes,         \* the chains of handlers a request may be routed to
    MaxRetries,
    MaxActive,      \* bound: requests that ServeHTTP works on at a time
    MaxLate         \* bound: requests that time out

VARIABLES
    up,             \* the process runs
    context,        \* of the pool: whose it is, and its fields
    stack,          \* of the goroutines <<request, "main">> and <<request, "child">>
    answer,         \* what was written for each request
    trace           \* history of each request

chainVars == <<up, context, stack, answer, trace>>

Threads == Requests \X {"main", "child"}
Request(t) == t[1]
Main(t) == t[2] = "main"
Child(t) == <<t[1], "child">>
AbortIndex == 16383
Nobody == "nobody"

Unused == [owner |-> Nobody, busy |-> FALSE, chain |-> <<>>, index |-> 0, wrapped |-> FALSE, error |-> FALSE]
NoTrace == [begun |-> FALSE, at |-> Nobody, chain |-> <<>>, ran |-> <<>>, passed |-> {}, panicked |-> FALSE, late |-> FALSE,
            refused |-> FALSE, failed |-> FALSE, foreign |-> FALSE, sent |-> FALSE]

ChainInit ==
    /\ up = TRUE
    /\ context = [c \in Contexts |-> Unused]
    /\ stack = [t \in Threads |-> <<>>]
    /\ answer = [r \in Requests |-> <<>>]
    /\ trace = [r \in Requests |-> NoTrace]

-----------------------------------------------------------------------------
(* ServeHTTP takes a Context that nobody uses, resets it and calls Next.    *)

Loop == [call |-> FALSE, at |-> 0, kind |-> "loop", pc |-> "loop", tries |-> 0]
Call(i, kind) == [call |-> TRUE, at |-> i, kind |-> kind, pc |-> "start", tries |-> 0]

ServeHTTP(r, c, chain) ==
    /\ up /\ ~trace[r].begun
    /\ Cardinality({s \in Requests : trace[s].begun /\ ~trace[s].sent}) < MaxActive
    /\ ~context[c].busy
    /\ context' = [context EXCEPT ![c] = [Unused EXCEPT !.owner = r, !.busy = TRUE, !.chain = chain, !.index = 1]]
    /\ stack' = [stack EXCEPT ![<<r, "main">>] = <<Loop>>]
    /\ trace' = [trace EXCEPT ![r].begun = TRUE, ![r].at = c, ![r].chain = chain,
                              ![r].ran = [i \in 1..Len(chain) |-> 0]]
    /\ UNCHANGED <<up, answer>>

(* A goroutine works on the Context its request was given, which may be     *)
(* another's by now.                                                        *)
At(t) == trace[Request(t)].at
Here(t) == context[At(t)]
Owner(t) == Here(t).owner
Top(t) == stack[t][Len(stack[t])]
Runs(t) == up /\ stack[t] # <<>>
In(t, kinds, pc) == Runs(t) /\ Top(t).pc = pc /\ Top(t).kind \in kinds

Pop(t) == [stack EXCEPT ![t] = SubSeq(@, 1, Len(@) - 1)]
At1(t, pc) == [stack EXCEPT ![t][Len(stack[t])].pc = pc]
Move(t, n) == [context EXCEPT ![At(t)].index = n]
Seen(t) == [trace EXCEPT ![Owner(t)].foreign = @ \/ Owner(t) # Request(t)]

(* The loop of Next: the handler at the index, or the end. *)
Step(t) ==
    LET i == Here(t).index IN
    /\ Runs(t) /\ ~Top(t).call
    /\ IF i <= Len(Here(t).chain)
       THEN /\ stack' = [stack EXCEPT ![t] = Append(@, Call(i, Here(t).chain[i]))]
            /\ trace' = [Seen(t) EXCEPT ![Owner(t)].ran[i] = @ + 1]
       ELSE /\ stack' = Pop(t)
            /\ UNCHANGED trace
    /\ UNCHANGED <<up, context, answer>>

(* A handler returns into the loop that called it. *)
Return(t) ==
    /\ stack' = Pop(t)
    /\ context' = Move(t, Here(t).index + 1)

(* A handler calls Next. *)
Next1(t, pc) ==
    /\ stack' = [At1(t, pc) EXCEPT ![t] = Append(@, Loop)]
    /\ context' = Move(t, Here(t).index + 1)

Write(t, code) == answer' = [answer EXCEPT ![Owner(t)] = Append(@, code)]

(* The status is that of the first WriteHeader; Status() does not see it    *)
(* any more once Logger has put its own writer in the Context.              *)
Status(t) == IF Here(t).wrapped \/ answer[Owner(t)] = <<>> THEN 200 ELSE answer[Owner(t)][1]

(* ServeHTTP ends: the Context goes back to the pool, used or not. *)
Serve(t) ==
    /\ up /\ Main(t) /\ stack[t] = <<>> /\ trace[Request(t)].begun /\ ~trace[Request(t)].sent
    /\ context' = [context EXCEPT ![At(t)].busy = FALSE]
    /\ trace' = [trace EXCEPT ![Request(t)].sent = TRUE]
    /\ UNCHANGED <<up, stack, answer>>

-----------------------------------------------------------------------------
(* The middlewares. *)

(* SecurityHeaders, XSS, and every other that calls Next and then returns.  *)
(* Logger leaves its recorder in the Context.                               *)
Around == {"pass", "logger", "recovery", "recovery+abort", "retry", "fallback", "apperror"}
GoOn(t) ==
    /\ In(t, Around, "start")
    /\ stack' = [At1(t, "after") EXCEPT ![t] = Append(@, Loop)]
    /\ context' = [Move(t, Here(t).index + 1) EXCEPT ![At(t)].wrapped = @ \/ Top(t).kind = "logger"]
    /\ trace' = Seen(t)
    /\ UNCHANGED <<up, answer>>
ComeBack(t) ==
    /\ In(t, {"pass", "logger", "recovery", "recovery+abort"}, "after")
    /\ Return(t)
    /\ trace' = Seen(t)
    /\ UNCHANGED <<up, answer>>

(* A guard lets the request pass, or answers and aborts. *)
Pass(t) ==
    /\ In(t, {"guard"}, "start")
    /\ Next1(t, "done")
    /\ trace' = [Seen(t) EXCEPT ![Request(t)].passed = @ \cup {Top(t).at}]
    /\ UNCHANGED <<up, answer>>
RejectQuietly(t) ==
    /\ In(t, {"guard"}, "start")
    /\ Write(t, 403)
    /\ stack' = Pop(t)
    /\ context' = Move(t, Here(t).index + 1)
    /\ trace' = Seen(t)
    /\ UNCHANGED up
Reject(t) ==
    /\ In(t, {"guard"}, "start")
    /\ Write(t, 403)
    /\ stack' = Pop(t)
    /\ context' = Move(t, AbortIndex)
    /\ trace' = Seen(t)
    /\ UNCHANGED up
Done(t) ==
    /\ In(t, {"guard"}, "done")
    /\ Return(t)
    /\ trace' = Seen(t)
    /\ UNCHANGED <<up, answer>>

(* Retry: Next again while the status is 5xx.  The index is at the end by   *)
(* then, and nothing runs.                                                  *)
Retry(t) ==
    /\ In(t, {"retry"}, "after")
    /\ IF Status(t) >= 500 /\ Top(t).tries < MaxRetries
       THEN /\ stack' = [stack EXCEPT ![t] = Append(SubSeq(@, 1, Len(@) - 1), [Top(t) EXCEPT !.tries = @ + 1]) \o <<Loop>>]
            /\ context' = Move(t, Here(t).index + 1)
       ELSE Return(t)
    /\ trace' = Seen(t)
    /\ UNCHANGED <<up, answer>>

(* Fallback, and AppErrorMiddleware: a second answer, whatever was written. *)
Fallback(t) ==
    /\ In(t, {"fallback"}, "after")
    /\ IF Status(t) >= 500 THEN Write(t, 200) ELSE UNCHANGED answer
    /\ trace' = Seen(t)
    /\ Return(t)
    /\ UNCHANGED up
AppError(t) ==
    /\ In(t, {"apperror"}, "after")
    /\ IF Here(t).error THEN Write(t, 422) ELSE UNCHANGED answer
    /\ trace' = Seen(t)
    /\ Return(t)
    /\ UNCHANGED up

(* CircuitBreaker while it is open: an answer, no Next, and no Abort. *)
Refuse(t) ==
    /\ In(t, {"breaker"}, "start")
    /\ Write(t, 503)
    /\ Return(t)
    /\ trace' = [Seen(t) EXCEPT ![Owner(t)].refused = TRUE]
    /\ UNCHANGED up

(* Timeout, and CircuitBreaker while it is not open. *)
Spawn(t) ==
    /\ In(t, {"timeout", "breaker"}, "start") /\ Main(t)
    /\ stack' = [At1(t, "wait") EXCEPT ![Child(t)] = <<Loop>>]
    /\ context' = Move(t, Here(t).index + 1)
    /\ trace' = Seen(t)
    /\ UNCHANGED <<up, answer>>
Join(t) ==
    /\ In(t, {"timeout", "breaker"}, "wait")
    /\ stack[Child(t)] = <<>>
    /\ Return(t)
    /\ trace' = Seen(t)
    /\ UNCHANGED <<up, answer>>
TimeOut(t) ==
    /\ In(t, {"timeout", "breaker"}, "wait")
    /\ stack[Child(t)] # <<>>
    /\ Cardinality({s \in Requests : trace[s].late}) < MaxLate
    /\ Write(t, 504)
    /\ Return(t)
    /\ trace' = [Seen(t) EXCEPT ![Request(t)].late = TRUE]
    /\ UNCHANGED up

(* The handler answers, fails, or leaves an error in the Context. *)
Handle(t, code) ==
    /\ In(t, {"handler"}, "start")
    /\ Write(t, code)
    /\ Return(t)
    /\ trace' = [Seen(t) EXCEPT ![Owner(t)].failed = @ \/ code >= 500]
    /\ UNCHANGED up
LeaveError(t) ==
    /\ In(t, {"handler"}, "start")
    /\ stack' = Pop(t)
    /\ context' = [Move(t, Here(t).index + 1) EXCEPT ![At(t)].error = TRUE]
    /\ trace' = [Seen(t) EXCEPT ![Owner(t)].failed = TRUE]
    /\ UNCHANGED <<up, answer>>

(* A guard or a handler panics.  The recovery of its own goroutine answers  *)
(* and returns into the loop that called it; RecoveryMiddleware does not    *)
(* abort, so that the loop goes on behind the place of the panic.  Without  *)
(* one, net/http drops the connection, and a goroutine ends the process.    *)
Catches(f) == f.call /\ f.pc = "after" /\ f.kind \in {"recovery", "recovery+abort"}
Catching(t) == Max({0} \cup {i \in DOMAIN stack[t] : Catches(stack[t][i])})
Panic(t) ==
    LET k == Catching(t) IN
    /\ In(t, {"guard", "handler"}, "start")
    /\ IF k > 0
       THEN /\ stack' = [stack EXCEPT ![t] = SubSeq(@, 1, k - 1)]
            /\ Write(t, 500)
            /\ context' = Move(t, IF stack[t][k].kind = "recovery+abort" THEN AbortIndex ELSE Here(t).index + 1)
            /\ UNCHANGED up
       ELSE /\ up' = Main(t)
            /\ stack' = [stack EXCEPT ![t] = <<>>]
            /\ UNCHANGED <<context, answer>>
    /\ trace' = [Seen(t) EXCEPT ![Owner(t)].panicked = TRUE,
                                ![Request(t)].sent = @ \/ (k = 0 /\ Main(t))]

ChainNext ==
    \/ \E r \in Requests, c \in Contexts : \E chain \in Routes[r] : ServeHTTP(r, c, chain)
    \/ \E t \in Threads :
        \/ Step(t) \/ Serve(t) \/ GoOn(t) \/ ComeBack(t) \/ Pass(t) \/ Reject(t) \/ Done(t)
        \/ Retry(t) \/ Fallback(t) \/ AppError(t) \/ Refuse(t) \/ Spawn(t) \/ Join(t) \/ TimeOut(t)
        \/ Handle(t, 200) \/ Handle(t, 500) \/ LeaveError(t) \/ Panic(t)

-----------------------------------------------------------------------------
ChainTypeOK ==
    /\ \A c \in Contexts : context[c].owner \in Requests \cup {Nobody}
    /\ \A t \in Threads : \A k \in 1..Len(stack[t]) : stack[t][k].tries \in 0..MaxRetries
    /\ \A r \in Requests : trace[r].at \in Contexts \cup {Nobody}

Undisturbed(r) == ~trace[r].late /\ ~trace[r].foreign

(* context.go:83-97 with every guard's Abort: what comes after a guard runs *)
(* only if the guard let the request pass, unless a panic was recovered on  *)
(* the way, or goroutines that were late share the Context.                 *)
GuardsHold ==
    \A r \in Requests : Undisturbed(r) /\ ~trace[r].panicked =>
        \A i, j \in DOMAIN trace[r].ran :
            trace[r].chain[i] = "guard" /\ i < j /\ trace[r].ran[j] > 0 => i \in trace[r].passed

(* context.go:83-91: however the middlewares call Next, and call it again,  *)
(* no handler runs twice for a request.                                     *)
HandlersRunOnce ==
    \A r \in Requests : Undisturbed(r) => \A i \in DOMAIN trace[r].ran : trace[r].ran[i] <= 1

(* context.go:333-355: a request that nothing disturbed gets one body; two  *)
(* need a failed handler, a panic or a refusal.                             *)
OneBody ==
    \A r \in Requests : Undisturbed(r) /\ ~trace[r].panicked /\ ~trace[r].refused /\ ~trace[r].failed =>
        Len(answer[r]) <= 1

(* router.go:153-182: a request's Context is touched by a goroutine of      *)
(* another request only when one was left behind by a timeout.              *)
ContextsKept ==
    \A r \in Requests : trace[r].foreign => \E s \in Requests \ {r} : trace[s].late

ChainSound == GuardsHold /\ HandlersRunOnce /\ OneBody /\ ContextsKept

(* advanced.go:65: a request the open breaker refuses is not handled. *)
RefusedNotHandled ==
    \A r \in Requests : trace[r].refused => \A i \in DOMAIN trace[r].ran : trace[r].chain[i] = "handler" => trace[r].ran[i] = 0
=============================================================================
