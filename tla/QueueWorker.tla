---------------------------- MODULE QueueWorker ----------------------------
(***************************************************************************)
(* The job queue of framework/queue/queue.go: Push, the workers Listen     *)
(* starts, and Stop.  What a driver does with a job is left to the module  *)
(* of the driver (SyncQueue, RedisQueue, DatabaseQueue), which conjoins    *)
(* its own effect to the actions below.                                    *)
(*                                                                         *)
(* A point in time is kept as the number of ticks until it comes, down to  *)
(* 0 when it has passed.                                                   *)
(***************************************************************************)
EXTENDS Naturals, FiniteSets

CONSTANTS
    Workers,        \* worker goroutines of one Listen
    Jobs,           \* jobs pushed, each once
    Runnable,       \* jobs that processJob finds something to run for
    MaxRetry,       \* JobWrapper.MaxRetry
    Delays,         \* delays jobs are pushed with
    Backoff         \* the 10 seconds of handleFailure

ASSUME QueueAssumption ==
    /\ Workers # {} /\ IsFiniteSet(Workers)
    /\ Runnable \subseteq Jobs
    /\ MaxRetry \in Nat
    /\ Delays \subseteq Nat /\ \E longest \in Delays : \A d \in Delays : d <= longest
    /\ Backoff \in Nat \ {0}

VARIABLES
    running,        \* q.running
    stop,           \* Stop: not called, waiting for the workers, returned
    pc,             \* where each worker is
    held,           \* the job wrapper each worker has in its hands
    fate,           \* history: what became of each job
    attempts,       \* history: how often the handler of a job was started
    due,            \* history: ticks until a job may be started (again)
    asked           \* history: the delay a job was pushed with

workerVars == <<running, stop, pc, held>>
history == <<fate, attempts, due, asked>>
queueVars == <<workerVars, history>>

(* A JobWrapper.  RetryCount is kept up to MaxRetry, where the code stops  *)
(* telling larger values apart; wait is the time until AvailableAt.        *)
MaxWait == CHOOSE n \in Delays \cup {Backoff * MaxRetry} :
              \A m \in Delays \cup {Backoff * MaxRetry} : m <= n
Wrapper == [job : Jobs, retry : 0..MaxRetry, wait : 0..MaxWait]
NoJob == [job |-> "none"]

AtMost(bound, n) == IF n < bound THEN n ELSE bound
Aged(t) == IF t > 0 THEN t - 1 ELSE 0
AgedWrapper(w) == IF w = NoJob THEN w ELSE [w EXCEPT !.wait = Aged(@)]

Finished == {"succeeded", "gave_up", "dropped", "cleared", "lost_in_a_crash"}

WorkerTypeOK ==
    /\ running \in BOOLEAN
    /\ stop \in {"no", "closing", "returned"}
    /\ pc \in [Workers -> {"idle", "check", "pop", "early", "handling", "exited"}]
    /\ held \in [Workers -> Wrapper \cup {NoJob}]
    /\ fate \in [Jobs -> {"new", "pending"} \cup Finished]
    /\ attempts \in [Jobs -> 0..MaxRetry + 2]
    /\ due \in [Jobs -> 0..MaxWait]
    /\ asked \in [Jobs -> Delays \cup {0}]

WorkerInit ==
    /\ running = FALSE
    /\ stop = "no"
    /\ pc = [w \in Workers |-> "idle"]
    /\ held = [w \in Workers |-> NoJob]
    /\ fate = [j \in Jobs |-> "new"]
    /\ attempts = [j \in Jobs |-> 0]
    /\ due = [j \in Jobs |-> 0]
    /\ asked = [j \in Jobs |-> 0]

-----------------------------------------------------------------------------
(* Push, PushWithDelay and PushWithPriority build the wrapper w and hand   *)
(* it to driver.Push.  Priority is stored and never read.                  *)
NewWrapper(j, delay) == [job |-> j, retry |-> 0, wait |-> delay]

Push(j, delay) ==
    /\ fate[j] = "new"
    /\ fate' = [fate EXCEPT ![j] = "pending"]
    /\ due' = [due EXCEPT ![j] = delay]
    /\ asked' = [asked EXCEPT ![j] = delay]
    /\ UNCHANGED <<workerVars, attempts>>

(* Listen starts the workers; after Stop they find stopChan closed. *)
Listen ==
    /\ ~running
    /\ stop # "closing"
    /\ running' = TRUE
    /\ pc' = [w \in Workers |-> "check"]
    /\ UNCHANGED <<stop, held, history>>

(* Stop closes stopChan and waits for the workers. *)
StopBegin ==
    /\ stop = "no"
    /\ stop' = "closing"
    /\ UNCHANGED <<running, pc, held, history>>

(* mutant: Stop does not wait for the workers *)
StopNoWait ==
    /\ stop = "closing"
    /\ stop' = "returned"
    /\ running' = FALSE
    /\ UNCHANGED <<pc, held, history>>

StopEnd ==
    /\ stop = "closing"
    /\ \A w \in Workers : pc[w] \in {"idle", "exited"}
    /\ stop' = "returned"
    /\ running' = FALSE
    /\ UNCHANGED <<pc, held, history>>

(* mutant: the worker leaves only when it finds no job *)
CheckNever(w) ==
    /\ pc[w] = "check"
    /\ pc' = [pc EXCEPT ![w] = "pop"]
    /\ UNCHANGED <<running, stop, held, history>>

(* The head of the worker's loop: select on stopChan. *)
Check(w) ==
    /\ pc[w] = "check"
    /\ pc' = [pc EXCEPT ![w] = IF stop = "no" THEN "pop" ELSE "exited"]
    /\ UNCHANGED <<running, stop, held, history>>

(* Pop returned nil or an error: the worker sleeps and starts over. *)
ReceiveNothing(w) ==
    /\ pc[w] = "pop"
    /\ pc' = [pc EXCEPT ![w] = "check"]
    /\ UNCHANGED <<running, stop, held, history>>

Start(w, wrapper) ==
    /\ pc' = [pc EXCEPT ![w] = "handling"]
    /\ held' = [held EXCEPT ![w] = wrapper]
    /\ attempts' = [attempts EXCEPT ![wrapper.job] = AtMost(MaxRetry + 2, @ + 1)]
    /\ UNCHANGED <<fate, due, asked>>

(* mutant: the worker does not look at AvailableAt *)
ReceiveAnyTime(w, wrapper) ==
    /\ pc[w] = "pop"
    /\ UNCHANGED <<running, stop>>
    /\ Start(w, wrapper)

(* Pop returned a wrapper.  A job that is not due goes back; one that has  *)
(* neither a handler nor a Handle method is dropped without a word.        *)
Receive(w, wrapper) ==
    /\ pc[w] = "pop"
    /\ UNCHANGED <<running, stop>>
    /\ \/ /\ wrapper.wait > 0
          /\ pc' = [pc EXCEPT ![w] = "early"]
          /\ held' = [held EXCEPT ![w] = wrapper]
          /\ UNCHANGED history
       \/ /\ wrapper.wait = 0 /\ wrapper.job \in Runnable
          /\ Start(w, wrapper)
       \/ /\ wrapper.wait = 0 /\ wrapper.job \notin Runnable
          /\ pc' = [pc EXCEPT ![w] = "check"]
          /\ fate' = [fate EXCEPT ![wrapper.job] = "dropped"]
          /\ UNCHANGED <<held, attempts, due, asked>>

(* Release increments RetryCount and sets AvailableAt. *)
Released(wrapper, delay) ==
    [wrapper EXCEPT !.retry = AtMost(MaxRetry, @ + 1), !.wait = delay]

LetGo(w) ==
    /\ pc' = [pc EXCEPT ![w] = "check"]
    /\ held' = [held EXCEPT ![w] = NoJob]
    /\ UNCHANGED <<running, stop>>

(* The job was not due when it was popped.  Its delay is read from the     *)
(* clock once more and may be 0 by now.                                    *)
EarlyRelease(w) == Released(held[w], held[w].wait)

ReleaseEarly(w) ==
    /\ pc[w] = "early"
    /\ LetGo(w)
    /\ UNCHANGED history

(* The handler succeeded: Delete. *)
Succeed(w) ==
    /\ pc[w] = "handling"
    /\ fate' = [fate EXCEPT ![held[w].job] = "succeeded"]
    /\ LetGo(w)
    /\ UNCHANGED <<attempts, due, asked>>

(* mutants: one retry more or less than MaxRetry *)
RetriesOneMore(w) == held[w].retry <= MaxRetry
(* handleFailure: Release with a growing backoff while retries are left,   *)
(* Delete when there is none.                                              *)
HasRetry(w) == held[w].retry < MaxRetry
BackoffOf(w) == (held[w].retry + 1) * Backoff
RetryRelease(w) == Released(held[w], BackoffOf(w))

FailRetry(w) ==
    /\ pc[w] = "handling"
    /\ HasRetry(w)
    /\ due' = [due EXCEPT ![held[w].job] = BackoffOf(w)]
    /\ LetGo(w)
    /\ UNCHANGED <<fate, attempts, asked>>

GiveUp(w) ==
    /\ pc[w] = "handling"
    /\ ~HasRetry(w)
    /\ fate' = [fate EXCEPT ![held[w].job] = "gave_up"]
    /\ LetGo(w)
    /\ UNCHANGED <<attempts, due, asked>>

(* The jobs that waited in the cleared queue. *)
Cleared(js) ==
    /\ fate' = [j \in Jobs |-> IF j \in js THEN "cleared" ELSE fate[j]]
    /\ UNCHANGED <<workerVars, attempts, due, asked>>

WorkerTick ==
    /\ held' = [w \in Workers |-> AgedWrapper(held[w])]
    /\ due' = [j \in Jobs |-> Aged(due[j])]
    /\ UNCHANGED <<running, stop, pc, fate, attempts, asked>>

-----------------------------------------------------------------------------
(* No job is handled by two workers at once. *)
NoOverlap ==
    \A v, w \in Workers :
        pc[v] = "handling" /\ pc[w] = "handling" /\ v # w
            => held[v].job # held[w].job

(* A handler is never started before the delay the job was pushed with, or *)
(* the backoff after its last failure, has passed.                         *)
NotBeforeDue == \A w \in Workers : pc[w] = "handling" => due[held[w].job] = 0

(* A handler is started at most MaxRetry times more than once. *)
AttemptsBounded == \A j \in Jobs : attempts[j] <= MaxRetry + 1

(* However many workers poll and however often a job goes back and forth   *)
(* between them and the driver, its handler runs alone, not too early and  *)
(* not too often.                                                          *)
HandlerDiscipline == NoOverlap /\ NotBeforeDue /\ AttemptsBounded

(* After Stop has returned, no worker has a job in its hands or takes one. *)
QuietAfterStop ==
    stop = "returned" =>
        \A w \in Workers : held[w] = NoJob /\ pc[w] \in {"idle", "check", "exited"}

(* Stop returns once it is called: no worker keeps it waiting for ever. *)
StopReturns == stop = "closing" ~> stop = "returned"

(* Unless the queue is stopped, every pushed job succeeds or is given up. *)
JobsFinish ==
    \A j \in Jobs : fate[j] = "pending" ~> fate[j] \in Finished \/ stop # "no"
=============================================================================
