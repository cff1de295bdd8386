----------------------------- MODULE SyncQueue -----------------------------
(* The queue with the in-memory driver: SyncDriver of                      *)
(* framework/queue/database_driver.go, a slice under a mutex.  Its jobs    *)
(* keep their Go type, so every one has a Handle method (Runnable = Jobs). *)
EXTENDS QueueWorker, SequencesExt

VARIABLE jobs       \* d.jobs

vars == <<queueVars, jobs>>

TypeOK == WorkerTypeOK /\ jobs \in Seq(Wrapper)

Init == WorkerInit /\ jobs = <<>>

PushJob(j, delay) ==
    /\ Push(j, delay)
    /\ jobs' = Append(jobs, NewWrapper(j, delay))

Pop(w) ==
    /\ jobs # <<>>
    /\ Receive(w, Head(jobs))
    /\ jobs' = Tail(jobs)

PopNothing(w) ==
    /\ jobs = <<>>
    /\ ReceiveNothing(w)
    /\ UNCHANGED jobs

PutBackEarly(w) ==
    /\ ReleaseEarly(w)
    /\ jobs' = Append(jobs, EarlyRelease(w))

PutBackForRetry(w) ==
    /\ FailRetry(w)
    /\ jobs' = Append(jobs, RetryRelease(w))

(* Delete does nothing: Pop has removed the job. *)
Delete(w) == (Succeed(w) \/ GiveUp(w)) /\ UNCHANGED jobs

Tick ==
    /\ WorkerTick
    /\ jobs' = [i \in DOMAIN jobs |-> AgedWrapper(jobs[i])]

Clear ==
    /\ jobs # <<>>
    /\ jobs' = <<>>
    /\ Cleared({jobs[i].job : i \in DOMAIN jobs})

WorkerStep(w) ==
    \/ Check(w) /\ UNCHANGED jobs
    \/ Pop(w)
    \/ PopNothing(w)
    \/ PutBackEarly(w)
    \/ PutBackForRetry(w)
    \/ Delete(w)

Next ==
    \/ \E j \in Jobs, delay \in Delays : PushJob(j, delay)
    \/ (Listen \/ StopBegin \/ StopEnd) /\ UNCHANGED jobs
    \/ \E w \in Workers : WorkerStep(w)
    \/ Clear
    \/ Tick

Spec == Init /\ [][Next]_vars

(* The workers are goroutines that never block for ever, handlers return,  *)
(* time passes, and Listen is called.                                      *)
Fairness ==
    /\ WF_vars(Tick)
    /\ WF_vars(Listen /\ UNCHANGED jobs)
    /\ WF_vars(StopEnd /\ UNCHANGED jobs)
    /\ \A w \in Workers : WF_vars(WorkerStep(w))

FairSpec == Spec /\ Fairness

-----------------------------------------------------------------------------
Copies(j) ==
    Cardinality({i \in DOMAIN jobs : jobs[i].job = j})
    + Cardinality({w \in Workers : held[w] # NoJob /\ held[w].job = j})

(* A job that was pushed and has not finished is in exactly one place, the *)
(* queue or the hands of a worker; one that finished is nowhere.           *)
ExactlyOneCopy ==
    \A j \in Jobs : Copies(j) = IF fate[j] = "pending" THEN 1 ELSE 0
=============================================================================
