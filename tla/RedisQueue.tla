---------------------------- MODULE RedisQueue -----------------------------
(***************************************************************************)
(* The queue with the Redis driver of framework/queue/redis_driver.go: a   *)
(* Redis list, a sorted set of delayed jobs and the processors that move   *)
(* jobs from the set to the list.  A job is JSON in Redis, so its Data     *)
(* loses its Go type and only a registered handler can run it (Runnable).  *)
(* Redis runs one command at a time; it is modelled from the commands the  *)
(* driver sends.                                                           *)
(***************************************************************************)
EXTENDS QueueWorker, SequencesExt

CONSTANTS
    Processors,     \* StartDelayedQueueProcessor calls, over all processes
    PopMayWait,     \* RedisConfig.Sleep = 0: BRPOP waits without a time-out
    MaxCrashes      \* bound: crashes of the worker process

VARIABLES
    list,           \* the list d.queue: LPUSH at the left, BRPOP at the right
    delayed,        \* the sorted set d.queue_delayed; wait is the score
    found,          \* what each processor still has to move
    moving,         \* the job a processor has removed and not yet pushed
    crashes

redisVars == <<list, delayed, found, moving, crashes>>
vars == <<queueVars, redisVars>>

TypeOK ==
    /\ WorkerTypeOK
    /\ list \in Seq(Wrapper)
    /\ delayed \subseteq Wrapper
    /\ found \in [Processors -> SUBSET Wrapper]
    /\ moving \in [Processors -> Wrapper \cup {NoJob}]
    /\ crashes \in 0..MaxCrashes

Init ==
    /\ WorkerInit
    /\ list = <<>>
    /\ delayed = {}
    /\ found = [p \in Processors |-> {}]
    /\ moving = [p \in Processors |-> NoJob]
    /\ crashes = 0

LPush(wrapper) == list' = <<wrapper>> \o list

-----------------------------------------------------------------------------
(* The delay is in the wrapper only: the job goes to the list at once. *)
PushJob(j, delay) ==
    /\ Push(j, delay)
    /\ LPush(NewWrapper(j, delay))
    /\ UNCHANGED <<delayed, found, moving, crashes>>

(* BRPOP takes the oldest element off the list. *)
Pop(w) ==
    /\ list # <<>>
    /\ Receive(w, Last(list))
    /\ list' = Front(list)
    /\ UNCHANGED <<delayed, found, moving, crashes>>

PopNothing(w) ==
    /\ list = <<>>
    /\ ~PopMayWait
    /\ ReceiveNothing(w)
    /\ UNCHANGED redisVars

(* Release: with a delay the job goes to the sorted set.  Without one,     *)
(* LPush is handed the *JobWrapper itself, which go-redis cannot marshal:  *)
(* the command fails, the worker ignores the error, the job is gone.       *)
Release(wrapper) ==
    /\ delayed' = IF wrapper.wait > 0 THEN delayed \cup {wrapper} ELSE delayed
    /\ UNCHANGED <<list, found, moving, crashes>>

PutBackEarly(w) == ReleaseEarly(w) /\ Release(EarlyRelease(w))

PutBackForRetry(w) == FailRetry(w) /\ Release(RetryRelease(w))

(* Delete does nothing: BRPOP has removed the job. *)
Delete(w) == (Succeed(w) \/ GiveUp(w)) /\ UNCHANGED redisVars

(* Clear deletes the list; the delayed jobs stay. *)
Clear ==
    /\ list # <<>>
    /\ list' = <<>>
    /\ Cleared({list[i].job : i \in DOMAIN list})
    /\ UNCHANGED <<delayed, found, moving, crashes>>

(* A processor reads the delayed jobs that are due. *)
Scan(p) ==
    /\ found[p] = {} /\ moving[p] = NoJob
    /\ found' = [found EXCEPT ![p] = {d \in delayed : d.wait = 0}]
    /\ found'[p] # {}
    /\ UNCHANGED <<queueVars, list, delayed, moving, crashes>>

(* mutant: the job is not removed from the sorted set *)
TakeCopy(p, wrapper) ==
    /\ moving[p] = NoJob
    /\ wrapper \in found[p]
    /\ moving' = [moving EXCEPT ![p] = wrapper]
    /\ found' = [found EXCEPT ![p] = @ \ {wrapper}]
    /\ UNCHANGED <<queueVars, list, delayed, crashes>>

(* ZREM; whether it removed anything is not looked at. *)
TakeDue(p, wrapper) ==
    /\ moving[p] = NoJob
    /\ wrapper \in found[p]
    /\ delayed' = delayed \ {wrapper}
    /\ moving' = [moving EXCEPT ![p] = wrapper]
    /\ found' = [found EXCEPT ![p] = @ \ {wrapper}]
    /\ UNCHANGED <<queueVars, list, crashes>>

PushDue(p) ==
    /\ moving[p] # NoJob
    /\ LPush(moving[p])
    /\ moving' = [moving EXCEPT ![p] = NoJob]
    /\ UNCHANGED <<queueVars, delayed, found, crashes>>

(* The process dies with what it has taken out of Redis and is restarted. *)
InMemory ==
    {held[w].job : w \in {v \in Workers : held[v] # NoJob}}
    \cup {moving[p].job : p \in {q \in Processors : moving[q] # NoJob}}

Crash ==
    /\ crashes < MaxCrashes
    /\ crashes' = crashes + 1
    /\ fate' = [j \in Jobs |-> IF j \in InMemory THEN "lost_in_a_crash" ELSE fate[j]]
    /\ pc' = [w \in Workers |-> IF running THEN "check" ELSE pc[w]]
    /\ held' = [w \in Workers |-> NoJob]
    /\ moving' = [p \in Processors |-> NoJob]
    /\ found' = [p \in Processors |-> {}]
    /\ UNCHANGED <<running, stop, attempts, due, asked, list, delayed>>

Tick ==
    /\ WorkerTick
    /\ list' = [i \in DOMAIN list |-> AgedWrapper(list[i])]
    /\ delayed' = {AgedWrapper(d) : d \in delayed}
    /\ found' = [p \in Processors |-> {AgedWrapper(d) : d \in found[p]}]
    /\ moving' = [p \in Processors |-> AgedWrapper(moving[p])]
    /\ UNCHANGED crashes

WorkerStep(w) ==
    \/ Check(w) /\ UNCHANGED redisVars
    \/ Pop(w)
    \/ PopNothing(w)
    \/ PutBackEarly(w)
    \/ PutBackForRetry(w)
    \/ Delete(w)

ProcessorStep(p) ==
    \/ Scan(p)
    \/ \E wrapper \in found[p] : TakeDue(p, wrapper)
    \/ PushDue(p)

Next ==
    \/ \E j \in Jobs, delay \in Delays : PushJob(j, delay)
    \/ (Listen \/ StopBegin \/ StopEnd) /\ UNCHANGED redisVars
    \/ \E w \in Workers : WorkerStep(w)
    \/ \E p \in Processors : ProcessorStep(p)
    \/ Clear
    \/ Crash
    \/ Tick

Spec == Init /\ [][Next]_vars

(* As in SyncQueue, and the processors' tickers fire. *)
Fairness ==
    /\ WF_vars(Tick)
    /\ WF_vars(Listen /\ UNCHANGED redisVars)
    /\ WF_vars(StopEnd /\ UNCHANGED redisVars)
    /\ \A w \in Workers : WF_vars(WorkerStep(w))
    /\ \A p \in Processors : WF_vars(ProcessorStep(p))

FairSpec == Spec /\ Fairness

-----------------------------------------------------------------------------
(* Copies of a job in Redis and in the hands of the worker process. *)
Copies(j) ==
    Cardinality({i \in DOMAIN list : list[i].job = j})
    + Cardinality({d \in delayed : d.job = j})
    + Cardinality({w \in Workers : held[w] # NoJob /\ held[w].job = j})
    + Cardinality({p \in Processors : moving[p] # NoJob /\ moving[p].job = j})

(* A job is never in two places, and one that was pushed without a delay   *)
(* and has not finished is in one: whatever crashes, only the jobs the     *)
(* process has taken out of Redis are lost with it.  (A job pushed with a  *)
(* delay is lost when the delay ends while a worker has it, see Release.)  *)
Conserved ==
    \A j \in Jobs :
        /\ Copies(j) <= 1
        /\ fate[j] = "pending" /\ asked[j] = 0 => Copies(j) = 1

(* queue.go:263: a job that is given up was given all its retries. *)
RetryBudget ==
    \A j \in Jobs : fate[j] = "gave_up" /\ asked[j] = 0 => attempts[j] = MaxRetry + 1

(* Every job that was pushed without a delay finishes, unless the queue is *)
(* stopped.                                                                *)
UndelayedJobsFinish ==
    \A j \in Jobs :
        fate[j] = "pending" /\ asked[j] = 0
            ~> fate[j] \in Finished \/ stop # "no"
=============================================================================
