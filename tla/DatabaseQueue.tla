--------------------------- MODULE DatabaseQueue ---------------------------
(***************************************************************************)
(* The queue with the SQL driver of framework/queue/database_driver.go:    *)
(* one row per job, reserved by Pop.  Delete and Release address the row   *)
(* by the ID of the JobWrapper, a string such as 17..._aB3, while the      *)
(* column is an AUTO_INCREMENT number: they match no row and report no     *)
(* error.  d.mu makes every operation of the process atomic.               *)
(***************************************************************************)
EXTENDS QueueWorker, SequencesExt

CONSTANT MaxCrashes \* bound: crashes of the worker process

VARIABLES
    rows,           \* the table in the order of its ids
    crashes

vars == <<queueVars, rows, crashes>>

Row == [wrapper : Wrapper, available : 0..MaxWait, reserved : BOOLEAN]

TypeOK ==
    /\ WorkerTypeOK
    /\ rows \in Seq(Row)
    /\ crashes \in 0..MaxCrashes

Init == WorkerInit /\ rows = <<>> /\ crashes = 0

PushJob(j, delay) ==
    /\ Push(j, delay)
    /\ rows' = Append(rows, [wrapper |-> NewWrapper(j, delay),
                             available |-> delay, reserved |-> FALSE])
    /\ UNCHANGED crashes

(* WHERE available_at <= now AND reserved_at IS NULL *)
Poppable(i) == rows[i].available = 0 /\ ~rows[i].reserved

First(is) == CHOOSE i \in is : \A k \in is : i <= k

(* The first row that is due; the wrapper read back is the one that was    *)
(* pushed, with its AvailableAt in the past by now.                        *)
Pop(w) ==
    LET is == {i \in DOMAIN rows : Poppable(i)} IN
    /\ is # {}
    /\ Receive(w, rows[First(is)].wrapper)
    /\ rows' = [rows EXCEPT ![First(is)].reserved = TRUE]
    /\ UNCHANGED crashes

PopNothing(w) ==
    /\ \A i \in DOMAIN rows : ~Poppable(i)
    /\ ReceiveNothing(w)
    /\ UNCHANGED <<rows, crashes>>

(* UPDATE ... WHERE id = job.ID matches no row. *)
Release(wrapper) == UNCHANGED <<rows, crashes>>

PutBackForRetry(w) == FailRetry(w) /\ Release(RetryRelease(w))

(* DELETE ... WHERE id = job.ID matches no row. *)
Delete(w) == (Succeed(w) \/ GiveUp(w)) /\ UNCHANGED <<rows, crashes>>

(* Clear deletes every row, the reserved ones of running jobs included. *)
Clear ==
    /\ rows # <<>>
    /\ rows' = <<>>
    /\ Cleared({rows[i].wrapper.job : i \in {k \in DOMAIN rows : ~rows[k].reserved}})
    /\ UNCHANGED crashes

(* The process dies and is restarted; no code looks at old reservations.   *)
Crash ==
    /\ crashes < MaxCrashes
    /\ crashes' = crashes + 1
    /\ pc' = [w \in Workers |-> IF running THEN "check" ELSE pc[w]]
    /\ held' = [w \in Workers |-> NoJob]
    /\ fate' = [j \in Jobs |->
                  IF \E w \in Workers : held[w] # NoJob /\ held[w].job = j
                  THEN "lost_in_a_crash" ELSE fate[j]]
    /\ UNCHANGED <<running, stop, attempts, due, asked, rows>>

Tick ==
    /\ WorkerTick
    /\ rows' = [i \in DOMAIN rows |->
                  [wrapper |-> AgedWrapper(rows[i].wrapper),
                   available |-> Aged(rows[i].available),
                   reserved |-> rows[i].reserved]]
    /\ UNCHANGED crashes

(* A popped job is never early (NeverEarly), so the worker's early release  *)
(* has no place here.                                                       *)
WorkerStep(w) ==
    \/ Check(w) /\ UNCHANGED <<rows, crashes>>
    \/ Pop(w)
    \/ PopNothing(w)
    \/ PutBackForRetry(w)
    \/ Delete(w)

Next ==
    \/ \E j \in Jobs, delay \in Delays : PushJob(j, delay)
    \/ (Listen \/ StopBegin \/ StopEnd) /\ UNCHANGED <<rows, crashes>>
    \/ \E w \in Workers : WorkerStep(w)
    \/ Clear
    \/ Crash
    \/ Tick

Spec == Init /\ [][Next]_vars

(* As in SyncQueue. *)
Fairness ==
    /\ WF_vars(Tick)
    /\ WF_vars(Listen /\ UNCHANGED <<rows, crashes>>)
    /\ WF_vars(StopEnd /\ UNCHANGED <<rows, crashes>>)
    /\ \A w \in Workers : WF_vars(WorkerStep(w))

FairSpec == Spec /\ Fairness

-----------------------------------------------------------------------------
(* One process runs a job at most once: the reservation, which nothing     *)
(* ever takes back, also holds over a crash and a restart.                 *)
RunAtMostOnce == \A j \in Jobs : attempts[j] <= 1

(* No worker ever finds a popped job not due: Pop has compared the row     *)
(* with the clock, so jobs are not released early and lose no retry.       *)
NeverEarly == \A w \in Workers : pc[w] # "early"

(* Every pushed job gets its first run once it is due, unless the queue is *)
(* cleared or stopped or the job is lost with a crash.                      *)
FirstRun ==
    \A j \in Jobs : fate[j] = "pending" ~> attempts[j] > 0 \/ fate[j] # "pending" \/ stop # "no"
=============================================================================
