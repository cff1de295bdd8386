------------------------------ MODULE MCQueue -------------------------------
(***************************************************************************)
(* The queue workers with each of the three drivers, for TLC.  A behaviour *)
(* is a behaviour of one driver, chosen in the initial state; the          *)
(* variables of the other drivers keep their initial values.               *)
(*                                                                         *)
(*   "sync"          SyncQueue                                             *)
(*   "redis"         RedisQueue, every job has a registered handler        *)
(*   "unregistered"  RedisQueue, no job has one                            *)
(*   "database"      DatabaseQueue                                         *)
(***************************************************************************)
EXTENDS SyncQueue

CONSTANTS Processors, MaxCrashes

ASSUME CrashesAssumption == MaxCrashes \in Nat

VARIABLES driver, list, delayed, found, moving, rows, crashes

R == INSTANCE RedisQueue WITH PopMayWait <- FALSE
U == INSTANCE RedisQueue WITH PopMayWait <- FALSE, Runnable <- {}
D == INSTANCE DatabaseQueue

redisOnly == <<list, delayed, found, moving>>
mcVars == <<vars, driver, redisOnly, rows, crashes>>

MCInit ==
    /\ Init
    /\ R!Init
    /\ D!Init
    /\ driver \in {"sync", "redis", "unregistered", "database"}

OnSync(A) ==
    driver = "sync" /\ A /\ UNCHANGED <<driver, redisOnly, rows, crashes>>
OnRedis(A) ==
    driver = "redis" /\ A /\ UNCHANGED <<driver, jobs, rows>>
OnUnregistered(A) ==
    driver = "unregistered" /\ A /\ UNCHANGED <<driver, jobs, rows>>
OnDatabase(A) ==
    driver = "database" /\ A /\ UNCHANGED <<driver, jobs, redisOnly>>

MCNext ==
    \/ OnSync(Next)
    \/ OnRedis(R!Next)
    \/ OnUnregistered(U!Next)
    \/ OnDatabase(D!Next)

(* The fairness of the three drivers' modules.  The driver never changes,  *)
(* so an action of one driver is enabled again and again only if it is of  *)
(* the driver that runs.                                                   *)
Driver == <<jobs, redisOnly, rows, crashes, driver>>
Ticks ==
    OnSync(Tick) \/ OnRedis(R!Tick) \/ OnUnregistered(U!Tick) \/ OnDatabase(D!Tick)
Steps(w) ==
    \/ OnSync(WorkerStep(w))
    \/ OnRedis(R!WorkerStep(w))
    \/ OnUnregistered(U!WorkerStep(w))
    \/ OnDatabase(D!WorkerStep(w))

MCSpec ==
    /\ MCInit
    /\ [][MCNext]_mcVars
    /\ WF_mcVars(Ticks)
    /\ WF_mcVars(Listen /\ UNCHANGED Driver)
    /\ WF_mcVars(StopEnd /\ UNCHANGED Driver)
    /\ \A w \in Workers : WF_mcVars(Steps(w))
    /\ \A p \in Processors : WF_mcVars(OnRedis(R!ProcessorStep(p)))
    /\ \A p \in Processors : WF_mcVars(OnUnregistered(U!ProcessorStep(p)))

-----------------------------------------------------------------------------
(* Every variable of the driver that runs has its type. *)
TypesOK == TypeOK /\ R!TypeOK /\ D!TypeOK

(* A job is in one place: with the slice (SyncDriver.Pop and Release under *)
(* d.mu) always, with Redis unless the process that took it out crashed,   *)
(* and a row of the jobs table is run once and never early; with Redis a   *)
(* job that is given up was given all its retries (queue.go:254).          *)
JobsConserved ==
    CASE driver = "sync" -> ExactlyOneCopy
      [] driver = "redis" -> R!Conserved /\ R!RetryBudget
      [] driver = "unregistered" -> R!Conserved
      [] driver = "database" -> D!RunAtMostOnce /\ D!NeverEarly

(* Stop comes to its end, and unless the queue is stopped so does a pushed *)
(* job: with the slice always, with Redis if it was pushed without a       *)
(* delay; a row of the jobs table gets its first run.                      *)
QueueProgresses ==
    /\ StopReturns
    /\ driver = "sync" => JobsFinish
    /\ driver = "redis" => R!UndelayedJobsFinish
    /\ driver = "database" => D!FirstRun
=============================================================================
