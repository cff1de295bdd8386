----------------------------- MODULE MCServices -----------------------------
(***************************************************************************)
(* The framework's long-lived services for TLC: the gRPC connection pool,  *)
(* the scheduler, the asynchronous logger, the WebSocket hub and the       *)
(* RabbitMQ client.  They share nothing: a behaviour is a behaviour of one *)
(* of them, chosen in the initial state.                                   *)
(***************************************************************************)
EXTENDS ConnPool

CONSTANTS
    Tasks, Asking, MaxEntries,
    MaxBuffer, BufferSize, MaxLogged,
    SendSize, QueueSize, MaxConnections,
    Watchers, Links, MaxRetries, MaxLate, NoLink

ASSUME ServicesAssumption ==
    /\ IsFiniteSet(Tasks) /\ "unused" \notin Tasks /\ MaxEntries \in Nat
    /\ MaxBuffer \in Nat /\ BufferSize \in Nat \ {0} /\ MaxLogged \in Nat
    /\ SendSize \in Nat /\ QueueSize \in Nat
    /\ MaxRetries \in Nat /\ MaxLate \in Nat
    /\ IsFiniteSet(Watchers) /\ IsFiniteSet(Links)
    /\ Cardinality(Links) > Cardinality(Watchers) + 1

VARIABLES
    service,
    tasks, entryOf, running, stopping, entries, present, runs, manual,
    logChan, buffer, written, accepted, loop, closing, due,
    clients, client, writing, open, send, sendClosed,
    broadcast, commands, replying, crashed,
    links, conn, connected, reconnecting, quitting, late, limit,
    watcher, on, retries

Sched == INSTANCE Scheduler
Log == INSTANCE AsyncLogger WITH MaxEntries <- MaxLogged
Hub == INSTANCE WebSocketHub WITH pc <- client
Rabbit == INSTANCE RabbitClient WITH open <- links, closing <- quitting, pc <- watcher

schedulerVars == <<tasks, entryOf, running, stopping, entries, present, runs, manual>>
logVars == <<logChan, buffer, written, accepted, loop, closing, due>>
hubVars == <<clients, client, writing, open, send, sendClosed,
             broadcast, commands, replying, crashed>>
rabbitVars == <<links, conn, connected, reconnecting, quitting, late, limit,
                watcher, on, retries>>
mcVars == <<service, vars, schedulerVars, logVars, hubVars, rabbitVars>>

MCInit ==
    /\ Init /\ Sched!Init /\ Log!Init /\ Hub!Init /\ Rabbit!Init
    /\ service \in {"pool", "scheduler", "log", "hub", "rabbit"}
    /\ service # "pool" => pool = CHOOSE s \in SUBSET Conns : Cardinality(s) = MinSize
    /\ service # "rabbit" => limit = 0

OnPool(A) ==
    service = "pool" /\ A /\ UNCHANGED <<service, schedulerVars, logVars, hubVars, rabbitVars>>
OnScheduler(A) ==
    service = "scheduler" /\ A /\ UNCHANGED <<service, vars, logVars, hubVars, rabbitVars>>
OnLog(A) ==
    service = "log" /\ A /\ UNCHANGED <<service, vars, schedulerVars, hubVars, rabbitVars>>
OnHub(A) ==
    service = "hub" /\ A /\ UNCHANGED <<service, vars, schedulerVars, logVars, rabbitVars>>
OnRabbit(A) ==
    service = "rabbit" /\ A /\ UNCHANGED <<service, vars, schedulerVars, logVars, hubVars>>

MCNext ==
    \/ OnPool(Next) \/ OnScheduler(Sched!Next) \/ OnLog(Log!Next)
    \/ OnHub(Hub!Next) \/ OnRabbit(Rabbit!Next)

(* The fairness of WebSocketHub and RabbitClient. *)
MCFairness ==
    /\ \A c \in Clients : /\ WF_mcVars(OnHub(Hub!Pumps(c)))
                          /\ SF_mcVars(OnHub(Hub!Unregister(c)))
    /\ \A w \in Watchers : /\ WF_mcVars(OnRabbit(Rabbit!Watch(w)))
                           /\ SF_mcVars(OnRabbit(Rabbit!Redial(w)))
    /\ WF_mcVars(OnRabbit(Rabbit!EndClose))

MCSpec == MCInit /\ [][MCNext]_mcVars /\ MCFairness

-----------------------------------------------------------------------------
(* The service that runs keeps its types. *)
TypesOK == TypeOK /\ Sched!TypeOK /\ Log!TypeOK /\ Hub!TypeOK /\ Rabbit!TypeOK

(* An enabled task is scheduled and a stopped scheduler is quiet, through  *)
(* any sequence of scheduler.go's operations; async_logger.go writes the   *)
(* entries in order, and all of them by the end of Close; the hub never    *)
(* panics by itself (server.go:245, 261), and one goroutine reconnects at  *)
(* a time (rabbitmq/client.go:174).                                        *)
ServicesSound ==
    Sched!SchedulerSound /\ Log!LogKept /\ Hub!HubSurvives /\ Rabbit!OneReconnects

(* Clients that are gone leave the hub (server.go:239, 259), and a lost    *)
(* connection that is watched is made again (rabbitmq/client.go:149).      *)
ServicesRecover == Hub!GoneClientsLeave /\ Rabbit!Reconnects
=============================================================================
