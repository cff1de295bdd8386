---------------------------- MODULE NacosClient -----------------------------
(***************************************************************************)
(* The registration of an instance at Nacos, framework/nacos/client.go:    *)
(* the application registers, deregisters and closes, one call after       *)
(* another, while goroutines send heartbeats for what is registered.       *)
(*                                                                         *)
(* A request takes effect, if it does, before its call returns, and its    *)
(* answer may be lost.  Nacos forgets an instance whose heartbeats stop    *)
(* and registers an unknown one at its heartbeat.  The address of the      *)
(* instance never changes; its service's name may.  CheckHealth, the       *)
(* configuration and the cache of other services' instances are left out.  *)
(***************************************************************************)
EXTENDS Integers

CONSTANTS
    Names,          \* of services
    Loops,          \* bound: goroutines of StartHeartbeat
    MaxCalls,       \* bound: calls of the application before Close
    NoName

VARIABLES
    server,         \* the services that Nacos has the instance under
    registered, serviceName,
    owner,          \* where the application is
    service,        \* the service of its call
    calls,
    stopped,        \* stopChan is closed
    removed,        \* Close was told that the instance is deregistered
    beat            \* a goroutine: "off", "wait", or the service it beats for

call == <<owner, service, calls>>
ending == <<stopped, removed>>
vars == <<server, registered, serviceName, call, ending, beat>>

TypeOK ==
    /\ server \subseteq Names
    /\ registered \in BOOLEAN /\ serviceName \in Names \cup {NoName}
    /\ owner \in {"idle", "registering", "answered", "answeredAuto", "deregistering",
                  "gone", "waiting", "removing", "done"}
    /\ service \in Names \cup {NoName}
    /\ calls \in 0..MaxCalls
    /\ stopped \in BOOLEAN /\ removed \in BOOLEAN
    /\ beat \in [Loops -> {"off", "wait"} \cup Names]

Init ==
    /\ server = {} /\ registered = FALSE /\ serviceName = NoName
    /\ owner = "idle" /\ service = NoName /\ calls = 0
    /\ stopped = FALSE /\ removed = FALSE
    /\ beat = [l \in Loops |-> "off"]

-----------------------------------------------------------------------------
Goes(l, to) == beat' = [beat EXCEPT ![l] = to]

(* A request that adds or removes an instance: whether Nacos gets it, and  *)
(* whether the client learns that.                                         *)
Request(changed, ok) ==
    \/ ok /\ server' = changed
    \/ ~ok /\ server' \in {server, changed}

(* RegisterInstance and AutoRegister, which then starts a goroutine. *)
Register(name) ==
    /\ owner = "idle" /\ calls < MaxCalls
    /\ calls' = calls + 1
    /\ service' = name
    /\ \E ok \in BOOLEAN, auto \in BOOLEAN :
          /\ Request(server \cup {name}, ok)
          /\ owner' = IF ~ok THEN "idle" ELSE IF auto THEN "answeredAuto" ELSE "answered"
          /\ auto => \E l \in Loops : beat[l] = "off"
    /\ UNCHANGED <<registered, serviceName, ending, beat>>

StartHeartbeat ==
    \E l \in Loops : beat[l] = "off" /\ Goes(l, "wait")

EndRegister ==
    /\ \/ owner = "answered" /\ UNCHANGED beat
       \/ owner = "answeredAuto" /\ StartHeartbeat
    /\ registered' = TRUE /\ serviceName' = service
    /\ owner' = "idle"
    /\ UNCHANGED <<server, service, calls, ending>>

(* DeregisterInstance, called by the application *)
Deregister(name) ==
    /\ owner = "idle" /\ calls < MaxCalls
    /\ calls' = calls + 1
    /\ service' = name
    /\ \E ok \in BOOLEAN : /\ Request(server \ {name}, ok)
                           /\ owner' = IF ok THEN "gone" ELSE "idle"
    /\ UNCHANGED <<registered, serviceName, ending, beat>>

EndDeregister ==
    /\ owner = "gone"
    /\ registered' = FALSE
    /\ owner' = "idle"
    /\ UNCHANGED <<server, serviceName, service, calls, ending, beat>>

BeginClose ==
    /\ owner = "idle"
    /\ stopped' = TRUE
    /\ owner' = "waiting"
    /\ UNCHANGED <<server, registered, serviceName, service, calls, removed, beat>>

(* mutant: Close does not wait for the goroutines *)
WaitNot ==
    /\ owner = "waiting"
    /\ owner' = IF registered THEN "removing" ELSE "done"
    /\ service' = serviceName
    /\ UNCHANGED <<server, registered, serviceName, calls, ending, beat>>

(* Close once c.wg.Wait returns. *)
Wait ==
    /\ owner = "waiting"
    /\ \A l \in Loops : beat[l] = "off"
    /\ owner' = IF registered THEN "removing" ELSE "done"
    /\ service' = serviceName
    /\ UNCHANGED <<server, registered, serviceName, calls, ending, beat>>

Remove ==
    /\ owner = "removing"
    /\ \E ok \in BOOLEAN : /\ Request(server \ {service}, ok)
                           /\ registered' = ~ok
                           /\ removed' = ok
    /\ owner' = "done"
    /\ UNCHANGED <<serviceName, service, calls, stopped, beat>>

-----------------------------------------------------------------------------
(* A tick: what is registered is read, and beaten for without the mutex.   *)
(* A tick and a closed stopChan may be there together, and select chooses. *)
ReadForBeat(l) ==
    /\ beat[l] = "wait" /\ registered
    /\ Goes(l, serviceName)
    /\ UNCHANGED <<server, registered, serviceName, call, ending>>

SendHeartbeat(l, got) ==
    /\ beat[l] \in Names
    /\ server' = IF got THEN server \cup {beat[l]} ELSE server
    /\ Goes(l, "wait")
    /\ UNCHANGED <<registered, serviceName, call, ending>>

StopHeartbeat(l) ==
    /\ stopped /\ beat[l] = "wait"
    /\ Goes(l, "off")
    /\ UNCHANGED <<server, registered, serviceName, call, ending>>

Forget(name) ==
    /\ name \in server
    /\ server' = server \ {name}
    /\ UNCHANGED <<registered, serviceName, call, ending, beat>>

Next ==
    \/ \E name \in Names : Register(name) \/ Deregister(name) \/ Forget(name)
    \/ EndRegister \/ EndDeregister \/ BeginClose \/ Wait \/ Remove
    \/ \E l \in Loops : \/ ReadForBeat(l) \/ StopHeartbeat(l)
                        \/ \E got \in BOOLEAN : SendHeartbeat(l, got)

Beats(l) == ReadForBeat(l) \/ \E got \in BOOLEAN : SendHeartbeat(l, got)
Owns == EndRegister \/ EndDeregister \/ Wait \/ Remove

(* Requests have a time-out, select does not always prefer one channel,    *)
(* and Nacos gets a heartbeat now and then.                                *)
Fairness ==
    /\ WF_vars(Owns)
    /\ \A l \in Loops : /\ WF_vars(Beats(l)) /\ SF_vars(StopHeartbeat(l))
                        /\ SF_vars(SendHeartbeat(l, TRUE))

Spec == Init /\ [][Next]_vars /\ Fairness

-----------------------------------------------------------------------------
(* Lines 605-625: once Close has returned nothing beats any more, and what *)
(* it was told is deregistered no late heartbeat has registered again.     *)
GoneAfterClose == owner = "done" =>
    /\ \A l \in Loops : beat[l] = "off"
    /\ removed => service \notin server

(* Lines 437-499: Nacos has what is registered and beaten for, again and   *)
(* again, until it is deregistered or the client is closed.                *)
StaysRegistered ==
    (registered /\ \E l \in Loops : beat[l] # "off")
        ~> (serviceName \in server \/ ~registered \/ stopped)

(* Line 607: Close returns. *)
CloseReturns == stopped ~> owner = "done"
=============================================================================
