---------------------------- MODULE RabbitClient ----------------------------
(***************************************************************************)
(* The connection of framework/rabbitmq/client.go and the goroutines that  *)
(* watch it: Connect starts one at every connection it makes; it asks the  *)
(* connection to be notified of its end and reconnects when it is.  c.mu   *)
(* is held through a dial, so a dial is one step, but a dial that is given *)
(* up sets c.conn later, without c.mu.                                     *)
(*                                                                         *)
(* Connections are names, used again when neither c.conn nor a watcher has *)
(* them; pauses are left out.                                              *)
(***************************************************************************)
EXTENDS Integers, FiniteSets

CONSTANTS
    Watchers,       \* bound: goroutines that watch
    Links,          \* names of connections
    MaxRetries,
    MaxLate,        \* bound: dials given up that are still going on
    NoLink

VARIABLES
    open,           \* the connections that are open
    conn,           \* c.conn
    connected, reconnecting,
    closing,        \* Close: "no", "begun" (closeChan is closed), "done"
    late,           \* dials given up
    limit,          \* config.MaxRetries, 0 for no limit
    pc, on, retries \* of a watcher, and the connection it watches

watchVars == <<pc, on, retries>>
vars == <<open, conn, connected, reconnecting, closing, late, limit, watchVars>>

TypeOK ==
    /\ open \subseteq Links /\ conn \in Links \cup {NoLink}
    /\ connected \in BOOLEAN /\ reconnecting \in BOOLEAN
    /\ closing \in {"no", "begun", "done"}
    /\ late \in 0..MaxLate /\ limit \in {0, MaxRetries}
    /\ pc \in [Watchers -> {"off", "fetch", "ask", "waiting", "told",
                            "retry", "dial", "dialled"}]
    /\ on \in [Watchers -> Links \cup {NoLink}]
    /\ retries \in [Watchers -> 0..MaxRetries]

Init ==
    /\ open = {} /\ conn = NoLink
    /\ connected = FALSE /\ reconnecting = FALSE
    /\ closing = "no" /\ late = 0
    /\ limit \in {0, MaxRetries}
    /\ pc = [w \in Watchers |-> "off"]
    /\ on = [w \in Watchers |-> NoLink]
    /\ retries = [w \in Watchers |-> 0]

-----------------------------------------------------------------------------
Up == conn \in open
Stopped == closing # "no"
Watched == {on[w] : w \in Watchers}
Unused == Links \ (Watched \cup {conn})
Go(w, step) == pc' = [pc EXCEPT ![w] = step]

(* Which unused name it is makes no difference; what conn was before is    *)
(* forgotten unless it is watched, and is never closed.                    *)
NewLink ==
    /\ conn' = CHOOSE link \in Unused : TRUE
    /\ open' = (open \cap Watched) \cup {conn'}

DialSucceeds == NewLink /\ connected' = TRUE /\ UNCHANGED late
DialFails ==
    /\ late' \in {late, late + 1} \cap 0..MaxLate
    /\ UNCHANGED <<open, conn, connected>>

(* A dial that was given up succeeds or fails at last. *)
LateDial ==
    /\ late > 0
    /\ late' = late - 1
    /\ NewLink \/ UNCHANGED <<open, conn>>
    /\ UNCHANGED <<connected, reconnecting, closing, limit, watchVars>>

Connect ==
    /\ ~(connected /\ Up)
    /\ \/ \E w \in Watchers :
             /\ pc[w] = "off"
             /\ DialSucceeds /\ Go(w, "fetch")
       \/ DialFails /\ UNCHANGED pc
    /\ UNCHANGED <<reconnecting, closing, limit, on, retries>>

Break(link) ==
    /\ link \in open
    /\ open' = open \ {link}
    /\ UNCHANGED <<conn, connected, reconnecting, closing, late, limit, watchVars>>

(* Close, before and after it has c.mu. *)
BeginClose ==
    /\ closing = "no"
    /\ closing' = "begun"
    /\ UNCHANGED <<open, conn, connected, reconnecting, late, limit, watchVars>>

EndClose ==
    /\ closing = "begun"
    /\ closing' = "done"
    /\ connected' = FALSE
    /\ open' = open \ {conn}
    /\ UNCHANGED <<conn, reconnecting, late, limit, watchVars>>

-----------------------------------------------------------------------------
(* watchConnection *)
Fetch(w) ==
    /\ pc[w] = "fetch"
    /\ IF Stopped THEN Go(w, "off") /\ UNCHANGED on
                  ELSE Go(w, "ask") /\ on' = [on EXCEPT ![w] = conn]
    /\ UNCHANGED <<open, conn, connected, reconnecting, closing, late, limit, retries>>

Leave(w) == Go(w, "off") /\ on' = [on EXCEPT ![w] = NoLink]

(* NotifyClose of a connection that has ended gives a closed channel, and  *)
(* the goroutine takes that for the end of the client.                     *)
Ask(w) ==
    /\ pc[w] = "ask"
    /\ IF on[w] \in open THEN Go(w, "waiting") /\ UNCHANGED on ELSE Leave(w)
    /\ UNCHANGED <<open, conn, connected, reconnecting, closing, late, limit, retries>>

Told(w) ==
    /\ pc[w] = "waiting"
    /\ \/ /\ on[w] \notin open /\ closing # "done"
          /\ connected' = FALSE
          /\ Go(w, "told") /\ on' = [on EXCEPT ![w] = NoLink]
       \/ Stopped /\ Leave(w) /\ UNCHANGED connected
    /\ UNCHANGED <<open, conn, reconnecting, closing, late, limit, retries>>

(* reconnect *)
BeginReconnect(w) ==
    /\ pc[w] = "told"
    /\ IF reconnecting THEN Go(w, "fetch") ELSE Go(w, "retry")
    /\ reconnecting' = TRUE
    /\ retries' = [retries EXCEPT ![w] = 0]
    /\ UNCHANGED <<open, conn, connected, closing, late, limit, on>>

(* mutant: no limit is taken for a limit of no retries *)
RetryNever(w) ==
    /\ pc[w] = "retry"
    /\ IF Stopped \/ retries[w] = limit
         THEN Go(w, "dialled") /\ UNCHANGED retries
         ELSE /\ Go(w, "dial")
              /\ retries' = [retries EXCEPT ![w] = IF limit > 0 THEN @ + 1 ELSE @]
    /\ UNCHANGED <<open, conn, connected, reconnecting, closing, late, limit, on>>

Retry(w) ==
    /\ pc[w] = "retry"
    /\ IF Stopped \/ (limit > 0 /\ retries[w] = limit)
         THEN Go(w, "dialled") /\ UNCHANGED retries
         ELSE /\ Go(w, "dial")
              /\ retries' = [retries EXCEPT ![w] = IF limit > 0 THEN @ + 1 ELSE @]
    /\ UNCHANGED <<open, conn, connected, reconnecting, closing, late, limit, on>>

Redial(w) ==
    /\ pc[w] = "dial"
    /\ DialSucceeds /\ Go(w, "dialled")
    /\ UNCHANGED <<reconnecting, closing, limit, on, retries>>

RedialFails(w) ==
    /\ pc[w] = "dial"
    /\ DialFails /\ Go(w, "retry")
    /\ UNCHANGED <<reconnecting, closing, limit, on, retries>>

EndReconnect(w) ==
    /\ pc[w] = "dialled"
    /\ Go(w, "fetch")
    /\ reconnecting' = FALSE
    /\ UNCHANGED <<open, conn, connected, closing, late, limit, on, retries>>

Watch(w) ==
    \/ Fetch(w) \/ Ask(w) \/ Told(w)
    \/ BeginReconnect(w) \/ Retry(w) \/ RedialFails(w) \/ EndReconnect(w)

Next ==
    \/ \E w \in Watchers : Watch(w) \/ Redial(w)
    \/ \E link \in Links : Break(link)
    \/ Connect \/ LateDial \/ BeginClose \/ EndClose

(* The goroutines run, Close gets c.mu, and the broker can be reached      *)
(* again and again.                                                        *)
Fairness ==
    /\ \A w \in Watchers : WF_vars(Watch(w)) /\ SF_vars(Redial(w))
    /\ WF_vars(EndClose)

Spec == Init /\ [][Next]_vars /\ Fairness

-----------------------------------------------------------------------------
(* Line 174: however many goroutines see the end of a connection, one      *)
(* reconnects at a time.                                                   *)
OneReconnects ==
    \A v, w \in Watchers : pc[v] \in {"retry", "dial", "dialled"}
        /\ pc[w] \in {"retry", "dial", "dialled"} => v = w /\ reconnecting

(* Line 149: with no limit to the retries, a connection that ends while a  *)
(* goroutine waits for that, and none is reconnecting, is replaced, unless *)
(* the client is closed.                                                   *)
Reconnects ==
    (limit = 0 /\ ~reconnecting /\ ~Up /\ \E w \in Watchers : pc[w] = "waiting" /\ on[w] = conn)
        ~> (Up \/ Stopped)

=============================================================================
