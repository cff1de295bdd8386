---------------------------- MODULE WebSocketHub ----------------------------
(***************************************************************************)
(* The hub of framework/websocket/server.go: one goroutine (Run) that      *)
(* takes registrations, departures, broadcasts and commands from channels, *)
(* and for every client a readPump, a writePump and the goroutines of its  *)
(* commands, which share the client's send channel.  A send on a closed    *)
(* channel, or a second close, is a panic of the process.                  *)
(*                                                                         *)
(* Messages are counted; a broadcast reaches any set of clients, as they   *)
(* subscribe when they like; the goroutines of one client's commands are   *)
(* one.                                                                    *)
(***************************************************************************)
EXTENDS Integers, FiniteSets, Sequences, Functions

CONSTANTS
    Clients,
    SendSize,       \* the capacity of send (256 in the code)
    QueueSize,      \* of broadcast and Command (256 and 64)
    MaxConnections

VARIABLES
    clients,        \* h.clients
    pc,             \* a client's Handler, then its readPump
    writing,        \* the clients whose writePump runs
    open,           \* those whose connection is open
    send,           \* messages in a client's channel
    sendClosed,
    broadcast, commands,
    replying,       \* the clients for which a command handler runs
    crashed         \* who panicked: "no", "reply", "hub"

clientVars == <<pc, writing, open>>
channels == <<send, sendClosed>>
queues == <<broadcast, commands, replying>>
vars == <<clients, clientVars, channels, queues, crashed>>

TypeOK ==
    /\ clients \subseteq Clients
    /\ pc \in [Clients -> {"out", "admitted", "joined", "reading", "leaving"}]
    /\ writing \subseteq Clients /\ open \subseteq Clients
    /\ send \in [Clients -> 0..SendSize] /\ sendClosed \subseteq Clients
    /\ broadcast \in 0..QueueSize
    /\ commands \in Seq(Clients) /\ Len(commands) <= QueueSize
    /\ replying \subseteq Clients
    /\ crashed \in {"no", "reply", "hub"}

Init ==
    /\ clients = {} /\ pc = [c \in Clients |-> "out"]
    /\ writing = {} /\ open = {}
    /\ send = [c \in Clients |-> 0] /\ sendClosed = {}
    /\ broadcast = 0 /\ commands = <<>> /\ replying = {}
    /\ crashed = "no"

-----------------------------------------------------------------------------
Up == crashed = "no"
Forgotten(c) == c \notin writing \cup replying \cup Range(commands)

(* Handler: the limit is looked at long before the client is registered.   *)
Admit(c) ==
    /\ Up /\ pc[c] = "out" /\ Forgotten(c)
    /\ Cardinality(clients) < MaxConnections
    /\ pc' = [pc EXCEPT ![c] = "admitted"]
    /\ open' = open \cup {c}
    /\ send' = [send EXCEPT ![c] = 0]
    /\ sendClosed' = sendClosed \ {c}
    /\ UNCHANGED <<clients, writing, queues, crashed>>

(* The hub takes the client from h.register, and Handler goes on. *)
Register(c) ==
    /\ Up /\ pc[c] = "admitted"
    /\ pc' = [pc EXCEPT ![c] = "joined"]
    /\ clients' = clients \cup {c}
    /\ UNCHANGED <<writing, open, channels, queues, crashed>>

StartPumps(c) ==
    /\ Up /\ pc[c] = "joined"
    /\ pc' = [pc EXCEPT ![c] = "reading"]
    /\ writing' = writing \cup {c}
    /\ UNCHANGED <<clients, open, channels, queues, crashed>>

(* The peer goes away, or does not answer the pings. *)
Disconnect(c) ==
    /\ Up /\ c \in open
    /\ open' = open \ {c}
    /\ UNCHANGED <<clients, pc, writing, channels, queues, crashed>>

ReadCommand(c) ==
    /\ Up /\ pc[c] = "reading" /\ c \in open /\ Len(commands) < QueueSize
    /\ commands' = Append(commands, c)
    /\ UNCHANGED <<clients, clientVars, channels, broadcast, replying, crashed>>

ReadFails(c) ==
    /\ Up /\ pc[c] = "reading" /\ c \notin open
    /\ pc' = [pc EXCEPT ![c] = "leaving"]
    /\ UNCHANGED <<clients, writing, open, channels, queues, crashed>>

(* The hub takes the client from h.unregister, and readPump ends. *)
Unregister(c) ==
    /\ Up /\ pc[c] = "leaving"
    /\ pc' = [pc EXCEPT ![c] = "out"]
    /\ clients' = clients \ {c}
    /\ sendClosed' = IF c \in clients THEN sendClosed \cup {c} ELSE sendClosed
    /\ crashed' = IF c \in clients \cap sendClosed THEN "hub" ELSE crashed
    /\ open' = open \ {c}
    /\ UNCHANGED <<writing, send, queues>>

(* writePump writes all that is in the channel, or fails and closes the    *)
(* connection.                                                             *)
WriteMessages(c) ==
    /\ Up /\ c \in writing /\ send[c] > 0
    /\ send' = [send EXCEPT ![c] = 0]
    /\ writing' = IF c \in open THEN writing ELSE writing \ {c}
    /\ UNCHANGED <<clients, pc, open, sendClosed, queues, crashed>>

(* It ends when the channel is closed, or the ticker's ping fails. *)
EndWriting(c) ==
    /\ Up /\ c \in writing
    /\ (send[c] = 0 /\ c \in sendClosed) \/ c \notin open
    /\ writing' = writing \ {c}
    /\ open' = open \ {c}
    /\ UNCHANGED <<clients, pc, channels, queues, crashed>>

-----------------------------------------------------------------------------
(* BroadcastToChannel, which drops the message when the queue is full. *)
BroadcastToChannel ==
    /\ Up /\ broadcast < QueueSize
    /\ broadcast' = broadcast + 1
    /\ UNCHANGED <<clients, clientVars, channels, commands, replying, crashed>>

Full(reached) == {c \in reached : send[c] = SendSize}

(* The hub sends to those it reaches; who does not keep up is dropped.     *)
Deliver(reached) ==
    /\ Up /\ broadcast > 0
    /\ broadcast' = broadcast - 1
    /\ crashed' = IF reached \cap sendClosed = {} THEN "no" ELSE "hub"
    /\ send' = [c \in Clients |-> IF c \in reached \ Full(reached) THEN send[c] + 1 ELSE send[c]]
    /\ sendClosed' = sendClosed \cup Full(reached)

Broadcast(reached) ==
    /\ Deliver(reached)
    /\ clients' = clients \ Full(reached)
    /\ UNCHANGED <<clientVars, commands, replying>>

(* The hub starts a goroutine with the command's handler. *)
StartCommand ==
    /\ Up /\ commands # <<>>
    /\ commands' = Tail(commands)
    /\ replying' = replying \cup {Head(commands)}
    /\ UNCHANGED <<clients, clientVars, channels, broadcast, crashed>>

(* reply: dropped when the channel is full, a panic when it is closed.     *)
Reply(c) ==
    /\ Up /\ c \in replying
    /\ IF c \in sendClosed
         THEN crashed' = "reply" /\ UNCHANGED send
         ELSE /\ send' = [send EXCEPT ![c] = IF @ < SendSize THEN @ + 1 ELSE @]
              /\ UNCHANGED crashed
    /\ UNCHANGED <<clients, clientVars, sendClosed, queues>>

EndCommand(c) ==
    /\ Up /\ c \in replying
    /\ replying' = replying \ {c}
    /\ UNCHANGED <<clients, clientVars, channels, broadcast, commands, crashed>>

Pumps(c) == StartPumps(c) \/ ReadFails(c) \/ WriteMessages(c) \/ EndWriting(c)

Next ==
    \/ \E c \in Clients :
          \/ Admit(c) \/ Register(c) \/ Disconnect(c) \/ ReadCommand(c) \/ Pumps(c)
          \/ Unregister(c) \/ Reply(c) \/ EndCommand(c)
    \/ StartCommand \/ BroadcastToChannel
    \/ \E reached \in SUBSET clients : Broadcast(reached)

(* The goroutines of the pumps run; the hub's select chooses at random     *)
(* among the channels that are ready, so none is left out for ever.        *)
Fairness == \A c \in Clients : WF_vars(Pumps(c)) /\ SF_vars(Unregister(c))

Spec == Init /\ [][Next]_vars /\ Fairness

-----------------------------------------------------------------------------
(* Lines 245 and 261: the hub itself never sends on a channel it has       *)
(* closed and never closes one twice, although broadcasts and departures   *)
(* both close them.                                                        *)
HubSurvives == crashed # "hub"

(* Lines 239 and 259: a client that is gone, or was dropped because it did *)
(* not keep up, leaves the hub, and its connection and pumps end.          *)
GoneClientsLeave ==
    \A c \in Clients :
        (pc[c] = "reading" /\ (c \notin open \/ c \in sendClosed))
            ~> ((pc[c] = "out" /\ c \notin clients \cup writing \cup open) \/ ~Up)
=============================================================================
