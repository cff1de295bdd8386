------------------------------ MODULE ConnPool ------------------------------
(***************************************************************************)
(* The gRPC connection pool of framework/grpcpool/grpcpool.go.  Everything *)
(* it does holds p.mu and is one step, but a Get that waits for a          *)
(* connection: it waits with p.mu held and locks p.mu again at the first   *)
(* tick of its ticker, which no goroutine can ever let it do.              *)
(***************************************************************************)
EXTENDS Integers, FiniteSets

CONSTANTS
    Clients,
    Conns,          \* names for connections, used again when forgotten
    MaxSize, MinSize,
    NoConn

ASSUME SizesAssumption ==
    /\ MaxSize \in Nat \ {0} /\ MinSize \in 0..MaxSize
    /\ IsFiniteSet(Conns)
ASSUME NoConnAssumption == NoConn \notin Conns

VARIABLES
    pool,           \* p.pool
    inUse,          \* the connections marked inUse
    expired,        \* those idle or alive for too long
    broken,         \* those that were closed
    closed,         \* p.closed
    pc, held        \* what a client is doing, and the connection it has

poolVars == <<pool, inUse, expired, broken, closed>>
vars == <<poolVars, pc, held>>

TypeOK ==
    /\ pool \subseteq Conns
    /\ inUse \subseteq Conns /\ expired \subseteq Conns /\ broken \subseteq Conns
    /\ closed \in BOOLEAN
    /\ pc \in [Clients -> {"out", "using", "waiting", "stuck"}]
    /\ held \in [Clients -> Conns \cup {NoConn}]

(* NewConnPool dials minSize connections. *)
Init ==
    /\ pool \in {s \in SUBSET Conns : Cardinality(s) = MinSize}
    /\ inUse = {} /\ expired = {} /\ broken = {}
    /\ closed = FALSE
    /\ pc = [c \in Clients |-> "out"]
    /\ held = [c \in Clients |-> NoConn]

-----------------------------------------------------------------------------
Unlocked == \A c \in Clients : pc[c] \notin {"waiting", "stuck"}
Known == pool \cup {held[c] : c \in Clients}
Free == pool \ inUse
Usable == Free \ expired
Overdue == Free \cap expired

Take(c, conn) ==
    /\ pc' = [pc EXCEPT ![c] = "using"]
    /\ held' = [held EXCEPT ![c] = conn]
    /\ inUse' = inUse \cup {conn}

(* The scan: the expired connections it passes before a usable one are     *)
(* closed, and stay in the pool.  The order of the slice is left open.     *)
GetPooled(c) ==
    /\ Unlocked /\ ~closed /\ pc[c] = "out"
    /\ \E conn \in Usable, passed \in SUBSET Overdue :
          /\ Take(c, conn)
          /\ broken' = broken \cup passed
    /\ UNCHANGED <<pool, expired, closed>>

(* Nothing usable, and room: a connection is dialled, or the dial fails.   *)
GetNew(c) ==
    /\ Unlocked /\ ~closed /\ pc[c] = "out"
    /\ Usable = {} /\ Cardinality(pool) < MaxSize
    /\ \/ \E conn \in Conns \ Known :
             /\ Take(c, conn)
             /\ pool' = pool \cup {conn}
             /\ expired' = expired \ {conn}
             /\ broken' = (broken \cup Overdue) \ {conn}
       \/ /\ broken' = broken \cup Overdue
          /\ UNCHANGED <<pool, inUse, expired, pc, held>>
    /\ UNCHANGED closed

(* Nothing usable, and no room, be it for connections that are closed.     *)
GetWaits(c) ==
    /\ Unlocked /\ ~closed /\ pc[c] = "out"
    /\ Usable = {} /\ Cardinality(pool) >= MaxSize
    /\ pc' = [pc EXCEPT ![c] = "waiting"]
    /\ broken' = broken \cup Overdue
    /\ UNCHANGED <<pool, inUse, expired, closed, held>>

(* The context ends before the first tick. *)
GiveUp(c) ==
    /\ pc[c] = "waiting"
    /\ pc' = [pc EXCEPT ![c] = "out"]
    /\ UNCHANGED <<poolVars, held>>

(* The first tick: p.mu.Lock with p.mu held. *)
WaitTick(c) ==
    /\ pc[c] = "waiting"
    /\ pc' = [pc EXCEPT ![c] = "stuck"]
    /\ UNCHANGED <<poolVars, held>>

(* Put makes lastUsed now, which the lifetime does not look at. *)
Put(c) ==
    /\ Unlocked /\ pc[c] = "using"
    /\ pc' = [pc EXCEPT ![c] = "out"]
    /\ held' = [held EXCEPT ![c] = NoConn]
    /\ IF closed THEN /\ broken' = broken \cup {held[c]}
                      /\ UNCHANGED inUse
                 ELSE /\ inUse' = inUse \ {held[c]}
                      /\ UNCHANGED broken
    /\ UNCHANGED <<pool, expired, closed>>

Close ==
    /\ Unlocked
    /\ closed' = TRUE
    /\ broken' = broken \cup pool
    /\ pool' = {}
    /\ UNCHANGED <<inUse, expired, pc, held>>

(* What stays is kept with new connections up to minSize, fewer if a dial  *)
(* fails.                                                                  *)
Refill(stay) ==
    \E new \in SUBSET (Conns \ Known) :
        /\ new = {} \/ Cardinality(stay \cup new) <= MinSize
        /\ pool' = stay \cup new
        /\ expired' = expired \ new
        /\ broken' = (broken \cup (pool \ stay)) \ new
        /\ inUse' = inUse \ new

(* mutant: a connection in use goes when its time is over *)
MaintenanceOfAll ==
    /\ Unlocked /\ ~closed
    /\ Refill(pool \ expired)
    /\ UNCHANGED <<closed, pc, held>>

(* One round of maintenance. *)
Maintenance ==
    /\ Unlocked /\ ~closed
    /\ Refill(pool \ Overdue)
    /\ UNCHANGED <<closed, pc, held>>

(* maxLifetime ends at any time; idleTimeout only for a free connection,   *)
(* as Put begins it again.                                                 *)
Expire(conn) ==
    /\ conn \in pool \ expired
    /\ expired' = expired \cup {conn}
    /\ UNCHANGED <<pool, inUse, broken, closed, pc, held>>

Next ==
    \/ \E c \in Clients :
          \/ GetPooled(c) \/ GetNew(c) \/ GetWaits(c)
          \/ GiveUp(c) \/ WaitTick(c) \/ Put(c)
    \/ Close \/ Maintenance
    \/ \E conn \in Conns : Expire(conn)

Spec == Init /\ [][Next]_vars

-----------------------------------------------------------------------------
(* Line 147: a connection is never with two clients, and what a client has *)
(* is open until the pool is closed, although Get closes expired           *)
(* connections and leaves them where the next Get finds them.              *)
HeldAreGood ==
    \A c \in Clients : pc[c] = "using" =>
        /\ \A d \in Clients \ {c} : held[d] # held[c]
        /\ ~closed => held[c] \in (pool \cap inUse) \ broken

(* There are never more than maxSize connections open, and in use. *)
PoolBounded == Cardinality(pool) <= MaxSize

PoolSound == HeldAreGood /\ PoolBounded
=============================================================================
