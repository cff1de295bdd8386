------------------------------- MODULE MCLock -------------------------------
(***************************************************************************)
(* RedisLock and RedLock for TLC.  A behaviour is a behaviour of one of    *)
(* them, chosen in the initial state; the variables of the other keep      *)
(* their initial values.                                                   *)
(***************************************************************************)
EXTENDS RedisLock

CONSTANTS
    RedClients,     \* clients of RedLock
    Servers,
    RedTTL,
    MaxSpent,
    Flaky

VARIABLES lock, keys, phase, server, got, left, spent

Red == INSTANCE RedLock WITH Clients <- RedClients, TTL <- RedTTL

redVars == <<keys, phase, server, got, left, spent>>
mcVars == <<vars, redVars, lock>>

MCInit == Init /\ Red!Init /\ lock \in {"RedisLock", "RedLock"}

OnRedisLock(A) == lock = "RedisLock" /\ A /\ UNCHANGED <<lock, redVars>>
OnRedLock(A) == lock = "RedLock" /\ A /\ UNCHANGED <<lock, vars>>

MCNext == OnRedisLock(Next) \/ OnRedLock(Red!Next)

(* The fairness of RedisLock; clients of RedLock that have not crashed go  *)
(* on and its servers' time passes.                                        *)
MCSpec ==
    /\ MCInit
    /\ [][MCNext]_mcVars
    /\ WF_mcVars(OnRedisLock(Tick) \/ OnRedLock(Red!Tick))
    /\ \A c \in Clients :
          /\ WF_mcVars(OnRedisLock(ClientStep(c)))
          /\ WF_mcVars(OnRedisLock(WatchdogStep(c)))
          /\ WF_mcVars(OnRedisLock(LateExtend(c)))
    /\ \A c \in RedClients : WF_mcVars(OnRedLock(Red!LockStep(c) \/ Red!Finish(c)))

-----------------------------------------------------------------------------
(* The lock that is used keeps its types, and the other stays as it was. *)
TypesOK == TypeOK /\ Red!TypeOK

(* redis_lock.go:273-310: RedLock is a lease as well, of whoever has its    *)
(* key on a majority of the servers, whatever commands and replies are     *)
(* lost and whatever earlier attempts left behind; and no late Unlock      *)
(* deletes another client's key, on any server.                            *)
RedLockSafe == Red!ImplementsLease /\ Red!OnlyOwnKeyDeleted

(* A lock comes free: the lease of RedisLock that nobody works under ends, *)
(* that of a holder that crashed and that of one who was never told it had *)
(* it included (redis_lock.go:67), Lock returns (lines 67 and 273), and so *)
(* does RedLock's Unlock.                                                  *)
LocksComeFree == Key!Abandoned /\ LockReturns /\ Red!CallsReturn
=============================================================================
