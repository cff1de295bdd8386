----------------------------- MODULE RedisLock -----------------------------
(***************************************************************************)
(* The distributed lock of framework/lock/redis_lock.go: Lock,             *)
(* LockWithContextTimeout, Unlock, Extend, WithLock, the watchdog and      *)
(* WithWatchdogLock, for clients that each have a RedisLock of their own   *)
(* (its value is a fresh UUID) on one key of one Redis server.  A command  *)
(* of Redis, scripts included, is one step.                                *)
(*                                                                         *)
(* Time: a tick is only taken when no ticker of a watchdog is due and no   *)
(* closure of WithLock has used up MaxHold, so the watchdogs are punctual  *)
(* and MaxHold bounds the work done under a lock without a watchdog.       *)
(***************************************************************************)
EXTENDS Naturals, FiniteSets

CONSTANTS
    Clients,
    TTL,            \* LockConfig.TTL
    Retry,          \* LockConfig.Retry
    WatchInterval,  \* the 2 seconds of WithWatchdogLock
    MaxHold,        \* ticks the closure of WithLock takes at most
    Failing         \* commands that may fail: "setnx", "extend", "unlock"

ASSUME ClientsAssumption == Clients # {}
ASSUME TTLAssumption == TTL \in Nat \ {0}
ASSUME RetryAssumption == Retry \in Nat \ {0}
ASSUME WatchAssumption == WatchInterval \in Nat \ {0}
ASSUME HoldAssumption == MaxHold \in Nat \ {0}

NoOne == "no_one"
ASSUME NoOneAssumption == NoOne \notin Clients

VARIABLES
    owner,          \* whose value the key has, NoOne when it does not exist
    ttl,            \* what is left of the key's time to live
    pc,             \* what each client does
    tries,          \* attempts Lock has left
    held,           \* ticks the closure of WithLock has taken
    watch,          \* a client's watchdog, "dead" once Extend has failed
    timer,          \* ticks until the watchdog's ticker fires
    late            \* a stopped watchdog may extend the lock once more

redisVars == <<owner, ttl>>
clientVars == <<pc, tries, held>>
watchVars == <<watch, timer, late>>
vars == <<redisVars, clientVars, watchVars>>

TypeOK ==
    /\ owner \in Clients \cup {NoOne}
    /\ ttl \in 0..TTL
    /\ pc \in [Clients -> {"idle", "locking", "waiting", "critical", "unlocking", "crashed"}]
    /\ tries \in [Clients -> 0..Retry]
    /\ held \in [Clients -> 0..MaxHold]
    /\ watch \in [Clients -> {"off", "on", "dead"}]
    /\ timer \in [Clients -> 0..WatchInterval]
    /\ late \in [Clients -> {"no", "yes"}]

Init ==
    /\ owner = NoOne
    /\ ttl = 0
    /\ pc = [c \in Clients |-> "idle"]
    /\ tries = [c \in Clients |-> 0]
    /\ held = [c \in Clients |-> 0]
    /\ watch = [c \in Clients |-> "off"]
    /\ timer = [c \in Clients |-> 0]
    /\ late = [c \in Clients |-> "no"]

-----------------------------------------------------------------------------
(* Lock makes Retry attempts, LockWithContextTimeout goes on until its     *)
(* deadline.                                                               *)
BeginLock(c) ==
    /\ pc[c] = "idle"
    /\ pc' = [pc EXCEPT ![c] = "locking"]
    /\ tries' = [tries EXCEPT ![c] = Retry]
    /\ UNCHANGED <<redisVars, held, watchVars>>

BeginLockWithTimeout(c) ==
    /\ pc[c] = "idle"
    /\ pc' = [pc EXCEPT ![c] = "waiting"]
    /\ UNCHANGED <<redisVars, tries, held, watchVars>>

SetKey(c) ==
    /\ owner' = c
    /\ ttl' = TTL

(* mutant: SET instead of SET NX *)
AcquireAnyway(c, w) ==
    /\ pc[c] \in {"locking", "waiting"}
    /\ SetKey(c)
    /\ pc' = [pc EXCEPT ![c] = "critical"]
    /\ held' = [held EXCEPT ![c] = 0]
    /\ watch' = [watch EXCEPT ![c] = w]
    /\ timer' = [timer EXCEPT ![c] = IF w = "on" THEN WatchInterval ELSE 0]
    /\ tries' = [tries EXCEPT ![c] = 0]
    /\ UNCHANGED late

(* mutant: the key is set without an expiry *)
AcquireNoExpiry(c, w) ==
    /\ pc[c] \in {"locking", "waiting"}
    /\ owner = NoOne
    /\ owner' = c
    /\ ttl' = 0
    /\ pc' = [pc EXCEPT ![c] = "critical"]
    /\ held' = [held EXCEPT ![c] = 0]
    /\ watch' = [watch EXCEPT ![c] = w]
    /\ timer' = [timer EXCEPT ![c] = IF w = "on" THEN WatchInterval ELSE 0]
    /\ tries' = [tries EXCEPT ![c] = 0]
    /\ UNCHANGED late

(* SETNX succeeds and the closure of WithLock (w = "off") or of            *)
(* WithWatchdogLock (w = "on") starts.                                     *)
Acquire(c, w) ==
    /\ pc[c] \in {"locking", "waiting"}
    /\ owner = NoOne
    /\ SetKey(c)
    /\ pc' = [pc EXCEPT ![c] = "critical"]
    /\ held' = [held EXCEPT ![c] = 0]
    /\ watch' = [watch EXCEPT ![c] = w]
    /\ timer' = [timer EXCEPT ![c] = IF w = "on" THEN WatchInterval ELSE 0]
    /\ tries' = [tries EXCEPT ![c] = 0]
    /\ UNCHANGED late

(* One attempt fewer; Lock gives up after the last. *)
Attempt(c) ==
    \/ /\ pc[c] = "locking"
       /\ tries' = [tries EXCEPT ![c] = @ - 1]
       /\ pc' = [pc EXCEPT ![c] = IF tries[c] = 1 THEN "idle" ELSE "locking"]
    \/ /\ pc[c] = "waiting"
       /\ UNCHANGED <<pc, tries>>

(* SETNX finds the key. *)
Refused(c) ==
    /\ owner # NoOne
    /\ Attempt(c)
    /\ UNCHANGED <<redisVars, held, watchVars>>

(* SETNX fails, before or after Redis executed it; the error is ignored. *)
AcquireFails(c) ==
    /\ "setnx" \in Failing
    /\ Attempt(c)
    /\ \/ UNCHANGED redisVars
       \/ owner = NoOne /\ SetKey(c)
    /\ UNCHANGED <<held, watchVars>>

(* The deadline of LockWithContextTimeout passes or its context ends. *)
GiveUp(c) ==
    /\ pc[c] = "waiting"
    /\ pc' = [pc EXCEPT ![c] = "idle"]
    /\ UNCHANGED <<redisVars, tries, held, watchVars>>

(* The closure returns; Watchdog.Stop closes stopChan, but the goroutine's *)
(* select may still choose a tick that is ready too.                       *)
Finish(c) ==
    /\ pc[c] = "critical"
    /\ pc' = [pc EXCEPT ![c] = "unlocking"]
    /\ late' = [late EXCEPT ![c] = IF watch[c] = "on" THEN "yes" ELSE @]
    /\ watch' = [watch EXCEPT ![c] = "off"]
    /\ held' = [held EXCEPT ![c] = 0]
    /\ timer' = [timer EXCEPT ![c] = 0]
    /\ UNCHANGED <<redisVars, tries>>

(* mutant: DEL without the comparison *)
UnlockAny(c) ==
    /\ pc[c] = "unlocking"
    /\ owner' = NoOne /\ ttl' = 0
    /\ pc' = [pc EXCEPT ![c] = "idle"]
    /\ UNCHANGED <<tries, held, watchVars>>

(* Unlock: the script deletes the key if it has this client's value. *)
Unlock(c) ==
    /\ pc[c] = "unlocking"
    /\ IF owner = c THEN owner' = NoOne /\ ttl' = 0 ELSE UNCHANGED redisVars
    /\ pc' = [pc EXCEPT ![c] = "idle"]
    /\ UNCHANGED <<tries, held, watchVars>>

UnlockFails(c) ==
    /\ "unlock" \in Failing
    /\ pc[c] = "unlocking"
    /\ pc' = [pc EXCEPT ![c] = "idle"]
    /\ UNCHANGED <<redisVars, tries, held, watchVars>>

(* mutant: PEXPIRE adds to the time that is left *)
ExtendKeyAdds(c) ==
    IF owner = c THEN ttl' = ttl + TTL /\ UNCHANGED owner ELSE UNCHANGED redisVars

(* Extend: the script sets the time to live if the key has this client's   *)
(* value.  That it did not is no error, and nobody hears of it.            *)
ExtendKey(c) ==
    IF owner = c THEN ttl' = TTL /\ UNCHANGED owner ELSE UNCHANGED redisVars

WatchdogExtend(c) ==
    /\ watch[c] = "on"
    /\ timer[c] = 0
    /\ ExtendKey(c)
    /\ timer' = [timer EXCEPT ![c] = WatchInterval]
    /\ UNCHANGED <<clientVars, watch, late>>

(* Extend returns an error: the watchdog is gone, the closure goes on. *)
WatchdogExtendFails(c) ==
    /\ "extend" \in Failing
    /\ watch[c] = "on"
    /\ timer[c] = 0
    /\ watch' = [watch EXCEPT ![c] = "dead"]
    /\ UNCHANGED <<redisVars, clientVars, timer, late>>

LateExtend(c) ==
    /\ late[c] = "yes"
    /\ \/ ExtendKey(c)
       \/ UNCHANGED redisVars
    /\ late' = [late EXCEPT ![c] = "no"]
    /\ UNCHANGED <<clientVars, watch, timer>>

(* The client's process dies. *)
Crash(c) ==
    /\ pc[c] # "crashed"
    /\ pc' = [pc EXCEPT ![c] = "crashed"]
    /\ watch' = [watch EXCEPT ![c] = "off"]
    /\ late' = [late EXCEPT ![c] = "no"]
    /\ UNCHANGED <<redisVars, tries, held, timer>>

Critical(c) == pc[c] = "critical"

Tick ==
    /\ \A c \in Clients : watch[c] = "on" => timer[c] > 0
    /\ \A c \in Clients : Critical(c) /\ watch[c] = "off" => held[c] < MaxHold
    /\ ttl' = IF ttl > 0 THEN ttl - 1 ELSE 0
    /\ owner' = IF ttl = 1 THEN NoOne ELSE owner
    /\ held' = [c \in Clients |->
                  IF Critical(c) /\ watch[c] = "off" THEN held[c] + 1 ELSE held[c]]
    /\ timer' = [c \in Clients |->
                  IF watch[c] = "on" THEN timer[c] - 1 ELSE timer[c]]
    /\ UNCHANGED <<pc, tries, watch, late>>

TryLock(c) ==
    \/ \E w \in {"off", "on"} : Acquire(c, w)
    \/ Refused(c)
    \/ AcquireFails(c)

Next ==
    \/ \E c \in Clients :
          \/ BeginLock(c) \/ BeginLockWithTimeout(c)
          \/ TryLock(c) \/ GiveUp(c)
          \/ Finish(c) \/ Unlock(c) \/ UnlockFails(c)
          \/ WatchdogExtend(c) \/ WatchdogExtendFails(c) \/ LateExtend(c)
          \/ Crash(c)
    \/ Tick

Spec == Init /\ [][Next]_vars

ClientStep(c) == TryLock(c) \/ Finish(c) \/ Unlock(c) \/ UnlockFails(c)
WatchdogStep(c) == WatchdogExtend(c) \/ WatchdogExtendFails(c)

(* Clients that have not crashed go on, closures return, time passes. *)
Fairness ==
    /\ WF_vars(Tick)
    /\ \A c \in Clients :
          WF_vars(ClientStep(c)) /\ WF_vars(WatchdogStep(c)) /\ WF_vars(LateExtend(c))

FairSpec == Spec /\ Fairness

-----------------------------------------------------------------------------
(* No two clients are in their critical sections at once. *)
Exclusion == \A c, d \in Clients : Critical(c) /\ Critical(d) => c = d

(* A client whose watchdog, if it has one, still extends the lock. *)
Guarded(c) == Critical(c) /\ watch[c] # "dead"

(* The lock excludes all but the clients whose watchdog has given up.      *)
MutualExclusion == \A c, d \in Clients : Guarded(c) /\ Guarded(d) => c = d

(* The key is a lease, and those work under it whose watchdog, if they     *)
(* have one, still extends it: the key is only set when it does not exist, *)
(* nobody works without it, and it does not go while its client works      *)
(* (redis_lock.go:67-113, 146-237).                                        *)
Key == INSTANCE Lease WITH holder <- owner, inside <- {c \in Clients : Guarded(c)}
ImplementsLease == Key!Spec

(* Such a client has the key, with time left on it. *)
HolderHasKey == \A c \in Clients : Guarded(c) => owner = c /\ ttl > 0

(* redis_lock.go:101: Unlock never deletes the lock of somebody else.  The *)
(* key goes only when its time is up or its own client unlocks it, however *)
(* late the others unlock or extend, and whoever replaces it found it gone. *)
OnlyOwnKeyDeleted ==
    [][owner # NoOne /\ owner' # owner
        => owner' = NoOne /\ (ttl = 1 \/ pc[owner] = "unlocking")]_vars

(* A call of Lock returns. *)
LockReturns == \A c \in Clients : pc[c] = "locking" ~> pc[c] # "locking"
=============================================================================
