------------------------------ MODULE RedLock ------------------------------
(***************************************************************************)
(* The lock over several Redis servers of framework/lock/redis_lock.go:    *)
(* Lock and Unlock of RedLock, for clients that each have a RedLock of     *)
(* their own.  Lock does not look at the time its commands take: that the  *)
(* time from an attempt's first command to the end of the critical section *)
(* is less than the time to live is an assumption on the clients.          *)
(***************************************************************************)
EXTENDS Integers, FiniteSets

CONSTANTS
    Clients,
    Servers,        \* number of Redis servers
    TTL,            \* LockConfig.TTL
    Retry,          \* LockConfig.Retry
    MaxSpent,       \* ticks from the start of an attempt to Unlock
    Flaky           \* servers whose commands may fail

VARIABLES
    keys,           \* the key on each server: whose value, what time is left
    phase,          \* what each client does
    server,         \* the next server of its loop
    got,            \* the servers counted in successCount
    left,           \* attempts left
    spent           \* ticks since the attempt started

loopVars == <<phase, server, got, left, spent>>
vars == <<keys, loopVars>>

NoOne == "no_one"
Free == [owner |-> NoOne, ttl |-> 0]
Key == [owner : Clients, ttl : 1..TTL] \cup {Free}

TypeOK ==
    /\ keys \in [1..Servers -> Key]
    /\ phase \in [Clients -> {"idle", "setting", "releasing", "critical",
                              "unlocking", "crashed"}]
    /\ server \in [Clients -> 1..Servers + 1]
    /\ got \in [Clients -> SUBSET (1..Servers)]
    /\ left \in [Clients -> 0..Retry]
    /\ spent \in [Clients -> 0..MaxSpent]

Init ==
    /\ keys = [s \in 1..Servers |-> Free]
    /\ phase = [c \in Clients |-> "idle"]
    /\ server = [c \in Clients |-> 1]
    /\ got = [c \in Clients |-> {}]
    /\ left = [c \in Clients |-> 0]
    /\ spent = [c \in Clients |-> 0]

-----------------------------------------------------------------------------
(* The client enters a phase that goes over the servers from the first on. *)
Enter(c, p) ==
    /\ phase' = [phase EXCEPT ![c] = p]
    /\ server' = [server EXCEPT ![c] = 1]
    /\ spent' = [spent EXCEPT ![c] = IF p = "critical" THEN @ ELSE 0]

BeginLock(c) ==
    /\ phase[c] = "idle"
    /\ Enter(c, "setting")
    /\ left' = [left EXCEPT ![c] = Retry]
    /\ UNCHANGED <<keys, got>>

NextServer(c) ==
    /\ server[c] <= Servers
    /\ server' = [server EXCEPT ![c] = @ + 1]
    /\ UNCHANGED <<phase, left, spent>>

SetKey(c) == keys' = [keys EXCEPT ![server[c]] = [owner |-> c, ttl |-> TTL]]
IsFree(c) == keys[server[c]] = Free

(* SETNX is refused, succeeds, or fails with or without having set the key. *)
SetOne(c) ==
    /\ phase[c] = "setting"
    /\ NextServer(c)
    /\ \/ IsFree(c) /\ SetKey(c) /\ got' = [got EXCEPT ![c] = @ \cup {server[c]}]
       \/ ~IsFree(c) /\ UNCHANGED <<keys, got>>
       \/ server[c] \in Flaky /\ IsFree(c) /\ SetKey(c) /\ UNCHANGED got
       \/ server[c] \in Flaky /\ UNCHANGED <<keys, got>>

(* successCount > len(l.clients)/2 *)
Majority(n) == n > Servers \div 2

Granted(c) ==
    /\ phase[c] = "setting" /\ server[c] > Servers
    /\ Majority(Cardinality(got[c]))
    /\ Enter(c, "critical")
    /\ left' = [left EXCEPT ![c] = 0]
    /\ UNCHANGED <<keys, got>>

NotGranted(c) ==
    /\ phase[c] = "setting" /\ server[c] > Servers
    /\ ~Majority(Cardinality(got[c]))
    /\ Enter(c, "releasing")
    /\ UNCHANGED <<keys, got, left>>

(* The critical section ends and Unlock starts. *)
Finish(c) ==
    /\ phase[c] = "critical"
    /\ Enter(c, "unlocking")
    /\ got' = [got EXCEPT ![c] = {}]
    /\ UNCHANGED <<keys, left>>

(* Unlock runs the script on every server; its errors are ignored. *)
ReleaseOne(c) ==
    /\ phase[c] \in {"releasing", "unlocking"}
    /\ NextServer(c)
    /\ \/ keys[server[c]].owner = c /\ keys' = [keys EXCEPT ![server[c]] = Free]
       \/ keys[server[c]].owner # c /\ UNCHANGED keys
       \/ server[c] \in Flaky /\ UNCHANGED keys
    /\ UNCHANGED got

(* mutant: successCount is not reset for the next attempt *)
AttemptKeepsCount(c) ==
    /\ phase[c] = "releasing" /\ server[c] > Servers
    /\ left' = [left EXCEPT ![c] = @ - 1]
    /\ Enter(c, IF left[c] > 1 THEN "setting" ELSE "idle")
    /\ UNCHANGED <<keys, got>>

(* The next attempt, or Lock returns false. *)
AttemptFailed(c) ==
    /\ phase[c] = "releasing" /\ server[c] > Servers
    /\ left' = [left EXCEPT ![c] = @ - 1]
    /\ got' = [got EXCEPT ![c] = {}]
    /\ Enter(c, IF left[c] > 1 THEN "setting" ELSE "idle")
    /\ UNCHANGED keys

Released(c) ==
    /\ phase[c] = "unlocking" /\ server[c] > Servers
    /\ Enter(c, "idle")
    /\ UNCHANGED <<keys, got, left>>

Crash(c) ==
    /\ phase[c] # "crashed"
    /\ Enter(c, "crashed")
    /\ got' = [got EXCEPT ![c] = {}]
    /\ left' = [left EXCEPT ![c] = 0]
    /\ UNCHANGED keys

(* The critical section and the attempt that led to it are timed. *)
Timed(c) == phase[c] \in {"setting", "critical"}

Aged(key) == IF key.ttl > 1 THEN [key EXCEPT !.ttl = @ - 1] ELSE Free

Tick ==
    /\ \A c \in Clients : Timed(c) => spent[c] < MaxSpent
    /\ spent' = [c \in Clients |-> IF Timed(c) THEN spent[c] + 1 ELSE spent[c]]
    /\ keys' = [s \in 1..Servers |-> Aged(keys[s])]
    /\ UNCHANGED <<phase, server, got, left>>

LockStep(c) ==
    \/ SetOne(c) \/ Granted(c) \/ NotGranted(c)
    \/ ReleaseOne(c) \/ AttemptFailed(c) \/ Released(c)

Next ==
    \/ \E c \in Clients : BeginLock(c) \/ LockStep(c) \/ Finish(c) \/ Crash(c)
    \/ Tick

Spec == Init /\ [][Next]_vars

-----------------------------------------------------------------------------
Critical(c) == phase[c] = "critical"
Owned(c) == {s \in 1..Servers : keys[s].owner = c}

(* Who has its key on a majority of the servers has a lease, and works     *)
(* under it: the majority stands while its client works, whatever replies  *)
(* were lost and whatever earlier attempts left behind                     *)
(* (redis_lock.go:273-310).                                                *)
Leader == {c \in Clients : Majority(Cardinality(Owned(c)))}
Holder == IF Leader = {} THEN NoOne ELSE CHOOSE c \in Leader : TRUE
Keys == INSTANCE Lease WITH holder <- Holder, inside <- {c \in Clients : Critical(c)}
ImplementsLease == Keys!Spec

(* The key of another client is never deleted before its time. *)
OnlyOwnKeyDeleted ==
    [][\A s \in 1..Servers :
          LET key == keys[s] IN
          key # Free /\ keys'[s].owner # key.owner
              => /\ keys'[s] = Free
                 /\ key.ttl = 1 \/ phase[key.owner] \in {"releasing", "unlocking"}]_vars

(* A call of Lock returns, and so does Unlock. *)
CallsReturn ==
    \A c \in Clients :
        phase[c] \notin {"idle", "critical", "crashed"}
            ~> phase[c] \in {"idle", "critical", "crashed"}
=============================================================================
