------------------------------ MODULE Limiter -------------------------------
(***************************************************************************)
(* The limiters of framework/limiter.  limiter.go: one limiter of any of   *)
(* the four strategies is asked for permits at any moments; AllowN holds   *)
(* its mutex, so it is one step, and Wait is a number of AllowN.           *)
(* distributed_limiter.go: the token bucket that processes share in Redis; *)
(* AllowN reads the time of its own machine and then has Redis run a       *)
(* script with it.  Scripts run one after another, in another order than   *)
(* the times they carry.  The two share nothing; each has a next-state     *)
(* relation of its own.                                                    *)
(*                                                                         *)
(* The clocks count ticks.  A local rate is PerTick units to the tick and  *)
(* a permit costs Cost units, so a rate below one permit to the tick has   *)
(* its fractions: the bucket of tokens keeps them (a float64, taken as     *)
(* exact), the leaky bucket drops them (an int).  A tick adds Rate tokens  *)
(* to the shared bucket.                                                   *)
(***************************************************************************)
EXTENDS Integers, FiniteSetsExt

CONSTANTS
    Burst,          \* capacity of the two local buckets
    PerTick, Cost,
    WindowRequests, \* maxRequests of the two windows
    WindowSize,
    MaxN,           \* bound: permits asked for in one call
    MaxTime,        \* bound: the clock
    Clients,        \* of the shared bucket
    Rate, SharedBurst,
    BucketTtl,      \* int(interval.Seconds()) * 1000, in ticks
    Skew,           \* bound: how far a machine's clock is behind Redis
    MaxClock,       \* bound: the clock of Redis
    NoTime

VARIABLES
    strategy,
    now,
    level,          \* tokens (in units), water or count
    since,          \* lastRefill, lastLeak or windowStart
    stamps,         \* requests of the sliding window, by their time
    permits,        \* history: the permits given at each moment
    clock,
    at,             \* the time a client's call has read
    live,           \* the key exists
    stock, lastTime, expires,
    born,           \* history, of the bucket that lives: the time of
    latest,         \* its first script, the latest time of its scripts,
    granted         \* and the permits it gave

limits == <<level, since, stamps>>
localVars == <<strategy, now, limits, permits>>

Strategies == {"TokenBucket", "LeakyBucket", "SlidingWindow", "FixedWindow"}

LocalTypeOK ==
    /\ strategy \in Strategies
    /\ now \in 0..MaxTime /\ since \in 0..now
    /\ level \in 0..CASE strategy = "TokenBucket" -> Burst * Cost
                      [] strategy = "LeakyBucket" -> Burst
                      [] OTHER -> WindowRequests
    /\ stamps \in [0..MaxTime -> Nat]
    /\ permits \in [0..MaxTime -> Nat]

LocalInit ==
    /\ strategy \in Strategies
    /\ now = 0 /\ since = 0
    /\ level = IF strategy = "TokenBucket" THEN Burst * Cost ELSE 0
    /\ stamps = [t \in 0..MaxTime |-> 0]
    /\ permits = stamps

-----------------------------------------------------------------------------
Elapsed == now - since
Lower(a, b) == IF a < b THEN a ELSE b
Grant(n) == permits' = [permits EXCEPT ![now] = @ + n]
Refuse == UNCHANGED permits

AllowToken(n) ==
    LET tokens == Lower(Burst * Cost, level + Elapsed * PerTick) IN
    /\ strategy = "TokenBucket"
    /\ since' = now
    /\ IF tokens >= n * Cost THEN level' = tokens - n * Cost /\ Grant(n)
                             ELSE level' = tokens /\ Refuse
    /\ UNCHANGED stamps

AllowLeaky(n) ==
    LET leaked == Lower(level, (Elapsed * PerTick) \div Cost)
        water == level - leaked
    IN
    /\ strategy = "LeakyBucket"
    /\ since' = now
    /\ IF water + n <= Burst THEN level' = water + n /\ Grant(n)
                             ELSE level' = water /\ Refuse
    /\ UNCHANGED stamps

AllowSliding(n) ==
    LET valid == [t \in 0..MaxTime |-> IF t > now - WindowSize THEN stamps[t] ELSE 0] IN
    /\ strategy = "SlidingWindow"
    /\ IF MapThenSumSet(LAMBDA t : valid[t], 0..MaxTime) + n <= WindowRequests
         THEN stamps' = [valid EXCEPT ![now] = @ + n] /\ Grant(n)
         ELSE stamps' = valid /\ Refuse
    /\ UNCHANGED <<level, since>>

AllowFixed(n) ==
    LET over == Elapsed > WindowSize
        count == IF over THEN 0 ELSE level
    IN
    /\ strategy = "FixedWindow"
    /\ since' = IF over THEN now ELSE since
    /\ IF count + n <= WindowRequests THEN level' = count + n /\ Grant(n)
                                   ELSE level' = count /\ Refuse
    /\ UNCHANGED stamps

AllowN(n) ==
    /\ AllowToken(n) \/ AllowLeaky(n) \/ AllowSliding(n) \/ AllowFixed(n)
    /\ UNCHANGED <<strategy, now>>

LocalTick ==
    /\ now < MaxTime
    /\ now' = now + 1
    /\ UNCHANGED <<strategy, limits, permits>>

LocalNext == LocalTick \/ \E n \in 1..MaxN : AllowN(n)

LocalSpec == LocalInit /\ [][LocalNext]_localVars

-----------------------------------------------------------------------------
(* What a strategy may give away within d ticks, both ends included: a     *)
(* full bucket and what the rate adds; one limit for each window that the  *)
(* time touches, where a fixed window is at least WindowSize + 1 ticks.    *)
Allowance(d) ==
    CASE strategy \in {"TokenBucket", "LeakyBucket"} -> Burst + (d * PerTick) \div Cost
      [] strategy = "SlidingWindow" -> WindowRequests * (1 + d \div WindowSize)
      [] strategy = "FixedWindow" ->
            WindowRequests * (IF d = 0 THEN 1 ELSE 2 + (d - 1) \div (WindowSize + 1))

(* limiter.go:18, at any moments and however many permits are asked for:   *)
(* between any two moments no limiter gives more than its allowance.       *)
AllowancesKept ==
    \A t \in 0..now : \A u \in t..now :
        MapThenSumSet(LAMBDA v : permits[v], t..u) <= Allowance(u - t)

-----------------------------------------------------------------------------
bucket == <<live, stock, lastTime, expires>>
history == <<born, latest, granted>>
sharedVars == <<clock, at, bucket, history>>

SharedTypeOK ==
    /\ clock \in Nat
    /\ at \in [Clients -> Nat \cup {NoTime}]
    /\ live \in BOOLEAN
    /\ stock \in Int /\ lastTime \in Nat /\ expires \in Nat
    /\ born \in Nat /\ latest \in Nat /\ granted \in Nat

(* tokens and times mean nothing while there is no key *)
SharedInit ==
    /\ clock = 0
    /\ at = [c \in Clients |-> NoTime]
    /\ live = FALSE
    /\ stock = 0 /\ lastTime = 0 /\ expires = 0
    /\ born = 0 /\ latest = 0 /\ granted = 0

-----------------------------------------------------------------------------
Answered(c) == at' = [at EXCEPT ![c] = NoTime]

ReadTime(c) ==
    /\ at[c] = NoTime
    /\ \E t \in 0..clock : clock - t <= Skew /\ at' = [at EXCEPT ![c] = t]
    /\ UNCHANGED <<clock, bucket, history>>

(* The tokens the script finds after its refill, at time t. *)
Refilled(t) ==
    IF live THEN Lower(SharedBurst, stock + (t - lastTime) * Rate) ELSE SharedBurst

(* mutant: the refill is dated only when the request passes *)
ScriptUndated(c, n) ==
    LET t == at[c]
        new == Refilled(t)
        taken == IF new >= n THEN n ELSE 0
    IN
    /\ t # NoTime
    /\ stock' = new - taken
    /\ lastTime' = IF live /\ taken = 0 THEN lastTime ELSE t
    /\ live' = (BucketTtl > 0) /\ expires' = clock + BucketTtl
    /\ born' = IF live THEN born ELSE t
    /\ latest' = IF live /\ latest > t THEN latest ELSE t
    /\ granted' = IF live THEN granted + taken ELSE taken
    /\ Answered(c)
    /\ UNCHANGED clock

(* PEXPIRE with no time to live deletes the key. *)
Script(c, n) ==
    LET t == at[c]
        new == Refilled(t)
        taken == IF new >= n THEN n ELSE 0
    IN
    /\ t # NoTime
    /\ stock' = new - taken
    /\ lastTime' = t
    /\ live' = (BucketTtl > 0) /\ expires' = clock + BucketTtl
    /\ born' = IF live THEN born ELSE t
    /\ latest' = IF live /\ latest > t THEN latest ELSE t
    /\ granted' = IF live THEN granted + taken ELSE taken
    /\ Answered(c)
    /\ UNCHANGED clock

(* Redis cannot be reached: the request passes. *)
FailOpen(c) ==
    /\ at[c] # NoTime
    /\ Answered(c)
    /\ UNCHANGED <<clock, bucket, history>>

Forget ==
    /\ live' = FALSE
    /\ UNCHANGED <<clock, at, stock, lastTime, expires, history>>

SharedReset == live /\ Forget
Expire == live /\ clock >= expires /\ Forget

SharedTick ==
    /\ clock < MaxClock
    /\ clock' = clock + 1
    /\ UNCHANGED <<at, bucket, history>>

SharedNext ==
    \/ \E c \in Clients : \/ ReadTime(c) \/ FailOpen(c)
                          \/ \E n \in 1..MaxN : Script(c, n)
    \/ SharedReset \/ Expire \/ SharedTick

SharedSpec == SharedInit /\ [][SharedNext]_sharedVars

-----------------------------------------------------------------------------
(* Lines 99-118: as long as a bucket lives it gives away no more than it   *)
(* was born with and the rate has added between its first and its latest   *)
(* time, however late scripts run and however the machines' clocks differ. *)
BucketKept == live => granted <= SharedBurst + Rate * (latest - born)
=============================================================================
