---------------------------- MODULE QueueProofs ----------------------------
(***************************************************************************)
(* What the queue guarantees with each of its drivers, for any workers,    *)
(* jobs, delays and retries.  The drivers differ in where a job waits;     *)
(* what the workers rely on is the same for all, and is stated and proved  *)
(* here about the set W of the wrappers that wait.                         *)
(***************************************************************************)
EXTENDS MCQueue, TLAPS, FiniteSetTheorems, SequenceTheorems,
        WellFoundedInduction

(* Worker w has a job in its hands. *)
Has(w) == pc[w] \in {"early", "handling"}

(* A worker holds a wrapper exactly while it handles it or gives it back,  *)
(* and after Stop the workers leave.                                       *)
HandsFit ==
    /\ \A w \in Workers : held[w] # NoJob <=> Has(w)
    /\ running \/ \A w \in Workers : pc[w] \in {"idle", "exited"}
    /\ stop = "returned" => \A w \in Workers : pc[w] \in {"idle", "check", "exited"}

(* What a wrapper that is not handled says of its job: it is not due       *)
(* before the wrapper's wait is over, and RetryCount counts the starts.    *)
Honest(x) == due[x.job] <= x.wait /\ attempts[x.job] <= x.retry

(* A job that waits or is in a worker's hands is pending and in no other   *)
(* place, and nothing was started too early or too often.                  *)
Discipline(W) ==
    /\ \A x \in W : Honest(x) /\ fate[x.job] = "pending"
    /\ \A w \in Workers : Has(w) => fate[held[w].job] = "pending"
    /\ \A w \in Workers : pc[w] = "early" => Honest(held[w])
    /\ \A w \in Workers : pc[w] = "handling" =>
          due[held[w].job] = 0 /\ attempts[held[w].job] <= held[w].retry + 1
    /\ \A v, w \in Workers : Has(v) /\ Has(w) /\ held[v].job = held[w].job => v = w
    /\ \A w \in Workers, x \in W : Has(w) => held[w].job # x.job
    /\ \A j \in Jobs : fate[j] = "new" => attempts[j] = 0
    /\ AttemptsBounded

InHands(j) == \E w \in Workers : Has(w) /\ held[w].job = j
Waits(W, j) == \E x \in W : x.job = j

(* A job that is pending waits or is in a worker's hands. *)
Kept(W) == \A j \in Jobs : fate[j] = "pending" => Waits(W, j) \/ InHands(j)

(* Jobs pushed without a delay wait or are in a worker's hands until they  *)
(* end; they are never found early, so no retry of theirs is used up.      *)
Findable(W) ==
    \A j \in Jobs : asked[j] = 0 /\ fate[j] = "pending" => Waits(W, j) \/ InHands(j)
Exact(W) ==
    /\ \A x \in W : asked[x.job] = 0 => attempts[x.job] = x.retry
    /\ \A w \in Workers : Has(w) /\ asked[held[w].job] = 0 =>
          pc[w] = "handling" /\ attempts[held[w].job] = held[w].retry + 1
    /\ R!RetryBudget
Undelayed(W) == Findable(W) /\ Exact(W)

-----------------------------------------------------------------------------
(* Where jobs wait. *)
Elements(s) == {s[i] : i \in DOMAIN s}
Once(s) == \A i, k \in DOMAIN s : s[i].job = s[k].job => i = k

SyncWaiting == Elements(jobs)
SyncInv ==
    /\ Discipline(SyncWaiting)
    /\ Once(jobs)
    /\ Kept(SyncWaiting)

(* StartDelayedQueueProcessor is called once.  Two of them may both push a *)
(* job that one ZREM has removed.                                          *)
OneProcessor == \A p, q \in Processors : p = q

Moving == {moving[p] : p \in {q \in Processors : moving[q] # NoJob}}
RedisWaiting == Elements(list) \cup delayed \cup Moving

(* The list, the sorted set and the processor share no job. *)
Apart(M) ==
    /\ Once(list)
    /\ \A x, y \in delayed : x.job = y.job => x = y
    /\ \A x \in Elements(list), y \in delayed \cup M : x.job # y.job
    /\ \A x \in delayed, y \in M : x.job # y.job
    /\ \A p \in Processors : found[p] \subseteq delayed
    /\ \A p \in Processors : \A x \in found[p] : x.wait = 0
    /\ \A x \in Elements(list) \cup M : asked[x.job] = 0 => x.wait = 0

RedisInv ==
    /\ Discipline(RedisWaiting)
    /\ Apart(Moving)
    /\ Undelayed(RedisWaiting)

DatabaseWaiting == {rows[i].wrapper : i \in {k \in DOMAIN rows : ~rows[k].reserved}}
DatabaseInv ==
    /\ Discipline(DatabaseWaiting)
    /\ \A i, k \in DOMAIN rows : rows[i].wrapper.job = rows[k].wrapper.job => i = k
    /\ \A i \in DOMAIN rows : rows[i].wrapper.wait = rows[i].available
    /\ \A i \in DOMAIN rows : fate[rows[i].wrapper.job] # "new"
    /\ \A x \in DatabaseWaiting : attempts[x.job] = 0
    /\ D!RunAtMostOnce /\ D!NeverEarly

QueueInv ==
    /\ TypesOK /\ HandsFit
    /\ driver \in {"sync", "redis", "unregistered", "database"}
    /\ driver = "sync" => SyncInv
    /\ driver \in {"redis", "unregistered"} => RedisInv
    /\ driver = "database" => DatabaseInv

-----------------------------------------------------------------------------
(* The longest wait, and what wrappers are. *)
LEMMA WaitsEnd ==
    /\ MaxWait \in Nat
    /\ \A n \in Delays \cup {Backoff * MaxRetry} : n <= MaxWait
<1> DEFINE Waits_ == Delays \cup {Backoff * MaxRetry}
<1>1. Waits_ \subseteq Nat
  BY QueueAssumption
<1>2. \E n \in Waits_ : \A m \in Waits_ : m <= n
  <2>1. PICK d \in Delays : \A e \in Delays : e <= d
    BY QueueAssumption
  <2>2. CASE d <= Backoff * MaxRetry
    BY <1>1, <2>1, <2>2, QueueAssumption
  <2>3. CASE ~(d <= Backoff * MaxRetry)
    BY <1>1, <2>1, <2>3, QueueAssumption
  <2>4. QED
    BY <2>2, <2>3
<1>3. QED
  BY <1>1, <1>2 DEF MaxWait

(* The wait before a retry is some time, and never longer than the longest wait. *)
LEMMA BackoffEnds ==
    ASSUME NEW r \in 0..MaxRetry, r < MaxRetry
    PROVE  (r + 1) * Backoff \in 1..MaxWait
<1>1. (r + 1) * Backoff <= MaxRetry * Backoff /\ (r + 1) * Backoff >= 1
  BY QueueAssumption
<1>2. QED
  BY <1>1, WaitsEnd, QueueAssumption

(* What a wrapper holds, and that time passing keeps all of it but the wait. *)
LEMMA WrapperFields ==
    ASSUME NEW x \in Wrapper
    PROVE  /\ x # NoJob
           /\ x.job \in Jobs /\ x.retry \in 0..MaxRetry /\ x.wait \in 0..MaxWait
           /\ AgedWrapper(x) \in Wrapper
           /\ AgedWrapper(x).job = x.job /\ AgedWrapper(x).retry = x.retry
           /\ AgedWrapper(x).wait = Aged(x.wait)
<1>1. /\ x # NoJob
      /\ x.job \in Jobs /\ x.retry \in 0..MaxRetry /\ x.wait \in 0..MaxWait
  BY DEF Wrapper, NoJob
<1>2. AgedWrapper(x) = [x EXCEPT !.wait = Aged(@)]
  BY <1>1 DEF AgedWrapper
<1>3. Aged(x.wait) \in 0..MaxWait
  BY <1>1, WaitsEnd DEF Aged
<1>4. QED
  BY <1>1, <1>2, <1>3 DEF Wrapper

(* Releasing a wrapper sets its wait, counts one retry and keeps its job. *)
LEMMA ReleasedFields ==
    ASSUME NEW x \in Wrapper, NEW d \in 0..MaxWait
    PROVE  /\ Released(x, d) \in Wrapper
           /\ Released(x, d).job = x.job /\ Released(x, d).wait = d
           /\ Released(x, d).retry = AtMost(MaxRetry, x.retry + 1)
           /\ x.retry <= Released(x, d).retry
           /\ x.retry < MaxRetry => Released(x, d).retry = x.retry + 1
<1>1. Released(x, d) = [x EXCEPT !.retry = AtMost(MaxRetry, x.retry + 1), !.wait = d]
  BY DEF Wrapper, Released
<1>2. /\ AtMost(MaxRetry, x.retry + 1) \in x.retry..MaxRetry
      /\ x.retry < MaxRetry => AtMost(MaxRetry, x.retry + 1) = x.retry + 1
  BY QueueAssumption DEF Wrapper, AtMost
<1>3. ASSUME NEW r \in 0..MaxRetry
      PROVE  LET y == [x EXCEPT !.retry = r, !.wait = d] IN
             y \in Wrapper /\ y.job = x.job /\ y.wait = d /\ y.retry = r
  BY DEF Wrapper
<1>4. AtMost(MaxRetry, x.retry + 1) \in 0..MaxRetry /\ x.retry \in Nat
  BY <1>2, QueueAssumption DEF Wrapper
<1>5. /\ Released(x, d) \in Wrapper
      /\ Released(x, d).job = x.job /\ Released(x, d).wait = d
      /\ Released(x, d).retry = AtMost(MaxRetry, x.retry + 1)
  BY <1>1, <1>3, <1>4
<1>6. x.retry <= AtMost(MaxRetry, x.retry + 1)
  BY <1>2, <1>4
<1>7. QED
  BY <1>2, <1>5, <1>6

(* A worker's job is a wrapper while it has one. *)
LEMMA HeldFields ==
    ASSUME WorkerTypeOK, HandsFit, NEW w \in Workers, Has(w)
    PROVE  /\ held[w] \in Wrapper
           /\ held[w].job \in Jobs /\ held[w].retry \in 0..MaxRetry
           /\ held[w].wait \in 0..MaxWait
  BY WrapperFields DEF WorkerTypeOK, HandsFit

-----------------------------------------------------------------------------
(* What each step of a worker does to the discipline.  W is what waited    *)
(* before the step, W2 what waits after it.                                *)

(* Steps that take, start or end no job. *)
LEMMA MovesKeep ==
    ASSUME WorkerTypeOK, HandsFit,
           NEW W, Discipline(W),
           \/ Listen \/ StopBegin \/ StopEnd
           \/ \E w \in Workers : Check(w) \/ ReceiveNothing(w)
    PROVE  WorkerTypeOK' /\ HandsFit' /\ Discipline(W)'
<1> USE DEF WorkerTypeOK, HandsFit, Has, history
<1>1. ASSUME Listen PROVE WorkerTypeOK' /\ HandsFit' /\ Discipline(W)'
  BY <1>1 DEF Listen, Discipline, Honest, AttemptsBounded
<1>2. ASSUME StopBegin PROVE WorkerTypeOK' /\ HandsFit' /\ Discipline(W)'
  BY <1>2 DEF StopBegin, Discipline, Honest, AttemptsBounded
<1>3. ASSUME StopEnd PROVE WorkerTypeOK' /\ HandsFit' /\ Discipline(W)'
  BY <1>3 DEF StopEnd, Discipline, Honest, AttemptsBounded
<1>4. ASSUME NEW w \in Workers, Check(w) PROVE WorkerTypeOK' /\ HandsFit' /\ Discipline(W)'
  BY <1>4 DEF Check, Discipline, Honest, AttemptsBounded
<1>5. ASSUME NEW w \in Workers, ReceiveNothing(w) PROVE WorkerTypeOK' /\ HandsFit' /\ Discipline(W)'
  BY <1>5 DEF ReceiveNothing, Discipline, Honest, AttemptsBounded
<1>6. QED
  BY <1>1, <1>2, <1>3, <1>4, <1>5

(* A push of a new job, which nothing else knows yet, keeps the discipline. *)
LEMMA PushKeeps ==
    ASSUME WorkerTypeOK, HandsFit,
           NEW W \in SUBSET Wrapper, Discipline(W),
           NEW j \in Jobs, NEW delay \in Delays, Push(j, delay),
           NEW W2, W2 = W \cup {NewWrapper(j, delay)}
    PROVE  /\ WorkerTypeOK' /\ HandsFit' /\ Discipline(W2)'
           /\ NewWrapper(j, delay) \in Wrapper
           /\ ~Waits(W, j)
<1> USE DEF Has
<1>1. /\ NewWrapper(j, delay) \in Wrapper
      /\ NewWrapper(j, delay).job = j /\ NewWrapper(j, delay).retry = 0
      /\ NewWrapper(j, delay).wait = delay
      /\ delay \in 0..MaxWait
  BY WaitsEnd, QueueAssumption DEF Wrapper, NewWrapper
<1>2. WorkerTypeOK' /\ HandsFit'
  BY <1>1 DEF Push, WorkerTypeOK, HandsFit, workerVars
<1>3. ~Waits(W, j) /\ ~InHands(j)
  BY DEF Discipline, Push, Waits, InHands
<1>4. Discipline(W2)'
  BY <1>1, <1>3, HeldFields, WrapperFields
     DEF Discipline, Push, Honest, AttemptsBounded, Waits, InHands, WorkerTypeOK, workerVars
<1>5. QED
  BY <1>1, <1>2, <1>3, <1>4

(* A worker takes x, whatever jobs it finds something to run for. *)
Takes(w, x) ==
    /\ pc[w] = "pop"
    /\ UNCHANGED <<running, stop>>
    /\ \/ /\ x.wait > 0
          /\ pc' = [pc EXCEPT ![w] = "early"]
          /\ held' = [held EXCEPT ![w] = x]
          /\ UNCHANGED history
       \/ x.wait = 0 /\ Start(w, x)
       \/ /\ x.wait = 0
          /\ pc' = [pc EXCEPT ![w] = "check"]
          /\ fate' = [fate EXCEPT ![x.job] = "dropped"]
          /\ UNCHANGED <<held, attempts, due, asked>>

(* With every driver, receiving a wrapper is taking it. *)
LEMMA ReceiveTakes ==
    ASSUME NEW w, NEW x, Receive(w, x) \/ R!Receive(w, x) \/ U!Receive(w, x) \/ D!Receive(w, x)
    PROVE  Takes(w, x)
<1> USE DEF Takes, Start, AtMost, history
<1>1. CASE Receive(w, x)
  BY <1>1 DEF Receive
<1>2. CASE R!Receive(w, x)
  BY <1>2 DEF R!Receive, R!Start, R!history, R!AtMost
<1>3. CASE U!Receive(w, x)
  BY <1>3 DEF U!Receive, U!Start, U!history, U!AtMost
<1>4. CASE D!Receive(w, x)
  BY <1>4 DEF D!Receive, D!Start, D!history, D!AtMost
<1>5. QED
  BY <1>1, <1>2, <1>3, <1>4

(* A worker that takes a wrapper out of the queue keeps the discipline. *)
LEMMA ReceiveKeeps ==
    ASSUME WorkerTypeOK, HandsFit,
           NEW W \in SUBSET Wrapper, Discipline(W),
           NEW w \in Workers, NEW x \in W, Takes(w, x),
           NEW W2 \in SUBSET {y \in W : y.job # x.job}
    PROVE  WorkerTypeOK' /\ HandsFit' /\ Discipline(W2)'
<1> USE DEF Has
<1>1. x \in Wrapper /\ x # NoJob /\ x.job \in Jobs /\ x.retry \in 0..MaxRetry /\ ~Has(w)
  BY WrapperFields DEF Takes
<1>2. CASE x.wait > 0 /\ pc' = [pc EXCEPT ![w] = "early"]
           /\ held' = [held EXCEPT ![w] = x] /\ UNCHANGED <<running, stop, history>>
  <2>1. WorkerTypeOK' /\ HandsFit'
    BY <1>1, <1>2 DEF WorkerTypeOK, HandsFit, history, Takes
  <2>2. Discipline(W2)'
    BY <1>1, <1>2 DEF Discipline, Honest, AttemptsBounded, WorkerTypeOK, history
  <2>3. QED
    BY <2>1, <2>2
<1>3. CASE x.wait = 0 /\ Start(w, x) /\ UNCHANGED <<running, stop>>
  <2>1. attempts[x.job] <= x.retry /\ due[x.job] = 0
    BY <1>1, <1>3 DEF Discipline, Honest, WorkerTypeOK
  <2>2. attempts[x.job] + 1 <= x.retry + 1 /\ attempts[x.job] + 1 \in 1..MaxRetry + 1
    BY <1>1, <2>1, QueueAssumption DEF WorkerTypeOK
  <2>3. AtMost(MaxRetry + 2, attempts[x.job] + 1) = attempts[x.job] + 1
    BY <2>2, QueueAssumption DEF AtMost
  <2>4. attempts' = [attempts EXCEPT ![x.job] = @ + 1]
    BY <1>3, <2>3 DEF Start
  <2>5. WorkerTypeOK' /\ HandsFit'
    BY <1>1, <1>3, <2>2, <2>4, QueueAssumption DEF WorkerTypeOK, HandsFit, Start, Takes
  <2>6. Discipline(W2)'
    BY <1>1, <1>3, <2>1, <2>2, <2>4, WrapperFields, HeldFields
       DEF Discipline, Honest, AttemptsBounded, WorkerTypeOK, Start
  <2>7. QED
    BY <2>5, <2>6
<1>4. CASE /\ pc' = [pc EXCEPT ![w] = "check"]
           /\ fate' = [fate EXCEPT ![x.job] = "dropped"]
           /\ UNCHANGED <<running, stop, held, attempts, due, asked>>
  <2>1. WorkerTypeOK'
    BY <1>1, <1>4 DEF WorkerTypeOK, Finished
  <2>2. HandsFit'
    BY <1>1, <1>4 DEF WorkerTypeOK, HandsFit, Takes
  <2>3. Discipline(W2)'
    BY <1>1, <1>4, WrapperFields, HeldFields DEF Discipline, Honest, AttemptsBounded, WorkerTypeOK
  <2>4. QED
    BY <2>1, <2>2, <2>3
<1>5. QED
  BY <1>2, <1>3, <1>4 DEF Takes

(* A worker gives its job back, early or after a failure; wrapper y waits  *)
(* afterwards, or nothing does (Redis' Release without a delay, and the    *)
(* database).                                                              *)
LEMMA ReleaseEarlyKeeps ==
    ASSUME WorkerTypeOK, HandsFit,
           NEW W \in SUBSET Wrapper, Discipline(W),
           NEW w \in Workers, ReleaseEarly(w),
           NEW W2 \in SUBSET (W \cup {EarlyRelease(w)})
    PROVE  /\ WorkerTypeOK' /\ HandsFit' /\ Discipline(W2)'
           /\ EarlyRelease(w) \in Wrapper /\ EarlyRelease(w).job = held[w].job
           /\ EarlyRelease(w).wait = held[w].wait
<1> USE DEF Has
<1>1. Has(w) /\ held[w] \in Wrapper
  BY HeldFields DEF ReleaseEarly
<1>2. /\ EarlyRelease(w) \in Wrapper /\ EarlyRelease(w).job = held[w].job
      /\ EarlyRelease(w).wait = held[w].wait /\ held[w].retry <= EarlyRelease(w).retry
      /\ EarlyRelease(w).retry \in 0..MaxRetry /\ held[w].retry \in 0..MaxRetry
      /\ held[w].job \in Jobs
  BY <1>1, ReleasedFields, WrapperFields DEF EarlyRelease
<1>3. WorkerTypeOK' /\ HandsFit'
  BY <1>1 DEF ReleaseEarly, LetGo, WorkerTypeOK, HandsFit, history
<1>4. Honest(EarlyRelease(w))
  BY <1>1, <1>2 DEF Discipline, ReleaseEarly, Honest, WorkerTypeOK
<1>5. Discipline(W2)'
  BY <1>1, <1>2, <1>4, HeldFields, WrapperFields
     DEF Discipline, ReleaseEarly, LetGo, Honest, AttemptsBounded, history, WorkerTypeOK
<1>6. QED
  BY <1>2, <1>3, <1>5

(* A failed job that is given back for a retry is not due before its backoff is over. *)
LEMMA FailRetryKeeps ==
    ASSUME WorkerTypeOK, HandsFit,
           NEW W \in SUBSET Wrapper, Discipline(W),
           NEW w \in Workers, FailRetry(w),
           NEW W2 \in SUBSET (W \cup {RetryRelease(w)})
    PROVE  /\ WorkerTypeOK' /\ HandsFit' /\ Discipline(W2)'
           /\ RetryRelease(w) \in Wrapper /\ RetryRelease(w).job = held[w].job
           /\ RetryRelease(w).wait > 0 /\ RetryRelease(w).retry = held[w].retry + 1
<1> USE DEF Has
<1>1. Has(w) /\ held[w] \in Wrapper /\ held[w].job \in Jobs /\ held[w].retry \in 0..MaxRetry
  BY HeldFields DEF FailRetry
<1>2. held[w].retry < MaxRetry /\ BackoffOf(w) \in 1..MaxWait
  BY <1>1, BackoffEnds DEF FailRetry, HasRetry, BackoffOf
<1>3. /\ RetryRelease(w) \in Wrapper /\ RetryRelease(w).job = held[w].job
      /\ RetryRelease(w).wait = BackoffOf(w) /\ RetryRelease(w).retry = held[w].retry + 1
  BY <1>1, <1>2, ReleasedFields, WaitsEnd DEF RetryRelease
<1>4. WorkerTypeOK' /\ HandsFit'
  BY <1>1, <1>2 DEF FailRetry, LetGo, WorkerTypeOK, HandsFit
<1>5. Discipline(W2)'
  BY <1>1, <1>2, <1>3, HeldFields, WrapperFields
     DEF Discipline, FailRetry, LetGo, Honest, AttemptsBounded, WorkerTypeOK
<1>6. QED
  BY <1>2, <1>3, <1>4, <1>5

(* A job that succeeds or is given up. *)
LEMMA EndKeeps ==
    ASSUME WorkerTypeOK, HandsFit,
           NEW W \in SUBSET Wrapper, Discipline(W),
           NEW w \in Workers, Succeed(w) \/ GiveUp(w)
    PROVE  WorkerTypeOK' /\ HandsFit' /\ Discipline(W)'
<1> USE DEF Has
<1>1. Has(w) /\ held[w] \in Wrapper /\ held[w].job \in Jobs
  BY HeldFields DEF Succeed, GiveUp
<1>2. PICK end \in {"succeeded", "gave_up"} :
         /\ fate' = [fate EXCEPT ![held[w].job] = end]
         /\ LetGo(w) /\ UNCHANGED <<attempts, due, asked>>
  BY DEF Succeed, GiveUp
<1>3. WorkerTypeOK' /\ HandsFit'
  BY <1>1, <1>2 DEF LetGo, WorkerTypeOK, HandsFit, Finished
<1>4. Discipline(W)'
  BY <1>1, <1>2, HeldFields, WrapperFields
     DEF Discipline, LetGo, Honest, AttemptsBounded, WorkerTypeOK
<1>5. QED
  BY <1>3, <1>4

(* Clear, of jobs that wait. *)
LEMMA ClearKeeps ==
    ASSUME WorkerTypeOK, HandsFit,
           NEW W \in SUBSET Wrapper, Discipline(W),
           NEW js \in SUBSET {x.job : x \in W}, Cleared(js),
           NEW W2 \in SUBSET {x \in W : x.job \notin js}
    PROVE  WorkerTypeOK' /\ HandsFit' /\ Discipline(W2)'
<1> USE DEF Has
<1>1. WorkerTypeOK' /\ HandsFit'
  BY DEF Cleared, WorkerTypeOK, HandsFit, Finished, workerVars
<1>2. Discipline(W2)'
  BY HeldFields, WrapperFields
     DEF Discipline, Cleared, Honest, AttemptsBounded, WorkerTypeOK, workerVars
<1>3. QED
  BY <1>1, <1>2

(* The worker process dies, with the jobs js, and is restarted. *)
Dies(js) ==
    /\ fate' = [j \in Jobs |-> IF j \in js THEN "lost_in_a_crash" ELSE fate[j]]
    /\ pc' = [w \in Workers |-> IF running THEN "check" ELSE pc[w]]
    /\ held' = [w \in Workers |-> NoJob]
    /\ UNCHANGED <<running, stop, attempts, due, asked>>

(* A crash that takes the jobs in hand with it keeps the discipline of those that wait. *)
LEMMA CrashKeeps ==
    ASSUME WorkerTypeOK, HandsFit,
           NEW W \in SUBSET Wrapper, Discipline(W),
           NEW js \in SUBSET Jobs, Dies(js), \A j \in js : fate[j] = "pending",
           NEW W2 \in SUBSET {x \in W : x.job \notin js}
    PROVE  WorkerTypeOK' /\ HandsFit' /\ Discipline(W2)'
<1> USE DEF Has, Dies
<1>1. WorkerTypeOK' /\ HandsFit'
  BY DEF WorkerTypeOK, HandsFit, Finished
<1>2. \A w \in Workers : ~Has(w)'
  BY DEF HandsFit
<1>3. \A x \in W2 : Honest(x)' /\ fate'[x.job] = "pending"
  BY WrapperFields DEF Discipline, Honest, WorkerTypeOK
<1>4. (\A j \in Jobs : fate[j] = "new" => attempts[j] = 0)' /\ AttemptsBounded'
  BY DEF Discipline, AttemptsBounded, WorkerTypeOK
<1>5. Discipline(W2)'
  BY <1>2, <1>3, <1>4 DEF Discipline
<1>6. QED
  BY <1>1, <1>5

(* Time passes for everything that waits. *)
AgedSet(W) == {AgedWrapper(x) : x \in W}

(* Time ages a wrapper and its job alike, so the discipline is kept. *)
LEMMA TickKeeps ==
    ASSUME WorkerTypeOK, HandsFit,
           NEW W \in SUBSET Wrapper, Discipline(W), WorkerTick
    PROVE  WorkerTypeOK' /\ HandsFit' /\ Discipline(AgedSet(W))'
<1> USE DEF Has
<1>1. \A w \in Workers : Has(w) =>
         /\ held'[w] \in Wrapper /\ held'[w].job = held[w].job
         /\ held'[w].retry = held[w].retry /\ held'[w].wait = Aged(held[w].wait)
         /\ held[w].wait \in 0..MaxWait /\ held[w].job \in Jobs
  BY HeldFields, WrapperFields DEF WorkerTick, WorkerTypeOK
<1>2. \A w \in Workers : ~Has(w) => held[w] = NoJob /\ held'[w] = NoJob
  BY DEF WorkerTick, HandsFit, AgedWrapper
<1>3. \A j \in Jobs : due'[j] = Aged(due[j]) /\ due[j] \in 0..MaxWait /\ Aged(due[j]) \in 0..MaxWait
  BY WaitsEnd DEF WorkerTick, WorkerTypeOK, Aged
<1>4. WorkerTypeOK'
  BY <1>1, <1>2, <1>3 DEF WorkerTick, WorkerTypeOK
<1>5. HandsFit'
  BY <1>1, <1>2, WrapperFields DEF WorkerTick, HandsFit
<1>6. \A y \in AgedSet(W) : \E x \in W :
         y \in Wrapper /\ y.job = x.job /\ y.retry = x.retry /\ y.wait = Aged(x.wait)
  BY WrapperFields DEF AgedSet
<1>7. \A m, n \in 0..MaxWait : m <= n => Aged(m) <= Aged(n)
  BY WaitsEnd DEF Aged
<1>8. \A y \in AgedSet(W) : Honest(y)' /\ fate'[y.job] = "pending"
  BY <1>3, <1>6, <1>7, WrapperFields DEF Discipline, WorkerTick, Honest, WorkerTypeOK
<1>9. \A w \in Workers : (pc[w] = "early" => Honest(held[w]))'
  BY <1>1, <1>3, <1>7, HeldFields DEF Discipline, WorkerTick, Honest, WorkerTypeOK
<1>10. \A w \in Workers : pc'[w] = "handling" =>
          due'[held'[w].job] = 0 /\ attempts'[held'[w].job] <= held'[w].retry + 1
  BY <1>1, <1>3, HeldFields DEF Discipline, WorkerTick, Aged, WorkerTypeOK
<1>11. \A w \in Workers, y \in AgedSet(W) : Has(w)' => held'[w].job # y.job
  BY <1>1, <1>6 DEF Discipline, WorkerTick
<1>12. \A w \in Workers : Has(w)' => fate'[held'[w].job] = "pending"
  BY <1>1 DEF Discipline, WorkerTick
<1>13. \A v, w \in Workers : Has(v)' /\ Has(w)' /\ held'[v].job = held'[w].job => v = w
  BY <1>1 DEF Discipline, WorkerTick
<1>14. (\A j \in Jobs : fate[j] = "new" => attempts[j] = 0)' /\ AttemptsBounded'
  BY DEF Discipline, WorkerTick, AttemptsBounded
<1>15. Discipline(AgedSet(W))'
  BY <1>8, <1>9, <1>10, <1>11, <1>12, <1>13, <1>14 DEF Discipline
<1>16. QED
  BY <1>4, <1>5, <1>15

-----------------------------------------------------------------------------
(* The elements of a sequence of wrappers. *)
LEMMA Appended ==
    ASSUME NEW s \in Seq(Wrapper), NEW x \in Wrapper
    PROVE  /\ Append(s, x) \in Seq(Wrapper)
           /\ Elements(Append(s, x)) = Elements(s) \cup {x}
           /\ Once(s) /\ (\A y \in Elements(s) : y.job # x.job) => Once(Append(s, x))
<1>1. /\ Append(s, x) \in Seq(Wrapper) /\ Len(Append(s, x)) = Len(s) + 1
      /\ \A i \in 1..Len(s) : Append(s, x)[i] = s[i]
      /\ Append(s, x)[Len(s) + 1] = x
  BY AppendProperties
<1>2. DOMAIN s = 1..Len(s) /\ DOMAIN Append(s, x) = 1..(Len(s) + 1) /\ Len(s) \in Nat
  BY <1>1
<1>3. \A i \in 1..(Len(s) + 1) : i \in 1..Len(s) \/ i = Len(s) + 1
  BY <1>2
<1>4. Elements(Append(s, x)) = Elements(s) \cup {x}
  BY <1>1, <1>2, <1>3 DEF Elements
<1>5. ASSUME Once(s), \A y \in Elements(s) : y.job # x.job PROVE Once(Append(s, x))
  BY <1>1, <1>2, <1>3, <1>5 DEF Elements, Once
<1>6. QED
  BY <1>1, <1>4, <1>5

(* What lpush does to the wrappers of a list. *)
LEMMA Prepended ==
    ASSUME NEW s \in Seq(Wrapper), NEW x \in Wrapper
    PROVE  /\ <<x>> \o s \in Seq(Wrapper)
           /\ Elements(<<x>> \o s) = Elements(s) \cup {x}
           /\ Once(s) /\ (\A y \in Elements(s) : y.job # x.job) => Once(<<x>> \o s)
<1> DEFINE t == <<x>> \o s
<1>1. /\ t \in Seq(Wrapper) /\ Len(t) = Len(s) + 1 /\ t[1] = x
      /\ \A i \in 1..Len(s) : t[i + 1] = s[i]
  OBVIOUS
<1>2. DOMAIN s = 1..Len(s) /\ DOMAIN t = 1..(Len(s) + 1) /\ Len(s) \in Nat
  BY <1>1
<1>3. \A i \in 1..(Len(s) + 1) : i = 1 \/ (i - 1 \in 1..Len(s) /\ t[i] = s[i - 1])
  BY <1>1, <1>2
<1>4. \A i \in 1..Len(s) : i + 1 \in 1..(Len(s) + 1)
  BY <1>2
<1> HIDE DEF t
<1>5. Elements(t) = Elements(s) \cup {x}
  <2>1. x \in Elements(t) /\ Elements(s) \subseteq Elements(t)
    BY <1>1, <1>2, <1>4, SMTT(60) DEF Elements
  <2>2. Elements(t) \subseteq Elements(s) \cup {x}
    BY <1>1, <1>2, <1>3, SMTT(60) DEF Elements
  <2>3. QED
    BY <2>1, <2>2
<1>6. ASSUME Once(s), \A y \in Elements(s) : y.job # x.job PROVE Once(t)
  <2>1. \A i \in 1..Len(s) : s[i].job # x.job
    BY <1>2, <1>6 DEF Elements
  <2>2. \A i, k \in 1..Len(s) : s[i].job = s[k].job => i = k
    BY <1>2, <1>6 DEF Once
  <2>3. SUFFICES ASSUME NEW i \in 1..(Len(s) + 1), NEW k \in 1..(Len(s) + 1), t[i].job = t[k].job
                 PROVE  i = k
    BY <1>2 DEF Once
  <2>4. CASE i = 1 \/ k = 1
    BY <1>1, <1>3, <2>1, <2>3, <2>4
  <2>5. CASE i # 1 /\ k # 1
    <3>1. i - 1 \in 1..Len(s) /\ k - 1 \in 1..Len(s) /\ s[i - 1].job = s[k - 1].job
      BY <1>3, <2>3, <2>5
    <3>2. i - 1 = k - 1
      BY <2>2, <3>1
    <3>3. QED
      BY <3>2
  <2>6. QED
    BY <2>4, <2>5
<1>7. QED
  BY <1>1, <1>5, <1>6 DEF t

(* What taking the head does to the wrappers of a list. *)
LEMMA Beheaded ==
    ASSUME NEW s \in Seq(Wrapper), s # <<>>, Once(s)
    PROVE  /\ Tail(s) \in Seq(Wrapper) /\ Head(s) \in Elements(s)
           /\ Elements(Tail(s)) = {y \in Elements(s) : y.job # Head(s).job}
           /\ Once(Tail(s))
<1>1. /\ Tail(s) \in Seq(Wrapper) /\ Len(Tail(s)) = Len(s) - 1 /\ Head(s) = s[1]
      /\ \A i \in 1..Len(Tail(s)) : Tail(s)[i] = s[i + 1]
      /\ DOMAIN s = 1..Len(s) /\ DOMAIN Tail(s) = 1..(Len(s) - 1) /\ Len(s) \in Nat \ {0}
  BY HeadTailProperties
<1>2. \A i \in 1..Len(s) : i = 1 \/ (i - 1 \in 1..(Len(s) - 1) /\ s[i] = Tail(s)[i - 1])
  BY <1>1
<1>3. \A i \in 1..(Len(s) - 1) : i + 1 \in 1..Len(s) /\ i + 1 # 1
  BY <1>1
<1>4. Elements(Tail(s)) = {y \in Elements(s) : y.job # Head(s).job}
  <2>1. Elements(Tail(s)) \subseteq {y \in Elements(s) : y.job # Head(s).job}
    BY <1>1, <1>3 DEF Elements, Once
  <2>2. ASSUME NEW i \in 1..Len(s), s[i].job # s[1].job PROVE s[i] \in Elements(Tail(s))
    <3>1. i - 1 \in DOMAIN Tail(s) /\ s[i] = Tail(s)[i - 1]
      BY <1>1, <1>2, <2>2
    <3>2. QED
      BY <3>1 DEF Elements
  <2>3. QED
    BY <1>1, <2>1, <2>2 DEF Elements
<1>5. Once(Tail(s))
  BY <1>1, <1>3 DEF Once
<1>6. QED
  BY <1>1, <1>4, <1>5 DEF Elements

(* What rpop does to the wrappers of a list. *)
LEMMA Curtailed ==
    ASSUME NEW s \in Seq(Wrapper), s # <<>>, Once(s)
    PROVE  /\ Front(s) \in Seq(Wrapper) /\ Last(s) \in Elements(s)
           /\ Elements(Front(s)) = {y \in Elements(s) : y.job # Last(s).job}
           /\ Once(Front(s))
<1> DEFINE n == Len(s)
<1> DEFINE t == Front(s)
<1>1. n \in Nat \ {0}
  BY EmptySeq
<1>2. DOMAIN s = 1..n
  OBVIOUS
<1>3. Last(s) = s[n]
  BY DEF Last
<1>4. /\ t \in Seq(Wrapper) /\ Len(t) = n - 1
      /\ \A i \in 1..(n - 1) : t[i] = s[i]
  <2>1. \A i \in 1..(n - 1) : s[i] \in Wrapper
    BY <1>1, <1>2
  <2>2. n - 1 \in Int /\ 1 \in Int /\ (n - 1) - 1 + 1 = n - 1
    BY <1>1
  <2>3. t = SubSeq(s, 1, n - 1)
    BY DEF Front
  <2> HIDE DEF n, t
  <2>4. /\ t \in Seq(Wrapper) /\ Len(t) = IF 1 <= n - 1 THEN (n - 1) - 1 + 1 ELSE 0
        /\ \A i \in 1..((n - 1) - 1 + 1) : t[i] = s[1 + i - 1]
    BY <2>1, <2>2, <2>3, SubSeqProperties
  <2>5. QED
    BY <1>1, <2>2, <2>4
<1>5. DOMAIN t = 1..(n - 1)
  BY <1>4
<1> HIDE DEF n, t
<1>6. \A i \in 1..n : i = n \/ i \in 1..(n - 1)
  BY <1>1
<1>7. \A i \in 1..(n - 1) : i \in 1..n /\ i # n
  BY <1>1
<1>8. n \in 1..n
  BY <1>1
<1>9. Elements(t) = {y \in Elements(s) : y.job # s[n].job}
  <2>1. ASSUME NEW i \in 1..(n - 1) PROVE s[i] \in Elements(s) /\ s[i].job # s[n].job
    BY <1>2, <1>7, <1>8 DEF Elements, Once
  <2>2. ASSUME NEW i \in 1..n, s[i].job # s[n].job PROVE s[i] \in Elements(t)
    BY <1>4, <1>5, <1>6, <2>2 DEF Elements
  <2>3. QED
    BY <1>2, <1>4, <1>5, <2>1, <2>2 DEF Elements
<1>10. Once(t)
  BY <1>2, <1>4, <1>5, <1>7 DEF Once
<1>11. QED
  BY <1>2, <1>3, <1>4, <1>8, <1>9, <1>10 DEF Elements, t

(* Time passing ages the wrappers of a list where they are. *)
LEMMA AgedInOrder ==
    ASSUME NEW s \in Seq(Wrapper),
           NEW t, t = [i \in DOMAIN s |-> AgedWrapper(s[i])]
    PROVE  /\ t \in Seq(Wrapper)
           /\ Elements(t) = AgedSet(Elements(s))
           /\ Once(s) => Once(t)
<1>1. DOMAIN s = 1..Len(s) /\ Len(s) \in Nat /\ \A i \in DOMAIN s : s[i] \in Wrapper
  OBVIOUS
<1>2. \A i \in DOMAIN s : AgedWrapper(s[i]) \in Wrapper /\ AgedWrapper(s[i]).job = s[i].job
  BY <1>1, WrapperFields
<1>3. t \in Seq(Wrapper) /\ DOMAIN t = DOMAIN s
  BY <1>1, <1>2
<1>4. QED
  BY <1>1, <1>2, <1>3 DEF Elements, AgedSet, Once

(* An empty list holds no wrapper. *)
LEMMA NoElements == Elements(<<>>) = {} /\ Once(<<>>)
  BY DEF Elements, Once

-----------------------------------------------------------------------------
(* The slice of SyncDriver. *)
LEMMA SyncStep ==
    ASSUME TypeOK, HandsFit, SyncInv, [Next]_vars
    PROVE  TypeOK' /\ HandsFit' /\ SyncInv'
<1>1. PICK W : W = SyncWaiting
  OBVIOUS
<1>2. PICK W2 : W2 = SyncWaiting'
  OBVIOUS
<1>3. jobs \in Seq(Wrapper) /\ WorkerTypeOK /\ W = Elements(jobs) /\ W2 = Elements(jobs')
  BY <1>1, <1>2 DEF TypeOK, SyncWaiting
<1>4. W \in SUBSET Wrapper /\ Discipline(W) /\ Kept(W) /\ Once(jobs)
  BY <1>1, <1>3 DEF SyncInv, Elements, Discipline, Kept
<1> DEFINE Good == /\ WorkerTypeOK' /\ HandsFit' /\ Discipline(W2)'
                   /\ jobs' \in Seq(Wrapper) /\ Once(jobs') /\ Kept(W2)'
<1>5. SUFFICES Good
  BY <1>2 DEF TypeOK, SyncInv, Discipline, Kept, Waits
<1>6. ASSUME NEW j \in Jobs, NEW delay \in Delays, PushJob(j, delay) PROVE Good
  <2>1. Push(j, delay) /\ jobs' = Append(jobs, NewWrapper(j, delay))
    BY <1>6 DEF PushJob
  <2>2. NewWrapper(j, delay) \in Wrapper /\ ~Waits(W, j) /\ NewWrapper(j, delay).job = j
    BY <1>3, <1>4, <2>1, PushKeeps DEF NewWrapper
  <2>3. jobs' \in Seq(Wrapper) /\ W2 = W \cup {NewWrapper(j, delay)} /\ Once(jobs')
    BY <1>3, <1>4, <2>1, <2>2, Appended DEF Waits
  <2>4. WorkerTypeOK' /\ HandsFit' /\ Discipline(W2)'
    BY <1>3, <1>4, <2>1, <2>3, PushKeeps
  <2>5. Kept(W2)'
    BY <1>3, <1>4, <2>1, <2>2, <2>3, SMTT(60) DEF Kept, Waits, InHands, Has, Push, workerVars, WorkerTypeOK
  <2>6. QED
    BY <2>3, <2>4, <2>5
<1>7. ASSUME (\/ Listen \/ StopBegin \/ StopEnd
              \/ \E w \in Workers : Check(w) \/ ReceiveNothing(w)) /\ UNCHANGED jobs
      PROVE  Good
  <2>1. WorkerTypeOK' /\ HandsFit' /\ Discipline(W)'
    BY <1>3, <1>4, <1>7, MovesKeep
  <2>2. W2 = W
    BY <1>3, <1>7
  <2>3. /\ fate' = fate
        /\ \A w \in Workers : Has(w) => held'[w] = held[w] /\ Has(w)'
    BY <1>3, <1>7 DEF Listen, StopBegin, StopEnd, Check, ReceiveNothing, history, Has,
                      WorkerTypeOK, HandsFit
  <2>4. Kept(W2)'
    BY <1>4, <2>2, <2>3 DEF Kept, Waits, InHands
  <2>5. QED
    BY <1>3, <1>4, <1>7, <2>1, <2>2, <2>4
<1>8. ASSUME NEW w \in Workers, Pop(w) PROVE Good
  <2>1. jobs # <<>> /\ Takes(w, Head(jobs)) /\ jobs' = Tail(jobs)
    BY <1>8, ReceiveTakes DEF Pop
  <2>2. /\ Head(jobs) \in W /\ jobs' \in Seq(Wrapper) /\ Once(jobs')
        /\ W2 = {y \in W : y.job # Head(jobs).job}
    BY <1>3, <1>4, <2>1, Beheaded
  <2>3. WorkerTypeOK' /\ HandsFit' /\ Discipline(W2)'
    BY <1>3, <1>4, <2>1, <2>2, ReceiveKeeps
  <2>4. \A v \in Workers : Has(v) => Has(v)' /\ held'[v] = held[v]
    BY <1>3, <2>1 DEF Takes, Start, Has, WorkerTypeOK
  <2>5. \/ Has(w)' /\ held'[w] = Head(jobs)
        \/ fate'[Head(jobs).job] = "dropped"
    BY <1>3, <1>4, <2>1, <2>2, WrapperFields DEF Takes, Start, Has, WorkerTypeOK
  <2>6. \A j \in Jobs : fate'[j] = "pending" => fate[j] = "pending"
    BY <1>3, <2>1 DEF Takes, Start, history, WorkerTypeOK
  <2>7. Kept(W2)'
    BY <1>4, <2>2, <2>4, <2>5, <2>6 DEF Kept, Waits, InHands
  <2>8. QED
    BY <2>2, <2>3, <2>7
<1>9. ASSUME NEW w \in Workers, PutBackEarly(w) \/ PutBackForRetry(w) PROVE Good
  <2>1. PICK y \in Wrapper :
           /\ y.job = held[w].job /\ Has(w) /\ LetGo(w) /\ UNCHANGED fate
           /\ jobs' = Append(jobs, y)
           /\ \/ ReleaseEarly(w) /\ y = EarlyRelease(w)
              \/ FailRetry(w) /\ y = RetryRelease(w)
    <3>1. CASE PutBackEarly(w)
      BY <1>3, <1>4, <3>1, ReleaseEarlyKeeps DEF PutBackEarly, ReleaseEarly, Has, history
    <3>2. CASE PutBackForRetry(w)
      BY <1>3, <1>4, <3>2, FailRetryKeeps DEF PutBackForRetry, FailRetry, Has
    <3>3. QED
      BY <1>9, <3>1, <3>2
  <2>2. jobs' \in Seq(Wrapper) /\ W2 = W \cup {y} /\ Once(jobs')
    BY <1>3, <1>4, <2>1, Appended DEF Discipline
  <2>3. WorkerTypeOK' /\ HandsFit' /\ Discipline(W2)'
    BY <1>3, <1>4, <2>1, <2>2, ReleaseEarlyKeeps, FailRetryKeeps
  <2>4. Kept(W2)'
    BY <1>3, <1>4, <2>1, <2>2 DEF Kept, Waits, InHands, Has, LetGo, WorkerTypeOK
  <2>5. QED
    BY <2>2, <2>3, <2>4
<1>10. ASSUME NEW w \in Workers, Delete(w) PROVE Good
  <2>1. (Succeed(w) \/ GiveUp(w)) /\ jobs' = jobs /\ W2 = W
    BY <1>3, <1>10 DEF Delete
  <2>2. WorkerTypeOK' /\ HandsFit' /\ Discipline(W2)'
    BY <1>3, <1>4, <2>1, EndKeeps
  <2>3. Kept(W2)'
    <3>1. fate'[held[w].job] # "pending" /\ \A j \in Jobs : fate'[j] = "pending" => fate[j] = "pending"
      BY <1>3, <2>1, HeldFields DEF Succeed, GiveUp, WorkerTypeOK, Has
    <3>2. \A v \in Workers \ {w} : Has(v) => Has(v)' /\ held'[v] = held[v]
      BY <1>3, <2>1 DEF Succeed, GiveUp, LetGo, Has, WorkerTypeOK
    <3>3. QED
      BY <1>4, <2>1, <3>1, <3>2 DEF Kept, Waits, InHands
  <2>4. QED
    BY <1>3, <1>4, <2>1, <2>2, <2>3
<1>11. ASSUME Clear PROVE Good
  <2>1. jobs' = <<>> /\ W2 = {} /\ Cleared({x.job : x \in W})
    BY <1>3, <1>11, NoElements, ZenonT(60) DEF Clear, Elements
  <2>2. WorkerTypeOK' /\ HandsFit' /\ Discipline(W2)'
    BY <1>3, <1>4, <2>1, ClearKeeps
  <2>3. Kept(W2)'
    BY <1>4, <2>1 DEF Kept, Waits, InHands, Has, Cleared, workerVars
  <2>4. QED
    BY <2>1, <2>2, <2>3, NoElements
<1>12. ASSUME Tick PROVE Good
  <2>1. WorkerTick /\ jobs' = [i \in DOMAIN jobs |-> AgedWrapper(jobs[i])]
    BY <1>12 DEF Tick
  <2>2. jobs' \in Seq(Wrapper) /\ W2 = AgedSet(W) /\ Once(jobs')
    BY <1>3, <1>4, <2>1, AgedInOrder
  <2>3. WorkerTypeOK' /\ HandsFit' /\ Discipline(W2)'
    BY <1>3, <1>4, <2>1, <2>2, TickKeeps DEF Discipline
  <2>4. \A x \in W : AgedWrapper(x) \in W2 /\ AgedWrapper(x).job = x.job
    BY <1>4, <2>2, WrapperFields DEF AgedSet
  <2>5. \A w \in Workers : Has(w) => Has(w)' /\ held'[w].job = held[w].job
    BY <1>3, <2>1, HeldFields, WrapperFields DEF WorkerTick, Has
  <2>6. Kept(W2)'
    BY <1>4, <2>1, <2>4, <2>5 DEF Kept, Waits, InHands, WorkerTick
  <2>7. QED
    BY <2>2, <2>3, <2>6
<1>13. CASE UNCHANGED vars
  BY <1>3, <1>4, <1>13
     DEF vars, queueVars, workerVars, history, WorkerTypeOK, HandsFit, Has, Discipline,
         Honest, AttemptsBounded, Kept, Waits, InHands
<1>14. QED
  BY <1>6, <1>7, <1>8, <1>9, <1>10, <1>11, <1>12, <1>13 DEF Next, WorkerStep, PopNothing

-----------------------------------------------------------------------------
(* What each step does to the jobs that were pushed without a delay. *)
LEMMA MovesKeepUndelayed ==
    ASSUME WorkerTypeOK, HandsFit,
           NEW W, Undelayed(W),
           \/ Listen \/ StopBegin \/ StopEnd
           \/ \E w \in Workers : Check(w) \/ ReceiveNothing(w)
    PROVE  Undelayed(W)'
<1>1. /\ \A w \in Workers : (Has(w) <=> Has(w)') /\ held'[w] = held[w]
      /\ \A w \in Workers : Has(w) => pc'[w] = pc[w]
      /\ UNCHANGED history
  BY DEF Listen, StopBegin, StopEnd, Check, ReceiveNothing, history, Has, WorkerTypeOK, HandsFit
<1>2. Findable(W)'
  BY <1>1 DEF Undelayed, Findable, Waits, InHands, history
<1>3. Exact(W)'
  BY <1>1 DEF Undelayed, Exact, history, R!RetryBudget
<1>4. QED
  BY <1>2, <1>3 DEF Undelayed

(* A job pushed without delay starts with no attempt and no retry. *)
LEMMA PushKeepsUndelayed ==
    ASSUME WorkerTypeOK, HandsFit,
           NEW W \in SUBSET Wrapper, Discipline(W), Undelayed(W),
           NEW j \in Jobs, NEW delay \in Delays, Push(j, delay)
    PROVE  Undelayed(W \cup {NewWrapper(j, delay)})'
<1> DEFINE x == NewWrapper(j, delay)
<1>1. ~Waits(W, j) /\ ~InHands(j) /\ attempts[j] = 0
  BY DEF Discipline, Push, Waits, InHands
<1>2. x.job = j /\ x.retry = 0
  BY DEF NewWrapper
<1>3. /\ UNCHANGED <<pc, held, attempts>>
      /\ fate'[j] = "pending"
      /\ \A k \in Jobs \ {j} : fate'[k] = fate[k] /\ asked'[k] = asked[k]
  BY DEF Push, workerVars, WorkerTypeOK
<1> HIDE DEF x
<1>4. Findable(W \cup {x})'
  BY <1>1, <1>2, <1>3 DEF Undelayed, Findable, Waits, InHands, Has
<1>5. Exact(W \cup {x})'
  BY <1>1, <1>2, <1>3, WrapperFields, HeldFields
     DEF Undelayed, Exact, Waits, InHands, Has, R!RetryBudget
<1>6. QED
  BY <1>4, <1>5 DEF x, Undelayed

(* One that waits without a wait of its own is not given back early. *)
LEMMA ReceiveKeepsUndelayed ==
    ASSUME WorkerTypeOK, HandsFit,
           NEW W \in SUBSET Wrapper, Discipline(W), Undelayed(W),
           NEW w \in Workers, NEW x \in W, Takes(w, x),
           asked[x.job] = 0 => x.wait = 0
    PROVE  Undelayed({y \in W : y.job # x.job})'
<1> DEFINE W2 == {y \in W : y.job # x.job}
<1>1. x \in Wrapper /\ x.job \in Jobs /\ x.retry \in 0..MaxRetry /\ ~Has(w)
  BY WrapperFields DEF Takes, Has
<1>2. \A v \in Workers \ {w} : pc'[v] = pc[v] /\ held'[v] = held[v] /\ (Has(v)' <=> Has(v))
  BY DEF Takes, Start, WorkerTypeOK, Has
<1>3. /\ asked' = asked
      /\ \A j \in Jobs \ {x.job} : attempts'[j] = attempts[j] /\ fate'[j] = fate[j]
  BY <1>1 DEF Takes, Start, WorkerTypeOK, history
<1>4. \A v \in Workers \ {w} : Has(v) => held[v].job \in Jobs \ {x.job}
  BY HeldFields DEF Discipline
<1>5. ASSUME asked[x.job] = 0
      PROVE  \/ /\ pc'[w] = "handling" /\ held'[w] = x /\ attempts'[x.job] = x.retry + 1
                /\ fate'[x.job] = "pending"
             \/ ~Has(w)' /\ fate'[x.job] = "dropped"
  <2>1. x.wait = 0 /\ attempts[x.job] = x.retry /\ fate[x.job] = "pending"
    BY <1>1, <1>5 DEF Undelayed, Exact, Discipline
  <2>2. AtMost(MaxRetry + 2, x.retry + 1) = x.retry + 1
    BY <1>1, QueueAssumption DEF AtMost
  <2>3. QED
    BY <1>1, <2>1, <2>2 DEF Takes, Start, WorkerTypeOK, Has
<1>6. Has(w)' => held'[w].job = x.job
  BY <1>1 DEF Takes, Start, WorkerTypeOK, Has
<1>7. /\ \A y \in W : y.job # x.job => y \in W2
      /\ \A y \in W2 : y \in W /\ y.job \in Jobs \ {x.job}
  BY WrapperFields
<1> HIDE DEF W2
<1>8. Findable(W2)'
  <2>1. \A j \in Jobs \ {x.job} : InHands(j) => InHands(j)'
    BY <1>1, <1>2 DEF InHands
  <2>2. \A j \in Jobs \ {x.job} : Waits(W, j) => Waits(W2, j)
    BY <1>7 DEF Waits
  <2>3. \A j \in Jobs \ {x.job} : asked'[j] = 0 /\ fate'[j] = "pending" => Waits(W2, j) \/ InHands(j)'
    BY <1>3, <2>1, <2>2 DEF Undelayed, Findable
  <2>4. asked'[x.job] = 0 /\ fate'[x.job] = "pending" => InHands(x.job)'
    BY <1>3, <1>5 DEF InHands, Has
  <2>5. QED
    BY <2>3, <2>4 DEF Findable, Waits
<1>9. Exact(W2)'
  <2>1. \A y \in W2 : asked'[y.job] = 0 => attempts'[y.job] = y.retry
    BY <1>3, <1>7 DEF Undelayed, Exact
  <2>2. \A v \in Workers : Has(v)' /\ asked'[held'[v].job] = 0 =>
           pc'[v] = "handling" /\ attempts'[held'[v].job] = held'[v].retry + 1
    BY <1>2, <1>3, <1>4, <1>5, <1>6 DEF Undelayed, Exact
  <2>3. R!RetryBudget'
    BY <1>3, <1>5 DEF Undelayed, Exact, R!RetryBudget
  <2>4. QED
    BY <2>1, <2>2, <2>3 DEF Exact
<1>10. QED
  BY <1>8, <1>9 DEF W2, Undelayed

(* A released job waits again, and an undelayed one is only released by a failure. *)
LEMMA ReleaseKeepsUndelayed ==
    ASSUME WorkerTypeOK, HandsFit,
           NEW W \in SUBSET Wrapper, Discipline(W), Undelayed(W),
           NEW w \in Workers,
           NEW W2, W \subseteq W2,
           \/ ReleaseEarly(w) /\ W2 \subseteq W \cup {EarlyRelease(w)}
           \/ FailRetry(w) /\ W2 = W \cup {RetryRelease(w)}
    PROVE  Undelayed(W2)'
<1> USE DEF Has
<1>1. /\ Has(w) /\ held[w] \in Wrapper /\ held[w].job \in Jobs /\ ~Has(w)'
      /\ \A v \in Workers \ {w} : pc'[v] = pc[v] /\ held'[v] = held[v]
      /\ UNCHANGED <<fate, attempts, asked>>
  BY HeldFields DEF ReleaseEarly, FailRetry, LetGo, history, WorkerTypeOK
<1>2. \A j \in Jobs \ {held[w].job} : InHands(j) => InHands(j)'
  BY <1>1 DEF InHands
<1>3. \A j \in Jobs : Waits(W, j) => Waits(W2, j)
  BY DEF Waits
<1>4. CASE ReleaseEarly(w)
  <2>1. asked[held[w].job] # 0
    BY <1>1, <1>4 DEF ReleaseEarly, Undelayed, Exact
  <2>2. EarlyRelease(w).job = held[w].job
    BY <1>4, ReleaseEarlyKeeps
  <2>3. \A x \in W2 : x \in W \/ x.job = held[w].job
    BY <1>4, <2>2 DEF FailRetry, ReleaseEarly
  <2>4. Findable(W2)'
    BY <1>1, <1>2, <1>3, <2>1 DEF Undelayed, Findable, Waits
  <2>5. Exact(W2)'
    BY <1>1, <2>1, <2>3 DEF Undelayed, Exact, R!RetryBudget
  <2>6. QED
    BY <2>4, <2>5 DEF Undelayed
<1>5. CASE FailRetry(w)
  <2>1. RetryRelease(w).job = held[w].job /\ RetryRelease(w).retry = held[w].retry + 1
    BY <1>5, FailRetryKeeps
  <2>2. W2 = W \cup {RetryRelease(w)}
    BY <1>5 DEF FailRetry, ReleaseEarly
  <2>3. Waits(W2, held[w].job)
    BY <2>1, <2>2 DEF Waits
  <2>4. Findable(W2)'
    BY <1>1, <1>2, <1>3, <2>3 DEF Undelayed, Findable, Waits
  <2>5. Exact(W2)'
    BY <1>1, <2>1, <2>2 DEF Undelayed, Exact, R!RetryBudget
  <2>6. QED
    BY <2>4, <2>5 DEF Undelayed
<1>6. QED
  BY <1>4, <1>5

(* An undelayed job ends by success, or by giving up when its retries are used up. *)
LEMMA EndKeepsUndelayed ==
    ASSUME WorkerTypeOK, HandsFit,
           NEW W \in SUBSET Wrapper, Discipline(W), Undelayed(W),
           NEW w \in Workers, Succeed(w) \/ GiveUp(w)
    PROVE  Undelayed(W)'
<1> USE DEF Has
<1>1. /\ pc[w] = "handling" /\ held[w] \in Wrapper /\ held[w].job \in Jobs
      /\ held[w].retry \in 0..MaxRetry /\ ~Has(w)'
      /\ \A v \in Workers \ {w} : pc'[v] = pc[v] /\ held'[v] = held[v]
      /\ UNCHANGED <<attempts, asked>>
  BY HeldFields DEF Succeed, GiveUp, LetGo, WorkerTypeOK
<1>2. \/ Succeed(w) /\ fate' = [fate EXCEPT ![held[w].job] = "succeeded"]
      \/ held[w].retry = MaxRetry /\ fate' = [fate EXCEPT ![held[w].job] = "gave_up"]
  <2>1. CASE Succeed(w)
    BY <2>1 DEF Succeed
  <2>2. CASE GiveUp(w)
    <3>1. ~(held[w].retry < MaxRetry) /\ fate' = [fate EXCEPT ![held[w].job] = "gave_up"]
      BY <2>2 DEF GiveUp, HasRetry
    <3>2. \A r \in 0..MaxRetry : ~(r < MaxRetry) => r = MaxRetry
      BY QueueAssumption
    <3>3. QED
      BY <1>1, <3>1, <3>2
  <2>3. QED
    BY <2>1, <2>2
<1>3. /\ \A j \in Jobs \ {held[w].job} : fate'[j] = fate[j]
      /\ \/ fate'[held[w].job] = "succeeded"
         \/ fate'[held[w].job] = "gave_up" /\ held[w].retry = MaxRetry
  BY <1>1, <1>2 DEF WorkerTypeOK
<1>4. \A j \in Jobs \ {held[w].job} : InHands(j) => InHands(j)'
  BY <1>1 DEF InHands
<1>5. Findable(W)'
  BY <1>1, <1>3, <1>4 DEF Undelayed, Findable, Waits
<1>6. Exact(W)'
  BY <1>1, <1>3 DEF Undelayed, Exact, R!RetryBudget
<1>7. QED
  BY <1>5, <1>6 DEF Undelayed

(* Clearing the queue ends the jobs it takes away and leaves the others as they are. *)
LEMMA ClearKeepsUndelayed ==
    ASSUME WorkerTypeOK, HandsFit,
           NEW W \in SUBSET Wrapper, Discipline(W), Undelayed(W),
           NEW js, Cleared(js)
    PROVE  Undelayed({x \in W : x.job \notin js})'
<1>1. \A j \in Jobs : fate'[j] = IF j \in js THEN "cleared" ELSE fate[j]
  BY DEF Cleared
<1>2. UNCHANGED <<pc, held, attempts, asked>>
  BY DEF Cleared, workerVars
<1>3. Findable({x \in W : x.job \notin js})'
  BY <1>1, <1>2 DEF Undelayed, Findable, Waits, InHands, Has
<1>4. Exact({x \in W : x.job \notin js})'
  BY <1>1, <1>2 DEF Undelayed, Exact, Has, R!RetryBudget
<1>5. QED
  BY <1>3, <1>4 DEF Undelayed

(* A crash ends the jobs in hand and leaves the others as they are. *)
LEMMA CrashKeepsUndelayed ==
    ASSUME WorkerTypeOK, HandsFit,
           NEW W \in SUBSET Wrapper, Discipline(W), Undelayed(W),
           NEW js \in SUBSET Jobs, Dies(js), \A j \in Jobs : InHands(j) => j \in js
    PROVE  Undelayed({x \in W : x.job \notin js})'
<1>1. \A w \in Workers : ~Has(w)'
  BY DEF HandsFit, Has, Dies
<1>2. /\ \A j \in Jobs : fate'[j] = IF j \in js THEN "lost_in_a_crash" ELSE fate[j]
      /\ UNCHANGED <<attempts, asked>>
  BY DEF Dies
<1>3. Findable({x \in W : x.job \notin js})'
  BY <1>2 DEF Undelayed, Findable, Waits
<1>4. Exact({x \in W : x.job \notin js})'
  BY <1>1, <1>2 DEF Undelayed, Exact, R!RetryBudget
<1>5. QED
  BY <1>3, <1>4 DEF Undelayed

(* Time passing moves no job and counts no attempt. *)
LEMMA TickKeepsUndelayed ==
    ASSUME WorkerTypeOK, HandsFit,
           NEW W \in SUBSET Wrapper, Discipline(W), Undelayed(W), WorkerTick
    PROVE  Undelayed(AgedSet(W))'
<1>1. \A w \in Workers : Has(w) =>
         held'[w].job = held[w].job /\ held'[w].retry = held[w].retry
  BY HeldFields, WrapperFields DEF WorkerTick, Has
<1>2. pc' = pc /\ UNCHANGED <<fate, attempts, asked>>
  BY DEF WorkerTick
<1>3. \A y \in AgedSet(W) : \E x \in W : y.job = x.job /\ y.retry = x.retry
  BY WrapperFields DEF AgedSet
<1>4. \A j \in Jobs : (Waits(W, j) => Waits(AgedSet(W), j)) /\ (InHands(j) => InHands(j)')
  BY <1>1, <1>2, WrapperFields DEF AgedSet, Waits, InHands, Has
<1>5. Findable(AgedSet(W))'
  BY <1>2, <1>4 DEF Undelayed, Findable, Waits
<1>6. Exact(AgedSet(W))'
  BY <1>1, <1>2, <1>3 DEF Undelayed, Exact, Has, R!RetryBudget
<1>7. QED
  BY <1>5, <1>6 DEF Undelayed

-----------------------------------------------------------------------------
(* What the workers' types are built from is the same in every instance.   *)
LEMMA SameTypes ==
    /\ R!WorkerTypeOK = WorkerTypeOK /\ U!WorkerTypeOK = WorkerTypeOK
    /\ D!WorkerTypeOK = WorkerTypeOK
    /\ R!Wrapper = Wrapper /\ U!Wrapper = Wrapper /\ D!Wrapper = Wrapper
    /\ R!NoJob = NoJob /\ U!NoJob = NoJob /\ D!NoJob = NoJob
    /\ D!MaxWait = MaxWait
<1>1. R!MaxWait = MaxWait /\ U!MaxWait = MaxWait /\ D!MaxWait = MaxWait
  BY DEF R!MaxWait, U!MaxWait, D!MaxWait, MaxWait
<1>2. R!NoJob = NoJob /\ U!NoJob = NoJob /\ D!NoJob = NoJob
  BY DEF R!NoJob, U!NoJob, D!NoJob, NoJob
<1>3. R!Wrapper = Wrapper /\ U!Wrapper = Wrapper /\ D!Wrapper = Wrapper
  BY <1>1 DEF R!Wrapper, U!Wrapper, D!Wrapper, Wrapper
<1>4. R!WorkerTypeOK = WorkerTypeOK
  BY <1>1, <1>2, <1>3 DEF R!WorkerTypeOK, WorkerTypeOK, R!Finished, Finished
<1>5. U!WorkerTypeOK = WorkerTypeOK
  BY <1>1, <1>2, <1>3 DEF U!WorkerTypeOK, WorkerTypeOK, U!Finished, Finished
<1>6. D!WorkerTypeOK = WorkerTypeOK
  BY <1>1, <1>2, <1>3 DEF D!WorkerTypeOK, WorkerTypeOK, D!Finished, Finished
<1>7. QED
  BY <1>1, <1>2, <1>3, <1>4, <1>5, <1>6

(* The drivers age wrappers as the worker does. *)
LEMMA SameAging ==
    ASSUME NEW x
    PROVE  /\ R!AgedWrapper(x) = AgedWrapper(x) /\ U!AgedWrapper(x) = AgedWrapper(x)
           /\ D!AgedWrapper(x) = AgedWrapper(x)
           /\ D!Aged(x) = Aged(x)
<1>1. \A n : R!Aged(n) = Aged(n) /\ U!Aged(n) = Aged(n) /\ D!Aged(n) = Aged(n)
  BY DEF R!Aged, U!Aged, D!Aged, Aged
<1>2. R!AgedWrapper(x) = AgedWrapper(x)
  BY <1>1, SameTypes DEF R!AgedWrapper, AgedWrapper
<1>3. U!AgedWrapper(x) = AgedWrapper(x)
  BY <1>1, SameTypes DEF U!AgedWrapper, AgedWrapper
<1>4. D!AgedWrapper(x) = AgedWrapper(x)
  BY <1>1, SameTypes DEF D!AgedWrapper, AgedWrapper
<1>5. QED
  BY <1>1, <1>2, <1>3, <1>4

-----------------------------------------------------------------------------
(* Every worker step of the Redis driver is a step of the workers with an  *)
(* effect on the list and the sorted set.                                  *)
LEMMA RedisReleases ==
    ASSUME NEW w, \/ R!PutBackEarly(w) \/ U!PutBackEarly(w)
                  \/ R!PutBackForRetry(w) \/ U!PutBackForRetry(w)
    PROVE  \E y : /\ \/ ReleaseEarly(w) /\ y = EarlyRelease(w)
                     \/ FailRetry(w) /\ y = RetryRelease(w)
                  /\ delayed' = IF y.wait > 0 THEN delayed \cup {y} ELSE delayed
                  /\ UNCHANGED <<list, found, moving, crashes>>
<1>1. CASE R!PutBackEarly(w)
  BY <1>1, SameTypes
     DEF R!PutBackEarly, R!ReleaseEarly, R!Release, R!EarlyRelease, R!Released, R!AtMost,
         R!LetGo, R!history, ReleaseEarly, EarlyRelease, Released, AtMost, LetGo, history
<1>2. CASE U!PutBackEarly(w)
  BY <1>2, SameTypes
     DEF U!PutBackEarly, U!ReleaseEarly, U!Release, U!EarlyRelease, U!Released, U!AtMost,
         U!LetGo, U!history, ReleaseEarly, EarlyRelease, Released, AtMost, LetGo, history
<1>3. CASE R!PutBackForRetry(w)
  BY <1>3, SameTypes
     DEF R!PutBackForRetry, R!FailRetry, R!Release, R!RetryRelease, R!Released, R!AtMost,
         R!LetGo, R!HasRetry, R!BackoffOf, FailRetry, RetryRelease, Released, AtMost, LetGo,
         HasRetry, BackoffOf
<1>4. CASE U!PutBackForRetry(w)
  BY <1>4, SameTypes
     DEF U!PutBackForRetry, U!FailRetry, U!Release, U!RetryRelease, U!Released, U!AtMost,
         U!LetGo, U!HasRetry, U!BackoffOf, FailRetry, RetryRelease, Released, AtMost, LetGo,
         HasRetry, BackoffOf
<1>5. QED
  BY <1>1, <1>2, <1>3, <1>4

(* Steps that change nothing of the queue itself. *)
LEMMA QueueUntouched ==
    ASSUME WorkerTypeOK, HandsFit,
           NEW W, Discipline(W), Undelayed(W), UNCHANGED queueVars
    PROVE  WorkerTypeOK' /\ HandsFit' /\ Discipline(W)' /\ Undelayed(W)'
<1> USE DEF queueVars, workerVars, history
<1>1. WorkerTypeOK' /\ HandsFit'
  BY DEF WorkerTypeOK, HandsFit, Has
<1>2. Discipline(W)'
  BY DEF Discipline, Honest, Has, AttemptsBounded
<1>3. Undelayed(W)'
  BY DEF Undelayed, Findable, Waits, InHands, Exact, Has, R!RetryBudget
<1>4. QED
  BY <1>1, <1>2, <1>3

(* The list, the sorted set and the processor of the Redis driver. *)
RedisTypes ==
    /\ list \in Seq(Wrapper)
    /\ delayed \subseteq Wrapper
    /\ found \in [Processors -> SUBSET Wrapper]
    /\ moving \in [Processors -> Wrapper \cup {NoJob}]

(* Every step of the Redis driver, registered or not, keeps its invariant. *)
LEMMA RedisStep ==
    ASSUME WorkerTypeOK, RedisTypes, HandsFit, OneProcessor, RedisInv,
           \/ R!Next \/ U!Next
           \/ UNCHANGED <<queueVars, list, delayed, found, moving>>
    PROVE  WorkerTypeOK' /\ RedisTypes' /\ HandsFit' /\ RedisInv'
<1>1. PICK W : W = RedisWaiting
  OBVIOUS
<1>2. PICK W2 : W2 = RedisWaiting'
  OBVIOUS
<1>3. PICK M : M = Moving
  OBVIOUS
<1>4. PICK M2 : M2 = Moving'
  OBVIOUS
<1>5. /\ W = Elements(list) \cup delayed \cup M
      /\ W2 = Elements(list') \cup delayed' \cup M2
  BY <1>1, <1>2, <1>3, <1>4 DEF RedisWaiting
<1>6. /\ M = {moving[p] : p \in {q \in Processors : moving[q] # NoJob}}
      /\ M2 = {moving'[p] : p \in {q \in Processors : moving'[q] # NoJob}}
  BY <1>3, <1>4 DEF Moving
<1>7. M \in SUBSET Wrapper /\ W \in SUBSET Wrapper
  BY <1>5, <1>6 DEF RedisTypes, Elements
<1>8. Discipline(W) /\ Undelayed(W) /\ Apart(M)
  BY <1>1, <1>3 DEF RedisInv
<1> DEFINE Good == /\ WorkerTypeOK' /\ RedisTypes' /\ HandsFit'
                   /\ Discipline(W2)' /\ Apart(M2)' /\ Undelayed(W2)'
<1>9. SUFFICES Good
  BY <1>2, <1>4 DEF RedisInv, Discipline, Apart, Undelayed, Findable, Waits, Exact
<1>10. ASSUME NEW j \in Jobs, NEW delay \in Delays, R!PushJob(j, delay) \/ U!PushJob(j, delay)
       PROVE  Good
  <2>1. /\ Push(j, delay) /\ list' = <<NewWrapper(j, delay)>> \o list
        /\ UNCHANGED <<delayed, found, moving>>
    BY <1>10 DEF R!PushJob, U!PushJob, R!Push, U!Push, R!LPush, U!LPush, R!NewWrapper,
                 U!NewWrapper, R!workerVars, U!workerVars, Push, NewWrapper, workerVars
  <2>2. PICK x : x = NewWrapper(j, delay)
    OBVIOUS
  <2>3. x \in Wrapper /\ ~Waits(W, j) /\ x.job = j /\ x.wait = delay
    BY <1>7, <1>8, <2>1, <2>2, PushKeeps DEF NewWrapper
  <2>4. M2 = M
    BY <1>6, <2>1
  <2>5. list' \in Seq(Wrapper) /\ Elements(list') = Elements(list) \cup {x} /\ Once(list')
    BY <1>5, <1>8, <2>1, <2>2, <2>3, Prepended DEF Waits, Apart, RedisTypes
  <2>6. W2 = W \cup {x}
    BY <1>5, <2>1, <2>4, <2>5
  <2>7. WorkerTypeOK' /\ HandsFit' /\ Discipline(W2)'
    BY <1>7, <1>8, <2>1, <2>2, <2>6, PushKeeps
  <2>8. Undelayed(W2)'
    <3>1. Undelayed(W \cup {NewWrapper(j, delay)})'
      BY <1>7, <1>8, <2>1, PushKeepsUndelayed
    <3>2. QED
      BY <2>2, <2>6, <3>1 DEF Undelayed, Findable, Waits, Exact
  <2>9. asked' = [asked EXCEPT ![j] = delay] /\ asked \in [Jobs -> Delays \cup {0}]
    BY <2>1 DEF Push, WorkerTypeOK
  <2>10. Apart(M2)'
    BY <1>5, <1>7, <1>8, <2>1, <2>3, <2>4, <2>5, <2>9, WrapperFields, ZenonT(60) DEF Apart, Waits
  <2>11. RedisTypes'
    BY <2>1, <2>5 DEF RedisTypes
  <2>12. QED
    BY <2>7, <2>8, <2>10, <2>11
<1>11. ASSUME /\ \/ Listen \/ StopBegin \/ StopEnd
                 \/ \E w \in Workers : Check(w) \/ ReceiveNothing(w)
              /\ UNCHANGED <<list, delayed, found, moving>>
       PROVE  Good
  <2>1. M2 = M /\ W2 = W
    BY <1>5, <1>6, <1>11
  <2>2. UNCHANGED history
    BY <1>11 DEF Listen, StopBegin, StopEnd, Check, ReceiveNothing
  <2>3. WorkerTypeOK' /\ HandsFit' /\ Discipline(W2)'
    BY <1>7, <1>8, <1>11, <2>1, MovesKeep
  <2>4. Undelayed(W2)'
    BY <1>7, <1>8, <1>11, <2>1, MovesKeepUndelayed
  <2>5. Apart(M2)' /\ RedisTypes'
    BY <1>8, <1>11, <2>1, <2>2 DEF Apart, RedisTypes, history
  <2>6. QED
    BY <2>3, <2>4, <2>5
<1>12. ASSUME NEW w \in Workers, R!Pop(w) \/ U!Pop(w) PROVE Good
  <2>1. /\ list # <<>> /\ Takes(w, Last(list)) /\ list' = Front(list)
        /\ UNCHANGED <<delayed, found, moving>>
    BY <1>12, ReceiveTakes DEF R!Pop, U!Pop, R!Last, U!Last, R!Front, U!Front, Last, Front
  <2>2. PICK x : x = Last(list)
    OBVIOUS
  <2>3. /\ x \in Elements(list) /\ list' \in Seq(Wrapper) /\ Once(list')
        /\ Elements(list') = {y \in Elements(list) : y.job # x.job}
    BY <1>8, <2>1, <2>2, Curtailed DEF Apart, RedisTypes
  <2>4. M2 = M
    BY <1>6, <2>1
  <2>5. x \in W /\ W2 = {y \in W : y.job # x.job}
    BY <1>5, <1>8, <2>1, <2>3, <2>4 DEF Apart
  <2>6. WorkerTypeOK' /\ HandsFit' /\ Discipline(W2)'
    BY <1>7, <1>8, <2>1, <2>2, <2>5, ReceiveKeeps
  <2>7. Undelayed(W2)'
    <3>1. asked[x.job] = 0 => x.wait = 0
      BY <1>8, <2>3 DEF Apart
    <3>2. Undelayed({y \in W : y.job # x.job})'
      BY <1>7, <1>8, <2>1, <2>2, <2>5, <3>1, ReceiveKeepsUndelayed
    <3>3. QED
      BY <2>5, <3>2 DEF Undelayed, Findable, Waits, Exact
  <2>8. asked' = asked
    BY <2>1 DEF Takes, Start, history
  <2>9. Apart(M2)' /\ RedisTypes'
    BY <1>8, <2>1, <2>3, <2>4, <2>8 DEF Apart, RedisTypes
  <2>10. QED
    BY <2>6, <2>7, <2>9
<1>13. ASSUME NEW w \in Workers,
              \/ R!PutBackEarly(w) \/ U!PutBackEarly(w)
              \/ R!PutBackForRetry(w) \/ U!PutBackForRetry(w)
       PROVE  Good
  <2>1. PICK y : /\ \/ ReleaseEarly(w) /\ y = EarlyRelease(w)
                    \/ FailRetry(w) /\ y = RetryRelease(w)
                 /\ delayed' = IF y.wait > 0 THEN delayed \cup {y} ELSE delayed
                 /\ UNCHANGED <<list, found, moving, crashes>>
    BY <1>13, RedisReleases
  <2>2. /\ y \in Wrapper /\ y.job = held[w].job /\ Has(w) /\ asked' = asked
        /\ FailRetry(w) => y.wait > 0
    <3>1. CASE ReleaseEarly(w) /\ y = EarlyRelease(w)
      BY <1>7, <1>8, <3>1, ReleaseEarlyKeeps DEF ReleaseEarly, FailRetry, Has, history
    <3>2. CASE FailRetry(w) /\ y = RetryRelease(w)
      BY <1>7, <1>8, <3>2, FailRetryKeeps DEF FailRetry, Has
    <3>3. QED
      BY <2>1, <3>1, <3>2
  <2>3. M2 = M /\ delayed \subseteq delayed' /\ delayed' \subseteq delayed \cup {y}
    BY <1>6, <2>1
  <2>4. W \subseteq W2 /\ W2 \subseteq W \cup {y} /\ (y.wait > 0 => W2 = W \cup {y})
    BY <1>5, <2>1, <2>3
  <2>5. WorkerTypeOK' /\ HandsFit' /\ Discipline(W2)'
    BY <1>7, <1>8, <2>1, <2>4, ReleaseEarlyKeeps, FailRetryKeeps
  <2>6. Undelayed(W2)'
    BY <1>7, <1>8, <2>1, <2>2, <2>4, ReleaseKeepsUndelayed
  <2>7. \A x \in W : x.job # y.job
    BY <1>8, <2>2 DEF Discipline
  <2>8. Apart(M2)' /\ RedisTypes'
    <3>1. Elements(list) \subseteq W /\ delayed \subseteq W /\ M \subseteq W
      BY <1>5
    <3>2. Apart(M2)'
      BY <1>8, <2>1, <2>2, <2>3, <2>7, <3>1 DEF Apart
    <3>3. RedisTypes'
      BY <2>1, <2>2, <2>3 DEF RedisTypes
    <3>4. QED
      BY <3>2, <3>3
  <2>9. QED
    BY <2>5, <2>6, <2>8
<1>14. ASSUME NEW w \in Workers, R!Delete(w) \/ U!Delete(w) PROVE Good
  <2>1. (Succeed(w) \/ GiveUp(w)) /\ UNCHANGED <<list, delayed, found, moving>>
    BY <1>14 DEF R!Delete, U!Delete, R!Succeed, U!Succeed, R!GiveUp, U!GiveUp, R!HasRetry,
                 U!HasRetry, R!LetGo, U!LetGo, R!redisVars, U!redisVars, Succeed, GiveUp, HasRetry,
                 LetGo, R!NoJob, U!NoJob, NoJob
  <2>2. M2 = M /\ W2 = W /\ asked' = asked
    BY <1>5, <1>6, <2>1 DEF Succeed, GiveUp
  <2>3. WorkerTypeOK' /\ HandsFit' /\ Discipline(W2)'
    BY <1>7, <1>8, <2>1, <2>2, EndKeeps
  <2>4. Undelayed(W2)'
    BY <1>7, <1>8, <2>1, <2>2, EndKeepsUndelayed
  <2>5. Apart(M2)' /\ RedisTypes'
    BY <1>8, <2>1, <2>2 DEF Apart, RedisTypes
  <2>6. QED
    BY <2>3, <2>4, <2>5
<1>15. ASSUME NEW p \in Processors, R!Scan(p) \/ U!Scan(p) PROVE Good
  <2>1. /\ found' = [found EXCEPT ![p] = {d \in delayed : d.wait = 0}]
        /\ UNCHANGED <<queueVars, list, delayed, moving>>
    BY <1>15 DEF R!Scan, U!Scan, R!queueVars, U!queueVars, R!workerVars, U!workerVars,
                 R!history, U!history, queueVars, workerVars, history
  <2>2. M2 = M /\ W2 = W
    BY <1>5, <1>6, <2>1
  <2>3. WorkerTypeOK' /\ HandsFit' /\ Discipline(W2)' /\ Undelayed(W2)'
    BY <1>8, <2>1, <2>2, QueueUntouched
  <2>4. Apart(M2)' /\ RedisTypes'
    BY <1>8, <2>1, <2>2 DEF Apart, RedisTypes, queueVars, history
  <2>5. QED
    BY <2>3, <2>4
<1>16. ASSUME NEW p \in Processors, NEW x \in found[p], R!TakeDue(p, x) \/ U!TakeDue(p, x)
       PROVE  Good
  <2>1. /\ moving[p] = NoJob
        /\ delayed' = delayed \ {x}
        /\ moving' = [moving EXCEPT ![p] = x]
        /\ found' = [found EXCEPT ![p] = @ \ {x}]
        /\ UNCHANGED <<queueVars, list>>
    BY <1>16, SameTypes
       DEF R!TakeDue, U!TakeDue, R!queueVars, U!queueVars, R!workerVars, U!workerVars,
           R!history, U!history, queueVars, workerVars, history
  <2>2. x \in delayed /\ x \in Wrapper /\ x # NoJob /\ x.wait = 0
    BY <1>8, WrapperFields DEF Apart, RedisTypes
  <2>3. M = {} /\ M2 = {x}
    BY <1>6, <2>1, <2>2 DEF OneProcessor, RedisTypes
  <2>4. W2 = W
    BY <1>5, <2>1, <2>2, <2>3
  <2>5. WorkerTypeOK' /\ HandsFit' /\ Discipline(W2)' /\ Undelayed(W2)'
    BY <1>8, <2>1, <2>4, QueueUntouched
  <2>6. RedisTypes'
    BY <2>1, <2>2 DEF RedisTypes
  <2>7. asked' = asked
    BY <2>1 DEF queueVars, history
  <2>8. \A q \in Processors : found'[q] \subseteq delayed' /\ found'[q] \subseteq found[q]
    BY <1>8, <2>1 DEF Apart, RedisTypes, OneProcessor
  <2>9. Apart(M2)'
    BY <1>8, <2>1, <2>2, <2>3, <2>7, <2>8 DEF Apart
  <2>10. QED
    BY <2>5, <2>6, <2>9
<1>17. ASSUME NEW p \in Processors, R!PushDue(p) \/ U!PushDue(p) PROVE Good
  <2>1. /\ moving[p] # NoJob
        /\ list' = <<moving[p]>> \o list
        /\ moving' = [moving EXCEPT ![p] = NoJob]
        /\ UNCHANGED <<queueVars, delayed, found>>
    BY <1>17, SameTypes
       DEF R!PushDue, U!PushDue, R!LPush, U!LPush, R!queueVars, U!queueVars, R!workerVars,
           U!workerVars, R!history, U!history, queueVars, workerVars, history
  <2>2. PICK x : x = moving[p]
    OBVIOUS
  <2>3. x \in Wrapper /\ M = {x} /\ M2 = {}
    BY <1>6, <2>1, <2>2 DEF OneProcessor, RedisTypes
  <2>4. list' \in Seq(Wrapper) /\ Elements(list') = Elements(list) \cup {x} /\ Once(list')
    BY <1>8, <2>1, <2>2, <2>3, Prepended DEF Apart, RedisTypes
  <2>5. W2 = W
    BY <1>5, <2>1, <2>3, <2>4
  <2>6. WorkerTypeOK' /\ HandsFit' /\ Discipline(W2)' /\ Undelayed(W2)'
    BY <1>8, <2>1, <2>5, QueueUntouched
  <2>7. RedisTypes'
    BY <2>1, <2>4 DEF RedisTypes
  <2>8. Apart(M2)'
    BY <1>8, <2>1, <2>3, <2>4 DEF Apart, queueVars, history
  <2>9. QED
    BY <2>6, <2>7, <2>8
<1>18. ASSUME R!Clear \/ U!Clear PROVE Good
  <2>1. PICK js : js = {list[i].job : i \in DOMAIN list}
    OBVIOUS
  <2>2. list' = <<>> /\ Cleared(js) /\ UNCHANGED <<delayed, found, moving>>
    BY <1>18, <2>1 DEF R!Clear, U!Clear, R!Cleared, U!Cleared, R!workerVars, U!workerVars,
                       Cleared, workerVars
  <2>3. js = {x.job : x \in Elements(list)} /\ Elements(list') = {} /\ Once(list')
    BY <2>1, <2>2, NoElements DEF Elements
  <2>4. M2 = M
    BY <1>6, <2>2
  <2>5. W2 = {x \in W : x.job \notin js} /\ js \in SUBSET {x.job : x \in W}
    BY <1>5, <1>8, <2>2, <2>3, <2>4 DEF Apart
  <2>6. WorkerTypeOK' /\ HandsFit' /\ Discipline(W2)'
    BY <1>7, <1>8, <2>2, <2>5, ClearKeeps
  <2>7. Undelayed(W2)'
    <3>1. Undelayed({x \in W : x.job \notin js})'
      BY <1>7, <1>8, <2>2, ClearKeepsUndelayed
    <3>2. QED
      BY <2>5, <3>1 DEF Undelayed, Findable, Waits, Exact
  <2>8. list' \in Seq(Wrapper) /\ asked' = asked
    BY <2>2 DEF Cleared
  <2>9. Apart(M2)' /\ RedisTypes'
    BY <1>8, <2>2, <2>3, <2>4, <2>8 DEF Apart, RedisTypes
  <2>10. QED
    BY <2>6, <2>7, <2>9
<1>19. ASSUME R!Crash \/ U!Crash PROVE Good
  <2>1. PICK js : /\ js = {held[w].job : w \in {v \in Workers : held[v] # NoJob}}
                          \cup {moving[p].job : p \in {q \in Processors : moving[q] # NoJob}}
                  /\ Dies(js)
                  /\ moving' = [p \in Processors |-> NoJob]
                  /\ found' = [p \in Processors |-> {}]
                  /\ UNCHANGED <<list, delayed>>
    <3>1. PICK js : js = {held[w].job : w \in {v \in Workers : held[v] # NoJob}}
                          \cup {moving[p].job : p \in {q \in Processors : moving[q] # NoJob}}
      OBVIOUS
    <3>2. R!InMemory = js /\ U!InMemory = js
      BY <3>1, SameTypes DEF R!InMemory, U!InMemory
    <3>3. CASE R!Crash
      BY <3>1, <3>2, <3>3, SameTypes, ZenonT(60) DEF R!Crash, Dies
    <3>4. CASE U!Crash
      BY <3>1, <3>2, <3>4, SameTypes, ZenonT(60) DEF U!Crash, Dies
    <3>5. QED
      BY <1>19, <3>3, <3>4
  <2>2. \A j : j \in js <=> InHands(j) \/ \E x \in M : x.job = j
    BY <1>6, <2>1 DEF InHands, HandsFit
  <2>3. js \in SUBSET Jobs /\ \A j \in js : fate[j] = "pending"
    BY <1>5, <1>7, <1>8, <2>2, HeldFields, WrapperFields DEF InHands, Discipline
  <2>4. M2 = {}
    BY <1>6, <2>1
  <2>5. W2 = {x \in W : x.job \notin js}
    <3>1. \A x \in M : x.job \in js
      BY <2>2
    <3>2. \A x \in W \ M : x.job \notin js
      BY <1>5, <1>8, <2>2 DEF Discipline, InHands, Apart
    <3>3. W2 = Elements(list) \cup delayed
      BY <1>5, <2>1, <2>4
    <3>4. \A x \in Elements(list) \cup delayed : x \notin M
      BY <1>8 DEF Apart
    <3>5. QED
      BY <1>5, <3>1, <3>2, <3>3, <3>4
  <2>6. WorkerTypeOK' /\ HandsFit' /\ Discipline(W2)'
    BY <1>7, <1>8, <2>1, <2>3, <2>5, CrashKeeps, SMTT(60)
  <2>7. Undelayed(W2)'
    <3>1. Undelayed({x \in W : x.job \notin js})'
      BY <1>7, <1>8, <2>1, <2>2, <2>3, CrashKeepsUndelayed
    <3>2. QED
      BY <2>5, <3>1 DEF Undelayed, Findable, Waits, Exact
  <2>8. asked' = asked
    BY <2>1 DEF Dies
  <2>9. Apart(M2)' /\ RedisTypes'
    BY <1>8, <2>1, <2>4, <2>8 DEF Apart, RedisTypes
  <2>10. QED
    BY <2>6, <2>7, <2>9
<1>20. ASSUME R!Tick \/ U!Tick PROVE Good
  <2>1. /\ WorkerTick
        /\ list' = [i \in DOMAIN list |-> AgedWrapper(list[i])]
        /\ delayed' = AgedSet(delayed)
        /\ found' = [p \in Processors |-> AgedSet(found[p])]
        /\ moving' = [p \in Processors |-> AgedWrapper(moving[p])]
    <3>1. CASE R!Tick
      BY <3>1, SameAging DEF R!Tick, R!WorkerTick, WorkerTick, AgedSet, R!Aged, Aged
    <3>2. CASE U!Tick
      BY <3>2, SameAging DEF U!Tick, U!WorkerTick, WorkerTick, AgedSet, U!Aged, Aged
    <3>3. QED
      BY <1>20, <3>1, <3>2
  <2>2. list' \in Seq(Wrapper) /\ Elements(list') = AgedSet(Elements(list)) /\ Once(list')
    BY <1>8, <2>1, AgedInOrder DEF Apart, RedisTypes
  <2>3. AgedWrapper(NoJob) = NoJob
    BY DEF AgedWrapper
  <2>4. M2 = AgedSet(M)
    <3>1. \A p \in Processors : moving'[p] = AgedWrapper(moving[p])
      BY <2>1
    <3>2. \A p \in Processors : moving'[p] # NoJob <=> moving[p] # NoJob
      BY <2>3, <3>1, WrapperFields DEF RedisTypes
    <3>3. QED
      BY <1>6, <3>1, <3>2 DEF AgedSet
  <2>5. W2 = AgedSet(W)
    BY <1>5, <2>1, <2>2, <2>4 DEF AgedSet
  <2>6. WorkerTypeOK' /\ HandsFit' /\ Discipline(W2)'
    BY <1>7, <1>8, <2>1, <2>5, TickKeeps DEF Discipline
  <2>7. Undelayed(W2)'
    <3>1. Undelayed(AgedSet(W))'
      BY <1>7, <1>8, <2>1, TickKeepsUndelayed
    <3>2. QED
      BY <2>5, <3>1 DEF Undelayed, Findable, Waits, Exact
  <2>8. RedisTypes'
    BY <2>1, <2>2, <2>3, WrapperFields DEF RedisTypes, AgedSet
  <2>9. Apart(M2)'
    <3>1. \A x \in W : x \in Wrapper /\ AgedWrapper(x).job = x.job
                       /\ AgedWrapper(x).wait = Aged(x.wait) /\ (x.wait = 0 => Aged(x.wait) = 0)
      BY <1>7, WrapperFields DEF Aged
    <3>2. /\ Elements(list) \subseteq W /\ delayed \subseteq W /\ M \subseteq W
          /\ \A p \in Processors : found[p] \subseteq delayed
      BY <1>5, <1>8 DEF Apart
    <3>3. asked' = asked
      BY <2>1 DEF WorkerTick
    <3>4. (\A x, y \in delayed : x.job = y.job => x = y)'
      BY <1>8, <2>1, <3>1, <3>2 DEF Apart, AgedSet
    <3>5. /\ \A x \in Elements(list'), y \in delayed' \cup M2 : x.job # y.job
          /\ \A x \in delayed', y \in M2 : x.job # y.job
      BY <1>8, <2>1, <2>2, <2>4, <3>1, <3>2 DEF Apart, AgedSet
    <3>6. /\ \A p \in Processors : found'[p] \subseteq delayed'
          /\ \A p \in Processors : \A x \in found'[p] : x.wait = 0
      BY <1>8, <2>1, <3>1, <3>2 DEF Apart, AgedSet
    <3>7. \A x \in Elements(list') \cup M2 : asked[x.job] = 0 => x.wait = 0
      BY <1>8, <2>2, <2>4, <3>1, <3>2 DEF Apart, AgedSet
    <3>8. QED
      BY <2>2, <3>3, <3>4, <3>5, <3>6, <3>7 DEF Apart
  <2>10. QED
    BY <2>6, <2>7, <2>8, <2>9
<1>21. CASE UNCHANGED <<queueVars, list, delayed, found, moving>>
  <2>1. M2 = M /\ W2 = W
    BY <1>5, <1>6, <1>21
  <2>2. WorkerTypeOK' /\ HandsFit' /\ Discipline(W2)' /\ Undelayed(W2)'
    BY <1>8, <1>21, <2>1, QueueUntouched
  <2>3. Apart(M2)' /\ RedisTypes'
    BY <1>8, <1>21, <2>1 DEF Apart, RedisTypes, queueVars, history
  <2>4. QED
    BY <2>2, <2>3
<1>22. CASE R!Next
  <2>1. ASSUME \/ (R!Listen \/ R!StopBegin \/ R!StopEnd) /\ UNCHANGED R!redisVars
               \/ \E w \in Workers : (R!Check(w) /\ UNCHANGED R!redisVars) \/ R!PopNothing(w)
        PROVE  /\ \/ Listen \/ StopBegin \/ StopEnd
                  \/ \E w \in Workers : Check(w) \/ ReceiveNothing(w)
               /\ UNCHANGED <<list, delayed, found, moving>>
    BY <2>1 DEF R!Listen, R!StopBegin, R!StopEnd, R!Check, R!PopNothing, R!ReceiveNothing,
                R!redisVars, R!history, Listen, StopBegin, StopEnd, Check, ReceiveNothing, history
  <2>2. QED
    BY <1>10, <1>11, <1>12, <1>13, <1>14, <1>15, <1>16, <1>17, <1>18, <1>19, <1>20, <1>22, <2>1
       DEF R!Next, R!WorkerStep, R!ProcessorStep
<1>23. CASE U!Next
  <2>1. ASSUME \/ (U!Listen \/ U!StopBegin \/ U!StopEnd) /\ UNCHANGED U!redisVars
               \/ \E w \in Workers : (U!Check(w) /\ UNCHANGED U!redisVars) \/ U!PopNothing(w)
        PROVE  /\ \/ Listen \/ StopBegin \/ StopEnd
                  \/ \E w \in Workers : Check(w) \/ ReceiveNothing(w)
               /\ UNCHANGED <<list, delayed, found, moving>>
    BY <2>1 DEF U!Listen, U!StopBegin, U!StopEnd, U!Check, U!PopNothing, U!ReceiveNothing,
                U!redisVars, U!history, Listen, StopBegin, StopEnd, Check, ReceiveNothing, history
  <2>2. QED
    BY <1>10, <1>11, <1>12, <1>13, <1>14, <1>15, <1>16, <1>17, <1>18, <1>19, <1>20, <1>23, <2>1
       DEF U!Next, U!WorkerStep, U!ProcessorStep
<1>24. QED
  BY <1>21, <1>22, <1>23

-----------------------------------------------------------------------------
(* The first of several rows is one of them. *)
LEMMA FirstRow ==
    ASSUME NEW is \in SUBSET Nat, is # {}
    PROVE  D!First(is) \in is
<1>1. PICK R_ : R_ = {mn \in Nat \X Nat : mn[1] < mn[2]}
  OBVIOUS
<1>2. IsWellFoundedOn(R_, Nat)
  BY <1>1, NatLessThanWellFounded DEF OpToRel
<1>3. PICK i \in is : \A k \in is : <<k, i>> \notin R_
  BY <1>2, WFMin
<1>4. \A k \in is : ~(k < i)
  BY <1>1, <1>3
<1>5. \A k \in is : i <= k
  BY <1>4
<1>6. QED
  BY <1>5 DEF D!First

(* The rows of the jobs table. *)
TableRow == [wrapper : Wrapper, available : 0..MaxWait, reserved : BOOLEAN]
DatabaseTypes == rows \in Seq(TableRow)

(* Every step of the database driver keeps its invariant. *)
LEMMA DatabaseStep ==
    ASSUME WorkerTypeOK, DatabaseTypes, HandsFit, DatabaseInv,
           D!Next \/ UNCHANGED <<queueVars, rows>>
    PROVE  WorkerTypeOK' /\ DatabaseTypes' /\ HandsFit' /\ DatabaseInv'
<1> DEFINE Single(t) == \A i, k \in DOMAIN t : t[i].wrapper.job = t[k].wrapper.job => i = k
<1> DEFINE Timed(t) == \A i \in DOMAIN t : t[i].wrapper.wait = t[i].available
<1>1. PICK W : W = DatabaseWaiting
  OBVIOUS
<1>2. PICK W2 : W2 = DatabaseWaiting'
  OBVIOUS
<1>3. /\ W = {rows[i].wrapper : i \in {k \in DOMAIN rows : ~rows[k].reserved}}
      /\ W2 = {rows'[i].wrapper : i \in {k \in DOMAIN rows' : ~rows'[k].reserved}}
  BY <1>1, <1>2 DEF DatabaseWaiting
<1>4. rows \in Seq(TableRow) /\ DOMAIN rows = 1..Len(rows) /\ \A i \in DOMAIN rows : rows[i] \in TableRow
  BY DEF DatabaseTypes
<1>5. \A i \in DOMAIN rows :
         /\ rows[i].wrapper \in Wrapper /\ rows[i].wrapper.job \in Jobs
         /\ rows[i].available \in 0..MaxWait /\ rows[i].reserved \in BOOLEAN
  BY <1>4, WrapperFields DEF TableRow
<1>6. W \in SUBSET Wrapper
  BY <1>3, <1>5
<1>7. /\ Discipline(W)
      /\ Single(rows) /\ Timed(rows)
      /\ \A i \in DOMAIN rows : fate[rows[i].wrapper.job] # "new"
      /\ \A x \in W : attempts[x.job] = 0
      /\ \A j \in Jobs : attempts[j] <= 1
      /\ \A w \in Workers : pc[w] # "early"
  BY <1>1 DEF DatabaseInv, D!RunAtMostOnce, D!NeverEarly
<1> DEFINE Good == /\ WorkerTypeOK' /\ rows' \in Seq(TableRow) /\ HandsFit'
                   /\ Discipline(W2)'
                   /\ Single(rows') /\ Timed(rows')
                   /\ \A i \in DOMAIN rows' : fate'[rows'[i].wrapper.job] # "new"
                   /\ \A x \in W2 : attempts'[x.job] = 0
                   /\ \A j \in Jobs : attempts'[j] <= 1
                   /\ \A w \in Workers : pc'[w] # "early"
<1>8. SUFFICES Good
  BY <1>2 DEF DatabaseInv, DatabaseTypes, Discipline, D!RunAtMostOnce, D!NeverEarly
<1>9. ASSUME NEW j \in Jobs, NEW delay \in Delays, D!PushJob(j, delay) PROVE Good
  <2>1. PICK x : x = NewWrapper(j, delay)
    OBVIOUS
  <2>2. PICK r : r = [wrapper |-> x, available |-> delay, reserved |-> FALSE]
    OBVIOUS
  <2>3. Push(j, delay) /\ rows' = Append(rows, r)
    BY <1>9, <2>1, <2>2 DEF D!PushJob, D!Push, D!NewWrapper, D!workerVars, Push, NewWrapper, workerVars
  <2>4. x \in Wrapper /\ x.job = j /\ x.wait = delay /\ delay \in 0..MaxWait
    <3>1. x \in Wrapper
      BY <1>6, <1>7, <2>1, <2>3, PushKeeps
    <3>2. x.job = j /\ x.wait = delay
      BY <2>1 DEF NewWrapper
    <3>3. QED
      BY <3>1, <3>2, WaitsEnd, QueueAssumption
  <2>5. r \in TableRow
    BY <2>2, <2>4 DEF TableRow
  <2>6. /\ rows' \in Seq(TableRow) /\ DOMAIN rows' = 1..(Len(rows) + 1)
        /\ \A i \in DOMAIN rows : rows'[i] = rows[i]
        /\ rows'[Len(rows) + 1] = r
    <3>1. /\ rows' \in Seq(TableRow) /\ Len(rows') = Len(rows) + 1
          /\ \A i \in 1..Len(rows) : rows'[i] = rows[i]
          /\ rows'[Len(rows) + 1] = r
      <4>1. PICK a : a = Append(rows, r)
        OBVIOUS
      <4>2. /\ a \in Seq(TableRow) /\ Len(a) = Len(rows) + 1
            /\ \A i \in 1..Len(rows) : a[i] = rows[i]
            /\ a[Len(rows) + 1] = r
        BY <1>4, <2>5, <4>1, AppendProperties
      <4>3. QED
        BY <2>3, <4>1, <4>2
    <3>2. QED
      BY <1>4, <3>1
  <2>7. \A i \in DOMAIN rows' : i \in DOMAIN rows \/ i = Len(rows) + 1
    BY <1>4, <2>6
  <2>8. DOMAIN rows \subseteq DOMAIN rows' /\ Len(rows) + 1 \in DOMAIN rows'
    BY <1>4, <2>6
  <2>9. W2 = W \cup {x}
    BY <1>3, <2>2, <2>6, <2>7, <2>8
  <2>10. WorkerTypeOK' /\ HandsFit' /\ Discipline(W2)'
    BY <1>6, <1>7, <2>1, <2>3, <2>9, PushKeeps
  <2>11. /\ \A i \in DOMAIN rows : rows[i].wrapper.job # j
         /\ attempts' = attempts /\ attempts[j] = 0 /\ pc' = pc
         /\ fate' = [fate EXCEPT ![j] = "pending"]
    BY <1>7, <2>3 DEF Push, Discipline, workerVars
  <2>12. Single(rows') /\ Timed(rows')
    BY <1>7, <2>2, <2>4, <2>6, <2>7, <2>11
  <2>13. \A i \in DOMAIN rows' : fate'[rows'[i].wrapper.job] # "new"
    <3>1. \A k \in Jobs : fate[k] # "new" => fate'[k] # "new"
      BY <2>11 DEF WorkerTypeOK
    <3>2. fate'[j] = "pending"
      BY <2>11 DEF WorkerTypeOK
    <3>3. rows'[Len(rows) + 1].wrapper.job = j
      BY <2>2, <2>4, <2>6
    <3>4. QED
      BY <1>5, <1>7, <2>6, <2>7, <3>1, <3>2, <3>3
  <2>14. \A y \in W2 : attempts'[y.job] = 0
    BY <1>7, <2>4, <2>9, <2>11
  <2>15. QED
    BY <1>7, <2>6, <2>10, <2>11, <2>12, <2>13, <2>14
<1>10. ASSUME /\ \/ Listen \/ StopBegin \/ StopEnd
                 \/ \E w \in Workers : Check(w) \/ ReceiveNothing(w)
              /\ rows' = rows
       PROVE  Good
  <2>1. W2 = W
    BY <1>3, <1>10
  <2>2. WorkerTypeOK' /\ HandsFit' /\ Discipline(W2)'
    BY <1>6, <1>7, <1>10, <2>1, MovesKeep
  <2>3. /\ UNCHANGED <<fate, attempts>>
        /\ \A w \in Workers : pc'[w] # "early"
    BY <1>7, <1>10 DEF Listen, StopBegin, StopEnd, Check, ReceiveNothing, history, WorkerTypeOK
  <2>4. QED
    BY <1>4, <1>7, <1>10, <2>1, <2>2, <2>3
<1>11. ASSUME NEW w \in Workers, D!Pop(w) PROVE Good
  <2>1. PICK i : i = D!First({k \in DOMAIN rows : D!Poppable(k)})
    OBVIOUS
  <2>2. /\ {k \in DOMAIN rows : D!Poppable(k)} # {}
        /\ Takes(w, rows[i].wrapper)
        /\ rows' = [rows EXCEPT ![i].reserved = TRUE]
    BY <1>11, <2>1, ReceiveTakes DEF D!Pop
  <2>3. i \in DOMAIN rows /\ rows[i].available = 0 /\ ~rows[i].reserved
    <3>1. PICK is : is = {k \in DOMAIN rows : D!Poppable(k)}
      OBVIOUS
    <3>2. is \in SUBSET Nat /\ is # {}
      BY <1>4, <2>2, <3>1
    <3>3. i \in is
      BY <2>1, <3>1, <3>2, FirstRow
    <3>4. QED
      BY <3>1, <3>3 DEF D!Poppable
  <2>4. PICK x : x = rows[i].wrapper
    OBVIOUS
  <2>5. x \in W /\ x \in Wrapper /\ x.job \in Jobs /\ x.wait = 0 /\ attempts[x.job] = 0
    BY <1>3, <1>5, <1>7, <2>3, <2>4
  <2>6. /\ rows' \in Seq(TableRow) /\ DOMAIN rows' = DOMAIN rows
        /\ \A k \in DOMAIN rows : /\ rows'[k].wrapper = rows[k].wrapper
                                  /\ rows'[k].available = rows[k].available
                                  /\ rows'[k].reserved <=> k = i \/ rows[k].reserved
    <3>1. rows[i] \in TableRow /\ [rows[i] EXCEPT !.reserved = TRUE] \in TableRow
      BY <1>4, <2>3 DEF TableRow
    <3>2. rows' = [rows EXCEPT ![i] = [rows[i] EXCEPT !.reserved = TRUE]]
      BY <2>2
    <3>3. rows' \in Seq(TableRow) /\ DOMAIN rows' = DOMAIN rows
      BY <1>4, <2>3, <3>1, <3>2
    <3>4. ASSUME NEW k \in DOMAIN rows
          PROVE  /\ rows'[k].wrapper = rows[k].wrapper
                 /\ rows'[k].available = rows[k].available
                 /\ rows'[k].reserved <=> k = i \/ rows[k].reserved
      BY <1>4, <1>5, <2>3, <3>2 DEF TableRow
    <3>5. QED
      BY <3>3, <3>4
  <2>7. W2 = {y \in W : y.job # x.job}
    <3>1. W2 = {rows[k].wrapper : k \in {k \in DOMAIN rows : k # i /\ ~rows[k].reserved}}
      BY <1>3, <2>6
    <3>2. \A k \in DOMAIN rows : rows[k].wrapper.job = x.job => k = i
      BY <1>7, <2>3, <2>4
    <3>3. QED
      BY <1>3, <2>4, <3>1, <3>2
  <2>8. WorkerTypeOK' /\ HandsFit' /\ Discipline(W2)'
    <3>1. Takes(w, x)
      BY <2>2, <2>4
    <3>2. QED
      BY <1>6, <1>7, <2>5, <2>7, <3>1, ReceiveKeeps
  <2>9. /\ \A j \in Jobs : j # x.job => attempts'[j] = attempts[j]
        /\ attempts'[x.job] <= 1
        /\ \A v \in Workers : pc'[v] # "early"
        /\ \A j \in Jobs : fate[j] # "new" => fate'[j] # "new"
    <3>1. CASE Start(w, x)
      <4>1. attempts' = [attempts EXCEPT ![x.job] = 1]
        <5>1. AtMost(MaxRetry + 2, 0 + 1) = 1
          BY QueueAssumption DEF AtMost
        <5>2. QED
          BY <2>5, <3>1, <5>1 DEF Start
      <4>2. QED
        BY <1>7, <2>5, <3>1, <4>1 DEF Start, WorkerTypeOK
    <3>2. CASE /\ pc' = [pc EXCEPT ![w] = "check"]
               /\ fate' = [fate EXCEPT ![x.job] = "dropped"]
               /\ UNCHANGED <<held, attempts, due, asked>>
      BY <1>7, <2>5, <3>2 DEF WorkerTypeOK
    <3>3. QED
      BY <2>2, <2>4, <2>5, <3>1, <3>2 DEF Takes
  <2>10. Single(rows') /\ Timed(rows') /\ \A k \in DOMAIN rows' : fate'[rows'[k].wrapper.job] # "new"
    BY <1>5, <1>7, <2>6, <2>9, SMTT(60)
  <2>11. \A y \in W2 : attempts'[y.job] = 0
    BY <1>6, <1>7, <2>7, <2>9, WrapperFields
  <2>12. \A j \in Jobs : attempts'[j] <= 1
    BY <1>7, <2>9
  <2>13. QED
    BY <2>6, <2>8, <2>9, <2>10, <2>11, <2>12
<1>12. ASSUME NEW w \in Workers, (FailRetry(w) \/ Succeed(w) \/ GiveUp(w)) /\ rows' = rows PROVE Good
  <2>1. W2 = W
    BY <1>3, <1>12
  <2>2. WorkerTypeOK' /\ HandsFit' /\ Discipline(W2)'
    BY <1>6, <1>7, <1>12, <2>1, FailRetryKeeps, EndKeeps
  <2>3. /\ attempts' = attempts
        /\ \A v \in Workers : pc'[v] # "early"
        /\ \A j \in Jobs : fate[j] # "new" => fate'[j] # "new"
    BY <1>7, <1>12 DEF FailRetry, Succeed, GiveUp, LetGo, WorkerTypeOK
  <2>4. QED
    BY <1>4, <1>5, <1>7, <1>12, <2>1, <2>2, <2>3
<1>13. ASSUME D!Clear PROVE Good
  <2>1. PICK js : js = {x.job : x \in W}
    OBVIOUS
  <2>2. js = {rows[i].wrapper.job : i \in {k \in DOMAIN rows : ~rows[k].reserved}}
    BY <1>3, <2>1
  <2>3. rows' = <<>> /\ Cleared(js)
    BY <1>13, <2>2 DEF D!Clear, D!Cleared, D!workerVars, Cleared, workerVars
  <2>4. DOMAIN rows' = {} /\ rows' \in Seq(TableRow) /\ W2 = {}
    BY <1>3, <2>3
  <2>5. WorkerTypeOK' /\ HandsFit' /\ Discipline(W2)'
    BY <1>6, <1>7, <2>1, <2>3, <2>4, ClearKeeps
  <2>6. QED
    BY <1>7, <2>3, <2>4, <2>5 DEF Cleared, workerVars
<1>14. ASSUME D!Crash PROVE Good
  <2>1. PICK js : js = {j \in Jobs : InHands(j)}
    OBVIOUS
  <2>2. Dies(js) /\ rows' = rows
    BY <1>14, <2>1, SameTypes DEF D!Crash, Dies, InHands, HandsFit
  <2>3. W2 = W /\ \A x \in W : x.job \notin js
    BY <1>3, <1>7, <2>1, <2>2 DEF Discipline, InHands
  <2>4. \A j \in js : fate[j] = "pending"
    BY <1>7, <2>1 DEF Discipline, InHands
  <2>5. WorkerTypeOK' /\ HandsFit' /\ Discipline(W2)'
    BY <1>6, <1>7, <2>1, <2>2, <2>3, <2>4, CrashKeeps
  <2>6. /\ attempts' = attempts
        /\ \A v \in Workers : pc'[v] # "early"
        /\ \A j \in Jobs : fate[j] # "new" => fate'[j] # "new"
    BY <1>7, <2>2 DEF Dies
  <2>7. QED
    BY <1>4, <1>5, <1>7, <2>2, <2>3, <2>5, <2>6
<1>15. ASSUME D!Tick PROVE Good
  <2>1. /\ WorkerTick
        /\ rows' = [i \in DOMAIN rows |->
                      [wrapper |-> AgedWrapper(rows[i].wrapper),
                       available |-> Aged(rows[i].available),
                       reserved |-> rows[i].reserved]]
    BY <1>15, SameAging DEF D!Tick, D!WorkerTick, WorkerTick
  <2>2. \A i \in DOMAIN rows :
           /\ AgedWrapper(rows[i].wrapper) \in Wrapper
           /\ AgedWrapper(rows[i].wrapper).job = rows[i].wrapper.job
           /\ AgedWrapper(rows[i].wrapper).wait = Aged(rows[i].wrapper.wait)
           /\ Aged(rows[i].available) \in 0..MaxWait
    BY <1>5, WrapperFields, WaitsEnd DEF Aged
  <2>3. /\ DOMAIN rows' = DOMAIN rows
        /\ \A i \in DOMAIN rows : /\ rows'[i].wrapper = AgedWrapper(rows[i].wrapper)
                                  /\ rows'[i].available = Aged(rows[i].available)
                                  /\ rows'[i].reserved = rows[i].reserved
    BY <2>1
  <2>4. rows' \in Seq(TableRow)
    <3>1. \A i \in 1..Len(rows) : [wrapper |-> AgedWrapper(rows[i].wrapper),
                                   available |-> Aged(rows[i].available),
                                   reserved |-> rows[i].reserved] \in TableRow
      BY <1>4, <1>5, <2>2 DEF TableRow
    <3>2. Len(rows) \in Nat
      BY <1>4
    <3>3. QED
      BY <1>4, <2>1, <3>1, <3>2
  <2>5. W2 = AgedSet(W)
    BY <1>3, <2>3 DEF AgedSet
  <2>6. WorkerTypeOK' /\ HandsFit' /\ Discipline(W2)'
    BY <1>6, <1>7, <2>1, <2>5, TickKeeps DEF Discipline
  <2>7. UNCHANGED <<pc, fate, attempts>>
    BY <2>1 DEF WorkerTick
  <2>8. \A y \in W2 : attempts'[y.job] = 0
    BY <1>6, <1>7, <2>5, <2>7, WrapperFields DEF AgedSet
  <2>9. Single(rows') /\ Timed(rows') /\ \A i \in DOMAIN rows' : fate'[rows'[i].wrapper.job] # "new"
    BY <1>7, <2>2, <2>3, <2>7
  <2>10. QED
    BY <1>7, <2>4, <2>6, <2>7, <2>8, <2>9
<1>16. CASE UNCHANGED <<queueVars, rows>>
  <2>1. W2 = W /\ UNCHANGED <<rows, fate, attempts, pc>>
    BY <1>3, <1>16 DEF queueVars, workerVars, history
  <2>2. WorkerTypeOK' /\ HandsFit'
    BY <1>16 DEF queueVars, workerVars, history, WorkerTypeOK, HandsFit, Has
  <2>3. Discipline(W2)'
    BY <1>7, <1>16, <2>1 DEF queueVars, workerVars, history, Discipline, Honest, Has, AttemptsBounded
  <2>4. QED
    BY <1>4, <1>7, <2>1, <2>2, <2>3
<1>17. CASE D!Next
  <2>1. ASSUME \/ (D!Listen \/ D!StopBegin \/ D!StopEnd) /\ UNCHANGED <<rows, crashes>>
               \/ \E w \in Workers : (D!Check(w) /\ UNCHANGED <<rows, crashes>>) \/ D!PopNothing(w)
        PROVE  /\ \/ Listen \/ StopBegin \/ StopEnd
                  \/ \E w \in Workers : Check(w) \/ ReceiveNothing(w)
               /\ rows' = rows
    BY <2>1 DEF D!Listen, D!StopBegin, D!StopEnd, D!Check, D!PopNothing, D!ReceiveNothing,
                D!history, Listen, StopBegin, StopEnd, Check, ReceiveNothing, history
  <2>2. ASSUME NEW w \in Workers, D!PutBackForRetry(w) \/ D!Delete(w)
        PROVE  (FailRetry(w) \/ Succeed(w) \/ GiveUp(w)) /\ rows' = rows
    BY <2>2, SameTypes
       DEF D!PutBackForRetry, D!Delete, D!Release, D!FailRetry, D!Succeed, D!GiveUp, D!HasRetry,
           D!LetGo, D!BackoffOf, FailRetry, Succeed, GiveUp, HasRetry, LetGo, BackoffOf
  <2>3. QED
    BY <1>9, <1>10, <1>11, <1>12, <1>13, <1>14, <1>15, <1>17, <2>1, <2>2
       DEF D!Next, D!WorkerStep
<1>18. QED
  BY <1>16, <1>17

-----------------------------------------------------------------------------
(* The types of all variables, with the workers' names. *)
QueueTypes ==
    /\ WorkerTypeOK
    /\ jobs \in Seq(Wrapper)
    /\ RedisTypes /\ DatabaseTypes
    /\ crashes \in 0..MaxCrashes

(* The type invariants of the drivers, in the names of the worker. *)
LEMMA TypesFit == TypesOK <=> QueueTypes
<1>1. D!Row = TableRow
  BY SameTypes DEF D!Row, TableRow
<1>2. D!TypeOK <=> WorkerTypeOK /\ DatabaseTypes /\ crashes \in 0..MaxCrashes
  BY <1>1, SameTypes DEF D!TypeOK, DatabaseTypes
<1>3. R!TypeOK <=> WorkerTypeOK /\ RedisTypes /\ crashes \in 0..MaxCrashes
  BY SameTypes DEF R!TypeOK, RedisTypes
<1>4. TypeOK <=> WorkerTypeOK /\ jobs \in Seq(Wrapper)
  BY DEF TypeOK
<1>5. QED
  BY <1>2, <1>3, <1>4 DEF TypesOK, QueueTypes

(* QueueInv holds before anything is pushed, with every driver. *)
LEMMA QueueInvInit == MCInit => QueueInv
<1> SUFFICES ASSUME MCInit PROVE QueueInv
  OBVIOUS
<1>1. /\ WorkerInit /\ jobs = <<>> /\ list = <<>> /\ delayed = {} /\ rows = <<>>
      /\ found = [p \in Processors |-> {}]
      /\ moving = [p \in Processors |-> NoJob]
      /\ crashes = 0
  BY SameTypes DEF MCInit, Init, R!Init, D!Init
<1>2. WorkerTypeOK
  <2>1. 0 \in 0..MaxWait /\ 0 \in 0..MaxRetry + 2
    BY WaitsEnd, QueueAssumption
  <2>2. QED
    BY <1>1, <2>1 DEF WorkerInit, WorkerTypeOK
<1>3. QueueTypes
  BY <1>1, <1>2, CrashesAssumption DEF QueueTypes, RedisTypes, DatabaseTypes
<1>4. HandsFit /\ \A w \in Workers : ~Has(w)
  BY <1>1 DEF WorkerInit, HandsFit, Has
<1>5. SyncWaiting = {} /\ RedisWaiting = {} /\ DatabaseWaiting = {} /\ Moving = {}
  BY <1>1, NoElements DEF SyncWaiting, RedisWaiting, DatabaseWaiting, Moving
<1>6. Discipline({})
  BY <1>1, <1>4, QueueAssumption DEF WorkerInit, Discipline, Has, AttemptsBounded
<1>7. \A j \in Jobs : fate[j] = "new" /\ attempts[j] = 0
  BY <1>1 DEF WorkerInit
<1>8. SyncInv
  BY <1>1, <1>5, <1>6, <1>7, NoElements DEF SyncInv, Kept
<1>9. Undelayed({})
  BY <1>4, <1>7 DEF Undelayed, Findable, Exact, R!RetryBudget
<1>10. Apart({})
  BY <1>1, NoElements DEF Apart
<1>11. RedisInv
  BY <1>5, <1>6, <1>9, <1>10 DEF RedisInv
<1>12. DatabaseInv
  BY <1>1, <1>4, <1>5, <1>6, <1>7 DEF DatabaseInv, D!RunAtMostOnce, D!NeverEarly, Has
<1>13. QED
  BY <1>3, <1>4, <1>8, <1>11, <1>12, TypesFit DEF QueueInv, MCInit

(* Only a crash is counted, up to the bound. *)
LEMMA CrashesCounted ==
    ASSUME R!Next \/ U!Next \/ D!Next
    PROVE  crashes' = crashes \/ (crashes < MaxCrashes /\ crashes' = crashes + 1)
<1> DEFINE Counted == crashes' = crashes \/ (crashes < MaxCrashes /\ crashes' = crashes + 1)
<1>1. ASSUME R!Next PROVE Counted
  <2>1. ASSUME NEW w, R!WorkerStep(w) PROVE crashes' = crashes
    <3>1. R!PutBackEarly(w) \/ R!PutBackForRetry(w) => crashes' = crashes
      BY DEF R!PutBackEarly, R!PutBackForRetry, R!Release
    <3>2. R!Pop(w) \/ R!PopNothing(w) \/ R!Delete(w) => crashes' = crashes
      BY DEF R!Pop, R!PopNothing, R!Delete, R!redisVars
    <3>3. QED
      BY <2>1, <3>1, <3>2 DEF R!WorkerStep, R!redisVars
  <2>2. ASSUME NEW p, R!ProcessorStep(p) PROVE crashes' = crashes
    BY <2>2 DEF R!ProcessorStep, R!Scan, R!TakeDue, R!PushDue
  <2>3. \A j, delay : R!PushJob(j, delay) => crashes' = crashes
    BY DEF R!PushJob
  <2>4. R!Clear \/ R!Tick => crashes' = crashes
    BY DEF R!Clear, R!Tick
  <2>5. R!Crash => Counted
    BY DEF R!Crash
  <2>9. crashes' = crashes => Counted
    OBVIOUS
  <2> HIDE DEF Counted
  <2>10. QED
    BY <2>9, <1>1, <2>1, <2>2, <2>3, <2>4, <2>5 DEF R!Next, R!redisVars
<1>2. ASSUME U!Next PROVE Counted
  <2>1. ASSUME NEW w, U!WorkerStep(w) PROVE crashes' = crashes
    <3>1. U!PutBackEarly(w) \/ U!PutBackForRetry(w) => crashes' = crashes
      BY DEF U!PutBackEarly, U!PutBackForRetry, U!Release
    <3>2. U!Pop(w) \/ U!PopNothing(w) \/ U!Delete(w) => crashes' = crashes
      BY DEF U!Pop, U!PopNothing, U!Delete, U!redisVars
    <3>3. QED
      BY <2>1, <3>1, <3>2 DEF U!WorkerStep, U!redisVars
  <2>2. ASSUME NEW p, U!ProcessorStep(p) PROVE crashes' = crashes
    BY <2>2 DEF U!ProcessorStep, U!Scan, U!TakeDue, U!PushDue
  <2>3. \A j, delay : U!PushJob(j, delay) => crashes' = crashes
    BY DEF U!PushJob
  <2>4. U!Clear \/ U!Tick => crashes' = crashes
    BY DEF U!Clear, U!Tick
  <2>5. U!Crash => Counted
    BY DEF U!Crash
  <2>9. crashes' = crashes => Counted
    OBVIOUS
  <2> HIDE DEF Counted
  <2>10. QED
    BY <2>9, <1>2, <2>1, <2>2, <2>3, <2>4, <2>5 DEF U!Next, U!redisVars
<1>3. ASSUME D!Next PROVE Counted
  <2>1. ASSUME NEW w, D!WorkerStep(w) PROVE crashes' = crashes
    <3>1. D!PutBackForRetry(w) \/ D!Delete(w) => crashes' = crashes
      BY DEF D!PutBackForRetry, D!Release, D!Delete
    <3>2. D!Pop(w) \/ D!PopNothing(w) => crashes' = crashes
      BY DEF D!Pop, D!PopNothing
    <3>3. QED
      BY <2>1, <3>1, <3>2 DEF D!WorkerStep
  <2>2. \A j, delay : D!PushJob(j, delay) => crashes' = crashes
    BY DEF D!PushJob
  <2>3. D!Clear \/ D!Tick => crashes' = crashes
    BY DEF D!Clear, D!Tick
  <2>4. D!Crash => Counted
    BY DEF D!Crash
  <2>9. crashes' = crashes => Counted
    OBVIOUS
  <2> HIDE DEF Counted
  <2>10. QED
    BY <2>9, <1>3, <2>1, <2>2, <2>3, <2>4 DEF D!Next
<1>4. QED
  BY <1>1, <1>2, <1>3

(* Every step of the queue keeps QueueInv. *)
LEMMA QueueInvStep ==
    ASSUME OneProcessor, QueueInv, [MCNext]_mcVars
    PROVE  QueueInv'
<1>1. QueueTypes /\ HandsFit
  BY TypesFit DEF QueueInv
<1>2. SUFFICES /\ QueueTypes' /\ HandsFit' /\ driver' = driver
               /\ driver = "sync" => SyncInv'
               /\ driver \in {"redis", "unregistered"} => RedisInv'
               /\ driver = "database" => DatabaseInv'
  <2>1. QueueTypes' => TypesOK'
    BY TypesFit, PTL
  <2>2. QED
    BY <2>1 DEF QueueInv
<1>3. CASE OnSync(Next)
  <2>1. TypeOK' /\ HandsFit' /\ SyncInv'
    BY <1>1, <1>3, SyncStep DEF OnSync, QueueInv, QueueTypes, TypeOK
  <2>2. QED
    BY <1>1, <1>3, <2>1 DEF OnSync, redisOnly, QueueTypes, TypeOK, RedisTypes, DatabaseTypes
<1>4. CASE OnRedis(R!Next) \/ OnUnregistered(U!Next)
  <2>1. /\ R!Next \/ U!Next
        /\ driver \in {"redis", "unregistered"} /\ UNCHANGED <<driver, jobs, rows>>
    BY <1>4 DEF OnRedis, OnUnregistered
  <2>2. WorkerTypeOK' /\ RedisTypes' /\ HandsFit' /\ RedisInv'
    BY <1>1, <2>1, RedisStep DEF QueueInv, QueueTypes
  <2>3. crashes' = crashes \/ (crashes < MaxCrashes /\ crashes' = crashes + 1)
    BY <2>1, CrashesCounted
  <2>4. crashes' \in 0..MaxCrashes
    BY <1>1, <2>3, CrashesAssumption DEF QueueTypes
  <2>5. QED
    BY <1>1, <2>1, <2>2, <2>4 DEF QueueTypes, DatabaseTypes
<1>5. CASE OnDatabase(D!Next)
  <2>1. WorkerTypeOK' /\ DatabaseTypes' /\ HandsFit' /\ DatabaseInv'
    BY <1>1, <1>5, DatabaseStep DEF OnDatabase, QueueInv, QueueTypes
  <2>2. crashes' = crashes \/ (crashes < MaxCrashes /\ crashes' = crashes + 1)
    BY <1>5, CrashesCounted DEF OnDatabase
  <2>3. crashes' \in 0..MaxCrashes
    BY <1>1, <2>2, CrashesAssumption DEF QueueTypes
  <2>4. QED
    BY <1>1, <1>5, <2>1, <2>3 DEF OnDatabase, redisOnly, QueueTypes, RedisTypes
<1>6. CASE UNCHANGED mcVars
  <2>1. UNCHANGED <<vars, driver, list, delayed, found, moving, rows, crashes>>
    BY <1>6 DEF mcVars, redisOnly
  <2>2. driver = "sync" => SyncInv'
    BY <1>1, <2>1, SyncStep DEF QueueInv, QueueTypes, TypeOK
  <2>3. driver \in {"redis", "unregistered"} => RedisInv'
    BY <1>1, <2>1, RedisStep DEF QueueInv, QueueTypes, vars
  <2>4. driver = "database" => DatabaseInv'
    BY <1>1, <2>1, DatabaseStep DEF QueueInv, QueueTypes, vars
  <2>5. QueueTypes' /\ HandsFit'
    BY <1>1, <2>1 DEF QueueTypes, HandsFit, Has, RedisTypes, DatabaseTypes, WorkerTypeOK,
                      vars, queueVars, workerVars, history
  <2>6. QED
    BY <2>1, <2>2, <2>3, <2>4, <2>5
<1>7. QED
  BY <1>3, <1>4, <1>5, <1>6 DEF MCNext

(* QueueInv is an inductive invariant, whatever the driver. *)
THEOREM QueueInvHolds ==
    ASSUME OneProcessor
    PROVE  MCSpec => []QueueInv
<1>1. QueueInv /\ [MCNext]_mcVars => QueueInv'
  BY QueueInvStep
<1>2. QED
  BY <1>1, QueueInvInit, PTL DEF MCSpec

(* Every driver keeps its types, and no more crashes happen than the bound admits. *)
THEOREM TypesAlwaysOK ==
    ASSUME OneProcessor
    PROVE  MCSpec => []TypesOK
<1>1. QueueInv => TypesOK
  BY DEF QueueInv
<1>2. QED
  BY <1>1, QueueInvHolds, PTL

(* Whatever the driver, the wrappers that wait are kept in discipline. *)
LEMMA SomeDiscipline == QueueInv => WorkerTypeOK /\ HandsFit /\ \E W : Discipline(W)
<1>1. QueueInv => WorkerTypeOK
  BY TypesFit DEF QueueInv, QueueTypes
<1>2. QueueInv => \E W : Discipline(W)
  <2>1. SyncInv => \E W : Discipline(W)
    BY DEF SyncInv
  <2>2. RedisInv => \E W : Discipline(W)
    BY DEF RedisInv
  <2>3. DatabaseInv => \E W : Discipline(W)
    BY DEF DatabaseInv
  <2>4. QED
    BY <2>1, <2>2, <2>3 DEF QueueInv
<1>3. QED
  BY <1>1, <1>2 DEF QueueInv

(* No two handlers run one job at a time, and no handler runs before its delay or *)
(* backoff is over, whatever the driver.                                          *)
THEOREM HandlersDisciplined ==
    ASSUME OneProcessor
    PROVE  MCSpec => []HandlerDiscipline
<1>1. ASSUME NEW W, Discipline(W) PROVE HandlerDiscipline
  BY <1>1 DEF Discipline, Has, HandlerDiscipline, NoOverlap, NotBeforeDue
<1>2. QueueInv => HandlerDiscipline
  BY <1>1, SomeDiscipline
<1>3. QED
  BY <1>2, QueueInvHolds, PTL

(* After Stop has returned no handler runs, whatever the driver. *)
THEOREM QuietAfterItStops ==
    ASSUME OneProcessor
    PROVE  MCSpec => []QuietAfterStop
<1>1. QueueInv => QuietAfterStop
  BY DEF QueueInv, HandsFit, Has, QuietAfterStop
<1>2. QED
  BY <1>1, QueueInvHolds, PTL

-----------------------------------------------------------------------------
(* Counting the copies of a job. *)
LEMMA AtMostOne ==
    ASSUME NEW S, \A a, b \in S : a = b
    PROVE  Cardinality(S) = IF S = {} THEN 0 ELSE 1
<1>1. CASE S = {}
  BY <1>1, FS_EmptySet
<1>2. CASE S # {}
  <2>1. PICK a : a \in S
    BY <1>2
  <2>2. S = {a}
    BY <2>1
  <2>3. Cardinality({a}) = 1
    BY FS_Singleton
  <2>4. QED
    BY <1>2, <2>2, <2>3
<1>3. QED
  BY <1>1, <1>2

(* The Redis driver counts as the worker does. *)
LEMMA SameCount == \A S : R!Cardinality(S) = Cardinality(S)
  BY DEF R!Cardinality, Cardinality

(* A job is in at most one pair of hands. *)
LEMMA HandsOf ==
    ASSUME HandsFit, NEW W, Discipline(W), NEW j
    PROVE  Cardinality({w \in Workers : held[w] # NoJob /\ held[w].job = j})
             = IF InHands(j) THEN 1 ELSE 0
<1> DEFINE S == {w \in Workers : held[w] # NoJob /\ held[w].job = j}
<1>1. \A w \in Workers : held[w] # NoJob <=> Has(w)
  BY DEF HandsFit
<1>2. \A v, w \in S : v = w
  BY <1>1 DEF Discipline
<1>3. S # {} <=> InHands(j)
  BY <1>1 DEF InHands
<1> HIDE DEF S
<1>4. Cardinality(S) = IF S = {} THEN 0 ELSE 1
  BY <1>2, AtMostOne
<1>5. QED
  BY <1>3, <1>4 DEF S

(* A job is in at most one place of a list. *)
LEMMA PlacesOf ==
    ASSUME NEW s \in Seq(Wrapper), Once(s), NEW j
    PROVE  Cardinality({i \in DOMAIN s : s[i].job = j}) = IF Waits(Elements(s), j) THEN 1 ELSE 0
<1> DEFINE S == {i \in DOMAIN s : s[i].job = j}
<1>1. \A i, k \in S : i = k
  BY DEF Once
<1>2. S # {} <=> Waits(Elements(s), j)
  BY DEF Waits, Elements
<1> HIDE DEF S
<1>3. Cardinality(S) = IF S = {} THEN 0 ELSE 1
  BY <1>1, AtMostOne
<1>4. QED
  BY <1>2, <1>3 DEF S

(* In memory there is one copy of a pending job and none of any other. *)
LEMMA SyncCopies ==
    ASSUME TypeOK, HandsFit, SyncInv
    PROVE  ExactlyOneCopy
<1> SUFFICES ASSUME NEW j \in Jobs
             PROVE  Copies(j) = IF fate[j] = "pending" THEN 1 ELSE 0
  BY DEF ExactlyOneCopy
<1>1. Copies(j) = (IF Waits(Elements(jobs), j) THEN 1 ELSE 0) + (IF InHands(j) THEN 1 ELSE 0)
  BY HandsOf, PlacesOf DEF Copies, SyncInv, TypeOK
<1>2. Waits(Elements(jobs), j) \/ InHands(j) <=> fate[j] = "pending"
  BY DEF SyncInv, SyncWaiting, Kept, Discipline, Waits, InHands
<1>3. ~(Waits(Elements(jobs), j) /\ InHands(j))
  BY DEF SyncInv, SyncWaiting, Discipline, Waits, InHands
<1>4. QED
  BY <1>1, <1>2, <1>3

(* In Redis there are never two copies, and one of a pending job that had no delay. *)
LEMMA RedisCopies ==
    ASSUME OneProcessor, WorkerTypeOK, RedisTypes, HandsFit, RedisInv
    PROVE  R!Conserved
<1>1. Discipline(RedisWaiting) /\ Apart(Moving) /\ Undelayed(RedisWaiting)
  BY DEF RedisInv
<1> SUFFICES ASSUME NEW j \in Jobs
             PROVE  /\ R!Copies(j) <= 1
                    /\ fate[j] = "pending" /\ asked[j] = 0 => R!Copies(j) = 1
  BY DEF R!Conserved
<1> DEFINE Late == {d \in delayed : d.job = j}
<1> DEFINE Moved == {p \in Processors : moving[p] # NoJob /\ moving[p].job = j}
<1>2. Cardinality({i \in DOMAIN list : list[i].job = j})
        = IF Waits(Elements(list), j) THEN 1 ELSE 0
  BY <1>1, PlacesOf DEF Apart, RedisTypes
<1>3. Cardinality(Late) = IF Waits(delayed, j) THEN 1 ELSE 0
  <2>1. (\A x, y \in Late : x = y) /\ (Late # {} <=> Waits(delayed, j))
    BY <1>1 DEF Apart, Waits
  <2> HIDE DEF Late
  <2>2. QED
    BY <2>1, AtMostOne
<1>4. Cardinality(Moved) = IF Waits(Moving, j) THEN 1 ELSE 0
  <2>1. (\A p, q \in Moved : p = q) /\ (Moved # {} <=> Waits(Moving, j))
    BY DEF OneProcessor, Waits, Moving
  <2> HIDE DEF Moved
  <2>2. QED
    BY <2>1, AtMostOne
<1>5. Cardinality({w \in Workers : held[w] # NoJob /\ held[w].job = j})
        = IF InHands(j) THEN 1 ELSE 0
  BY <1>1, HandsOf
<1>6. R!Copies(j) = Cardinality({i \in DOMAIN list : list[i].job = j}) + Cardinality(Late)
        + Cardinality({w \in Workers : held[w] # NoJob /\ held[w].job = j}) + Cardinality(Moved)
  BY SameCount DEF R!Copies, R!NoJob, NoJob
<1>7. Waits(RedisWaiting, j) <=> Waits(Elements(list), j) \/ Waits(delayed, j) \/ Waits(Moving, j)
  BY DEF RedisWaiting, Waits
<1>8. /\ ~(Waits(Elements(list), j) /\ Waits(delayed, j))
      /\ ~(Waits(Elements(list), j) /\ Waits(Moving, j))
      /\ ~(Waits(delayed, j) /\ Waits(Moving, j))
  BY <1>1 DEF Apart, Waits
<1>9. ~(Waits(RedisWaiting, j) /\ InHands(j))
  BY <1>1 DEF Discipline, Waits, InHands
<1>10. fate[j] = "pending" /\ asked[j] = 0 => Waits(RedisWaiting, j) \/ InHands(j)
  BY <1>1 DEF Undelayed, Findable
<1> HIDE DEF Late, Moved
<1>11. QED
  BY <1>2, <1>3, <1>4, <1>5, <1>6, <1>7, <1>8, <1>9, <1>10

(* No driver loses or doubles a job in the ways JobsConserved excludes: the list, *)
(* the sorted set, the table and the hands of the workers share no job.           *)
THEOREM JobsAreConserved ==
    ASSUME OneProcessor
    PROVE  MCSpec => []JobsConserved
<1>1. ASSUME QueueInv PROVE JobsConserved
  <2>1. QueueTypes /\ HandsFit
    BY <1>1, TypesFit DEF QueueInv
  <2>2. CASE driver = "sync"
    BY <1>1, <2>1, <2>2, SyncCopies DEF QueueInv, QueueTypes, TypeOK, JobsConserved
  <2>3. CASE driver \in {"redis", "unregistered"}
    <3>1. R!Conserved
      BY <1>1, <2>1, <2>3, RedisCopies DEF QueueInv, QueueTypes
    <3>2. R!RetryBudget
      BY <1>1, <2>3 DEF QueueInv, RedisInv, Undelayed, Exact
    <3>3. QED
      BY <2>3, <3>1, <3>2 DEF JobsConserved
  <2>4. CASE driver = "database"
    BY <1>1, <2>4 DEF QueueInv, DatabaseInv, JobsConserved
  <2>5. QED
    BY <1>1, <2>2, <2>3, <2>4 DEF QueueInv
<1>2. QED
  BY <1>1, QueueInvHolds, PTL
=============================================================================
