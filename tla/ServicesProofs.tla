--------------------------- MODULE ServicesProofs ---------------------------
(***************************************************************************)
(* What the long-lived services guarantee for any number of clients, tasks *)
(* and watchers and any sizes: the connection pool, the scheduler, the     *)
(* hub, the RabbitMQ client and the logger, each with its own invariant.   *)
(***************************************************************************)
EXTENDS MCServices, FiniteSetTheorems, SequenceTheorems, TLAPS

(* Sequences of log entries.  Concatenation is associative, in the form the *)
(* proofs of the logger need.                                              *)
LEMMA Regroup ==
    ASSUME NEW S, NEW x \in Seq(S), NEW y \in Seq(S), NEW z \in Seq(S)
    PROVE  (x \o y) \o z = x \o (y \o z)
  BY ConcatAssociative

(* What is written, then what is in the buffer and in the channel. *)
InTurn(x, y, z) == (x \o y) \o z

(* Entries in turn stay in turn when the batch takes some from the channel. *)
LEMMA Shift ==
    ASSUME NEW S, NEW w \in Seq(S), NEW b \in Seq(S), NEW h \in Seq(S), NEW t \in Seq(S)
    PROVE  InTurn(w, b \o h, t) = InTurn(w, b, h \o t)
<1>1. (w \o b) \o h = w \o (b \o h)
  BY Regroup, SMT
<1>2. PICK s \in Seq(S) : s = w \o b
  BY ConcatProperties
<1>3. (s \o h) \o t = s \o (h \o t)
  BY Regroup, SMTT(120)
<1>4. QED
  BY <1>1, <1>2, <1>3 DEF InTurn

(* The first entry of the channel and the rest of it, as sequences. *)
Parts(b, c, h, t) == c = h \o t /\ Append(b, Head(c)) = b \o h /\ Tail(c) = t

(* Moving an entry from the channel to the buffer, and to a full batch. *)
LEMMA EntryParts ==
    ASSUME NEW S, NEW b \in Seq(S), NEW c \in Seq(S), c # <<>>
    PROVE  \E h, t \in Seq(S) : Parts(b, c, h, t)
<1>1. Head(c) \in S /\ Tail(c) \in Seq(S) /\ c = <<Head(c)>> \o Tail(c)
  BY HeadTailProperties
<1>2. PICK h : h = <<Head(c)>>
  OBVIOUS
<1>3. h \in Seq(S) /\ Append(b, Head(c)) = b \o h
  BY <1>1, <1>2, AppendIsConcat
<1>4. QED
  BY <1>1, <1>2, <1>3, ZenonT(60) DEF Parts

(* The batch may take the head of the channel: the order of all entries is the same. *)
LEMMA EntryMoves ==
    ASSUME NEW S, NEW w \in Seq(S), NEW b \in Seq(S), NEW c \in Seq(S), c # <<>>
    PROVE  InTurn(w, Append(b, Head(c)), Tail(c)) = InTurn(w, b, c)
<1>1. PICK h \in Seq(S), t \in Seq(S) : Parts(b, c, h, t)
  BY EntryParts
<1>2. InTurn(w, b \o h, t) = InTurn(w, b, h \o t)
  BY Shift
<1>3. QED
  BY <1>1, <1>2 DEF Parts

(* Taking the head of the channel moves one entry and loses none. *)
LEMMA EntryCounts ==
    ASSUME NEW S, NEW b \in Seq(S), NEW c \in Seq(S), c # <<>>
    PROVE  /\ Tail(c) \in Seq(S) /\ Append(b, Head(c)) \in Seq(S)
           /\ Len(Append(b, Head(c))) = Len(b) + 1 /\ Len(Tail(c)) = Len(c) - 1
           /\ Range(Append(b, Head(c))) \cup Range(Tail(c)) = Range(b) \cup Range(c)
<1>1. /\ Head(c) \in S /\ Tail(c) \in Seq(S) /\ Len(Tail(c)) = Len(c) - 1
      /\ Append(b, Head(c)) \in Seq(S) /\ Len(Append(b, Head(c))) = Len(b) + 1
  BY HeadTailProperties, AppendProperties
<1>2. PICK h \in Seq(S), t \in Seq(S) : Parts(b, c, h, t)
  BY EntryParts
<1>3. Range(b \o h) = Range(b) \cup Range(h) /\ Range(h \o t) = Range(h) \cup Range(t)
  BY RangeConcatenation
<1>4. QED
  BY <1>1, <1>2, <1>3 DEF Parts

-----------------------------------------------------------------------------
(* The connection pool. *)
USE SizesAssumption, NoConnAssumption

(* Those that use a connection have one.                                   *)
UsersHold == \A c \in Clients : pc[c] = "using" <=> held[c] # NoConn

(* A connection that Get has closed is known to be expired, so no later    *)
(* Get gives it away.                                                      *)
BrokenAreExpired == ~closed => pool \cap broken \subseteq expired

TypeInv == TypeOK /\ UsersHold
SoundInv == PoolSound /\ BrokenAreExpired

(* Every operation of the gRPC pool keeps its types and its users. *)
LEMMA TypeInvStep == TypeInv /\ [Next]_vars => TypeInv'
<1> SUFFICES ASSUME TypeInv, [Next]_vars PROVE TypeInv'
  OBVIOUS
<1> USE DEF TypeInv, TypeOK, UsersHold, poolVars
<1>1. ASSUME NEW c \in Clients, GetPooled(c) PROVE TypeInv'
  BY <1>1 DEF GetPooled, Take, Usable, Overdue, Free
<1>2. ASSUME NEW c \in Clients, GetNew(c) PROVE TypeInv'
  BY <1>2 DEF GetNew, Take, Overdue, Free
<1>3. ASSUME NEW c \in Clients, GetWaits(c) PROVE TypeInv'
  BY <1>3 DEF GetWaits, Overdue, Free
<1>4. ASSUME NEW c \in Clients, GiveUp(c) \/ WaitTick(c) PROVE TypeInv'
  BY <1>4 DEF GiveUp, WaitTick
<1>5. ASSUME NEW c \in Clients, Put(c) PROVE TypeInv'
  BY <1>5 DEF Put
<1>6. CASE Close
  BY <1>6 DEF Close
<1>7. CASE Maintenance
  BY <1>7 DEF Maintenance, Refill, Overdue, Free
<1>8. ASSUME NEW link \in Conns, Expire(link) PROVE TypeInv'
  BY <1>8 DEF Expire
<1>9. CASE UNCHANGED vars
  BY <1>9 DEF vars
<1>10. QED
  BY <1>1, <1>2, <1>3, <1>4, <1>5, <1>6, <1>7, <1>8, <1>9 DEF Next

(* The pool keeps its types and its users. *)
LEMMA TypeInvHolds == Spec => []TypeInv
<1>1. Init => TypeInv
  BY DEF Init, TypeInv, TypeOK, UsersHold
<1>2. QED
  BY <1>1, TypeInvStep, PTL DEF Spec

(* The pool keeps its types. *)
THEOREM TypeCorrect == Spec => []TypeOK
<1>1. TypeInv => TypeOK
  BY DEF TypeInv
<1>2. QED
  BY <1>1, TypeInvHolds, PTL

-----------------------------------------------------------------------------
(* A set of connections that is below a bound by its size may take one more. *)
LEMMA OneMore ==
  ASSUME NEW S \in SUBSET Conns, NEW link, Cardinality(S) < MaxSize
  PROVE  Cardinality(S \cup {link}) <= MaxSize
<1>1. IsFiniteSet(S) /\ Cardinality(S) \in Nat
  BY FS_Subset, FS_CardinalityType
<1>2. Cardinality(S \cup {link}) \in {Cardinality(S), Cardinality(S) + 1}
  <2>1. Cardinality(S \cup {link}) =
          IF link \in S THEN Cardinality(S) ELSE Cardinality(S) + 1
    BY <1>1, FS_AddElement
  <2>2. QED
    BY <2>1
<1>3. QED
  BY <1>1, <1>2

(* A part of what fits in the pool fits in it. *)
LEMMA FewerFit ==
  ASSUME NEW S \in SUBSET Conns, NEW T \in SUBSET S, Cardinality(S) <= MaxSize
  PROVE  Cardinality(T) <= MaxSize
<1>1. IsFiniteSet(S) /\ Cardinality(S) \in Nat
  BY FS_Subset, FS_CardinalityType
<1>2. IsFiniteSet(T) /\ Cardinality(T) \in Nat /\ Cardinality(T) <= Cardinality(S)
  BY <1>1, FS_Subset, FS_CardinalityType
<1>3. QED
  BY <1>1, <1>2

(* No step takes the pool over its size. *)
LEMMA BoundStep == TypeInv /\ PoolBounded /\ [Next]_vars => PoolBounded'
<1> SUFFICES ASSUME TypeInv, PoolBounded, [Next]_vars PROVE PoolBounded'
  OBVIOUS
<1> USE DEF TypeInv, TypeOK, PoolBounded, poolVars
<1>1. CASE pool' = pool
  BY <1>1
<1>2. ASSUME NEW c \in Clients, GetNew(c) PROVE PoolBounded'
  BY <1>2, OneMore DEF GetNew
<1>3. CASE Close
  BY <1>3, FewerFit DEF Close
<1>4. CASE Maintenance
  <2> DEFINE stay == pool \ Overdue
  <2>1. PICK new \in SUBSET (Conns \ Known) :
            /\ new = {} \/ Cardinality(stay \cup new) <= MinSize
            /\ pool' = stay \cup new
    BY <1>4 DEF Maintenance, Refill
  <2>2. CASE new = {}
    BY <2>1, <2>2, FewerFit
  <2>3. CASE Cardinality(stay \cup new) <= MinSize
    <3>1. stay \cup new \in SUBSET Conns
      BY <2>1
    <3>2. Cardinality(stay \cup new) \in Nat
      BY <3>1, FS_Subset, FS_CardinalityType
    <3>3. QED
      BY <2>1, <2>3, <3>2
  <2>4. QED
    BY <2>1, <2>2, <2>3
<1>5. QED
  BY <1>1, <1>2, <1>3, <1>4
     DEF Next, vars, GetPooled, GetWaits, GiveUp, WaitTick, Put, Expire

(* No step takes away, closes or gives to another what a client holds.     *)
LEMMA HeldStep ==
  TypeInv /\ TypeInv' /\ HeldAreGood /\ BrokenAreExpired /\ [Next]_vars
    => HeldAreGood' /\ BrokenAreExpired'
<1> SUFFICES ASSUME TypeInv, TypeInv', HeldAreGood, BrokenAreExpired, [Next]_vars
             PROVE  HeldAreGood' /\ BrokenAreExpired'
  OBVIOUS
<1> USE DEF TypeInv, TypeOK, UsersHold, HeldAreGood, BrokenAreExpired, poolVars
<1>1. ASSUME NEW c \in Clients, GetPooled(c) PROVE HeldAreGood' /\ BrokenAreExpired'
  BY <1>1 DEF GetPooled, Take, Usable, Overdue, Free
<1>2. ASSUME NEW c \in Clients, GetNew(c) PROVE HeldAreGood' /\ BrokenAreExpired'
  BY <1>2 DEF GetNew, Take, Overdue, Free, Known
<1>3. ASSUME NEW c \in Clients, GetWaits(c) PROVE HeldAreGood' /\ BrokenAreExpired'
  BY <1>3 DEF GetWaits, Overdue, Free
<1>4. ASSUME NEW c \in Clients, GiveUp(c) \/ WaitTick(c)
      PROVE  HeldAreGood' /\ BrokenAreExpired'
  BY <1>4 DEF GiveUp, WaitTick
<1>5. ASSUME NEW c \in Clients, Put(c) PROVE HeldAreGood' /\ BrokenAreExpired'
  BY <1>5 DEF Put
<1>6. CASE Close
  BY <1>6 DEF Close
<1>7. CASE Maintenance
  BY <1>7 DEF Maintenance, Refill, Overdue, Free, Known
<1>8. ASSUME NEW link \in Conns, Expire(link) PROVE HeldAreGood' /\ BrokenAreExpired'
  BY <1>8 DEF Expire
<1>9. CASE UNCHANGED vars
  BY <1>9 DEF vars
<1>10. QED
  BY <1>1, <1>2, <1>3, <1>4, <1>5, <1>6, <1>7, <1>8, <1>9 DEF Next

(* The pool starts with no more connections than it may hold. *)
LEMMA SoundInvStarts == Init => SoundInv
<1>1. ASSUME Init PROVE Cardinality(pool) <= MaxSize
  BY <1>1 DEF Init
<1>2. QED
  BY <1>1 DEF Init, SoundInv, PoolSound, PoolBounded, HeldAreGood, BrokenAreExpired

(* What a client has is its own, open and known to the pool, and the pool  *)
(* is never over maxSize.                                                  *)
THEOREM PoolIsSound == Spec => []PoolSound
<1>1. Init => SoundInv
  BY SoundInvStarts
<1>2. TypeInv /\ TypeInv' /\ SoundInv /\ [Next]_vars => SoundInv'
  BY BoundStep, HeldStep DEF SoundInv, PoolSound
<1>3. SoundInv => PoolSound
  BY DEF SoundInv
<1>4. QED
  BY <1>1, <1>2, <1>3, TypeInvHolds, PTL DEF Spec
-----------------------------------------------------------------------------
(* The scheduler.  cron has given out the numbers 1..k, never one of them  *)
(* again, and a task's number is of an entry of that task.                 *)
Given == {n \in 1..MaxEntries : entries[n] # "unused"}

SchedInv ==
    /\ Sched!TypeOK
    /\ \E k \in 0..MaxEntries : Given = 1..k
    /\ present \subseteq Given
    /\ \A t \in Tasks : entryOf[t] # 0 => entryOf[t] \in Given /\ entries[entryOf[t]] = t
    /\ Sched!SchedulerSound

(* The next number has not been given out, and is the next of the numbers  *)
(* that were.                                                              *)
LEMMA NextNumberIsNew ==
    ASSUME NEW k \in 0..MaxEntries, Given = 1..k
    PROVE  Sched!NextNumber = k + 1
<1>1. Sched!Numbers = 1..MaxEntries
  BY DEF Sched!Numbers
<1>2. Sched!NextNumber = Cardinality(Given) + 1
  BY <1>1 DEF Sched!NextNumber, Given, Sched!Cardinality, Cardinality
<1>3. Cardinality(1..k) = k
  BY FS_Interval, ServicesAssumption
<1>4. QED
  BY <1>2, <1>3

(* An operation that gives task t an entry. *)
LEMMA AddFuncKeeps ==
    ASSUME SchedInv, NEW t \in Tasks, Sched!AddFunc(t)
    PROVE  \E n \in 1..MaxEntries :
              /\ n \notin Given
              /\ entries' = [entries EXCEPT ![n] = t]
              /\ present' = present \cup {n}
              /\ entryOf' = [entryOf EXCEPT ![t] = n]
              /\ Given' = Given \cup {n}
              /\ \E k \in 0..MaxEntries : Given' = 1..k
<1>1. PICK k \in 0..MaxEntries : Given = 1..k
  BY DEF SchedInv
<1>2. PICK n : n = k + 1
  OBVIOUS
<1>3. /\ n \in 1..MaxEntries
      /\ entries' = [entries EXCEPT ![n] = t]
      /\ present' = present \cup {n}
      /\ entryOf' = [entryOf EXCEPT ![t] = n]
  BY <1>1, <1>2, NextNumberIsNew DEF Sched!AddFunc, Sched!Numbers
<1>4. n \notin Given /\ 1..n = 1..k \cup {n} /\ n \in 0..MaxEntries
  BY <1>1, <1>2, <1>3, ServicesAssumption
<1>5. entries \in [1..MaxEntries -> Tasks \cup {"unused"}]
  BY DEF SchedInv, Sched!TypeOK, Sched!Numbers
<1>6. Given' = Given \cup {n}
  BY <1>3, <1>5, ServicesAssumption DEF Given
<1>7. QED
  BY <1>1, <1>3, <1>4, <1>6

(* The numbers Start gives out. *)
LEMMA StartKeeps ==
    ASSUME SchedInv, Sched!Start
    PROVE  LET enabled == {t \in Tasks : tasks[t] = "on"} IN
           \E new \in SUBSET (1..MaxEntries) :
              /\ new \cap Given = {}
              /\ entries' \in [1..MaxEntries -> Tasks \cup {"unused"}]
              /\ \A n \in 1..MaxEntries \ new : entries'[n] = entries[n]
              /\ \A n \in new : entries'[n] \in Tasks
              /\ present' = present \cup new
              /\ Given' = Given \cup new
              /\ \E k \in 0..MaxEntries : Given' = 1..k
              /\ entryOf' \in [Tasks -> 0..MaxEntries]
              /\ \A t \in Tasks : IF t \in enabled
                                    THEN entryOf'[t] \in new /\ entries'[entryOf'[t]] = t
                                    ELSE entryOf'[t] = 0
<1> DEFINE enabled == {t \in Tasks : tasks[t] = "on"}
<1>1. PICK k \in 0..MaxEntries : Given = 1..k
  BY DEF SchedInv
<1>2. PICK m : m = Cardinality(enabled)
  OBVIOUS
<1>3. m \in Nat
  BY <1>2, FS_Subset, FS_CardinalityType, ServicesAssumption
<1>4. Sched!Cardinality(enabled) = m
  BY <1>2 DEF Sched!Cardinality, Cardinality
<1> DEFINE new == Sched!NextNumber..(Sched!NextNumber + Sched!Cardinality(enabled) - 1)
<1>5. new = (k + 1)..(k + m)
  BY <1>1, <1>3, <1>4, NextNumberIsNew
<1>6. PICK taskOf : /\ taskOf \in Sched!Bijection(new, enabled)
                    /\ new \subseteq 1..MaxEntries
                    /\ entries' = [n \in 1..MaxEntries |-> IF n \in new THEN taskOf[n] ELSE entries[n]]
                    /\ present' = present \cup new
                    /\ entryOf' = [t \in Tasks |-> IF t \in enabled THEN Sched!Inverse(taskOf, new, enabled)[t] ELSE 0]
  BY DEF Sched!Start, Sched!Numbers
<1> HIDE DEF new
<1>7. /\ taskOf \in [new -> enabled]
      /\ \A t \in enabled : \E n \in new : taskOf[n] = t
  BY <1>6 DEF Sched!Bijection, Sched!Injection, Sched!Surjection
<1>8. \A t \in enabled : /\ Sched!Inverse(taskOf, new, enabled)[t] \in new
                    /\ taskOf[Sched!Inverse(taskOf, new, enabled)[t]] = t
  <2>1. \A t \in enabled : t \in Sched!Range(taskOf)
    BY <1>7 DEF Sched!Range
  <2>2. ASSUME NEW t \in enabled
        PROVE  LET s == CHOOSE s \in new : t \in Sched!Range(taskOf) => taskOf[s] = t
               IN  s \in new /\ taskOf[s] = t
    BY <1>7, <2>1
  <2>3. QED
    BY <2>2 DEF Sched!Inverse
<1>9. new \cap Given = {} /\ (new = {} \/ (k + m \in 0..MaxEntries /\ 1..(k + m) = 1..k \cup new))
  BY <1>1, <1>3, <1>5, <1>6, ServicesAssumption
<1>10. entries \in [1..MaxEntries -> Tasks \cup {"unused"}]
  BY DEF SchedInv, Sched!TypeOK, Sched!Numbers
<1>11. /\ entries' \in [1..MaxEntries -> Tasks \cup {"unused"}]
       /\ \A n \in 1..MaxEntries \ new : entries'[n] = entries[n]
       /\ \A n \in new : entries'[n] = taskOf[n] /\ taskOf[n] \in Tasks
  BY <1>6, <1>7, <1>10
<1>12. Given' = Given \cup new
  BY <1>6, <1>11, ServicesAssumption DEF Given
<1>13. \E i \in 0..MaxEntries : Given' = 1..i
  BY <1>1, <1>9, <1>12
<1>14. entryOf' \in [Tasks -> 0..MaxEntries]
  <2>1. new \subseteq 0..MaxEntries /\ 0 \in 0..MaxEntries
    BY <1>6, ServicesAssumption
  <2>2. QED
    BY <1>6, <1>8, <2>1
<1>15. \A t \in Tasks : IF t \in enabled THEN entryOf'[t] \in new /\ entries'[entryOf'[t]] = t
                                    ELSE entryOf'[t] = 0
  BY <1>6, <1>8, <1>11
<1>16. QED
  BY <1>6, <1>9, <1>11, <1>12, <1>13, <1>14, <1>15

(* Every step of the scheduler keeps its invariant. *)
LEMMA SchedStep ==
    ASSUME SchedInv, Sched!Next \/ UNCHANGED schedulerVars
    PROVE  SchedInv'
<1> USE DEF Sched!TypeOK, Sched!Numbers, Sched!SchedulerSound, Sched!EnabledScheduled,
            Sched!QuietWhenStopped, Sched!schedVars, Sched!cronVars
<1> DEFINE Same == UNCHANGED <<entries, present, entryOf>>
<1>0. UNCHANGED entries => Given' = Given
  BY DEF Given
<1>1. ASSUME NEW t \in Tasks, Sched!AddTask(t) \/ Sched!EnableTask(t) PROVE SchedInv'
  <2>1. /\ tasks' = [tasks EXCEPT ![t] = "on"] /\ tasks[t] # "on"
        /\ UNCHANGED <<running, stopping, runs, manual>>
        /\ IF running THEN Sched!AddFunc(t) ELSE Same
    BY <1>1 DEF Sched!AddTask, Sched!EnableTask
  <2>2. CASE running
    <3>1. PICK n \in 1..MaxEntries :
              /\ n \notin Given
              /\ entries' = [entries EXCEPT ![n] = t]
              /\ present' = present \cup {n}
              /\ entryOf' = [entryOf EXCEPT ![t] = n]
              /\ Given' = Given \cup {n}
              /\ \E k \in 0..MaxEntries : Given' = 1..k
      BY <2>1, <2>2, AddFuncKeeps
    <3>2. Given \subseteq 1..MaxEntries /\ n \in 0..MaxEntries
      BY <3>1, ServicesAssumption DEF Given
    <3>3. Sched!TypeOK'
      BY <2>1, <3>1, <3>2 DEF SchedInv
    <3>4. /\ present' \subseteq Given'
          /\ \A s \in Tasks : entryOf'[s] # 0 =>
                entryOf'[s] \in Given' /\ entries'[entryOf'[s]] = s
      BY <3>1, <3>2, ZenonT(60) DEF SchedInv
    <3>5. Sched!SchedulerSound'
      BY <2>1, <2>2, <3>1, <3>2 DEF SchedInv
    <3>6. QED
      BY <3>1, <3>3, <3>4, <3>5 DEF SchedInv
  <2>3. CASE ~running
    BY <1>0, <2>1, <2>3 DEF SchedInv
  <2>4. QED
    BY <2>2, <2>3
<1>2. ASSUME NEW t \in Tasks, Sched!RemoveTask(t) \/ Sched!DisableTask(t) PROVE SchedInv'
  <2>1. /\ tasks' \in [Tasks -> {"absent", "on", "off"}] /\ tasks'[t] # "on"
        /\ \A s \in Tasks : s # t => tasks'[s] = tasks[s]
        /\ entryOf' \in {entryOf, [entryOf EXCEPT ![t] = 0]}
        /\ present' = IF running THEN present \ {entryOf[t]} ELSE present
        /\ UNCHANGED <<running, stopping, entries, runs, manual>>
    BY <1>2, ZenonT(60) DEF Sched!RemoveTask, Sched!DisableTask, Sched!Remove, SchedInv
  <2>2. entryOf' \in [Tasks -> 0..MaxEntries]
        /\ \A s \in Tasks : entryOf'[s] = entryOf[s] \/ (s = t /\ entryOf'[s] = 0)
    BY <2>1, ServicesAssumption DEF SchedInv
  <2>3. Given' = Given
    BY <2>1 DEF Given
  <2>4. 0 \notin Given
    BY ServicesAssumption DEF Given
  <2>5. \A s \in Tasks : s # t /\ running /\ tasks[s] = "on" => entryOf[s] # entryOf[t]
    BY <2>4 DEF SchedInv
  <2>6. Sched!EnabledScheduled'
    BY <2>1, <2>2, <2>5 DEF SchedInv
  <2>7. QED
    BY <2>1, <2>2, <2>3, <2>6 DEF SchedInv
<1>3. CASE Sched!Start
  <2>1. PICK new \in SUBSET (1..MaxEntries) :
              /\ new \cap Given = {}
              /\ entries' \in [1..MaxEntries -> Tasks \cup {"unused"}]
              /\ \A n \in 1..MaxEntries \ new : entries'[n] = entries[n]
              /\ \A n \in new : entries'[n] \in Tasks
              /\ present' = present \cup new
              /\ Given' = Given \cup new
              /\ \E k \in 0..MaxEntries : Given' = 1..k
              /\ entryOf' \in [Tasks -> 0..MaxEntries]
              /\ \A t \in Tasks : IF tasks[t] = "on"
                                    THEN entryOf'[t] \in new /\ entries'[entryOf'[t]] = t
                                    ELSE entryOf'[t] = 0
    BY <1>3, StartKeeps
  <2>2. running' = TRUE /\ UNCHANGED <<tasks, stopping, runs, manual>>
    BY <1>3 DEF Sched!Start
  <2>3. QED
    BY <2>1, <2>2 DEF SchedInv
<1>4. CASE Sched!EndStop
  <2>1. Given' = Given /\ 0 \in 0..MaxEntries
    BY <1>0, <1>4, ServicesAssumption DEF Sched!EndStop
  <2>2. QED
    BY <1>4, <2>1 DEF Sched!EndStop, SchedInv
<1>5. CASE \/ Sched!BeginStop \/ \E n \in 1..MaxEntries : Sched!Fire(n) \/ Sched!Finish(n)
           \/ \E t \in Tasks : Sched!RunTaskNow(t) \/ Sched!FinishManual(t)
           \/ UNCHANGED schedulerVars
  <2>1. /\ UNCHANGED <<tasks, entryOf, running, entries, present>>
        /\ stopping' \in BOOLEAN /\ manual' \subseteq Tasks /\ runs' \subseteq 1..MaxEntries
        /\ ~running => runs' \subseteq runs
    BY <1>5 DEF Sched!BeginStop, Sched!Fire, Sched!Finish, Sched!RunTaskNow, Sched!FinishManual,
                schedulerVars, SchedInv
  <2>2. QED
    BY <1>0, <2>1 DEF SchedInv
<1>6. QED
  BY <1>1, <1>2, <1>3, <1>4, <1>5 DEF Sched!Next

-----------------------------------------------------------------------------
(* The hub.  No client it knows has a closed channel, and it knows only    *)
(* clients that it has registered.                                         *)
HubInv ==
    /\ Hub!TypeOK /\ Hub!HubSurvives
    /\ clients \cap sendClosed = {}
    /\ \A c \in Clients : client[c] = "admitted" => c \notin sendClosed
    /\ \A c \in Clients : client[c] \in {"out", "admitted"} => c \notin clients

(* Every step of the hub keeps its invariant. *)
LEMMA HubStep ==
    ASSUME HubInv, Hub!Next \/ UNCHANGED hubVars
    PROVE  HubInv'
<1> USE ServicesAssumption
    DEF HubInv, Hub!TypeOK, Hub!HubSurvives, Hub!clientVars, Hub!channels, Hub!queues
<1>1. ASSUME NEW c \in Clients, Hub!Admit(c) \/ Hub!Register(c) \/ Hub!Disconnect(c) PROVE HubInv'
  <2>1. CASE Hub!Admit(c)
    BY <2>1 DEF Hub!Admit
  <2>2. CASE Hub!Register(c)
    BY <2>2 DEF Hub!Register
  <2>3. CASE Hub!Disconnect(c)
    BY <2>3 DEF Hub!Disconnect
  <2>4. QED
    BY <1>1, <2>1, <2>2, <2>3
<1>2. ASSUME NEW c \in Clients, Hub!ReadCommand(c) PROVE HubInv'
  <2>1. commands' \in Seq(Clients) /\ Len(commands') = Len(commands) + 1
    BY <1>2, AppendProperties DEF Hub!ReadCommand
  <2>2. QED
    BY <1>2, <2>1 DEF Hub!ReadCommand
<1>3. ASSUME NEW c \in Clients, Hub!StartPumps(c) \/ Hub!ReadFails(c) PROVE HubInv'
  BY <1>3 DEF Hub!StartPumps, Hub!ReadFails
<1>4. ASSUME NEW c \in Clients, Hub!WriteMessages(c) \/ Hub!EndWriting(c) PROVE HubInv'
  BY <1>4 DEF Hub!WriteMessages, Hub!EndWriting
<1>5. ASSUME NEW c \in Clients, Hub!Unregister(c) PROVE HubInv'
  BY <1>5 DEF Hub!Unregister
<1>6. ASSUME NEW c \in Clients, Hub!Reply(c) \/ Hub!EndCommand(c) PROVE HubInv'
  BY <1>6 DEF Hub!Reply, Hub!EndCommand
<1>7. CASE Hub!StartCommand
  <2>1. /\ Tail(commands) \in Seq(Clients) /\ Len(Tail(commands)) = Len(commands) - 1
        /\ Head(commands) \in Clients
    BY <1>7, HeadTailProperties DEF Hub!StartCommand
  <2>2. QED
    BY <1>7, <2>1 DEF Hub!StartCommand
<1>8. CASE Hub!BroadcastToChannel
  BY <1>8 DEF Hub!BroadcastToChannel
<1>9. ASSUME NEW reached \in SUBSET clients, Hub!Broadcast(reached) PROVE HubInv'
  BY <1>9 DEF Hub!Broadcast, Hub!Deliver, Hub!Full
<1>10. CASE UNCHANGED hubVars
  BY <1>10 DEF hubVars
<1>11. QED
  BY <1>1, <1>2, <1>3, <1>4, <1>5, <1>6, <1>7, <1>8, <1>9, <1>10 DEF Hub!Next, Hub!Pumps

-----------------------------------------------------------------------------
(* The RabbitMQ client.  There is always a name for a new connection.      *)
RabbitInv == Rabbit!TypeOK /\ Rabbit!OneReconnects

(* There is always a name for the next connection: watchers are fewer than names. *)
LEMMA UnusedNames ==
    ASSUME Rabbit!TypeOK
    PROVE  (CHOOSE link \in Rabbit!Unused : TRUE) \in Links
<1> DEFINE Watched == {on[w] : w \in Watchers}
<1>1. on \in [Watchers -> Watched] /\ \A x \in Watched : \E w \in Watchers : on[w] = x
  BY DEF Rabbit!TypeOK
<1>2. on \in Surjection(Watchers, Watched)
  BY <1>1 DEF Surjection
<1> HIDE DEF Watched
<1>3. IsFiniteSet(Watched) /\ Cardinality(Watched) <= Cardinality(Watchers)
  BY <1>2, FS_Surjection, ServicesAssumption
<1>4. /\ IsFiniteSet(Watched \cup {conn})
      /\ Cardinality(Watched \cup {conn}) <= Cardinality(Watched) + 1
  <2>1. /\ IsFiniteSet(Watched \cup {conn})
        /\ Cardinality(Watched \cup {conn})
             = IF conn \in Watched THEN Cardinality(Watched) ELSE Cardinality(Watched) + 1
    BY <1>3, FS_AddElement
  <2>2. Cardinality(Watched) \in Nat
    BY <1>3, FS_CardinalityType
  <2>3. QED
    BY <2>1, <2>2
<1>5. /\ Cardinality(Watchers) \in Nat /\ Cardinality(Watched) \in Nat /\ Cardinality(Links) \in Nat
      /\ Cardinality(Watched \cup {conn}) \in Nat
      /\ Cardinality(Links) > Cardinality(Watchers) + 1
  BY <1>3, <1>4, FS_CardinalityType, ServicesAssumption
<1>6. ~(Links \subseteq Watched \cup {conn})
  <2>1. Links \subseteq Watched \cup {conn} => Cardinality(Links) <= Cardinality(Watched \cup {conn})
    BY <1>4, FS_Subset
  <2>2. QED
    BY <1>3, <1>4, <1>5, <2>1
<1>7. Rabbit!Unused = Links \ (Watched \cup {conn})
  BY DEF Rabbit!Unused, Rabbit!Watched, Watched
<1>8. PICK link : link \in Rabbit!Unused
  BY <1>6, <1>7
<1>9. QED
  BY <1>7, <1>8

(* Every step of the RabbitMQ client keeps its invariant. *)
LEMMA RabbitStep ==
    ASSUME RabbitInv, Rabbit!Next \/ UNCHANGED rabbitVars
    PROVE  RabbitInv'
<1> USE ServicesAssumption DEF RabbitInv, Rabbit!TypeOK, Rabbit!OneReconnects, Rabbit!Go, Rabbit!watchVars
<1>1. ASSUME Rabbit!NewLink PROVE conn' \in Links /\ links' \subseteq Links
  BY <1>1, UnusedNames DEF Rabbit!NewLink
<1>2. ASSUME Rabbit!DialSucceeds \/ Rabbit!DialFails
      PROVE  /\ conn' \in Links \cup {NoLink} /\ links' \subseteq Links
             /\ connected' \in BOOLEAN /\ late' \in 0..MaxLate
  BY <1>1, <1>2 DEF Rabbit!DialSucceeds, Rabbit!DialFails
<1>3. CASE Rabbit!Connect
  BY <1>2, <1>3 DEF Rabbit!Connect
<1>4. CASE Rabbit!LateDial
  BY <1>1, <1>4 DEF Rabbit!LateDial
<1>5. CASE Rabbit!BeginClose \/ Rabbit!EndClose \/ \E link \in Links : Rabbit!Break(link)
  BY <1>5 DEF Rabbit!BeginClose, Rabbit!EndClose, Rabbit!Break
<1>6. ASSUME NEW w \in Watchers, Rabbit!Redial(w) \/ Rabbit!RedialFails(w) PROVE RabbitInv'
  BY <1>2, <1>6 DEF Rabbit!Redial, Rabbit!RedialFails
<1>7. ASSUME NEW w \in Watchers, Rabbit!Fetch(w) \/ Rabbit!Ask(w) \/ Rabbit!Told(w) PROVE RabbitInv'
  <2>1. CASE Rabbit!Fetch(w)
    BY <2>1 DEF Rabbit!Fetch
  <2>2. CASE Rabbit!Ask(w)
    BY <2>2 DEF Rabbit!Ask, Rabbit!Leave
  <2>3. CASE Rabbit!Told(w)
    <3>1. CASE /\ connected' = FALSE /\ on' = [on EXCEPT ![w] = NoLink]
               /\ Rabbit!Go(w, "told")
      <4>1. UNCHANGED <<conn, links, limit, retries, late, reconnecting, quitting>>
        BY <2>3 DEF Rabbit!Told
      <4>2. QED
        BY <3>1, <4>1 DEF Rabbit!Go
    <3>2. CASE Rabbit!Leave(w) /\ UNCHANGED connected
      BY <2>3, <3>2 DEF Rabbit!Told, Rabbit!Leave
    <3>3. QED
      BY <2>3, <3>1, <3>2 DEF Rabbit!Told
  <2>4. QED
    BY <1>7, <2>1, <2>2, <2>3
<1>8. ASSUME NEW w \in Watchers, Rabbit!BeginReconnect(w) PROVE RabbitInv'
  BY <1>8 DEF Rabbit!BeginReconnect
<1>9. ASSUME NEW w \in Watchers, Rabbit!Retry(w) PROVE RabbitInv'
  BY <1>9 DEF Rabbit!Retry
<1>10. ASSUME NEW w \in Watchers, Rabbit!EndReconnect(w) PROVE RabbitInv'
  BY <1>10, ZenonT(60) DEF Rabbit!EndReconnect
<1>11. CASE UNCHANGED rabbitVars
  BY <1>11 DEF rabbitVars
<1>12. QED
  BY <1>3, <1>4, <1>5, <1>6, <1>7, <1>8, <1>9, <1>10, <1>11 DEF Rabbit!Next, Rabbit!Watch

-----------------------------------------------------------------------------
(* The asynchronous logger: where an accepted entry is while the loop runs, *)
(* while it empties the channel, and when it has ended.                    *)
LogInv ==
    /\ Log!TypeOK
    /\ due <= accepted
    /\ loop = "running" => (written \o buffer) \o logChan = [i \in 1..accepted |-> i]
    /\ loop = "draining" => /\ 1..accepted \subseteq Range(written) \cup Range(buffer) \cup Range(logChan)
                            /\ closing = "waiting"
    /\ loop = "ended" => 1..due \subseteq Range(written) /\ closing # "open"
    /\ closing = "closed" => loop = "ended"

(* Every step of the asynchronous logger keeps the entries in turn. *)
LEMMA LogStep ==
    ASSUME LogInv, Log!Next \/ UNCHANGED logVars
    PROVE  LogInv'
<1>1. PICK E : E = 1..MaxLogged
  OBVIOUS
<1>2. /\ logChan \in Seq(E) /\ buffer \in Seq(E) /\ written \in Seq(E)
      /\ Len(logChan) <= MaxBuffer /\ Len(buffer) < BufferSize
      /\ accepted \in 0..MaxLogged /\ due \in 0..MaxLogged
      /\ loop \in {"running", "draining", "ended"} /\ closing \in {"open", "waiting", "closed"}
  BY <1>1 DEF LogInv, Log!TypeOK, Log!Entries
<1>3. LogInv' <=>
        /\ logChan' \in Seq(E) /\ buffer' \in Seq(E) /\ written' \in Seq(E)
        /\ Len(logChan') <= MaxBuffer /\ Len(buffer') < BufferSize
        /\ accepted' \in 0..MaxLogged /\ due' \in 0..MaxLogged
        /\ loop' \in {"running", "draining", "ended"} /\ closing' \in {"open", "waiting", "closed"}
        /\ due' <= accepted'
        /\ loop' = "running" => (written' \o buffer') \o logChan' = [i \in 1..accepted' |-> i]
        /\ loop' = "draining" =>
              /\ 1..accepted' \subseteq Range(written') \cup Range(buffer') \cup Range(logChan')
              /\ closing' = "waiting"
        /\ loop' = "ended" => 1..due' \subseteq Range(written') /\ closing' # "open"
        /\ closing' = "closed" => loop' = "ended"
  BY <1>1 DEF LogInv, Log!TypeOK, Log!Entries
<1>4. CASE Log!Write
  <2>1. PICK n : n = accepted + 1
    OBVIOUS
  <2>2. /\ accepted' = n /\ logChan' = Append(logChan, n) /\ Len(logChan) < MaxBuffer
        /\ due' = (IF closing = "open" THEN n ELSE due)
        /\ UNCHANGED <<buffer, written, loop, closing>>
        /\ n \in E /\ n \in Nat
    BY <1>1, <1>2, <1>4, <2>1, ServicesAssumption DEF Log!Write
  <2>3. logChan' \in Seq(E) /\ Len(logChan') = Len(logChan) + 1 /\ <<n>> \in Seq(E)
        /\ logChan' = logChan \o <<n>>
    BY <1>2, <2>2, AppendProperties, AppendIsConcat
  <2>4. Range(logChan') = Range(logChan) \cup {n}
    <3>1. Range(<<n>>) = {n}
      BY DEF Range
    <3>2. QED
      <4>1. PICK q \in Seq(E) : q = <<n>>
        BY <2>3
      <4>2. Range(logChan \o q) = Range(logChan) \cup Range(q)
        BY <1>2, RangeConcatenation
      <4>3. QED
        BY <2>3, <3>1, <4>1, <4>2
  <2>5. CASE loop = "running"
    <3>1. PICK s \in Seq(E) : s = written \o buffer
      BY <1>2, ConcatProperties
    <3>2. (s \o logChan) \o <<n>> = s \o logChan'
      <4>1. PICK q \in Seq(E) : q = <<n>>
        BY <2>3
      <4>2. (s \o logChan) \o q = s \o (logChan \o q)
        BY <1>2, ConcatAssociative, SMTT(120)
      <4>3. QED
        BY <2>3, <4>1, <4>2
    <3>3. s \o logChan = [i \in 1..accepted |-> i]
      BY <2>5, <3>1 DEF LogInv
    <3>4. [i \in 1..accepted |-> i] \o <<n>> = [i \in 1..n |-> i]
      BY <1>2, <2>1
    <3>5. (written' \o buffer') \o logChan' = [i \in 1..accepted' |-> i]
      BY <2>2, <3>1, <3>2, <3>3, <3>4
    <3>6. /\ logChan' \in Seq(E) /\ Len(logChan') <= MaxBuffer
          /\ accepted' \in 0..MaxLogged /\ due' \in 0..MaxLogged /\ due' <= accepted'
          /\ closing # "closed"
      BY <1>1, <1>2, <2>1, <2>2, <2>3, <2>5, ServicesAssumption DEF LogInv
    <3>7. QED
      BY <1>2, <1>3, <2>2, <2>5, <3>5, <3>6
  <2>6. CASE loop # "running"
    <3>1. closing # "open"
      BY <1>2, <2>6 DEF LogInv
    <3>2. 1..n = 1..accepted \cup {n}
      BY <1>2, <2>1
    <3>3. QED
      BY <1>1, <1>2, <1>3, <2>1, <2>2, <2>3, <2>4, <2>6, <3>1, <3>2, ServicesAssumption DEF LogInv
  <2>7. QED
    BY <2>5, <2>6
<1>5. CASE Log!TakeEntry
  <2>1. PICK full : full = Append(buffer, Head(logChan))
    OBVIOUS
  <2>2. /\ loop \in {"running", "draining"} /\ logChan # <<>>
        /\ IF Len(full) >= BufferSize
             THEN written' = written \o full /\ buffer' = <<>>
             ELSE buffer' = full /\ written' = written
        /\ logChan' = Tail(logChan)
        /\ UNCHANGED <<accepted, loop, closing, due>>
    BY <1>5, <2>1 DEF Log!TakeEntry, Log!Buffer
  <2>3. /\ logChan' \in Seq(E) /\ full \in Seq(E)
        /\ Len(full) = Len(buffer) + 1 /\ Len(logChan') = Len(logChan) - 1
        /\ (written \o full) \o logChan' = (written \o buffer) \o logChan
        /\ ((written \o full) \o <<>>) \o logChan' = (written \o buffer) \o logChan
        /\ Range(full) \cup Range(logChan') = Range(buffer) \cup Range(logChan)
    <3>1. PICK c \in Seq(E) : c = logChan
      BY <1>2
    <3>2. PICK b \in Seq(E) : b = buffer
      BY <1>2
    <3>3. PICK w \in Seq(E) : w = written
      BY <1>2
    <3>4. c # <<>>
      BY <2>2, <3>1
    <3>5. /\ Tail(c) \in Seq(E) /\ Append(b, Head(c)) \in Seq(E)
          /\ Len(Append(b, Head(c))) = Len(b) + 1 /\ Len(Tail(c)) = Len(c) - 1
          /\ (w \o Append(b, Head(c))) \o Tail(c) = (w \o b) \o c
          /\ ((w \o Append(b, Head(c))) \o <<>>) \o Tail(c) = (w \o b) \o c
          /\ Range(Append(b, Head(c))) \cup Range(Tail(c)) = Range(b) \cup Range(c)
      <4>0. InTurn(w, Append(b, Head(c)), Tail(c)) = InTurn(w, b, c)
        BY <3>4, EntryMoves
      <4>1. (w \o Append(b, Head(c))) \o Tail(c) = (w \o b) \o c
        BY <4>0 DEF InTurn
      <4>2. /\ Tail(c) \in Seq(E) /\ Append(b, Head(c)) \in Seq(E)
            /\ Len(Append(b, Head(c))) = Len(b) + 1 /\ Len(Tail(c)) = Len(c) - 1
            /\ Range(Append(b, Head(c))) \cup Range(Tail(c)) = Range(b) \cup Range(c)
        BY <3>4, EntryCounts
      <4>3. PICK a \in Seq(E) : a = w \o Append(b, Head(c))
        BY <4>2, ConcatProperties
      <4>4. a \o <<>> = a
        BY ConcatEmptySeq
      <4>5. QED
        BY <4>1, <4>2, <4>3, <4>4
    <3>6. QED
      BY <2>1, <2>2, <3>1, <3>2, <3>3, <3>5
  <2>4. /\ written' \in Seq(E) /\ buffer' \in Seq(E)
        /\ Len(logChan') <= MaxBuffer /\ Len(buffer') < BufferSize
    <3>1. Len(buffer) \in Nat /\ Len(logChan) \in Nat /\ Len(<<>>) = 0 /\ <<>> \in Seq(E)
      BY <1>2
    <3>2. written \o full \in Seq(E)
      BY <1>2, <2>3, ConcatProperties
    <3>3. Len(logChan') <= MaxBuffer
      BY <1>2, <2>3, <3>1, ServicesAssumption
    <3>4. Len(full) < BufferSize \/ Len(full) >= BufferSize
      BY <2>3, <3>1, ServicesAssumption
    <3>5. Len(<<>>) < BufferSize
      BY <3>1, ServicesAssumption
    <3>6. QED
      BY <1>2, <2>2, <2>3, <3>1, <3>2, <3>3, <3>4, <3>5
  <2>5. (written' \o buffer') \o logChan' = (written \o buffer) \o logChan
    BY <2>2, <2>3
  <2>6. Range(written') \cup Range(buffer') \cup Range(logChan')
          = Range(written) \cup Range(buffer) \cup Range(logChan)
    <3>1. Range(<<>>) = {}
      BY DEF Range
    <3>3. Range(written \o full) = Range(written) \cup Range(full)
      BY <1>2, <2>3, RangeConcatenation
    <3>2. QED
      BY <2>2, <2>3, <3>1, <3>3
  <2>7. QED
    BY <1>2, <1>3, <2>2, <2>3, <2>4, <2>5, <2>6 DEF LogInv
<1>6. ASSUME NEW s, s = written \o buffer
      PROVE  /\ s \in Seq(E) /\ Range(s) = Range(written) \cup Range(buffer)
             /\ s \o <<>> = s
             /\ <<>> \in Seq(E) /\ Len(<<>>) = 0
  BY <1>2, <1>6, ConcatProperties, ConcatEmptySeq, RangeConcatenation
<1>7. CASE Log!TickerWrites
  BY <1>2, <1>3, <1>6, <1>7, ServicesAssumption DEF Log!TickerWrites, LogInv
<1>8. CASE Log!BeginClose
  BY <1>2, <1>3, <1>8 DEF Log!BeginClose, LogInv
<1>9. CASE Log!SeeStop
  <2>1. Range([i \in 1..accepted |-> i]) = 1..accepted
    BY DEF Range
  <2>2. PICK s : s = written \o buffer
    OBVIOUS
  <2>3. Range(s \o logChan) = Range(s) \cup Range(logChan)
    <3>1. PICK q \in Seq(E) : q = logChan
      BY <1>2
    <3>2. s \in Seq(E)
      BY <1>6, <2>2
    <3>3. QED
      BY <3>1, <3>2, RangeConcatenation
  <2>4. 1..accepted \subseteq Range(s) \cup Range(logChan)
    BY <1>9, <2>1, <2>2, <2>3 DEF Log!SeeStop, LogInv
  <2>5. QED
    BY <1>2, <1>3, <1>6, <1>9, <2>2, <2>4 DEF Log!SeeStop, LogInv
<1>10. CASE Log!EndLoop
  <2>1. Range(<<>>) = {}
    BY DEF Range
  <2>2. PICK s : s = written \o buffer
    OBVIOUS
  <2>3. 1..due \subseteq 1..accepted
    BY <1>2 DEF LogInv
  <2>4. 1..due \subseteq Range(s)
    BY <1>6, <1>10, <2>1, <2>2, <2>3, ZenonT(60) DEF Log!EndLoop, LogInv
  <2>5. QED
    BY <1>2, <1>3, <1>6, <1>10, <2>2, <2>4 DEF Log!EndLoop, LogInv
<1>11. CASE Log!CloseReturns
  BY <1>2, <1>3, <1>11 DEF Log!CloseReturns, LogInv
<1>12. CASE UNCHANGED logVars
  BY <1>2, <1>3, <1>12 DEF logVars, LogInv
<1>13. QED
  BY <1>4, <1>5, <1>7, <1>8, <1>9, <1>10, <1>11, <1>12 DEF Log!Next

-----------------------------------------------------------------------------
(* The services together. *)
ServicesInv == TypeInv /\ SoundInv /\ SchedInv /\ HubInv /\ RabbitInv /\ LogInv

(* ServicesInv holds when the services start. *)
LEMMA ServicesStart == MCInit => ServicesInv
<1> SUFFICES ASSUME MCInit PROVE ServicesInv
  OBVIOUS
<1>1. Init /\ Sched!Init /\ Log!Init /\ Hub!Init /\ Rabbit!Init
  BY DEF MCInit
<1>2. TypeInv
  BY <1>1 DEF Init, TypeInv, TypeOK, UsersHold
<1>3. SoundInv
  BY <1>1, SoundInvStarts
<1>4. SchedInv
  <2>1. Given = {} /\ 1..0 = {} /\ 0 \in 0..MaxEntries
    BY <1>1, ServicesAssumption DEF Sched!Init, Sched!Numbers, Given
  <2>2. \E k \in 0..MaxEntries : Given = 1..k
    BY <2>1
  <2>3. QED
    BY <1>1, <2>1, <2>2, ServicesAssumption
       DEF Sched!Init, SchedInv, Sched!TypeOK, Sched!Numbers, Sched!SchedulerSound,
           Sched!EnabledScheduled, Sched!QuietWhenStopped
<1>5. HubInv
  BY <1>1, ServicesAssumption DEF Hub!Init, HubInv, Hub!TypeOK, Hub!HubSurvives
<1>6. RabbitInv
  <2>1. 0 \in 0..MaxLate /\ 0 \in 0..MaxRetries
    BY ServicesAssumption
  <2>2. Rabbit!TypeOK
    BY <1>1, <2>1 DEF Rabbit!Init, Rabbit!TypeOK
  <2>3. Rabbit!OneReconnects
    BY <1>1 DEF Rabbit!Init, Rabbit!OneReconnects
  <2>4. QED
    BY <2>2, <2>3 DEF RabbitInv
<1>7. LogInv
  <2>1. <<>> \in Seq(Log!Entries) /\ Len(<<>>) = 0 /\ (<<>> \o <<>>) \o <<>> = [i \in 1..0 |-> i]
    OBVIOUS
  <2>2. QED
    BY <1>1, <2>1, ServicesAssumption DEF Log!Init, LogInv, Log!TypeOK
<1>8. QED
  BY <1>2, <1>3, <1>4, <1>5, <1>6, <1>7 DEF ServicesInv

(* Every step of any of the services keeps ServicesInv. *)
LEMMA ServicesStep == ServicesInv /\ [MCNext]_mcVars => ServicesInv'
<1> SUFFICES ASSUME ServicesInv, [MCNext]_mcVars PROVE ServicesInv'
  OBVIOUS
<1>1. TypeInv' /\ SoundInv'
  <2>1. [Next]_vars
    BY DEF MCNext, OnPool, OnScheduler, OnLog, OnHub, OnRabbit, mcVars
  <2>2. TypeInv'
    BY <2>1, TypeInvStep DEF ServicesInv
  <2>3. SoundInv'
    BY <2>1, <2>2, BoundStep, HeldStep DEF ServicesInv, SoundInv, PoolSound
  <2>4. QED
    BY <2>2, <2>3
<1>2. Sched!Next \/ UNCHANGED schedulerVars
  BY DEF MCNext, OnPool, OnScheduler, OnLog, OnHub, OnRabbit, mcVars
<1>3. Hub!Next \/ UNCHANGED hubVars
  BY DEF MCNext, OnPool, OnScheduler, OnLog, OnHub, OnRabbit, mcVars
<1>4. Rabbit!Next \/ UNCHANGED rabbitVars
  BY DEF MCNext, OnPool, OnScheduler, OnLog, OnHub, OnRabbit, mcVars
<1>5. Log!Next \/ UNCHANGED logVars
  BY DEF MCNext, OnPool, OnScheduler, OnLog, OnHub, OnRabbit, mcVars
<1>6. QED
  BY <1>1, <1>2, <1>3, <1>4, <1>5, SchedStep, HubStep, RabbitStep, LogStep DEF ServicesInv

(* The services keep ServicesInv, run beside one another. *)
LEMMA ServicesInvHolds == MCSpec => []ServicesInv
  BY ServicesStart, ServicesStep, PTL DEF MCSpec

(* Every service keeps its types. *)
THEOREM ServicesTypesOK == MCSpec => []TypesOK
<1>1. ServicesInv => TypesOK
  BY DEF ServicesInv, TypeInv, SchedInv, HubInv, RabbitInv, LogInv, TypesOK
<1>2. QED
  BY <1>1, ServicesInvHolds, PTL

(* What the pool's clients have is their own and good, with the other      *)
(* services beside it too.                                                 *)
THEOREM PoolStaysSound == MCSpec => []PoolSound
<1>1. ServicesInv => PoolSound
  BY DEF ServicesInv, SoundInv
<1>2. QED
  BY <1>1, ServicesInvHolds, PTL

(* Tasks run only as scheduled, the hub survives its clients, one watcher reconnects *)
(* and no log entry is lost or reordered, in the sense of ServicesSound.             *)
THEOREM ServicesAreSound == MCSpec => []ServicesSound
<1>1. SchedInv => Sched!SchedulerSound
  BY DEF SchedInv
<1>2. HubInv /\ RabbitInv => Hub!HubSurvives /\ Rabbit!OneReconnects
  BY DEF HubInv, RabbitInv
<1>3. LogInv => Log!LogKept
  <2>1. \A s : Log!Range(s) = Range(s)
    BY DEF Log!Range, Range
  <2>2. QED
    BY <2>1 DEF LogInv, Log!LogKept, Log!WrittenInOrder, Log!CloseKeepsEntries
<1>4. ServicesInv => ServicesSound
  BY <1>1, <1>2, <1>3 DEF ServicesInv, ServicesSound
<1>5. QED
  BY <1>4, ServicesInvHolds, PTL
=============================================================================
