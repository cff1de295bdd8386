----------------------------- MODULE DataProofs ------------------------------
(***************************************************************************)
(* What is kept in the database and in the cache of redis, for any rows,   *)
(* models, conditions, migrations, replicas, batches, shards and keys: a   *)
(* transaction that is rolled back leaves no trace, the migrator's records *)
(* are the schema, the helpers of framework/db keep what they are given,   *)
(* a tag of RedisCacheAdapter finds its keys, and ShardedCache its size.   *)
(***************************************************************************)
EXTENDS MCData, FiniteSetTheorems, Totals, TLAPS

-----------------------------------------------------------------------------
(* Transactions.  A row that the open transaction has written is there and *)
(* locked, and it is in the table as it was at the transaction's first     *)
(* touch, as long as no statement went beside the transaction.             *)
TxRecord ==
    /\ tx = [phase |-> tx.phase, view |-> tx.view, first |-> tx.first, outside |-> tx.outside]
    /\ DOMAIN tx.view \subseteq Ids
RowsLocked ==
    /\ DOMAIN rows = Ids
    /\ \A i \in DOMAIN tx.view : rows[i] # NoRow
    /\ ~tx.outside => /\ DOMAIN tx.first \subseteq DOMAIN tx.view
                      /\ \A i \in DOMAIN tx.first : rows[i] = tx.first[i]
TxInv == TxRecord /\ RowsLocked

(* No call outside the transaction changes a row the transaction has written. *)
LockedKept ==
    /\ DOMAIN rows' = Ids
    /\ \A i \in DOMAIN tx.view : rows'[i] = rows[i]

(* Such a call keeps what the transaction relies on. *)
LEMMA OutsideKeeps == ASSUME TxInv, LockedKept, tx' = tx PROVE TxInv'
<1>1. TxRecord'
  BY DEF TxInv, TxRecord
<1>2. RowsLocked'
  BY DEF TxInv, RowsLocked, LockedKept
<1>3. QED
  BY <1>1, <1>2 DEF TxInv

(* A statement that is not blocked by the transaction touches other rows. *)
LEMMA UnblockedKeeps ==
    ASSUME TxInv, NEW is, ~Blocked(is), DOMAIN rows' = Ids, \A i \in Ids \ is : rows'[i] = rows[i]
    PROVE  LockedKept
<1>1. \A i \in DOMAIN tx.view : i \in Ids /\ i \notin is
  BY DEF TxInv, TxRecord, Blocked
<1>2. QED
  BY <1>1 DEF LockedKept

(* UPDATE and DELETE wait for the rows of the transaction (query.go:928). *)
LEMMA WriteKeeps ==
    ASSUME TxInv, NEW op, NEW by, NEW s, NEW to, Write(op, by, s, to)
    PROVE  LockedKept
<1>1. PICK is : ~Blocked(is) /\ rows' = [i \in Ids |-> IF i \in is THEN to[i] ELSE rows[i]]
  <2>1. ~Blocked({})
    BY DEF Blocked
  <2>2. QED
    BY <2>1 DEF Write
<1>2. QED
  BY <1>1, UnblockedKeeps

(* A call through a model, whatever it does to the model. *)
LEMMA ModelKeeps ==
    ASSUME TxInv, NEW m \in Models, ReadNext(m) \/ WriteNext(m) \/ ChunkPage(m)
    PROVE  LockedKept /\ tx' = tx
<1>1. UNCHANGED rows => LockedKept
  BY DEF TxInv, RowsLocked, LockedKept
<1>2. CASE ReadNext(m) \/ ChunkPage(m)
  <2>1. UNCHANGED <<rows, tx>>
    BY <1>2, ZenonT(60) DEF ReadNext, ChunkPage, WithTrashed, Find, FindFirst, FindWith, Select, SelectFails,
                Aggregate, ChunkStart, Paginate
  <2>2. QED
    BY <1>1, <2>1, SMTT(60)
<1>3. CASE SaveClean(m)
  BY <1>1, <1>3 DEF SaveClean
<1>4. CASE Restore(m)
  BY <1>4, WriteKeeps DEF Restore
<1>5. ASSUME NEW n \in Names, Save(m, n) PROVE LockedKept /\ tx' = tx
  BY <1>5, WriteKeeps DEF Save
<1>6. ASSUME NEW n \in Names, Insert(m, n) PROVE LockedKept /\ tx' = tx
  <2>1. PICK r, k : rows[k] = NoRow /\ rows' = [rows EXCEPT ![k] = r] /\ tx' = tx
    BY <1>6 DEF Insert
  <2>2. QED
    BY <2>1 DEF TxInv, TxRecord, RowsLocked, LockedKept
<1>7. ASSUME NEW c \in Chains, Delete(m, c) \/ ForceDelete(m, c) PROVE LockedKept /\ tx' = tx
  BY <1>7, WriteKeeps DEF Delete, ForceDelete
<1>8. ASSUME NEW c \in Chains, Inc(m, c) \/ Increment(m, c) PROVE LockedKept /\ tx' = tx
  <2>1. PICK is : /\ ~Blocked(is) /\ tx' = tx
                  /\ rows' = [i \in Ids |-> IF i \in is THEN [rows[i] EXCEPT !.version = @ + 1] ELSE rows[i]]
    BY <1>8 DEF Inc, Increment
  <2>2. QED
    BY <2>1, UnblockedKeeps
<1>9. ASSUME NEW c \in Chains, NEW n \in Names, Update(m, c, n) PROVE LockedKept /\ tx' = tx
  BY <1>9, WriteKeeps DEF Update
<1>10. QED
  BY <1>2, <1>3, <1>4, <1>5, <1>6, <1>7, <1>8, <1>9 DEF WriteNext

(* The statements of the closure, inside the transaction and beside it. *)
LEMMA ClosureKeeps == ASSUME TxInv, TxNext PROVE TxInv'
<1> USE DEF TxInv
<1>1. PICK p, v, f, o : tx = [phase |-> p, view |-> v, first |-> f, outside |-> o] /\ DOMAIN v \subseteq Ids
  BY DEF TxRecord
<1>2. ASSUME tx' = NoTx, DOMAIN rows' = Ids PROVE TxInv'
  <2>1. DOMAIN <<>> = {}
    OBVIOUS
  <2>2. QED
    BY <1>2, <2>1 DEF NoTx, TxRecord, RowsLocked
<1>3. CASE Commit \/ Rollback
  BY <1>2, <1>3 DEF Commit, Rollback, Seen, RowsLocked
<1>4. CASE TxBegin
  <2>1. tx' = [NoTx EXCEPT !.phase = "open"] /\ rows' = rows
    BY <1>4 DEF TxBegin
  <2>2. DOMAIN <<>> = {}
    OBVIOUS
  <2>3. tx' = [phase |-> "open", view |-> <<>>, first |-> <<>>, outside |-> FALSE]
    BY <2>1 DEF NoTx
  <2>4. tx'.view = <<>> /\ tx'.first = <<>> /\ TxRecord'
    BY <2>2, <2>3 DEF TxRecord
  <2>5. QED
    BY <2>1, <2>2, <2>4 DEF RowsLocked
<1>5. CASE Panic
  <2>1. tx' = [phase |-> "leaked", view |-> v, first |-> f, outside |-> o] /\ rows' = rows
    BY <1>1, <1>5 DEF Panic
  <2>2. QED
    BY <1>1, <2>1 DEF TxRecord, RowsLocked
<1>6. ASSUME NEW c \in Chains, TxSelect(c) PROVE TxInv'
  BY <1>6 DEF TxSelect, TxRecord, RowsLocked
<1>7. ASSUME NEW is, NEW g, ~Blocked(is), tx' = [tx EXCEPT !.first = g, !.outside = TRUE],
             DOMAIN rows' = Ids, \A i \in Ids \ is : rows'[i] = rows[i]
      PROVE  TxInv'
  <2>1. tx' = [phase |-> p, view |-> v, first |-> g, outside |-> TRUE]
    BY <1>1, <1>7
  <2>2. LockedKept
    BY <1>7, UnblockedKeeps
  <2>3. QED
    BY <1>1, <2>1, <2>2 DEF TxRecord, RowsLocked, LockedKept
<1>8. ASSUME NEW c \in Chains, TxIncrement(c) \/ TxOrmDelete(c) PROVE TxInv'
  <2>1. CASE TxIncrement(c)
    BY <1>7, <2>1 DEF TxIncrement
  <2>2. CASE TxOrmDelete(c)
    BY <1>7, <2>2 DEF TxOrmDelete
  <2>3. QED
    BY <1>8, <2>1, <2>2
<1>9. ASSUME NEW c \in Chains, NEW n \in Names, TxOrmUpdate(c, n) PROVE TxInv'
  BY <1>7, <1>9 DEF TxOrmUpdate
<1>10. ASSUME NEW c \in Chains, NEW n \in Names, TxUpdate(c, n) PROVE TxInv'
  <2>1. PICK is : /\ is \subseteq Ids /\ \A i \in is : Seen[i] # NoRow
                  /\ rows' = rows
                  /\ tx' = [tx EXCEPT !.view = [i \in DOMAIN @ \cup is |->
                                                  IF i \in is THEN [Seen[i] EXCEPT !.name = n] ELSE @[i]],
                                      !.first = Remember(is)]
    <3>1. PICK s : s = Statement(Add(NewQuery, c), <<n>>, <<>>)
      OBVIOUS
    <3>2. Touched(s, Seen) \subseteq Ids /\ \A i \in Touched(s, Seen) : Seen[i] # NoRow
      BY DEF Touched, Hits, Live
    <3>3. QED
      BY <1>10, <3>1, <3>2 DEF TxUpdate
  <2>2. PICK w : w = [i \in DOMAIN v \cup is |-> IF i \in is THEN [Seen[i] EXCEPT !.name = n] ELSE v[i]]
    OBVIOUS
  <2>3. PICK g : g = [i \in is \cup DOMAIN f |-> IF i \in DOMAIN f THEN f[i] ELSE rows[i]]
    OBVIOUS
  <2>4. g = Remember(is)
    BY <1>1, <2>3 DEF Remember
  <2>5. tx' = [phase |-> p, view |-> w, first |-> g, outside |-> o]
    BY <1>1, <2>1, <2>2, <2>4
  <2>6. DOMAIN w = DOMAIN v \cup is /\ DOMAIN g = DOMAIN f \cup is
    BY <2>2, <2>3
  <2>7. TxRecord'
    BY <1>1, <2>1, <2>5, <2>6 DEF TxRecord
  <2>8. \A i \in DOMAIN w : rows[i] # NoRow
    BY <1>1, <2>1, <2>6 DEF Seen, RowsLocked
  <2>9. ~o => DOMAIN g \subseteq DOMAIN w /\ \A i \in DOMAIN g : rows[i] = g[i]
    BY <1>1, <2>3, <2>6 DEF RowsLocked
  <2>10. tx'.view = w /\ tx'.first = g /\ tx'.outside = o
    BY <2>5
  <2>11. RowsLocked'
    BY <2>1, <2>8, <2>9, <2>10 DEF RowsLocked
  <2>12. QED
    BY <2>7, <2>11, SMTT(60)
<1>11. QED
  BY <1>3, <1>4, <1>5, <1>6, <1>8, <1>9, <1>10 DEF TxNext

(* db.go:335-350: whatever other callers do meanwhile, a transaction whose *)
(* closure returned an error leaves every row it wrote as it found it, if   *)
(* no statement of the closure went beside it.                             *)
THEOREM RollbackIsClean == MCSpec => RollbackUndoes
<1>1. MCInit => TxInv
  <2> SUFFICES ASSUME MCInit PROVE TxInv
    OBVIOUS
  <2>1. tx = NoTx /\ DOMAIN rows = Ids
    BY DEF MCInit, Init
  <2>2. DOMAIN <<>> = {}
    OBVIOUS
  <2>3. QED
    BY <2>1, <2>2 DEF TxInv, TxRecord, RowsLocked, NoTx
<1>2. TxInv /\ [MCNext]_mcVars => TxInv'
  <2> SUFFICES ASSUME TxInv, [MCNext]_mcVars PROVE TxInv'
    OBVIOUS
  <2>1. CASE UNCHANGED vars
    BY <2>1 DEF vars, TxInv, TxRecord, RowsLocked
  <2>2. CASE Next
    <3>1. ASSUME NEW m \in Models, ChunkPage(m) \/ ReadNext(m) \/ WriteNext(m) PROVE TxInv'
      BY <3>1, ModelKeeps, OutsideKeeps
    <3>2. ASSUME NEW is \in {{1}, {1, 2}}, Destroy(is) PROVE TxInv'
      BY <3>2, WriteKeeps, OutsideKeeps DEF Destroy
    <3>3. QED
      BY <2>2, <3>1, <3>2, ClosureKeeps DEF Next
  <2>3. QED
    BY <2>1, <2>2 DEF MCNext, mcVars, OnRecords, OnMigrations, OnStore, OnSharded, OnRedis
<1>3. TxInv => [Rollback /\ ~tx.outside => \A i \in DOMAIN tx.first : rows'[i] = tx.first[i]]_vars
  BY DEF TxInv, RowsLocked, Rollback
<1>4. QED
  BY <1>1, <1>2, <1>3, PTL DEF MCSpec, RollbackUndoes

-----------------------------------------------------------------------------
(* While nothing has gone wrong one call runs at most, and what it is       *)
(* doing says how far the schema is from the records.                       *)
MigFits(r) ==
    /\ phase[r] \in {"up", "record", "erase"} => ~build[r].reset
    /\ phase[r] = "up" \/ (phase[r] = "down" /\ ~build[r].reset) => present = applied
    /\ phase[r] = "record" => present = applied \cup {Head(todo[r])}
    /\ phase[r] = "erase" => present = applied \ {Head(todo[r])}
    /\ phase[r] = "down" /\ build[r].reset => todo[r] \in Seq(applied) /\ present \subseteq Mig!Range(todo[r])
MigAlone(r) == \A s \in Runners \ {r} : ~Mig!Active(s)
MigShaped ==
    /\ IsFiniteSet(applied)
    /\ phase \in [Runners -> Mig!Phases]
    /\ DOMAIN todo = Runners /\ DOMAIN build = Runners
MigOrderly ==
    clean => /\ Mig!AtRest => applied = present
             /\ \A r \in Runners : Mig!Active(r) => MigFits(r) /\ MigAlone(r)

(* A queue holds its head and what its tail holds. *)
LEMMA RangeOfTail ==
    ASSUME NEW S, NEW q \in Seq(S), q # <<>>
    PROVE  /\ Tail(q) \in Seq(S) /\ Head(q) \in S
           /\ Range(q) = {Head(q)} \cup Range(Tail(q))
           /\ (\A i, k \in DOMAIN q : q[i] = q[k] => i = k)
                => /\ Head(q) \notin Range(Tail(q))
                   /\ \A i, k \in DOMAIN Tail(q) : Tail(q)[i] = Tail(q)[k] => i = k
<1>1. PICK n \in Nat : n = Len(q) /\ n > 0
  OBVIOUS
<1>2. PICK t : t = Tail(q)
  OBVIOUS
<1>3. /\ t \in Seq(S) /\ DOMAIN q = 1..n /\ DOMAIN t = 1..(n - 1) /\ Head(q) = q[1]
      /\ \A i \in 1..(n - 1) : t[i] = q[i + 1] /\ i + 1 \in 1..n
      /\ \A i \in 1..n : q[i] \in S
  BY <1>1, <1>2
<1>4. \A i \in 2..n : i - 1 \in 1..(n - 1) /\ q[i] = t[i - 1]
  BY <1>1, <1>3
<1>5. Range(q) = {Head(q)} \cup Range(t)
  <2>1. ASSUME NEW x \in Range(q) PROVE x = Head(q) \/ x \in Range(t)
    <3>1. PICK i \in 1..n : x = q[i]
      BY <1>3 DEF Range
    <3>2. CASE i = 1
      BY <1>3, <3>1, <3>2
    <3>3. CASE i # 1
      <4>1. i \in 2..n
        BY <1>1, <3>3
      <4>2. i - 1 \in DOMAIN t /\ x = t[i - 1]
        BY <1>3, <1>4, <3>1, <4>1
      <4>3. QED
        BY <4>2 DEF Range
    <3>4. QED
      BY <3>2, <3>3
  <2>2. ASSUME NEW x \in Range(t) PROVE x \in Range(q)
    <3>1. PICK i \in 1..(n - 1) : x = t[i]
      BY <1>3 DEF Range
    <3>2. x = q[i + 1] /\ i + 1 \in DOMAIN q
      BY <1>3, <3>1
    <3>3. QED
      BY <3>2 DEF Range
  <2>3. Head(q) \in Range(q)
    BY <1>1, <1>3 DEF Range
  <2>4. QED
    BY <2>1, <2>2, <2>3
<1>6. ASSUME \A i, k \in DOMAIN q : q[i] = q[k] => i = k
      PROVE  /\ Head(q) \notin Range(t)
             /\ \A i, k \in DOMAIN t : t[i] = t[k] => i = k
  <2>1. \A i \in 1..(n - 1) : t[i] # q[1]
    BY <1>1, <1>3, <1>6
  <2>2. ASSUME NEW i \in 1..(n - 1), NEW k \in 1..(n - 1), t[i] = t[k] PROVE i = k
    <3>1. q[i + 1] = q[k + 1] /\ i + 1 \in DOMAIN q /\ k + 1 \in DOMAIN q
      BY <1>3, <2>2
    <3>2. i + 1 = k + 1
      BY <1>6, <3>1
    <3>3. QED
      BY <3>2
  <2>3. QED
    BY <1>3, <2>1, <2>2 DEF Range
<1>7. QED
  BY <1>2, <1>3, <1>5, <1>6

(* The migrator counts and gathers as Cardinality and Range do. *)
LEMMA MigCount == /\ \A S : Mig!Cardinality(S) = Cardinality(S)
                  /\ \A f : Mig!Range(f) = Range(f)
  BY DEF Mig!Cardinality, Cardinality, Mig!Range, Range

(* migration.go:203-320: the records and the schema agree between calls     *)
(* that do not overlap and do not fail, however many there were and for     *)
(* any versions.                                                            *)
THEOREM RecordsMatch == Mig!Spec => []Mig!RecordsMatchSchema
<1>1. Mig!Init => MigShaped /\ MigOrderly
  BY FS_EmptySet DEF Mig!Init, MigShaped, Mig!Phases, MigOrderly, Mig!Active
<1>2. MigShaped /\ MigOrderly /\ [Mig!Next]_(Mig!vars) => MigShaped' /\ MigOrderly'
  <2> SUFFICES ASSUME MigShaped, MigOrderly, [Mig!Next]_(Mig!vars) PROVE MigShaped' /\ MigOrderly'
    OBVIOUS
  <2> USE DEF MigShaped, Mig!Phases, Mig!GoOn, Mig!Begin, Mig!Stop
  (* What a step of r has to leave, and what it may count on. *)
  <2>1. ASSUME NEW r \in Runners, clean' => clean /\ MigAlone(r) /\ MigAlone(r)',
               clean' => IF Mig!Active(r)' THEN MigFits(r)' ELSE applied' = present'
        PROVE  MigOrderly'
    BY <2>1 DEF MigOrderly, Mig!Active, Mig!AtRest, MigAlone
  <2>2. ASSUME NEW r \in Runners, Mig!Start(r)
        PROVE  clean' => clean /\ MigAlone(r) /\ applied = present
    BY <2>2 DEF MigOrderly, Mig!Start, Mig!Active, Mig!AtRest, MigAlone
  <2>3. ASSUME NEW r \in Runners, Mig!Active(r), clean
        PROVE  MigFits(r) /\ MigAlone(r)
    BY <2>3 DEF MigOrderly
  <2>4. ASSUME NEW r \in Runners, NEW p \in Mig!Phases, phase' = [phase EXCEPT ![r] = p], MigAlone(r)
        PROVE  MigAlone(r)'
    BY <2>4 DEF MigAlone, Mig!Active
  <2>5. ASSUME NEW r \in Runners, NEW l, NEW f \in BOOLEAN, Mig!Migrate(r, l, f)
        PROVE  MigShaped' /\ MigOrderly'
    <3>1. MigShaped' /\ phase'[r] = "up" /\ ~build'[r].reset /\ (MigAlone(r) => MigAlone(r)')
      BY <2>4, <2>5 DEF Mig!Migrate
    <3>2. QED
      BY <2>1, <2>2, <2>5, <3>1 DEF Mig!Migrate, MigFits
  <2>6. ASSUME NEW r \in Runners, NEW l, NEW f \in BOOLEAN, Mig!Reset(r, l, f)
        PROVE  MigShaped' /\ MigOrderly'
    <3>1. PICK newest \in Mig!Backwards(applied) :
              Mig!Begin(r, "down", newest, [list |-> l, loaded |-> f, reset |-> TRUE])
      BY <2>6 DEF Mig!Reset
    <3>2. newest \in Seq(applied) /\ Mig!Range(newest) = applied
      BY MigCount, FS_CardinalityType DEF Mig!Backwards, Mig!Orders
    <3>3. /\ MigShaped' /\ phase'[r] = "down" /\ build'[r].reset /\ todo'[r] = newest
          /\ MigAlone(r) => MigAlone(r)'
      BY <2>4, <2>6, <3>1 DEF Mig!Reset
    <3>4. QED
      BY <2>1, <2>2, <2>6, <3>2, <3>3 DEF Mig!Reset, MigFits
  <2>7. ASSUME NEW r \in Runners, NEW l, NEW f \in BOOLEAN, NEW k, Mig!Rollback(r, l, f, k)
        PROVE  MigShaped' /\ MigOrderly'
    <3>1. PICK newest \in Mig!Backwards(applied) :
              Mig!Begin(r, "down", Mig!Prefix(newest, k), [list |-> l, loaded |-> f, reset |-> FALSE])
      BY <2>7 DEF Mig!Rollback
    <3>2. MigShaped' /\ phase'[r] = "down" /\ ~build'[r].reset /\ (MigAlone(r) => MigAlone(r)')
      BY <2>4, <2>7, <3>1 DEF Mig!Rollback
    <3>3. QED
      BY <2>1, <2>2, <2>7, <3>2 DEF Mig!Rollback, MigFits
  <2>8. ASSUME NEW r \in Runners, Mig!Up(r)
        PROVE  MigShaped' /\ MigOrderly'
    <3>1. /\ MigShaped' /\ Mig!Active(r) /\ phase'[r] = "record" /\ todo'[r] = todo[r]
          /\ MigAlone(r) => MigAlone(r)'
      BY <2>4, <2>8 DEF Mig!Up, Mig!Active
    <3>2. QED
      BY <2>1, <2>3, <2>8, <3>1 DEF Mig!Up, MigFits, Mig!Active
  <2>9. ASSUME NEW r \in Runners, Mig!UpPanics(r) \/ Mig!StepFails(r) \/ Mig!Crash(r) \/ Mig!ResetGoesOn(r)
        PROVE  MigShaped' /\ MigOrderly'
    <3>1. MigShaped' /\ clean' = FALSE
      BY <2>9 DEF Mig!UpPanics, Mig!StepFails, Mig!Crash, Mig!ResetGoesOn, Mig!Trouble
    <3>2. QED
      BY <3>1 DEF MigOrderly
  <2>10. ASSUME NEW r \in Runners, Mig!Record(r)
        PROVE  MigShaped' /\ MigOrderly'
    <3> DEFINE v == Head(todo[r])
    <3>1. /\ MigShaped' /\ Mig!Active(r) /\ applied' = applied \cup {v}
          /\ phase'[r] = IF v \in applied THEN "failed" ELSE "up"
          /\ MigAlone(r) => MigAlone(r)'
      BY <2>4, <2>10, FS_AddElement DEF Mig!Record, Mig!Active
    <3>2. v \in applied => applied' = applied
      BY <3>1
    <3>3. QED
      BY <2>1, <2>3, <2>10, <3>1, <3>2 DEF Mig!Record, MigFits, Mig!Active
  <2>11. ASSUME NEW r \in Runners, Mig!Down(r)
        PROVE  MigShaped' /\ MigOrderly'
    <3>1. /\ MigShaped' /\ Mig!Active(r) /\ (MigAlone(r) => MigAlone(r)')
          /\ phase'[r] = IF build[r].reset THEN "down" ELSE "erase"
          /\ todo'[r] = IF build[r].reset THEN Tail(todo[r]) ELSE todo[r]
      BY <2>4, <2>11 DEF Mig!Down, Mig!Active
    <3>2. ASSUME build[r].reset, clean'
          PROVE  todo'[r] \in Seq(applied) /\ present' \subseteq Mig!Range(todo'[r])
      <4>1. todo[r] \in Seq(applied) /\ todo[r] # <<>> /\ present \subseteq Mig!Range(todo[r])
        BY <2>3, <2>11, <3>1, <3>2 DEF Mig!Down, MigFits
      <4>2. Mig!Range(todo[r]) = {Head(todo[r])} \cup Mig!Range(Tail(todo[r])) /\ Tail(todo[r]) \in Seq(applied)
        BY <4>1, MigCount, RangeOfTail
      <4>3. present' = present \ {Head(todo[r])}
        BY <2>11, <3>2 DEF Mig!Down
      <4>4. QED
        BY <3>1, <3>2, <4>1, <4>2, <4>3
    <3>3. QED
      BY <2>1, <2>3, <2>11, <3>1, <3>2 DEF Mig!Down, MigFits, Mig!Active
  <2>12. ASSUME NEW r \in Runners, Mig!UnknownVersion(r)
        PROVE  MigShaped' /\ MigOrderly'
    <3>1. MigShaped' /\ Mig!Active(r) /\ phase'[r] = "failed" /\ (MigAlone(r) => MigAlone(r)')
      BY <2>4, <2>12 DEF Mig!UnknownVersion, Mig!Active
    <3>2. QED
      BY <2>1, <2>3, <2>12, <3>1 DEF Mig!UnknownVersion, MigFits, Mig!Active
  <2>13. ASSUME NEW r \in Runners, Mig!Erase(r)
        PROVE  MigShaped' /\ MigOrderly'
    <3>1. MigShaped' /\ Mig!Active(r) /\ phase'[r] = "down" /\ (MigAlone(r) => MigAlone(r)')
      BY <2>4, <2>13, FS_RemoveElement DEF Mig!Erase, Mig!Active
    <3>2. QED
      BY <2>1, <2>3, <2>13, <3>1 DEF Mig!Erase, MigFits
  <2>14. ASSUME NEW r \in Runners, Mig!Done(r)
        PROVE  MigShaped' /\ MigOrderly'
    <3>1. MigShaped' /\ Mig!Active(r) /\ phase'[r] = "idle" /\ (MigAlone(r) => MigAlone(r)')
      BY <2>4, <2>14, FS_EmptySet DEF Mig!Done, Mig!Active
    <3>2. Mig!Range(<<>>) = {}
      BY DEF Mig!Range
    <3>3. QED
      BY <2>1, <2>3, <2>14, <3>1, <3>2 DEF Mig!Done, MigFits, Mig!Active
  <2>15. CASE UNCHANGED Mig!vars
    BY <2>15 DEF Mig!vars, MigOrderly, Mig!AtRest, Mig!Active, MigFits, MigAlone
  <2>16. QED
    BY <2>5, <2>6, <2>7, <2>8, <2>9, <2>10, <2>11, <2>12, <2>13, <2>14, <2>15 DEF Mig!Next
<1>3. MigOrderly => Mig!RecordsMatchSchema
  BY DEF MigOrderly, Mig!RecordsMatchSchema
<1>4. QED
  BY <1>1, <1>2, <1>3, PTL DEF Mig!Spec

(* migration.go:203-320, beside everything else the database is used for:  *)
(* the records and the schema agree between calls that do not overlap and   *)
(* do not fail.                                                            *)
THEOREM SchemaIsRecorded == MCSpec => []RecordsMatchSchema
<1>1. MCSpec => Mig!Spec
  <2>1. MCInit => Mig!Init
    BY DEF MCInit
  <2>2. [MCNext]_mcVars => [Mig!Next]_(Mig!vars)
    BY DEF MCNext, mcVars, OnRecords, OnMigrations, OnStore, OnSharded, OnRedis, migVars, Mig!vars
  <2>3. QED
    BY <2>1, <2>2, PTL DEF MCSpec, Mig!Spec
<1>2. QED
  BY <1>1, RecordsMatch, PTL DEF RecordsMatchSchema

-----------------------------------------------------------------------------
(* The tuners. *)
Tuners == {"none", "auto", "optimizer_up", "optimizer_down"}
Tunings == [limit : Nat \ {0}, open : Nat, used : Nat, before : Nat, by : Tuners]
TuneInv == tune \in Tunings /\ DB!LimitStays

(* Whatever the pool's statistics, a tuner sets a limit, and a small one stays. *)
LEMMA TuneStep == ASSUME TuneInv, DB!TuneNext PROVE TuneInv'
<1> USE DEF TuneInv
<1>1. ASSUME NEW n \in Nat \ {0}, NEW who \in Tuners, DB!SetLimit(n, who),
             who = "auto" => n >= tune.limit \/ n >= 8
      PROVE  TuneInv'
  <2>1. PICK l \in Nat \ {0}, o \in Nat, u \in Nat, b \in Nat, y \in Tuners :
          tune = [limit |-> l, open |-> o, used |-> u, before |-> b, by |-> y]
    BY DEF Tunings
  <2>2. DB!Least(o, n) \in Nat /\ DB!Least(u, n) \in Nat
    BY DEF DB!Least
  <2>3. tune' = [limit |-> n, open |-> DB!Least(o, n), used |-> DB!Least(u, n), before |-> l, by |-> who]
    BY <1>1, <2>1 DEF DB!SetLimit
  <2>4. tune' \in Tunings
    BY <2>2, <2>3 DEF Tunings
  <2>5. tune'.limit = n /\ tune'.by = who /\ tune'.before = tune.limit
    BY <2>1, <2>3
  <2>6. DB!LimitStays'
    BY <1>1, <2>1, <2>5 DEF DB!LimitStays
  <2>7. QED
    BY <2>4, <2>6
<1> Tuners = {"none", "auto", "optimizer_up", "optimizer_down"}
  BY DEF Tuners
<1> HIDE DEF TuneInv
<1>2. tune.limit \in Nat \ {0} /\ tune.open \in Nat /\ tune.used \in Nat
  BY DEF TuneInv, Tunings
<1>3. CASE DB!AutoTune
  <2>1. CASE DB!SetLimit(DB!Up(tune.limit), "auto")
    <3>1. DB!Up(tune.limit) \in Nat \ {0} /\ DB!Up(tune.limit) >= tune.limit
      BY <1>2 DEF DB!Up
    <3>2. QED
      BY <1>1, <2>1, <3>1
  <2>2. CASE tune.limit > 10 /\ DB!SetLimit(DB!Down(tune.limit), "auto")
    <3>1. DB!Down(tune.limit) \in Nat \ {0} /\ DB!Down(tune.limit) >= 8
      BY <1>2, <2>2 DEF DB!Down
    <3>2. QED
      BY <1>1, <2>2, <3>1
  <2>3. QED
    BY <1>3, <2>1, <2>2 DEF DB!AutoTune
<1>4. CASE DB!Optimize
  <2>1. tune.open > 0
    BY <1>4 DEF DB!Optimize
  <2>2. CASE DB!SetLimit(DB!Least(DB!Up(tune.open), MaxConnections), "optimizer_up")
    <3>1. DB!Least(DB!Up(tune.open), MaxConnections) \in Nat \ {0}
      BY <1>2, <2>1, DataAssumption DEF DB!Up, DB!Least
    <3>2. QED
      BY <1>1, <2>2, <3>1
  <2>3. CASE DB!SetLimit(DB!Most(DB!Down(tune.open), MinConnections), "optimizer_down")
    <3>1. DB!Most(DB!Down(tune.open), MinConnections) \in Nat \ {0}
      BY <1>2, <2>1, DataAssumption DEF DB!Down, DB!Most
    <3>2. QED
      BY <1>1, <2>3, <3>1
  <2>4. QED
    BY <1>4, <2>2, <2>3 DEF DB!Optimize
<1>5. ASSUME NEW o \in 0..MaxConnections + 2, NEW u \in 0..MaxConnections + 2, DB!Work(o, u) PROVE TuneInv'
  <2>1. o \in Nat /\ u \in Nat
    BY <1>5, DataAssumption
  <2>2. PICK l \in Nat \ {0}, p \in Nat, q \in Nat, b \in Nat, y \in Tuners :
          tune = [limit |-> l, open |-> p, used |-> q, before |-> b, by |-> y]
    BY DEF TuneInv, Tunings
  <2>3. tune' = [limit |-> l, open |-> o, used |-> u, before |-> b, by |-> "none"]
    BY <1>5, <2>2 DEF DB!Work
  <2>4. tune' \in Tunings /\ tune'.limit = l /\ tune'.by = "none"
    BY <2>1, <2>3 DEF Tunings
  <2>5. QED
    BY <2>4 DEF TuneInv, DB!LimitStays
<1>6. QED
  BY <1>3, <1>4, <1>5 DEF DB!TuneNext

-----------------------------------------------------------------------------
(* The shards.  What is stored is where the router puts it. *)
Held == shard.at
ShardInv ==
    /\ shard = [type |-> shard.type, hash |-> shard.hash, at |-> shard.at,
                told |-> shard.told, asked |-> shard.asked, keys |-> shard.keys]
    /\ shard.type \in {"mod", "hash"} /\ shard.hash \in MCShardHashes
    /\ DOMAIN shard.at \subseteq MCShardKeys
    /\ DB!ShardsSound

(* The index of a key, and of an index. *)
LEMMA IndexTwice ==
    ASSUME ShardInv, NEW k \in MCShardKeys
    PROVE  /\ k >= 0 => DB!IndexOf(k) \in 0..TableShards - 1 /\ DB!Target(k) \in 0..TableShards - 1
           /\ shard.type = "mod" => DB!Target(k) = DB!IndexOf(k)
<1>1. TableShards \in Nat \ {0} /\ k \in Int /\ k >= -1
  BY DataAssumption DEF MCShardKeys
<1>2. CASE shard.type = "mod"
  <2>1. \A i \in Int : DB!IndexOf(i) = DB!GoMod(i, TableShards)
    BY <1>2 DEF DB!IndexOf, DB!ShardIndex
  <2>2. \A i \in 0..TableShards - 1 : DB!GoMod(i, TableShards) = i
    BY <1>1 DEF DB!GoMod
  <2>3. CASE k >= 0
    <3>1. DB!GoMod(k, TableShards) \in 0..TableShards - 1
      BY <1>1, <2>3 DEF DB!GoMod
    <3>2. QED
      BY <1>1, <2>1, <2>2, <3>1 DEF DB!Target
  <2>4. CASE k = -1
    <3>1. DB!GoMod(-1, TableShards) = IF TableShards = 1 THEN 0 ELSE -1
      BY <1>1 DEF DB!GoMod
    <3>2. DB!GoMod(0, TableShards) = 0
      BY <1>1 DEF DB!GoMod
    <3>3. QED
      BY <1>1, <2>1, <2>4, <3>1, <3>2 DEF DB!Target
  <2>5. QED
    BY <1>1, <2>3, <2>4
<1>3. CASE shard.type = "hash"
  <2>1. /\ shard.hash \in [MCHashed -> 0..TableShards - 1]
        /\ MCShardKeys \subseteq MCHashed /\ 0..TableShards - 1 \subseteq MCHashed
    BY DEF ShardInv, MCShardHashes, MCHashed
  <2>2. \A i : DB!IndexOf(i) = shard.hash[i]
    BY <1>3 DEF DB!IndexOf, DB!ShardIndex
  <2>3. QED
    BY <1>3, <2>1, <2>2 DEF DB!Target
<1>4. QED
  BY <1>2, <1>3 DEF ShardInv

(* An insert of one row or of many keeps what is stored findable. *)
LEMMA ShardStep == ASSUME ShardInv, DB!ShardNext PROVE ShardInv'
<1> DEFINE ks == MCShardKeys \ {0}
<1>1. PICK ty, h, f, to, as, ke : shard = [type |-> ty, hash |-> h, at |-> f, told |-> to, asked |-> as, keys |-> ke]
  BY DEF ShardInv
<1>2. ASSUME NEW S \in SUBSET ks, NEW g, NEW said, NEW asked, NEW handed,
             DOMAIN g = S \cup DOMAIN f, \A k \in DOMAIN g \ S : g[k] = f[k],
             \A k \in S : g[k] \in {DB!IndexOf(k), DB!Target(k)},
             said = "ok" => asked \subseteq S,
             shard' = [type |-> ty, hash |-> h, at |-> g, told |-> said, asked |-> asked, keys |-> handed]
      PROVE  ShardInv'
  <2>1. \A k : DB!IndexOf(k)' = DB!IndexOf(k)
    BY <1>1, <1>2 DEF DB!IndexOf
  <2>2. /\ shard'.type = ty /\ shard'.hash = h /\ shard'.at = g
        /\ shard'.told = said /\ shard'.asked = asked /\ shard'.keys = handed
    BY <1>2
  <2>3. DOMAIN g \subseteq MCShardKeys
    BY <1>1, <1>2 DEF ShardInv
  <2>4. said = "ok" => asked \subseteq DOMAIN g
    BY <1>2
  <2>5. ty = "mod" => \A k \in DOMAIN g : g[k] = DB!IndexOf(k)
    <3> SUFFICES ASSUME ty = "mod", NEW k \in DOMAIN g PROVE g[k] = DB!IndexOf(k)
      OBVIOUS
    <3>1. CASE k \in S
      BY <1>1, <1>2, <2>3, <3>1, IndexTwice
    <3>2. CASE k \notin S
      BY <1>1, <1>2, <3>2 DEF ShardInv, DB!ShardsSound, DB!RowsFindable
    <3>3. QED
      BY <3>1, <3>2
  <2>6. \A k \in DOMAIN g : k >= 0 => g[k] \in 0..TableShards - 1
    <3> SUFFICES ASSUME NEW k \in DOMAIN g, k >= 0 PROVE g[k] \in 0..TableShards - 1
      OBVIOUS
    <3>1. CASE k \in S
      BY <1>2, <2>3, <3>1, IndexTwice
    <3>2. CASE k \notin S
      BY <1>1, <1>2, <3>2 DEF ShardInv, DB!ShardsSound
    <3>3. QED
      BY <3>1, <3>2
  <2>7. DB!ShardsSound'
    BY <2>1, <2>2, <2>4, <2>5, <2>6 DEF DB!ShardsSound, DB!RowsFindable
  <2>8. QED
    BY <1>1, <1>2, <2>2, <2>3, <2>7 DEF ShardInv
<1>3. ASSUME NEW K \in SUBSET ks, NEW S \in SUBSET K, DB!BatchInsert(K, S) PROVE ShardInv'
  <2>1. PICK g : g = [k \in S \cup DOMAIN f |-> IF k \in S THEN DB!Target(k) ELSE f[k]]
    OBVIOUS
  <2>2. shard' = [type |-> ty, hash |-> h, at |-> g, told |-> IF S = K THEN "ok" ELSE "error",
                  asked |-> K, keys |-> ke \cup K]
    BY <1>1, <1>3, <2>1 DEF DB!BatchInsert
  <2>3. PICK said : said = IF S = K THEN "ok" ELSE "error"
    OBVIOUS
  <2>4. S \in SUBSET ks /\ (said = "ok" => K \subseteq S)
    BY <2>3
  <2>5. DOMAIN g = S \cup DOMAIN f /\ \A k \in S : g[k] \in {DB!IndexOf(k), DB!Target(k)}
    BY <2>1
  <2>6. \A k \in DOMAIN g \ S : g[k] = f[k]
    BY <2>1
  <2>7. QED
    BY <1>2, <2>2, <2>3, <2>4, <2>5, <2>6
<1>4. ASSUME NEW k \in ks, DB!InsertOne(k) PROVE ShardInv'
  <2>1. PICK g : g = [i \in {k} \cup DOMAIN f |-> IF i = k THEN DB!IndexOf(k) ELSE f[i]]
    OBVIOUS
  <2>2. shard' = [type |-> ty, hash |-> h, at |-> g, told |-> "none", asked |-> as, keys |-> ke \cup {k}]
    BY <1>1, <1>4, <2>1 DEF DB!InsertOne
  <2>3. {k} \in SUBSET ks /\ ("none" = "ok" => as \subseteq {k})
    OBVIOUS
  <2>4. DOMAIN g = {k} \cup DOMAIN f /\ \A i \in {k} : g[i] \in {DB!IndexOf(i), DB!Target(i)}
    BY <2>1
  <2>5. \A i \in DOMAIN g \ {k} : g[i] = f[i]
    BY <2>1
  <2>6. QED
    BY <1>2, <2>2, <2>3, <2>4, <2>5
<1>5. QED
  BY <1>3, <1>4 DEF DB!ShardNext

-----------------------------------------------------------------------------
(* The batched queries.  Who waits to be asked has no companions yet; who   *)
(* was asked has those of its text in its batch, once and for all; and      *)
(* everyone whose rows are open is reading them or has given up.            *)
Asked == {"reading", "read", "cut", "error"}
BqStates == {"none", "waiting", "gone"} \cup Asked
Pending(q, b, texts) == Range(q) \cup {r \in Range(b) : texts = {} \/ MCText[r] \in texts}
InLine(q, b, texts, state, mates) ==
    /\ \A i, k \in DOMAIN q : q[i] = q[k] => i = k
    /\ Range(q) \cap Range(b) = {}
    /\ \A r \in Range(q) \cup Range(b) : state[r] # "none"
    /\ \A r \in Pending(q, b, texts) : state[r] \in {"waiting", "gone"} /\ mates[r] = {}
    /\ \A t \in texts : \E r \in Range(b) : MCText[r] = t
    /\ \A r \in Requests : state[r] = "none" => mates[r] = {}
Together(state, mates, held) ==
    /\ \A r \in Requests : state[r] \in Asked => r \in mates[r]
    /\ \A r, s \in Requests : r \in mates[s] => mates[r] = mates[s] /\ MCText[r] = MCText[s]
    /\ \A t \in Texts : \A r \in held[t] : MCText[r] = t /\ state[r] \in {"reading", "gone"}
Own(state, mates) ==
    /\ \A r \in Requests : mates[r] = {r} => state[r] \notin {"cut", "error"}
    /\ \A r \in Requests : state[r] \in {"reading", "read"} => ~MCHasArgs[MCText[r]] \/ mates[r] = {r}
BqTypes(q, b, texts, state, mates, held) ==
    /\ q \in Seq(Requests) /\ b \in Seq(Requests) /\ texts \subseteq Texts
    /\ state \in [Requests -> BqStates] /\ mates \in [Requests -> SUBSET Requests]
    /\ held \in [Texts -> SUBSET Requests]
BqOK(q, b, texts, state, mates, held) ==
    /\ BqTypes(q, b, texts, state, mates, held)
    /\ InLine(q, b, texts, state, mates) /\ Together(state, mates, held) /\ Own(state, mates)
BatchInv ==
    /\ bq = [queue |-> bq.queue, batch |-> bq.batch, todo |-> bq.todo,
             state |-> bq.state, mates |-> bq.mates, held |-> bq.held]
    /\ BqOK(bq.queue, bq.batch, bq.todo, bq.state, bq.mates, bq.held)

(* Range and Cardinality of Database are those of its library modules. *)
LEMMA SameCounts ==
    /\ \A f : DB!Range(f) = Range(f)
    /\ \A S : DB!Cardinality(S) = Cardinality(S)
  BY DEF DB!Range, Range, DB!Cardinality, Cardinality

(* What the batcher answers is what BatchInv says of it. *)
LEMMA BatchAnswers == ASSUME BatchInv PROVE DB!AnswersOwn
  BY DEF BatchInv, BqOK, Own, Together, DB!AnswersOwn

(* A request that is not in line joins its end. *)
LEMMA RangeOfAppend ==
    ASSUME NEW S, NEW q \in Seq(S), NEW x \in S
    PROVE  /\ Append(q, x) \in Seq(S)
           /\ Range(Append(q, x)) = Range(q) \cup {x}
           /\ x \notin Range(q) /\ (\A i, k \in DOMAIN q : q[i] = q[k] => i = k)
                => \A i, k \in DOMAIN Append(q, x) : Append(q, x)[i] = Append(q, x)[k] => i = k
<1>1. PICK a : a = Append(q, x)
  OBVIOUS
<1>2. PICK n \in Nat : n = Len(q)
  OBVIOUS
<1>3. /\ a \in Seq(S) /\ DOMAIN q = 1..n /\ DOMAIN a = 1..(n + 1)
      /\ \A i \in 1..n : a[i] = q[i] /\ i \in 1..(n + 1)
      /\ a[n + 1] = x /\ n + 1 \in 1..(n + 1)
  BY <1>1, <1>2
<1>4. \A i \in 1..(n + 1) : i \in 1..n \/ i = n + 1
  BY <1>2
<1>5. Range(a) = Range(q) \cup {x}
  <2>1. ASSUME NEW y \in Range(a) PROVE y \in Range(q) \cup {x}
    BY <1>3, <1>4 DEF Range
  <2>2. ASSUME NEW y \in Range(q) PROVE y \in Range(a)
    BY <1>3 DEF Range
  <2>3. x \in Range(a)
    BY <1>3 DEF Range
  <2>4. QED
    BY <2>1, <2>2, <2>3
<1>6. ASSUME x \notin Range(q), \A i, k \in DOMAIN q : q[i] = q[k] => i = k,
             NEW i \in DOMAIN a, NEW k \in DOMAIN a, a[i] = a[k]
      PROVE  i = k
  <2>1. \A j \in 1..n : q[j] # x
    BY <1>3, <1>6 DEF Range
  <2>2. QED
    BY <1>3, <1>4, <1>6, <2>1
<1>7. QED
  BY <1>1, <1>3, <1>5, <1>6

(* Every step of the batcher, its callers and their readers. *)
LEMMA BatchStep == ASSUME BatchInv, DB!BatchNext PROVE BatchInv'
<1>1. PICK q, b, td, st, mt, hd :
        /\ bq = [queue |-> q, batch |-> b, todo |-> td, state |-> st, mates |-> mt, held |-> hd]
        /\ BqOK(q, b, td, st, mt, hd)
  BY DEF BatchInv
<1>2. ASSUME NEW q2, NEW b2, NEW td2, NEW st2, NEW mt2, NEW hd2, BqOK(q2, b2, td2, st2, mt2, hd2),
             bq' = [queue |-> q2, batch |-> b2, todo |-> td2, state |-> st2, mates |-> mt2, held |-> hd2]
      PROVE  BatchInv'
  BY <1>2 DEF BatchInv
<1> USE DEF BqOK
<1>3. MCText \in [Requests -> Texts]
  BY DataAssumption DEF MCText
<1>4. /\ bq.queue = q /\ bq.batch = b /\ bq.todo = td /\ bq.state = st /\ bq.mates = mt /\ bq.held = hd
  BY <1>1
<1>5. bq = [queue |-> q, batch |-> b, todo |-> td, state |-> st, mates |-> mt, held |-> hd]
  BY <1>1
<1>6. ASSUME NEW r \in Requests, DB!Send(r) PROVE BatchInv'
  <2>1. PICK q2 : q2 = Append(q, r)
    OBVIOUS
  <2>2. PICK st2 : st2 = [st EXCEPT ![r] = "waiting"]
    OBVIOUS
  <2>3. st[r] = "none" /\ bq' = [queue |-> q2, batch |-> b, todo |-> td, state |-> st2, mates |-> mt, held |-> hd]
    BY <1>1, <1>4, <1>6, <2>1, <2>2 DEF DB!Send
  <2>4. q \in Seq(Requests) /\ r \notin Range(q) /\ r \notin Range(b)
    BY <1>1, <2>3 DEF BqTypes, InLine
  <2>5. /\ q2 \in Seq(Requests) /\ Range(q2) = Range(q) \cup {r}
        /\ \A i, k \in DOMAIN q2 : q2[i] = q2[k] => i = k
    BY <1>1, <2>1, <2>4, RangeOfAppend DEF InLine
  <2>6. st2 \in [Requests -> BqStates] /\ st2[r] = "waiting" /\ \A s \in Requests \ {r} : st2[s] = st[s]
    BY <1>1, <2>2 DEF BqTypes, BqStates
  <2>7. Range(b) \subseteq Requests /\ Range(q) \subseteq Requests
    BY <1>1 DEF BqTypes, Range
  <2>8. InLine(q2, b, td, st2, mt)
    <3>1. Range(q2) \cap Range(b) = {}
      BY <1>1, <2>4, <2>5 DEF InLine
    <3>2. \A s \in Range(q2) \cup Range(b) : st2[s] # "none"
      BY <1>1, <2>5, <2>6, <2>7 DEF InLine
    <3>3. Pending(q2, b, td) = Pending(q, b, td) \cup {r} /\ Pending(q, b, td) \subseteq Requests
      BY <2>5, <2>7 DEF Pending
    <3>4. \A s \in Pending(q2, b, td) : st2[s] \in {"waiting", "gone"} /\ mt[s] = {}
      BY <1>1, <2>3, <2>6, <3>3 DEF InLine
    <3>5. \A s \in Requests : st2[s] = "none" => mt[s] = {}
      BY <1>1, <2>3, <2>6 DEF InLine
    <3>6. \A t \in td : \E s \in Range(b) : MCText[s] = t
      BY <1>1 DEF InLine
    <3>7. QED
      BY <2>5, <3>1, <3>2, <3>4, <3>5, <3>6 DEF InLine
  <2>9. Together(st2, mt, hd)
    BY <1>1, <2>3, <2>6, ZenonT(60) DEF Together, Asked, BqTypes
  <2>10. Own(st2, mt)
    BY <1>1, <2>6 DEF Own
  <2>11. BqTypes(q2, b, td, st2, mt, hd)
    BY <1>1, <2>5, <2>6 DEF BqTypes
  <2>12. QED
    BY <1>2, <2>3, <2>8, <2>9, <2>10, <2>11
<1>7. ASSUME NEW r \in Requests, DB!GiveUp(r) PROVE BatchInv'
  <2>1. PICK st2 : st2 = [st EXCEPT ![r] = "gone"]
    OBVIOUS
  <2>2. st[r] = "waiting" /\ bq' = [queue |-> q, batch |-> b, todo |-> td, state |-> st2, mates |-> mt, held |-> hd]
    BY <1>1, <1>4, <1>7, <2>1 DEF DB!GiveUp
  <2>3. st2 \in [Requests -> BqStates] /\ st2[r] = "gone" /\ \A s \in Requests \ {r} : st2[s] = st[s]
    BY <1>1, <2>1 DEF BqTypes, BqStates
  <2>4. Range(b) \subseteq Requests /\ Range(q) \subseteq Requests
    BY <1>1 DEF BqTypes, Range
  <2>5. InLine(q, b, td, st2, mt)
    BY <1>1, <2>2, <2>3, <2>4 DEF InLine, Pending
  <2>6. Together(st2, mt, hd)
    BY <1>1, <2>2, <2>3 DEF Together, Asked, BqTypes
  <2>7. Own(st2, mt)
    BY <1>1, <2>3 DEF Own
  <2>8. BqTypes(q, b, td, st2, mt, hd)
    BY <1>1, <2>3 DEF BqTypes
  <2>9. QED
    BY <1>2, <2>2, <2>5, <2>6, <2>7, <2>8
<1>8. ASSUME td = {}, NEW q2, NEW b2, NEW td2, q2 \in Seq(Requests), b2 \in Seq(Requests),
             Range(q2) \cup Range(b2) = Range(q) \cup Range(b), Range(q2) \cap Range(b2) = {},
             \A i, k \in DOMAIN q2 : q2[i] = q2[k] => i = k,
             td2 \in {{}, {MCText[r] : r \in Range(b2)}},
             bq' = [queue |-> q2, batch |-> b2, todo |-> td2, state |-> st, mates |-> mt, held |-> hd]
      PROVE  BatchInv'
  <2>1. Range(b2) \subseteq Requests
    BY <1>8 DEF Range
  <2>2. BqTypes(q2, b2, td2, st, mt, hd)
    BY <1>1, <1>3, <1>8, <2>1 DEF BqTypes
  <2>3. InLine(q2, b2, td2, st, mt)
    BY <1>1, <1>8 DEF InLine, Pending
  <2>4. QED
    BY <1>1, <1>2, <1>8, <2>2, <2>3
<1>9. CASE DB!Collect
  <2>1. PICK b2 : b2 = Append(b, Head(q))
    OBVIOUS
  <2>2. PICK q2 : q2 = Tail(q)
    OBVIOUS
  <2>3. td = {} /\ q # <<>>
    BY <1>4, <1>9 DEF DB!Collect
  <2>4. PICK all : all = {MCText[r] : r \in Range(b2)}
    OBVIOUS
  <2>5. PICK td2 \in {{}, all} :
          bq' = [queue |-> q2, batch |-> b2, todo |-> td2, state |-> st, mates |-> mt, held |-> hd]
    <3>1. CASE Len(b2) >= BatchSize
      <4>1. bq' = [DB!Begin(b2) EXCEPT !.queue = Tail(@)]
        BY <1>4, <1>9, <2>1, <3>1 DEF DB!Collect
      <4>2. DB!Begin(b2) = [bq EXCEPT !.batch = b2, !.todo = all]
        BY <2>4, SameCounts DEF DB!Begin
      <4>3. DB!Begin(b2) = [queue |-> q, batch |-> b2, todo |-> all, state |-> st, mates |-> mt, held |-> hd]
        BY <1>1, <4>2
      <4>4. PICK w : w = DB!Begin(b2)
        OBVIOUS
      <4>5. bq' = [w EXCEPT !.queue = Tail(@)] /\ w.queue = q
        BY <4>1, <4>3, <4>4
      <4>6. bq' = [w EXCEPT !.queue = q2]
        BY <2>2, <4>5
      <4>7. bq' = [queue |-> q2, batch |-> b2, todo |-> all, state |-> st, mates |-> mt, held |-> hd]
        BY <4>3, <4>4, <4>6
      <4>8. QED
        BY <4>7
    <3>2. CASE ~(Len(b2) >= BatchSize)
      <4>1. bq' = [[bq EXCEPT !.batch = b2] EXCEPT !.queue = Tail(@)]
        BY <1>4, <1>9, <2>1, <3>2 DEF DB!Collect
      <4>2. [bq EXCEPT !.batch = b2] = [queue |-> q, batch |-> b2, todo |-> td, state |-> st, mates |-> mt, held |-> hd]
        BY <1>5
      <4>3. bq' = [queue |-> q2, batch |-> b2, todo |-> td, state |-> st, mates |-> mt, held |-> hd]
        BY <2>2, <4>1, <4>2
      <4>4. QED
        BY <2>3, <4>3
    <3>3. QED
      BY <3>1, <3>2
  <2>6. q \in Seq(Requests) /\ b \in Seq(Requests) /\ \A i, k \in DOMAIN q : q[i] = q[k] => i = k
    BY <1>1 DEF BqTypes, InLine
  <2>7. /\ q2 \in Seq(Requests) /\ Head(q) \in Requests /\ Range(q) = {Head(q)} \cup Range(q2)
        /\ Head(q) \notin Range(q2) /\ \A i, k \in DOMAIN q2 : q2[i] = q2[k] => i = k
    BY <2>2, <2>3, <2>6, RangeOfTail
  <2>8. b2 \in Seq(Requests) /\ Range(b2) = Range(b) \cup {Head(q)}
    BY <2>1, <2>6, <2>7, RangeOfAppend
  <2>9. Range(q) \cap Range(b) = {}
    BY <1>1 DEF InLine
  <2>10. QED
    BY <1>8, <2>3, <2>4, <2>5, <2>7, <2>8, <2>9
<1>10. CASE DB!TickBatch
  <2>1. td = {} /\ bq' = [queue |-> q, batch |-> b, todo |-> {MCText[r] : r \in Range(b)},
                          state |-> st, mates |-> mt, held |-> hd]
    BY <1>1, <1>4, <1>10, SameCounts DEF DB!TickBatch, DB!Begin
  <2>2. QED
    BY <1>1, <1>8, <2>1 DEF BqTypes, InLine
<1>11. ASSUME NEW t \in Texts, DB!Execute(t) PROVE BatchInv'
  <2>1. PICK rs : rs = {r \in Range(b) : MCText[r] = t}
    OBVIOUS
  <2>2. PICK ok \in BOOLEAN : ok <=> Cardinality(rs) = 1 \/ ~MCHasArgs[t]
    OBVIOUS
  <2>3. DB!OfText(t) = rs /\ (DB!MergeFits(t) <=> ok)
    BY <1>4, <2>1, <2>2, SameCounts DEF DB!OfText, DB!MergeFits
  <2>4. PICK st2 : st2 = [r \in Requests |-> IF r \in rs /\ st[r] = "waiting"
                                             THEN IF ok THEN "reading" ELSE "error" ELSE st[r]]
    OBVIOUS
  <2>5. PICK mt2 : mt2 = [r \in Requests |-> IF r \in rs THEN rs ELSE mt[r]]
    OBVIOUS
  <2>6. PICK hd2 : hd2 = [hd EXCEPT ![t] = IF ok THEN @ \cup rs ELSE @]
    OBVIOUS
  <2>7. PICK b2 : b2 = IF td = {t} THEN <<>> ELSE b
    OBVIOUS
  <2>8. t \in td /\ bq' = [queue |-> q, batch |-> b2, todo |-> td \ {t}, state |-> st2, mates |-> mt2, held |-> hd2]
    BY <1>1, <1>4, <1>11, <2>3, <2>4, <2>5, <2>6, <2>7 DEF DB!Execute
  <2>9. rs \subseteq Requests /\ IsFiniteSet(rs) /\ rs # {} /\ rs \subseteq Range(b)
    <3>1. Range(b) \subseteq Requests
      BY <1>1 DEF BqTypes, Range
    <3>2. QED
      BY <1>1, <2>1, <2>8, <3>1, FS_Subset, DataAssumption DEF InLine
  <2>10. ok => ~MCHasArgs[t] \/ \A r \in rs : rs = {r}
    <3>1. Cardinality(rs) = 1 => \E x : rs = {x}
      BY <2>9, FS_Singleton
    <3>2. QED
      BY <2>2, <3>1
  <2>11. ~ok => \A r \in rs : rs # {r}
    BY <2>2, <2>9, FS_Singleton
  <2>12. \A r \in rs : r \in Pending(q, b, td) /\ r \notin Range(q) /\ st[r] \in {"waiting", "gone"} /\ mt[r] = {} /\ MCText[r] = t
    BY <1>1, <2>1, <2>8 DEF InLine, Pending
  <2>13. BqTypes(q, b2, td \ {t}, st2, mt2, hd2)
    <3>1. st2 \in [Requests -> BqStates]
      BY <1>1, <2>4 DEF BqTypes, BqStates, Asked
    <3>2. mt2 \in [Requests -> SUBSET Requests] /\ hd2 \in [Texts -> SUBSET Requests]
      BY <1>1, <2>5, <2>6, <2>9 DEF BqTypes
    <3>3. b2 \in Seq(Requests)
      BY <1>1, <2>7 DEF BqTypes
    <3>4. QED
      BY <1>1, <3>1, <3>2, <3>3 DEF BqTypes
  <2>14. InLine(q, b2, td \ {t}, st2, mt2)
    <3>1. /\ \A r \in Requests \ rs : st2[r] = st[r] /\ mt2[r] = mt[r]
          /\ \A r \in Requests : st2[r] = "none" <=> st[r] = "none"
      BY <1>1, <2>4, <2>5 DEF BqTypes
    <3>2. Range(b) \subseteq Requests /\ Range(q) \subseteq Requests
      BY <1>1 DEF BqTypes, Range
    <3>3. Range(<<>>) = {}
      BY DEF Range
    <3>4. \A x \in td \ {t} : b2 = b
      BY <2>7
    <3>5. Range(b2) \subseteq Range(b) /\ Pending(q, b2, td \ {t}) \subseteq Pending(q, b, td) \ rs
      <4>1. CASE td = {t}
        BY <2>7, <2>12, <3>3, <4>1 DEF Pending
      <4>2. CASE td # {t}
        BY <2>1, <2>7, <2>8, <2>12, <4>2 DEF Pending
      <4>3. QED
        BY <4>1, <4>2
    <3>6. Pending(q, b, td) \subseteq Requests
      BY <3>2 DEF Pending
    <3>7. \A r \in Pending(q, b2, td \ {t}) : st2[r] \in {"waiting", "gone"} /\ mt2[r] = {}
      BY <1>1, <3>1, <3>5, <3>6 DEF InLine
    <3>8. \A r \in Requests : st2[r] = "none" => mt2[r] = {}
      BY <1>1, <2>12, <3>1 DEF InLine
    <3>9. \A r \in Range(q) \cup Range(b2) : st2[r] # "none"
      BY <1>1, <3>1, <3>2, <3>5 DEF InLine
    <3>10. QED
      BY <1>1, <3>4, <3>5, <3>7, <3>8, <3>9 DEF InLine
  <2>15. Together(st2, mt2, hd2)
    <3>1. \A r \in Requests : st2[r] \in Asked => r \in mt2[r]
      BY <1>1, <2>4, <2>5 DEF Together
    <3>2. ASSUME NEW r \in Requests, NEW s \in Requests, r \in mt2[s]
          PROVE  mt2[r] = mt2[s] /\ MCText[r] = MCText[s]
      <4>1. CASE s \in rs
        BY <2>5, <2>12, <3>2, <4>1
      <4>2. CASE s \notin rs
        <5>1. r \in mt[s] /\ mt[r] = mt[s] /\ MCText[r] = MCText[s]
          BY <1>1, <2>5, <3>2, <4>2 DEF Together
        <5>2. r \notin rs
          BY <2>12, <5>1
        <5>3. QED
          BY <2>5, <4>2, <5>1, <5>2
      <4>3. QED
        BY <4>1, <4>2
    <3>3. ASSUME NEW x \in Texts, NEW r \in hd2[x] PROVE MCText[r] = x /\ st2[r] \in {"reading", "gone"}
      <4>1. r \in Requests
        BY <2>13, <3>3 DEF BqTypes
      <4>2. CASE r \in hd[x]
        BY <1>1, <2>4, <2>12, <4>1, <4>2 DEF Together
      <4>3. CASE r \notin hd[x]
        <5>1. x = t /\ ok /\ r \in rs
          BY <1>1, <2>6, <3>3, <4>3 DEF BqTypes
        <5>2. QED
          BY <2>4, <2>12, <4>1, <5>1
      <4>4. QED
        BY <4>2, <4>3
    <3>4. QED
      BY <3>1, <3>2, <3>3 DEF Together
  <2>16. Own(st2, mt2)
    <3>1. ASSUME NEW r \in Requests, mt2[r] = {r} PROVE st2[r] \notin {"cut", "error"}
      <4>1. CASE r \in rs
        BY <2>4, <2>5, <2>11, <2>12, <3>1, <4>1
      <4>2. CASE r \notin rs
        BY <1>1, <2>4, <2>5, <3>1, <4>2 DEF Own
      <4>3. QED
        BY <4>1, <4>2
    <3>2. ASSUME NEW r \in Requests, st2[r] \in {"reading", "read"} PROVE ~MCHasArgs[MCText[r]] \/ mt2[r] = {r}
      <4>1. CASE r \in rs
        BY <2>4, <2>5, <2>10, <2>12, <3>2, <4>1
      <4>2. CASE r \notin rs
        BY <1>1, <2>4, <2>5, <3>2, <4>2 DEF Own
      <4>3. QED
        BY <4>1, <4>2
    <3>3. QED
      BY <3>1, <3>2 DEF Own
  <2>17. QED
    BY <1>2, <2>8, <2>13, <2>14, <2>15, <2>16
<1>12. ASSUME NEW r \in Requests, DB!CloseRows(r) PROVE BatchInv'
  <2>1. PICK t : t = MCText[r] /\ t \in Texts
    BY <1>3
  <2>2. PICK hd2 : hd2 = [hd EXCEPT ![t] = @ \ mt[r]]
    OBVIOUS
  <2>3. PICK st2 : st2 = [s \in Requests |-> IF s = r THEN "read"
                            ELSE IF s \in mt[r] /\ st[s] = "reading" THEN "cut" ELSE st[s]]
    OBVIOUS
  <2>4. st[r] = "reading" /\ bq' = [queue |-> q, batch |-> b, todo |-> td, state |-> st2, mates |-> mt, held |-> hd2]
    BY <1>1, <1>4, <1>12, <2>1, <2>2, <2>3 DEF DB!CloseRows
  <2>5. r \in mt[r]
    BY <1>1, <2>4 DEF Together, Asked
  <2>6. BqTypes(q, b, td, st2, mt, hd2)
    <3>1. st2 \in [Requests -> BqStates]
      BY <1>1, <2>3 DEF BqTypes, BqStates, Asked
    <3>2. hd2 \in [Texts -> SUBSET Requests]
      BY <1>1, <2>2 DEF BqTypes
    <3>3. QED
      BY <1>1, <3>1, <3>2 DEF BqTypes
  <2>7. \A s \in Requests : st2[s] = st[s] \/ (st[s] = "reading" /\ st2[s] \in {"read", "cut"})
    BY <2>3, <2>4
  <2>8. InLine(q, b, td, st2, mt)
    <3>1. Range(b) \subseteq Requests /\ Range(q) \subseteq Requests
      BY <1>1 DEF BqTypes, Range
    <3>2. Pending(q, b, td) \subseteq Requests
      BY <3>1 DEF Pending
    <3>3. QED
      BY <1>1, <2>7, <3>1, <3>2 DEF InLine
  <2>9. Together(st2, mt, hd2)
    <3>1. \A s \in Requests : st2[s] \in Asked => s \in mt[s]
      BY <1>1, <2>7 DEF Together, Asked
    <3>2. ASSUME NEW x \in Texts, NEW s \in hd2[x] PROVE MCText[s] = x /\ st2[s] \in {"reading", "gone"}
      <4>1. s \in hd[x] /\ s \in Requests /\ (x = t => s \notin mt[r])
        BY <1>1, <2>2, <3>2 DEF BqTypes
      <4>2. MCText[s] = x /\ st[s] \in {"reading", "gone"}
        BY <1>1, <4>1 DEF Together
      <4>3. s \notin mt[r]
        BY <1>1, <2>1, <4>1, <4>2 DEF Together
      <4>4. QED
        BY <2>3, <2>5, <4>1, <4>2, <4>3
    <3>3. QED
      BY <1>1, <3>1, <3>2 DEF Together
  <2>10. Own(st2, mt)
    <3>1. ASSUME NEW s \in Requests, mt[s] = {s} PROVE st2[s] \notin {"cut", "error"}
      <4>1. s \in mt[r] => s = r
        BY <1>1, <3>1, <2>5 DEF Together
      <4>2. QED
        BY <1>1, <2>3, <3>1, <4>1 DEF Own
    <3>2. QED
      BY <1>1, <2>7, <3>1 DEF Own
  <2>11. QED
    BY <1>2, <2>4, <2>6, <2>8, <2>9, <2>10
<1>13. QED
  BY <1>6, <1>7, <1>9, <1>10, <1>11, <1>12 DEF DB!BatchNext

-----------------------------------------------------------------------------
(* The batch inserter.  A row that was given is in the buffer or in the     *)
(* table, in one of them once unless an Add of it failed.                   *)
Once(s, r) == \E i \in DOMAIN s : s[i] = r /\ \A k \in DOMAIN s : s[k] = r => k = i
Kept(b, t, r) == r \in Range(b) \cup Range(t)
Alone(b, t, r) == (Once(b, r) /\ r \notin Range(t)) \/ (Once(t, r) /\ r \notin Range(b))
InsOK(b, t, n, g, d) ==
    /\ b \in Seq(BatchRows) /\ t \in Seq(BatchRows) /\ n = Len(t)
    /\ \A r \in BatchRows : Kept(b, t, r) => r \in g
    /\ \A r \in g : Kept(b, t, r) /\ (r \notin d => Alone(b, t, r))
InsInv ==
    /\ ins = [buffer |-> ins.buffer, table |-> ins.table, inserted |-> ins.inserted,
              given |-> ins.given, doubted |-> ins.doubted, fails |-> ins.fails]
    /\ InsOK(ins.buffer, ins.table, ins.inserted, ins.given, ins.doubted)

(* What is in two sequences is in the one after the other. *)
LEMMA OnceInBoth ==
    ASSUME NEW S, NEW s \in Seq(S), NEW t \in Seq(S)
    PROVE  /\ s \o t \in Seq(S) /\ Len(s \o t) = Len(s) + Len(t)
           /\ Range(s \o t) = Range(s) \cup Range(t)
           /\ \A r : Alone(s, t, r) => Once(s \o t, r)
<1>1. PICK a : a = s \o t
  OBVIOUS
<1>2. PICK n \in Nat, m \in Nat : n = Len(s) /\ m = Len(t)
  OBVIOUS
<1>3. /\ a \in Seq(S) /\ Len(a) = n + m
      /\ DOMAIN s = 1..n /\ DOMAIN t = 1..m /\ DOMAIN a = 1..(n + m)
      /\ \A i \in 1..n : a[i] = s[i] /\ i \in 1..(n + m)
      /\ \A i \in 1..m : a[n + i] = t[i] /\ n + i \in 1..(n + m)
  BY <1>1, <1>2
<1>4. \A i \in 1..(n + m) : i \in 1..n \/ (i - n \in 1..m /\ i = n + (i - n))
  BY <1>2
<1>5. \A i \in 1..n, k \in 1..m : i # n + k
  BY <1>2
<1>6. Range(a) = Range(s) \cup Range(t)
  <2>1. ASSUME NEW x \in Range(a) PROVE x \in Range(s) \cup Range(t)
    <3>1. PICK i \in 1..(n + m) : x = a[i]
      BY <1>3 DEF Range
    <3>2. CASE i \in 1..n
      BY <1>3, <3>1, <3>2 DEF Range
    <3>3. CASE i \notin 1..n
      <4>1. i - n \in 1..m /\ i = n + (i - n)
        BY <1>4, <3>3
      <4>2. PICK k \in 1..m : i = n + k
        BY <4>1
      <4>3. x = t[k]
        BY <1>3, <3>1, <4>2
      <4>4. QED
        BY <1>3, <4>3 DEF Range
    <3>4. QED
      BY <3>2, <3>3
  <2>2. ASSUME NEW x \in Range(s) \cup Range(t) PROVE x \in Range(a)
    BY <1>3 DEF Range
  <2>3. QED
    BY <2>1, <2>2
<1>7. ASSUME NEW r, Once(s, r), r \notin Range(t) PROVE Once(a, r)
  <2>1. PICK i \in 1..n : s[i] = r /\ \A k \in 1..n : s[k] = r => k = i
    BY <1>3, <1>7 DEF Once
  <2>2. \A k \in 1..m : t[k] # r
    BY <1>3, <1>7 DEF Range
  <2>3. ASSUME NEW k \in 1..(n + m), a[k] = r PROVE k = i
    <3>1. k \notin 1..n => \E j \in 1..m : k = n + j
      BY <1>4
    <3>2. QED
      BY <1>3, <2>1, <2>2, <2>3, <3>1
  <2>4. QED
    BY <1>3, <2>1, <2>3 DEF Once
<1>8. ASSUME NEW r, Once(t, r), r \notin Range(s) PROVE Once(a, r)
  <2>1. PICK i \in 1..m : t[i] = r /\ \A k \in 1..m : t[k] = r => k = i
    BY <1>3, <1>8 DEF Once
  <2>2. \A k \in 1..n : s[k] # r
    BY <1>3, <1>8 DEF Range
  <2>3. ASSUME NEW k \in 1..(n + m), a[k] = r PROVE k = n + i
    <3>1. k \notin 1..n
      BY <1>3, <2>2, <2>3
    <3>2. PICK j \in 1..m : k = n + j
      BY <1>4, <3>1
    <3>3. QED
      BY <1>3, <2>1, <2>3, <3>2
  <2>4. QED
    BY <1>3, <2>1, <2>3, ZenonT(60) DEF Once
<1>9. QED
  BY <1>1, <1>2, <1>3, <1>6, <1>7, <1>8 DEF Alone

(* A row added to a sequence is there once, if it was not there. *)
LEMMA OnceAppended ==
    ASSUME NEW S, NEW q \in Seq(S), NEW x \in S
    PROVE  /\ x \notin Range(q) => Once(Append(q, x), x)
           /\ \A r : Once(q, r) /\ r # x => Once(Append(q, x), r)
<1>1. PICK a : a = Append(q, x)
  OBVIOUS
<1>2. PICK n \in Nat : n = Len(q)
  OBVIOUS
<1>3. /\ DOMAIN q = 1..n /\ DOMAIN a = 1..(n + 1)
      /\ \A i \in 1..n : a[i] = q[i] /\ i \in 1..(n + 1)
      /\ a[n + 1] = x /\ n + 1 \in 1..(n + 1)
  BY <1>1, <1>2
<1>4. \A i \in 1..(n + 1) : i \in 1..n \/ i = n + 1
  BY <1>2
<1>5. ASSUME x \notin Range(q) PROVE Once(a, x)
  <2>1. \A i \in 1..n : q[i] # x
    BY <1>3, <1>5 DEF Range
  <2>2. QED
    BY <1>3, <1>4, <2>1 DEF Once
<1>6. ASSUME NEW r, Once(q, r), r # x PROVE Once(a, r)
  <2>1. PICK i \in 1..n : q[i] = r /\ \A k \in 1..n : q[k] = r => k = i
    BY <1>3, <1>6 DEF Once
  <2>2. QED
    BY <1>3, <1>4, <1>6, <2>1, SMTT(60) DEF Once
<1>7. QED
  BY <1>1, <1>5, <1>6

(* How often a row is in a sequence. *)
LEMMA TimesOf ==
    ASSUME NEW S, NEW s \in Seq(S), NEW r
    PROVE  /\ r \in Range(s) => DB!Times(s, r) \in Nat /\ DB!Times(s, r) >= 1
           /\ Once(s, r) => DB!Times(s, r) = 1
<1>1. PICK at : at = {k \in DOMAIN s : s[k] = r}
  OBVIOUS
<1>2. DB!Times(s, r) = Cardinality(at)
  BY <1>1, SameCounts DEF DB!Times
<1>3. IsFiniteSet(at)
  <2>1. IsFiniteSet(1..Len(s))
    BY FS_Interval
  <2>2. QED
    BY <1>1, <2>1, FS_Subset
<1>4. ASSUME r \in Range(s) PROVE Cardinality(at) \in Nat /\ Cardinality(at) >= 1
  <2>1. at # {}
    BY <1>1, <1>4 DEF Range
  <2>2. QED
    BY <1>3, <2>1, FS_CardinalityType, FS_EmptySet
<1>5. ASSUME Once(s, r) PROVE Cardinality(at) = 1
  <2>1. PICK i \in DOMAIN s : s[i] = r /\ \A k \in DOMAIN s : s[k] = r => k = i
    BY <1>5 DEF Once
  <2>2. at = {i}
    BY <1>1, <2>1
  <2>3. QED
    BY <2>2, FS_Singleton
<1>6. QED
  BY <1>2, <1>4, <1>5

LEMMA InsConserves == ASSUME InsInv PROVE DB!RowsConserved
<1>1. PICK b, t, g, d : /\ b = ins.buffer /\ t = ins.table /\ g = ins.given /\ d = ins.doubted
                        /\ InsOK(b, t, ins.inserted, g, d)
  BY DEF InsInv
<1>2. b \in Seq(BatchRows) /\ t \in Seq(BatchRows)
  BY <1>1 DEF InsOK
<1>3. PICK s : s = b \o t
  OBVIOUS
<1>4. s \in Seq(BatchRows) /\ Range(s) = Range(b) \cup Range(t) /\ \A r : Alone(b, t, r) => Once(s, r)
  BY <1>2, <1>3, OnceInBoth
<1>5. ASSUME NEW r \in g PROVE DB!Times(s, r) >= 1 /\ (r \notin d => DB!Times(s, r) = 1)
  <2>1. r \in Range(s) /\ (r \notin d => Once(s, r))
    BY <1>1, <1>4 DEF InsOK, Kept
  <2>2. QED
    BY <1>4, <2>1, TimesOf
<1>6. QED
  BY <1>1, <1>3, <1>5 DEF DB!RowsConserved, InsOK

(* A flush moves the buffer behind the table. *)
LEMMA FlushKeeps ==
    ASSUME NEW b, NEW t, NEW n, NEW g, NEW d, InsOK(b, t, n, g, d)
    PROVE  InsOK(<<>>, t \o b, n + Len(b), g, d)
<1>1. b \in Seq(BatchRows) /\ t \in Seq(BatchRows) /\ n = Len(t)
  BY DEF InsOK
<1>2. PICK s : s = t \o b
  OBVIOUS
<1>3. /\ s \in Seq(BatchRows) /\ Range(s) = Range(t) \cup Range(b) /\ Len(s) = n + Len(b)
      /\ \A r : Alone(t, b, r) => Once(s, r)
  BY <1>1, <1>2, OnceInBoth
<1>4. <<>> \in Seq(BatchRows) /\ Range(<<>>) = {}
  BY DEF Range
<1>5. \A r : (Kept(<<>>, s, r) <=> Kept(b, t, r)) /\ (Alone(b, t, r) => Alone(<<>>, s, r))
  BY <1>3, <1>4 DEF Kept, Alone
<1>6. QED
  BY <1>2, <1>3, <1>4, <1>5 DEF InsOK

(* A row joins the buffer: one that was never added, or one whose Add failed. *)
LEMMA AddKeeps ==
    ASSUME NEW b, NEW t, NEW n, NEW g, NEW d, InsOK(b, t, n, g, d),
           NEW r \in BatchRows, r \notin g \/ r \in d
    PROVE  InsOK(Append(b, r), t, n, g \cup {r}, d)
<1>1. b \in Seq(BatchRows) /\ t \in Seq(BatchRows) /\ n = Len(t)
  BY DEF InsOK
<1>2. PICK a : a = Append(b, r)
  OBVIOUS
<1>3. a \in Seq(BatchRows) /\ Range(a) = Range(b) \cup {r}
  BY <1>1, <1>2, RangeOfAppend
<1>4. /\ r \notin Range(b) => Once(a, r)
      /\ \A x : Once(b, x) /\ x # r => Once(a, x)
  BY <1>1, <1>2, OnceAppended
<1>5. \A x : Kept(a, t, x) <=> Kept(b, t, x) \/ x = r
  BY <1>3 DEF Kept
<1>6. r \notin g => Alone(a, t, r)
  BY <1>4 DEF InsOK, Kept, Alone
<1>7. \A x : Alone(b, t, x) /\ x # r => Alone(a, t, x)
  BY <1>3, <1>4 DEF Alone
<1>8. QED
  BY <1>1, <1>2, <1>3, <1>5, <1>6, <1>7 DEF InsOK

LEMMA InsStep == ASSUME InsInv, DB!InsNext PROVE InsInv'
<1>1. PICK b, t, n, g, d, f :
        /\ ins = [buffer |-> b, table |-> t, inserted |-> n, given |-> g, doubted |-> d, fails |-> f]
        /\ InsOK(b, t, n, g, d)
  BY DEF InsInv
<1>2. ASSUME NEW b2, NEW t2, NEW n2, NEW g2, NEW d2, NEW f2, InsOK(b2, t2, n2, g2, d2),
             ins' = [buffer |-> b2, table |-> t2, inserted |-> n2, given |-> g2, doubted |-> d2, fails |-> f2]
      PROVE  InsInv'
  BY <1>2 DEF InsInv
<1>3. CASE DB!Flush
  <2>1. CASE ins' = DB!Flushed(ins)
    <3>1. ins' = [buffer |-> <<>>, table |-> t \o b, inserted |-> n + Len(b), given |-> g, doubted |-> d, fails |-> f]
      BY <1>1, <2>1 DEF DB!Flushed
    <3>2. InsOK(<<>>, t \o b, n + Len(b), g, d)
      BY <1>1, FlushKeeps
    <3>3. QED
      BY <1>2, <3>1, <3>2
  <2>2. CASE ins' = [ins EXCEPT !.fails = @ + 1]
    <3>1. ins' = [buffer |-> b, table |-> t, inserted |-> n, given |-> g, doubted |-> d, fails |-> f + 1]
      BY <1>1, <2>2
    <3>2. QED
      BY <1>1, <1>2, <3>1
  <2>3. QED
    BY <1>3, <2>1, <2>2 DEF DB!Flush
<1>4. ASSUME NEW r \in BatchRows, DB!AddRow(r) PROVE InsInv'
  <2>1. PICK a : a = Append(b, r)
    OBVIOUS
  <2>2. PICK held : held = [ins EXCEPT !.buffer = Append(@, r)]
    OBVIOUS
  <2>3. held = [buffer |-> a, table |-> t, inserted |-> n, given |-> g, doubted |-> d, fails |-> f]
    BY <1>1, <2>1, <2>2
  <2>4. /\ r \notin g \/ r \in d
        /\ \/ ins' = [DB!Flushed(held) EXCEPT !.given = @ \cup {r}]
           \/ ins' = [held EXCEPT !.given = @ \cup {r}]
           \/ ins' = [held EXCEPT !.given = @ \cup {r}, !.doubted = @ \cup {r}, !.fails = @ + 1]
    BY <1>1, <1>4, <2>2 DEF DB!AddRow
  <2>5. InsOK(a, t, n, g \cup {r}, d)
    BY <1>1, <2>1, <2>4, AddKeeps
  <2>6. CASE ins' = [DB!Flushed(held) EXCEPT !.given = @ \cup {r}]
    <3>1. PICK t2, n2 : t2 = t \o a /\ n2 = n + Len(a)
      OBVIOUS
    <3>2. held.buffer = a
      BY <2>3
    <3>3. PICK w : w = DB!Flushed(held)
      OBVIOUS
    <3>4. w = [held EXCEPT !.table = t2, !.inserted = n2, !.buffer = <<>>]
      BY <2>3, <3>1, <3>2, <3>3 DEF DB!Flushed
    <3>5. w = [buffer |-> <<>>, table |-> t2, inserted |-> n2, given |-> g, doubted |-> d, fails |-> f]
      BY <2>3, <3>4
    <3>6. ins' = [buffer |-> <<>>, table |-> t2, inserted |-> n2, given |-> g \cup {r}, doubted |-> d, fails |-> f]
      <4>1. ins' = [w EXCEPT !.given = @ \cup {r}]
        BY <2>6, <3>3
      <4>2. QED
        BY <3>5, <4>1
    <3>7. InsOK(<<>>, t2, n2, g \cup {r}, d)
      BY <2>5, <3>1, FlushKeeps
    <3>8. QED
      BY <1>2, <3>6, <3>7
  <2>7. CASE ins' = [held EXCEPT !.given = @ \cup {r}]
    <3>1. ins' = [buffer |-> a, table |-> t, inserted |-> n, given |-> g \cup {r}, doubted |-> d, fails |-> f]
      BY <2>3, <2>7
    <3>2. QED
      BY <1>2, <2>5, <3>1
  <2>8. CASE ins' = [held EXCEPT !.given = @ \cup {r}, !.doubted = @ \cup {r}, !.fails = @ + 1]
    <3>1. ins' = [buffer |-> a, table |-> t, inserted |-> n, given |-> g \cup {r}, doubted |-> d \cup {r}, fails |-> f + 1]
      BY <2>3, <2>8
    <3>2. InsOK(a, t, n, g \cup {r}, d \cup {r})
      BY <2>5 DEF InsOK
    <3>3. QED
      BY <1>2, <3>1, <3>2
  <2>9. QED
    BY <2>4, <2>6, <2>7, <2>8
<1>5. QED
  BY <1>3, <1>4 DEF DB!InsNext

-----------------------------------------------------------------------------
(* The router.  The next reader to serve follows the last one that did, so  *)
(* that those behind it in the round are one read ahead of the others.      *)
Ahead(i, m) == IF i \in 2..m + 1 THEN 1 ELSE 0
EvenReads(reads, got, rc) ==
    \E base \in Nat : \A i \in 1..Len(reads) : got[reads[i]] = base + Ahead(i, rc % Len(reads))
RouteOK(reads, writes, rc, got, picks) ==
    /\ reads \in Seq(Replicas) /\ (\A i, k \in DOMAIN reads : reads[i] = reads[k] => i = k)
    /\ got \in [Replicas -> Int] /\ rc \in Nat /\ picks \in Nat
    /\ picks = 0 => rc = 0 /\ \A d \in Replicas : got[d] = 0
    /\ writes = <<>> /\ reads # <<>> => EvenReads(reads, got, rc)
RouteInv ==
    /\ route = [reads |-> route.reads, writes |-> route.writes, rc |-> route.rc, wc |-> route.wc,
                open |-> route.open, got |-> route.got, shared |-> route.shared, picks |-> route.picks]
    /\ RouteOK(route.reads, route.writes, route.rc, route.got, route.picks)

(* A finite set can be put in a line. *)
LEMMA LineOfSet ==
    ASSUME NEW S, IsFiniteSet(S)
    PROVE  /\ DB!SetToSeq(S) \in Seq(S)
           /\ \A i, k \in DOMAIN DB!SetToSeq(S) : DB!SetToSeq(S)[i] = DB!SetToSeq(S)[k] => i = k
<1>1. PICK n \in Nat : n = Cardinality(S) /\ ExistsBijection(1..n, S)
  BY FS_CardinalityType
<1>2. DB!SetToSeq(S) = CHOOSE f \in [1..n -> S] : \A i, k \in DOMAIN f : f[i] = f[k] => i = k
  BY <1>1, SameCounts DEF DB!SetToSeq, DB!IsInjective
<1>3. \E f \in [1..n -> S] : \A i, k \in DOMAIN f : f[i] = f[k] => i = k
  BY <1>1 DEF ExistsBijection, Bijection, Injection, IsInjective
<1>4. PICK f \in [1..n -> S] : f = DB!SetToSeq(S) /\ \A i, k \in DOMAIN f : f[i] = f[k] => i = k
  BY <1>2, <1>3
<1>5. f \in Seq(S)
  BY <1>1
<1>6. QED
  BY <1>4, <1>5

(* The readers are even when the router knows whose turn is next. *)
LEMMA ReadersAreEven == ASSUME RouteInv PROVE DB!ReadersEven
<1>1. PICK re, gt, rc : re = route.reads /\ gt = route.got /\ rc = route.rc /\ RouteOK(re, route.writes, rc, gt, route.picks)
  BY DEF RouteInv
<1>2. ASSUME route.writes = <<>>, NEW a \in Range(re), NEW b \in Range(re) PROVE gt[a] - gt[b] \in -1..1
  <2>1. re \in Seq(Replicas)
    BY <1>1 DEF RouteOK
  <2>2. PICK i \in 1..Len(re), k \in 1..Len(re) : a = re[i] /\ b = re[k]
    BY <1>2, <2>1 DEF Range
  <2>3. re # <<>>
    BY <2>1, <2>2
  <2>4. PICK base \in Nat : \A j \in 1..Len(re) : gt[re[j]] = base + Ahead(j, rc % Len(re))
    BY <1>1, <1>2, <2>3 DEF RouteOK, EvenReads
  <2>5. \A j : Ahead(j, rc % Len(re)) \in {0, 1}
    BY DEF Ahead
  <2>6. QED
    BY <2>2, <2>4, <2>5
<1>3. QED
  BY <1>1, <1>2, SameCounts DEF DB!ReadersEven

(* The statements are routed. *)
LEMMA RouteStep == ASSUME RouteInv, DB!RouteNext PROVE RouteInv'
<1>1. PICK re, wr, rc, wc, op, gt, sh, pk :
        /\ route = [reads |-> re, writes |-> wr, rc |-> rc, wc |-> wc, open |-> op, got |-> gt, shared |-> sh, picks |-> pk]
        /\ RouteOK(re, wr, rc, gt, pk)
  BY DEF RouteInv
<1>2. ASSUME NEW re2, NEW wr2, NEW rc2, NEW wc2, NEW op2, NEW gt2, NEW sh2, NEW pk2, RouteOK(re2, wr2, rc2, gt2, pk2),
             route' = [reads |-> re2, writes |-> wr2, rc |-> rc2, wc |-> wc2, open |-> op2, got |-> gt2,
                       shared |-> sh2, picks |-> pk2]
      PROVE  RouteInv'
  BY <1>2 DEF RouteInv
<1>3. ASSUME NEW s \in Seq(Replicas), \A i, k \in DOMAIN s : s[i] = s[k] => i = k, pk = 0
      PROVE  \A w : RouteOK(s, w, rc, gt, pk)
  <2>1. rc = 0 /\ \A d \in Replicas : gt[d] = 0
    BY <1>1, <1>3 DEF RouteOK
  <2>2. ASSUME s # <<>> PROVE EvenReads(s, gt, rc)
    <3>1. PICK n \in Nat \ {0} : n = Len(s)
      BY <2>2
    <3>2. 0 % n = 0
      OBVIOUS
    <3>3. \A i \in 1..n : s[i] \in Replicas /\ Ahead(i, 0 % n) = 0
      BY <3>1, <3>2 DEF Ahead
    <3>4. \A i \in 1..n : gt[s[i]] = 0 + Ahead(i, 0 % n)
      BY <2>1, <3>3
    <3>5. QED
      BY <2>1, <3>1, <3>4 DEF EvenReads
  <2>3. QED
    BY <1>1, <1>3, <2>2 DEF RouteOK
<1>4. ASSUME NEW S \in SUBSET Replicas, DB!InitReadDBs(S) PROVE RouteInv'
  <2>1. PICK s : s = DB!SetToSeq(S)
    OBVIOUS
  <2>2. IsFiniteSet(S)
    BY FS_Subset, DataAssumption
  <2>3. s \in Seq(Replicas) /\ \A i, k \in DOMAIN s : s[i] = s[k] => i = k
    BY <2>1, <2>2, LineOfSet
  <2>4. pk = 0 /\ route' = [reads |-> s, writes |-> wr, rc |-> rc, wc |-> wc, open |-> op, got |-> gt,
                           shared |-> sh, picks |-> pk]
    BY <1>1, <1>4, <2>1 DEF DB!InitReadDBs
  <2>5. QED
    BY <1>2, <1>3, <2>3, <2>4
<1>5. ASSUME NEW S \in SUBSET Replicas, DB!InitWriteDBs(S) PROVE RouteInv'
  <2>1. PICK s : s = DB!SetToSeq(S)
    OBVIOUS
  <2>2. pk = 0 /\ route' = [reads |-> re, writes |-> s, rc |-> rc, wc |-> wc, open |-> op, got |-> gt,
                           shared |-> sh, picks |-> pk]
    BY <1>1, <1>5, <2>1 DEF DB!InitWriteDBs
  <2>3. re \in Seq(Replicas) /\ \A i, k \in DOMAIN re : re[i] = re[k] => i = k
    BY <1>1 DEF RouteOK
  <2>4. RouteOK(re, s, rc, gt, pk)
    BY <1>3, <2>2, <2>3
  <2>5. QED
    BY <1>2, <2>2, <2>4
<1>6. ASSUME NEW d, NEW rc2 \in {rc, rc + 1}, wr = <<>> /\ re # <<>> => EvenReads(re, [gt EXCEPT ![d] = @ + 1], rc2)
      PROVE  RouteOK(re, wr, rc2, [gt EXCEPT ![d] = @ + 1], pk + 1)
  <2>1. gt \in [Replicas -> Int] /\ pk \in Nat /\ rc \in Nat
    BY <1>1 DEF RouteOK
  <2>2. PICK g : g = [gt EXCEPT ![d] = @ + 1]
    OBVIOUS
  <2>3. g \in [Replicas -> Int]
    <3>1. DOMAIN g = Replicas /\ \A x \in Replicas : g[x] = IF x = d THEN gt[x] + 1 ELSE gt[x]
      BY <2>1, <2>2
    <3>2. g = [x \in Replicas |-> g[x]]
      BY <2>1, <2>2
    <3>3. QED
      BY <2>1, <3>1, <3>2
  <2>4. pk + 1 # 0 /\ pk + 1 \in Nat /\ rc2 \in Nat
    BY <2>1
  <2>5. wr = <<>> /\ re # <<>> => EvenReads(re, g, rc2)
    BY <1>6, <2>2
  <2>6. RouteOK(re, wr, rc2, g, pk + 1)
    BY <1>1, <2>3, <2>4, <2>5 DEF RouteOK
  <2>7. QED
    BY <2>2, <2>6
<1>7. RouteOK(re, wr, rc, gt, pk + 1)
  BY <1>1 DEF RouteOK
<1>8. CASE DB!GetReadDB
  <2>1. CASE re # <<>>
    <3>1. PICK n \in Nat \ {0} : n = Len(re) /\ DOMAIN re = 1..n /\ \A i \in 1..n : re[i] \in Replicas
      BY <1>1, <2>1 DEF RouteOK
    <3>2. rc \in Nat /\ gt \in [Replicas -> Int] /\ \A i, k \in 1..n : re[i] = re[k] => i = k
      BY <1>1, <3>1 DEF RouteOK
    <3>3. PICK m \in 0..n - 1, x \in 0..n - 1 : m = rc % n /\ x = (rc + 1) % n /\ x = IF m = n - 1 THEN 0 ELSE m + 1
      <4>1. rc % n \in 0..n - 1 /\ (rc + 1) % n = IF rc % n = n - 1 THEN 0 ELSE (rc % n) + 1
        BY <3>2, NextRemainder
      <4>2. PICK m \in 0..n - 1 : m = rc % n
        BY <4>1
      <4>3. PICK x : x = IF m = n - 1 THEN 0 ELSE m + 1
        OBVIOUS
      <4>4. x \in 0..n - 1 /\ x = (rc + 1) % n
        BY <4>1, <4>2, <4>3
      <4>5. QED
        BY <4>2, <4>3, <4>4
    <3>4. PICK d \in Replicas : d = re[x + 1]
      BY <3>1, <3>3
    <3>5. PICK g : g = [gt EXCEPT ![d] = @ + 1]
      OBVIOUS
    <3>6. d = DB!Pick(re, rc + 1)
      BY <3>1, <3>3, <3>4 DEF DB!Pick
    <3>7. route' = [reads |-> re, writes |-> wr, rc |-> rc + 1, wc |-> wc, open |-> op, got |-> g,
                    shared |-> sh, picks |-> pk + 1]
      <4>1. route' = [DB!Serve(d) EXCEPT !.rc = @ + 1]
        BY <1>1, <1>8, <2>1, <3>6 DEF DB!GetReadDB
      <4>2. PICK w : w = DB!Serve(d)
        OBVIOUS
      <4>3. w = [reads |-> re, writes |-> wr, rc |-> rc, wc |-> wc, open |-> op, got |-> g, shared |-> sh, picks |-> pk + 1]
        BY <1>1, <3>5, <4>2 DEF DB!Serve
      <4>4. QED
        BY <4>1, <4>2, <4>3
    <3>8. ASSUME wr = <<>> PROVE EvenReads(re, g, rc + 1)
      <4>1. PICK base \in Nat : \A i \in 1..n : gt[re[i]] = base + Ahead(i, m)
        BY <1>1, <2>1, <3>1, <3>3, <3>8 DEF RouteOK, EvenReads
      <4>2. \A i \in 1..n : g[re[i]] = IF i = x + 1 THEN gt[re[i]] + 1 ELSE gt[re[i]]
        <5>1. x + 1 \in 1..n
          BY <3>3
        <5>2. \A i \in 1..n : re[i] = d <=> i = x + 1
          BY <3>2, <3>4, <5>1
        <5>3. \A e \in Replicas : g[e] = IF e = d THEN gt[e] + 1 ELSE gt[e]
          BY <3>2, <3>5
        <5>4. QED
          BY <3>1, <5>2, <5>3
      <4>3. CASE m = n - 1
        <5>1. \A i \in 1..n : g[re[i]] = (base + 1) + Ahead(i, x)
          BY <3>3, <4>1, <4>2, <4>3 DEF Ahead
        <5>2. base + 1 \in Nat
          OBVIOUS
        <5>3. QED
          BY <3>1, <3>3, <5>1, <5>2 DEF EvenReads
      <4>4. CASE m # n - 1
        <5>1. \A i \in 1..n : g[re[i]] = base + Ahead(i, x)
          BY <3>3, <4>1, <4>2, <4>4 DEF Ahead
        <5>2. QED
          BY <3>1, <3>3, <5>1 DEF EvenReads
      <4>5. QED
        BY <4>3, <4>4
    <3>9. RouteOK(re, wr, rc + 1, g, pk + 1)
      BY <1>6, <3>5, <3>8
    <3>10. QED
      BY <1>2, <3>7, <3>9
  <2>2. CASE re = <<>> /\ wr = <<>>
    <3>1. route' = [reads |-> re, writes |-> wr, rc |-> rc, wc |-> wc, open |-> op, got |-> gt,
                    shared |-> sh, picks |-> pk + 1]
      BY <1>1, <1>8, <2>2 DEF DB!GetReadDB
    <3>2. QED
      BY <1>2, <1>7, <3>1
  <2>3. CASE re = <<>> /\ wr # <<>>
    <3>1. PICK d : d = DB!Pick(wr, wc + 1)
      OBVIOUS
    <3>2. PICK g : g = [gt EXCEPT ![d] = @ + 1]
      OBVIOUS
    <3>3. PICK w : w = DB!Serve(d)
      OBVIOUS
    <3>4. w = [reads |-> re, writes |-> wr, rc |-> rc, wc |-> wc, open |-> op, got |-> g, shared |-> sh, picks |-> pk + 1]
      BY <1>1, <3>2, <3>3 DEF DB!Serve
    <3>5. route' = [w EXCEPT !.wc = @ + 1, !.shared = TRUE]
      BY <1>1, <1>8, <2>3, <3>1, <3>3 DEF DB!GetReadDB
    <3>6. route' = [reads |-> re, writes |-> wr, rc |-> rc, wc |-> wc + 1, open |-> op, got |-> g,
                    shared |-> TRUE, picks |-> pk + 1]
      BY <3>4, <3>5
    <3>7. RouteOK(re, wr, rc, g, pk + 1)
      BY <1>6, <2>3, <3>2
    <3>8. QED
      BY <1>2, <3>6, <3>7
  <2>4. QED
    BY <2>1, <2>2, <2>3
<1>9. CASE DB!GetWriteDB
  <2>1. CASE wr = <<>>
    <3>1. route' = [reads |-> re, writes |-> wr, rc |-> rc, wc |-> wc, open |-> op, got |-> gt,
                    shared |-> sh, picks |-> pk + 1]
      BY <1>1, <1>9, <2>1 DEF DB!GetWriteDB
    <3>2. QED
      BY <1>2, <1>7, <3>1
  <2>2. CASE wr # <<>>
    <3>1. PICK d : d = DB!Pick(wr, wc + 1)
      OBVIOUS
    <3>2. PICK g : g = [gt EXCEPT ![d] = @ + 1]
      OBVIOUS
    <3>3. PICK w : w = DB!Serve(d)
      OBVIOUS
    <3>4. w = [reads |-> re, writes |-> wr, rc |-> rc, wc |-> wc, open |-> op, got |-> g, shared |-> sh, picks |-> pk + 1]
      BY <1>1, <3>2, <3>3 DEF DB!Serve
    <3>5. route' = [w EXCEPT !.wc = @ + 1]
      BY <1>1, <1>9, <2>2, <3>1, <3>3 DEF DB!GetWriteDB
    <3>6. route' = [reads |-> re, writes |-> wr, rc |-> rc, wc |-> wc + 1, open |-> op, got |-> g,
                    shared |-> sh, picks |-> pk + 1]
      BY <3>4, <3>5
    <3>7. RouteOK(re, wr, rc, g, pk + 1)
      BY <1>6, <2>2, <3>2
    <3>8. QED
      BY <1>2, <3>6, <3>7
  <2>3. QED
    BY <2>1, <2>2
<1>10. CASE DB!CloseAll
  <2>1. route' = [reads |-> <<>>, writes |-> <<>>, rc |-> rc, wc |-> wc, open |-> FALSE, got |-> gt,
                  shared |-> sh, picks |-> pk]
    BY <1>1, <1>10 DEF DB!CloseAll
  <2>2. <<>> \in Seq(Replicas) /\ DOMAIN <<>> = {}
    OBVIOUS
  <2>3. RouteOK(<<>>, <<>>, rc, gt, pk)
    BY <1>1, <2>2 DEF RouteOK
  <2>4. QED
    BY <1>2, <2>1, <2>3
<1>11. QED
  BY <1>4, <1>5, <1>8, <1>9, <1>10 DEF DB!RouteNext

-----------------------------------------------------------------------------
(* The redis cache.  A live key is in the set of each of its tags, and that *)
(* set lives as long as the key does, unless a call has still to give it    *)
(* its time, or the tag is known to have lost track.                        *)
Lives == {-1} \cup (Nat \ {0})
TagSets == [keys : SUBSET Keys, life : Lives]
Calling(call1) ==
    /\ call1 = [op |-> call1.op, key |-> call1.key, tag |-> call1.tag, ttl |-> call1.ttl,
                added |-> call1.added, todo |-> call1.todo, listed |-> call1.listed]
    /\ call1.added => call1.op = "tag"
    /\ call1.op = "tag" => call1.key \in Keys /\ call1.ttl \in Nat
Awaited(cl, t) == \E c \in Callers : cl[c].added /\ cl[c].tag = t
Lasts(v, k, tagSet) == tagSet.life = -1 \/ (v[k] # -1 /\ v[k] <= tagSet.life)
Tracked(v, k, t, tg, cl) == k \in tg[t].keys /\ (Lasts(v, k, tg[t]) \/ Awaited(cl, t))
RedisTypes(v, tg, cl, gv) ==
    /\ v \in [Keys -> Int] /\ tg \in [Tags -> TagSets] /\ gv \in [Keys -> SUBSET Tags]
    /\ DOMAIN cl = Callers /\ \A c \in Callers : Calling(cl[c])
RedisTracks(v, tg, cl, gv, ls) ==
    \A k \in Keys : \A t \in gv[k] : SC!Live(v, k) /\ t \notin ls => Tracked(v, k, t, tg, cl)
RedisInv == RedisTypes(value, tagged, call, given) /\ RedisTracks(value, tagged, call, given, loose)

(* Keys are written, deleted and listed: the sets of the tags stay. *)
LEMMA KeysChange ==
    ASSUME RedisInv, NEW v \in [Keys -> Int], NEW gv \in [Keys -> SUBSET Tags], NEW ls, NEW cl,
           value' = v, given' = gv, loose' = ls, call' = cl, tagged' = tagged,
           DOMAIN cl = Callers, \A c \in Callers : Calling(cl[c]),
           \A c \in Callers : call[c].added => cl[c].added /\ cl[c].tag = call[c].tag,
           loose \subseteq ls,
           \A k \in Keys : \A t \in gv[k] : t \in given[k] /\ (v[k] = value[k] \/ t \in ls)
    PROVE  RedisInv'
<1>1. RedisTypes(v, tagged, cl, gv)
  BY DEF RedisInv, RedisTypes
<1>2. ASSUME NEW k \in Keys, NEW t \in gv[k], SC!Live(v, k), t \notin ls PROVE Tracked(v, k, t, tagged, cl)
  <2>1. t \in given[k] /\ v[k] = value[k] /\ t \notin loose
    BY <1>2
  <2>2. Tracked(value, k, t, tagged, call)
    BY <1>2, <2>1 DEF RedisInv, RedisTracks, SC!Live
  <2>3. Awaited(call, t) => Awaited(cl, t)
    BY DEF Awaited
  <2>4. QED
    BY <2>1, <2>2, <2>3 DEF Tracked, Lasts
<1>3. QED
  BY <1>1, <1>2 DEF RedisInv, RedisTracks

LEMMA RedisStep == ASSUME RedisInv, SC!RedisNext PROVE RedisInv'
<1>1. /\ value \in [Keys -> Int] /\ tagged \in [Tags -> TagSets] /\ given \in [Keys -> SUBSET Tags]
      /\ DOMAIN call = Callers /\ \A c \in Callers : Calling(call[c])
  BY DEF RedisInv, RedisTypes
<1>2. ASSUME NEW k \in Keys, NEW n \in TTLs, SC!Written(k, n), given' = [given EXCEPT ![k] = {}]
      PROVE  /\ value' \in [Keys -> Int] /\ given' \in [Keys -> SUBSET Tags]
             /\ \A x \in Keys : \A t \in given'[x] : t \in given[x] /\ value'[x] = value[x]
  BY <1>1, <1>2, DataAssumption DEF SC!Written
<1>3. ASSUME NEW k \in Keys, NEW n \in TTLs, SC!SetKey(k, n) PROVE RedisInv'
  <2>1. /\ SC!Written(k, n) /\ given' = [given EXCEPT ![k] = {}]
        /\ tagged' = tagged /\ call' = call /\ loose' = loose
    BY <1>3 DEF SC!SetKey
  <2>2. QED
    <3>1. /\ value' \in [Keys -> Int] /\ given' \in [Keys -> SUBSET Tags]
          /\ \A x \in Keys : \A t \in given'[x] : t \in given[x] /\ value'[x] = value[x]
      BY <1>2, <2>1
    <3>2. tagged' = tagged /\ call' = call /\ loose' = loose
      BY <2>1
    <3>3. QED
      BY <1>1, <3>1, <3>2, KeysChange
<1>4. ASSUME NEW c \in Callers, NEW k \in Keys, NEW n \in TTLs, NEW T \in SUBSET Tags, SC!SetWithTags(c, k, n, T)
      PROVE  RedisInv'
  <2>1. PICK w : w = [SC!Asleep EXCEPT !.op = "tag", !.key = k, !.ttl = n, !.todo = T]
    OBVIOUS
  <2>2. Calling(w)
    <3>1. w.op = "tag" /\ w.key = k /\ w.ttl = n /\ w.added = FALSE
      BY <2>1 DEF SC!Asleep
    <3>2. w = [op |-> w.op, key |-> w.key, tag |-> w.tag, ttl |-> w.ttl, added |-> w.added, todo |-> w.todo, listed |-> w.listed]
      BY <2>1 DEF SC!Asleep
    <3>3. QED
      BY <3>1, <3>2, DataAssumption DEF Calling
  <2>3. /\ call' = [call EXCEPT ![c] = w] /\ call[c].op = "none" /\ tagged' = tagged /\ loose' = loose
        /\ SC!Written(k, n) /\ given' = [given EXCEPT ![k] = {}]
    BY <1>4, <2>1 DEF SC!SetWithTags
  <2>4. DOMAIN call' = Callers /\ \A x \in Callers : call'[x] = IF x = c THEN w ELSE call[x]
    BY <1>1, <2>3
  <2>5. ~call[c].added
    BY <1>1, <2>3 DEF Calling
  <2>6. QED
    <3>1. /\ value' \in [Keys -> Int] /\ given' \in [Keys -> SUBSET Tags]
          /\ \A x \in Keys : \A t \in given'[x] : t \in given[x] /\ value'[x] = value[x]
      BY <1>2, <2>3
    <3>2. QED
      <4>1. \A x \in Callers : Calling(call'[x]) /\ (call[x].added => call'[x].added /\ call'[x].tag = call[x].tag)
        BY <1>1, <2>2, <2>4, <2>5
      <4>2. tagged' = tagged /\ loose \subseteq loose' /\ DOMAIN call' = Callers
        BY <2>3, <2>4
      <4>3. QED
        BY <3>1, <4>1, <4>2, KeysChange
<1>5. ASSUME NEW K, SC!SetMulti(K) PROVE RedisInv'
  BY <1>1, <1>5, KeysChange DEF SC!SetMulti, SC!Forever
<1>6. ASSUME NEW k \in Keys, SC!DeleteKey(k) PROVE RedisInv'
  <2>1. /\ value' = [value EXCEPT ![k] = -2] /\ given' = [given EXCEPT ![k] = {}]
        /\ tagged' = tagged /\ call' = call /\ loose' = loose
    BY <1>6 DEF SC!DeleteKey, SC!Absent
  <2>2. /\ value' \in [Keys -> Int] /\ given' \in [Keys -> SUBSET Tags]
        /\ \A x \in Keys : \A t \in given'[x] : t \in given[x] /\ value'[x] = value[x]
    BY <1>1, <2>1
  <2>3. QED
    BY <1>1, <2>1, <2>2, KeysChange
<1>7. ASSUME NEW k \in Keys, NEW n \in TTLs, SC!Expire(k, n) PROVE RedisInv'
  BY <1>1, <1>7, KeysChange, DataAssumption, SMTT(60) DEF SC!Expire
<1>8. ASSUME NEW c \in Callers, SC!DeleteListed(c) PROVE RedisInv'
  <2>1. PICK w : w = [call[c] EXCEPT !.op = "forget"]
    OBVIOUS
  <2>2. call[c].op = "drop" /\ Calling(call[c]) /\ ~call[c].added
    BY <1>1, <1>8 DEF SC!DeleteListed, Calling
  <2>3. Calling(w)
    BY <2>1, <2>2 DEF Calling
  <2>4. DOMAIN call' = Callers /\ \A x \in Callers : call'[x] = IF x = c THEN w ELSE call[x]
    BY <1>1, <1>8, <2>1 DEF SC!DeleteListed
  <2>5. /\ value' \in [Keys -> Int] /\ given' \in [Keys -> SUBSET Tags] /\ tagged' = tagged /\ loose' = loose
        /\ \A x \in Keys : \A t \in given'[x] : t \in given[x] /\ value'[x] = value[x]
    BY <1>1, <1>8 DEF SC!DeleteListed, SC!Absent
  <2>6. QED
    BY <1>1, <2>2, <2>3, <2>4, <2>5, KeysChange
<1>9. ASSUME NEW c \in Callers, NEW t \in Tags, SC!ListTag(c, t) PROVE RedisInv'
  <2>1. PICK w : w = [SC!Asleep EXCEPT !.op = "drop", !.tag = t, !.listed = tagged[t].keys]
    OBVIOUS
  <2>2. Calling(w)
    <3>1. w.op = "drop" /\ w.added = FALSE
      BY <2>1 DEF SC!Asleep
    <3>2. w = [op |-> w.op, key |-> w.key, tag |-> w.tag, ttl |-> w.ttl, added |-> w.added, todo |-> w.todo, listed |-> w.listed]
      BY <2>1 DEF SC!Asleep
    <3>3. QED
      BY <3>1, <3>2 DEF Calling
  <2>3. DOMAIN call' = Callers /\ \A x \in Callers : call'[x] = IF x = c THEN w ELSE call[x]
    BY <1>1, <1>9, <2>1 DEF SC!ListTag
  <2>4. ~call[c].added
    BY <1>1, <1>9 DEF Calling, SC!ListTag
  <2>5. value' = value /\ given' = given /\ tagged' = tagged /\ loose' = loose
    BY <1>9 DEF SC!ListTag
  <2>6. QED
    BY <1>1, <2>2, <2>3, <2>4, <2>5, KeysChange
<1>10. ASSUME NEW c \in Callers, NEW t \in Tags, SC!AddToTag(c, t) PROVE RedisInv'
  <2>1. PICK k \in Keys : k = call[c].key
    BY <1>1, <1>10 DEF SC!AddToTag, Calling
  <2>2. PICK w : w = [[call[c] EXCEPT !.tag = t] EXCEPT !.added = TRUE]
    OBVIOUS
  <2>3. Calling(w) /\ w.added /\ w.tag = t
    <3>1. call[c].op = "tag" /\ Calling(call[c])
      BY <1>1, <1>10 DEF SC!AddToTag
    <3>2. QED
      BY <2>2, <3>1 DEF Calling
  <2>4. DOMAIN call' = Callers /\ \A x \in Callers : call'[x] = IF x = c THEN w ELSE call[x]
    BY <1>1, <1>10, <2>2 DEF SC!AddToTag
  <2>5. ~call[c].added /\ value' = value /\ loose' = loose
    BY <1>10 DEF SC!AddToTag
  <2>6. tagged' = [tagged EXCEPT ![t].keys = @ \cup {k}]
    BY <1>10, <2>1 DEF SC!AddToTag
  <2>7. tagged' \in [Tags -> TagSets] /\ \A x \in Tags : tagged'[x].life = tagged[x].life /\ tagged'[x].keys = IF x = t THEN tagged[x].keys \cup {k} ELSE tagged[x].keys
    BY <1>1, <2>6 DEF TagSets
  <2>8. given' \in [Keys -> SUBSET Tags] /\ \A x \in Keys : given'[x] \in {given[x], IF x = k THEN given[x] \cup {t} ELSE given[x]}
    BY <1>1, <1>10, <2>1 DEF SC!AddToTag
  <2>9. RedisTypes(value, tagged', call', given')
    BY <1>1, <2>3, <2>4, <2>7, <2>8 DEF RedisTypes
  <2>10. ASSUME NEW x \in Keys, NEW s \in given'[x], SC!Live(value, x), s \notin loose
         PROVE  Tracked(value, x, s, tagged', call')
    <3>1. CASE s = t /\ x = k
      BY <2>3, <2>4, <2>7, <3>1 DEF Tracked, Awaited
    <3>2. CASE ~(s = t /\ x = k)
      <4>1. s \in given[x] /\ s \in Tags
        BY <2>8, <2>10, <3>2, <1>1
      <4>2. Tracked(value, x, s, tagged, call)
        BY <2>10, <4>1 DEF RedisInv, RedisTracks
      <4>3. Awaited(call, s) => Awaited(call', s)
        BY <2>4, <2>5 DEF Awaited
      <4>4. QED
        BY <2>7, <4>1, <4>2, <4>3 DEF Tracked, Lasts
    <3>3. QED
      BY <3>1, <3>2
  <2>11. QED
    BY <2>5, <2>9, <2>10 DEF RedisInv, RedisTracks
<1>11. ASSUME NEW c \in Callers, SC!ExpireTag(c) PROVE RedisInv'
  <2>1. PICK t, n : t = call[c].tag /\ n = call[c].ttl /\ call[c].added
    BY <1>11 DEF SC!ExpireTag
  <2>2. n \in Nat /\ Calling(call[c])
    BY <1>1, <2>1 DEF Calling
  <2>3. PICK w : w = SC!Onward(call[c], t)
    OBVIOUS
  <2>4. Calling(w)
    <3>1. CASE call[c].todo = {t}
      BY <2>3, <3>1 DEF SC!Onward, SC!Asleep, Calling
    <3>2. CASE call[c].todo # {t}
      <4>1. PICK o, y, g, m, a, d, l :
              call[c] = [op |-> o, key |-> y, tag |-> g, ttl |-> m, added |-> a, todo |-> d, listed |-> l]
        BY <2>2 DEF Calling
      <4>2. w = [call[c] EXCEPT !.todo = @ \ {t}, !.added = FALSE]
        BY <2>3, <3>2 DEF SC!Onward
      <4>3. w.added = FALSE /\ w.op = o /\ w.key = y /\ w.ttl = m
        BY <4>1, <4>2
      <4>4. w = [op |-> w.op, key |-> w.key, tag |-> w.tag, ttl |-> w.ttl, added |-> w.added, todo |-> w.todo, listed |-> w.listed]
        BY <4>1, <4>2
      <4>5. QED
        BY <2>2, <4>1, <4>3, <4>4 DEF Calling
    <3>3. QED
      BY <3>1, <3>2
  <2>5. DOMAIN call' = Callers /\ \A x \in Callers : call'[x] = IF x = c THEN w ELSE call[x]
    <3>1. call' = [call EXCEPT ![c] = w]
      BY <1>11, <2>1, <2>3 DEF SC!ExpireTag
    <3>2. QED
      BY <1>1, <3>1
  <2>6. value' = value /\ given' = given
    BY <1>11 DEF SC!ExpireTag
  <2>7. PICK u : u = IF n = 0 \/ tagged[t].keys = {} THEN SC!Nothing ELSE [tagged[t] EXCEPT !.life = n]
    OBVIOUS
  <2>8. tagged' = [tagged EXCEPT ![t] = u]
    BY <1>11, <2>1, <2>7 DEF SC!ExpireTag
  <2>9. t \in Tags => u \in TagSets
    <3>1. SC!Nothing \in TagSets
      BY DEF SC!Nothing, SC!Forever, TagSets, Lives
    <3>2. t \in Tags /\ n # 0 => [tagged[t] EXCEPT !.life = n] \in TagSets
      BY <1>1, <2>2 DEF TagSets, Lives
    <3>3. QED
      BY <2>7, <3>1, <3>2
  <2>10. tagged' \in [Tags -> TagSets] /\ \A x \in Tags : tagged'[x] = IF x = t THEN u ELSE tagged[x]
    BY <1>1, <2>8, <2>9
  <2>11. loose' = IF \E k \in Keys : SC!Outlives(k, t, n) THEN loose \cup {t} ELSE loose
    BY <1>11, <2>1 DEF SC!ExpireTag
  <2>12. ASSUME NEW k \in Keys, NEW s \in given[k], SC!Live(value, k), s \notin loose'
         PROVE  Tracked(value, k, s, tagged', call')
    <3>1. s \notin loose /\ s \in Tags
      BY <1>1, <2>11, <2>12
    <3>2. Tracked(value, k, s, tagged, call)
      BY <2>12, <3>1 DEF RedisInv, RedisTracks
    <3>3. CASE s # t
      <4>1. Awaited(call, s) => Awaited(call', s)
        BY <2>1, <2>5, <3>3 DEF Awaited
      <4>2. QED
        BY <2>10, <3>1, <3>2, <3>3, <4>1 DEF Tracked
    <3>4. CASE s = t
      <4>1. ~SC!Outlives(k, t, n)
        BY <2>11, <2>12, <3>4
      <4>2. value[k] # -1 /\ ~(value[k] > n)
        BY <2>12, <3>4, <4>1 DEF SC!Outlives, SC!Forever
      <4>3. value[k] \in Int /\ value[k] > 0 /\ value[k] <= n
        BY <1>1, <2>2, <2>12, <4>2 DEF SC!Live, SC!Forever
      <4>4. n # 0 /\ tagged[t].keys # {}
        BY <2>2, <3>2, <3>4, <4>3 DEF Tracked
      <4>5. tagged[t] \in TagSets
        BY <1>1, <3>1, <3>4
      <4>6. u.life = n /\ u.keys = tagged[t].keys
        BY <2>7, <4>4, <4>5 DEF TagSets
      <4>7. QED
        BY <2>10, <3>1, <3>2, <3>4, <4>2, <4>3, <4>6 DEF Tracked, Lasts
    <3>5. QED
      BY <3>3, <3>4
  <2>13. RedisTypes(value, tagged', call', given)
    BY <1>1, <2>4, <2>5, <2>10 DEF RedisTypes
  <2>14. QED
    BY <2>6, <2>12, <2>13 DEF RedisInv, RedisTracks
<1>12. ASSUME NEW c \in Callers, SC!DeleteTag(c) PROVE RedisInv'
  <2>1. PICK t : t = call[c].tag
    OBVIOUS
  <2>2. ~call[c].added
    BY <1>1, <1>12 DEF SC!DeleteTag, Calling
  <2>3. DOMAIN call' = Callers /\ \A x \in Callers : call'[x] = IF x = c THEN SC!Asleep ELSE call[x]
    BY <1>1, <1>12 DEF SC!DeleteTag
  <2>4. Calling(SC!Asleep)
    BY DEF SC!Asleep, Calling
  <2>5. SC!Nothing \in TagSets
    BY DEF SC!Nothing, SC!Forever, TagSets, Lives
  <2>6. tagged' = [tagged EXCEPT ![t] = SC!Nothing] /\ value' = value /\ given' = given
    BY <1>12, <2>1 DEF SC!DeleteTag
  <2>7. tagged' \in [Tags -> TagSets] /\ \A x \in Tags \ {t} : tagged'[x] = tagged[x]
    BY <1>1, <2>5, <2>6
  <2>8. loose' = IF \E k \in tagged[t].keys : t \in given[k] THEN loose \cup {t} ELSE loose
    BY <1>12, <2>1 DEF SC!DeleteTag
  <2>9. ASSUME NEW k \in Keys, NEW s \in given[k], SC!Live(value, k), s \notin loose'
        PROVE  Tracked(value, k, s, tagged', call')
    <3>1. s \notin loose /\ s \in Tags
      BY <1>1, <2>8, <2>9
    <3>2. Tracked(value, k, s, tagged, call)
      BY <2>9, <3>1 DEF RedisInv, RedisTracks
    <3>3. s # t
      BY <2>8, <2>9, <3>2 DEF Tracked
    <3>4. Awaited(call, s) => Awaited(call', s)
      BY <2>2, <2>3 DEF Awaited
    <3>5. QED
      BY <2>7, <3>1, <3>2, <3>3, <3>4 DEF Tracked
  <2>10. RedisTypes(value, tagged', call', given)
    BY <1>1, <2>3, <2>4, <2>7 DEF RedisTypes
  <2>11. QED
    BY <2>6, <2>9, <2>10 DEF RedisInv, RedisTracks
<1>13. CASE SC!ClearRedis
  <2>1. SC!Nothing \in TagSets
    BY DEF SC!Nothing, SC!Forever, TagSets, Lives
  <2>2. /\ value' \in [Keys -> Int] /\ tagged' \in [Tags -> TagSets] /\ given' \in [Keys -> SUBSET Tags]
        /\ call' = call /\ \A k \in Keys : given'[k] = {}
    BY <1>13, <2>1 DEF SC!ClearRedis, SC!Absent
  <2>3. QED
    BY <1>1, <2>2 DEF RedisInv, RedisTypes, RedisTracks
<1>14. CASE SC!RedisTick
  <2>1. PICK v : v = [k \in Keys |-> IF value[k] = 1 THEN SC!Absent ELSE IF value[k] > 1 THEN value[k] - 1 ELSE value[k]]
    OBVIOUS
  <2>2. PICK tg : tg = [t \in Tags |-> IF tagged[t].life = 1 THEN SC!Nothing
                          ELSE IF tagged[t].life > 1 THEN [tagged[t] EXCEPT !.life = @ - 1] ELSE tagged[t]]
    OBVIOUS
  <2>3. /\ value' = v /\ tagged' = tg /\ call' = call
        /\ given' = [k \in Keys |-> IF v[k] = SC!Absent THEN {} ELSE given[k]]
        /\ loose' = loose \cup {t \in Tags : tagged[t].life = 1 /\ Awaited(call, t)}
    BY <1>14, <2>1, <2>2 DEF SC!RedisTick, Awaited
  <2>4. v \in [Keys -> Int] /\ given' \in [Keys -> SUBSET Tags]
    BY <1>1, <2>1, <2>3 DEF SC!Absent
  <2>5. ASSUME NEW t \in Tags
        PROVE  /\ tg[t] \in TagSets
               /\ tagged[t].life # 1 => /\ tg[t].keys = tagged[t].keys
                                        /\ tagged[t].life = -1 => tg[t].life = -1
                                        /\ tagged[t].life # -1 => tg[t].life = tagged[t].life - 1
    <3>1. PICK ks \in SUBSET Keys, l \in Lives : tagged[t] = [keys |-> ks, life |-> l]
      BY <1>1 DEF TagSets
    <3>2. CASE l = 1
      BY <2>2, <3>1, <3>2 DEF SC!Nothing, SC!Forever, TagSets, Lives
    <3>3. CASE l > 1
      <4>1. tg[t] = [keys |-> ks, life |-> l - 1] /\ l - 1 \in Lives
        BY <2>2, <3>1, <3>3 DEF Lives
      <4>2. QED
        BY <3>1, <3>3, <4>1 DEF TagSets
    <3>4. CASE l = -1
      BY <2>2, <3>1, <3>4 DEF TagSets
    <3>5. QED
      BY <3>2, <3>3, <3>4 DEF Lives
  <2>6. tg \in [Tags -> TagSets]
    BY <2>2, <2>5
  <2>7. ASSUME NEW k \in Keys, NEW t \in given'[k], SC!Live(v, k), t \notin loose'
        PROVE  Tracked(v, k, t, tg, call)
    <3>1. t \in given[k] /\ t \in Tags /\ t \notin loose /\ value[k] \in Int
      BY <1>1, <2>3, <2>7
    <3>2. SC!Live(value, k) /\ value[k] # 1 /\ v[k] = IF value[k] > 1 THEN value[k] - 1 ELSE value[k]
      BY <2>1, <2>7, <3>1 DEF SC!Live, SC!Absent, SC!Forever
    <3>3. Tracked(value, k, t, tagged, call)
      BY <2>7, <3>1, <3>2 DEF RedisInv, RedisTracks
    <3>4. tagged[t].life # 1
      BY <2>3, <2>7, <3>1, <3>2, <3>3 DEF Tracked, Lasts, SC!Live, SC!Forever
    <3>5. tagged[t].life \in Lives
      BY <1>1, <3>1 DEF TagSets
    <3>6. Lasts(value, k, tagged[t]) => Lasts(v, k, tg[t])
      BY <2>5, <3>1, <3>2, <3>4, <3>5 DEF Lasts, Lives, SC!Live, SC!Forever
    <3>7. QED
      BY <2>5, <3>1, <3>3, <3>4, <3>6 DEF Tracked
  <2>8. RedisTypes(v, tg, call, given')
    BY <1>1, <2>4, <2>6 DEF RedisTypes
  <2>9. QED
    BY <2>3, <2>7, <2>8 DEF RedisInv, RedisTracks
<1>15. QED
  BY <1>3, <1>4, <1>5, <1>6, <1>7, <1>8, <1>9, <1>10, <1>11, <1>12, <1>13, <1>14 DEF SC!RedisNext

LEMMA RedisFinds == ASSUME RedisInv PROVE SC!TagsFindKeys
  BY DEF RedisInv, RedisTypes, RedisTracks, Tracked, SC!TagsFindKeys

-----------------------------------------------------------------------------
(***************************************************************************)
(* The five stores and the tags together.                                  *)
(***************************************************************************)
StoreInv == TuneInv /\ ShardInv /\ BatchInv /\ InsInv /\ RouteInv /\ RedisInv

(* Nothing is stored, asked or tuned yet. *)
LEMMA StoresStart == ASSUME MCInit PROVE StoreInv
<1>1. DB!Init /\ SC!CachesInit
  BY DEF MCInit
<1>2. TuneInv
  BY <1>1, DataAssumption DEF DB!Init, DB!TuneInit, TuneInv, Tunings, Tuners, DB!LimitStays
<1>3. ShardInv
  <2>1. PICK ty \in ShardTypes, h \in MCShardHashes :
          shard = [type |-> ty, hash |-> h, at |-> [k \in {} |-> 0], told |-> "none", asked |-> {}, keys |-> {}]
    BY <1>1 DEF DB!Init, DB!ShardInit
  <2>2. PICK f : f = [k \in {} |-> 0]
    OBVIOUS
  <2>3. DOMAIN f = {} /\ shard = [type |-> ty, hash |-> h, at |-> f, told |-> "none", asked |-> {}, keys |-> {}]
    BY <2>1, <2>2
  <2>4. /\ shard.type = ty /\ shard.hash = h /\ shard.at = f
        /\ shard.told = "none" /\ shard.asked = {} /\ shard.keys = {}
    BY <2>3
  <2>5. DB!ShardsSound
    BY <2>3, <2>4 DEF DB!ShardsSound, DB!RowsFindable
  <2>6. QED
    BY <2>3, <2>4, <2>5, DataAssumption DEF ShardInv
<1>4. BatchInv
  <2>1. PICK e, st, mt, hd : /\ e = <<>> /\ st = [r \in Requests |-> "none"]
                             /\ mt = [r \in Requests |-> {}] /\ hd = [t \in Texts |-> {}]
    OBVIOUS
  <2>2. bq = [queue |-> e, batch |-> e, todo |-> {}, state |-> st, mates |-> mt, held |-> hd]
    BY <1>1, <2>1 DEF DB!Init, DB!BatchInit
  <2>3. e \in Seq(Requests) /\ DOMAIN e = {} /\ Range(e) = {}
    BY <2>1 DEF Range
  <2>4. BqTypes(e, e, {}, st, mt, hd)
    BY <2>1, <2>3 DEF BqTypes, BqStates
  <2>5. InLine(e, e, {}, st, mt)
    BY <2>1, <2>3 DEF InLine, Pending
  <2>6. Together(st, mt, hd) /\ Own(st, mt)
    BY <2>1 DEF Together, Own, Asked
  <2>7. QED
    BY <2>2, <2>4, <2>5, <2>6 DEF BatchInv, BqOK
<1>5. InsInv
  <2>1. PICK e : e = <<>>
    OBVIOUS
  <2>2. ins = [buffer |-> e, table |-> e, inserted |-> 0, given |-> {}, doubted |-> {}, fails |-> 0]
    BY <1>1, <2>1 DEF DB!Init, DB!InsInit
  <2>3. e \in Seq(BatchRows) /\ Len(e) = 0 /\ Range(e) = {}
    BY <2>1 DEF Range
  <2>4. InsOK(e, e, 0, {}, {})
    BY <2>3 DEF InsOK, Kept
  <2>5. QED
    BY <2>2, <2>4 DEF InsInv
<1>6. RouteInv
  <2>1. PICK e, g : e = <<>> /\ g = [d \in Replicas |-> 0]
    OBVIOUS
  <2>2. route = [reads |-> e, writes |-> e, rc |-> 0, wc |-> 0, open |-> TRUE, got |-> g, shared |-> FALSE, picks |-> 0]
    BY <1>1, <2>1 DEF DB!Init, DB!RouteInit, DB!NoLoad
  <2>3. e \in Seq(Replicas) /\ DOMAIN e = {}
    BY <2>1
  <2>4. RouteOK(e, e, 0, g, 0)
    BY <2>1, <2>3 DEF RouteOK
  <2>5. QED
    BY <2>2, <2>4 DEF RouteInv
<1>7. RedisInv
  <2>1. value = [k \in Keys |-> -2] /\ given = [k \in Keys |-> {}]
    BY <1>1 DEF SC!CachesInit, SC!RedisInit, SC!Absent
  <2>2. tagged = [t \in Tags |-> SC!Nothing] /\ SC!Nothing \in TagSets
    BY <1>1 DEF SC!CachesInit, SC!RedisInit, SC!Nothing, SC!Forever, TagSets, Lives
  <2>3. DOMAIN call = Callers /\ \A c \in Callers : call[c] = SC!Asleep
    BY <1>1 DEF SC!CachesInit, SC!RedisInit
  <2>4. Calling(SC!Asleep)
    BY DEF SC!Asleep, Calling
  <2>5. QED
    BY <2>1, <2>2, <2>3, <2>4 DEF RedisInv, RedisTypes, RedisTracks
<1>8. QED
  BY <1>2, <1>3, <1>4, <1>5, <1>6, <1>7 DEF StoreInv

(* One of them takes a step, or none. *)
LEMMA StoresStep == ASSUME StoreInv, [MCNext]_mcVars PROVE StoreInv'
<1>1. UNCHANGED tune => TuneInv'
  BY DEF StoreInv, TuneInv, DB!LimitStays
<1>2. UNCHANGED shard => ShardInv'
  BY DEF StoreInv, ShardInv, DB!ShardsSound, DB!RowsFindable, DB!IndexOf
<1>3. UNCHANGED bq => BatchInv'
  BY DEF StoreInv, BatchInv
<1>4. UNCHANGED ins => InsInv'
  BY DEF StoreInv, InsInv
<1>5. UNCHANGED route => RouteInv'
  BY DEF StoreInv, RouteInv
<1>6. UNCHANGED redisVars => RedisInv'
  BY DEF StoreInv, RedisInv, redisVars
<1>7. CASE OnRedis(SC!RedisNext)
  BY <1>1, <1>2, <1>3, <1>4, <1>5, <1>7, RedisStep DEF OnRedis, dbVars, StoreInv
<1>8. CASE UNCHANGED mcVars \/ OnRecords(Next) \/ OnMigrations(Mig!Next) \/ OnSharded(SC!ShardedNext)
  <2>1. UNCHANGED <<dbVars, redisVars>>
    BY <1>8 DEF mcVars, OnRecords, OnMigrations, OnSharded
  <2>2. QED
    BY <1>1, <1>2, <1>3, <1>4, <1>5, <1>6, <2>1 DEF dbVars, StoreInv
<1>9. CASE OnStore("route", DB!RouteNext, <<ins, bq, shard, tune>>)
  BY <1>1, <1>2, <1>3, <1>4, <1>6, <1>9, RouteStep DEF OnStore, StoreInv
<1>10. CASE OnStore("ins", DB!InsNext, <<route, bq, shard, tune>>)
  BY <1>1, <1>2, <1>3, <1>5, <1>6, <1>10, InsStep DEF OnStore, StoreInv
<1>11. CASE OnStore("bq", DB!BatchNext, <<route, ins, shard, tune>>)
  BY <1>1, <1>2, <1>4, <1>5, <1>6, <1>11, BatchStep DEF OnStore, StoreInv
<1>12. CASE OnStore("shard", DB!ShardNext, <<route, ins, bq, tune>>)
  BY <1>1, <1>3, <1>4, <1>5, <1>6, <1>12, ShardStep DEF OnStore, StoreInv
<1>13. CASE OnStore("tune", DB!TuneNext, <<route, ins, bq, shard>>)
  BY <1>2, <1>3, <1>4, <1>5, <1>6, <1>13, TuneStep DEF OnStore, StoreInv
<1>14. QED
  BY <1>7, <1>8, <1>9, <1>10, <1>11, <1>12, <1>13 DEF MCNext

(* What the helpers over a database and the tags of the shared cache keep, *)
(* for any replicas, rows, requests, keys, hashes, sizes and failures:     *)
(* readers share the reads evenly (db.go:253), a batched row is stored     *)
(* once (batch.go:154), a batched query gets its own rows (batch.go:98),   *)
(* BatchInsert tells of every row it did not store (sharding.go:285), no   *)
(* tuner lifts the limit of a pool (monitor.go:116), and a tag finds its   *)
(* keys (redis_cache.go:191).                                              *)
THEOREM StoresAreSound == MCSpec => []StoresSound
<1>1. MCInit => StoreInv
  BY StoresStart
<1>2. StoreInv /\ [MCNext]_mcVars => StoreInv'
  BY StoresStep
<1>3. StoreInv => StoresSound
  <2> SUFFICES ASSUME StoreInv PROVE StoresSound
    OBVIOUS
  <2>1. DB!LimitStays /\ DB!ShardsSound
    BY DEF StoreInv, TuneInv, ShardInv
  <2>2. DB!AnswersOwn /\ DB!RowsConserved /\ DB!ReadersEven
    BY BatchAnswers, InsConserves, ReadersAreEven DEF StoreInv
  <2>3. SC!TagsFindKeys
    BY RedisFinds DEF StoreInv
  <2>4. QED
    BY <2>1, <2>2, <2>3 DEF StoresSound, DB!DatabaseSound
<1>4. QED
  BY <1>1, <1>2, <1>3, PTL DEF MCSpec

-----------------------------------------------------------------------------
(***************************************************************************)
(* ShardedCache.  The number of a shard is a sum of bits of the mask.       *)
(***************************************************************************)

Bit == [i \in 0..30 |-> 2^i]

LEMMA Doubles == /\ Bit[0] = 1 /\ \A i \in 0..30 : Bit[i] \in Nat \ {0}
                 /\ \A i \in 0..29 : Bit[i + 1] = 2 * Bit[i]
<1>1. /\ Bit[0] = 1 /\ Bit[1] = 2 /\ Bit[2] = 4
      /\ Bit[3] = 8 /\ Bit[4] = 16 /\ Bit[5] = 32
      /\ Bit[6] = 64 /\ Bit[7] = 128 /\ Bit[8] = 256
      /\ Bit[9] = 512 /\ Bit[10] = 1024 /\ Bit[11] = 2048
      /\ Bit[12] = 4096 /\ Bit[13] = 8192 /\ Bit[14] = 16384
      /\ Bit[15] = 32768 /\ Bit[16] = 65536 /\ Bit[17] = 131072
      /\ Bit[18] = 262144 /\ Bit[19] = 524288 /\ Bit[20] = 1048576
      /\ Bit[21] = 2097152 /\ Bit[22] = 4194304 /\ Bit[23] = 8388608
      /\ Bit[24] = 16777216 /\ Bit[25] = 33554432 /\ Bit[26] = 67108864
      /\ Bit[27] = 134217728 /\ Bit[28] = 268435456 /\ Bit[29] = 536870912
      /\ Bit[30] = 1073741824
  BY DEF Bit
<1>2. ASSUME NEW i \in 0..9 PROVE Bit[i + 1] = 2 * Bit[i] /\ Bit[i] \in Nat \ {0}
  <2>1. i = 0 \/ i = 1 \/ i = 2 \/ i = 3 \/ i = 4 \/ i = 5 \/ i = 6 \/ i = 7 \/ i = 8 \/ i = 9
    OBVIOUS
  <2>2. QED
    BY <1>1, <2>1
<1>3. ASSUME NEW i \in 10..19 PROVE Bit[i + 1] = 2 * Bit[i] /\ Bit[i] \in Nat \ {0}
  <2>1. i = 10 \/ i = 11 \/ i = 12 \/ i = 13 \/ i = 14 \/ i = 15 \/ i = 16 \/ i = 17 \/ i = 18 \/ i = 19
    OBVIOUS
  <2>2. QED
    BY <1>1, <2>1
<1>4. ASSUME NEW i \in 20..29 PROVE Bit[i + 1] = 2 * Bit[i] /\ Bit[i] \in Nat \ {0}
  <2>1. i = 20 \/ i = 21 \/ i = 22 \/ i = 23 \/ i = 24 \/ i = 25 \/ i = 26 \/ i = 27 \/ i = 28 \/ i = 29
    OBVIOUS
  <2>2. QED
    BY <1>1, <2>1
<1>5. 0..29 = 0..9 \cup 10..19 \cup 20..29 /\ 0..30 = 0..29 \cup {30}
  OBVIOUS
<1>6. QED
  BY <1>1, <1>2, <1>3, <1>4, <1>5

LEMMA BitsOf == ASSUME NEW n PROVE SC!Bits(n) = {i \in 0..30 : (n \div Bit[i]) % 2 = 1}
  BY DEF SC!Bits, Bit

(* The sum of ShardedCache is that of Bit. *)
AddsBits(sum, S) == sum = [s \in SUBSET S |-> IF s = {} THEN 0 ELSE 2^Pick(s) + sum[s \ {Pick(s)}]]

LEMMA SumOfBits ==
    ASSUME NEW S \in SUBSET (0..30), IsFiniteSet(S)
    PROVE  SC!MapThenSumSet(LAMBDA i : 2^i, S) = Total(Bit, S)
<1>1. ASSUME NEW u, NEW s \in SUBSET S
      PROVE  (IF s = {} THEN 0 ELSE 2^Pick(s) + u[s \ {Pick(s)}]) = (IF s = {} THEN 0 ELSE Bit[Pick(s)] + u[s \ {Pick(s)}])
  <2>1. s # {} => Pick(s) \in 0..30
    BY DEF Pick
  <2>2. QED
    BY <2>1 DEF Bit
<1>2. \A u : AddsBits(u, S) <=> Adds(u, Bit, S)
  BY <1>1 DEF AddsBits, Adds
<1>3. PICK v : v = CHOOSE u : AddsBits(u, S)
  OBVIOUS
<1>4. Adds(v, Bit, S)
  BY <1>2, <1>3, AddsExists
<1>5. PICK w : w = CHOOSE u : Adds(u, Bit, S)
  OBVIOUS
<1>6. Adds(w, Bit, S)
  BY <1>5, AddsExists
<1>7. v[S] = w[S]
  BY <1>4, <1>6, AddsOnce
<1>8. SC!MapThenSumSet(LAMBDA i : 2^i, S) = (CHOOSE u : AddsBits(u, S))[S]
  BY DEF SC!MapThenSumSet, SC!MapThenFoldSet, AddsBits, Pick
<1>9. QED
  BY <1>3, <1>5, <1>7, <1>8, Unfold

(* A number, its quotient and its remainder, and what is odd in the quotient. *)
LEMMA Divided ==
    ASSUME NEW n \in Nat, NEW b \in Nat \ {0}
    PROVE  \E q \in Nat, r \in 0..b - 1, e \in 0..1 :
              q = n \div b /\ r = n % b /\ e = q % 2 /\ n = b * q + r /\ e <= q
<1>1. PICK q \in Nat : q = n \div b
  BY Quotient
<1>2. n % b \in 0..b - 1 /\ n = b * (n \div b) + (n % b)
  OBVIOUS
<1>3. q % 2 \in 0..1 /\ q % 2 <= q
  OBVIOUS
<1>4. QED
  BY <1>1, <1>2, <1>3

(* A remainder has the next bit, or it has not. *)
LEMMA HalfRemainder ==
    ASSUME NEW n \in Nat, NEW b \in Nat \ {0}
    PROVE  n % (2 * b) = (n % b) + b * ((n \div b) % 2)
<1>1. PICK q \in Nat, r \in 0..b - 1 : q = n \div b /\ r = n % b /\ n = b * q + r
  BY Divided
<1>2. PICK h \in Nat, e \in 0..1 : e = q % 2 /\ q = 2 * h + e
  BY <1>1
<1>3. e = 0 \/ e = 1
  OBVIOUS
<1>4. PICK y \in Nat : y = b * e /\ (y = 0 \/ y = b)
  <2>1. b * e = 0 \/ b * e = b
    BY <1>3
  <2>2. QED
    BY <2>1
<1>5. PICK x \in Nat : x = (2 * b) * h
  <2>1. (2 * b) * h \in Nat
    OBVIOUS
  <2>2. QED
    BY <2>1
<1>6. n = x + (y + r)
  <2>1. b * (2 * h + e) = (2 * b) * h + b * e
    BY Z3
  <2>2. b * q = x + y
    BY <1>2, <1>4, <1>5, <2>1
  <2>3. b * q \in Nat /\ n = (x + y) + r
    BY <1>1, <2>2
  <2>4. QED
    BY <2>3
<1>7. y + r \in 0..2 * b - 1 /\ 2 * b \in Nat \ {0}
  BY <1>4
<1>8. ((2 * b) * h + (y + r)) % (2 * b) = y + r
  <2> HIDE <1>1, <1>2, <1>3, <1>4, <1>5, <1>6
  <2> QED
    BY <1>7, Remainder
<1>9. n % (2 * b) = r + y
  BY <1>5, <1>6, <1>8
<1>10. QED
  BY <1>1, <1>2, <1>4, <1>9

(* The bits of a number, below some bit, are what it is modulo that bit. *)
LEMMA BitsAddUp ==
    ASSUME NEW n \in Nat
    PROVE  IsFiniteSet(SC!Bits(n)) /\ Total(Bit, SC!Bits(n)) \in Nat /\ Total(Bit, SC!Bits(n)) <= n
<1> DEFINE To(m) == {i \in SC!Bits(n) : i < m}
           T == {m \in Nat : m <= 30 => Total(Bit, To(m)) = n % Bit[m]}
<1>1. SC!Bits(n) \subseteq 0..30 /\ IsFiniteSet(0..30)
  <2>1. \A a \in Int, b \in Int : IsFiniteSet(a..b)
    BY FS_Interval
  <2>2. PICK a \in Int, b \in Int : a = 0 /\ b = 30
    OBVIOUS
  <2>3. SC!Bits(n) \subseteq a..b /\ a..b = 0..30
    BY <2>2 DEF SC!Bits
  <2>4. QED
    BY <2>1, <2>3
<1>2. \A S \in SUBSET SC!Bits(n) : IsFiniteSet(S)
  BY <1>1, FS_Subset
<1>3. \A i \in 0..30 : Bit[i] \in Nat \ {0}
  BY Doubles
<1>4. ASSUME NEW m \in 0..30, NEW b, b = Bit[m], Total(Bit, To(m)) = n % b
      PROVE  Total(Bit, To(m + 1)) = (n % b) + b * ((n \div b) % 2)
  <2>1. b \in Nat \ {0}
    BY <1>3, <1>4
  <2>2. PICK r \in Nat, e \in 0..1 : r = n % b /\ e = (n \div b) % 2
    BY <2>1, Divided
  <2>3. m \in SC!Bits(n) <=> e = 1
    BY <1>4, <2>2, BitsOf
  <2>4. CASE e = 1
    <3>1. To(m + 1) = To(m) \cup {m} /\ m \notin To(m) /\ To(m) \in SUBSET SC!Bits(n)
      BY <1>1, <2>3, <2>4
    <3>2. \A y \in To(m) \cup {m} : Bit[y] \in Int
      BY <1>1, <1>3, <3>1
    <3>3. Total(Bit, To(m) \cup {m}) = Total(Bit, To(m)) + Bit[m]
      <4> HIDE DEF To
      <4> QED
        BY <1>2, <3>1, <3>2, TotalAdd, ZenonT(60)
    <3>4. b * e = b
      BY <2>1, <2>4
    <3>5. QED
      BY <1>4, <2>2, <3>1, <3>3, <3>4
  <2>5. CASE e = 0
    <3>1. To(m + 1) = To(m)
      BY <1>1, <2>3, <2>5
    <3>2. b * e = 0 /\ r + 0 = r
      BY <2>1, <2>2, <2>5
    <3>3. QED
      BY <1>4, <2>2, <3>1, <3>2
  <2>6. QED
    BY <2>4, <2>5
<1>5. 0 \in T
  <2>1. To(0) = {} /\ Bit[0] = 1 /\ n % 1 = 0
    BY <1>1, Doubles
  <2>2. QED
    BY <2>1, TotalSteps
<1>6. ASSUME NEW m \in Nat, m \in T PROVE m + 1 \in T
  <2>1. SUFFICES ASSUME m + 1 <= 30 PROVE Total(Bit, To(m + 1)) = n % Bit[m + 1]
    OBVIOUS
  <2>2. PICK b : b = Bit[m] /\ Bit[m + 1] = 2 * b /\ b \in Nat \ {0}
    BY <2>1, <1>3, Doubles, SMTT(60)
  <2>3. m \in 0..30 /\ Total(Bit, To(m)) = n % b
    BY <1>6, <2>1, <2>2
  <2>4. Total(Bit, To(m + 1)) = (n % b) + b * ((n \div b) % 2)
    BY <1>4, <2>2, <2>3
  <2>5. n % (2 * b) = (n % b) + b * ((n \div b) % 2)
    BY <2>2, HalfRemainder
  <2>6. QED
    BY <2>2, <2>4, <2>5
<1>7. Nat \subseteq T
  <2> HIDE DEF T
  <2> QED
    BY <1>5, <1>6, Induction
<1>8. PICK b : b = Bit[30] /\ b \in Nat \ {0}
  BY <1>3
<1>9. Total(Bit, SC!Bits(n)) = (n % b) + b * ((n \div b) % 2)
  <2>1. 30 \in 0..30 /\ 30 \in T
    BY <1>7
  <2>2. Total(Bit, To(30)) = n % b
    BY <1>8, <2>1
  <2>3. Total(Bit, To(30 + 1)) = (n % b) + b * ((n \div b) % 2)
    BY <1>4, <1>8, <2>1, <2>2
  <2>4. To(30 + 1) = SC!Bits(n)
    BY <1>1
  <2>5. QED
    BY <2>3, <2>4
<1>10. PICK q \in Nat, r \in Nat, e \in 0..1 :
         Total(Bit, SC!Bits(n)) = r + b * e /\ n = b * q + r /\ e <= q
  <2>1. PICK q \in Nat, r \in 0..b - 1, e \in 0..1 :
          q = n \div b /\ r = n % b /\ e = q % 2 /\ n = b * q + r /\ e <= q
    BY <1>8, Divided
  <2>2. Total(Bit, SC!Bits(n)) = r + b * e
    BY <1>9, <2>1
  <2>3. QED
    BY <2>1, <2>2
<1>11. b * e <= b * q
  BY <1>8, <1>10, ProductGrows
<1>12. b * e \in Nat /\ b * q \in Nat
  BY <1>8
<1>13. QED
  BY <1>1, <1>2, <1>10, <1>11, <1>12

(* A hash and the mask share a number no greater than the mask.  *)
LEMMA IndexInShards == \A k \in Keys : SC!ShardIndex(k) \in SC!Shards
<1>1. TAKE k \in Keys
<1>2. PICK n \in Nat : n = CacheShards - 1
  BY DataAssumption
<1>3. PICK S : S = SC!Bits(Hash[k]) \cap SC!Bits(n)
  OBVIOUS
<1>4. SC!ShardIndex(k) = Total(Bit, S)
  <2>1. SC!ShardIndex(k) = SC!MapThenSumSet(LAMBDA i : 2^i, S)
    BY <1>2, <1>3 DEF SC!ShardIndex, SC!ShardOf
  <2>2. S \in SUBSET (0..30) /\ IsFiniteSet(S)
    BY <1>2, <1>3, BitsAddUp, FS_Subset DEF SC!Bits
  <2>3. QED
    BY <2>1, <2>2, SumOfBits
<1>5. S \in SUBSET SC!Bits(n) /\ \A i \in SC!Bits(n) : Bit[i] \in Nat
  BY <1>3, Doubles DEF SC!Bits
<1>6. IsFiniteSet(SC!Bits(n)) /\ Total(Bit, SC!Bits(n)) <= n /\ Total(Bit, SC!Bits(n)) \in Nat
  BY BitsAddUp
<1>7. Total(Bit, S) \in Nat /\ Total(Bit, S) <= Total(Bit, SC!Bits(n))
  BY <1>5, <1>6, TotalNat
<1>8. QED
  BY <1>2, <1>4, <1>6, <1>7 DEF SC!Shards

(* What a call on many keys does to one shard. *)
LastSet(a, S, n) == UNION {UNION {SC!Puts(m, k, n) : m \in a[S \ {k}]} : k \in S}
Follows(a, l, K, n) == a = [S \in SUBSET K |-> IF S = {} THEN {l} ELSE LastSet(a, S, n)]

LEMMA SameKeysBefore ==
    ASSUME NEW a, NEW b, NEW S, NEW n, \A k \in S : a[S \ {k}] = b[S \ {k}]
    PROVE  LastSet(a, S, n) = LastSet(b, S, n)
<1>1. \A x : x \in LastSet(a, S, n) <=> \E k \in S : \E m \in a[S \ {k}] : x \in SC!Puts(m, k, n)
  BY DEF LastSet
<1>2. \A x : x \in LastSet(b, S, n) <=> \E k \in S : \E m \in b[S \ {k}] : x \in SC!Puts(m, k, n)
  BY DEF LastSet
<1>3. QED
  BY <1>1, <1>2

LEMMA AfterSteps ==
    ASSUME NEW l, NEW K, IsFiniteSet(K), NEW n
    PROVE  Follows(SC!After(l, K, n), l, K, n)
<1> DEFINE Small(m) == {S \in SUBSET K : Cardinality(S) <= m}
           Upto(a, m) == a = [S \in Small(m) |-> IF S = {} THEN {l} ELSE LastSet(a, S, n)]
           T == {m \in Nat : \E a : Upto(a, m)}
<1>1. \A S \in SUBSET K : IsFiniteSet(S) /\ Cardinality(S) \in Nat
  BY FS_Subset, FS_CardinalityType
<1>2. 0 \in T
  <2>1. \A S \in Small(0) : S = {}
    BY <1>1, FS_EmptySet
  <2>2. PICK a : a = [S \in Small(0) |-> {l}]
    OBVIOUS
  <2>3. Upto(a, 0)
    BY <2>1, <2>2
  <2>4. QED
    BY <2>3
<1>3. ASSUME NEW m \in Nat, m \in T PROVE m + 1 \in T
  <2>1. PICK a : Upto(a, m)
    BY <1>3
  <2>2. PICK b : b = [S \in Small(m + 1) |-> IF S = {} THEN {l} ELSE LastSet(a, S, n)]
    OBVIOUS
  <2>3. Small(m) \subseteq Small(m + 1)
    BY <1>1
  <2>4. \A S \in Small(m) : b[S] = a[S]
    BY <2>1, <2>2, <2>3
  <2>5. ASSUME NEW S \in Small(m + 1), S # {} PROVE LastSet(a, S, n) = LastSet(b, S, n)
    <3>1. ASSUME NEW k \in S PROVE S \ {k} \in Small(m)
      <4>1. Cardinality(S \ {k}) = Cardinality(S) - 1 /\ Cardinality(S) \in Nat
        BY <1>1, FS_RemoveElement
      <4>2. QED
        BY <4>1
    <3>2. \A k \in S : a[S \ {k}] = b[S \ {k}]
      BY <2>4, <3>1
    <3>3. QED
      BY <3>2, SameKeysBefore
  <2>6. Upto(b, m + 1)
    BY <2>2, <2>5
  <2>7. QED
    <3> HIDE DEF Upto
    <3> QED
      BY <2>6
<1>4. Cardinality(K) \in T
  <2> HIDE DEF T
  <2> QED
    BY <1>1, <1>2, <1>3, Induction
<1>5. Small(Cardinality(K)) = SUBSET K
  <2>1. \A S \in SUBSET K : Cardinality(S) <= Cardinality(K)
    BY FS_Subset
  <2>2. QED
    BY <2>1
<1>6. PICK a : Follows(a, l, K, n)
  BY <1>4, <1>5 DEF Follows
<1>7. SC!After(l, K, n) = CHOOSE x : Follows(x, l, K, n)
  BY DEF SC!After, Follows, LastSet
<1>8. QED
  BY <1>6, <1>7

-----------------------------------------------------------------------------
Times == {t \in Int : t >= -2}

(* Of a shard that was l and is r: it holds the keys of K as they were set, *)
(* none that it did not hold before, and it has not grown over its limit.   *)
Wrote(l, r, K) ==
    /\ r \in [Keys -> Times]
    /\ \A j \in Keys : /\ j \in K \/ r[j] = l[j] \/ r[j] = -2
                       /\ r[j] # l[j] => \E k \in K : SC!ShardIndex(k) = SC!ShardIndex(j)
    /\ MaxSize > 0 => \A s \in SC!Shards : SC!Excess(r)[s] <= SC!Excess(l)[s]

LEMMA ShardCounts == \A S : SC!Cardinality(S) = Cardinality(S)
  BY DEF SC!Cardinality, Cardinality

LEMMA Excesses ==
    ASSUME NEW l, NEW s \in SC!Shards
    PROVE  /\ SC!In(l, s) \subseteq Keys /\ IsFiniteSet(SC!In(l, s)) /\ Cardinality(SC!In(l, s)) \in Nat
           /\ SC!Excess(l)[s] \in Nat
           /\ SC!Excess(l)[s] = IF Cardinality(SC!In(l, s)) > MaxSize THEN Cardinality(SC!In(l, s)) - MaxSize ELSE 0
<1>1. SC!In(l, s) \subseteq Keys /\ IsFiniteSet(Keys) /\ MaxSize \in Int
  BY DataAssumption DEF SC!In, SC!Present
<1>2. IsFiniteSet(SC!In(l, s)) /\ Cardinality(SC!In(l, s)) \in Nat
  BY <1>1, FS_Subset, FS_CardinalityType
<1>3. PICK n \in Nat : n = Cardinality(SC!In(l, s))
  BY <1>2
<1>4. SC!Excess(l)[s] = IF n - MaxSize > 0 THEN n - MaxSize ELSE 0
  BY <1>3, ShardCounts DEF SC!Excess
<1>5. QED
  BY <1>1, <1>2, <1>3, <1>4

(* A shard with fewer keys is not further over its limit. *)
LEMMA FewerKeys ==
    ASSUME NEW l, NEW r, NEW s \in SC!Shards, SC!In(r, s) \subseteq SC!In(l, s)
    PROVE  SC!Excess(r)[s] <= SC!Excess(l)[s]
<1>1. Cardinality(SC!In(r, s)) <= Cardinality(SC!In(l, s))
  BY Excesses, FS_Subset
<1>2. MaxSize \in Int
  BY DataAssumption
<1>3. QED
  BY <1>1, <1>2, Excesses

LEMMA OneMore ==
    ASSUME NEW R, IsFiniteSet(R), NEW k
    PROVE  /\ IsFiniteSet(R \cup {k}) /\ Cardinality(R \cup {k}) \in Nat
           /\ Cardinality(R \cup {k}) <= Cardinality(R) + 1
<1>1. Cardinality(R) \in Nat
  BY FS_CardinalityType
<1>2. k \in R => IsFiniteSet(R \cup {k}) /\ Cardinality(R \cup {k}) = Cardinality(R)
  <2>1. k \in R => R \cup {k} = R
    OBVIOUS
  <2>2. QED
    BY <2>1
<1>3. k \notin R => IsFiniteSet(R \cup {k}) /\ Cardinality(R \cup {k}) = Cardinality(R) + 1
  BY FS_AddElement
<1>4. QED
  BY <1>1, <1>2, <1>3

LEMMA PutWrites ==
    ASSUME NEW l \in [Keys -> Times], NEW k \in Keys, NEW n \in Nat, NEW r \in SC!Puts(l, k, n)
    PROVE  Wrote(l, r, {k})
<1>1. PICK q \in SC!Shards : q = SC!ShardIndex(k)
  BY IndexInShards
<1>2. PICK m \in SC!Room(l, q) : r = [m EXCEPT ![k] = SC!Left(n)]
  BY <1>1 DEF SC!Puts
<1>3. SC!Left(n) \in Times /\ SC!Left(n) # -2 /\ -2 \in Times /\ SC!Absent = -2
  BY DEF SC!Left, SC!Forever, SC!Absent, Times
<1>4. MaxSize \in Int
  BY DataAssumption
<1>5. CASE SC!Full(l, q)
  <2>1. PICK e \in SC!In(l, q) : m = [l EXCEPT ![e] = -2]
    BY <1>2, <1>3, <1>5 DEF SC!Room, SC!Soonest
  <2>2. e \in Keys /\ SC!ShardIndex(e) = q /\ l[e] # -2
    BY <1>3 DEF SC!In, SC!Present
  <2>3. /\ r \in [Keys -> Times] /\ r[k] = SC!Left(n)
        /\ \A j \in Keys \ {k} : r[j] = IF j = e THEN -2 ELSE l[j]
    BY <1>2, <1>3, <2>1, <2>2
  <2>4. ASSUME NEW s \in SC!Shards PROVE SC!Excess(r)[s] <= SC!Excess(l)[s]
    <3>1. CASE s # q
      <4>1. SC!In(r, s) \subseteq SC!In(l, s)
        BY <1>1, <1>3, <2>2, <2>3, <3>1 DEF SC!In, SC!Present
      <4>2. QED
        BY <4>1, FewerKeys
    <3>2. CASE s = q
      <4>1. PICK R : R = SC!In(l, s) \ {e}
        OBVIOUS
      <4>2. IsFiniteSet(R) /\ Cardinality(R) = Cardinality(SC!In(l, s)) - 1 /\ Cardinality(SC!In(l, s)) \in Nat
        BY <2>1, <3>2, <4>1, Excesses, FS_RemoveElement
      <4>3. IsFiniteSet(R \cup {k}) /\ Cardinality(R \cup {k}) <= Cardinality(R) + 1 /\ Cardinality(R \cup {k}) \in Nat
        BY <4>2, OneMore
      <4>4. SC!In(r, s) \subseteq R \cup {k}
        BY <1>1, <1>3, <2>2, <2>3, <3>2, <4>1 DEF SC!In, SC!Present
      <4>5. Cardinality(SC!In(r, s)) <= Cardinality(R \cup {k}) /\ Cardinality(SC!In(r, s)) \in Nat
        BY <4>3, <4>4, FS_Subset, Excesses
      <4>6. Cardinality(SC!In(r, s)) <= Cardinality(SC!In(l, s))
        BY <4>2, <4>3, <4>5, FS_CardinalityType
      <4>7. QED
        BY <1>4, <4>6, Excesses
    <3>3. QED
      BY <3>1, <3>2
  <2>5. QED
    BY <1>1, <2>2, <2>3, <2>4 DEF Wrote
<1>6. CASE ~SC!Full(l, q)
  <2>1. m = l
    BY <1>2, <1>6 DEF SC!Room
  <2>2. /\ r \in [Keys -> Times] /\ r[k] = SC!Left(n)
        /\ \A j \in Keys \ {k} : r[j] = l[j]
    BY <1>2, <1>3, <2>1
  <2>3. ASSUME MaxSize > 0, NEW s \in SC!Shards PROVE SC!Excess(r)[s] <= SC!Excess(l)[s]
    <3>1. CASE s # q
      <4>1. SC!In(r, s) \subseteq SC!In(l, s)
        BY <1>1, <1>3, <2>2, <3>1 DEF SC!In, SC!Present
      <4>2. QED
        BY <4>1, FewerKeys
    <3>2. CASE s = q
      <4>1. PICK R : R = SC!In(l, s)
        OBVIOUS
      <4>2. IsFiniteSet(R) /\ Cardinality(R) < MaxSize /\ Cardinality(R) \in Nat
        BY <1>4, <1>6, <2>3, <3>2, <4>1, Excesses, ShardCounts DEF SC!Full
      <4>3. IsFiniteSet(R \cup {k}) /\ Cardinality(R \cup {k}) <= Cardinality(R) + 1 /\ Cardinality(R \cup {k}) \in Nat
        BY <4>2, OneMore
      <4>4. SC!In(r, s) \subseteq R \cup {k}
        BY <1>1, <1>3, <2>2, <3>2, <4>1 DEF SC!In, SC!Present
      <4>5. Cardinality(SC!In(r, s)) <= Cardinality(R \cup {k}) /\ Cardinality(SC!In(r, s)) \in Nat
        BY <4>3, <4>4, FS_Subset, Excesses
      <4>6. ~(Cardinality(SC!In(r, s)) > MaxSize)
        BY <1>4, <4>2, <4>3, <4>5
      <4>7. SC!Excess(r)[s] = 0 /\ SC!Excess(l)[s] \in Nat
        BY <4>6, Excesses
      <4>8. QED
        BY <4>7
    <3>3. QED
      BY <3>1, <3>2
  <2>4. QED
    BY <1>1, <2>2, <2>3 DEF Wrote
<1>7. QED
  BY <1>5, <1>6

(* One call sets keys one after the other. *)
LEMMA WritesAfter ==
    ASSUME NEW l, NEW m, NEW r, NEW K, NEW k \in Keys, l \in [Keys -> Times],
           Wrote(l, m, K), Wrote(m, r, {k})
    PROVE  Wrote(l, r, K \cup {k})
<1>1. r \in [Keys -> Times] /\ m \in [Keys -> Times]
  BY DEF Wrote
<1>2. ASSUME NEW j \in Keys
      PROVE  /\ j \in K \cup {k} \/ r[j] = l[j] \/ r[j] = -2
             /\ r[j] # l[j] => \E i \in K \cup {k} : SC!ShardIndex(i) = SC!ShardIndex(j)
  <2>1. /\ j \in K \/ m[j] = l[j] \/ m[j] = -2
        /\ m[j] # l[j] => \E i \in K : SC!ShardIndex(i) = SC!ShardIndex(j)
    BY DEF Wrote
  <2>2. /\ j \in {k} \/ r[j] = m[j] \/ r[j] = -2
        /\ r[j] # m[j] => \E i \in {k} : SC!ShardIndex(i) = SC!ShardIndex(j)
    BY DEF Wrote
  <2>3. QED
    BY <2>1, <2>2
<1>3. ASSUME MaxSize > 0, NEW s \in SC!Shards PROVE SC!Excess(r)[s] <= SC!Excess(l)[s]
  <2>1. SC!Excess(r)[s] <= SC!Excess(m)[s] /\ SC!Excess(m)[s] <= SC!Excess(l)[s]
    BY <1>3 DEF Wrote
  <2>2. SC!Excess(r)[s] \in Nat /\ SC!Excess(m)[s] \in Nat /\ SC!Excess(l)[s] \in Nat
    BY Excesses
  <2>3. QED
    BY <2>1, <2>2
<1>4. QED
  BY <1>1, <1>2, <1>3 DEF Wrote

LEMMA AfterWrites ==
    ASSUME NEW l \in [Keys -> Times], NEW K \in SUBSET Keys, NEW n \in Nat, NEW r \in SC!After(l, K, n)[K]
    PROVE  Wrote(l, r, K)
<1> DEFINE a == SC!After(l, K, n)
           T == {m \in Nat : \A S \in SUBSET K : Cardinality(S) <= m => \A x \in a[S] : Wrote(l, x, S)}
<1>1. IsFiniteSet(K) /\ \A S \in SUBSET K : IsFiniteSet(S) /\ Cardinality(S) \in Nat
  BY DataAssumption, FS_Subset, FS_CardinalityType
<1>2. Follows(a, l, K, n)
  BY <1>1, AfterSteps
<1> HIDE DEF a
<1>3. Wrote(l, l, {})
  BY Excesses DEF Wrote
<1>4. \A x \in a[{}] : Wrote(l, x, {})
  BY <1>2, <1>3 DEF Follows
<1>5. 0 \in T
  <2>1. \A S \in SUBSET K : Cardinality(S) <= 0 => S = {}
    BY <1>1, FS_EmptySet
  <2>2. QED
    BY <1>4, <2>1
<1>6. ASSUME NEW m \in Nat, m \in T PROVE m + 1 \in T
  <2>1. ASSUME NEW S \in SUBSET K, Cardinality(S) <= m + 1, NEW x \in a[S] PROVE Wrote(l, x, S)
    <3>1. CASE S = {}
      BY <1>4, <2>1, <3>1
    <3>2. CASE S # {}
      <4>1. PICK k \in S : \E y \in a[S \ {k}] : x \in SC!Puts(y, k, n)
        <5>1. a[S] = LastSet(a, S, n)
          BY <1>2, <3>2 DEF Follows
        <5>2. QED
          BY <2>1, <5>1 DEF LastSet
      <4>2. PICK y \in a[S \ {k}] : x \in SC!Puts(y, k, n)
        BY <4>1
      <4>3. Cardinality(S \ {k}) = Cardinality(S) - 1 /\ Cardinality(S) \in Nat /\ S \ {k} \in SUBSET K
        BY <1>1, FS_RemoveElement
      <4>4. Wrote(l, y, S \ {k})
        BY <1>6, <2>1, <4>3
      <4>5. y \in [Keys -> Times]
        BY <4>4 DEF Wrote
      <4>6. Wrote(y, x, {k})
        BY <4>2, <4>5, PutWrites
      <4>7. (S \ {k}) \cup {k} = S /\ k \in Keys
        OBVIOUS
      <4>8. Wrote(l, x, (S \ {k}) \cup {k})
        BY <4>4, <4>6, <4>7, WritesAfter
      <4>9. QED
        BY <4>7, <4>8
    <3>3. QED
      BY <3>1, <3>2
  <2>2. QED
    BY <2>1
<1>7. Cardinality(K) \in T
  <2> HIDE DEF T
  <2> QED
    BY <1>1, <1>5, <1>6, Induction
<1>8. Cardinality(K) <= Cardinality(K) /\ r \in a[K]
  BY <1>1 DEF a
<1>9. QED
  BY <1>7, <1>8

-----------------------------------------------------------------------------
(* The calls in progress.  What Clear has to remove is in the shards that   *)
(* are left, and a Count that nobody disturbed has counted the others.      *)
Running(j) ==
    /\ j = [op |-> j.op, left |-> j.left, keys |-> j.keys, ttl |-> j.ttl,
            old |-> j.old, sum |-> j.sum, quiet |-> j.quiet]
    /\ j.left \subseteq SC!Shards /\ j.keys \subseteq Keys /\ j.ttl \in Nat /\ j.old \subseteq Keys
    /\ j.sum \in Int /\ j.quiet \in BOOLEAN
Done(l, left) == {k \in Keys : l[k] # -2 /\ SC!ShardIndex(k) \notin left}
Work(l, j) ==
    /\ Running(j)
    /\ j.op = "clear" => \A k \in j.old : l[k] # -2 => SC!ShardIndex(k) \in j.left
    /\ j.op = "count" /\ j.quiet => j.sum = Cardinality(Done(l, j.left))
Workers(l, jb) == DOMAIN jb = Callers /\ \A c \in Callers : Work(l, jb[c])
WithinLimit(l, x) == MaxSize > 0 => Total(SC!Excess(l), SC!Shards) <= x
ShardedInv == /\ life \in [Keys -> Times] /\ extra \in 0..MaxExtra
              /\ Workers(life, job) /\ WithinLimit(life, extra)

(* A shard that was l is r, and those in the middle of a call are told. *)
Noticed(l, r, W, ch) ==
    /\ r \in [Keys -> Times] /\ ch \in BOOLEAN
    /\ \A k \in Keys : r[k] # -2 => k \in W \/ l[k] # -2
    /\ ch \/ \A k \in Keys : r[k] = -2 <=> l[k] = -2
Changed(l, r, W, ch) ==
    /\ Noticed(l, r, W, ch)
    /\ MaxSize > 0 => \A s \in SC!Shards : SC!Excess(r)[s] <= SC!Excess(l)[s]

Told(j, W, ch) == [j EXCEPT !.old = @ \ W, !.quiet = @ /\ ~(ch /\ j.op = "count")]

LEMMA WorkNotices ==
    ASSUME NEW l, NEW r, NEW W, NEW ch, Noticed(l, r, W, ch), NEW j, Work(l, j)
    PROVE  Work(r, Told(j, W, ch))
<1> DEFINE w == Told(j, W, ch)
<1>1. PICK o, q : o = j.old \ W /\ q = (j.quiet /\ ~(ch /\ j.op = "count"))
  OBVIOUS
<1>2. w = [j EXCEPT !.old = o, !.quiet = q]
  BY <1>1 DEF Told
<1>3. q \in BOOLEAN /\ (q => j.quiet /\ ~(ch /\ j.op = "count"))
  BY <1>1
<1> HIDE DEF w
<1>4. /\ w.op = j.op /\ w.left = j.left /\ w.keys = j.keys /\ w.ttl = j.ttl /\ w.sum = j.sum
      /\ w.old = o /\ w.quiet = q
      /\ w = [op |-> w.op, left |-> w.left, keys |-> w.keys, ttl |-> w.ttl,
              old |-> w.old, sum |-> w.sum, quiet |-> w.quiet]
  BY <1>2 DEF Work, Running
<1>5. Running(w)
  BY <1>1, <1>3, <1>4 DEF Work, Running
<1>6. w.op = "clear" => \A k \in w.old : r[k] # -2 => SC!ShardIndex(k) \in w.left
  BY <1>1, <1>4 DEF Work, Running, Noticed
<1>7. ASSUME w.op = "count", w.quiet PROVE w.sum = Cardinality(Done(r, w.left))
  <2>1. ch = FALSE /\ j.quiet
    BY <1>3, <1>4, <1>7 DEF Noticed
  <2>2. Done(r, w.left) = Done(l, j.left)
    BY <1>4, <2>1 DEF Noticed, Done
  <2>3. QED
    BY <1>4, <1>7, <2>1, <2>2 DEF Work
<1>8. Work(r, w)
  BY <1>5, <1>6, <1>7 DEF Work
<1>9. QED
  BY <1>8 DEF w

LEMMA WorkersNotice ==
    ASSUME NEW l, NEW r, NEW W, NEW ch, Noticed(l, r, W, ch), NEW jb, Workers(l, jb)
    PROVE  Workers(r, SC!Notice(jb, W, ch))
<1>1. ASSUME NEW c \in Callers PROVE Work(r, SC!Notice(jb, W, ch)[c])
  <2>1. SC!Notice(jb, W, ch)[c] = Told(jb[c], W, ch)
    BY DEF SC!Notice, Told
  <2>2. Work(l, jb[c])
    BY DEF Workers
  <2>3. QED
    BY <2>1, <2>2, WorkNotices
<1>2. DOMAIN SC!Notice(jb, W, ch) = Callers
  BY DEF SC!Notice
<1>3. QED
  BY <1>1, <1>2 DEF Workers

LEMMA LessExcess ==
    ASSUME NEW l, NEW r, NEW W, NEW ch, Changed(l, r, W, ch), NEW x \in Int, WithinLimit(l, x)
    PROVE  WithinLimit(r, x)
<1> SUFFICES ASSUME MaxSize > 0 PROVE Total(SC!Excess(r), SC!Shards) <= x
  BY DEF WithinLimit
<1>1. IsFiniteSet(SC!Shards)
  BY DataAssumption, FS_Interval DEF SC!Shards
<1>2. \A s \in SC!Shards : SC!Excess(r)[s] \in Int /\ SC!Excess(l)[s] \in Int /\ SC!Excess(r)[s] <= SC!Excess(l)[s]
  BY Excesses DEF Changed
<1>3. Total(SC!Excess(r), SC!Shards) <= Total(SC!Excess(l), SC!Shards)
  BY <1>1, <1>2, TotalOrder
<1>4. Total(SC!Excess(r), SC!Shards) \in Int /\ Total(SC!Excess(l), SC!Shards) \in Int
  BY <1>1, <1>2, TotalRemove
<1>5. QED
  BY <1>3, <1>4 DEF WithinLimit

LEMMA ChangedKeeps ==
    ASSUME ShardedInv, NEW W, NEW ch, Changed(life, life', W, ch), Workers(life', job'), extra' = extra
    PROVE  ShardedInv'
<1>1. WithinLimit(life', extra')
  <2>1. extra \in Int /\ WithinLimit(life, extra)
    BY DEF ShardedInv
  <2>2. QED
    BY <2>1, LessExcess
<1>2. life' \in [Keys -> Times] /\ extra' \in 0..MaxExtra
  BY DEF ShardedInv, Changed, Noticed
<1>3. QED
  BY <1>1, <1>2 DEF ShardedInv, Workers, WithinLimit

LEMMA ChangeKeeps ==
    ASSUME ShardedInv, NEW W, NEW ch, Changed(life, life', W, ch), NEW jb, Workers(life, jb),
           job' = SC!Notice(jb, W, ch), extra' = extra
    PROVE  ShardedInv'
<1>1. Workers(life', job')
  BY WorkersNotice DEF Changed
<1>2. QED
  BY <1>1, ChangedKeeps

(* A call that goes on to the next shard. *)
Passing(j, s) == [j EXCEPT !.left = @ \ {s}]

LEMMA PassingFields ==
    ASSUME NEW j, Running(j), NEW s
    PROVE  /\ Running(Passing(j, s)) /\ Passing(j, s).op = j.op /\ Passing(j, s).left = j.left \ {s}
           /\ Passing(j, s).old = j.old /\ Passing(j, s).sum = j.sum /\ Passing(j, s).quiet = j.quiet
<1> DEFINE w == Passing(j, s)
<1>1. /\ w.op = j.op /\ w.left = j.left \ {s} /\ w.keys = j.keys /\ w.ttl = j.ttl /\ w.sum = j.sum
      /\ w.old = j.old /\ w.quiet = j.quiet
      /\ w = [op |-> w.op, left |-> w.left, keys |-> w.keys, ttl |-> w.ttl,
              old |-> w.old, sum |-> w.sum, quiet |-> w.quiet]
  BY DEF Running, Passing
<1> HIDE DEF w
<1>2. Running(w)
  BY <1>1 DEF Running
<1>3. QED
  BY <1>1, <1>2 DEF w

LEMMA WorkerPasses ==
    ASSUME Workers(life, job), NEW c \in Callers, NEW s, job[c].op \notin {"clear", "count"}
    PROVE  Workers(life, SC!Passed(c, s))
<1>1. SC!Passed(c, s) = [job EXCEPT ![c] = Passing(job[c], s)]
  BY DEF SC!Passed, Passing, Workers
<1>2. Work(life, Passing(job[c], s))
  BY PassingFields DEF Workers, Work
<1>3. QED
  BY <1>1, <1>2 DEF Workers

(* Keys that go leave less in each shard. *)
LEMMA Fewer ==
    ASSUME NEW l \in [Keys -> Times], NEW r \in [Keys -> Times], NEW ch \in BOOLEAN,
           \A k \in Keys : r[k] = -2 \/ l[k] # -2, ch \/ \A k \in Keys : r[k] = -2 => l[k] = -2
    PROVE  Changed(l, r, {}, ch)
<1>1. ASSUME NEW s \in SC!Shards PROVE SC!Excess(r)[s] <= SC!Excess(l)[s]
  <2>1. SC!In(r, s) \subseteq SC!In(l, s)
    BY DEF SC!In, SC!Present, SC!Absent
  <2>2. QED
    BY <2>1, FewerKeys
<1>2. QED
  BY <1>1 DEF Changed, Noticed

LEMMA SetKeeps == ASSUME ShardedInv, NEW k \in Keys, NEW n \in TTLs, SC!Set(k, n) PROVE ShardedInv'
<1>1. /\ life' \in SC!Puts(life, k, n) /\ job' = SC!Notice(job, {k}, TRUE) /\ extra' = extra
      /\ life \in [Keys -> Times] /\ Workers(life, job)
  BY DEF SC!Set, ShardedInv
<1>2. Wrote(life, life', {k})
  BY <1>1, PutWrites, DataAssumption
<1>3. Changed(life, life', {k}, TRUE)
  BY <1>2 DEF Wrote, Changed, Noticed
<1>4. QED
  BY <1>1, <1>3, ChangeKeeps

LEMMA SetShardKeeps ==
    ASSUME ShardedInv, NEW c \in Callers, NEW s, SC!SetShard(c, s), extra' = extra
    PROVE  ShardedInv'
<1>1. life \in [Keys -> Times] /\ Workers(life, job) /\ job[c].op = "set" /\ job[c].ttl \in Nat
  BY DEF ShardedInv, Workers, Work, Running, SC!SetShard
<1>2. PICK K \in SUBSET Keys : K = SC!Mine(c, s)
  BY <1>1 DEF SC!Mine, Workers, Work, Running
<1>3. /\ life' \in SC!After(life, K, job[c].ttl)[K]
      /\ job' = SC!Notice(SC!Passed(c, s), K, TRUE)
  BY <1>2 DEF SC!SetShard
<1>4. Wrote(life, life', K)
  BY <1>1, <1>3, AfterWrites
<1>5. Changed(life, life', K, TRUE)
  BY <1>4 DEF Wrote, Changed, Noticed
<1>6. Workers(life, SC!Passed(c, s))
  BY <1>1, WorkerPasses
<1>7. QED
  BY <1>3, <1>5, <1>6, ChangeKeeps

LEMMA DeleteKeeps == ASSUME ShardedInv, NEW k \in Keys, SC!Delete(k) PROVE ShardedInv'
<1>1. /\ life' = [life EXCEPT ![k] = -2] /\ job' = SC!Notice(job, {}, TRUE) /\ extra' = extra
      /\ life \in [Keys -> Times] /\ Workers(life, job)
  BY DEF SC!Delete, SC!Absent, ShardedInv
<1>2. life' \in [Keys -> Times]
  BY <1>1 DEF Times
<1>3. \A j \in Keys : life'[j] = -2 \/ life[j] # -2
  BY <1>1
<1>4. Changed(life, life', {}, TRUE)
  BY <1>1, <1>2, <1>3, Fewer
<1>5. QED
  BY <1>1, <1>4, ChangeKeeps

(* What a sweep of a shard leaves. *)
LEMMA Swept ==
    ASSUME ShardedInv, NEW c \in Callers, NEW s, NEW gone, SC!Sweep(c, s, gone)
    PROVE  /\ Changed(life, life', {}, life' # life)
           /\ \A k \in Keys : life'[k] = IF k \in gone /\ SC!ShardIndex(k) = s THEN -2 ELSE life[k]
           /\ job' = SC!Notice(SC!Passed(c, s), {}, life' # life)
<1>1. /\ life' = [k \in Keys |-> IF k \in gone /\ SC!ShardIndex(k) = s THEN -2 ELSE life[k]]
      /\ job' = SC!Notice(SC!Passed(c, s), {}, life' # life)
      /\ life \in [Keys -> Times]
  BY DEF SC!Sweep, SC!Absent, ShardedInv
<1>2. life' \in [Keys -> Times]
  BY <1>1 DEF Times
<1>3. \A k \in Keys : life'[k] = -2 \/ life[k] # -2
  BY <1>1
<1>4. PICK ch \in BOOLEAN : ch = (life' # life)
  OBVIOUS
<1>5. ch \/ \A k \in Keys : life'[k] = -2 => life[k] = -2
  BY <1>4
<1>6. Changed(life, life', {}, ch)
  BY <1>1, <1>2, <1>3, <1>5, Fewer
<1>7. QED
  BY <1>1, <1>4, <1>6

LEMMA SweepKeeps ==
    ASSUME ShardedInv, NEW c \in Callers, NEW s, NEW gone, SC!Sweep(c, s, gone), extra' = extra,
           job[c].op \in {"delete", "cleanup"}
    PROVE  ShardedInv'
<1>1. Changed(life, life', {}, life' # life) /\ job' = SC!Notice(SC!Passed(c, s), {}, life' # life)
  BY Swept
<1>2. Workers(life, SC!Passed(c, s))
  BY WorkerPasses DEF ShardedInv
<1>3. QED
  BY <1>1, <1>2, ChangeKeeps

LEMMA PassesTold ==
    ASSUME NEW j, Running(j), NEW s, NEW W, NEW ch
    PROVE  Told(Passing(j, s), W, ch) = Passing(Told(j, W, ch), s) /\ Told(j, W, ch).op = j.op
<1>1. PICK o, q : o = j.old \ W /\ q = (j.quiet /\ ~(ch /\ j.op = "count"))
  OBVIOUS
<1>2. Told(j, W, ch) = [j EXCEPT !.old = o, !.quiet = q]
  BY <1>1 DEF Told
<1>3. Told(Passing(j, s), W, ch) = [Passing(j, s) EXCEPT !.old = o, !.quiet = q]
  <2>1. PICK p : p = Passing(j, s)
    OBVIOUS
  <2>2. p.op = j.op /\ p.old = j.old /\ p.quiet = j.quiet
    BY <2>1, PassingFields
  <2>3. o = p.old \ W /\ q = (p.quiet /\ ~(ch /\ p.op = "count"))
    BY <1>1, <2>2
  <2>4. Told(p, W, ch) = [p EXCEPT !.old = o, !.quiet = q]
    BY <2>3 DEF Told
  <2>5. QED
    BY <2>1, <2>4
<1>4. QED
  BY <1>2, <1>3 DEF Running, Passing

(* Clear has no more to do in the shard it has emptied. *)
LEMMA ClearKeeps ==
    ASSUME ShardedInv, NEW c \in Callers, NEW s, SC!ClearShard(c, s), extra' = extra
    PROVE  ShardedInv'
<1>1. SC!Sweep(c, s, Keys) /\ job[c].op = "clear" /\ Workers(life, job)
  BY DEF SC!ClearShard, ShardedInv
<1>2. /\ Changed(life, life', {}, life' # life)
      /\ \A k \in Keys : life'[k] = IF SC!ShardIndex(k) = s THEN -2 ELSE life[k]
      /\ job' = SC!Notice(SC!Passed(c, s), {}, life' # life)
  BY <1>1, Swept
<1>3. PICK P : P = SC!Passed(c, s)
  OBVIOUS
<1>4. P = [job EXCEPT ![c] = Passing(job[c], s)]
  BY <1>3 DEF SC!Passed, Passing, Workers
<1>5. \A d \in Callers : Work(life, job[d])
  BY <1>1 DEF Workers
<1>6. ASSUME NEW d \in Callers PROVE Work(life', job'[d])
  <2>1. job'[d] = Told(P[d], {}, life' # life)
    BY <1>2, <1>3 DEF SC!Notice, Told
  <2>2. CASE d # c
    <3>1. Work(life, P[d])
      BY <1>1, <1>4, <1>5, <2>2 DEF Workers
    <3>2. QED
      BY <1>2, <2>1, <3>1, WorkNotices DEF Changed
  <2>3. CASE d = c
    <3>1. Running(job[c]) /\ P[d] = Passing(job[c], s)
      BY <1>1, <1>4, <1>5, <2>3 DEF Work, Workers
    <3>2. PICK w : w = Told(job[c], {}, life' # life)
      OBVIOUS
    <3>3. Work(life', w) /\ w.op = "clear" /\ job'[d] = Passing(w, s)
      BY <1>1, <1>2, <1>5, <2>1, <3>1, <3>2, WorkNotices, PassesTold DEF Changed
    <3>4. QED
      BY <1>2, <3>3, PassingFields DEF Work, Running
  <2>4. QED
    BY <2>2, <2>3
<1>7. DOMAIN job' = Callers
  BY <1>2 DEF SC!Notice
<1>8. Workers(life', job')
  BY <1>6, <1>7 DEF Workers
<1>9. QED
  BY <1>2, <1>8, ChangedKeeps

(* Count adds the entries of a shard. *)
LEMMA CountKeeps ==
    ASSUME ShardedInv, NEW c \in Callers, NEW s, s \in job[c].left, SC!CountShard(c, s), extra' = extra
    PROVE  ShardedInv'
<1>1. Workers(life, job) /\ job[c].op = "count" /\ life' = life
  BY DEF SC!CountShard, ShardedInv
<1>2. PICK j : j = job[c] /\ Work(life, j) /\ Running(j) /\ s \in SC!Shards /\ s \in j.left
  BY <1>1 DEF Workers, Work, Running
<1>3. PICK n \in Nat : n = Cardinality(SC!In(life, s))
  BY <1>2, Excesses
<1>4. PICK p : /\ p = Passing(j, s) /\ Running(p) /\ p.op = j.op /\ p.left = j.left \ {s}
               /\ p.sum = j.sum /\ p.quiet = j.quiet
  BY <1>2, PassingFields
<1>5. PICK w : w = [p EXCEPT !.sum = @ + n]
  OBVIOUS
<1>6. job' = [job EXCEPT ![c] = w]
  <2>1. job' = [SC!Passed(c, s) EXCEPT ![c].sum = @ + n]
    BY <1>3, ShardCounts DEF SC!CountShard
  <2>2. SC!Passed(c, s) = [job EXCEPT ![c] = p] /\ c \in DOMAIN job
    BY <1>1, <1>2, <1>4 DEF SC!Passed, Passing, Workers
  <2>3. QED
    BY <1>5, <2>1, <2>2
<1>7. w.op = "count" /\ w.left = j.left \ {s} /\ w.sum = j.sum + n /\ w.quiet = j.quiet /\ Running(w)
  BY <1>1, <1>2, <1>4, <1>5 DEF Running
<1>8. Cardinality(Done(life, j.left \ {s})) = Cardinality(Done(life, j.left)) + n
  <2>1. Done(life, j.left \ {s}) = Done(life, j.left) \cup SC!In(life, s)
    BY <1>2 DEF Done, SC!In, SC!Present, SC!Absent
  <2>2. Done(life, j.left) \cap SC!In(life, s) = {}
    BY <1>2 DEF Done, SC!In, SC!Present
  <2>3. IsFiniteSet(Done(life, j.left)) /\ IsFiniteSet(SC!In(life, s))
    BY <1>2, Excesses, DataAssumption, FS_Subset DEF Done
  <2>4. Cardinality(Done(life, j.left) \cup SC!In(life, s)) =
           Cardinality(Done(life, j.left)) + Cardinality(SC!In(life, s)) - Cardinality(Done(life, j.left) \cap SC!In(life, s))
    BY <2>3, FS_Union
  <2>5. Cardinality(Done(life, j.left) \cap SC!In(life, s)) = 0 /\ Cardinality(Done(life, j.left)) \in Nat
    BY <2>2, <2>3, FS_CardinalityType, FS_EmptySet
  <2>6. PICK d \in Nat : d = Cardinality(Done(life, j.left))
    BY <2>5
  <2>7. Cardinality(Done(life, j.left \ {s})) = d + n - 0
    BY <1>3, <2>1, <2>4, <2>5, <2>6
  <2>8. QED
    BY <2>6, <2>7
<1>9. Work(life, w)
  <2>1. ASSUME w.quiet PROVE w.sum = Cardinality(Done(life, w.left))
    <3>1. j.sum = Cardinality(Done(life, j.left))
      BY <1>1, <1>2, <1>7, <2>1 DEF Work
    <3>2. QED
      BY <1>7, <1>8, <3>1
  <2>2. QED
    BY <1>7, <2>1 DEF Work
<1>10. Workers(life', job')
  BY <1>1, <1>6, <1>9 DEF Workers
<1>11. QED
  BY <1>1, <1>10 DEF ShardedInv, Workers, WithinLimit

(* A call begins and ends. *)
LEMMA BeginKeeps ==
    ASSUME ShardedInv, NEW c \in Callers, NEW op, NEW K \in SUBSET Keys, NEW n \in Nat, SC!Begin(c, op, K, n)
    PROVE  ShardedInv'
<1>1. PICK L, O : /\ L = (IF op \in SC!Many THEN {SC!ShardIndex(k) : k \in K} ELSE SC!Shards)
                  /\ O = (IF op = "clear" THEN SC!Present(life) ELSE {})
  OBVIOUS
<1>2. L \subseteq SC!Shards /\ O \subseteq Keys
  BY <1>1, IndexInShards DEF SC!Present
<1>3. PICK w : w = [SC!Free EXCEPT !.op = op, !.keys = K, !.ttl = n, !.left = L, !.old = O]
  OBVIOUS
<1>4. job' = [job EXCEPT ![c] = w] /\ life' = life /\ extra' = extra
  BY <1>1, <1>3 DEF SC!Begin
<1>5. w.op = op /\ w.left = L /\ w.old = O /\ w.sum = 0 /\ Running(w)
  <2>1. /\ w.op = op /\ w.keys = K /\ w.ttl = n /\ w.left = L /\ w.old = O /\ w.sum = 0 /\ w.quiet = TRUE
        /\ w = [op |-> w.op, left |-> w.left, keys |-> w.keys, ttl |-> w.ttl,
                old |-> w.old, sum |-> w.sum, quiet |-> w.quiet]
    BY <1>3 DEF SC!Free
  <2>2. TRUE \in BOOLEAN /\ 0 \in Int
    OBVIOUS
  <2>3. w.quiet \in BOOLEAN /\ w.sum \in Int
    BY <2>1, <2>2
  <2>4. QED
    BY <1>2, <2>1, <2>3 DEF Running
<1>6. op \in {"clear", "count"} => L = SC!Shards
  BY <1>1 DEF SC!Many
<1>7. op = "count" => Cardinality(Done(life, L)) = 0
  <2>1. op = "count" => Done(life, L) = {}
    BY <1>6, IndexInShards DEF Done
  <2>2. QED
    BY <2>1, FS_EmptySet
<1>8. Work(life, w)
  BY <1>2, <1>5, <1>6, <1>7, IndexInShards DEF Work
<1>9. Workers(life', job')
  BY <1>4, <1>8 DEF ShardedInv, Workers
<1>10. QED
  BY <1>4, <1>9 DEF ShardedInv, Workers, WithinLimit

LEMMA ReturnKeeps == ASSUME ShardedInv, NEW c \in Callers, SC!Return(c) PROVE ShardedInv'
<1>1. job' = [job EXCEPT ![c] = SC!Free] /\ life' = life /\ extra' = extra
  BY DEF SC!Return
<1>2. Work(life, SC!Free)
  BY DEF SC!Free, Work, Running
<1>3. Workers(life', job')
  BY <1>1, <1>2 DEF ShardedInv, Workers
<1>4. QED
  BY <1>1, <1>3 DEF ShardedInv, Workers, WithinLimit

(* Time passes for what a shard holds; nothing goes. *)
LEMMA TickKeeps == ASSUME ShardedInv, SC!ShardTick PROVE ShardedInv'
<1>1. life' = SC!Older(life) /\ job' = job /\ extra' = extra /\ life \in [Keys -> Times]
  BY DEF SC!ShardTick, ShardedInv
<1>2. /\ life' \in [Keys -> Times] /\ \A k \in Keys : life'[k] = -2 <=> life[k] = -2
  BY <1>1 DEF SC!Older, Times
<1>3. Changed(life, life', {}, FALSE)
  BY <1>1, <1>2, Fewer
<1>4. ASSUME NEW c \in Callers PROVE Work(life', job'[c])
  <2>1. Work(life, job[c])
    BY DEF ShardedInv, Workers
  <2>2. Done(life', job[c].left) = Done(life, job[c].left)
    BY <1>2 DEF Done
  <2>3. QED
    BY <1>1, <1>2, <2>1, <2>2 DEF Work, Running
<1>5. Workers(life', job')
  BY <1>1, <1>4 DEF ShardedInv, Workers
<1>6. QED
  BY <1>1, <1>3, <1>5, ChangedKeeps

(* GetOrSet may put one entry too many in a shard, and counts it. *)
LEMMA GetOrSetKeeps == ASSUME ShardedInv, NEW k \in Keys, NEW n \in TTLs, SC!GetOrSet(k, n) PROVE ShardedInv'
<1>1. PICK v \in Times, q \in SC!Shards : v = SC!Left(n) /\ v # -2 /\ q = SC!ShardIndex(k)
  BY IndexInShards, DataAssumption DEF SC!Left, SC!Forever, Times
<1>2. /\ life' = [life EXCEPT ![k] = v] /\ job' = SC!Notice(job, {k}, TRUE) /\ extra' <= MaxExtra
      /\ extra' = IF SC!Full(life, q) /\ life[k] = -2 THEN extra + 1 ELSE extra
      /\ life \in [Keys -> Times] /\ Workers(life, job) /\ extra \in 0..MaxExtra
  BY <1>1 DEF SC!GetOrSet, SC!Absent, ShardedInv
<1>3. life' \in [Keys -> Times] /\ \A j \in Keys : life'[j] = IF j = k THEN v ELSE life[j]
  BY <1>1, <1>2
<1>4. Workers(life', job')
  <2>1. Noticed(life, life', {k}, TRUE)
    BY <1>3 DEF Noticed
  <2>2. QED
    BY <1>2, <2>1, WorkersNotice
<1>5. extra' \in 0..MaxExtra
  BY <1>2, DataAssumption
<1>6. WithinLimit(life', extra')
  <2>1. SUFFICES ASSUME MaxSize > 0 PROVE Total(SC!Excess(life'), SC!Shards) <= extra'
    BY DEF WithinLimit
  <2>2. PICK f, g : f = SC!Excess(life) /\ g = SC!Excess(life')
    OBVIOUS
  <2>3. IsFiniteSet(SC!Shards)
    BY DataAssumption, FS_Interval DEF SC!Shards
  <2>4. \A s \in SC!Shards : f[s] \in Int /\ g[s] \in Int
    BY <2>2, Excesses
  <2>5. ASSUME NEW s \in SC!Shards \ {q} PROVE g[s] = f[s]
    <3>1. SC!In(life', s) = SC!In(life, s)
      BY <1>1, <1>3, <2>5 DEF SC!In, SC!Present
    <3>2. QED
      BY <2>2, <3>1 DEF SC!Excess
  <2>6. g[q] - f[q] <= extra' - extra
    <3>1. MaxSize \in Int
      BY DataAssumption
    <3>2. CASE life[k] # -2
      <4>1. SC!In(life', q) = SC!In(life, q)
        BY <1>1, <1>3, <3>2 DEF SC!In, SC!Present, SC!Absent
      <4>2. g[q] = f[q]
        BY <2>2, <4>1 DEF SC!Excess
      <4>3. QED
        BY <1>2, <2>4, <3>2, <4>2
    <3>3. CASE life[k] = -2
      <4>1. SC!In(life', q) = SC!In(life, q) \cup {k} /\ k \notin SC!In(life, q)
        BY <1>1, <1>3, <3>3 DEF SC!In, SC!Present, SC!Absent
      <4>2. PICK m \in Nat : m = Cardinality(SC!In(life, q)) /\ Cardinality(SC!In(life', q)) = m + 1
        <5>1. IsFiniteSet(SC!In(life, q)) /\ Cardinality(SC!In(life, q)) \in Nat
          BY Excesses
        <5>2. Cardinality(SC!In(life, q) \cup {k}) = Cardinality(SC!In(life, q)) + 1
          BY <4>1, <5>1, FS_AddElement
        <5>3. QED
          BY <4>1, <5>1, <5>2
      <4>3. /\ f[q] = IF m > MaxSize THEN m - MaxSize ELSE 0
            /\ g[q] = IF m + 1 > MaxSize THEN (m + 1) - MaxSize ELSE 0
        <5>1. /\ f[q] = IF Cardinality(SC!In(life, q)) > MaxSize THEN Cardinality(SC!In(life, q)) - MaxSize ELSE 0
              /\ g[q] = IF Cardinality(SC!In(life', q)) > MaxSize THEN Cardinality(SC!In(life', q)) - MaxSize ELSE 0
          BY <2>2, Excesses
        <5>2. QED
          BY <4>2, <5>1
      <4>4. SC!Full(life, q) <=> m >= MaxSize
        BY <2>1, <4>2, ShardCounts DEF SC!Full
      <4>5. QED
        BY <1>2, <3>1, <3>3, <4>3, <4>4
    <3>4. QED
      BY <3>2, <3>3
  <2>7. Total(g, SC!Shards) = Total(f, SC!Shards) + g[q] - f[q]
    BY <2>3, <2>4, <2>5, TotalChange
  <2>8. Total(f, SC!Shards) \in Int /\ Total(g, SC!Shards) \in Int /\ Total(f, SC!Shards) <= extra
    BY <2>1, <2>2, <2>3, <2>4, TotalRemove DEF ShardedInv, WithinLimit
  <2>9. extra \in Int /\ extra' \in Int /\ f[q] \in Int /\ g[q] \in Int
    BY <1>2, <1>5, <2>4
  <2>10. Total(g, SC!Shards) <= extra'
    BY <2>6, <2>7, <2>8, <2>9
  <2>11. QED
    BY <2>2, <2>10
<1>7. QED
  BY <1>3, <1>4, <1>5, <1>6 DEF ShardedInv, Workers, WithinLimit

LEMMA ShardedStarts == ASSUME MCInit PROVE ShardedInv
<1>1. life = [k \in Keys |-> -2] /\ job = [c \in Callers |-> SC!Free] /\ extra = 0
  BY DEF MCInit, SC!CachesInit, SC!ShardedInit, SC!Absent
<1>2. Workers(life, job)
  <2>1. Work(life, SC!Free)
    BY DEF Work, Running, SC!Free
  <2>2. QED
    BY <1>1, <2>1 DEF Workers
<1>3. life \in [Keys -> Times] /\ extra \in 0..MaxExtra
  BY <1>1, DataAssumption DEF Times
<1>4. WithinLimit(life, extra)
  <2>1. SUFFICES ASSUME MaxSize > 0 PROVE Total(SC!Excess(life), SC!Shards) <= 0
    BY <1>1 DEF WithinLimit
  <2>2. IsFiniteSet(SC!Shards)
    BY DataAssumption, FS_Interval DEF SC!Shards
  <2>3. ASSUME NEW s \in SC!Shards PROVE SC!Excess(life)[s] = 0
    <3>1. SC!In(life, s) = {}
      BY <1>1 DEF SC!In, SC!Present, SC!Absent
    <3>2. Cardinality(SC!In(life, s)) = 0
      BY <3>1, FS_EmptySet
    <3>3. QED
      BY <2>1, <3>2, Excesses, DataAssumption
  <2>4. Total(SC!Excess(life), SC!Shards) = 0
    BY <2>2, <2>3, TotalZero
  <2>5. QED
    BY <2>4
<1>5. QED
  BY <1>2, <1>3, <1>4, SMTT(60) DEF ShardedInv

LEMMA ShardedStep == ASSUME ShardedInv, SC!ShardedNext PROVE ShardedInv'
<1>1. CASE SC!ShardTick
  BY <1>1, TickKeeps
<1>2. ASSUME NEW k \in Keys, SC!Delete(k) PROVE ShardedInv'
  BY <1>2, DeleteKeeps
<1>3. ASSUME NEW k \in Keys, NEW ttl \in TTLs, SC!Set(k, ttl) \/ SC!GetOrSet(k, ttl) PROVE ShardedInv'
  BY <1>3, SetKeeps, GetOrSetKeeps
<1>4. ASSUME NEW c \in Callers, NEW K \in MCBatches,
             (\E ttl \in TTLs : SC!Begin(c, "set", K, ttl)) \/ SC!Begin(c, "delete", K, 0)
      PROVE  ShardedInv'
  <2>1. K \in SUBSET Keys /\ TTLs \subseteq Nat /\ 0 \in Nat
    BY DataAssumption DEF MCBatches
  <2>2. CASE SC!Begin(c, "delete", K, 0)
    BY <2>1, <2>2, BeginKeeps
  <2>3. ASSUME NEW ttl \in TTLs, SC!Begin(c, "set", K, ttl) PROVE ShardedInv'
    <3>1. ttl \in Nat
      BY <2>1
    <3>2. QED
      BY <2>1, <2>3, <3>1, BeginKeeps
  <2>4. QED
    BY <1>4, <2>2, <2>3
<1>5. ASSUME NEW c \in Callers, NEW op, SC!Begin(c, op, {}, 0) PROVE ShardedInv'
  <2>1. {} \in SUBSET Keys /\ 0 \in Nat
    OBVIOUS
  <2>2. QED
    BY <1>5, <2>1, BeginKeeps
<1>6. ASSUME NEW c \in Callers, NEW s \in SC!Next1(c), extra' = extra,
             \/ SC!SetShard(c, s) \/ SC!DeleteShard(c, s)
             \/ SC!ClearShard(c, s) \/ SC!CountShard(c, s) \/ SC!CleanShard(c, s)
      PROVE  ShardedInv'
  <2>1. s \in job[c].left
    BY DEF SC!Next1
  <2>2. CASE SC!SetShard(c, s)
    BY <1>6, <2>2, SetShardKeeps
  <2>3. CASE SC!ClearShard(c, s)
    BY <1>6, <2>3, ClearKeeps
  <2>4. CASE SC!CountShard(c, s)
    BY <1>6, <2>1, <2>4, CountKeeps
  <2>5. CASE SC!DeleteShard(c, s) \/ SC!CleanShard(c, s)
    <3>1. PICK gone : SC!Sweep(c, s, gone) /\ job[c].op \in {"delete", "cleanup"}
      BY <2>5 DEF SC!DeleteShard, SC!CleanShard
    <3>2. QED
      BY <1>6, <3>1, SweepKeeps
  <2>6. QED
    BY <1>6, <2>2, <2>3, <2>4, <2>5
<1>7. ASSUME NEW c \in Callers, SC!Return(c) PROVE ShardedInv'
  BY <1>7, ReturnKeeps
<1>8. QED
  BY <1>1, <1>2, <1>3, <1>4, <1>5, <1>6, <1>7 DEF SC!ShardedNext

LEMMA ShardedMeans == ASSUME ShardedInv PROVE ShardedSound
<1>1. SC!ShardsBounded
  BY DEF ShardedInv, WithinLimit, SC!ShardsBounded, SC!MapThenSumSet, SC!MapThenFoldSet,
         Total, MapThenSumSet, MapThenFoldSet
<1>2. ASSUME NEW c \in Callers PROVE Work(life, job[c]) /\ Running(job[c])
  BY DEF ShardedInv, Workers, Work
<1>3. SC!ClearSweeps
  BY <1>2 DEF Work, SC!ClearSweeps, SC!Present, SC!Absent
<1>4. SC!CountExact
  <2>1. \A left : {k \in SC!Present(life) : SC!ShardIndex(k) \notin left} = Done(life, left)
    BY DEF SC!Present, SC!Absent, Done
  <2>2. QED
    BY <1>2, <2>1, ShardCounts DEF Work, SC!CountExact
<1>5. QED
  BY <1>1, <1>3, <1>4 DEF ShardedSound, SC!ShardedSound

(* sharded_cache.go: whatever calls overlap, for any keys, hashes, numbers  *)
(* of shards and sizes, a shard has more entries than its limit only by     *)
(* those GetOrSet added to a full one (95-116, 210-252), Clear leaves       *)
(* nothing of what was there before in the shards it has passed (282-289),  *)
(* and a Count that no write overlaps is exact (291-300).                   *)
THEOREM ShardsHold == MCSpec => []ShardedSound
<1>1. MCInit => ShardedInv
  BY ShardedStarts
<1>2. ShardedInv /\ [MCNext]_mcVars => ShardedInv'
  <2> SUFFICES ASSUME ShardedInv, [MCNext]_mcVars PROVE ShardedInv'
    OBVIOUS
  <2>1. CASE OnSharded(SC!ShardedNext)
    BY <2>1, ShardedStep DEF OnSharded
  <2>2. CASE UNCHANGED shardVars
    BY <2>2 DEF shardVars, ShardedInv, Workers, Work, Done, WithinLimit
  <2>3. QED
    BY <2>1, <2>2 DEF MCNext, mcVars, OnRecords, OnMigrations, OnStore, OnRedis
<1>3. ShardedInv => ShardedSound
  BY ShardedMeans
<1>4. QED
  BY <1>1, <1>2, <1>3, PTL DEF MCSpec
=============================================================================
