----------------------------- MODULE ActiveRecord -----------------------------
(***************************************************************************)
(* The query builder (framework/db/query.go), the ORM (framework/db/       *)
(* orm.go), the transactions of framework/db/db.go and the Active Record   *)
(* of framework/model/model.go, over one table.                            *)
(*                                                                         *)
(* A statement is its conditions, the numbers of its placeholders and its  *)
(* arguments: the database gives each placeholder the argument of its      *)
(* number and refuses a statement whose arguments do not fit.  A chain     *)
(* such as m.Where(..).Select() is one action, because a builder belongs   *)
(* to one goroutine; what the call leaves in the builder stays for the     *)
(* model's next chain.  Each action executes the statements of one call.   *)
(***************************************************************************)
EXTENDS Integers, Sequences, SequencesExt, FiniteSets, FiniteSetsExt

CONSTANTS
    Models,     \* instances of Model
    Ids,        \* primary keys, in the order the table gives them out
    Names,      \* values of the one column that is not managed by the model
    Chains,     \* what callers put on a builder: [wheres, raws, offset]
    Drivers,    \* values of CurrentDriver
    MaxOps,     \* bound on the calls of a behaviour
    MaxFails    \* bound on the statements the database refuses

VARIABLES
    driver,     \* db.CurrentDriver
    soft,       \* Model.softDelete
    locking,    \* Model.optimisticLock
    rows,       \* the table: a record, or NoRow
    query,      \* Model.query: a Query, or NoQuery
    self,       \* Model.data and origin (0 is an absent field), isNew
    trash,      \* "without", "with", "only": Model.withTrashed, onlyTrashed
    chunk,      \* the Chunk each model is in the middle of
    tx,         \* the transaction of one caller
    last,       \* the statement that was executed last
    ops, fails

vars == <<driver, soft, locking, rows, query, self, trash, chunk, tx, last, ops, fails>>

NoRow == [name |-> 0, version |-> 0, deleted |-> 0]
NoQuery == [none |-> TRUE]
Row(n, v, d) == [name |-> n, version |-> v, deleted |-> d]
Live(t) == {i \in Ids : t[i] # NoRow}
Column(t, i, c) == IF c = "id" THEN i ELSE t[i][c]

-----------------------------------------------------------------------------
(* Conditions.  A where clause takes its values through placeholders, and  *)
(* so does a raw one; "NULL" and "NOT NULL" take none.                     *)

Cond(c, o, v, l) == [col |-> c, op |-> o, vals |-> v, logic |-> l]
Where(c, v) == Cond(c, "=", <<v>>, "AND")
WhereOr(c, v) == Cond(c, "=", <<v>>, "OR")
WhereNot(c, v) == Cond(c, "<>", <<v>>, "AND")
WhereIn(c, vs) == Cond(c, "IN", vs, "AND")
WhereNotIn(c, vs) == Cond(c, "NOT IN", vs, "AND")
Between(c, lo, hi) == Cond(c, "BETWEEN", <<lo, hi>>, "AND")
Null(c) == Cond(c, "NULL", <<>>, "AND")
NotNull(c) == Cond(c, "NOT NULL", <<>>, "AND")

True(k, v) ==
    \/ k.op \in {"=", "IN"} /\ v \in Range(k.vals)
    \/ k.op \in {"<>", "NOT IN"} /\ v \notin Range(k.vals)
    \/ k.op = "BETWEEN" /\ k.vals[1] <= v /\ v <= k.vals[2]
    \/ k.op = "NULL" /\ v = 0
    \/ k.op = "NOT NULL" /\ v # 0

(* What SQL makes of k1 AND k2 OR k3 ...: AND binds tighter than OR. *)
Satisfies(t, i, ks) ==
    \/ ks = <<>>
    \/ \E a \in 1..Len(ks) : \E b \in a..Len(ks) :
            /\ a = 1 \/ ks[a].logic = "OR"
            /\ b = Len(ks) \/ ks[b + 1].logic = "OR"
            /\ \A j \in a + 1..b : ks[j].logic = "AND"
            /\ \A j \in a..b : True(ks[j], Column(t, i, ks[j].col))

Hits(t, ks) == {i \in Live(t) : Satisfies(t, i, ks)}

-----------------------------------------------------------------------------
(* The builder. *)

NewQuery == [wheres |-> <<>>, raws |-> <<>>, args |-> <<>>, limit |-> 0, offset |-> 0]

Add(q, c) == [q EXCEPT !.wheres = @ \o c.wheres, !.raws = @ \o c.raws,
                       !.offset = IF c.offset > 0 THEN c.offset ELSE @,
                       !.limit = IF c.offset > 0 THEN 1 ELSE @]

(* A copy has the conditions and the page of the original and no arguments. *)
Clone(q) == [q EXCEPT !.args = <<>>]

Values(ks) == FlattenSeq([i \in 1..Len(ks) |-> ks[i].vals])

(* The first raw clause is joined with AND whatever its own logic. *)
Conditions(q) ==
    q.wheres \o (IF q.wheres = <<>> \/ q.raws = <<>> THEN q.raws
                 ELSE [q.raws EXCEPT ![1].logic = "AND"])

(* Under postgres a plain where is numbered by its place among the wheres,  *)
(* a list by the arguments before it, and raw clauses keep their "?", which *)
(* postgres does not accept: 0 here.                                        *)
WhereNumbers(ws) ==
    FlattenSeq([i \in 1..Len(ws) |->
        IF driver = "mysql" \/ ws[i].op \in {"IN", "NOT IN"}
        THEN [j \in 1..Len(ws[i].vals) |-> Len(Values(SubSeq(ws, 1, i - 1))) + j]
        ELSE <<i>>])
RawNumbers(q, from) ==
    [j \in 1..Len(Values(q.raws)) |-> IF driver = "mysql" THEN from + j ELSE 0]

(* buildUpdateSql: with n assignments before them, the numbers 1, 2, ... of *)
(* the conditions are replaced one after the other, each time the first     *)
(* occurrence, by n + 1, n + 2, ...                                         *)
Renumber(ns, n) ==
    FoldLeft(LAMBDA s, j : LET k == SelectInSeq(s, LAMBDA x : x = j)
                           IN IF k = 0 THEN s ELSE [s EXCEPT ![k] = n + j],
             ns, [j \in 1..Len(ns) |-> j])

Statement(q, sets, stale) ==
    LET ws == WhereNumbers(q.wheres) n == Len(sets) IN
    [meant |-> Conditions(q),
     numbers |-> [j \in 1..n |-> j]
                    \o (IF driver = "mysql" THEN [j \in 1..Len(ws) |-> n + ws[j]] ELSE Renumber(ws, n))
                    \o RawNumbers(q, n + Len(ws)),
     args |-> stale \o sets \o Values(q.wheres) \o Values(q.raws),
     sets |-> n]

(* database/sql and the server: as many arguments as "?", or every number   *)
(* used and none missing.                                                   *)
Fits(s) ==
    IF driver = "mysql" THEN Len(s.numbers) = Len(s.args)
    ELSE Range(s.numbers) = 1..Len(s.args)

(* The conditions with the arguments their placeholders receive. *)
Bound(s) ==
    [i \in 1..Len(s.meant) |->
        LET before == s.sets + Len(Values(SubSeq(s.meant, 1, i - 1)))
        IN [s.meant[i] EXCEPT !.vals = [j \in 1..Len(@) |-> s.args[s.numbers[before + j]]]]]

(* The rows a SELECT returns, in the order of the primary key.  The builder *)
(* appends the arguments to those it already has.                           *)
SelectStatement(q) == Statement(q, <<>>, q.args)
AfterSelect(q) == [q EXCEPT !.args = SelectStatement(q).args]
Selected(q, t) ==
    LET s == SelectStatement(q)
        all == SetToSortSeq(Hits(t, Bound(s)), <)
    IN IF ~Fits(s) THEN <<>>
       ELSE IF q.limit = 0 THEN all ELSE SubSeq(all, q.offset + 1, Min({q.offset + q.limit, Len(all)}))

(* SELECT COUNT, SUM, ... LIMIT 1 OFFSET o has one row, which any offset    *)
(* skips: Count then answers 0.                                             *)
Counted(q, t) ==
    LET s == SelectStatement(q)
    IN IF Fits(s) /\ q.offset = 0 THEN Cardinality(Hits(t, Bound(s))) ELSE 0

(* UPDATE and DELETE without a condition end in "WHERE": a syntax error. *)
Accepted(s) == s.meant # <<>> /\ Fits(s)
Touched(s, t) == IF Accepted(s) THEN Hits(t, Bound(s)) ELSE {}

(* A row another transaction has written is locked until that ends: the     *)
(* statement waits, and fails when its lock wait times out.                 *)
Blocked(is) == is \cap DOMAIN tx.view # {}

Report(op, by, s, is) ==
    [op |-> op, by |-> by, meant |-> s.meant, bound |-> IF Fits(s) THEN Bound(s) ELSE <<>>,
     fits |-> Fits(s), ids |-> is, was |-> rows, scope |-> "with", stale |-> FALSE,
     total |-> 0]

Idle == [op |-> "none", by |-> "none", meant |-> <<>>, bound |-> <<>>, fits |-> TRUE,
         ids |-> {}, was |-> <<>>, scope |-> "with", stale |-> FALSE,
         total |-> 0]

Call == ops < MaxOps /\ ops' = ops + 1

-----------------------------------------------------------------------------
Fresh == [id |-> 0, name |-> 0, version |-> 0, origin |-> 0, read |-> 0, isNew |-> TRUE]
NoChunk == [on |-> FALSE, page |-> 0, seen |-> <<>>, at |-> {}, steady |-> TRUE]
NoTx == [phase |-> "none", view |-> <<>>, first |-> <<>>, outside |-> FALSE]

Init ==
    /\ driver \in Drivers
    /\ soft \in BOOLEAN
    /\ locking \in BOOLEAN
    /\ rows = [i \in Ids |-> IF i = Max(Ids) THEN NoRow ELSE Row(Min(Names), 1, 0)]
    /\ query = [m \in Models |-> NoQuery]
    /\ self = [m \in Models |-> Fresh]
    /\ trash = [m \in Models |-> "without"]
    /\ chunk = [m \in Models |-> NoChunk]
    /\ tx = NoTx
    /\ last = Idle
    /\ ops = 0
    /\ fails = 0

fixed == <<driver, soft, locking>>

(* getQuery creates the builder of a model when a chain first needs it. *)
Builder(m, c) == Add(IF query[m] = NoQuery THEN NewQuery ELSE query[m], c)
Reused(m) == query[m] # NoQuery

(* Mutant: the scope is applied only where it is asked for. *)
ScopedOnRequest(m, q) ==
    IF soft /\ trash[m] = "only" THEN [q EXCEPT !.raws = Append(@, NotNull("deleted"))] ELSE q
(* applySoftDelete *)
Scoped(m, q) ==
    IF ~soft \/ trash[m] = "with" THEN q
    ELSE [q EXCEPT !.raws = Append(@, IF trash[m] = "only" THEN NotNull("deleted") ELSE Null("deleted"))]

Dropped(m) == [query EXCEPT ![m] = NoQuery]

WithTrashed(m, t) ==
    /\ Call
    /\ trash[m] # "with" /\ t # trash[m]
    /\ trash' = [trash EXCEPT ![m] = t]
    /\ UNCHANGED <<fixed, rows, query, self, chunk, tx, last, fails>>

Loaded(i) == [id |-> i, name |-> rows[i].name, version |-> rows[i].version,
              origin |-> rows[i].name, read |-> rows[i].version, isNew |-> FALSE]

SelectReport(op, m, q, is) ==
    [Report(op, m, SelectStatement(q), is) EXCEPT
        !.scope = IF soft THEN trash[m] ELSE "with", !.stale = Reused(m)]

(* Find(id), with a builder of its own, or Find() with the chain's; either  *)
(* way m.query is dropped, even when the statement fails.                   *)
FindWith(m, q) ==
    LET got == Selected([q EXCEPT !.limit = 1], rows) IN
    /\ Call
    /\ self' = [self EXCEPT ![m] = IF got = <<>> THEN @ ELSE Loaded(got[1])]
    /\ query' = Dropped(m)
    /\ last' = SelectReport("find", m, q, ToSet(got))
    /\ UNCHANGED <<fixed, rows, trash, chunk, tx, fails>>
Find(m, i) == FindWith(m, Scoped(m, Add(NewQuery, [wheres |-> <<Where("id", i)>>, raws |-> <<>>, offset |-> 0])))
FindFirst(m, c) == FindWith(m, Scoped(m, Builder(m, c)))

(* Select drops the builder only when the statement succeeded. *)
Select(m, c) ==
    LET q == Scoped(m, Builder(m, c)) IN
    /\ Call
    /\ query' = IF Fits(SelectStatement(q)) THEN Dropped(m) ELSE [query EXCEPT ![m] = AfterSelect(q)]
    /\ last' = SelectReport("select", m, q, ToSet(Selected(q, rows)))
    /\ UNCHANGED <<fixed, rows, self, trash, chunk, tx, fails>>

SelectFails(m, c) ==
    LET q == Scoped(m, Builder(m, c)) IN
    /\ Call
    /\ fails < MaxFails /\ fails' = fails + 1
    /\ query' = [query EXCEPT ![m] = AfterSelect(q)]
    /\ last' = Idle
    /\ UNCHANGED <<fixed, rows, self, trash, chunk, tx>>

(* Count, Exists, Sum, Avg, Max and Min: one row, and the builder is        *)
(* dropped whatever the outcome.                                            *)
Aggregate(m, c) ==
    LET q == Scoped(m, Builder(m, c)) IN
    /\ Call
    /\ query' = Dropped(m)
    /\ last' = [SelectReport("count", m, q, {}) EXCEPT !.total = Counted(q, rows)]
    /\ UNCHANGED <<fixed, rows, self, trash, chunk, tx, fails>>
(* Paginate counts on a copy, then selects one page of size 1. *)
Paginate(m, c, page) ==
    LET q == Scoped(m, Builder(m, c))
        paged == [q EXCEPT !.offset = page - 1, !.limit = 1]
    IN /\ Call
       /\ query' = Dropped(m)
       /\ last' = [SelectReport("paginate", m, paged, ToSet(Selected(paged, rows)))
                    EXCEPT !.total = Counted(Clone(q), rows)]
       /\ UNCHANGED <<fixed, rows, self, trash, chunk, tx, fails>>

(* Chunk: each page is selected by a copy, in chunks of one row; the        *)
(* callback and everybody else may write between two pages.  A page that    *)
(* fails ends it.                                                           *)
ChunkStart(m, c) ==
    LET q == Scoped(m, Builder(m, c)) IN
    /\ Call
    /\ ~chunk[m].on /\ c.offset = 0
    /\ query' = [query EXCEPT ![m] = q]
    /\ chunk' = [chunk EXCEPT ![m] = [NoChunk EXCEPT !.on = TRUE, !.page = 1, !.at = Hits(rows, Conditions(q))]]
    /\ last' = Idle
    /\ UNCHANGED <<fixed, rows, self, trash, tx, fails>>

PageOf(q, p) == [Clone(q) EXCEPT !.offset = p - 1, !.limit = 1]
ChunkPage(m) ==
    LET q == PageOf(query[m], chunk[m].page)
        got == Selected(q, rows)
    IN /\ chunk[m].on
       /\ chunk' = [chunk EXCEPT ![m].page = @ + 1,
                                 ![m].on = got # <<>>,
                                 ![m].seen = @ \o got,
                                 ![m].steady = @ /\ Fits(SelectStatement(q)) /\ Hits(rows, Conditions(query[m])) = chunk[m].at]
       /\ query' = IF got = <<>> THEN Dropped(m) ELSE query
       /\ last' = [SelectReport("chunk", m, q, ToSet(got)) EXCEPT !.stale = FALSE]
       /\ UNCHANGED <<fixed, rows, self, trash, tx, ops, fails>>

(* While Chunk runs the callback has its own models: the goroutine that is  *)
(* inside Chunk makes no other call on this one.                            *)
Free(m) == ~chunk[m].on

-----------------------------------------------------------------------------
(* Writing through a model. *)

(* What the rows would be with a column set, and without any row. *)
With(col, v) == [i \in Ids |-> [rows[i] EXCEPT ![col] = v]]
Removed == [i \in Ids |-> NoRow]

(* UPDATE or DELETE of the rows a statement reaches; a statement that must  *)
(* wait for a row of the open transaction fails and changes nothing.        *)
Write(op, by, s, to) ==
    LET is == IF Blocked(Touched(s, rows)) THEN {} ELSE Touched(s, rows) IN
    /\ rows' = [i \in Ids |-> IF i \in is THEN to[i] ELSE rows[i]]
    /\ last' = [Report(op, by, s, is) EXCEPT !.stale = IF by \in Models THEN Reused(by) ELSE FALSE]

ById(i) == [NewQuery EXCEPT !.wheres = <<Where("id", i)>>]

(* Data and SetAttr change the model only; Save writes the fields that      *)
(* differ from origin, which no Save renews.  With the optimistic lock the  *)
(* version is a condition; the new version is kept in the model, not        *)
(* written with the row.                                                    *)
SaveQuery(m) ==
    IF locking THEN [NewQuery EXCEPT !.wheres = <<Where("id", self[m].id), Where("version", self[m].version)>>]
    ELSE ById(self[m].id)

Dirty(m, n) == n # self[m].origin \/ self[m].version # self[m].read
Save(m, n) ==
    LET named == n # self[m].origin
        s == Statement(SaveQuery(m), IF named THEN <<n>> ELSE <<self[m].version>>, <<>>)
        is == Touched(s, rows)
    IN /\ Call
       /\ ~self[m].isNew /\ Dirty(m, n)
       /\ Write("save", m, s, IF named THEN With("name", n) ELSE rows)
       /\ self' = [self EXCEPT ![m].name = n,
                               ![m].version = IF locking /\ is # {} /\ ~Blocked(is) THEN @ + 1 ELSE @]
       /\ UNCHANGED <<fixed, query, trash, chunk, tx, fails>>

(* A field that is set back to its origin is not dirty: nothing is written. *)
SaveClean(m) ==
    /\ Call
    /\ ~self[m].isNew /\ ~Dirty(m, self[m].origin)
    /\ self' = [self EXCEPT ![m].name = self[m].origin]
    /\ last' = Idle
    /\ UNCHANGED <<fixed, rows, query, trash, chunk, tx, fails>>

(* Mutant: only the columns the model manages are inserted. *)
InsertManaged(m, n) ==
    LET i == Max(Ids) IN
    /\ Call
    /\ self[m].isNew /\ rows[i] = NoRow
    /\ rows' = [rows EXCEPT ![i] = Row(0, IF locking THEN 1 ELSE 0, 1)]
    /\ self' = [self EXCEPT ![m] = [id |-> i, name |-> n, version |-> rows'[i].version,
                                    origin |-> 0, read |-> 0, isNew |-> FALSE]]
    /\ last' = Idle
    /\ UNCHANGED <<fixed, query, trash, chunk, tx, fails>>

(* A new model is inserted, with version 1 when it is locked (and only      *)
(* while the timestamps are automatic, which New sets).                     *)
Insert(m, n) ==
    LET i == Max(Ids) IN
    /\ Call
    /\ self[m].isNew /\ rows[i] = NoRow
    /\ rows' = [rows EXCEPT ![i] = Row(n, IF locking THEN 1 ELSE 0, 0)]
    /\ self' = [self EXCEPT ![m] = [id |-> i, name |-> n, version |-> rows'[i].version,
                                    origin |-> 0, read |-> 0, isNew |-> FALSE]]
    /\ last' = Idle
    /\ UNCHANGED <<fixed, query, trash, chunk, tx, fails>>

Update(m, c, n) ==
    /\ Call
    /\ Write("update", m, Statement(Builder(m, c), <<n>>, <<>>), With("name", n))
    /\ query' = Dropped(m)
    /\ UNCHANGED <<fixed, self, trash, chunk, tx, fails>>

(* Delete marks or removes the model's row, or the rows of its chain when   *)
(* it holds none.                                                           *)
Delete(m, c) ==
    LET own == self[m].id # 0
        q == IF own THEN ById(self[m].id) ELSE Builder(m, c)
    IN /\ Call
       /\ IF soft THEN Write("delete", m, Statement(q, <<1>>, <<>>), With("deleted", 1))
          ELSE Write("delete", m, Statement(q, <<>>, <<>>), Removed)
       /\ query' = IF own THEN query ELSE Dropped(m)
       /\ UNCHANGED <<fixed, self, trash, chunk, tx, fails>>

ForceDelete(m, c) ==
    LET own == self[m].id # 0
        q == IF own THEN ById(self[m].id) ELSE Builder(m, c)
    IN /\ Call
       /\ Write("delete", m, Statement(q, <<>>, <<>>), Removed)
       /\ query' = IF own THEN query ELSE Dropped(m)
       /\ UNCHANGED <<fixed, self, trash, chunk, tx, fails>>

Restore(m) ==
    /\ Call
    /\ self[m].id # 0
    /\ Write("restore", m, Statement(ById(self[m].id), <<0>>, <<>>), With("deleted", 0))
    /\ UNCHANGED <<fixed, query, self, trash, chunk, tx, fails>>

(* Destroy(table, ids...) *)
Destroy(is) ==
    LET q == [NewQuery EXCEPT !.wheres = <<WhereIn("id", SetToSeq(is))>>] IN
    /\ Call
    /\ Write("delete", "anyone", Statement(q, <<1>>, <<>>), With("deleted", 1))
    /\ UNCHANGED <<fixed, query, self, trash, chunk, tx, fails>>

(* Inc and Dec, here of the version column: without conditions they have    *)
(* no WHERE at all and change every row.                                    *)
Inc(m, c) ==
    LET s == Statement(Builder(m, c), <<1>>, <<>>)
        is == IF driver = "mysql" /\ Fits(s) THEN Hits(rows, Bound(s)) ELSE {}
    IN /\ Call
       /\ ~Blocked(is)
       /\ rows' = [i \in Ids |-> IF i \in is THEN [rows[i] EXCEPT !.version = @ + 1] ELSE rows[i]]
       /\ query' = Dropped(m)
       /\ last' = [Report("inc", m, s, is) EXCEPT !.stale = Reused(m)]
       /\ UNCHANGED <<fixed, self, trash, chunk, tx, fails>>

(* Increment and Decrement take the where clauses and the primary key, not  *)
(* the raw clauses, and leave the builder with them to the next chain.      *)
Increment(m, c) ==
    LET q == [Builder(m, c) EXCEPT !.wheres = Append(@, Where("id", self[m].id))]
        s == Statement([q EXCEPT !.raws = <<>>], <<1>>, <<>>)
        is == IF driver = "mysql" THEN Touched(s, rows) ELSE {}
    IN /\ Call
       /\ self[m].id # 0
       /\ ~Blocked(is)
       /\ rows' = [i \in Ids |-> IF i \in is THEN [rows[i] EXCEPT !.version = @ + 1] ELSE rows[i]]
       /\ query' = [query EXCEPT ![m] = q]
       /\ last' = [Report("increment", m, s, is) EXCEPT !.stale = Reused(m)]
       /\ UNCHANGED <<fixed, self, trash, chunk, tx, fails>>

-----------------------------------------------------------------------------
(* db.Transaction(closure): statements of the closure's Query go through    *)
(* the transaction, except Select, which reads what is committed, and       *)
(* Increment, which uses the pool.  ORM.Transaction gives its closure an    *)
(* ORM all of whose statements use the pool.                                *)

Seen == [i \in Ids |-> IF i \in DOMAIN tx.view THEN tx.view[i] ELSE rows[i]]

TxBegin ==
    /\ Call
    /\ tx.phase = "none"
    /\ tx' = [NoTx EXCEPT !.phase = "open"]
    /\ last' = Idle
    /\ UNCHANGED <<fixed, rows, query, self, trash, chunk, fails>>

(* The committed rows at the transaction's first touch, for the properties. *)
Remember(is) == [i \in is \cup DOMAIN tx.first |-> IF i \in DOMAIN tx.first THEN tx.first[i] ELSE rows[i]]

(* Mutant: the statement takes a connection of the pool. *)
TxUpdateOnPool(c, n) ==
    LET s == Statement(Add(NewQuery, c), <<n>>, <<>>)
        is == Touched(s, rows)
    IN /\ Call
       /\ tx.phase = "open" /\ ~Blocked(is)
       /\ rows' = [i \in Ids |-> IF i \in is THEN [rows[i] EXCEPT !.name = n] ELSE rows[i]]
       /\ tx' = [tx EXCEPT !.first = Remember(is)]
       /\ last' = Report("update", "tx", s, is)
       /\ UNCHANGED <<fixed, query, self, trash, chunk, fails>>

TxUpdate(c, n) ==
    LET s == Statement(Add(NewQuery, c), <<n>>, <<>>)
        is == Touched(s, Seen)
    IN /\ Call
       /\ tx.phase = "open"
       /\ tx' = [tx EXCEPT !.view = [i \in DOMAIN @ \cup is |-> IF i \in is THEN [Seen[i] EXCEPT !.name = n] ELSE @[i]],
                           !.first = Remember(is)]
       /\ last' = [Report("update", "tx", s, is) EXCEPT !.was = Seen]
       /\ UNCHANGED <<fixed, rows, query, self, trash, chunk, fails>>
TxSelect(c) ==
    LET q == Add(NewQuery, c) IN
    /\ Call
    /\ tx.phase = "open"
    /\ last' = Report("txselect", "tx", SelectStatement(q), ToSet(Selected(q, rows)))
    /\ UNCHANGED <<fixed, rows, query, self, trash, chunk, tx, fails>>

TxIncrement(c) ==
    LET s == Statement([Add(NewQuery, c) EXCEPT !.raws = <<>>], <<1>>, <<>>)
        is == IF driver = "mysql" THEN Touched(s, rows) ELSE {}
    IN /\ Call
       /\ tx.phase = "open" /\ is # {} /\ ~Blocked(is)
       /\ rows' = [i \in Ids |-> IF i \in is THEN [rows[i] EXCEPT !.version = @ + 1] ELSE rows[i]]
       /\ tx' = [tx EXCEPT !.first = Remember(is), !.outside = TRUE]
       /\ last' = Report("increment", "tx", s, is)
       /\ UNCHANGED <<fixed, query, self, trash, chunk, fails>>

(* ORM.Delete: refused without a where clause; ORM.Insert and ORM.Update    *)
(* write "$1" for every driver, which MySQL does not take, and number the   *)
(* conditions of an update from 1 again.                                    *)
TxOrmDelete(c) ==
    LET s == Statement([Add(NewQuery, c) EXCEPT !.raws = <<>>], <<>>, <<>>)
        is == Touched(s, rows)
    IN /\ Call
       /\ tx.phase = "open" /\ ~Blocked(is)
       /\ rows' = [i \in Ids |-> IF i \in is THEN NoRow ELSE rows[i]]
       /\ tx' = [tx EXCEPT !.first = Remember(is), !.outside = TRUE]
       /\ last' = Report("delete", "tx", s, is)
       /\ UNCHANGED <<fixed, query, self, trash, chunk, fails>>

OrmUpdateStatement(q, n) ==
    [Statement([q EXCEPT !.raws = <<>>], <<n>>, <<>>) EXCEPT !.numbers = <<1>> \o WhereNumbers(q.wheres)]
TxOrmUpdate(c, n) ==
    LET s == OrmUpdateStatement(Add(NewQuery, c), n)
        is == IF driver = "postgres" /\ Fits(s) THEN Hits(rows, Bound(s)) ELSE {}
    IN /\ Call
       /\ tx.phase = "open" /\ ~Blocked(is)
       /\ rows' = [i \in Ids |-> IF i \in is THEN [rows[i] EXCEPT !.name = n] ELSE rows[i]]
       /\ tx' = [tx EXCEPT !.first = Remember(is), !.outside = TRUE]
       /\ last' = Idle
       /\ UNCHANGED <<fixed, query, self, trash, chunk, fails>>

Commit ==
    /\ tx.phase = "open"
    /\ rows' = Seen
    /\ tx' = NoTx
    /\ last' = Idle
    /\ UNCHANGED <<fixed, query, self, trash, chunk, ops, fails>>

(* The closure returned an error. *)
Rollback ==
    /\ tx.phase = "open"
    /\ tx' = NoTx
    /\ last' = Idle
    /\ UNCHANGED <<fixed, rows, query, self, trash, chunk, ops, fails>>

(* The closure panicked: nothing rolls back, and the rows it wrote stay     *)
(* locked.                                                                  *)
Panic ==
    /\ tx.phase = "open"
    /\ tx' = [tx EXCEPT !.phase = "leaked"]
    /\ last' = Idle
    /\ UNCHANGED <<fixed, rows, query, self, trash, chunk, ops, fails>>

-----------------------------------------------------------------------------
ReadNext(m) ==
    \/ \E t \in {"with", "only"} : WithTrashed(m, t)
    \/ \E i \in Ids : Find(m, i)
    \/ \E c \in Chains : FindFirst(m, c) \/ Select(m, c) \/ SelectFails(m, c) \/ Aggregate(m, c) \/ ChunkStart(m, c)
    \/ \E c \in Chains, p \in 1..2 : Paginate(m, c, p)

WriteNext(m) ==
    \/ SaveClean(m) \/ Restore(m)
    \/ \E n \in Names : Save(m, n) \/ Insert(m, n)
    \/ \E c \in Chains : Delete(m, c) \/ ForceDelete(m, c) \/ Inc(m, c) \/ Increment(m, c)
    \/ \E c \in Chains, n \in Names : Update(m, c, n)

TxNext ==
    \/ TxBegin \/ Commit \/ Rollback \/ Panic
    \/ \E c \in Chains : TxSelect(c) \/ TxIncrement(c) \/ TxOrmDelete(c)
    \/ \E c \in Chains, n \in Names : TxUpdate(c, n) \/ TxOrmUpdate(c, n)

Next ==
    \/ \E m \in Models : ChunkPage(m) \/ (Free(m) /\ (ReadNext(m) \/ WriteNext(m)))
    \/ \E is \in {{1}, {1, 2}} : Destroy(is)
    \/ TxNext

Spec == Init /\ [][Next]_vars

-----------------------------------------------------------------------------
TypeOK ==
    /\ driver \in Drivers
    /\ soft \in BOOLEAN /\ locking \in BOOLEAN
    /\ \A i \in Ids : rows[i] = NoRow \/ rows[i].name \in Names
    /\ \A m \in Models :
        /\ trash[m] \in {"without", "with", "only"}
        /\ self[m].id \in Ids \cup {0}
        /\ query[m] # NoQuery => query[m].limit \in 0..1
    /\ tx.phase \in {"none", "open", "leaked"}
    /\ DOMAIN tx.view \subseteq Ids

Plain(ks) == \A i \in 1..Len(ks) : ks[i].logic = "AND"

(* Under postgres lists shift the numbers of the conditions after them, and *)
(* an UPDATE with two conditions swaps their arguments.                     *)
Portable ==
    \/ driver = "mysql"
    \/ /\ \A k \in Range(last.meant) : Len(k.vals) <= 1
       /\ last.op \in {"find", "select", "count", "paginate", "chunk", "txselect"} \/ Len(last.meant) <= 1

(* query.go:758-907: each placeholder of a statement that is portable       *)
(* receives the value of its own condition and no other.                    *)
StatementsBind == last.fits /\ Portable => last.bound = last.meant

(* model.go:376-387: no query of a model that did not ask for trashed rows  *)
(* returns one, as long as the chain has no WhereOr.                        *)
SoftDeletedHidden ==
    last.op \in {"find", "select", "paginate", "chunk"} /\ last.scope = "without" /\ Plain(last.meant) =>
        \A i \in last.ids : last.was[i].deleted = 0

(* query.go:667-680: a builder whose statement does not fit its arguments has*)
(* already run a Select that failed.                                        *)
MisfitsAreRetries == ~last.fits => driver # "mysql" \/ last.stale

(* query.go:928-980: a write reaches exactly the rows that meet every  *)
(* condition of its chain.                                                  *)
WritesMeetConditions ==
    last.op \in {"save", "update", "delete", "restore", "increment"} /\ Plain(last.meant) /\ Portable =>
        \A i \in last.ids, k \in Range(last.meant) : True(k, Column(last.was, i, k.col))

(* query.go:566-602: the count of a page is the number of rows that meet   *)
(* the conditions, unless the chain had set a page of its own.              *)
TotalsCount ==
    last.op = "paginate" /\ last.fits /\ last.total > 0 => last.total = Cardinality(Hits(last.was, last.meant))

(* query.go:605-627: a Chunk none of whose pages failed, and during which   *)
(* no row entered or left the result, has given every row to the callback   *)
(* once.                                                                    *)
ChunkSeesAll ==
    \A m \in Models : ~chunk[m].on /\ chunk[m].page > 0 /\ chunk[m].steady =>
        /\ ToSet(chunk[m].seen) = chunk[m].at
        /\ Len(chunk[m].seen) = Cardinality(chunk[m].at)

(* The query builder and the models: the five above and a Chunk that gives  *)
(* every row once.                                                          *)
RecordsSound ==
    /\ StatementsBind /\ SoftDeletedHidden /\ MisfitsAreRetries /\ WritesMeetConditions /\ TotalsCount
    /\ ChunkSeesAll

(* db.go:335-350: a transaction whose closure returned an error has changed *)
(* nothing, as long as it used neither Increment nor the ORM.               *)
RollbackUndoes ==
    [][Rollback /\ ~tx.outside =>
        \A i \in DOMAIN tx.first : rows'[i] = tx.first[i]]_vars

(* model.go:642: what a save under the optimistic lock replaced is what     *)
(* this model had read, or written itself.                                  *)
NoLostUpdate ==
    [][\A m \in Models, n \in Names :
        locking /\ Save(m, n) =>
            \A i \in last'.ids : rows[i].name \in {self[m].origin, self[m].name}]_vars
=============================================================================
