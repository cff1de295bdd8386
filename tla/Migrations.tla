------------------------------ MODULE Migrations ------------------------------
(***************************************************************************)
(* The migrator of framework/db/migration.go as the HTTP handlers of       *)
(* app/controller/migration_controller.go and the command line use it:     *)
(* each call has a Migrator of its own, and several calls may run at once. *)
(* A migration is applied in two steps that share no transaction: its Up   *)
(* function runs, then its version is recorded.                            *)
(***************************************************************************)
EXTENDS Integers, Sequences, Functions, FiniteSets

CONSTANTS
    Runners,        \* requests and command line processes
    Versions,       \* numbers, in the order in which they should be applied
    MaxRuns,        \* bound on the calls
    MaxTroubles     \* bound on failed statements and crashes

VARIABLES
    applied,        \* the versions in the migrations table
    present,        \* the versions whose change is in the schema
    phase,          \* what each runner is doing
    todo,           \* the versions its call has still to go through
    build,          \* the migrations it knows, and whether it resets
    runs, troubles,
    clean           \* no call failed, overlapped another, or lacked a function

vars == <<applied, present, phase, todo, build, runs, troubles, clean>>

Nothing == [list |-> <<>>, loaded |-> FALSE, reset |-> FALSE]
Orders(S) == {s \in [1..Cardinality(S) -> S] : Range(s) = S}
Sorted(S) == CHOOSE s \in Orders(S) : \A i, j \in 1..Len(s) : i < j => s[i] < s[j]
Backwards(S) == {s \in Orders(S) : \A i, j \in 1..Len(s) : i < j => s[i] > s[j]}
Prefix(s, n) == SubSeq(s, 1, IF n < Len(s) THEN n ELSE Len(s))

Init ==
    /\ applied = {}
    /\ present = {}
    /\ phase = [r \in Runners |-> "idle"]
    /\ todo = [r \in Runners |-> <<>>]
    /\ build = [r \in Runners |-> Nothing]
    /\ runs = 0 /\ troubles = 0
    /\ clean = TRUE

Active(r) == phase[r] \notin {"idle", "failed"}
AtRest == \A r \in Runners : ~Active(r)
GoOn(r, p, t) == phase' = [phase EXCEPT ![r] = p] /\ todo' = [todo EXCEPT ![r] = t]
Begin(r, p, t, b) == GoOn(r, p, t) /\ build' = [build EXCEPT ![r] = b]
Stop(r, p) == Begin(r, p, <<>>, Nothing)
Trouble == troubles < MaxTroubles /\ troubles' = troubles + 1 /\ clean' = FALSE
Start(r) == ~Active(r) /\ runs < MaxRuns /\ runs' = runs + 1 /\ clean' = (clean /\ AtRest)

(* The migrations of a runner: added in the order of the calls of           *)
(* AddMigration, or loaded from files, then sorted and without functions.   *)
(* getAppliedMigrations answers what is recorded now, and what is missing   *)
(* is applied one by one.                                                   *)
Pending(list) == SelectSeq(list, LAMBDA v : v \notin applied)
Migrate(r, list, fromFiles) ==
    /\ Start(r)
    /\ fromFiles => list = Sorted(Range(list))
    /\ Begin(r, "up", Pending(list), [list |-> list, loaded |-> fromFiles, reset |-> FALSE])
    /\ UNCHANGED <<applied, present, troubles>>

(* Up is idempotent (database/README.md asks for it); a loaded migration    *)
(* has none, and calling it panics.                                         *)
Up(r) ==
    /\ phase[r] = "up" /\ todo[r] # <<>> /\ ~build[r].loaded
    /\ present' = present \cup {Head(todo[r])}
    /\ GoOn(r, "record", todo[r])
    /\ UNCHANGED <<applied, build, runs, troubles, clean>>

UpPanics(r) ==
    /\ phase[r] = "up" /\ todo[r] # <<>> /\ build[r].loaded
    /\ Stop(r, "failed")
    /\ clean' = FALSE
    /\ UNCHANGED <<applied, present, runs, troubles>>

(* Mutant: what is to be applied is recorded at once. *)
RecordAll(r) ==
    /\ phase[r] = "record"
    /\ applied' = applied \cup Range(todo[r])
    /\ GoOn(r, "up", <<>>)
    /\ UNCHANGED <<present, build, runs, troubles, clean>>

(* The version is UNIQUE: a second record of it is an error, like any       *)
(* other failure of the INSERT.                                             *)
Record(r) ==
    LET v == Head(todo[r]) IN
    /\ phase[r] = "record"
    /\ IF v \in applied
       THEN Stop(r, "failed")
       ELSE GoOn(r, "up", Tail(todo[r])) /\ UNCHANGED build
    /\ applied' = applied \cup {v}
    /\ UNCHANGED <<present, runs, troubles, clean>>
(* Up, Record, Down or Erase fails: the call returns an error and undoes    *)
(* nothing.                                                                 *)
StepFails(r) ==
    /\ phase[r] \in {"up", "record", "erase"} \/ (phase[r] = "down" /\ ~build[r].reset)
    /\ todo[r] # <<>>
    /\ Trouble
    /\ Stop(r, "failed")
    /\ UNCHANGED <<applied, present, runs>>

Crash(r) ==
    /\ Active(r)
    /\ Trouble
    /\ Stop(r, "idle")
    /\ UNCHANGED <<applied, present, runs>>

(* Rollback(steps) takes the newest records, Reset takes them all.          *)
Rollback(r, list, fromFiles, steps) ==
    /\ Start(r)
    /\ \E newest \in Backwards(applied) :
          Begin(r, "down", Prefix(newest, steps), [list |-> list, loaded |-> fromFiles, reset |-> FALSE])
    /\ UNCHANGED <<applied, present, troubles>>

Reset(r, list, fromFiles) ==
    /\ Start(r)
    /\ \E newest \in Backwards(applied) :
          Begin(r, "down", newest, [list |-> list, loaded |-> fromFiles, reset |-> TRUE])
    /\ UNCHANGED <<applied, present, troubles>>

Known(r) == Head(todo[r]) \in Range(build[r].list)

(* A migration without a Down function is passed over: its record goes and  *)
(* its change stays.  Rollback stops at a version it does not know; Reset   *)
(* passes it over.                                                          *)
Down(r) ==
    /\ phase[r] = "down" /\ todo[r] # <<>>
    /\ Known(r)
    /\ present' = IF build[r].loaded THEN present ELSE present \ {Head(todo[r])}
    /\ clean' = (clean /\ ~build[r].loaded)
    /\ IF build[r].reset THEN GoOn(r, "down", Tail(todo[r])) ELSE GoOn(r, "erase", todo[r])
    /\ UNCHANGED <<applied, build, runs, troubles>>

(* Reset only warns when a Down fails. *)
ResetGoesOn(r) ==
    /\ phase[r] = "down" /\ todo[r] # <<>> /\ build[r].reset
    /\ IF Known(r) THEN Trouble ELSE clean' = FALSE /\ UNCHANGED troubles
    /\ GoOn(r, "down", Tail(todo[r]))
    /\ UNCHANGED <<applied, present, build, runs>>

UnknownVersion(r) ==
    /\ phase[r] = "down" /\ todo[r] # <<>> /\ ~build[r].reset
    /\ ~Known(r)
    /\ Stop(r, "failed")
    /\ UNCHANGED <<applied, present, runs, troubles, clean>>

Erase(r) ==
    /\ phase[r] = "erase"
    /\ applied' = applied \ {Head(todo[r])}
    /\ GoOn(r, "down", Tail(todo[r]))
    /\ UNCHANGED <<present, build, runs, troubles, clean>>

Done(r) ==
    /\ phase[r] \in {"up", "down"} /\ todo[r] = <<>>
    /\ applied' = IF build[r].reset THEN {} ELSE applied
    /\ Stop(r, "idle")
    /\ UNCHANGED <<present, runs, troubles, clean>>

(* The lists a runner may hold: all versions in either order, or those of a *)
(* build that does not have the last one yet.                               *)
Lists == LET sorted == Sorted(Versions) IN {sorted, Prefix(sorted, Len(sorted) - 1)} \cup Backwards(Versions)

Next == \E r \in Runners :
    \/ \E l \in Lists, f \in BOOLEAN : Migrate(r, l, f) \/ Reset(r, l, f) \/ \E k \in 1..2 : Rollback(r, l, f, k)
    \/ Up(r) \/ UpPanics(r) \/ Record(r) \/ StepFails(r) \/ Crash(r)
    \/ Down(r) \/ ResetGoesOn(r) \/ UnknownVersion(r) \/ Erase(r) \/ Done(r)

Spec == Init /\ [][Next]_vars

-----------------------------------------------------------------------------
Phases == {"idle", "up", "record", "down", "erase", "failed"}
TypeOK ==
    /\ applied \subseteq Versions /\ present \subseteq Versions
    /\ phase \in [Runners -> Phases]
    /\ \A r \in Runners : Range(todo[r]) \subseteq Versions

(* migration.go:203-245, 248-320: calls that do not overlap and do not fail *)
(* leave exactly the recorded versions in the schema, whatever was migrated,*)
(* rolled back and reset before, and by which build.                        *)
RecordsMatchSchema == clean /\ AtRest => applied = present
=============================================================================
