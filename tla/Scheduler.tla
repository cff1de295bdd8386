----------------------------- MODULE Scheduler ------------------------------
(***************************************************************************)
(* Scheduler of framework/scheduler/scheduler.go over the cron library.    *)
(* The operations hold s.mu and are one step each, but Stop, which keeps   *)
(* s.mu until the runs that cron has started are over.  A handler may ask  *)
(* the scheduler something, and then needs s.mu itself.                    *)
(*                                                                         *)
(* cron gives every entry a new number and skips an entry that still runs. *)
(* Specs are valid; handlers that panic end like any other; of the runs    *)
(* that RunTaskNow starts one of a task is followed at a time.             *)
(***************************************************************************)
EXTENDS Integers, FiniteSets, Functions

CONSTANTS
    Tasks,
    Asking,         \* tasks whose handlers ask the scheduler
    MaxEntries      \* bound: cron entries ever added

VARIABLES
    tasks,          \* s.tasks: "absent", "on" or "off", by Enabled
    entryOf,        \* cronEntryID, 0 for none
    running,        \* s.running
    stopping,       \* Stop holds s.mu and waits
    entries,        \* the task of every entry cron was ever given
    present,        \* the entries cron still has
    runs,           \* entries whose task cron is running
    manual          \* tasks that RunTaskNow is running

schedVars == <<tasks, entryOf, running, stopping>>
cronVars == <<entries, present, runs>>
vars == <<schedVars, cronVars, manual>>

Numbers == 1..MaxEntries

TypeOK ==
    /\ tasks \in [Tasks -> {"absent", "on", "off"}]
    /\ entryOf \in [Tasks -> 0..MaxEntries]
    /\ running \in BOOLEAN /\ stopping \in BOOLEAN
    /\ entries \in [Numbers -> Tasks \cup {"unused"}]
    /\ present \subseteq Numbers /\ runs \subseteq Numbers
    /\ manual \subseteq Tasks

Init ==
    /\ tasks = [t \in Tasks |-> "absent"]
    /\ entryOf = [t \in Tasks |-> 0]
    /\ running = FALSE /\ stopping = FALSE
    /\ entries = [n \in Numbers |-> "unused"]
    /\ present = {} /\ runs = {}
    /\ manual = {}

-----------------------------------------------------------------------------
(* cron *)
NextNumber == Cardinality({n \in Numbers : entries[n] # "unused"}) + 1

AddFunc(t) ==
    /\ NextNumber \in Numbers
    /\ entries' = [entries EXCEPT ![NextNumber] = t]
    /\ present' = present \cup {NextNumber}
    /\ entryOf' = [entryOf EXCEPT ![t] = NextNumber]

Remove(t) == present' = IF running THEN present \ {entryOf[t]} ELSE present

Unlocked == ~stopping

AddTask(t) ==
    /\ Unlocked /\ tasks[t] = "absent"
    /\ tasks' = [tasks EXCEPT ![t] = "on"]
    /\ IF running THEN AddFunc(t) ELSE UNCHANGED <<entries, present, entryOf>>
    /\ UNCHANGED <<running, stopping, runs, manual>>

RemoveTask(t) ==
    /\ Unlocked /\ tasks[t] # "absent"
    /\ tasks' = [tasks EXCEPT ![t] = "absent"]
    /\ entryOf' = [entryOf EXCEPT ![t] = 0]
    /\ Remove(t)
    /\ UNCHANGED <<running, stopping, entries, runs, manual>>

EnableTask(t) ==
    /\ Unlocked /\ tasks[t] = "off"
    /\ tasks' = [tasks EXCEPT ![t] = "on"]
    /\ IF running THEN AddFunc(t) ELSE UNCHANGED <<entries, present, entryOf>>
    /\ UNCHANGED <<running, stopping, runs, manual>>

DisableTask(t) ==
    /\ Unlocked /\ tasks[t] = "on"
    /\ tasks' = [tasks EXCEPT ![t] = "off"]
    /\ Remove(t)
    /\ UNCHANGED <<entryOf, running, stopping, entries, runs, manual>>

(* Every enabled task gets an entry; those of the time before Stop are     *)
(* still there.                                                            *)
Start ==
    /\ Unlocked /\ ~running
    /\ LET on == {t \in Tasks : tasks[t] = "on"}
           new == NextNumber..(NextNumber + Cardinality(on) - 1)
       IN /\ new \subseteq Numbers
          /\ \E taskOf \in Bijection(new, on) :
                /\ entries' = [n \in Numbers |-> IF n \in new THEN taskOf[n] ELSE entries[n]]
                /\ present' = present \cup new
                /\ entryOf' = [t \in Tasks |->
                                 IF t \in on THEN Inverse(taskOf, new, on)[t] ELSE 0]
    /\ running' = TRUE
    /\ UNCHANGED <<tasks, stopping, runs, manual>>

(* cron.Stop: no entry starts any more; s.running is still set. *)
BeginStop ==
    /\ Unlocked /\ running
    /\ stopping' = TRUE
    /\ UNCHANGED <<tasks, entryOf, running, cronVars, manual>>

EndStop ==
    /\ stopping /\ runs = {}
    /\ stopping' = FALSE /\ running' = FALSE
    /\ entryOf' = [t \in Tasks |-> 0]
    /\ UNCHANGED <<tasks, cronVars, manual>>

(* The time of an entry comes; one that still runs is skipped. *)
Fire(n) ==
    /\ running /\ ~stopping
    /\ n \in present \ runs
    /\ runs' = runs \cup {n}
    /\ UNCHANGED <<schedVars, entries, present, manual>>

Answered(t) == t \in Asking => Unlocked

(* A handler returns, after the scheduler has answered it. *)
Finish(n) ==
    /\ n \in runs /\ Answered(entries[n])
    /\ runs' = runs \ {n}
    /\ UNCHANGED <<schedVars, entries, present, manual>>

RunTaskNow(t) ==
    /\ Unlocked /\ tasks[t] # "absent"
    /\ manual' = manual \cup {t}
    /\ UNCHANGED <<schedVars, cronVars>>

FinishManual(t) ==
    /\ t \in manual /\ Answered(t)
    /\ manual' = manual \ {t}
    /\ UNCHANGED <<schedVars, cronVars>>

Next ==
    \/ \E t \in Tasks :
          \/ AddTask(t) \/ RemoveTask(t) \/ EnableTask(t) \/ DisableTask(t)
          \/ RunTaskNow(t) \/ FinishManual(t)
    \/ Start \/ BeginStop \/ EndStop
    \/ \E n \in Numbers : Fire(n) \/ Finish(n)

Spec == Init /\ [][Next]_vars

-----------------------------------------------------------------------------
(* While the scheduler runs every enabled task has an entry of its own,    *)
(* through any sequence of starts, stops, removals and additions.          *)
EnabledScheduled ==
    running => \A t \in Tasks : tasks[t] = "on" =>
        entryOf[t] \in present /\ entries[entryOf[t]] = t

(* After Stop (line 303) cron runs nothing, until the next Start.          *)
QuietWhenStopped == ~running => runs = {}

SchedulerSound == EnabledScheduled /\ QuietWhenStopped

(* scheduler.go:184: a task that is disabled does not run. *)
DisabledIsQuiet ==
    [][\A n \in Numbers : Fire(n) => tasks[entries[n]] = "on"]_vars
=============================================================================
