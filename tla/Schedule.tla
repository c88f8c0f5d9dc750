------------------------------ MODULE Schedule ------------------------------
(***************************************************************************)
(* The switch LDAP_ENABLED, the periodic task "Users: LDAP Sync" that must *)
(* follow it, the task of the zombie cleanup, and beat's copy of the       *)
(* schedule (backend/app/settings/ldap, backend/app/tasks, backend/main,   *)
(* celery_beat).                                                           *)
(*                                                                         *)
(* A request of the administrator is a database session: every query of it *)
(* is a step and sees what is committed by then, an UPDATE writes the      *)
(* columns that differ from what was loaded.  The backend initialises the  *)
(* tables at every start, in several commits between which it may stop.    *)
(***************************************************************************)
EXTENDS Naturals

CONSTANTS
    Minute, Hour,          \* two of the five fields of a crontab
    Midnight,              \* the default crontab, a member of Cron
    Unparsable, Empty,     \* a string without five fields, and ""
    Absent,                \* no row, no such key in the request
    Null,                  \* null in a request, "None" in the table
    Timeout,               \* values of TASK_TIMEOUT
    Environment,           \* what the backend may be configured with
    Ask,                   \* what administrators ask for
    Tx,                    \* the requests in progress
    MaxCalls, MaxCrashes   \* bounds for TLC only

Cron == [minute : Minute, hour : Hour]

\* A PUT names one key; a PATCH any of them.
Request ==
    [via  : {"PUT", "PATCH"},
     flag : BOOLEAN \cup {Null, Absent},
     cron : Cron \cup {Unparsable, Empty, Absent}]

ASSUME CronAssumption ==
    /\ Midnight \in Cron
    /\ Absent \notin Cron /\ Unparsable \notin Cron /\ Empty \notin Cron
    /\ Absent \notin {Unparsable, Empty}

ASSUME FlagAssumption == Null \notin BOOLEAN /\ Absent \notin BOOLEAN \cup {Null}

ASSUME AskAssumption ==
    /\ Ask \subseteq Request
    /\ \A a \in Ask : a.via = "PUT" => (a.flag = Absent) # (a.cron = Absent)
    /\ \A a \in Ask : a.flag # Absent \/ a.cron # Absent

ASSUME TaskAssumption ==
    Absent \notin [enabled : BOOLEAN, cron : Cron, named : BOOLEAN]
                    \cup [every : Timeout, timeout : Timeout]

Config == [enabled : BOOLEAN, cron : Cron, timeout : Timeout]

ASSUME EnvironmentAssumption == Environment \subseteq Config

ASSUME BoundAssumption == MaxCalls \in Nat /\ MaxCrashes \in Nat

VARIABLES
    flag,      \* the row LDAP_ENABLED
    task,      \* the periodic task of the sync
    cleanup,   \* the periodic task of the cleanup
    changed,   \* last_update of the table periodic_task_changed, 0 for no row
    config,    \* the environment of the backend
    left,      \* what the backend has still to initialise; it is up when empty
    tx,        \* the requests
    beat,      \* what beat knows: its copy of the task, the last_update it saw
    clock,     \* stamps handed out
    calls, crashes,
    disturbed  \* history: a request has committed after somebody else's commit,
               \* or has set the switch to null, of which the task learns nothing

vars == <<flag, task, cleanup, changed, config, left, tx, beat, clock, calls,
          crashes, disturbed>>

tables == <<flag, task, cleanup, changed>>

----------------------------------------------------------------------------
(* The state. *)

\* named: the arguments hold schedule_id, without which a worker cannot claim.
Task == [enabled : BOOLEAN, cron : Cron, named : BOOLEAN]

Cleanup == [every : Timeout, timeout : Timeout]

Place == {"idle", "flag", "info", "load", "stamp", "commit"}

\* readFlag, readCron: what the queries have returned.  old: the task as the
\* session has loaded it.  touched: somebody has committed since the opening.
Session ==
    [pc : Place, ask : Request \cup {Absent},
     readFlag : BOOLEAN \cup {Null, Absent}, readCron : Cron,
     old : Task \cup {Absent}, stamp : Nat, touched : BOOLEAN]

Idle == [pc |-> "idle", ask |-> Absent, readFlag |-> Absent, readCron |-> Midnight,
         old |-> Absent, stamp |-> 0, touched |-> FALSE]

Modules == {"rows", "task", "cleanup", "sync"}

TypeOK ==
    /\ flag \in BOOLEAN \cup {Null, Absent}
    /\ task \in Task \cup {Absent}
    /\ cleanup \in Cleanup \cup {Absent}
    /\ changed \in Nat /\ clock \in Nat
    /\ config \in Config
    /\ left \in SUBSET Modules
    /\ tx \in [Tx -> Session]
    /\ beat \in [copy : Task \cup {Absent}, saw : Nat]
    /\ calls \in Nat /\ crashes \in Nat
    /\ disturbed \in BOOLEAN

Init ==
    /\ flag = Absent /\ task = Absent /\ cleanup = Absent /\ changed = 0
    /\ config \in Environment
    /\ left = Modules
    /\ tx = [t \in Tx |-> Idle]
    /\ beat = [copy |-> Absent, saw |-> 0]
    /\ clock = 0 /\ calls = 0 /\ crashes = 0
    /\ disturbed = FALSE

Up == left = {}

\* is_ldap_enabled: the string "true", whatever its case.
On(f) == f = TRUE

\* The split of create_or_update_periodic_task: five fields or the default.
Parse(c) == IF c \in Cron THEN c ELSE Midnight

----------------------------------------------------------------------------
(* Requests of the administrator. *)

\* A PATCH of null for the switch leaves the scheduler alone.
Syncs(a) == a.via = "PUT" \/ a.flag \in BOOLEAN \/ a.cron # Absent

\* What the switch is told and the task is not.
Unheard(a) == a.via = "PATCH" /\ a.flag = Null /\ a.cron = Absent

\* A PATCH without the switch looks at the task before it looks at the switch.
FirstQuery(a) == IF a.via = "PATCH" /\ a.flag = Absent THEN "info" ELSE "flag"

Open(t) ==
    /\ Up
    /\ tx[t].pc = "idle"
    /\ calls < MaxCalls
    /\ \E a \in Ask : tx' = [tx EXCEPT ![t] = [Idle EXCEPT !.pc = FirstQuery(a), !.ask = a]]
    /\ calls' = calls + 1
    /\ UNCHANGED <<tables, config, left, beat, clock, crashes, disturbed>>

\* The row LDAP_ENABLED, to be changed or for is_ldap_enabled.
ReadFlag(t) ==
    LET a == tx[t].ask IN
    /\ tx[t].pc = "flag"
    /\ tx' = [tx EXCEPT
         ![t].readFlag = flag,
         ![t].pc = IF a.flag = Absent THEN "load"
                   ELSE IF Syncs(a) THEN "info" ELSE "commit"]
    /\ UNCHANGED <<tables, config, left, beat, clock, calls, crashes, disturbed>>

\* get_periodic_task_info.  The session forgets the task again.
ReadInfo(t) ==
    /\ tx[t].pc = "info"
    /\ tx' = [tx EXCEPT
         ![t].readCron = task.cron,
         ![t].pc = IF tx[t].ask.flag = Absent THEN "flag" ELSE "load"]
    /\ UNCHANGED <<tables, config, left, beat, clock, calls, crashes, disturbed>>

\* create_or_update_periodic_task loads the task it is going to change.
LoadTask(t) ==
    /\ tx[t].pc = "load"
    /\ tx' = [tx EXCEPT ![t].old = task, ![t].pc = "stamp"]
    /\ UNCHANGED <<tables, config, left, beat, clock, calls, crashes, disturbed>>

\* Mutant: the stamp is not later than the one before.
StampTruncated(t) ==
    /\ tx[t].pc = "stamp"
    /\ tx' = [tx EXCEPT ![t].stamp = clock, ![t].pc = "commit"]
    /\ UNCHANGED <<tables, config, left, beat, clock, calls, crashes, disturbed>>

\* The flush calls the listener of the crontab, which was assigned to in any
\* case: the listener takes the time before its UPDATE may have to wait.
Stamp(t) ==
    /\ tx[t].pc = "stamp"
    /\ clock' = clock + 1
    /\ tx' = [tx EXCEPT ![t].stamp = clock', ![t].pc = "commit"]
    /\ UNCHANGED <<tables, config, left, beat, calls, crashes, disturbed>>

\* Mutant: the task gets the switch as it was before the change.
EnabledAsRead(t) == On(tx[t].readFlag)

NewEnabled(t) == On(IF tx[t].ask.flag = Absent THEN tx[t].readFlag ELSE tx[t].ask.flag)

\* Mutant: a request without a crontab gets the default.
CronOrMidnight(t) == Parse(tx[t].ask.cron)

NewCron(t) ==
    LET a == tx[t].ask IN
    IF a.cron = Absent \/ (a.via = "PATCH" /\ a.cron = Empty)
    THEN tx[t].readCron ELSE Parse(a.cron)

\* What an UPDATE leaves in a column: the new value if it differs from the
\* loaded one, else what is there now.
Column(new, old, now) == IF new # old THEN new ELSE now

Updated(enabled, cron, old) ==
    [enabled |-> Column(enabled, old.enabled, task.enabled),
     cron    |-> [minute |-> Column(cron.minute, old.cron.minute, task.cron.minute),
                  hour   |-> Column(cron.hour, old.cron.hour, task.cron.hour)],
     named   |-> Column(TRUE, old.named, task.named)]

\* The request ends; whoever is in progress has been overtaken by a commit.
Overtaken(t) ==
    [u \in Tx |-> IF u = t THEN Idle
                  ELSE IF tx[u].pc = "idle" THEN tx[u]
                  ELSE [tx[u] EXCEPT !.touched = TRUE]]

Commit(t) ==
    LET a == tx[t].ask IN
    /\ tx[t].pc = "commit"
    /\ flag' = IF a.flag = Absent THEN flag ELSE Column(a.flag, tx[t].readFlag, flag)
    /\ IF Syncs(a)
       THEN /\ task' = Updated(NewEnabled(t), NewCron(t), tx[t].old)
            /\ changed' = tx[t].stamp
       ELSE UNCHANGED <<task, changed>>
    /\ tx' = Overtaken(t)
    /\ disturbed' = (disturbed \/ tx[t].touched \/ Unheard(a))
    /\ UNCHANGED <<cleanup, config, left, beat, clock, calls, crashes>>

\* An error rolls the session back.
RollBack(t) ==
    /\ tx[t].pc # "idle"
    /\ tx' = [tx EXCEPT ![t] = Idle]
    /\ UNCHANGED <<tables, config, left, beat, clock, calls, crashes, disturbed>>

----------------------------------------------------------------------------
(* The start of the backend. *)

\* The backend stops, at whatever it is, and starts again, perhaps with another
\* environment.  LDAP_ENABLED is taken as given once and for all.
Crash ==
    /\ crashes < MaxCrashes
    /\ crashes' = crashes + 1
    /\ config' \in {c \in Environment : c.enabled = config.enabled}
    /\ left' = Modules
    /\ tx' = [t \in Tx |-> Idle]
    /\ UNCHANGED <<tables, beat, clock, calls, disturbed>>

\* settings/ldap/initial_data: the missing rows of the table, and their commit.
InitRows ==
    /\ "rows" \in left
    /\ flag' = IF flag = Absent THEN config.enabled ELSE flag
    /\ left' = left \ {"rows"}
    /\ UNCHANGED <<task, cleanup, changed, config, tx, beat, clock, calls, crashes, disturbed>>

\* Mutant: every start takes the configuration.
InitTaskFromConfig ==
    /\ "rows" \notin left /\ "task" \in left
    /\ task' = [enabled |-> config.enabled, cron |-> config.cron, named |-> TRUE]
    /\ clock' = clock + 1
    /\ changed' = clock'
    /\ left' = left \ {"task"}
    /\ UNCHANGED <<flag, cleanup, config, tx, beat, calls, crashes, disturbed>>

\* The rest of it: the task is created from the configuration, or gets its
\* arguments again and keeps its crontab and whether it is enabled.
InitTask ==
    /\ "rows" \notin left /\ "task" \in left
    /\ task' = IF task = Absent
               THEN [enabled |-> config.enabled, cron |-> config.cron, named |-> TRUE]
               ELSE Updated(task.enabled, task.cron, task)
    /\ clock' = clock + 1
    /\ changed' = clock'
    /\ left' = left \ {"task"}
    /\ UNCHANGED <<flag, cleanup, config, tx, beat, calls, crashes, disturbed>>

\* Mutant: an existing cleanup keeps its arguments.
InitCleanupOnce ==
    /\ "cleanup" \in left
    /\ "rows" \in left \/ "task" \notin left
    /\ cleanup' = IF cleanup = Absent
                  THEN [every |-> config.timeout, timeout |-> config.timeout] ELSE cleanup
    /\ clock' = clock + 1
    /\ changed' = clock'
    /\ left' = left \ {"cleanup"}
    /\ UNCHANGED <<flag, task, config, tx, beat, calls, crashes, disturbed>>

\* tasks/initial_data, before or after the settings: an existing cleanup gets
\* its arguments again and keeps its interval.
InitCleanup ==
    /\ "cleanup" \in left
    /\ "rows" \in left \/ "task" \notin left
    /\ cleanup' = [every |-> IF cleanup = Absent THEN config.timeout ELSE cleanup.every,
                   timeout |-> config.timeout]
    /\ clock' = clock + 1
    /\ changed' = clock'
    /\ left' = left \ {"cleanup"}
    /\ UNCHANGED <<flag, task, config, tx, beat, calls, crashes, disturbed>>

\* Mutant: the lifespan commits its version of the task.
SyncAndCommit ==
    /\ left = {"sync"}
    /\ left' = {}
    /\ task' = [task EXCEPT !.enabled = On(flag), !.named = FALSE]
    /\ UNCHANGED <<flag, cleanup, changed, config, tx, beat, clock, calls, crashes, disturbed>>

\* The lifespan writes the task once more, without schedule_id, and closes the
\* session before any commit.
SyncPeriodicTasks ==
    /\ left = {"sync"}
    /\ left' = {}
    /\ UNCHANGED <<tables, config, tx, beat, clock, calls, crashes, disturbed>>

----------------------------------------------------------------------------
(* Beat reads the tables anew when last_update is later than the one it saw. *)

BeatStarts ==
    /\ changed > 0 /\ beat.saw = 0
    /\ beat' = [copy |-> task, saw |-> changed]
    /\ UNCHANGED <<tables, config, left, tx, clock, calls, crashes, disturbed>>

BeatChecks ==
    /\ beat.saw > 0 /\ changed # beat.saw
    /\ beat' = [copy |-> IF changed > beat.saw THEN task ELSE beat.copy, saw |-> changed]
    /\ UNCHANGED <<tables, config, left, tx, clock, calls, crashes, disturbed>>

----------------------------------------------------------------------------

Proceed(t) ==
    ReadFlag(t) \/ ReadInfo(t) \/ LoadTask(t) \/ Stamp(t) \/ Commit(t)

Start == InitRows \/ InitTask \/ InitCleanup \/ SyncPeriodicTasks

Next ==
    \/ \E t \in Tx : Open(t) \/ Proceed(t) \/ RollBack(t)
    \/ Crash \/ Start
    \/ BeatStarts \/ BeatChecks

Spec == Init /\ [][Next]_vars

\* A request is carried out, a started backend gets to its end, beat looks.
Fairness ==
    /\ \A t \in Tx : WF_vars(Proceed(t))
    /\ WF_vars(Start)
    /\ WF_vars(BeatStarts) /\ WF_vars(BeatChecks)

FairSpec == Spec /\ Fairness

----------------------------------------------------------------------------
(* What must hold. *)

\* The sync is scheduled exactly when LDAP is on, whatever the order of updates,
\* refused requests, crashes and restarts (update_ldap_setting and the bulk update
\* write the row and the task; init_data writes each where it is missing).
FlagMatchesTask == task # Absent /\ ~disturbed => task.enabled = On(flag)

\* The arguments that a worker needs to claim an execution are never lost, neither
\* in the table nor in beat's copy: the lifespan's second version of them, without
\* schedule_id, is seen by nobody.
ScheduleIdStays ==
    /\ task # Absent => task.named
    /\ beat.copy # Absent => beat.copy.named

\* A backend that answers requests has all its rows, and the cleanup works with
\* the timeout of the configuration, wherever earlier starts were interrupted.
StartIsComplete ==
    Up => /\ flag # Absent /\ task # Absent /\ cleanup # Absent
          /\ cleanup.timeout = config.timeout

\* A start changes nothing that the administrator has set before
\* (init_data: "this solves the problem of settings reset by a restart").
RestartsKeepSettings ==
    [][left' # left =>
         /\ flag # Absent => flag' = flag
         /\ task # Absent => task'.enabled = task.enabled /\ task'.cron = task.cron
         /\ cleanup # Absent => cleanup'.every = cleanup.every]_vars

\* A request that nobody has overtaken does what it was asked for and nothing
\* else, although it writes a task that it has read in several queries.
Exact(a) ==
    /\ On(flag') = IF a.flag = Absent THEN On(flag) ELSE On(a.flag)
    /\ task'.cron = IF a.cron = Absent \/ (a.via = "PATCH" /\ a.cron = Empty)
                    THEN task.cron ELSE Parse(a.cron)
    /\ Syncs(a) => task'.enabled = On(flag')

UndisturbedIsExact ==
    [][\A t \in Tx : Commit(t) /\ ~tx[t].touched => Exact(tx[t].ask)]_vars

\* Beat's copy is up to date in the end, whatever it read in between: last_update
\* grows with every commit of a change (as long as no commit overtakes another).
BeatLearns == []~disturbed => <>[](task = beat.copy)
=============================================================================
