----------------------------- MODULE ScheduleInv -----------------------------
(***************************************************************************)
(* The inductive invariants behind the theorems of ScheduleProofs.         *)
(***************************************************************************)
EXTENDS Schedule

\* The parts of the start come in this order.
StartOK ==
    /\ "rows" \notin left => flag # Absent
    /\ "task" \notin left => "rows" \notin left /\ task # Absent
    /\ "cleanup" \notin left => cleanup # Absent /\ cleanup.timeout = config.timeout
    /\ task = Absent => flag \in {Absent, config.enabled} /\ beat.copy = Absent
    /\ task # Absent => flag # Absent

\* Until somebody is overtaken the task follows the switch.
Follows == task # Absent /\ ~disturbed => task.enabled = On(flag)

\* Where a session stands in the order of its queries.
PlaceOK(s) ==
    /\ s.ask \in Ask
    /\ s.pc \in {"info", "load", "stamp"} => Syncs(s.ask)
    /\ s.pc \in {"stamp", "commit"} /\ Syncs(s.ask) => s.old \in Task /\ s.old.named

HasFlag(s) ==
    \/ s.pc \in {"load", "stamp", "commit"}
    \/ s.pc = "info" /\ s.ask.flag # Absent

HasCron(s) ==
    \/ s.pc = "flag" /\ FirstQuery(s.ask) = "info"
    \/ s.pc \in {"load", "stamp", "commit"} /\ Syncs(s.ask)
         /\ (s.ask.via = "PATCH" \/ s.ask.flag # Absent)

\* What a session has read is what is there, as long as nobody overtakes it.
UpToDate(s) ==
    /\ HasFlag(s) => s.readFlag = flag
    /\ HasCron(s) => s.readCron = task.cron
    /\ s.pc \in {"stamp", "commit"} /\ Syncs(s.ask) => s.old = task

SessionOK(s) ==
    s.pc # "idle" => /\ Up
                     /\ PlaceOK(s)
                     /\ ~s.touched => UpToDate(s)

\* Inductive; it implies the safety properties of Schedule, those of a commit
\* and of a start as properties of the step.
Inv ==
    /\ TypeOK
    /\ StartOK
    /\ ScheduleIdStays
    /\ Follows
    /\ \A t \in Tx : SessionOK(tx[t])

\* Stamps come from the clock; that of a request that nobody overtakes is later than
\* the last committed one.
StampsInv ==
    /\ changed <= clock
    /\ \A t \in Tx : tx[t].pc = "commit" /\ Syncs(tx[t].ask) =>
          /\ tx[t].stamp <= clock
          /\ ~tx[t].touched => tx[t].stamp > changed

\* Beat that has seen last_update has the task as it is, as long as no commit
\* overtakes another: what it then still waits for is its next look.
BeatIsCurrent ==
    ~disturbed => /\ beat.saw <= changed
                  /\ beat.saw = changed => beat.copy = task

\* What every reachable state satisfies: the sessions know what is in the tables
\* unless they are overtaken, the task follows the switch, and beat the task
\* (update_ldap_setting, the start of the backend, track_periodic_task_change).
WholeInv == Inv /\ StampsInv /\ BeatIsCurrent
=============================================================================
