---------------------------- MODULE ScheduleProofs ----------------------------
(***************************************************************************)
(* What holds of the switch and the schedule for any number of requests,   *)
(* restarts, crontabs and configurations.                                  *)
(***************************************************************************)
EXTENDS ScheduleInv, TLAPS

\* What is parsed is a crontab, and one that is given is kept.
LEMMA ParseType == \A c : Parse(c) \in Cron
BY CronAssumption DEF Parse

\* What an administrator asks for that does not reach the task is a null switch.
LEMMA UnheardAsks ==
    ASSUME NEW a \in Ask
    PROVE  /\ a \in Request
           /\ ~Syncs(a) => Unheard(a) /\ a.flag # Absent
           /\ a.cron = Absent => a.flag # Absent
           /\ a.via = "PUT" \/ a.via = "PATCH"
<1>1. a \in Request /\ (a.flag # Absent \/ a.cron # Absent)
  BY AskAssumption
<1>2. QED
  BY <1>1, FlagAssumption DEF Request, Syncs, Unheard

\* A closed session reads nothing.
LEMMA IdleOK == Idle \in Session /\ SessionOK(Idle)
BY CronAssumption DEF Idle, Session, Place, SessionOK

\* Rows are neither missing nor something else.
LEMMA TaskType ==
    /\ Absent \notin Task /\ Absent \notin Cleanup
    /\ \A r \in Task : r.enabled \in BOOLEAN /\ r.cron \in Cron /\ r.named \in BOOLEAN
BY TaskAssumption DEF Task, Cleanup

\* An UPDATE leaves a task; it does not take away the arguments; a session that
\* has loaded what is there writes what it wants.
LEMMA UpdatedType ==
    ASSUME task \in Task, NEW e \in BOOLEAN, NEW c \in Cron, NEW o \in Task
    PROVE  /\ Updated(e, c, o) \in Task
           /\ task.named /\ o.named => Updated(e, c, o).named
           /\ o = task => Updated(e, c, o).enabled = e /\ Updated(e, c, o).cron = c
<1> DEFINE en == Column(e, o.enabled, task.enabled)
           mi == Column(c.minute, o.cron.minute, task.cron.minute)
           ho == Column(c.hour, o.cron.hour, task.cron.hour)
           na == Column(TRUE, o.named, task.named)
<1>1. c.minute \in Minute /\ c.hour \in Hour /\ c = [minute |-> c.minute, hour |-> c.hour]
  BY DEF Cron
<1>2. /\ task.cron.minute \in Minute /\ task.cron.hour \in Hour
      /\ task.enabled \in BOOLEAN /\ task.named \in BOOLEAN
      /\ o.named \in BOOLEAN /\ o.enabled \in BOOLEAN
  BY DEF Task, Cron
<1>3. mi \in Minute /\ ho \in Hour
  BY <1>1, <1>2 DEF Column
<1>4. en \in BOOLEAN /\ na \in BOOLEAN
  BY <1>2 DEF Column
<1>5. task.named /\ o.named => na
  BY <1>2 DEF Column
<1>6. o = task => en = e /\ mi = c.minute /\ ho = c.hour
  BY DEF Column
<1> HIDE DEF en, mi, ho, na
<1>7. Updated(e, c, o) = [enabled |-> en, cron |-> [minute |-> mi, hour |-> ho], named |-> na]
  BY DEF Updated, en, mi, ho, na
<1>8. Updated(e, c, o) \in Task
  BY <1>3, <1>4, <1>7 DEF Task, Cron
<1>9. /\ Updated(e, c, o).enabled = en /\ Updated(e, c, o).named = na
      /\ Updated(e, c, o).cron = [minute |-> mi, hour |-> ho]
  BY <1>7
<1>10. QED
  BY <1>1, <1>5, <1>6, <1>8, <1>9

-----------------------------------------------------------------------------

\* The empty tables satisfy the invariant.
LEMMA InitInv == Init => Inv
<1> SUFFICES ASSUME Init PROVE Inv
  OBVIOUS
<1>1. config \in Config
  BY EnvironmentAssumption DEF Init
<1>2. tx \in [Tx -> Session] /\ \A t \in Tx : SessionOK(tx[t])
  BY IdleOK DEF Init
<1>3. TypeOK
  BY <1>1, <1>2 DEF Init, TypeOK, Modules
<1>4. StartOK /\ ScheduleIdStays /\ Follows
  BY DEF Init, StartOK, ScheduleIdStays, Follows, Modules
<1>5. QED
  BY <1>2, <1>3, <1>4 DEF Inv

\* A step of one session that leaves the tables alone.
LEMMA OneSession ==
    ASSUME Inv, UNCHANGED <<tables, config, left, beat, disturbed>>,
           clock' \in Nat, calls' \in Nat, crashes' \in Nat,
           NEW t \in Tx, NEW s \in Session, SessionOK(s),
           tx' = [tx EXCEPT ![t] = s]
    PROVE  Inv'
<1>1. tx' \in [Tx -> Session] /\ \A u \in Tx : tx'[u] = IF u = t THEN s ELSE tx[u]
  BY DEF Inv, TypeOK
<1>2. TypeOK'
  BY <1>1 DEF Inv, TypeOK, tables
<1>3. StartOK' /\ ScheduleIdStays' /\ Follows'
  BY DEF Inv, StartOK, ScheduleIdStays, Follows, tables
<1>4. ASSUME NEW u \in Tx PROVE SessionOK(tx[u])'
  <2>1. SessionOK(tx'[u])
    BY <1>1 DEF Inv
  <2>2. QED
    BY <2>1 DEF SessionOK, PlaceOK, UpToDate, HasFlag, HasCron, Up, tables
<1>5. QED
  BY <1>2, <1>3, <1>4 DEF Inv

\* A session in progress: the backend is up and the task is there.
LEMMA InProgress ==
    ASSUME Inv, NEW t \in Tx, tx[t].pc # "idle"
    PROVE  /\ Up /\ task \in Task /\ task.named /\ flag # Absent
           /\ tx[t] \in Session /\ PlaceOK(tx[t]) /\ tx[t].ask \in Ask
           /\ ~tx[t].touched => UpToDate(tx[t])
BY DEF Inv, TypeOK, StartOK, ScheduleIdStays, SessionOK, PlaceOK, Up

LEMMA OpenStep == ASSUME Inv, NEW t \in Tx, Open(t) PROVE Inv'
<1>1. PICK a \in Ask :
        tx' = [tx EXCEPT ![t] = [Idle EXCEPT !.pc = FirstQuery(a), !.ask = a]]
  BY DEF Open
<1> DEFINE s == [Idle EXCEPT !.pc = FirstQuery(a), !.ask = a]
<1>2. /\ s.pc = FirstQuery(a) /\ s.ask = a /\ s.readFlag = Absent /\ s.readCron = Midnight
      /\ s.old = Absent /\ s.stamp = 0 /\ s.touched = FALSE
      /\ s \in Session
  <2>1. FirstQuery(a) \in Place
    BY DEF FirstQuery, Place
  <2>2. QED
    BY <2>1, UnheardAsks, CronAssumption DEF Idle, Session
<1> HIDE DEF s
<1>3. s.pc = "info" => s.ask.flag = Absent /\ Syncs(s.ask)
  BY <1>2, UnheardAsks DEF FirstQuery
<1>4. s.pc = "flag" => FirstQuery(s.ask) # "info"
  BY <1>2
<1>5. s.pc \in {"info", "flag"}
  BY <1>2 DEF FirstQuery
<1>6. SessionOK(s)
  BY <1>2, <1>3, <1>4, <1>5 DEF SessionOK, PlaceOK, UpToDate, HasFlag, HasCron, Open
<1>7. calls' \in Nat
  BY DEF Open, Inv, TypeOK
<1>8. tx' = [tx EXCEPT ![t] = s]
  BY <1>1 DEF s
<1>9. QED
  BY <1>2, <1>6, <1>7, <1>8, OneSession DEF Open, Inv, TypeOK

LEMMA ReadFlagStep == ASSUME Inv, NEW t \in Tx, ReadFlag(t) PROVE Inv'
<1> DEFINE a == tx[t].ask
           p == IF a.flag = Absent THEN "load" ELSE IF Syncs(a) THEN "info" ELSE "commit"
           s == [tx[t] EXCEPT !.readFlag = flag, !.pc = p]
<1>1. tx[t].pc = "flag"
  BY DEF ReadFlag
<1>2. /\ Up /\ tx[t] \in Session /\ a \in Ask
      /\ ~tx[t].touched => UpToDate(tx[t])
  BY <1>1, InProgress
<1>3. flag \in BOOLEAN \cup {Null, Absent} /\ p \in Place
  BY DEF Inv, TypeOK, Place
<1>4. a.via = "PUT" \/ a.via = "PATCH"
  BY <1>2, UnheardAsks
<1>5. p = "load" => Syncs(a) /\ a.flag = Absent
  BY <1>2, UnheardAsks
<1>6. p = "info" => Syncs(a) /\ a.flag # Absent
  OBVIOUS
<1>7. p = "commit" => ~Syncs(a)
  OBVIOUS
<1>8. p \in {"load", "info", "commit"}
  OBVIOUS
<1> HIDE DEF p
<1>9. /\ s \in Session /\ s.pc = p /\ s.ask = a /\ s.readFlag = flag
      /\ s.readCron = tx[t].readCron /\ s.old = tx[t].old /\ s.touched = tx[t].touched
  BY <1>2, <1>3 DEF Session
<1>10. tx' = [tx EXCEPT ![t] = s]
  BY DEF ReadFlag, p
<1> HIDE DEF s
<1>11. PlaceOK(s)
  BY <1>2, <1>5, <1>6, <1>7, <1>8, <1>9 DEF PlaceOK
<1>12. ~s.touched => UpToDate(s)
  <2>1. ~s.touched /\ p = "load" /\ a.via = "PATCH" => s.readCron = task.cron
    BY <1>1, <1>2, <1>5, <1>9 DEF UpToDate, HasCron, FirstQuery
  <2>2. QED
    BY <1>4, <1>5, <1>6, <1>7, <1>8, <1>9, <2>1 DEF UpToDate, HasFlag, HasCron
<1>13. SessionOK(s)
  BY <1>2, <1>11, <1>12 DEF SessionOK
<1>14. QED
  BY <1>9, <1>10, <1>13, OneSession DEF ReadFlag, Inv, TypeOK

LEMMA ReadInfoStep == ASSUME Inv, NEW t \in Tx, ReadInfo(t) PROVE Inv'
<1> DEFINE a == tx[t].ask
           p == IF a.flag = Absent THEN "flag" ELSE "load"
           s == [tx[t] EXCEPT !.readCron = task.cron, !.pc = p]
<1>1. tx[t].pc = "info"
  BY DEF ReadInfo
<1>2. /\ Up /\ tx[t] \in Session /\ a \in Ask /\ Syncs(a) /\ task \in Task
      /\ ~tx[t].touched => UpToDate(tx[t])
  BY <1>1, InProgress DEF PlaceOK
<1>3. task.cron \in Cron /\ p \in Place
  BY <1>2 DEF Task, Place
<1>4. p \in {"flag", "load"} /\ (p = "load" => a.flag # Absent)
  OBVIOUS
<1> HIDE DEF p
<1>5. /\ s \in Session /\ s.pc = p /\ s.ask = a /\ s.readCron = task.cron
      /\ s.readFlag = tx[t].readFlag /\ s.old = tx[t].old /\ s.touched = tx[t].touched
  BY <1>2, <1>3 DEF Session
<1>6. tx' = [tx EXCEPT ![t] = s]
  BY DEF ReadInfo, p
<1> HIDE DEF s
<1>7. PlaceOK(s)
  BY <1>2, <1>4, <1>5 DEF PlaceOK
<1>8. ~s.touched => UpToDate(s)
  BY <1>1, <1>2, <1>4, <1>5 DEF UpToDate, HasFlag, HasCron
<1>9. SessionOK(s)
  BY <1>2, <1>7, <1>8 DEF SessionOK
<1>10. QED
  BY <1>5, <1>6, <1>9, OneSession DEF ReadInfo, Inv, TypeOK

LEMMA LoadTaskStep == ASSUME Inv, NEW t \in Tx, LoadTask(t) PROVE Inv'
<1> DEFINE s == [tx[t] EXCEPT !.old = task, !.pc = "stamp"]
<1>1. tx[t].pc = "load"
  BY DEF LoadTask
<1>2. /\ Up /\ tx[t] \in Session /\ tx[t].ask \in Ask /\ Syncs(tx[t].ask)
      /\ task \in Task /\ task.named
      /\ ~tx[t].touched => UpToDate(tx[t])
  BY <1>1, InProgress DEF PlaceOK
<1>3. /\ s \in Session /\ s.pc = "stamp" /\ s.old = task /\ s.ask = tx[t].ask
      /\ s.readFlag = tx[t].readFlag /\ s.readCron = tx[t].readCron
      /\ s.touched = tx[t].touched
  BY <1>2 DEF Session, Place
<1>4. tx' = [tx EXCEPT ![t] = s]
  BY DEF LoadTask
<1> HIDE DEF s
<1>5. PlaceOK(s)
  BY <1>2, <1>3 DEF PlaceOK
<1>6. ~s.touched => UpToDate(s)
  BY <1>1, <1>2, <1>3 DEF UpToDate, HasFlag, HasCron
<1>7. SessionOK(s)
  BY <1>2, <1>5, <1>6 DEF SessionOK
<1>8. QED
  BY <1>3, <1>4, <1>7, OneSession DEF LoadTask, Inv, TypeOK

LEMMA StampStep == ASSUME Inv, NEW t \in Tx, Stamp(t) PROVE Inv'
<1> DEFINE s == [tx[t] EXCEPT !.stamp = clock', !.pc = "commit"]
<1>1. tx[t].pc = "stamp" /\ clock' \in Nat
  BY DEF Stamp, Inv, TypeOK
<1>2. /\ Up /\ tx[t] \in Session /\ PlaceOK(tx[t])
      /\ ~tx[t].touched => UpToDate(tx[t])
  BY <1>1, InProgress
<1>3. /\ s \in Session /\ s.pc = "commit" /\ s.ask = tx[t].ask /\ s.old = tx[t].old
      /\ s.readFlag = tx[t].readFlag /\ s.readCron = tx[t].readCron
      /\ s.touched = tx[t].touched
  BY <1>1, <1>2 DEF Session, Place
<1>4. tx' = [tx EXCEPT ![t] = s]
  BY DEF Stamp
<1> HIDE DEF s
<1>5. PlaceOK(s)
  BY <1>1, <1>2, <1>3 DEF PlaceOK
<1>6. ~s.touched => UpToDate(s)
  BY <1>1, <1>2, <1>3 DEF UpToDate, HasFlag, HasCron
<1>7. SessionOK(s)
  BY <1>2, <1>5, <1>6 DEF SessionOK
<1>8. QED
  BY <1>1, <1>3, <1>4, <1>7, OneSession DEF Stamp, Inv, TypeOK

\* What a commit writes, when nobody has overtaken it.
LEMMA CommitWrites ==
    ASSUME Inv, NEW t \in Tx, Commit(t)
    PROVE  /\ flag' \in BOOLEAN \cup {Null, Absent} /\ flag' # Absent
           /\ task' \in Task /\ task'.named
           /\ ~tx[t].touched /\ Syncs(tx[t].ask)
                => task'.enabled = NewEnabled(t) /\ task'.cron = NewCron(t)
           /\ ~tx[t].touched =>
                /\ flag' = IF tx[t].ask.flag = Absent THEN flag ELSE tx[t].ask.flag
                /\ tx[t].readFlag = flag
<1> DEFINE a == tx[t].ask
<1>1. /\ tx[t].pc = "commit" /\ task \in Task /\ task.named /\ flag # Absent
      /\ tx[t] \in Session /\ PlaceOK(tx[t]) /\ a \in Ask /\ a \in Request
      /\ ~tx[t].touched => UpToDate(tx[t])
  BY InProgress, UnheardAsks DEF Commit
<1>2. flag \in BOOLEAN \cup {Null, Absent}
  BY DEF Inv, TypeOK
<1>3. flag' = IF a.flag = Absent THEN flag ELSE Column(a.flag, tx[t].readFlag, flag)
  BY DEF Commit
<1>4. a.flag \in BOOLEAN \cup {Null, Absent}
  BY <1>1 DEF Request
<1>5. flag' \in BOOLEAN \cup {Null, Absent} /\ flag' # Absent
  BY <1>1, <1>2, <1>3, <1>4 DEF Column
<1>6. ~tx[t].touched => tx[t].readFlag = flag
  BY <1>1 DEF UpToDate, HasFlag
<1>7. ~tx[t].touched => flag' = IF a.flag = Absent THEN flag ELSE a.flag
  BY <1>3, <1>6 DEF Column
<1>8. CASE Syncs(a)
  <2>1. task' = Updated(NewEnabled(t), NewCron(t), tx[t].old)
    BY <1>8 DEF Commit
  <2>2. NewEnabled(t) \in BOOLEAN
    BY DEF NewEnabled, On
  <2>3. tx[t].readCron \in Cron
    BY <1>1 DEF Session
  <2>4. NewCron(t) \in Cron
    BY <2>3, ParseType DEF NewCron
  <2>5. tx[t].old \in Task /\ tx[t].old.named
    BY <1>1, <1>8 DEF PlaceOK
  <2>6. ~tx[t].touched => tx[t].old = task
    BY <1>1, <1>8 DEF UpToDate
  <2>7. QED
    BY <1>1, <1>5, <1>6, <1>7, <2>1, <2>2, <2>4, <2>5, <2>6, UpdatedType
<1>9. CASE ~Syncs(a)
  <2>1. task' = task
    BY <1>9 DEF Commit
  <2>2. QED
    BY <1>1, <1>5, <1>6, <1>7, <1>9, <2>1
<1>10. QED
  BY <1>8, <1>9

LEMMA CommitStep == ASSUME Inv, NEW t \in Tx, Commit(t) PROVE Inv'
<1> DEFINE a == tx[t].ask
<1>1. /\ tx[t].pc = "commit" /\ Up /\ task \in Task /\ tx[t] \in Session
      /\ a \in Ask
  BY InProgress DEF Commit
<1>2. flag' \in BOOLEAN \cup {Null, Absent} /\ flag' # Absent /\ task' \in Task /\ task'.named
  BY CommitWrites
<1>3. changed' \in Nat
  BY <1>1 DEF Commit, Inv, TypeOK, Session
<1>4. /\ tx' = [u \in Tx |-> IF u = t THEN Idle
                  ELSE IF tx[u].pc = "idle" THEN tx[u]
                  ELSE [tx[u] EXCEPT !.touched = TRUE]]
      /\ UNCHANGED <<cleanup, config, left, beat, clock, calls, crashes>>
      /\ disturbed' = (disturbed \/ tx[t].touched \/ Unheard(a))
  BY DEF Commit, Overtaken
<1>5. ASSUME NEW u \in Tx PROVE tx'[u] \in Session /\ SessionOK(tx[u])'
  <2>1. tx[u] \in Session /\ SessionOK(tx[u])
    BY DEF Inv, TypeOK
  <2>2. CASE u = t
    BY <1>4, <2>2, IdleOK DEF SessionOK, Idle
  <2>3. CASE u # t /\ tx[u].pc = "idle"
    BY <1>4, <2>1, <2>3 DEF SessionOK
  <2>4. CASE u # t /\ tx[u].pc # "idle"
    <3> DEFINE s == [tx[u] EXCEPT !.touched = TRUE]
    <3>1. /\ s \in Session /\ s.touched = TRUE /\ s.pc = tx[u].pc /\ s.ask = tx[u].ask
          /\ s.old = tx[u].old
      BY <2>1 DEF Session
    <3>2. tx'[u] = s
      BY <1>4, <2>4
    <3> HIDE DEF s
    <3>3. PlaceOK(s)
      BY <2>1, <2>4, <3>1 DEF SessionOK, PlaceOK
    <3>4. QED
      BY <1>1, <1>4, <3>1, <3>2, <3>3 DEF SessionOK, PlaceOK, Up
  <2>5. QED
    BY <2>2, <2>3, <2>4
<1>6. tx' \in [Tx -> Session]
  BY <1>4, <1>5
<1>7. tx[t].touched \in BOOLEAN /\ disturbed \in BOOLEAN /\ Unheard(a) \in BOOLEAN
  BY <1>1 DEF Session, Inv, TypeOK, Unheard
<1>8. TypeOK'
  <2>1. disturbed' \in BOOLEAN
    BY <1>4, <1>7
  <2>2. QED
    BY <1>2, <1>3, <1>4, <1>6, <2>1 DEF Inv, TypeOK
<1>9. StartOK'
  BY <1>2, <1>4, TaskType DEF Inv, StartOK
<1>10. ScheduleIdStays'
  BY <1>2, <1>4 DEF Inv, ScheduleIdStays
<1>11. Follows'
  <2> SUFFICES ASSUME ~disturbed' PROVE task'.enabled = On(flag')
    BY DEF Follows
  <2>1. ~disturbed /\ ~tx[t].touched /\ ~Unheard(a)
    BY <1>4
  <2>2. Syncs(a)
    BY <1>1, <2>1, UnheardAsks
  <2>3. task'.enabled = NewEnabled(t) /\ tx[t].readFlag = flag
        /\ flag' = IF a.flag = Absent THEN flag ELSE a.flag
    BY <2>1, <2>2, CommitWrites
  <2>4. QED
    BY <2>3 DEF NewEnabled
<1>12. QED
  BY <1>5, <1>8, <1>9, <1>10, <1>11 DEF Inv

LEMMA RollBackStep == ASSUME Inv, NEW t \in Tx, RollBack(t) PROVE Inv'
BY IdleOK, OneSession DEF RollBack, Inv, TypeOK

\* While the backend starts no session is open.
LEMMA Starting ==
    ASSUME Inv, ~Up
    PROVE  \A t \in Tx : tx[t].pc = "idle"
BY DEF Inv, SessionOK

\* A step of the start: what the session invariant is about need not be kept.
LEMMA StartStep ==
    ASSUME Inv, ~Up, tx' = tx, TypeOK', StartOK', ScheduleIdStays', Follows'
    PROVE  Inv'
<1>1. \A t \in Tx : SessionOK(tx[t])'
  BY Starting DEF SessionOK
<1>2. QED
  BY <1>1 DEF Inv

LEMMA CrashStep == ASSUME Inv, Crash PROVE Inv'
<1>1. /\ config' \in Config /\ config'.enabled = config.enabled
      /\ left' = Modules /\ crashes' \in Nat /\ tx' = [t \in Tx |-> Idle]
      /\ UNCHANGED <<tables, beat, clock, calls, disturbed>>
  BY EnvironmentAssumption DEF Crash, Inv, TypeOK
<1>2. tx' \in [Tx -> Session] /\ \A t \in Tx : tx'[t].pc = "idle"
  BY <1>1, IdleOK DEF Idle
<1>3. TypeOK'
  BY <1>1, <1>2 DEF Inv, TypeOK, tables
<1>4. StartOK' /\ ScheduleIdStays' /\ Follows'
  BY <1>1 DEF Inv, StartOK, ScheduleIdStays, Follows, tables, Modules
<1>5. \A t \in Tx : SessionOK(tx[t])'
  BY <1>2 DEF SessionOK
<1>6. QED
  BY <1>3, <1>4, <1>5 DEF Inv

LEMMA InitRowsStep == ASSUME Inv, InitRows PROVE Inv'
<1>1. ~Up /\ tx' = tx
  BY DEF InitRows, Up
<1>2. config.enabled \in BOOLEAN
  BY DEF Inv, TypeOK, Config
<1>3. flag' = IF flag = Absent THEN config.enabled ELSE flag
  BY DEF InitRows
<1>4. flag' \in BOOLEAN \cup {Null, Absent} /\ flag' # Absent
  BY <1>2, <1>3, FlagAssumption DEF Inv, TypeOK
<1>5. TypeOK'
  BY <1>4 DEF InitRows, Inv, TypeOK
<1>6. StartOK'
  BY <1>3, <1>4 DEF InitRows, Inv, StartOK
<1>7. ScheduleIdStays'
  BY DEF InitRows, Inv, ScheduleIdStays
<1>8. Follows'
  <2> SUFFICES ASSUME task' # Absent, ~disturbed' PROVE task'.enabled = On(flag')
    BY DEF Follows
  <2>1. task # Absent /\ ~disturbed /\ task' = task
    BY DEF InitRows
  <2>2. flag # Absent
    BY <2>1 DEF Inv, StartOK
  <2>3. QED
    BY <2>1, <2>2, <1>3 DEF Inv, Follows
<1>9. QED
  BY <1>1, <1>5, <1>6, <1>7, <1>8, StartStep

\* The second part of the start: a new task follows the configuration, an old one
\* stays what it is.
LEMMA InitTaskWrites ==
    ASSUME Inv, InitTask
    PROVE  /\ task' \in Task /\ task'.named
           /\ task = Absent => task'.enabled = config.enabled
           /\ task # Absent => task'.enabled = task.enabled /\ task'.cron = task.cron
<1>1. config.enabled \in BOOLEAN /\ config.cron \in Cron
  BY DEF Inv, TypeOK, Config
<1>2. CASE task = Absent
  <2>1. task' = [enabled |-> config.enabled, cron |-> config.cron, named |-> TRUE]
    BY <1>2 DEF InitTask
  <2>2. QED
    BY <1>1, <1>2, <2>1 DEF Task
<1>3. CASE task # Absent
  <2>1. task' = Updated(task.enabled, task.cron, task)
    BY <1>3 DEF InitTask
  <2>2. task \in Task /\ task.named
    BY <1>3 DEF Inv, TypeOK, ScheduleIdStays
  <2>3. task.enabled \in BOOLEAN /\ task.cron \in Cron
    BY <2>2, TaskType
  <2>4. QED
    BY <1>3, <2>1, <2>2, <2>3, UpdatedType
<1>4. QED
  BY <1>2, <1>3

LEMMA InitTaskStep == ASSUME Inv, InitTask PROVE Inv'
<1>1. ~Up /\ tx' = tx
  BY DEF InitTask, Up
<1>2. /\ task' \in Task /\ task'.named /\ task' # Absent
      /\ task = Absent => task'.enabled = config.enabled
      /\ task # Absent => task'.enabled = task.enabled
  BY InitTaskWrites, TaskType
<1>3. clock' \in Nat /\ changed' \in Nat
  BY DEF InitTask, Inv, TypeOK
<1>4. TypeOK'
  BY <1>2, <1>3 DEF InitTask, Inv, TypeOK
<1>5. StartOK'
  BY <1>2 DEF InitTask, Inv, StartOK
<1>6. ScheduleIdStays'
  BY <1>2 DEF InitTask, Inv, ScheduleIdStays
<1>7. Follows'
  <2> SUFFICES ASSUME ~disturbed' PROVE task'.enabled = On(flag')
    BY DEF Follows
  <2>1. ~disturbed /\ flag' = flag /\ flag # Absent
    BY DEF InitTask, Inv, StartOK
  <2>2. CASE task = Absent
    <3>1. flag = config.enabled /\ config.enabled \in BOOLEAN
      BY <2>1, <2>2 DEF Inv, StartOK, TypeOK, Config
    <3>2. QED
      BY <1>2, <2>1, <2>2, <3>1 DEF On
  <2>3. CASE task # Absent
    BY <1>2, <2>1, <2>3 DEF Inv, Follows
  <2>4. QED
    BY <2>2, <2>3
<1>8. QED
  BY <1>1, <1>4, <1>5, <1>6, <1>7, StartStep

LEMMA InitCleanupStep == ASSUME Inv, InitCleanup PROVE Inv'
<1> DEFINE e == IF cleanup = Absent THEN config.timeout ELSE cleanup.every
           c == [every |-> e, timeout |-> config.timeout]
<1>1. ~Up /\ tx' = tx /\ cleanup' = c
  BY DEF InitCleanup, Up
<1>2. config.timeout \in Timeout /\ e \in Timeout
  BY DEF Inv, TypeOK, Config, Cleanup
<1>3. c \in Cleanup /\ c.timeout = config.timeout
  BY <1>2 DEF Cleanup
<1>4. c # Absent
  BY <1>3, TaskType
<1>5. clock' \in Nat /\ changed' \in Nat
  BY DEF InitCleanup, Inv, TypeOK
<1> HIDE DEF c, e
<1>6. TypeOK'
  BY <1>1, <1>3, <1>5 DEF InitCleanup, Inv, TypeOK
<1>7. StartOK' /\ ScheduleIdStays' /\ Follows'
  BY <1>1, <1>3, <1>4 DEF InitCleanup, Inv, StartOK, ScheduleIdStays, Follows
<1>8. QED
  BY <1>1, <1>6, <1>7, StartStep

LEMMA SyncStep == ASSUME Inv, SyncPeriodicTasks PROVE Inv'
<1>1. ~Up /\ tx' = tx
  BY DEF SyncPeriodicTasks, Up
<1>2. TypeOK'
  BY DEF SyncPeriodicTasks, Inv, TypeOK, tables
<1>3. StartOK' /\ ScheduleIdStays' /\ Follows'
  BY DEF SyncPeriodicTasks, Inv, StartOK, ScheduleIdStays, Follows, tables
<1>4. QED
  BY <1>1, <1>2, <1>3, StartStep

LEMMA BeatStep == ASSUME Inv, BeatStarts \/ BeatChecks PROVE Inv'
<1>1. UNCHANGED <<tables, config, left, tx, clock, calls, crashes, disturbed>>
  BY DEF BeatStarts, BeatChecks
<1>2. /\ beat' \in [copy : Task \cup {Absent}, saw : Nat]
      /\ beat'.copy = task \/ beat'.copy = beat.copy
  BY DEF BeatStarts, BeatChecks, Inv, TypeOK
<1>3. TypeOK'
  BY <1>1, <1>2 DEF Inv, TypeOK, tables
<1>4. StartOK' /\ ScheduleIdStays' /\ Follows'
  BY <1>1, <1>2 DEF Inv, StartOK, ScheduleIdStays, Follows, tables
<1>5. \A t \in Tx : SessionOK(tx[t])'
  BY <1>1 DEF Inv, SessionOK, PlaceOK, UpToDate, HasFlag, HasCron, Up, tables
<1>6. QED
  BY <1>3, <1>4, <1>5 DEF Inv

\* Every step keeps the invariant.
LEMMA InvStep == Inv /\ [Next]_vars => Inv'
<1> SUFFICES ASSUME Inv, [Next]_vars PROVE Inv'
  OBVIOUS
<1>1. ASSUME NEW t \in Tx, Open(t) PROVE Inv'
  BY <1>1, OpenStep
<1>2. ASSUME NEW t \in Tx, Proceed(t) PROVE Inv'
  BY <1>2, ReadFlagStep, ReadInfoStep, LoadTaskStep, StampStep, CommitStep DEF Proceed
<1>3. ASSUME NEW t \in Tx, RollBack(t) PROVE Inv'
  BY <1>3, RollBackStep
<1>4. CASE Crash
  BY <1>4, CrashStep
<1>5. CASE Start
  BY <1>5, InitRowsStep, InitTaskStep, InitCleanupStep, SyncStep DEF Start
<1>6. CASE BeatStarts \/ BeatChecks
  BY <1>6, BeatStep
<1>7. CASE UNCHANGED vars
  BY <1>7 DEF vars, Inv, TypeOK, StartOK, ScheduleIdStays, Follows, SessionOK, PlaceOK,
              UpToDate, HasFlag, HasCron, Up
<1>8. QED
  BY <1>1, <1>2, <1>3, <1>4, <1>5, <1>6, <1>7 DEF Next

\* The tables, beat's copy and what every request has read are related as
\* ScheduleInv says, in every reachable state.
THEOREM InvAlways == Spec => []Inv
<1>1. Init => Inv
  BY InitInv
<1>2. Inv /\ [Next]_vars => Inv'
  BY InvStep
<1>3. QED
  BY <1>1, <1>2, PTL DEF Spec

-----------------------------------------------------------------------------

\* Any number of requests, refused ones, crashes and restarts in between: as long
\* as nobody is overtaken, the sync is scheduled exactly when LDAP is on.
THEOREM FlagMatches == Spec => []FlagMatchesTask
<1>1. Inv => FlagMatchesTask
  BY DEF Inv, Follows, FlagMatchesTask
<1>2. QED
  BY <1>1, InvAlways, PTL

\* No request, overtaken or not, and no restart takes schedule_id out of the
\* arguments, nor does beat ever work with a task without it.
THEOREM ArgumentsStay == Spec => []ScheduleIdStays
<1>1. Inv => ScheduleIdStays
  BY DEF Inv
<1>2. QED
  BY <1>1, InvAlways, PTL

\* However many starts were interrupted, one that is complete has left every row,
\* and the cleanup with the timeout configured now.
THEOREM StartsAreComplete == Spec => []StartIsComplete
<1>1. Inv => StartIsComplete
  BY DEF Inv, StartOK, StartIsComplete, Up
<1>2. QED
  BY <1>1, InvAlways, PTL

\* A start, interrupted or not, keeps the switch, the crontab and whether the
\* task is enabled.
THEOREM RestartsKeep == Spec => RestartsKeepSettings
<1> DEFINE Kept ==
      left' # left =>
         /\ flag # Absent => flag' = flag
         /\ task # Absent => task'.enabled = task.enabled /\ task'.cron = task.cron
         /\ cleanup # Absent => cleanup'.every = cleanup.every
<1>1. Inv /\ [Next]_vars => Kept
  <2> SUFFICES ASSUME Inv, [Next]_vars, left' # left PROVE Kept
    OBVIOUS
  <2>1. Crash \/ Start
    BY DEF Next, Proceed, Open, ReadFlag, ReadInfo, LoadTask, Stamp, Commit, RollBack,
           BeatStarts, BeatChecks, vars
  <2>2. CASE Crash
    BY <2>2 DEF Crash, tables
  <2>3. CASE InitRows
    BY <2>3 DEF InitRows
  <2>4. CASE InitTask
    <3>1. flag' = flag /\ cleanup' = cleanup
      BY <2>4 DEF InitTask
    <3>2. QED
      BY <2>4, <3>1, InitTaskWrites
  <2>5. CASE InitCleanup
    <3>1. flag' = flag /\ task' = task
      BY <2>5 DEF InitCleanup
    <3>2. cleanup # Absent => cleanup'.every = cleanup.every
      BY <2>5 DEF InitCleanup
    <3>3. QED
      BY <3>1, <3>2
  <2>6. CASE SyncPeriodicTasks
    BY <2>6 DEF SyncPeriodicTasks, tables
  <2>7. QED
    BY <2>1, <2>2, <2>3, <2>4, <2>5, <2>6 DEF Start
<1>2. Inv /\ [Next]_vars => [Kept]_vars
  BY <1>1
<1>3. QED
  BY <1>2, InvAlways, PTL DEF Spec, RestartsKeepSettings

\* Whatever was asked for before and however it ended, a request that nobody
\* overtakes does what it says.
THEOREM UndisturbedExact == Spec => UndisturbedIsExact
<1> DEFINE Done == \A t \in Tx : Commit(t) /\ ~tx[t].touched => Exact(tx[t].ask)
<1>1. Inv => Done
  <2> SUFFICES ASSUME Inv, NEW t \in Tx, Commit(t), ~tx[t].touched
               PROVE  Exact(tx[t].ask)
    OBVIOUS
  <2> DEFINE a == tx[t].ask
  <2>1. /\ tx[t].pc = "commit" /\ a \in Ask /\ UpToDate(tx[t])
    BY InProgress DEF Commit
  <2>2. /\ flag' = IF a.flag = Absent THEN flag ELSE a.flag
        /\ tx[t].readFlag = flag
        /\ Syncs(a) => task'.enabled = NewEnabled(t) /\ task'.cron = NewCron(t)
    BY CommitWrites
  <2>3. On(flag') = IF a.flag = Absent THEN On(flag) ELSE On(a.flag)
    BY <2>2
  <2>4. Syncs(a) => task'.enabled = On(flag')
    BY <2>2 DEF NewEnabled
  <2>5. task'.cron = IF a.cron = Absent \/ (a.via = "PATCH" /\ a.cron = Empty)
                     THEN task.cron ELSE Parse(a.cron)
    <3>1. CASE Syncs(a)
      <4>1. a.cron = Absent \/ a.via = "PATCH" => tx[t].readCron = task.cron
        BY <2>1, <3>1, UnheardAsks DEF UpToDate, HasCron
      <4>2. QED
        BY <2>2, <3>1, <4>1 DEF NewCron
    <3>2. CASE ~Syncs(a)
      BY <2>1, <3>2, UnheardAsks DEF Commit, Unheard
    <3>3. QED
      BY <3>1, <3>2
  <2>6. QED
    BY <2>3, <2>4, <2>5 DEF Exact
<1>2. Inv => [Done]_vars
  BY <1>1
<1>3. QED
  BY <1>2, InvAlways, PTL DEF UndisturbedIsExact

-----------------------------------------------------------------------------
(* The order of the stamps.                                                  *)

LEMMA Numbers ==
    ASSUME Inv
    PROVE  /\ changed \in Nat /\ clock \in Nat /\ beat.saw \in Nat
           /\ \A t \in Tx : tx[t] \in Session /\ tx[t].stamp \in Nat
BY DEF Inv, TypeOK, Session

\* One request goes on.
LEMMA StampsOne ==
    ASSUME Inv, StampsInv, NEW t \in Tx, NEW s, tx' = [tx EXCEPT ![t] = s], changed' = changed,
           clock' \in Nat, clock <= clock',
           s.pc = "commit" /\ Syncs(s.ask) => s.stamp <= clock' /\ (~s.touched => s.stamp > changed)
    PROVE  StampsInv'
<1>1. \A u \in Tx : tx'[u] = IF u = t THEN s ELSE tx[u]
  BY DEF Inv, TypeOK
<1>2. ASSUME NEW u \in Tx, tx'[u].pc = "commit", Syncs(tx'[u].ask)
      PROVE  tx'[u].stamp <= clock' /\ (~tx'[u].touched => tx'[u].stamp > changed')
  <2>1. CASE u = t
    BY <1>1, <1>2, <2>1
  <2>2. CASE u # t
    <3>1. tx'[u] = tx[u]
      BY <1>1, <2>2
    <3>2. tx[u].stamp <= clock /\ (~tx[u].touched => tx[u].stamp > changed)
      BY <1>2, <3>1 DEF StampsInv
    <3>3. QED
      BY <3>1, <3>2, Numbers
  <2>3. QED
    BY <2>1, <2>2
<1>3. changed' <= clock'
  BY Numbers DEF StampsInv
<1>4. QED
  BY <1>2, <1>3 DEF StampsInv, Syncs

\* A request that is not before its commit, or does not stamp, may do as it likes.
LEMMA StampsOther ==
    ASSUME Inv, StampsInv, NEW t \in Tx, NEW s, tx' = [tx EXCEPT ![t] = s],
           s.pc # "commit" \/ ~Syncs(s.ask), UNCHANGED <<changed, clock>>
    PROVE  StampsInv'
<1>1. clock' \in Nat /\ clock <= clock' /\ changed' = changed
  BY Numbers
<1>2. s.pc = "commit" /\ Syncs(s.ask) => s.stamp <= clock' /\ (~s.touched => s.stamp > changed)
  OBVIOUS
<1>3. QED
  BY <1>1, <1>2, StampsOne

\* A commit marks all the others; no other stamp is then asked to be later.
LEMMA StampsCommit == ASSUME Inv, StampsInv, NEW t \in Tx, Commit(t) PROVE StampsInv'
<1>1. tx' = Overtaken(t) /\ clock' = clock /\ changed' \in {changed, tx[t].stamp}
      /\ tx[t].pc = "commit" /\ (changed' # changed => Syncs(tx[t].ask))
  BY DEF Commit
<1>2. ASSUME NEW u \in Tx, tx'[u].pc = "commit", Syncs(tx'[u].ask)
      PROVE  tx'[u].stamp <= clock' /\ tx'[u].touched
  <2>1. u # t
    BY <1>1, <1>2 DEF Overtaken, Idle
  <2>2. tx[u].pc # "idle" /\ tx'[u] = [tx[u] EXCEPT !.touched = TRUE]
    BY <1>1, <1>2, <2>1 DEF Overtaken
  <2>3. /\ tx'[u].touched = TRUE /\ tx'[u].stamp = tx[u].stamp
        /\ tx'[u].pc = tx[u].pc /\ tx'[u].ask = tx[u].ask
    BY <2>2, Numbers DEF Session
  <2>4. tx[u].stamp <= clock
    BY <1>2, <2>3 DEF StampsInv
  <2>5. QED
    BY <1>1, <2>3, <2>4
<1>3. changed' <= clock'
  BY <1>1 DEF StampsInv
<1>4. QED
  BY <1>2, <1>3 DEF StampsInv, Syncs

LEMMA StampsStep == Inv /\ StampsInv /\ [Next]_vars => StampsInv'
<1> SUFFICES ASSUME Inv, StampsInv, [Next]_vars PROVE StampsInv'
  OBVIOUS
<1>1. ASSUME NEW t \in Tx, Open(t) PROVE StampsInv'
  <2>1. PICK a \in Ask :
          tx' = [tx EXCEPT ![t] = [Idle EXCEPT !.pc = FirstQuery(a), !.ask = a]]
    BY <1>1 DEF Open
  <2> DEFINE s == [Idle EXCEPT !.pc = FirstQuery(a), !.ask = a]
  <2>2. s.pc # "commit"
    BY DEF Idle, FirstQuery
  <2>3. UNCHANGED <<changed, clock>>
    BY <1>1 DEF Open, tables
  <2> HIDE DEF s
  <2>4. QED
    BY <2>1, <2>2, <2>3, StampsOther DEF s
<1>2. ASSUME NEW t \in Tx, ReadFlag(t) PROVE StampsInv'
  <2> DEFINE s == [tx[t] EXCEPT !.readFlag = flag,
                       !.pc = IF tx[t].ask.flag = Absent THEN "load"
                              ELSE IF Syncs(tx[t].ask) THEN "info" ELSE "commit"]
  <2>1. tx' = [tx EXCEPT ![t] = s] /\ UNCHANGED <<changed, clock>>
    BY <1>2, Numbers DEF ReadFlag, tables, Inv, TypeOK, Session
  <2>2. s.pc # "commit" \/ ~Syncs(s.ask)
    BY Numbers DEF Session
  <2> HIDE DEF s
  <2>3. QED
    BY <2>1, <2>2, StampsOther
<1>3. ASSUME NEW t \in Tx, ReadInfo(t) PROVE StampsInv'
  <2> DEFINE s == [tx[t] EXCEPT !.readCron = task.cron,
                                !.pc = IF tx[t].ask.flag = Absent THEN "flag" ELSE "load"]
  <2>1. tx' = [tx EXCEPT ![t] = s] /\ UNCHANGED <<changed, clock>>
    BY <1>3, Numbers DEF ReadInfo, tables, Inv, TypeOK, Session
  <2>2. s.pc # "commit"
    BY Numbers DEF Session
  <2> HIDE DEF s
  <2>3. QED
    BY <2>1, <2>2, StampsOther
<1>4. ASSUME NEW t \in Tx, LoadTask(t) PROVE StampsInv'
  <2> DEFINE s == [tx[t] EXCEPT !.old = task, !.pc = "stamp"]
  <2>1. tx' = [tx EXCEPT ![t] = s] /\ UNCHANGED <<changed, clock>>
    BY <1>4, Numbers DEF LoadTask, tables, Inv, TypeOK, Session
  <2>2. s.pc # "commit"
    BY Numbers DEF Session
  <2> HIDE DEF s
  <2>3. QED
    BY <2>1, <2>2, StampsOther
<1>5. ASSUME NEW t \in Tx, Stamp(t) PROVE StampsInv'
  <2> DEFINE s == [tx[t] EXCEPT !.stamp = clock', !.pc = "commit"]
  <2>1. tx' = [tx EXCEPT ![t] = s] /\ changed' = changed /\ clock' = clock + 1
    BY <1>5, Numbers DEF Stamp, tables, Inv, TypeOK, Session
  <2>2. s.stamp = clock'
    BY Numbers DEF Session
  <2>3. s.stamp <= clock' /\ s.stamp > changed /\ clock' \in Nat /\ clock <= clock'
    BY <2>1, <2>2, Numbers DEF StampsInv
  <2> HIDE DEF s
  <2>4. QED
    BY <2>1, <2>3, StampsOne
<1>6. ASSUME NEW t \in Tx, RollBack(t) PROVE StampsInv'
  <2>1. tx' = [tx EXCEPT ![t] = Idle] /\ UNCHANGED <<changed, clock>> /\ Idle.pc # "commit"
    BY <1>6 DEF RollBack, Idle, tables
  <2>2. QED
    BY <2>1, StampsOther
<1>7. CASE Crash
  <2>1. (\A t \in Tx : tx'[t].pc # "commit") /\ UNCHANGED <<changed, clock>>
    BY <1>7 DEF Crash, Idle, tables
  <2>2. QED
    BY <2>1 DEF StampsInv
<1>8. CASE Start
  <2>1. (\A t \in Tx : tx[t].pc = "idle") /\ tx' = tx
    BY <1>8 DEF Start, InitRows, InitTask, InitCleanup, SyncPeriodicTasks, Inv, SessionOK, Up
  <2>2. (changed' = changed /\ clock' = clock) \/ changed' = clock'
    BY <1>8 DEF Start, InitRows, InitTask, InitCleanup, SyncPeriodicTasks, tables
  <2>3. clock' \in Nat
    BY <1>8, Numbers DEF Start, InitRows, InitTask, InitCleanup, SyncPeriodicTasks
  <2>4. changed' <= clock'
    BY <2>2, <2>3 DEF StampsInv
  <2>5. QED
    BY <2>1, <2>4 DEF StampsInv
<1>9. CASE BeatStarts \/ BeatChecks \/ UNCHANGED vars
  BY <1>9 DEF BeatStarts, BeatChecks, vars, tables, StampsInv, Syncs
<1>10. QED
  BY <1>1, <1>2, <1>3, <1>4, <1>5, <1>6, <1>7, <1>8, <1>9, StampsCommit DEF Next, Proceed

LEMMA StampsAlways == Spec => []StampsInv
<1>1. Init => StampsInv
  BY DEF Init, StampsInv, Idle
<1>2. QED
  BY <1>1, StampsStep, InvAlways, PTL DEF Spec

\* Whenever the task or last_update changes without a disturbance, last_update becomes later.
LEMMA ChangesAreLater ==
    ASSUME Inv, StampsInv, [Next]_vars, ~disturbed'
    PROVE  \/ changed' = changed /\ task' = task
           \/ changed' > changed
<1>1. ASSUME NEW t \in Tx, Commit(t) PROVE (changed' = changed /\ task' = task) \/ changed' > changed
  <2>1. ~tx[t].touched /\ tx[t].pc = "commit"
    BY <1>1 DEF Commit
  <2>2. CASE Syncs(tx[t].ask)
    BY <1>1, <2>1, <2>2 DEF Commit, StampsInv
  <2>3. CASE ~Syncs(tx[t].ask)
    BY <1>1, <2>3 DEF Commit
  <2>4. QED
    BY <2>2, <2>3
<1>2. CASE InitTask \/ InitCleanup
  <2>1. changed' = clock + 1
    BY <1>2 DEF InitTask, InitCleanup
  <2>2. QED
    BY <2>1, Numbers DEF StampsInv
<1>3. CASE ~(InitTask \/ InitCleanup) /\ \A t \in Tx : ~Commit(t)
  BY <1>3 DEF Next, Open, Proceed, ReadFlag, ReadInfo, LoadTask, Stamp, RollBack, Crash, Start,
              InitRows, SyncPeriodicTasks, BeatStarts, BeatChecks, vars, tables
<1>4. QED
  BY <1>1, <1>2, <1>3

\* As long as no commit overtakes another, last_update never goes back, and beat that
\* has seen it works with the task as it is in the table: no change is lost on beat for
\* want of a later stamp (track_periodic_task_change).  What remains of BeatLearns is
\* that beat looks.
THEOREM BeatIsCurrentAlways == Spec => []BeatIsCurrent
<1>1. Init => BeatIsCurrent
  BY DEF Init, BeatIsCurrent
<1>2. Inv /\ StampsInv /\ BeatIsCurrent /\ [Next]_vars => BeatIsCurrent'
  <2> SUFFICES ASSUME Inv, StampsInv, BeatIsCurrent, [Next]_vars, ~disturbed'
               PROVE  beat'.saw <= changed' /\ (beat'.saw = changed' => beat'.copy = task')
    BY DEF BeatIsCurrent
  <2>1. ~disturbed
    BY DEF Next, Open, Proceed, ReadFlag, ReadInfo, LoadTask, Stamp, Commit, RollBack, Crash, Start,
           InitRows, InitTask, InitCleanup, SyncPeriodicTasks, BeatStarts, BeatChecks, vars
  <2>2. beat.saw <= changed /\ (beat.saw = changed => beat.copy = task)
    BY <2>1 DEF BeatIsCurrent
  <2>3. changed \in Nat /\ beat.saw \in Nat
    BY Numbers
  <2>4. CASE BeatStarts
    BY <2>3, <2>4 DEF BeatStarts, tables
  <2>5. CASE BeatChecks
    <3>1. changed > beat.saw
      BY <2>2, <2>3, <2>5 DEF BeatChecks
    <3>2. QED
      BY <2>3, <2>5, <3>1 DEF BeatChecks, tables
  <2>6. CASE ~BeatStarts /\ ~BeatChecks
    <3>1. beat' = beat
      BY <2>6 DEF Next, Open, Proceed, ReadFlag, ReadInfo, LoadTask, Stamp, Commit, RollBack, Crash,
                  Start, InitRows, InitTask, InitCleanup, SyncPeriodicTasks, vars
    <3>2. changed' \in Nat
      BY InvStep, Numbers DEF Inv, TypeOK
    <3>3. QED
      BY <2>2, <2>3, <3>1, <3>2, ChangesAreLater
  <2>7. QED
    BY <2>4, <2>5, <2>6
<1>3. QED
  BY <1>1, <1>2, InvAlways, StampsAlways, PTL DEF Spec

\* The tables, the sessions, the stamps and beat's copy fit together in every
\* reachable state.
THEOREM WholeInvAlways == Spec => []WholeInv
<1>1. QED
  BY InvAlways, StampsAlways, BeatIsCurrentAlways, PTL DEF WholeInv
=============================================================================
