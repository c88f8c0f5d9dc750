------------------------- MODULE TaskLifecycleProofs -------------------------
(***************************************************************************)
(* How an execution ends, as the repository stands: no client sends        *)
(* heartbeats.  Which faults a theorem excludes, its hypotheses say.  The  *)
(* last part is about a deployment whose workers do send heartbeats.       *)
(***************************************************************************)
EXTENDS TaskExecutionProofs

----------------------------------------------------------------------------
(* Requests in flight. *)

\* While the backend works on a request it stays the same request.
LEMMA ReplacedBy ==
    ASSUME ExchangeInv, NEW r \in http,
           Read(r) \/ DispatchResult(r) \/ ResultHandlerRaises(r)
    PROVE  \E s \in Request :
             /\ Replace(r, s)
             /\ s.op = r.op /\ s.id = r.id /\ s.client = r.client /\ s.ids = r.ids
             /\ s.waited = r.waited
             /\ s.seen \in {"unread", r.seen, row[r.id].status}
             /\ s.handled # r.handled => r.op = "result" /\ r.handled = "no"
             /\ s.handled = "ok" /\ r.handled # "ok" => DispatchResult(r)
<1>1. r \in Request /\ row[r.id].status \in Status
  BY DEF ExchangeInv, TypeOK, Request, Row
<1>2. r.seen \in Status \cup {"unread"}
  BY <1>1 DEF Request
<1>3. CASE Read(r)
  <2>1. [r EXCEPT !.seen = row[r.id].status] \in Request
    BY <1>1 DEF Request
  <2>2. QED
    BY <1>1, <1>3, <2>1 DEF Read, Request
<1>4. CASE DispatchResult(r)
  <2>1. PICK v \in {"unread", r.seen} :
          Replace(r, [r EXCEPT !.handled = "ok", !.seen = v])
    BY <1>1, <1>4 DEF DispatchResult
  <2>2. [r EXCEPT !.handled = "ok", !.seen = v] \in Request
    BY <1>1, <1>2, <2>1 DEF Request
  <2>3. /\ [r EXCEPT !.handled = "ok", !.seen = v].op = r.op
        /\ [r EXCEPT !.handled = "ok", !.seen = v].id = r.id
        /\ [r EXCEPT !.handled = "ok", !.seen = v].client = r.client
        /\ [r EXCEPT !.handled = "ok", !.seen = v].ids = r.ids
        /\ [r EXCEPT !.handled = "ok", !.seen = v].waited = r.waited
        /\ [r EXCEPT !.handled = "ok", !.seen = v].seen = v
    BY <1>1 DEF Request
  <2>4. r.op = "result" /\ r.handled = "no"
    BY <1>4 DEF DispatchResult
  <2>5. QED
    BY <1>4, <2>1, <2>2, <2>3, <2>4
<1>5. CASE ResultHandlerRaises(r)
  <2>1. [r EXCEPT !.handled = "error"] \in Request
    BY <1>1 DEF Request
  <2>2. QED
    BY <1>1, <1>5, <2>1 DEF ResultHandlerRaises, Request
<1>6. QED
  BY <1>3, <1>4, <1>5

----------------------------------------------------------------------------
(* No heartbeats. *)

\* Without heartbeats the mass UPDATE of the cleanup changes no row.
LEMMA NothingFails ==
    ASSUME ExchangeInv, NoHeartbeatInv, NEW r \in http, DispatchResult(r)
    PROVE  row' = row
BY DEF ExchangeInv, TypeOK, NoHeartbeatInv, DispatchResult, FailMultiple

LEMMA NoHeartbeatInit == Init => NoHeartbeatInv
BY DEF Init, NoRow, Idle, NoHeartbeatInv

\* A process gets no stale executions from anybody but the backend.
LEMMA StaleKept ==
    ASSUME ExchangeInv, NoHeartbeatInv, NEW p \in Process, NEW q \in Process,
           NEW pc \in Busy \cup {"idle"}, proc' = [proc EXCEPT ![q] = At(q, pc)]
    PROVE  proc'[p].stale = {}
BY DEF ExchangeInv, TypeOK, NoHeartbeatInv, PoolProcess, At, Idle

\* The steps of the launch, the processes and the environment.
LEMMA NoHeartbeatWorker ==
    ASSUME ExchangeInv, NoHeartbeatInv, ~HeartbeatClient,
           \/ \E e \in Execution : \/ RunTask(e) \/ SendTask(e) \/ BeatFires(e)
                                   \/ SendTaskFails(e) \/ FallQuiet(e)
           \/ \E p \in Process : Worker(p) \/ Crash(p) \/ Terminate(p) \/ Heartbeat(p)
    PROVE  NoHeartbeatInv'
<1>1. CASE \E e \in Execution : \/ RunTask(e) \/ SendTask(e) \/ BeatFires(e)
                                \/ SendTaskFails(e) \/ FallQuiet(e)
  <2>1. proc' = proc /\ http' = http /\ revoked' = revoked
    BY <1>1 DEF RunTask, SendTask, SendTaskFails, BeatFires, FallQuiet
  <2>2. \A e \in Execution : row'[e].beat = row[e].beat
    BY <1>1 DEF RunTask, SendTask, SendTaskFails, BeatFires, FallQuiet, ExchangeInv,
                TypeOK, Row
  <2>3. QED
    BY <2>1, <2>2 DEF NoHeartbeatInv
<1>2. ASSUME NEW p \in Process, NEW e \in Execution, Deliver(p, e)
      PROVE  NoHeartbeatInv'
  <2>1. row' = row /\ revoked' = revoked
    BY <1>2 DEF Deliver
  <2>2. \A q \in Process : proc'[q].stale = {}
    BY <1>2 DEF Deliver, Idle, ExchangeInv, TypeOK, NoHeartbeatInv
  <2>3. \A s \in http' : s.op # "beat" /\ s.ids = {}
    BY <1>2 DEF Deliver, NewRequest, NoHeartbeatInv
  <2>4. QED
    BY <2>1, <2>2, <2>3 DEF NoHeartbeatInv
<1>3. ASSUME NEW p \in Process,
             \/ AnnounceStart(p) \/ HandlerReturns(p) \/ HandlerRaises(p)
             \/ ListStale(p) \/ Revoke(p) \/ ReportFailure(p)
      PROVE  NoHeartbeatInv'
  <2>1. row' = row
    BY <1>3 DEF AnnounceStart, HandlerReturns, HandlerRaises, ListStale, Revoke,
                ReportFailure
  <2>2. proc[p].stale = {}
    BY DEF NoHeartbeatInv
  <2>3. revoked' = {}
    BY <1>3, <2>2 DEF AnnounceStart, HandlerReturns, HandlerRaises, ListStale, Revoke,
                      ReportFailure, NoHeartbeatInv
  <2>4. PICK pc \in Busy : proc' = [proc EXCEPT ![p] = At(p, pc)]
    BY <1>3 DEF AnnounceStart, HandlerReturns, HandlerRaises, ListStale, Revoke,
                ReportFailure, Send, Busy
  <2>5. \A q \in Process : proc'[q].stale = {}
    BY <2>4, StaleKept
  <2>6. \A s \in http' : s.op # "beat" /\ s.ids = {}
    BY <1>3, <2>2 DEF AnnounceStart, HandlerReturns, HandlerRaises, ListStale, Revoke,
                      ReportFailure, Send, NewRequest, NoHeartbeatInv
  <2>7. QED
    BY <2>1, <2>3, <2>5, <2>6 DEF NoHeartbeatInv
<1>4. ASSUME NEW p \in Process, Crash(p) \/ Terminate(p)
      PROVE  NoHeartbeatInv'
  <2>1. /\ row' = row /\ revoked' = revoked
        /\ proc' = [proc EXCEPT ![p] = Idle]
        /\ http' = {IF r.client = p THEN Orphan(r) ELSE r : r \in http}
    BY <1>4 DEF Crash, Terminate, Stop
  <2>2. \A r \in http : Orphan(r).op = r.op /\ Orphan(r).ids = r.ids
    BY DEF Orphan, ExchangeInv, TypeOK, Request
  <2>3. \A s \in http' : s.op # "beat" /\ s.ids = {}
    BY <2>1, <2>2 DEF NoHeartbeatInv
  <2>4. \A q \in Process : proc'[q].stale = {}
    BY <2>1 DEF Idle, NoHeartbeatInv, ExchangeInv, TypeOK
  <2>5. QED
    BY <2>1, <2>3, <2>4 DEF NoHeartbeatInv
<1>5. QED
  BY <1>1, <1>2, <1>3, <1>4 DEF Worker, Heartbeat

\* The steps on a request.
LEMMA NoHeartbeatBackend ==
    ASSUME ExchangeInv, NoHeartbeatInv, NEW r \in http,
           Backend(r) \/ DatabaseError(r) \/ Lose(r) \/ TimeOut(r)
    PROVE  NoHeartbeatInv'
<1>1. /\ r \in Request /\ r.id \in Execution /\ r.client \in Process
      /\ r.op \in {"claim", "start", "fail", "result", "stale", "beat"}
  BY DEF ExchangeInv, TypeOK, Request
<1>2. revoked' = {}
  BY DEF NoHeartbeatInv, Backend, Claim, Read, DispatchResult, ResultHandlerRaises, Write,
         ServeStale, DatabaseError, Lose, TimeOut
<1>3. \A e \in Execution : ~row'[e].beat
  <2>1. CASE Claim(r)
    BY <1>1, <2>1 DEF Claim, ExchangeInv, TypeOK, Row, NoHeartbeatInv
  <2>2. CASE Write(r)
    <3>1. row'[r.id].beat = (row[r.id].beat \/ r.op = "beat")
      BY <1>1, <2>2 DEF Write, ExchangeInv, TypeOK
    <3>2. \A e \in Execution \ {r.id} : row'[e] = row[e]
      BY <1>1, <2>2 DEF Write, ExchangeInv, TypeOK
    <3>3. QED
      BY <1>1, <3>1, <3>2 DEF NoHeartbeatInv
  <2>3. CASE \/ Read(r) \/ DispatchResult(r) \/ ResultHandlerRaises(r) \/ ServeStale(r)
             \/ DatabaseError(r) \/ Lose(r) \/ TimeOut(r)
    <3>1. row' = row
      BY <2>3, NothingFails DEF Read, ResultHandlerRaises, ServeStale, DatabaseError, Lose,
                                TimeOut
    <3>2. QED
      BY <3>1 DEF NoHeartbeatInv
  <2>4. QED
    BY <2>1, <2>2, <2>3 DEF Backend
<1>4. \A q \in Process : proc'[q].stale = {}
  <2>1. CASE ServeStale(r)
    <3>1. StaleExecutions = {}
      BY DEF StaleExecutions, NoHeartbeatInv
    <3>2. QED
      BY <1>1, <2>1, <3>1 DEF ServeStale, ExchangeInv, TypeOK, PoolProcess, NoHeartbeatInv
  <2>2. CASE ~ServeStale(r)
    <3>1. \/ proc' = proc
          \/ \E pc \in Busy \cup {"idle"} :
                proc' = [proc EXCEPT ![r.client] = At(r.client, pc)]
      BY <1>1, <2>2, AfterType
         DEF Backend, Claim, Read, DispatchResult, ResultHandlerRaises, Write,
             DatabaseError, Lose, TimeOut, Answer
    <3>2. QED
      BY <1>1, <3>1, StaleKept DEF NoHeartbeatInv
  <2>3. QED
    BY <2>1, <2>2
<1>5. \A s \in http' : s.op # "beat" /\ s.ids = {}
  <2>1. CASE Claim(r) \/ Write(r) \/ ServeStale(r) \/ DatabaseError(r) \/ Lose(r)
    BY <2>1 DEF Claim, Write, ServeStale, DatabaseError, Lose, Answer, NoHeartbeatInv
  <2>2. CASE Read(r) \/ DispatchResult(r) \/ ResultHandlerRaises(r) \/ TimeOut(r)
    <3>1. PICK s \in Request : Replace(r, s) /\ s.op = r.op /\ s.ids = r.ids
      <4>1. CASE TimeOut(r)
        BY <1>1, <4>1, OrphanType DEF TimeOut, Orphan, Request
      <4>2. CASE Read(r) \/ DispatchResult(r) \/ ResultHandlerRaises(r)
        BY <4>2, ReplacedBy
      <4>3. QED
        BY <2>2, <4>1, <4>2
    <3>2. QED
      BY <3>1 DEF Replace, NoHeartbeatInv
  <2>3. QED
    BY <2>1, <2>2 DEF Backend
<1>6. QED
  BY <1>2, <1>3, <1>4, <1>5 DEF NoHeartbeatInv

LEMMA NoHeartbeatStep ==
    ASSUME ~HeartbeatClient
    PROVE  ExchangeInv /\ NoHeartbeatInv /\ [Next]_vars => NoHeartbeatInv'
<1> SUFFICES ASSUME ExchangeInv, NoHeartbeatInv, [Next]_vars
             PROVE  NoHeartbeatInv'
  OBVIOUS
<1>1. CASE UNCHANGED vars
  BY <1>1 DEF vars, NoHeartbeatInv
<1>2. CASE Next
  BY <1>2, NoHeartbeatWorker, NoHeartbeatBackend DEF Next, Environment
<1>3. QED
  BY <1>1, <1>2

----------------------------------------------------------------------------
(* While no message times out, the work of an execution goes step by step. *)

CalmOf(e) == TurnOf(e) /\ StageOf(e)

CalmInv == \A e \in Execution : CalmOf(e)

\* What the proofs about one execution start from.
Basis == ExchangeInv /\ HolderInv /\ RowInv /\ NoHeartbeatInv

\* A step that leaves the row of e, and those that hold e, as they are or
\* lets them go, keeps e calm.
LEMMA CalmKept ==
    ASSUME ExchangeInv, NEW e \in Execution, CalmOf(e),
           Launched(e)' = Launched(e), Waiting(e)' => Waiting(e),
           row'[e].status = row[e].status, row'[e].finished = row[e].finished,
           \A p \in Process : proc'[p].id = e =>
              proc[p].id = e /\ row[e].status \in StatusAt(proc'[p].pc),
           \A s \in http' : s.id = e => s \in http
    PROVE  CalmOf(e)'
<1>1. TurnOf(e)'
  BY DEF CalmOf, TurnOf
<1>2. \A s \in http' : s.id = e => /\ row'[e].status \in StatusAt(s.op)
                                   /\ s.seen \in {"unread", row'[e].status}
  BY DEF CalmOf, StageOf
<1>3. \A p \in Process : proc'[p].id = e => row'[e].status \in StatusAt(proc'[p].pc)
  OBVIOUS
<1>4. StageOf(e)'
  BY <1>2, <1>3 DEF CalmOf, StageOf
<1>5. QED
  BY <1>1, <1>4 DEF CalmOf

\* When the request that has its turn ends, it is the last one for the moment.
LEMMA CalmAnswered ==
    ASSUME ExchangeInv, NEW e \in Execution, CalmOf(e), NEW r \in http, r.id = e,
           http' = http \ {r}, dispatching' = dispatching, queue' = queue, fired' = fired,
           row'[e].finished <=> row'[e].status \in Terminal,
           Launched(e)',
           \A p \in Process : proc'[p].id = e => row'[e].status \in StatusAt(proc'[p].pc)
    PROVE  CalmOf(e)'
<1>1. \A s \in http' : s.id # e
  BY DEF CalmOf, TurnOf
<1>2. ~Waiting(e)'
  BY DEF CalmOf, TurnOf, Waiting
<1>3. TurnOf(e)' /\ StageOf(e)'
  BY <1>1, <1>2 DEF TurnOf, StageOf
<1>4. QED
  BY <1>3 DEF CalmOf

\* When the backend makes progress on it, it keeps its turn.
LEMMA CalmReplaced ==
    ASSUME ExchangeInv, NEW e \in Execution, CalmOf(e), NEW r \in http, r.id = e,
           NEW s \in Request, Replace(r, s),
           s.op = r.op, s.id = r.id, s.client = r.client, s.waited = r.waited,
           s.seen \in {"unread", r.seen, row[e].status},
           UNCHANGED <<row, dispatching, queue, fired, proc>>
    PROVE  CalmOf(e)'
<1>1. \A t \in http' : t.id = e => t = s
  BY DEF Replace, CalmOf, TurnOf
<1>2. TurnOf(e)'
  BY <1>1 DEF CalmOf, TurnOf, Waiting, Launched
<1>3. StageOf(e)'
  BY <1>1 DEF CalmOf, StageOf, Waiting, Launched
<1>4. QED
  BY <1>2, <1>3 DEF CalmOf

\* A process that waits for nothing takes its turn with a request.
LEMMA CalmSend ==
    ASSUME Basis, NEW e \in Execution, CalmOf(e), NEW p \in Process, proc[p].id = e,
           NEW op \in {"start", "fail", "result", "stale"}, NEW ids \in SUBSET Execution,
           proc[p].pc \in {"accepted", "running", "revoking", "raised"},
           op = "start" <=> proc[p].pc = "accepted",
           Send(p, WaitsAt[op], op, ids),
           UNCHANGED <<row, dispatching, queue, fired>>
    PROVE  CalmOf(e)'
<1> DEFINE new == NewRequest(p, op, e, ids)
           pc == WaitsAt[op]
<1>1. ExchangeInv
  BY DEF Basis
<1>2. \A r \in http : r.id # e
  <2> SUFFICES ASSUME NEW r \in http, r.id = e
               PROVE  FALSE
    OBVIOUS
  <2>1. r.waited /\ r.client = p
    BY DEF CalmOf, TurnOf
  <2>2. r.op \in {"claim", "start", "stale", "result", "fail"} /\ proc[p].pc = WaitsAt[r.op]
    BY <1>1, <2>1 DEF ExchangeInv, TypeOK, Request, Matched
  <2>3. QED
    BY <2>2 DEF WaitsAt
<1>3. /\ pc \in Busy /\ pc \in {"starting", "failing", "reporting", "listing"}
      /\ pc = "starting" <=> op = "start"
  BY DEF WaitsAt, Busy
<1>4. proc' = [proc EXCEPT ![p] = [proc[p] EXCEPT !.pc = pc]] /\ http' = http \cup {new}
  BY <1>3 DEF Send, At, Busy
<1>5. /\ new.id = e /\ new.op = op /\ new.client = p /\ new.waited /\ new.seen = "unread"
  BY DEF NewRequest
<1> HIDE DEF new, pc
<1>6. /\ proc'[p].id = e /\ proc'[p].pc = pc
      /\ \A q \in Process \ {p} : proc'[q] = proc[q]
  BY <1>1, <1>4 DEF ExchangeInv, TypeOK, PoolProcess
<1>7. \A q \in Process \ {p} : proc[q].id # e
  BY ExecutionAssumption DEF Basis, HolderInv, SingleHolder
<1>8. ~Waiting(e) /\ Launched(e)
  BY DEF Basis, HolderInv, SingleHolder, Waiting
<1>9. \A s \in http' : s.id = e => s = new
  BY <1>2, <1>4
<1>10. TurnOf(e)'
  BY <1>5, <1>6, <1>7, <1>8, <1>9 DEF TurnOf, Waiting, Launched
<1>11. row[e].status \in StatusAt(proc[p].pc)
  BY DEF CalmOf, StageOf
<1>12. row[e].status \in StatusAt(pc) /\ row[e].status \in StatusAt(op)
  BY <1>3, <1>11 DEF StatusAt, Open
<1>13. StageOf(e)'
  BY <1>5, <1>6, <1>7, <1>8, <1>9, <1>12 DEF CalmOf, StageOf, Waiting, Launched
<1>14. QED
  BY <1>10, <1>13 DEF CalmOf

\* A launch is the first that is heard of an execution.
LEMMA CalmLaunch ==
    ASSUME Basis, Next, NEW e \in Execution, CalmOf(e), NEW f \in Execution,
           RunTask(f) \/ SendTask(f) \/ SendTaskFails(f) \/ BeatFires(f) \/ FallQuiet(f)
    PROVE  CalmOf(e)'
<1>1. proc' = proc /\ http' = http /\ ExchangeInv
  BY DEF RunTask, SendTask, SendTaskFails, BeatFires, FallQuiet, Basis
<1>2. row \in [Execution -> Row] /\ row[f] \in Row
  BY <1>1 DEF ExchangeInv, TypeOK
<1>3. CASE e = f /\ (RunTask(f) \/ BeatFires(f))
  <2>1. ~Launched(e) /\ Launched(e)'
    BY <1>2, <1>3 DEF RunTask, BeatFires, Launched, Row
  <2>2. /\ \A p \in Process : proc'[p].id # e
        /\ \A r \in http' : r.id # e
    BY <1>1, <2>1 DEF Basis, HolderInv, CalmOf, TurnOf
  <2>3. row[e].status = "ABSENT" /\ ~row[e].finished
    BY <1>2, <2>1 DEF CalmOf, StageOf, Terminal, Row
  <2>4. /\ row'[e].status = IF e \in Scheduled THEN "ABSENT" ELSE "PENDING"
        /\ row'[e].finished = row[e].finished
    BY <1>2, <1>3, <2>3 DEF RunTask, BeatFires, Row
  <2>5. TurnOf(e)' /\ StageOf(e)'
    BY <2>1, <2>2, <2>3, <2>4 DEF TurnOf, StageOf, Terminal
  <2>6. QED
    BY <2>5 DEF CalmOf
<1>4. CASE ~(e = f /\ (RunTask(f) \/ BeatFires(f)))
  <2>1. row'[e].status = row[e].status /\ row'[e].finished = row[e].finished
    BY <1>2, <1>4 DEF RunTask, SendTask, SendTaskFails, BeatFires, FallQuiet, Row
  <2>2. Launched(e)' = Launched(e)
    BY <1>4, <2>1 DEF RunTask, SendTask, SendTaskFails, BeatFires, FallQuiet, Launched
  <2>3. Waiting(e)' => Waiting(e)
    BY <1>4 DEF RunTask, SendTask, SendTaskFails, BeatFires, FallQuiet, Waiting
  <2>4. \A p \in Process : proc'[p].id = e =>
           proc[p].id = e /\ row[e].status \in StatusAt(proc'[p].pc)
    BY <1>1 DEF CalmOf, StageOf
  <2>5. QED
    BY <1>1, <2>1, <2>2, <2>3, <2>4, CalmKept
<1>5. QED
  BY <1>3, <1>4

\* A delivery opens the work on an execution.
LEMMA CalmDeliver ==
    ASSUME Basis, "redeliver" \notin FaultKinds, NEW e \in Execution, CalmOf(e),
           NEW p \in Process, NEW f \in Execution, Deliver(p, f)
    PROVE  CalmOf(e)'
<1>1. /\ f \in queue /\ queue' = queue \ {f} /\ row' = row /\ ExchangeInv
      /\ dispatching' = dispatching /\ fired' = fired
  BY DEF Deliver, Fault, Basis
<1>2. /\ \A q \in Process \ {p} : proc'[q] = proc[q]
      /\ proc'[p].id = f
      /\ proc'[p].pc = IF f \in Scheduled THEN "claiming" ELSE "accepted"
  <2>1. /\ f \in Scheduled =>
             proc' = [proc EXCEPT ![p] = [Idle EXCEPT !.pc = "claiming", !.id = f]]
        /\ f \notin Scheduled =>
             proc' = [proc EXCEPT ![p] = [Idle EXCEPT !.pc = "accepted", !.id = f]]
    BY DEF Deliver
  <2>2. proc \in [Process -> PoolProcess]
    BY <1>1 DEF ExchangeInv, TypeOK
  <2>3. CASE f \in Scheduled
    BY <2>1, <2>2, <2>3 DEF Idle
  <2>4. CASE f \notin Scheduled
    BY <2>1, <2>2, <2>4 DEF Idle
  <2>5. QED
    BY <2>3, <2>4
<1>3. IF f \in Scheduled
      THEN http' = http \cup {NewRequest(p, "claim", f, {})}
      ELSE http' = http
  BY DEF Deliver
<1>4. CASE e = f
  <2>1. Waiting(e) /\ ~Waiting(e)'
    BY <1>1, <1>4 DEF Waiting, Basis, HolderInv, SingleHolder
  <2>2. /\ Launched(e) /\ Launched(e)'
        /\ \A q \in Process : proc[q].id # e
        /\ \A r \in http : r.id # e
    BY <1>1, <1>4, <2>1 DEF Basis, HolderInv, SingleHolder, CalmOf, TurnOf, Launched
  <2>3. row[e].status = IF e \in Scheduled THEN "ABSENT" ELSE "PENDING"
    BY <2>1 DEF CalmOf, StageOf
  <2>4. \A s \in http' : s.id = e =>
          /\ e \in Scheduled /\ s = NewRequest(p, "claim", f, {})
          /\ s.op = "claim" /\ s.client = p /\ s.waited /\ s.seen = "unread"
    <3>1. \A s \in http' : s.id = e => f \in Scheduled /\ s = NewRequest(p, "claim", f, {})
      BY <1>3, <2>2
    <3>2. /\ NewRequest(p, "claim", f, {}).op = "claim"
          /\ NewRequest(p, "claim", f, {}).client = p
          /\ NewRequest(p, "claim", f, {}).waited
          /\ NewRequest(p, "claim", f, {}).seen = "unread"
      BY DEF NewRequest
    <3>3. QED
      BY <1>4, <3>1, <3>2
  <2>5. \A q \in Process : proc'[q].id = e => q = p
    BY <1>2, <2>2
  <2>6. TurnOf(e)'
    BY <2>1, <2>2, <2>4, <2>5 DEF TurnOf
  <2>7. StageOf(e)'
    BY <1>1, <1>2, <1>4, <2>1, <2>2, <2>3, <2>4, <2>5 DEF CalmOf, StageOf, StatusAt
  <2>8. QED
    BY <2>6, <2>7 DEF CalmOf
<1>5. CASE e # f
  <2>1. \A s \in http' : s.id = e => s \in http
    BY <1>3, <1>5 DEF NewRequest
  <2>2. Launched(e)' = Launched(e) /\ (Waiting(e)' => Waiting(e))
    BY <1>1 DEF Launched, Waiting
  <2>3. \A q \in Process : proc'[q].id = e =>
           proc[q].id = e /\ row[e].status \in StatusAt(proc'[q].pc)
    BY <1>2, <1>5 DEF CalmOf, StageOf
  <2>4. QED
    BY <1>1, <2>1, <2>2, <2>3, CalmKept
<1>6. QED
  BY <1>4, <1>5

\* A process works, and asks, on its own execution only.
LEMMA CalmProcess ==
    ASSUME Basis, NEW e \in Execution, CalmOf(e), NEW p \in Process,
           \/ AnnounceStart(p) \/ HandlerReturns(p) \/ HandlerRaises(p)
           \/ ListStale(p) \/ Revoke(p) \/ ReportFailure(p)
    PROVE  CalmOf(e)'
<1>1. /\ UNCHANGED <<row, dispatching, queue, fired>> /\ ExchangeInv
      /\ proc[p] \in PoolProcess
  BY DEF AnnounceStart, HandlerReturns, HandlerRaises, ListStale, Revoke, ReportFailure,
         Basis, ExchangeInv, TypeOK
<1>2. Launched(e)' = Launched(e) /\ Waiting(e)' = Waiting(e)
  BY <1>1 DEF Launched, Waiting
<1>3. /\ WaitsAt["start"] = "starting" /\ WaitsAt["result"] = "reporting"
      /\ WaitsAt["stale"] = "listing" /\ WaitsAt["fail"] = "failing"
  BY DEF WaitsAt
<1>4. CASE proc[p].id = e /\ HandlerRaises(p)
  <2>1. proc' = [proc EXCEPT ![p] = [proc[p] EXCEPT !.pc = "raised"]] /\ http' = http
    BY <1>4 DEF HandlerRaises, At
  <2>2. row[e].status \in Open
    BY <1>4 DEF HandlerRaises, CalmOf, StageOf, StatusAt
  <2>3. \A q \in Process : proc'[q].id = e =>
           proc[q].id = e /\ row[e].status \in StatusAt(proc'[q].pc)
    BY <1>1, <2>1, <2>2 DEF ExchangeInv, TypeOK, PoolProcess, CalmOf, StageOf, StatusAt
  <2>4. QED
    BY <1>1, <1>2, <2>1, <2>3, CalmKept
<1>5. CASE proc[p].id = e /\ ~HandlerRaises(p)
  <2>1. PICK op \in {"start", "fail", "result", "stale"}, ids \in SUBSET Execution :
          /\ Send(p, WaitsAt[op], op, ids)
          /\ proc[p].pc \in {"accepted", "running", "revoking", "raised"}
          /\ op = "start" <=> proc[p].pc = "accepted"
    <3>1. {} \in SUBSET Execution /\ proc[p].stale \in SUBSET Execution
      BY <1>1 DEF PoolProcess
    <3>2. CASE AnnounceStart(p)
      BY <1>3, <3>1, <3>2 DEF AnnounceStart
    <3>3. CASE HandlerReturns(p)
      BY <1>3, <3>1, <3>3 DEF HandlerReturns
    <3>4. CASE ListStale(p)
      BY <1>3, <3>1, <3>4 DEF ListStale
    <3>5. CASE Revoke(p)
      BY <1>3, <3>1, <3>5 DEF Revoke
    <3>6. CASE ReportFailure(p)
      BY <1>3, <3>1, <3>6 DEF ReportFailure
    <3>7. QED
      BY <1>5, <3>2, <3>3, <3>4, <3>5, <3>6
  <2>2. QED
    BY <1>1, <1>5, <2>1, CalmSend
<1>6. CASE proc[p].id # e
  <2>1. \A q \in Process : proc'[q].id = e => proc[q].id = e /\ proc'[q] = proc[q]
    <3>1. PICK pc \in Busy : proc' = [proc EXCEPT ![p] = At(p, pc)]
      BY <1>3 DEF AnnounceStart, HandlerReturns, HandlerRaises, ListStale, Revoke,
                  ReportFailure, Send, Busy
    <3>2. At(p, pc).id = proc[p].id
      BY <1>1, <3>1 DEF At, Busy, PoolProcess
    <3>3. QED
      BY <1>1, <1>6, <3>1, <3>2 DEF ExchangeInv, TypeOK
  <2>2. \A s \in http' : s.id = e => s \in http
    BY <1>6 DEF AnnounceStart, HandlerReturns, HandlerRaises, ListStale, Revoke,
                ReportFailure, Send, NewRequest
  <2>3. \A q \in Process : proc'[q].id = e =>
           proc[q].id = e /\ row[e].status \in StatusAt(proc'[q].pc)
    BY <2>1 DEF CalmOf, StageOf
  <2>4. QED
    BY <1>1, <1>2, <2>2, <2>3, CalmKept
<1>7. QED
  BY <1>4, <1>5, <1>6

\* When a process stops, its last request is alone with the row.
LEMMA CalmStop ==
    ASSUME Basis, NEW e \in Execution, CalmOf(e), NEW p \in Process,
           Crash(p) \/ Terminate(p)
    PROVE  CalmOf(e)'
<1>1. /\ UNCHANGED <<row, dispatching, queue, fired>> /\ ExchangeInv
      /\ proc' = [proc EXCEPT ![p] = Idle]
      /\ http' = {IF r.client = p THEN Orphan(r) ELSE r : r \in http}
  BY DEF Crash, Terminate, Stop, Basis
<1>2. \A q \in Process : proc'[q].id = e => q # p /\ proc'[q] = proc[q]
  BY <1>1, ExecutionAssumption DEF Idle, ExchangeInv, TypeOK
<1>3. \A r \in http : /\ Orphan(r).id = r.id /\ Orphan(r).op = r.op
                      /\ Orphan(r).client = r.client /\ Orphan(r).seen = r.seen
  BY <1>1 DEF Orphan, ExchangeInv, TypeOK, Request
<1>4. \A s \in http' : \E r \in http :
         /\ s = IF r.client = p THEN Orphan(r) ELSE r
         /\ s.id = r.id /\ s.op = r.op /\ s.client = r.client /\ s.seen = r.seen
  BY <1>1, <1>3
<1>5. Launched(e)' = Launched(e) /\ Waiting(e)' = Waiting(e)
  BY <1>1 DEF Launched, Waiting
<1>6. TurnOf(e)'
  <2>1. \A s, t \in http' : s.id = e /\ t.id = e => s = t
    BY <1>4 DEF CalmOf, TurnOf
  <2>2. \A s \in http', q \in Process :
           s.id = e /\ proc'[q].id = e => s.waited /\ s.client = q
    BY <1>2, <1>4 DEF CalmOf, TurnOf
  <2>3. \A s \in http' : s.id = e =>
           ~Waiting(e)' /\ Launched(e)' /\ (s.op = "claim" => e \in Scheduled)
    BY <1>4, <1>5 DEF CalmOf, TurnOf
  <2>4. QED
    BY <2>1, <2>2, <2>3 DEF TurnOf
<1>7. StageOf(e)'
  BY <1>1, <1>2, <1>4, <1>5 DEF CalmOf, StageOf
<1>8. QED
  BY <1>6, <1>7 DEF CalmOf

\* Whom an answer reaches: the process that waits for it, which goes on at pc.
LEMMA AnswerReaches ==
    ASSUME ExchangeInv, NEW r \in http, NEW pc \in Busy \cup {"idle"}, Answer(r, pc),
           NEW p \in Process, proc'[p].id # NoExecution
    PROVE  /\ proc'[p].id = proc[p].id
           /\ IF r.waited /\ p = r.client
              THEN proc'[p].pc = pc /\ pc # "idle" /\ proc[p].id = r.id
              ELSE proc'[p] = proc[p]
<1>1. r.client \in Process /\ proc[p] \in PoolProcess /\ proc \in [Process -> PoolProcess]
  BY DEF ExchangeInv, TypeOK, Request
<1>2. CASE r.waited /\ p = r.client
  <2>1. proc'[p] = At(p, pc)
    BY <1>1, <1>2 DEF Answer
  <2>2. pc # "idle"
    BY <2>1 DEF At, Idle
  <2>3. proc[p].id = r.id
    BY <1>2 DEF ExchangeInv, Matched
  <2>4. QED
    BY <1>1, <1>2, <2>1, <2>2, <2>3 DEF At, PoolProcess
<1>3. CASE ~(r.waited /\ p = r.client)
  BY <1>1, <1>3 DEF Answer
<1>4. QED
  BY <1>2, <1>3

\* While requests take turns, a request writes the status it is there for.
LEMMA WriteTakesEffect ==
    ASSUME ExchangeInv, NoHeartbeatInv, NEW r \in http, CalmOf(r.id), Write(r)
    PROVE  /\ row'[r.id].status = Target(r)
           /\ row'[r.id].finished <=> row'[r.id].status \in Terminal
           /\ r.op = "start" => Target(r) = "IN_PROGRESS" /\ row[r.id].status = "PENDING"
           /\ r.op # "start" => Target(r) \in Terminal /\ row[r.id].status \in Open
           /\ \A f \in Execution \ {r.id} : row'[f] = row[f]
<1> DEFINE e == r.id
<1>1. /\ r \in Request /\ e \in Execution /\ row \in [Execution -> Row]
      /\ row[e].finished \in BOOLEAN
  BY DEF ExchangeInv, TypeOK, Request, Row
<1>2. r.op \in {"start", "fail", "result"} /\ r.seen # "unread"
  BY DEF Write, NoHeartbeatInv
<1>3. r.seen = row[e].status /\ row[e].status \in StatusAt(r.op)
  BY <1>1, <1>2 DEF CalmOf, StageOf
<1>4. /\ row'[e].status = Target(r)
      /\ row'[e].finished = (row[e].finished \/ Target(r) \in Terminal)
      /\ \A f \in Execution \ {e} : row'[f] = row[f]
  BY <1>1, <1>3 DEF Write
<1>5. ~row[e].finished
  BY <1>2, <1>3 DEF CalmOf, StageOf, StatusAt, Open, Terminal
<1>6. /\ r.op = "start" => Target(r) = "IN_PROGRESS" /\ row[e].status = "PENDING"
      /\ r.op # "start" => Target(r) \in Terminal /\ row[e].status \in Open
  BY <1>2, <1>3 DEF Target, Terminal, StatusAt, Open
<1>7. QED
  BY <1>4, <1>5, <1>6

\* The backend's steps, and the faults that end a request.
LEMMA CalmBackend ==
    ASSUME Basis, Next, "timeout" \notin FaultKinds, NEW e \in Execution, CalmInv,
           NEW r \in http, Backend(r) \/ DatabaseError(r) \/ Lose(r) \/ TimeOut(r)
    PROVE  CalmOf(e)'
<1>1. /\ r \in Request /\ r.id \in Execution /\ r.client \in Process
      /\ r.op \in {"claim", "start", "fail", "result", "stale"}
      /\ ExchangeInv /\ NoHeartbeatInv /\ CalmOf(e) /\ CalmOf(r.id)
      /\ proc \in [Process -> PoolProcess] /\ row \in [Execution -> Row]
  BY DEF Basis, NoHeartbeatInv, ExchangeInv, TypeOK, Request, CalmInv
<1>2. dispatching' = dispatching /\ queue' = queue /\ fired' = fired
  BY DEF Backend, Claim, Read, DispatchResult, ResultHandlerRaises, Write, ServeStale,
         DatabaseError, Lose, TimeOut
<1>3. ~TimeOut(r)
  BY DEF TimeOut, Fault
<1>4. Waiting(e)' = Waiting(e)
  BY <1>2 DEF Waiting
<1>5. CASE Read(r) \/ DispatchResult(r) \/ ResultHandlerRaises(r)
  <2>1. row' = row /\ proc' = proc
    BY <1>1, <1>5, NothingFails DEF Read, DispatchResult, ResultHandlerRaises
  <2>2. PICK s \in Request :
          /\ Replace(r, s)
          /\ s.op = r.op /\ s.id = r.id /\ s.client = r.client /\ s.waited = r.waited
          /\ s.seen \in {"unread", r.seen, row[r.id].status}
    BY <1>1, <1>5, ReplacedBy
  <2>3. CASE r.id = e
    BY <1>1, <1>2, <2>1, <2>2, <2>3, CalmReplaced
  <2>4. CASE r.id # e
    <3>1. \A t \in http' : t.id = e => t \in http
      BY <2>2, <2>4 DEF Replace
    <3>2. Launched(e)' = Launched(e)
      BY <1>2, <2>1 DEF Launched
    <3>3. \A p \in Process : proc'[p].id = e =>
             proc[p].id = e /\ row[e].status \in StatusAt(proc'[p].pc)
      BY <1>1, <2>1 DEF CalmOf, StageOf
    <3>4. QED
      BY <1>1, <1>4, <2>1, <3>1, <3>2, <3>3, CalmKept
  <2>5. QED
    BY <2>3, <2>4
<1>6. CASE Claim(r) \/ Write(r) \/ ServeStale(r) \/ DatabaseError(r) \/ Lose(r)
  <2>1. http' = http \ {r}
    BY <1>6 DEF Claim, Write, ServeStale, DatabaseError, Lose, Answer
  <2>2. /\ \A f \in Execution \ {r.id} : row'[f] = row[f]
        /\ row'[r.id].finished <=> row'[r.id].status \in Terminal
        /\ Claim(r) => row'[r.id].status = "PENDING"
        /\ Write(r) => row'[r.id].status = Target(r)
        /\ Write(r) /\ r.op = "start" => Target(r) = "IN_PROGRESS"
        /\ ServeStale(r) \/ DatabaseError(r) \/ Lose(r) => row' = row
    <3>1. CASE Claim(r)
      <4>1. row[r.id].status = "ABSENT" /\ ~row[r.id].finished
        BY <1>1, <3>1 DEF Claim, CalmOf, StageOf, StatusAt, Terminal
      <4>2. row' = [row EXCEPT ![r.id] = [row[r.id] EXCEPT !.status = "PENDING"]]
        BY <3>1 DEF Claim
      <4>3. /\ [row[r.id] EXCEPT !.status = "PENDING"].status = "PENDING"
            /\ [row[r.id] EXCEPT !.status = "PENDING"].finished = row[r.id].finished
        BY <1>1 DEF Row
      <4>4. /\ \A f \in Execution \ {r.id} : row'[f] = row[f]
            /\ row'[r.id].status = "PENDING" /\ ~row'[r.id].finished
        BY <1>1, <4>1, <4>2, <4>3
      <4>5. ~Write(r) /\ ~ServeStale(r)
        BY <3>1 DEF Claim, Write, ServeStale
      <4>6. ~DatabaseError(r) /\ ~Lose(r)
        BY <4>1, <4>4 DEF DatabaseError, Lose
      <4>7. QED
        BY <4>4, <4>5, <4>6 DEF Terminal
    <3>2. CASE Write(r)
      <4>1. ~Claim(r) /\ ~ServeStale(r)
        BY <3>2 DEF Claim, Write, ServeStale
      <4>2. row[r.id].status # row'[r.id].status
        BY <1>1, <3>2, WriteTakesEffect DEF Open, Terminal
      <4>3. ~DatabaseError(r) /\ ~Lose(r)
        BY <4>2 DEF DatabaseError, Lose
      <4>4. QED
        BY <1>1, <3>2, <4>1, <4>3, WriteTakesEffect
    <3>3. CASE ~Claim(r) /\ ~Write(r)
      <4>1. row' = row
        BY <1>6, <3>3 DEF ServeStale, DatabaseError, Lose
      <4>2. QED
        BY <1>1, <3>3, <4>1 DEF CalmOf, StageOf
    <3>4. QED
      BY <3>1, <3>2, <3>3
  <2>3. CASE r.id # e
    <3>1. \A s \in http' : s.id = e => s \in http
      BY <2>1
    <3>2. row'[e] = row[e]
      BY <2>2, <2>3
    <3>3. Launched(e)' = Launched(e)
      BY <1>2, <3>2 DEF Launched
    <3>4. \A p \in Process : proc'[p].id = e =>
             proc[p].id = e /\ row[e].status \in StatusAt(proc'[p].pc)
      <4>1. CASE ServeStale(r)
        <5>1. \A p \in Process : proc'[p].id = proc[p].id /\ (proc'[p].pc # proc[p].pc =>
                                   r.waited /\ p = r.client)
          BY <1>1, <4>1 DEF ServeStale, PoolProcess
        <5>2. r.waited => proc[r.client].id # e
          BY <1>1, <2>3 DEF ExchangeInv, Matched
        <5>3. QED
          BY <1>1, <5>1, <5>2 DEF CalmOf, StageOf
      <4>2. CASE ~ServeStale(r)
        <5>1. PICK pc \in Busy \cup {"idle"} : Answer(r, pc)
          BY <1>1, <1>6, <4>2, AfterType DEF Claim, Write, DatabaseError, Lose
        <5>2. \A p \in Process : proc'[p].id = e => proc[p].id = e /\ proc'[p] = proc[p]
          BY <1>1, <2>3, <5>1, AnswerReaches, ExecutionAssumption
        <5>3. QED
          BY <1>1, <5>2 DEF CalmOf, StageOf
      <4>3. QED
        BY <4>1, <4>2
    <3>5. QED
      BY <1>1, <1>4, <3>1, <3>2, <3>3, <3>4, CalmKept
  <2>4. CASE r.id = e
    <3>1. Launched(e)'
      BY <1>1, <2>4, LaunchedForEver DEF CalmOf, TurnOf
    <3>2. \A p \in Process : proc'[p].id = e => row'[e].status \in StatusAt(proc'[p].pc)
      <4> SUFFICES ASSUME NEW p \in Process, proc'[p].id = e
                   PROVE  row'[e].status \in StatusAt(proc'[p].pc)
        OBVIOUS
      <4>1. CASE ServeStale(r)
        <5>1. proc[p].id = e
          BY <1>1, <4>1 DEF ServeStale, PoolProcess
        <5>2. r.waited /\ p = r.client
          BY <1>1, <2>4, <5>1 DEF CalmOf, TurnOf
        <5>3. proc'[p].pc = "revoking"
          BY <1>1, <4>1, <5>2 DEF ServeStale, AfterOK, PoolProcess
        <5>4. row[e].status \in Open
          BY <1>1, <2>4, <4>1 DEF ServeStale, CalmOf, StageOf, StatusAt
        <5>5. QED
          BY <2>2, <4>1, <5>3, <5>4 DEF StatusAt
      <4>2. CASE Claim(r)
        <5>1. Answer(r, "accepted") /\ "accepted" \in Busy
          BY <4>2 DEF Claim, AfterOK, Busy
        <5>2. proc[p].id = e
          BY <1>1, <5>1, AnswerReaches, ExecutionAssumption
        <5>3. r.waited /\ p = r.client
          BY <1>1, <2>4, <5>2 DEF CalmOf, TurnOf
        <5>4. proc'[p].pc = "accepted"
          BY <1>1, <5>1, <5>3, AnswerReaches, ExecutionAssumption
        <5>5. QED
          BY <2>2, <2>4, <4>2, <5>4 DEF StatusAt
      <4>3. CASE Write(r) \/ DatabaseError(r) \/ Lose(r)
        <5>1. PICK pc \in {AfterOK(r.op), AfterError(r.op), AfterLoss(r.op)} :
                /\ Answer(r, pc)
                /\ Write(r) => pc \in {AfterOK(r.op), AfterError(r.op)}
                /\ ~Write(r) => pc \in {AfterError(r.op), AfterLoss(r.op)}
          BY <4>3 DEF Write, DatabaseError, Lose
        <5>2. pc \in Busy \cup {"idle"}
          BY <1>1, AfterType
        <5>3. proc[p].id = e
          BY <1>1, <5>1, <5>2, AnswerReaches, ExecutionAssumption
        <5>4. r.waited /\ p = r.client
          BY <1>1, <2>4, <5>3 DEF CalmOf, TurnOf
        <5>5. proc'[p].pc = pc /\ pc # "idle"
          BY <1>1, <5>1, <5>2, <5>4, AnswerReaches, ExecutionAssumption
        <5>6. CASE Write(r)
          <6>1. r.op \in {"start", "fail", "result"}
            BY <1>1, <5>6 DEF Write
          <6>2. r.op = "start" /\ pc = "running"
            BY <5>1, <5>5, <5>6, <6>1 DEF AfterOK, AfterError
          <6>3. row'[e].status = "IN_PROGRESS"
            BY <2>2, <2>4, <5>6, <6>2
          <6>4. QED
            BY <5>5, <6>2, <6>3 DEF StatusAt, Open
        <5>7. CASE ~Write(r)
          <6>1. pc \in {AfterError(r.op), AfterLoss(r.op)}
            BY <5>1, <5>7
          <6>2. r.op \in {"start", "stale", "result"} /\ pc \in {"running", "raised"}
            BY <1>1, <5>5, <6>1 DEF AfterError, AfterLoss
          <6>3. row[e].status \in Open
            BY <1>1, <2>4, <6>2 DEF CalmOf, StageOf, StatusAt, Open
          <6>4. QED
            BY <2>2, <4>3, <5>5, <5>7, <6>2, <6>3 DEF StatusAt
        <5>8. QED
          BY <5>6, <5>7
      <4>4. QED
        BY <1>6, <4>1, <4>2, <4>3
    <3>3. QED
      BY <1>1, <1>2, <2>1, <2>2, <2>4, <3>1, <3>2, CalmAnswered
  <2>5. QED
    BY <2>3, <2>4
<1>7. QED
  BY <1>3, <1>5, <1>6 DEF Backend

\* What a theorem about calm executions assumes: no client of the heartbeat
\* endpoint, one delivery of a message, and no answer that comes too late.
Calm ==
    /\ ~HeartbeatClient
    /\ "redeliver" \notin FaultKinds
    /\ "timeout" \notin FaultKinds

LEMMA CalmInit == Init => CalmInv
BY ExecutionAssumption
   DEF Init, NoRow, Idle, CalmInv, CalmOf, TurnOf, StageOf, Terminal, Waiting

LEMMA CalmStep ==
    ASSUME Calm
    PROVE  Basis /\ CalmInv /\ [Next]_vars => CalmInv'
<1> SUFFICES ASSUME Basis, CalmInv, [Next]_vars, NEW e \in Execution
             PROVE  CalmOf(e)'
  BY DEF CalmInv
<1>1. CalmOf(e)
  BY DEF CalmInv
<1>2. CASE UNCHANGED vars
  BY <1>1, <1>2 DEF vars, CalmOf, TurnOf, StageOf, Waiting, Launched
<1>3. CASE Next
  <2>1. CASE \E f \in Execution : \/ RunTask(f) \/ SendTask(f) \/ BeatFires(f)
                                  \/ SendTaskFails(f) \/ FallQuiet(f)
    BY <1>1, <1>3, <2>1, CalmLaunch
  <2>2. CASE \E p \in Process : Worker(p) \/ Crash(p) \/ Terminate(p) \/ Heartbeat(p)
    BY <1>1, <2>2, CalmDeliver, CalmProcess, CalmStop DEF Calm, Worker, Heartbeat
  <2>3. CASE \E r \in http : Backend(r) \/ DatabaseError(r) \/ Lose(r) \/ TimeOut(r)
    BY <1>3, <2>3, CalmBackend DEF Calm
  <2>4. QED
    BY <1>3, <2>1, <2>2, <2>3 DEF Next, Environment
<1>4. QED
  BY <1>2, <1>3

\* What the proofs rest on, in every reachable state.
LEMMA BasisAlways ==
    ASSUME ~HeartbeatClient, "redeliver" \notin FaultKinds
    PROVE  Spec => []Basis
<1>1. Init => Basis
  BY ExchangeInit, HolderInit, RowInit, NoHeartbeatInit DEF Basis
<1>2. Basis /\ [Next]_vars => Basis'
  BY ExchangeStep, HolderStep, RowStep, NoHeartbeatStep DEF Basis
<1>3. QED
  BY <1>1, <1>2, PTL DEF Spec

LEMMA CalmAlways ==
    ASSUME Calm
    PROVE  Spec => [](Basis /\ CalmInv)
<1>1. Spec => []Basis
  BY BasisAlways DEF Calm
<1>2. QED
  BY <1>1, CalmInit, CalmStep, PTL DEF Spec

\* While no client gives up on an answer, no message is delivered twice and
\* nobody sends heartbeats, finished_at goes with a terminal status whatever
\* crashes, is refused or is lost: no IN_PROGRESS reopens an execution.
THEOREM FinishedIsTerminalAlways ==
    ASSUME Calm
    PROVE  Spec => []FinishedIsTerminal
<1>1. CalmInv => FinishedIsTerminal
  BY DEF CalmInv, CalmOf, StageOf, FinishedIsTerminal
<1>2. QED
  BY <1>1, CalmAlways, PTL

\* If moreover the database and the connections hold, every result that the
\* backend answers leaves a terminal row, also when its handler raises.
THEOREM ResultIsRecordedAlways ==
    ASSUME Calm, "dberror" \notin FaultKinds, "reset" \notin FaultKinds
    PROVE  Spec => ResultIsRecorded
<1> DEFINE Recorded == \A e \in Execution :
               ResultInFlight(e) /\ ~ResultInFlight(e)' => row'[e].status \in Terminal
<1>1. Basis /\ CalmInv /\ [Next]_vars => [Recorded]_vars
  <2> SUFFICES ASSUME Basis, CalmInv, Next, NEW e \in Execution,
                      ResultInFlight(e), ~ResultInFlight(e)'
               PROVE  row'[e].status \in Terminal
    OBVIOUS
  <2>1. PICK r \in http : r.op = "result" /\ r.id = e
    BY DEF ResultInFlight
  <2>2. ~ \E s \in http' : s.op = "result" /\ s.id = e
    BY DEF ResultInFlight
  <2>3. ExchangeInv /\ NoHeartbeatInv /\ CalmOf(e)
    BY DEF Basis, CalmInv
  <2>4. CASE \E f \in Execution : \/ RunTask(f) \/ SendTask(f) \/ BeatFires(f)
                                  \/ SendTaskFails(f) \/ FallQuiet(f)
    BY <2>1, <2>2, <2>4 DEF RunTask, SendTask, BeatFires, SendTaskFails, FallQuiet
  <2>5. CASE \E p \in Process : Worker(p) \/ Heartbeat(p)
    BY <2>1, <2>2, <2>5
       DEF Worker, Deliver, AnnounceStart, HandlerReturns, HandlerRaises, ListStale, Revoke,
           ReportFailure, Send, Heartbeat
  <2>6. CASE \E p \in Process : Crash(p) \/ Terminate(p)
    <3>1. r \in Request
      BY <2>3 DEF ExchangeInv, TypeOK
    <3>2. r \in http' \/ Orphan(r) \in http'
      BY <2>6 DEF Crash, Terminate, Stop
    <3>3. QED
      BY <2>1, <2>2, <3>1, <3>2, OrphanType
  <2>7. ASSUME NEW q \in http, Backend(q) \/ DatabaseError(q) \/ Lose(q) \/ TimeOut(q)
        PROVE  row'[e].status \in Terminal
    <3>1. ~DatabaseError(q) /\ ~Lose(q) /\ ~TimeOut(q)
      BY DEF Calm, DatabaseError, Lose, TimeOut, Fault
    <3>2. CASE Read(q) \/ DispatchResult(q) \/ ResultHandlerRaises(q)
      <4>1. PICK s \in Request : Replace(q, s) /\ s.op = q.op /\ s.id = q.id
        BY <2>3, <3>2, ReplacedBy
      <4>2. QED
        BY <2>1, <2>2, <4>1 DEF Replace
    <3>3. CASE Claim(q) \/ ServeStale(q)
      BY <2>1, <2>2, <3>3 DEF Claim, ServeStale, Answer
    <3>4. CASE Write(q)
      <4>1. http' = http \ {q}
        BY <3>4 DEF Write, Answer
      <4>2. q = r
        BY <2>1, <2>2, <4>1
      <4>3. QED
        BY <2>1, <2>3, <3>4, <4>2, WriteTakesEffect
    <3>5. QED
      BY <2>7, <3>1, <3>2, <3>3, <3>4 DEF Backend
  <2>8. QED
    BY <2>4, <2>5, <2>6, <2>7 DEF Next, Environment
<1>2. QED
  BY <1>1, CalmAlways, PTL DEF Spec, ResultIsRecorded

----------------------------------------------------------------------------
(* The pipeline implements the life cycle. *)

\* Only a process that has reported its failure, or is going to, has failed.
LEMMA FailureInit == Init => FailureInv
BY DEF Init, Idle, FailureInv

\* A process that fails has not had a result handled, and a handled result is
\* not followed by a failure.
LEMMA FailureStep ==
    ASSUME Calm, "reset" \notin FaultKinds
    PROVE  Basis /\ CalmInv /\ RightInv /\ FailureInv /\ [Next]_vars => FailureInv'
<1> SUFFICES ASSUME Basis, CalmInv, RightInv, FailureInv, [Next]_vars
             PROVE  FailureInv'
  OBVIOUS
<1>1. ExchangeInv /\ NoHeartbeatInv /\ proc \in [Process -> PoolProcess]
  BY DEF Basis, ExchangeInv, TypeOK
<1>2. CASE UNCHANGED vars
  BY <1>2 DEF vars, FailureInv
<1>3. CASE \E f \in Execution : \/ RunTask(f) \/ SendTask(f) \/ BeatFires(f)
                                \/ SendTaskFails(f) \/ FallQuiet(f)
  BY <1>3 DEF RunTask, SendTask, BeatFires, SendTaskFails, FallQuiet, FailureInv
<1>4. ASSUME NEW p \in Process, NEW f \in Execution, Deliver(p, f)
      PROVE  FailureInv'
  <2>1. applied' = applied
    BY <1>4 DEF Deliver
  <2>2. /\ \A q \in Process \ {p} : proc'[q] = proc[q]
        /\ proc'[p].pc \in {"claiming", "accepted"}
    BY <1>1, <1>4 DEF Deliver, Idle
  <2>3. \A s \in http' : s \in http \/ (s.op = "claim" /\ s.handled = "no")
    BY <1>4 DEF Deliver, NewRequest
  <2>4. QED
    BY <2>1, <2>2, <2>3 DEF FailureInv
<1>5. ASSUME NEW p \in Process,
             \/ AnnounceStart(p) \/ HandlerReturns(p) \/ HandlerRaises(p)
             \/ ListStale(p) \/ Revoke(p) \/ ReportFailure(p)
      PROVE  FailureInv'
  <2>1. applied' = applied /\ proc[p] \in PoolProcess
    BY <1>1, <1>5 DEF AnnounceStart, HandlerReturns, HandlerRaises, ListStale, Revoke,
                      ReportFailure
  <2>2. /\ WaitsAt["start"] = "starting" /\ WaitsAt["result"] = "reporting"
        /\ WaitsAt["stale"] = "listing" /\ WaitsAt["fail"] = "failing"
    BY DEF WaitsAt
  <2>3. HandlerRaises(p) \/ ReportFailure(p) => applied[proc[p].id] = 0
    <3>1. CASE HandlerRaises(p)
      <4>1. proc[p].id \in Execution /\ Executes(p, proc[p].id)
        BY <1>1, <2>1, <3>1 DEF HandlerRaises, Executes, Executing, ExchangeInv, IdleIsFree,
                                PoolProcess
      <4>2. QED
        BY <4>1 DEF RightInv, RightOf, InWork
    <3>2. CASE ReportFailure(p)
      BY <3>2 DEF ReportFailure, FailureInv
    <3>3. QED
      BY <3>1, <3>2
  <2>4. PICK pc \in {"starting", "reporting", "listing", "raised", "failing"} :
          /\ proc' = [proc EXCEPT ![p] = [proc[p] EXCEPT !.pc = pc]]
          /\ pc \in {"raised", "failing"} => HandlerRaises(p) \/ ReportFailure(p)
    BY <1>5 DEF AnnounceStart, HandlerReturns, HandlerRaises, ListStale, Revoke,
                ReportFailure, Send, At
  <2>5. /\ \A q \in Process \ {p} : proc'[q] = proc[q]
        /\ proc'[p].id = proc[p].id /\ proc'[p].pc = pc
    BY <1>1, <2>1, <2>4 DEF PoolProcess
  <2>6. \A q \in Process : proc'[q].pc \in {"raised", "failing"} => applied[proc'[q].id] = 0
    BY <2>3, <2>4, <2>5 DEF FailureInv
  <2>7. \A s \in http' : \/ s \in http
                         \/ /\ s.handled = "no" /\ s.id = proc[p].id
                            /\ s.op = "fail" => ReportFailure(p)
    BY <1>5 DEF AnnounceStart, HandlerReturns, HandlerRaises, ListStale, Revoke,
                ReportFailure, Send, NewRequest
  <2>8. QED
    BY <2>1, <2>3, <2>6, <2>7 DEF FailureInv
<1>6. ASSUME NEW p \in Process, Crash(p) \/ Terminate(p)
      PROVE  FailureInv'
  <2>1. /\ applied' = applied /\ proc' = [proc EXCEPT ![p] = Idle]
        /\ http' = {IF r.client = p THEN Orphan(r) ELSE r : r \in http}
    BY <1>6 DEF Crash, Terminate, Stop
  <2>2. \A r \in http : /\ Orphan(r).id = r.id /\ Orphan(r).op = r.op
                        /\ Orphan(r).handled = r.handled
    BY <1>1, OrphanType DEF ExchangeInv, TypeOK
  <2>3. QED
    BY <1>1, <2>1, <2>2 DEF FailureInv, Idle
<1>7. ASSUME NEW r \in http, Backend(r) \/ DatabaseError(r) \/ Lose(r) \/ TimeOut(r)
      PROVE  FailureInv'
  <2>1. /\ r \in Request /\ r.id \in Execution /\ r.client \in Process
        /\ r.op \in {"claim", "start", "fail", "result", "stale"}
        /\ CalmOf(r.id)
    BY <1>1 DEF NoHeartbeatInv, ExchangeInv, TypeOK, Request, CalmInv
  <2>2. ~TimeOut(r) /\ ~Lose(r)
    BY DEF Calm, TimeOut, Lose, Fault
  <2>3. CASE DispatchResult(r)
    <3>1. PICK s \in Request : Replace(r, s) /\ s.op = r.op /\ s.id = r.id
      BY <1>1, <2>3, ReplacedBy
    <3>2. PICK v : Replace(r, [r EXCEPT !.handled = "ok", !.seen = v])
      BY <2>3 DEF DispatchResult
    <3>3. /\ [r EXCEPT !.handled = "ok", !.seen = v].handled = "ok"
          /\ [r EXCEPT !.handled = "ok", !.seen = v].op = "result"
          /\ [r EXCEPT !.handled = "ok", !.seen = v].id = r.id
      BY <2>1, <2>3 DEF DispatchResult, Request
    <3>4. /\ proc' = proc
          /\ \A e \in Execution \ {r.id} : applied'[e] = applied[e]
      BY <1>1, <2>1, <2>3 DEF DispatchResult, ExchangeInv, TypeOK
    <3>5. \A p \in Process : proc[p].id = r.id => proc[p].pc = "reporting"
      BY <1>1, <2>1, <2>3 DEF DispatchResult, CalmOf, TurnOf, ExchangeInv, Matched, WaitsAt
    <3>6. \A p \in Process : proc[p].pc \in {"raised", "failing"} => proc[p].id \in Execution
      BY <1>1 DEF ExchangeInv, IdleIsFree, PoolProcess
    <3>7. \A t \in http : t.id \in Execution /\ (t.id = r.id => t = r)
      BY <1>1, <2>1 DEF CalmOf, TurnOf, ExchangeInv, TypeOK, Request
    <3>8. \A t \in http' : \/ t \in http /\ t.id # r.id
                           \/ t.op = "result" /\ t.handled = "ok"
      BY <3>2, <3>3, <3>7 DEF Replace
    <3>9. QED
      BY <3>4, <3>5, <3>6, <3>7, <3>8 DEF FailureInv
  <2>4. CASE Read(r) \/ ResultHandlerRaises(r)
    <3>1. applied' = applied /\ proc' = proc
      BY <2>4 DEF Read, ResultHandlerRaises
    <3>2. PICK s : /\ Replace(r, s) /\ s.op = r.op /\ s.id = r.id
                   /\ s.handled = r.handled \/ ResultHandlerRaises(r)
      BY <2>1, <2>4 DEF Read, ResultHandlerRaises, Request
    <3>3. ResultHandlerRaises(r) => applied[r.id] = 0
      <4>1. ResultHandlerRaises(r) => Unhandled(r, r.id)
        BY DEF ResultHandlerRaises, Unhandled
      <4>2. QED
        BY <2>1, <4>1 DEF RightInv, RightOf, InResult
    <3>4. s.op = "fail" \/ s.handled = "error" => applied[s.id] = 0
      BY <3>2, <3>3 DEF FailureInv
    <3>5. QED
      BY <3>1, <3>2, <3>4 DEF FailureInv, Replace
  <2>5. CASE Claim(r) \/ Write(r) \/ ServeStale(r) \/ DatabaseError(r)
    <3>1. http' = http \ {r} /\ applied' = applied
      BY <2>5 DEF Claim, Write, ServeStale, DatabaseError, Answer
    <3>2. \A p \in Process : proc'[p].pc \in {"raised", "failing"} => applied[proc'[p].id] = 0
      <4> SUFFICES ASSUME NEW p \in Process, proc'[p].pc \in {"raised", "failing"}
                   PROVE  applied[proc'[p].id] = 0
        OBVIOUS
      <4>1. CASE ServeStale(r)
        BY <1>1, <2>1, <4>1 DEF ServeStale, AfterOK, PoolProcess, FailureInv
      <4>2. CASE ~ServeStale(r)
        <5>1. PICK pc \in {AfterOK(r.op), AfterError(r.op)} : Answer(r, pc)
          BY <2>5, <4>2 DEF Claim, Write, DatabaseError
        <5>2. pc \in Busy \cup {"idle"}
          BY <2>1, AfterType
        <5>3. CASE r.waited /\ p = r.client
          <6>1. proc'[p] = At(p, pc)
            BY <1>1, <2>1, <5>1, <5>3 DEF Answer
          <6>2. pc = "raised" /\ proc'[p].id = proc[p].id
            BY <1>1, <2>1, <6>1 DEF At, Idle, AfterOK, AfterError, PoolProcess
          <6>3. r.op = "stale"
            BY <2>1, <5>1, <6>2 DEF AfterOK, AfterError
          <6>4. proc[p].pc = "listing" /\ proc[p].id = r.id
            BY <1>1, <5>3, <6>3 DEF ExchangeInv, Matched, WaitsAt
          <6>5. InWork(r.id)
            BY <6>4 DEF InWork, Executes, Executing
          <6>6. QED
            BY <2>1, <6>2, <6>4, <6>5 DEF RightInv, RightOf
        <5>4. CASE ~(r.waited /\ p = r.client)
          BY <1>1, <2>1, <5>1, <5>4 DEF Answer, FailureInv
        <5>5. QED
          BY <5>3, <5>4
      <4>3. QED
        BY <4>1, <4>2
    <3>3. QED
      BY <3>1, <3>2 DEF FailureInv
  <2>6. QED
    BY <1>7, <2>2, <2>3, <2>4, <2>5 DEF Backend
<1>8. QED
  BY <1>2, <1>3, <1>4, <1>5, <1>6, <1>7 DEF Next, Worker, Environment, Heartbeat, Calm

\* What a reader of the life cycle sees.
StatusSeen  == [e \in Execution |-> row[e].status]
HandledSeen == {e \in Execution : applied[e] > 0}

\* The invariants the simulation uses.
LifecycleInv == Basis /\ CalmInv /\ HandledInv /\ RightInv /\ FailureInv

LEMMA LifecycleInit == Init => Lifecycle!Init
BY DEF Init, NoRow, Lifecycle!Init

\* A step that writes one status is seen as that.
LEMMA StatusWritten ==
    ASSUME NEW e \in Execution, NEW v, row'[e].status = v,
           \A f \in Execution \ {e} : row'[f].status = row[f].status
    PROVE  StatusSeen' = [StatusSeen EXCEPT ![e] = v]
BY DEF StatusSeen

\* What changes neither a status nor a counter is not seen.
LEMMA Unseen ==
    ASSUME \A e \in Execution : row'[e].status = row[e].status, applied' = applied
    PROVE  StatusSeen' = StatusSeen /\ HandledSeen' = HandledSeen
BY DEF StatusSeen, HandledSeen

\* A launch and a claim create.
LEMMA CreateSeen ==
    ASSUME NEW e \in Execution, row[e].status = "ABSENT", row'[e].status = "PENDING",
           \A f \in Execution \ {e} : row'[f].status = row[f].status,
           applied' = applied
    PROVE  Lifecycle!Create(e)
<1>1. StatusSeen' = [StatusSeen EXCEPT ![e] = "PENDING"]
  BY StatusWritten
<1>2. HandledSeen' = HandledSeen /\ StatusSeen[e] = "ABSENT"
  BY DEF StatusSeen, HandledSeen
<1>3. QED
  BY <1>1, <1>2 DEF StatusSeen, HandledSeen, Lifecycle!Create

\* The commit of a request begins, succeeds or fails.
LEMMA WriteSeen ==
    ASSUME LifecycleInv, NEW r \in http, Write(r)
    PROVE  \E e \in Execution : Lifecycle!Begin(e) \/ Lifecycle!Succeed(e) \/ Lifecycle!Fail(e)
<1> DEFINE e == r.id
<1>1. /\ r \in Request /\ e \in Execution /\ applied[e] \in Nat
      /\ ExchangeInv /\ NoHeartbeatInv /\ CalmOf(e)
  BY DEF LifecycleInv, Basis, CalmInv, ExchangeInv, TypeOK, Request
<1>2. /\ row'[e].status = Target(r)
      /\ r.op = "start" => Target(r) = "IN_PROGRESS" /\ row[e].status = "PENDING"
      /\ r.op # "start" => Target(r) \in Terminal /\ row[e].status \in Open
      /\ \A f \in Execution \ {e} : row'[f].status = row[f].status
  BY <1>1, WriteTakesEffect
<1>3. StatusSeen' = [StatusSeen EXCEPT ![e] = Target(r)]
  BY <1>1, <1>2, StatusWritten
<1>4. applied' = applied
  BY DEF Write
<1>5. HandledSeen' = HandledSeen
  BY <1>4 DEF HandledSeen
<1>6. CASE r.op = "start"
  <2>1. Lifecycle!Begin(e)
    BY <1>1, <1>2, <1>3, <1>5, <1>6 DEF StatusSeen, HandledSeen, Lifecycle!Begin
  <2>2. QED
    BY <1>1, <2>1
<1>7. CASE r.op = "result" /\ r.handled = "ok"
  <2>1. Target(r) = "SUCCESS" /\ applied[e] > 0
    BY <1>7 DEF Target, LifecycleInv, HandledInv
  <2>2. Lifecycle!Succeed(e)
    BY <1>1, <1>2, <1>3, <1>5, <1>7, <2>1 DEF StatusSeen, HandledSeen, Open, Lifecycle!Succeed
  <2>3. QED
    BY <1>1, <2>2
<1>8. CASE r.op # "start" /\ ~(r.op = "result" /\ r.handled = "ok")
  <2>1. r.op = "fail" \/ r.handled = "error"
    BY <1>1, <1>8 DEF Write, NoHeartbeatInv, Request
  <2>2. applied[e] = 0
    BY <2>1 DEF LifecycleInv, FailureInv
  <2>3. Target(r) = "FAILURE"
    BY <1>1, <1>8 DEF Target, NoHeartbeatInv
  <2>4. Lifecycle!Fail(e)
    BY <1>1, <1>2, <1>3, <1>5, <1>8, <2>2, <2>3
       DEF StatusSeen, HandledSeen, Open, Lifecycle!Fail
  <2>5. QED
    BY <1>1, <2>4
<1>9. QED
  BY <1>6, <1>7, <1>8

\* The return of a result handler is seen as the handling.
LEMMA HandleSeen ==
    ASSUME LifecycleInv, NEW r \in http, DispatchResult(r)
    PROVE  \E e \in Execution : Lifecycle!HandleResult(e)
<1> DEFINE e == r.id
<1>1. /\ r \in Request /\ e \in Execution /\ applied \in [Execution -> Nat]
      /\ ExchangeInv /\ NoHeartbeatInv /\ CalmOf(e)
  BY DEF LifecycleInv, Basis, CalmInv, ExchangeInv, TypeOK, Request
<1>2. row' = row /\ applied' = [applied EXCEPT ![e] = @ + 1]
  BY <1>1, NothingFails DEF DispatchResult
<1>3. StatusSeen' = StatusSeen
  BY <1>2 DEF StatusSeen
<1>4. InResult(e)
  BY DEF DispatchResult, InResult, Unhandled
<1>5. applied[e] = 0
  BY <1>1, <1>4 DEF LifecycleInv, RightInv, RightOf
<1>6. HandledSeen' = HandledSeen \cup {e}
  BY <1>1, <1>2, <1>5 DEF HandledSeen
<1>7. row[e].status \in Open
  BY <1>1 DEF DispatchResult, CalmOf, StageOf, StatusAt
<1>8. Lifecycle!HandleResult(e)
  BY <1>1, <1>3, <1>5, <1>6, <1>7 DEF StatusSeen, HandledSeen, Open, Lifecycle!HandleResult
<1>9. QED
  BY <1>1, <1>8

\* Every step is a step of the life cycle, or is not seen.
LEMMA LifecycleStep ==
    ASSUME Calm
    PROVE  LifecycleInv /\ [Next]_vars => [Lifecycle!Next]_<<StatusSeen, HandledSeen>>
<1> SUFFICES ASSUME LifecycleInv, [Next]_vars
             PROVE  Lifecycle!Next \/ UNCHANGED <<StatusSeen, HandledSeen>>
  OBVIOUS
<1>1. /\ ExchangeInv /\ NoHeartbeatInv /\ row \in [Execution -> Row]
      /\ \A r \in http : r.id \in Execution /\ CalmOf(r.id)
  BY DEF LifecycleInv, Basis, CalmInv, ExchangeInv, TypeOK, Request
<1>2. CASE UNCHANGED vars
  BY <1>2, Unseen DEF vars
<1>3. ASSUME NEW e \in Execution, RunTask(e)
      PROVE  Lifecycle!Next
  <2>1. /\ row[e].status = "ABSENT" /\ row'[e].status = "PENDING" /\ applied' = applied
        /\ \A f \in Execution \ {e} : row'[f].status = row[f].status
    BY <1>1, <1>3 DEF RunTask, Row
  <2>2. QED
    BY <2>1, CreateSeen DEF Lifecycle!Next
<1>4. ASSUME NEW e \in Execution,
             SendTask(e) \/ SendTaskFails(e) \/ BeatFires(e) \/ FallQuiet(e)
      PROVE  UNCHANGED <<StatusSeen, HandledSeen>>
  <2>1. applied' = applied /\ \A f \in Execution : row'[f].status = row[f].status
    BY <1>1, <1>4 DEF SendTask, SendTaskFails, BeatFires, FallQuiet, Row
  <2>2. QED
    BY <2>1, Unseen
<1>5. ASSUME NEW p \in Process, Worker(p) \/ Crash(p) \/ Terminate(p) \/ Heartbeat(p)
      PROVE  UNCHANGED <<StatusSeen, HandledSeen>>
  <2>1. row' = row /\ applied' = applied
    BY <1>5 DEF Worker, Deliver, AnnounceStart, HandlerReturns, HandlerRaises, ListStale,
                Revoke, ReportFailure, Crash, Terminate, Heartbeat
  <2>2. QED
    BY <2>1, Unseen
<1>6. ASSUME NEW r \in http, Claim(r)
      PROVE  Lifecycle!Next
  <2>1. row[r.id].status = "ABSENT"
    BY <1>1, <1>6 DEF Claim, CalmOf, StageOf, StatusAt
  <2>2. /\ row'[r.id].status = "PENDING" /\ applied' = applied
        /\ \A f \in Execution \ {r.id} : row'[f].status = row[f].status
    BY <1>1, <1>6 DEF Claim, Row
  <2>3. QED
    BY <1>1, <2>1, <2>2, CreateSeen DEF Lifecycle!Next
<1>7. ASSUME NEW r \in http, Write(r)
      PROVE  Lifecycle!Next
  BY <1>7, WriteSeen DEF Lifecycle!Next
<1>8. ASSUME NEW r \in http, DispatchResult(r)
      PROVE  Lifecycle!Next
  BY <1>8, HandleSeen DEF Lifecycle!Next
<1>9. ASSUME NEW r \in http,
             \/ Read(r) \/ ResultHandlerRaises(r) \/ ServeStale(r)
             \/ DatabaseError(r) \/ Lose(r) \/ TimeOut(r)
      PROVE  UNCHANGED <<StatusSeen, HandledSeen>>
  <2>1. row' = row /\ applied' = applied
    BY <1>9 DEF Read, ResultHandlerRaises, ServeStale, DatabaseError, Lose, TimeOut
  <2>2. QED
    BY <2>1, Unseen
<1>10. QED
  BY <1>2, <1>3, <1>4, <1>5, <1>6, <1>7, <1>8, <1>9 DEF Next, Backend, Environment

\* While no client gives up on an answer, none is lost, no message is delivered
\* twice and nobody sends heartbeats, the pipeline implements the life cycle
\* that a reader of the status expects, whatever processes crash, statements
\* are refused, launches do not reach the broker or result handlers raise.
THEOREM LifecycleImplemented ==
    ASSUME Calm, "reset" \notin FaultKinds
    PROVE  Spec => ImplementsLifecycle
<1>1. Init => HandledInv /\ RightInv /\ FailureInv
  <2>1. Init => HandledInv
    BY DEF Init, NoRow, HandledInv
  <2>2. Init => RightInv
    BY DEF Init, Idle, RightInv, RightOf, Waiting, InWork, InResult, Executes, Executing
  <2>3. QED
    BY <2>1, <2>2, FailureInit
<1>2. Basis /\ CalmInv /\ HandledInv /\ RightInv /\ FailureInv /\ [Next]_vars
        => HandledInv' /\ RightInv' /\ FailureInv'
  BY HandledStep, RightStep, FailureStep DEF Calm, Basis
<1>3. Spec => []LifecycleInv
  BY <1>1, <1>2, CalmAlways, PTL DEF Spec, LifecycleInv
<1>4. LifecycleInv /\ [Next]_vars => [Lifecycle!Next]_<<StatusSeen, HandledSeen>>
  BY LifecycleStep
<1>5. QED
  BY <1>3, <1>4, LifecycleInit, PTL
     DEF Spec, ImplementsLifecycle, Lifecycle!Spec, StatusSeen, HandledSeen

----------------------------------------------------------------------------
(* Status and result belong together, whatever comes too late. *)

\* A step that brings no new report on e, and leaves what the row says of it
\* or opens the row, keeps the outcome.
LEMMA OutcomeKept ==
    ASSUME ExchangeInv, NEW e \in Execution, ReportOf(e), OutcomeOf(e),
           Launched(e) => Launched(e)',
           Waiting(e)' => Waiting(e), InWork(e)' => InWork(e),
           \A p \in Process : proc'[p].id = e =>
              /\ proc[p].id = e
              /\ proc[p].pc = "failing" /\ Failures(e) # {} => proc'[p].pc = "failing",
           \A s \in http' : s.id = e => Launched(e),
           \A s \in http' : s.id = e /\ s.op \in {"result", "fail"} =>
              \E r \in http :
                 /\ r.id = e /\ r.op = s.op /\ r.client = s.client
                 /\ s.seen \in {"unread", r.seen, row[e].status}
                 /\ s.op = "fail" /\ r.waited => s.waited \/ proc'[r.client].id # e,
           \A s, t \in http' : s.id = e /\ t.id = e /\ s.op = t.op
              /\ s.op \in {"result", "fail"} => s = t,
           \/ row'[e].status = row[e].status /\ row'[e].result = row[e].result
           \/ row'[e].status \in Open /\ Launched(e)
    PROVE  ReportOf(e)' /\ OutcomeOf(e)'
<1>1. /\ Results(e)' # {} => Results(e) # {}
      /\ Failures(e)' # {} => Failures(e) # {}
  BY DEF Results, Failures
<1>2. /\ \A s, t \in Results(e)' : s = t
      /\ \A s, t \in Failures(e)' : s = t
  BY DEF Results, Failures
<1>3. \A p \in Process, s \in Failures(e)' :
        proc'[p].id = e => proc'[p].pc = "failing" /\ s.waited /\ s.client = p
  <2> SUFFICES ASSUME NEW p \in Process, NEW s \in Failures(e)', proc'[p].id = e
               PROVE  proc'[p].pc = "failing" /\ s.waited /\ s.client = p
    OBVIOUS
  <2>1. PICK r \in Failures(e) : r.client = s.client /\ (r.waited => s.waited \/ proc'[r.client].id # e)
    BY DEF Failures
  <2>2. proc[p].pc = "failing" /\ r.waited /\ r.client = p
    BY <2>1 DEF ReportOf
  <2>3. QED
    BY <2>1, <2>2
<1>4. ~Launched(e)' => row'[e].status = "ABSENT" /\ \A s \in http' : s.id # e
  BY DEF ReportOf
<1>5. ReportOf(e)'
  <2>1. Waiting(e)' \/ InWork(e)' =>
          Results(e)' \cup Failures(e)' = {} /\ row'[e].status \notin Terminal
    BY <1>1 DEF ReportOf, Open, Terminal
  <2>2. QED
    BY <1>2, <1>3, <1>4, <2>1 DEF ReportOf
<1>6. OutcomeOf(e)'
  <2>1. /\ row'[e].status = "SUCCESS" => row'[e].result = "processed"
        /\ row'[e].status = "FAILURE" => row'[e].result \notin {"none", "processed"}
        /\ Results(e)' # {} => row'[e].status # "SUCCESS"
        /\ (\E p \in Process : proc'[p].id = e) \/ Failures(e)' # {} =>
              row'[e].status # "FAILURE" \/ Results(e)' = {}
    BY <1>1 DEF OutcomeOf, Open
  <2>2. \A s \in Results(e)' : s.seen # "SUCCESS"
    BY DEF OutcomeOf, Results
  <2>3. \A s \in Failures(e)' :
          s.seen = "FAILURE" => Results(e)' = {} /\ row'[e].status # "SUCCESS"
    <3> SUFFICES ASSUME NEW s \in Failures(e)', s.seen = "FAILURE"
                 PROVE  Results(e)' = {} /\ row'[e].status # "SUCCESS"
      OBVIOUS
    <3>1. PICK r \in Failures(e) : s.seen \in {"unread", r.seen, row[e].status}
      BY DEF Failures
    <3>2. Results(e) = {} /\ row[e].status # "SUCCESS"
      BY <3>1 DEF OutcomeOf
    <3>3. QED
      BY <1>1, <3>2 DEF Open
  <2>4. QED
    BY <2>1, <2>2, <2>3 DEF OutcomeOf
<1>7. QED
  BY <1>5, <1>6

\* A launch finds no report.
LEMMA OutcomeLaunch ==
    ASSUME Basis, Next, NEW e \in Execution, ReportOf(e), OutcomeOf(e), NEW f \in Execution,
           RunTask(f) \/ SendTask(f) \/ SendTaskFails(f) \/ BeatFires(f) \/ FallQuiet(f)
    PROVE  ReportOf(e)' /\ OutcomeOf(e)'
<1>1. proc' = proc /\ http' = http /\ ExchangeInv
  BY DEF RunTask, SendTask, SendTaskFails, BeatFires, FallQuiet, Basis
<1>2. row \in [Execution -> Row] /\ row[f] \in Row /\ row[e] \in Row
  BY <1>1 DEF ExchangeInv, TypeOK
<1>3. InWork(e)' = InWork(e)
  BY <1>1 DEF InWork, Executes
<1>4. \/ row'[e].status = row[e].status /\ row'[e].result = row[e].result
      \/ row'[e].status = "PENDING" /\ row[e].status = "ABSENT"
  BY <1>2 DEF RunTask, SendTask, SendTaskFails, BeatFires, FallQuiet, Row
<1>5. Launched(e) => Launched(e)'
  BY <1>1, LaunchedForEver
<1>6. CASE Launched(e)
  <2>1. Waiting(e)' => Waiting(e)
    BY <1>6 DEF RunTask, SendTask, SendTaskFails, BeatFires, FallQuiet, Waiting, Launched
  <2>2. \A s, t \in http' : s.id = e /\ t.id = e /\ s.op = t.op
           /\ s.op \in {"result", "fail"} => s = t
    BY <1>1 DEF ReportOf, Results, Failures
  <2>3. \A s \in http' : s.id = e /\ s.op \in {"result", "fail"} =>
          \E r \in http :
             /\ r.id = e /\ r.op = s.op /\ r.client = s.client
             /\ s.seen \in {"unread", r.seen, row[e].status}
             /\ s.op = "fail" /\ r.waited => s.waited \/ proc'[r.client].id # e
    BY <1>1
  <2>4. QED
    BY <1>1, <1>3, <1>4, <1>5, <1>6, <2>1, <2>2, <2>3, OutcomeKept DEF Open
<1>7. CASE ~Launched(e)
  <2>1. /\ row[e].status = "ABSENT" /\ \A r \in http : r.id # e
        /\ \A p \in Process : proc[p].id # e
    BY <1>7 DEF ReportOf, Basis, HolderInv
  <2>2. Results(e)' = {} /\ Failures(e)' = {} /\ ~InWork(e)'
    BY <1>1, <2>1 DEF Results, Failures, InWork, Executes
  <2>3. row'[e].status \in {"ABSENT", "PENDING"}
    BY <1>4, <2>1
  <2>4. row'[e].status = "PENDING" => Launched(e)'
    BY <1>2, <1>7, <2>1 DEF RunTask, SendTask, SendTaskFails, BeatFires, FallQuiet, Launched,
                            Row
  <2>5. QED
    BY <1>1, <2>1, <2>2, <2>3, <2>4 DEF ReportOf, OutcomeOf, Terminal
<1>8. QED
  BY <1>6, <1>7

\* A delivery finds no report either.
LEMMA OutcomeDeliver ==
    ASSUME Basis, Next, "redeliver" \notin FaultKinds,
           NEW e \in Execution, ReportOf(e), OutcomeOf(e),
           NEW p \in Process, NEW f \in Execution, Deliver(p, f)
    PROVE  ReportOf(e)' /\ OutcomeOf(e)'
<1>1. /\ f \in queue /\ queue' = queue \ {f} /\ dispatching' = dispatching /\ row' = row
      /\ ExchangeInv
  BY DEF Deliver, Fault, Basis
<1>2. /\ \A q \in Process \ {p} : proc'[q] = proc[q]
      /\ proc'[p].id = f
  BY <1>1 DEF Deliver, Idle, ExchangeInv, TypeOK, PoolProcess
<1>3. \A s \in http' : s \in http \/ (s.op = "claim" /\ s.id = f)
  BY DEF Deliver, NewRequest
<1>4. Launched(e) => Launched(e)'
  BY <1>1, LaunchedForEver
<1>5. Launched(f)
  BY <1>1 DEF Basis, HolderInv, Waiting
<1>6. Results(e)' \subseteq Results(e) /\ Failures(e)' \subseteq Failures(e)
  BY <1>3 DEF Results, Failures
<1>7. CASE e = f
  <2>1. Waiting(e)
    BY <1>1, <1>7 DEF Waiting
  <2>2. Results(e) = {} /\ Failures(e) = {} /\ row[e].status \notin Terminal
    BY <2>1 DEF ReportOf
  <2>3. Launched(e)'
    BY <1>4, <1>5, <1>7
  <2>4. QED
    BY <1>1, <1>6, <2>2, <2>3 DEF ReportOf, OutcomeOf, Terminal
<1>8. CASE e # f
  <2>1. Waiting(e)' => Waiting(e)
    BY <1>1 DEF Waiting
  <2>2. \A q \in Process : proc'[q].id = e => proc'[q] = proc[q]
    BY <1>2, <1>8
  <2>3. InWork(e)' => InWork(e)
    BY <2>2 DEF InWork, Executes
  <2>4. \A s \in http' : s.id = e => s \in http
    BY <1>3, <1>8
  <2>5. \A s \in http' : s.id = e => Launched(e)
    BY <2>4 DEF ReportOf
  <2>6. \A s, t \in http' : s.id = e /\ t.id = e /\ s.op = t.op
           /\ s.op \in {"result", "fail"} => s = t
    BY <2>4 DEF ReportOf, Results, Failures
  <2>7. \A s \in http' : s.id = e /\ s.op \in {"result", "fail"} =>
          \E r \in http :
             /\ r.id = e /\ r.op = s.op /\ r.client = s.client
             /\ s.seen \in {"unread", r.seen, row[e].status}
             /\ s.op = "fail" /\ r.waited => s.waited \/ proc'[r.client].id # e
    BY <2>4
  <2>8. QED
    BY <1>1, <1>4, <2>1, <2>2, <2>3, <2>5, <2>6, <2>7, OutcomeKept
<1>9. QED
  BY <1>7, <1>8

\* A process posts its result on an open row, and its FAILURE once.
LEMMA OutcomeProcess ==
    ASSUME Basis, Next, NEW e \in Execution, ReportOf(e), OutcomeOf(e), NEW p \in Process,
           \/ AnnounceStart(p) \/ HandlerReturns(p) \/ HandlerRaises(p)
           \/ ListStale(p) \/ Revoke(p) \/ ReportFailure(p)
    PROVE  ReportOf(e)' /\ OutcomeOf(e)'
<1>1. /\ UNCHANGED <<row, dispatching, queue, fired>> /\ ExchangeInv
      /\ proc \in [Process -> PoolProcess] /\ proc[p] \in PoolProcess
  BY DEF AnnounceStart, HandlerReturns, HandlerRaises, ListStale, Revoke, ReportFailure,
         Basis, ExchangeInv, TypeOK
<1>2. Launched(e)' = Launched(e) /\ Waiting(e)' = Waiting(e)
  BY <1>1 DEF Launched, Waiting
<1>3. /\ WaitsAt["start"] = "starting" /\ WaitsAt["result"] = "reporting"
      /\ WaitsAt["stale"] = "listing" /\ WaitsAt["fail"] = "failing"
  BY DEF WaitsAt
<1>4. PICK pc \in {"starting", "reporting", "raised", "listing", "failing"} :
        /\ proc' = [proc EXCEPT ![p] = [proc[p] EXCEPT !.pc = pc]]
        /\ pc = "failing" <=> ReportFailure(p)
        /\ pc = "reporting" <=> HandlerReturns(p) \/ Revoke(p)
        /\ pc \in Executing => proc[p].pc \in Executing
  BY <1>3 DEF AnnounceStart, HandlerReturns, HandlerRaises, ListStale, Revoke,
              ReportFailure, Send, At, Executing
<1>5. /\ \A q \in Process \ {p} : proc'[q] = proc[q]
      /\ proc'[p].id = proc[p].id /\ proc'[p].pc = pc
  BY <1>1, <1>4 DEF PoolProcess
<1>6. InWork(e)' => InWork(e)
  BY <1>4, <1>5 DEF InWork, Executes
<1>7. \A s \in http' : s \in http \/ s.id = proc[p].id
  BY DEF AnnounceStart, HandlerReturns, HandlerRaises, ListStale, Revoke, ReportFailure,
         Send, NewRequest
<1>8. \A q \in Process : proc[q].id = e => Launched(e)
  BY DEF Basis, HolderInv
<1>9. \A s \in http' : s.id = e => Launched(e)
  BY <1>7, <1>8 DEF ReportOf
<1>10. proc[p].pc # "failing" /\ proc[p].pc # "idle"
  BY DEF AnnounceStart, HandlerReturns, HandlerRaises, ListStale, Revoke, ReportFailure
<1>11. CASE proc[p].id = e /\ (HandlerReturns(p) \/ Revoke(p))
  <2>1. PICK x : http' = http \cup {NewRequest(p, "result", e, x)}
    BY <1>11 DEF HandlerReturns, Revoke, Send
  <2>2. /\ NewRequest(p, "result", e, x).op = "result"
        /\ NewRequest(p, "result", e, x).seen = "unread"
    BY DEF NewRequest
  <2>3. InWork(e)
    BY <1>11 DEF HandlerReturns, Revoke, InWork, Executes, Executing
  <2>4. Results(e) = {} /\ Failures(e) = {} /\ row[e].status \notin Terminal
    BY <2>3 DEF ReportOf
  <2>5. Failures(e)' = {} /\ \A s \in Results(e)' : s = NewRequest(p, "result", e, x)
    BY <2>1, <2>2, <2>4 DEF Results, Failures
  <2>6. ~Waiting(e)'
    BY <1>2, <1>11 DEF Basis, HolderInv, SingleHolder, Waiting
  <2>7. ~InWork(e)'
    <3>1. \A q \in Process \ {p} : proc[q].id # e
      BY <1>11, ExecutionAssumption DEF Basis, HolderInv, SingleHolder
    <3>2. proc'[p].pc = "reporting"
      BY <1>4, <1>5, <1>11
    <3>3. QED
      BY <1>5, <3>1, <3>2 DEF InWork, Executes, Executing
  <2>8. ReportOf(e)'
    BY <1>2, <1>8, <1>11, <2>5, <2>6, <2>7 DEF ReportOf
  <2>9. OutcomeOf(e)'
    BY <1>1, <2>2, <2>4, <2>5 DEF OutcomeOf, Terminal
  <2>10. QED
    BY <2>8, <2>9
<1>12. CASE proc[p].id = e /\ ReportFailure(p)
  <2>1. http' = http \cup {NewRequest(p, "fail", e, {})}
    BY <1>12 DEF ReportFailure, Send
  <2>2. /\ NewRequest(p, "fail", e, {}).op = "fail" /\ NewRequest(p, "fail", e, {}).waited
        /\ NewRequest(p, "fail", e, {}).client = p
        /\ NewRequest(p, "fail", e, {}).seen = "unread"
    BY DEF NewRequest
  <2>3. Failures(e) = {}
    BY <1>10, <1>12 DEF ReportOf
  <2>4. Results(e)' = Results(e) /\ \A s \in Failures(e)' : s = NewRequest(p, "fail", e, {})
    BY <2>1, <2>2, <2>3 DEF Results, Failures
  <2>5. ~Waiting(e)'
    BY <1>2, <1>12 DEF Basis, HolderInv, SingleHolder, Waiting
  <2>6. \A q \in Process \ {p} : proc[q].id # e
    BY <1>12, ExecutionAssumption DEF Basis, HolderInv, SingleHolder
  <2>7. proc'[p].pc = "failing" /\ ~InWork(e)'
    BY <1>4, <1>5, <1>12, <2>6 DEF InWork, Executes, Executing
  <2>8. ReportOf(e)'
    BY <1>2, <1>5, <1>8, <1>12, <2>2, <2>4, <2>5, <2>6, <2>7 DEF ReportOf
  <2>9. OutcomeOf(e)'
    BY <1>1, <1>12, <2>2, <2>4 DEF OutcomeOf
  <2>10. QED
    BY <2>8, <2>9
<1>13. CASE ~(proc[p].id = e /\ (HandlerReturns(p) \/ Revoke(p) \/ ReportFailure(p)))
  <2>1. \A s \in http' : s.id = e /\ s.op \in {"result", "fail"} => s \in http
    BY <1>13 DEF AnnounceStart, HandlerReturns, HandlerRaises, ListStale, Revoke,
                 ReportFailure, Send, NewRequest
  <2>2. \A s, t \in http' : s.id = e /\ t.id = e /\ s.op = t.op
           /\ s.op \in {"result", "fail"} => s = t
    BY <2>1 DEF ReportOf, Results, Failures
  <2>3. \A q \in Process : proc'[q].id = e =>
           /\ proc[q].id = e
           /\ proc[q].pc = "failing" /\ Failures(e) # {} => proc'[q].pc = "failing"
    BY <1>5, <1>10
  <2>4. \A s \in http' : s.id = e /\ s.op \in {"result", "fail"} =>
          \E r \in http :
             /\ r.id = e /\ r.op = s.op /\ r.client = s.client
             /\ s.seen \in {"unread", r.seen, row[e].status}
             /\ s.op = "fail" /\ r.waited => s.waited \/ proc'[r.client].id # e
    BY <2>1
  <2>5. QED
    BY <1>1, <1>2, <1>6, <1>9, <2>2, <2>3, <2>4, OutcomeKept
<1>14. QED
  BY <1>11, <1>12, <1>13

\* A process that stops leaves its reports with the backend.
LEMMA OutcomeStop ==
    ASSUME Basis, NEW e \in Execution, ReportOf(e), OutcomeOf(e), NEW p \in Process,
           Crash(p) \/ Terminate(p)
    PROVE  ReportOf(e)' /\ OutcomeOf(e)'
<1>1. /\ UNCHANGED <<row, dispatching, queue, fired>> /\ ExchangeInv
      /\ proc' = [proc EXCEPT ![p] = Idle] /\ proc \in [Process -> PoolProcess]
      /\ http' = {IF r.client = p THEN Orphan(r) ELSE r : r \in http}
  BY DEF Crash, Terminate, Stop, Basis, ExchangeInv, TypeOK
<1>2. Launched(e)' = Launched(e) /\ Waiting(e)' = Waiting(e)
  BY <1>1 DEF Launched, Waiting
<1>3. \A q \in Process : proc'[q].id = e => q # p /\ proc'[q] = proc[q]
  BY <1>1, ExecutionAssumption DEF Idle
<1>4. InWork(e)' => InWork(e)
  BY <1>3 DEF InWork, Executes
<1>5. \A r \in http : /\ Orphan(r).id = r.id /\ Orphan(r).op = r.op
                      /\ Orphan(r).client = r.client /\ Orphan(r).seen = r.seen
  BY <1>1 DEF Orphan, ExchangeInv, TypeOK, Request
<1>6. \A s \in http' : \E r \in http :
         /\ s = IF r.client = p THEN Orphan(r) ELSE r
         /\ s.id = r.id /\ s.op = r.op /\ s.client = r.client /\ s.seen = r.seen
  BY <1>1, <1>5
<1>7. \A s \in http' : s.id = e => Launched(e)
  BY <1>6 DEF ReportOf
<1>8. \A s \in http' : s.id = e /\ s.op \in {"result", "fail"} =>
        \E r \in http :
           /\ r.id = e /\ r.op = s.op /\ r.client = s.client
           /\ s.seen \in {"unread", r.seen, row[e].status}
           /\ s.op = "fail" /\ r.waited => s.waited \/ proc'[r.client].id # e
  BY <1>3, <1>6 DEF ExchangeInv, TypeOK, Request
<1>9. \A s, t \in http' : s.id = e /\ t.id = e /\ s.op = t.op
         /\ s.op \in {"result", "fail"} => s = t
  <2>1. \A q, r \in http : q.id = e /\ r.id = e /\ q.op = r.op
           /\ q.op \in {"result", "fail"} => q = r
    BY DEF ReportOf, Results, Failures
  <2>2. QED
    BY <1>6, <2>1
<1>10. QED
  BY <1>1, <1>2, <1>3, <1>4, <1>7, <1>8, <1>9, OutcomeKept

\* An answer, an error or a timeout lets a process go on, but not with a task
\* it has reported, and not after its FAILURE.
LEMMA ReportsAfter ==
    ASSUME ExchangeInv, NEW e \in Execution, NEW r \in http,
           NEW pc \in {AfterOK(r.op), AfterError(r.op), AfterLoss(r.op)},
           r.waited => proc' = [proc EXCEPT ![r.client] = At(r.client, pc)],
           ~r.waited => proc' = proc
    PROVE  /\ InWork(e)' => InWork(e)
           /\ \A p \in Process : proc'[p].id = e =>
                 /\ proc[p].id = e
                 /\ proc[p].pc = "failing" => proc'[p].pc = "failing"
                 /\ r.waited /\ r.op = "fail" => p # r.client
<1>1. /\ r.client \in Process /\ proc \in [Process -> PoolProcess]
      /\ r.op \in {"claim", "start", "fail", "result", "stale", "beat"}
  BY DEF ExchangeInv, TypeOK, Request
<1>2. /\ pc \in Busy \cup {"idle"}
      /\ pc \in Executing => r.op \in {"claim", "start", "stale"}
      /\ r.op = "fail" => pc = "idle"
  BY <1>1 DEF AfterOK, AfterError, AfterLoss, Busy, Executing
<1>3. InWork(e)' => InWork(e)
  BY <1>2, AnswerWork DEF InWork
<1>4. ASSUME NEW p \in Process, proc'[p].id = e
      PROVE  /\ proc[p].id = e
             /\ proc[p].pc = "failing" => proc'[p].pc = "failing"
             /\ r.waited /\ r.op = "fail" => p # r.client
  <2>1. CASE r.waited /\ p = r.client
    <3>1. proc'[p] = At(p, pc) /\ proc[p] \in PoolProcess
      BY <1>1, <2>1
    <3>2. pc # "idle" /\ proc'[p].id = proc[p].id
      BY <1>4, <3>1, ExecutionAssumption DEF At, Idle, PoolProcess
    <3>3. r.op \notin {"fail", "beat"} /\ proc[p].pc = WaitsAt[r.op]
      BY <1>2, <2>1, <3>2 DEF ExchangeInv, Matched
    <3>4. proc[p].pc # "failing"
      BY <1>1, <3>3 DEF WaitsAt
    <3>5. QED
      BY <1>4, <3>2, <3>3, <3>4
  <2>2. CASE ~(r.waited /\ p = r.client)
    BY <1>1, <1>4, <2>2
  <2>3. QED
    BY <2>1, <2>2
<1>5. QED
  BY <1>3, <1>4

\* A request that ends, other than by the commit of a report on e.
LEMMA OutcomeEnded ==
    ASSUME Basis, Next, NEW e \in Execution, ReportOf(e), OutcomeOf(e), NEW r \in http,
           http' = http \ {r}, dispatching' = dispatching, queue' = queue,
           InWork(e)' => InWork(e),
           \A p \in Process : proc'[p].id = e =>
              proc[p].id = e /\ (proc[p].pc = "failing" => proc'[p].pc = "failing"),
           \/ row'[e].status = row[e].status /\ row'[e].result = row[e].result
           \/ row'[e].status \in Open /\ r.id = e
    PROVE  ReportOf(e)' /\ OutcomeOf(e)'
<1>1. ExchangeInv
  BY DEF Basis
<1>2. Launched(e) => Launched(e)'
  BY <1>1, LaunchedForEver
<1>3. \A s \in http' : s.id = e => Launched(e)
  BY DEF ReportOf
<1>4. r.id = e => Launched(e)
  BY DEF ReportOf
<1>5. \A s, t \in http' : s.id = e /\ t.id = e /\ s.op = t.op
         /\ s.op \in {"result", "fail"} => s = t
  BY DEF ReportOf, Results, Failures
<1>6. \A s \in http' : s.id = e /\ s.op \in {"result", "fail"} =>
        \E q \in http :
           /\ q.id = e /\ q.op = s.op /\ q.client = s.client
           /\ s.seen \in {"unread", q.seen, row[e].status}
           /\ s.op = "fail" /\ q.waited => s.waited \/ proc'[q.client].id # e
  OBVIOUS
<1>7. Waiting(e)' => Waiting(e)
  BY DEF Waiting
<1>8. QED
  BY <1>1, <1>2, <1>3, <1>4, <1>5, <1>6, <1>7, OutcomeKept

\* A request on which the backend makes progress, or whose client gives up.
LEMMA OutcomeReplaced ==
    ASSUME Basis, Next, NEW e \in Execution, ReportOf(e), OutcomeOf(e), NEW r \in http,
           NEW s \in Request, Replace(r, s),
           s.op = r.op, s.id = r.id, s.client = r.client,
           s.seen \in {"unread", r.seen, row[r.id].status},
           r.op = "fail" /\ r.waited => s.waited \/ proc'[r.client].id # e,
           dispatching' = dispatching, queue' = queue, row' = row,
           InWork(e)' => InWork(e),
           \A p \in Process : proc'[p].id = e =>
              proc[p].id = e /\ (proc[p].pc = "failing" => proc'[p].pc = "failing")
    PROVE  ReportOf(e)' /\ OutcomeOf(e)'
<1>1. ExchangeInv
  BY DEF Basis
<1>2. Launched(e) => Launched(e)'
  BY <1>1, LaunchedForEver
<1>3. \A t \in http' : t.id = e => Launched(e)
  BY DEF ReportOf, Replace
<1>4. \A q, t \in http : q.id = e /\ t.id = e /\ q.op = t.op
         /\ q.op \in {"result", "fail"} => q = t
  BY DEF ReportOf, Results, Failures
<1>5. \A q, t \in http' : q.id = e /\ t.id = e /\ q.op = t.op
         /\ q.op \in {"result", "fail"} => q = t
  BY <1>4 DEF Replace
<1>6. \A t \in http' : t.id = e /\ t.op \in {"result", "fail"} =>
        \E q \in http :
           /\ q.id = e /\ q.op = t.op /\ q.client = t.client
           /\ t.seen \in {"unread", q.seen, row[e].status}
           /\ t.op = "fail" /\ q.waited => t.waited \/ proc'[q.client].id # e
  BY DEF Replace
<1>7. Waiting(e)' => Waiting(e)
  BY DEF Waiting
<1>8. QED
  BY <1>1, <1>2, <1>3, <1>5, <1>6, <1>7, OutcomeKept

\* The commit of a report puts status and result in the row together, and what
\* it does not write, because it has read it, says the same.
LEMMA OutcomeWritten ==
    ASSUME Basis, Next, NEW e \in Execution, ReportOf(e), OutcomeOf(e), NEW r \in http,
           r.id = e, r.op \in {"result", "fail"}, Write(r)
    PROVE  ReportOf(e)' /\ OutcomeOf(e)'
<1>1. /\ ExchangeInv /\ row \in [Execution -> Row]
      /\ http' = http \ {r} /\ dispatching' = dispatching /\ queue' = queue
  BY DEF Basis, ExchangeInv, TypeOK, Write, Answer
<1>2. PICK pc \in {AfterOK(r.op), AfterError(r.op), AfterLoss(r.op)} : Answer(r, pc)
  BY DEF Write
<1>3. /\ InWork(e)' => InWork(e)
      /\ \A p \in Process : proc'[p].id = e =>
            /\ proc[p].id = e
            /\ proc[p].pc = "failing" => proc'[p].pc = "failing"
            /\ r.waited /\ r.op = "fail" => p # r.client
  BY <1>1, <1>2, ReportsAfter DEF Answer
<1>4. Launched(e)'
  BY <1>1, LaunchedForEver DEF ReportOf
<1>5. ~Waiting(e)' /\ ~InWork(e)'
  <2>1. r \in Results(e) \cup Failures(e)
    BY DEF Results, Failures
  <2>2. ~Waiting(e) /\ ~InWork(e)
    BY <2>1 DEF ReportOf
  <2>3. QED
    BY <1>1, <1>3, <2>2 DEF Waiting
<1>6. /\ row'[e].status = IF Target(r) = r.seen THEN row[e].status ELSE Target(r)
      /\ row'[e].result = ResultOf(r)
  BY <1>1 DEF Write
<1>7. ReportOf(e)'
  <2>1. Results(e)' \subseteq Results(e) /\ Failures(e)' \subseteq Failures(e)
    BY <1>1 DEF Results, Failures
  <2>2. QED
    BY <1>3, <1>4, <1>5, <2>1 DEF ReportOf
<1>8. CASE r.op = "result"
  <2>1. r \in Results(e) /\ Results(e)' = {} /\ Failures(e)' = Failures(e)
    BY <1>1, <1>8 DEF Results, Failures, ReportOf
  <2>2. r.seen # "SUCCESS" /\ row[e].status # "SUCCESS"
    BY <2>1 DEF OutcomeOf
  <2>3. \/ Target(r) = "SUCCESS" /\ ResultOf(r) = "processed"
        \/ Target(r) = "FAILURE" /\ ResultOf(r) = "rejected"
    BY <1>8 DEF Target, ResultOf
  <2>4. \A s \in Failures(e) : s.seen # "FAILURE"
    BY <2>1 DEF OutcomeOf
  <2>5. OutcomeOf(e)'
    BY <1>6, <2>1, <2>2, <2>3, <2>4 DEF OutcomeOf
  <2>6. QED
    BY <1>7, <2>5
<1>9. CASE r.op = "fail"
  <2>1. r \in Failures(e) /\ Failures(e)' = {} /\ Results(e)' = Results(e)
    BY <1>1, <1>9 DEF Results, Failures, ReportOf
  <2>2. r.seen = "FAILURE" => row[e].status # "SUCCESS"
    BY <2>1 DEF OutcomeOf
  <2>3. Target(r) = "FAILURE" /\ ResultOf(r) = "error"
    <3>1. r.op \notin {"start", "beat"} /\ r.op # "result"
      BY <1>9
    <3>2. Target(r) = "FAILURE"
      BY <3>1 DEF Target
    <3>3. ResultOf(r) = "error"
      BY <3>1, <1>9 DEF ResultOf
    <3>4. QED
      BY <3>2, <3>3
  <2>4. \A p \in Process : proc'[p].id # e
    BY <1>3, <1>9, <2>1 DEF ReportOf
  <2>5. row'[e].status # "SUCCESS"
    BY <1>6, <2>2, <2>3
  <2>6. \A s \in Results(e)' : s.seen # "SUCCESS"
    BY <2>1 DEF OutcomeOf
  <2>7. OutcomeOf(e)'
    BY <1>6, <2>1, <2>3, <2>4, <2>5, <2>6 DEF OutcomeOf
  <2>8. QED
    BY <1>7, <2>7
<1>10. QED
  BY <1>8, <1>9

\* The steps on a request.
LEMMA OutcomeBackend ==
    ASSUME Basis, Next, NEW e \in Execution, ReportOf(e), OutcomeOf(e), NEW r \in http,
           Backend(r) \/ DatabaseError(r) \/ Lose(r) \/ TimeOut(r)
    PROVE  ReportOf(e)' /\ OutcomeOf(e)'
<1>1. /\ r \in Request /\ r.id \in Execution /\ r.client \in Process
      /\ r.op \in {"claim", "start", "fail", "result", "stale"}
      /\ ExchangeInv /\ NoHeartbeatInv
      /\ proc \in [Process -> PoolProcess] /\ row \in [Execution -> Row]
  BY DEF Basis, NoHeartbeatInv, ExchangeInv, TypeOK, Request
<1>2. dispatching' = dispatching /\ queue' = queue
  BY DEF Backend, Claim, Read, DispatchResult, ResultHandlerRaises, Write, ServeStale,
         DatabaseError, Lose, TimeOut
<1>3. CASE Read(r) \/ DispatchResult(r) \/ ResultHandlerRaises(r)
  <2>1. row' = row /\ proc' = proc
    BY <1>1, <1>3, NothingFails DEF Read, DispatchResult, ResultHandlerRaises
  <2>2. PICK s \in Request :
          /\ Replace(r, s)
          /\ s.op = r.op /\ s.id = r.id /\ s.client = r.client /\ s.waited = r.waited
          /\ s.seen \in {"unread", r.seen, row[r.id].status}
    BY <1>1, <1>3, ReplacedBy
  <2>3. InWork(e)' = InWork(e)
    BY <2>1 DEF InWork, Executes
  <2>4. QED
    BY <1>2, <2>1, <2>2, <2>3, OutcomeReplaced
<1>4. CASE TimeOut(r)
  <2>1. /\ r.waited /\ Replace(r, Orphan(r)) /\ row' = row
        /\ proc' = [proc EXCEPT ![r.client] = At(r.client, AfterLoss(r.op))]
    BY <1>4 DEF TimeOut
  <2>2. /\ InWork(e)' => InWork(e)
        /\ \A p \in Process : proc'[p].id = e =>
              /\ proc[p].id = e
              /\ proc[p].pc = "failing" => proc'[p].pc = "failing"
              /\ r.waited /\ r.op = "fail" => p # r.client
    BY <1>1, <2>1, ReportsAfter
  <2>3. /\ Orphan(r) \in Request /\ Orphan(r).op = r.op /\ Orphan(r).id = r.id
        /\ Orphan(r).client = r.client /\ Orphan(r).seen = r.seen
    BY <1>1, OrphanType DEF Orphan, Request
  <2>4. QED
    BY <1>1, <1>2, <2>1, <2>2, <2>3, OutcomeReplaced
<1>5. CASE Write(r) /\ r.id = e /\ r.op \in {"result", "fail"}
  BY <1>5, OutcomeWritten
<1>6. CASE \/ Write(r) /\ ~(r.id = e /\ r.op \in {"result", "fail"})
           \/ Claim(r) \/ DatabaseError(r) \/ Lose(r)
  <2>1. PICK pc \in {AfterOK(r.op), AfterError(r.op), AfterLoss(r.op)} : Answer(r, pc)
    BY <1>6 DEF Write, Claim, DatabaseError, Lose
  <2>2. /\ InWork(e)' => InWork(e)
        /\ \A p \in Process : proc'[p].id = e =>
              /\ proc[p].id = e
              /\ proc[p].pc = "failing" => proc'[p].pc = "failing"
    BY <1>1, <2>1, ReportsAfter DEF Answer
  <2>3. \/ row'[e].status = row[e].status /\ row'[e].result = row[e].result
        \/ row'[e].status \in Open /\ r.id = e
    <3>1. CASE DatabaseError(r) \/ Lose(r)
      BY <3>1 DEF DatabaseError, Lose
    <3>2. CASE Claim(r)
      BY <1>1, <3>2 DEF Claim, Row, Open
    <3>3. CASE Write(r) /\ r.id # e
      BY <1>1, <3>3 DEF Write
    <3>4. CASE Write(r) /\ r.id = e /\ r.op \notin {"result", "fail"}
      <4>1. r.op = "start"
        BY <1>1, <3>4 DEF Write, NoHeartbeatInv
      <4>2. Target(r) = "IN_PROGRESS"
        BY <4>1 DEF Target
      <4>3. ResultOf(r) = row[e].result
        BY <3>4, <4>1 DEF ResultOf
      <4>4. QED
        BY <1>1, <3>4, <4>2, <4>3 DEF Write, Open
    <3>5. QED
      BY <1>6, <3>1, <3>2, <3>3, <3>4
  <2>4. http' = http \ {r}
    BY <2>1 DEF Answer
  <2>5. QED
    BY <1>2, <2>2, <2>3, <2>4, OutcomeEnded
<1>7. CASE ServeStale(r)
  <2>1. row' = row /\ http' = http \ {r}
    BY <1>7 DEF ServeStale
  <2>2. r.waited => proc[r.client].pc = "listing"
    BY <1>1, <1>7 DEF ServeStale, ExchangeInv, Matched, WaitsAt
  <2>3. \A p \in Process : /\ proc'[p].id = proc[p].id
                           /\ proc'[p] = proc[p] \/ proc[p].pc = "listing"
    BY <1>1, <1>7, <2>2 DEF ServeStale, PoolProcess
  <2>4. InWork(e)' => InWork(e)
    BY <2>3 DEF InWork, Executes, Executing
  <2>5. QED
    BY <1>2, <2>1, <2>3, <2>4, OutcomeEnded
<1>8. QED
  BY <1>3, <1>4, <1>5, <1>6, <1>7 DEF Backend

LEMMA OutcomeInit == Init => OutcomeInv
BY DEF Init, NoRow, Idle, OutcomeInv, ReportOf, OutcomeOf, Results, Failures, Waiting,
       InWork, Executes, Executing, Launched, Terminal

LEMMA OutcomeStep ==
    ASSUME ~HeartbeatClient, "redeliver" \notin FaultKinds
    PROVE  Basis /\ OutcomeInv /\ [Next]_vars => OutcomeInv'
<1> SUFFICES ASSUME Basis, OutcomeInv, [Next]_vars, NEW e \in Execution
             PROVE  ReportOf(e)' /\ OutcomeOf(e)'
  BY DEF OutcomeInv
<1>1. ReportOf(e) /\ OutcomeOf(e)
  BY DEF OutcomeInv
<1>2. CASE UNCHANGED vars
  BY <1>1, <1>2
     DEF vars, ReportOf, OutcomeOf, Results, Failures, Waiting, InWork, Executes, Launched
<1>3. ASSUME Next
      PROVE  ReportOf(e)' /\ OutcomeOf(e)'
  <2>1. ASSUME NEW f \in Execution,
               RunTask(f) \/ SendTask(f) \/ SendTaskFails(f) \/ BeatFires(f) \/ FallQuiet(f)
        PROVE  ReportOf(e)' /\ OutcomeOf(e)'
    BY <1>1, <1>3, <2>1, OutcomeLaunch
  <2>2. ASSUME NEW p \in Process, Worker(p) \/ Crash(p) \/ Terminate(p) \/ Heartbeat(p)
        PROVE  ReportOf(e)' /\ OutcomeOf(e)'
    <3>1. ~Heartbeat(p)
      BY DEF Heartbeat
    <3>2. CASE \E f \in Execution : Deliver(p, f)
      BY <1>1, <1>3, <3>2, OutcomeDeliver
    <3>3. CASE \/ AnnounceStart(p) \/ HandlerReturns(p) \/ HandlerRaises(p)
               \/ ListStale(p) \/ Revoke(p) \/ ReportFailure(p)
      BY <1>1, <1>3, <3>3, OutcomeProcess
    <3>4. CASE Crash(p) \/ Terminate(p)
      BY <1>1, <3>4, OutcomeStop
    <3>5. QED
      BY <2>2, <3>1, <3>2, <3>3, <3>4 DEF Worker
  <2>3. ASSUME NEW r \in http, Backend(r) \/ DatabaseError(r) \/ Lose(r) \/ TimeOut(r)
        PROVE  ReportOf(e)' /\ OutcomeOf(e)'
    BY <1>1, <1>3, <2>3, OutcomeBackend
  <2>4. QED
    BY <1>3, <2>1, <2>2, <2>3 DEF Next, Environment
<1>4. QED
  BY <1>2, <1>3

\* While no message is delivered twice and nobody sends heartbeats, status and
\* result column belong together, although a late report writes only what it
\* has not read: whatever times out, is refused, is lost or crashes.
THEOREM ResultMatchesStatusAlways ==
    ASSUME ~HeartbeatClient, "redeliver" \notin FaultKinds
    PROVE  Spec => []ResultMatchesStatus
<1>1. OutcomeInv => ResultMatchesStatus
  BY DEF OutcomeInv, OutcomeOf, ResultMatchesStatus
<1>2. QED
  BY <1>1, BasisAlways, OutcomeInit, OutcomeStep, PTL DEF Spec
----------------------------------------------------------------------------
(* Nothing is forgotten. *)

\* Nothing that holds an execution is lost on the way: the broker takes every
\* message, no process dies, every request is completed.  A client may give
\* up, except on a claim, whose row nobody would then know of.
Lossless ==
    /\ ~HeartbeatClient
    /\ FaultKinds \cap {"broker", "crash", "reset", "dberror"} = {}
    /\ Scheduled = {} \/ "timeout" \notin FaultKinds

\* A claim is waited for.
ClaimInv == \A r \in http : r.op = "claim" => r.waited /\ r.id \in Scheduled

CarryInv == ExchangeInv /\ NoHeartbeatInv /\ RowInv /\ ClaimInv /\ CarriedInv

LEMMA CarryInit == Init => ClaimInv /\ CarriedInv
BY DEF Init, NoRow, ClaimInv, CarriedInv

LEMMA ClaimStep ==
    ASSUME Lossless
    PROVE  ExchangeInv /\ NoHeartbeatInv /\ ClaimInv /\ [Next]_vars => ClaimInv'
<1> SUFFICES ASSUME ExchangeInv, NoHeartbeatInv, ClaimInv, [Next]_vars,
                    NEW s \in http', s.op = "claim"
             PROVE  s.waited /\ s.id \in Scheduled
  BY DEF ClaimInv
<1>1. s \in http => s.waited /\ s.id \in Scheduled
  BY DEF ClaimInv
<1>2. CASE \/ UNCHANGED vars
           \/ \E e \in Execution : \/ RunTask(e) \/ SendTask(e) \/ BeatFires(e)
                                   \/ SendTaskFails(e) \/ FallQuiet(e)
  BY <1>1, <1>2 DEF vars, RunTask, SendTask, BeatFires, SendTaskFails, FallQuiet
<1>3. CASE \E p \in Process, e \in Execution : Deliver(p, e)
  <2>1. PICK p \in Process, e \in Execution : Deliver(p, e)
    BY <1>3
  <2>2. CASE e \in Scheduled
    <3>1. http' = http \cup {NewRequest(p, "claim", e, {})}
      BY <2>1, <2>2 DEF Deliver
    <3>2. /\ NewRequest(p, "claim", e, {}).waited
          /\ NewRequest(p, "claim", e, {}).id = e
      BY DEF NewRequest
    <3>3. QED
      BY <1>1, <2>2, <3>1, <3>2
  <2>3. CASE e \notin Scheduled
    BY <1>1, <2>1, <2>3 DEF Deliver
  <2>4. QED
    BY <2>2, <2>3
<1>4. CASE \E p \in Process : \/ AnnounceStart(p) \/ HandlerReturns(p) \/ HandlerRaises(p)
                              \/ ListStale(p) \/ Revoke(p) \/ ReportFailure(p)
  BY <1>1, <1>4
     DEF AnnounceStart, HandlerReturns, HandlerRaises, ListStale, Revoke, ReportFailure,
         Send, NewRequest
<1>5. ~ \E p \in Process : Crash(p) \/ Terminate(p) \/ Heartbeat(p)
  BY DEF Lossless, Crash, Fault, Terminate, NoHeartbeatInv, Heartbeat
<1>6. CASE \E r \in http : Backend(r) \/ DatabaseError(r) \/ Lose(r) \/ TimeOut(r)
  <2>1. PICK r \in http : Backend(r) \/ DatabaseError(r) \/ Lose(r) \/ TimeOut(r)
    BY <1>6
  <2>2. CASE Read(r) \/ DispatchResult(r) \/ ResultHandlerRaises(r)
    <3>1. PICK t \in Request : Replace(r, t) /\ t.op = r.op
      BY <2>2, ReplacedBy
    <3>2. r.op # "claim"
      BY <2>2 DEF Read, DispatchResult, ResultHandlerRaises
    <3>3. QED
      BY <1>1, <3>1, <3>2 DEF Replace
  <2>3. CASE Claim(r) \/ Write(r) \/ ServeStale(r) \/ DatabaseError(r) \/ Lose(r)
    BY <1>1, <2>3 DEF Claim, Write, ServeStale, DatabaseError, Lose, Answer
  <2>4. CASE TimeOut(r)
    <3>1. Scheduled = {} /\ Replace(r, Orphan(r))
      BY <2>4 DEF TimeOut, Fault, Lossless
    <3>2. r.op # "claim"
      BY <3>1 DEF ClaimInv
    <3>3. r \in Request
      BY DEF ExchangeInv, TypeOK
    <3>4. Orphan(r).op = r.op
      BY <3>3 DEF Orphan, Request
    <3>5. QED
      BY <1>1, <3>1, <3>2, <3>4 DEF Replace
  <2>5. QED
    BY <2>1, <2>2, <2>3, <2>4 DEF Backend
<1>7. QED
  BY <1>2, <1>3, <1>4, <1>5, <1>6 DEF Next, Worker, Environment

\* What carries e keeps carrying it while the row, the launch, the processes
\* that have e and the reports on it stay.
LEMMA CarriedOn ==
    ASSUME NEW e \in Execution, Carried(e),
           Waiting(e) => Waiting(e)',
           \A p \in Process : proc[p].id = e => proc'[p].id = e,
           \A r \in http : r.id = e /\ r.op \in {"result", "fail"} =>
              \E s \in http' : s.id = e /\ s.op = r.op
    PROVE  Carried(e)'
<1>1. Results(e) \cup Failures(e) # {} => (Results(e) \cup Failures(e))' # {}
  BY DEF Results, Failures
<1>2. QED
  BY <1>1 DEF Carried, Waiting

\* The launch, and what passes without one.
LEMMA CarriedLaunch ==
    ASSUME Lossless, CarryInv, NEW e \in Execution, NEW f \in Execution,
           RunTask(f) \/ SendTask(f) \/ SendTaskFails(f) \/ BeatFires(f) \/ FallQuiet(f),
           row'[e].status # "ABSENT", ~row'[e].finished
    PROVE  Carried(e)'
<1>1. /\ row \in [Execution -> Row] /\ http' = http /\ proc' = proc
      /\ row[e].status # "ABSENT" /\ ~row[e].finished => Carried(e)
  BY DEF CarryInv, CarriedInv, ExchangeInv, TypeOK, RunTask, SendTask, SendTaskFails,
         BeatFires, FallQuiet
<1>2. ~SendTaskFails(f)
  BY DEF SendTaskFails, Fault, Lossless
<1>3. CASE RunTask(f) /\ f = e
  BY <1>3 DEF RunTask, Carried, Waiting
<1>4. CASE ~(RunTask(f) /\ f = e)
  <2>1. row[e].status # "ABSENT" /\ ~row[e].finished
    BY <1>1, <1>2, <1>4 DEF RunTask, SendTask, BeatFires, FallQuiet, Row
  <2>2. Waiting(e) => Waiting(e)'
    BY <1>2 DEF Waiting, RunTask, SendTask, BeatFires, FallQuiet
  <2>3. QED
    BY <1>1, <2>1, <2>2, CarriedOn
<1>5. QED
  BY <1>3, <1>4

\* A process keeps its execution until it is answered.
LEMMA CarriedWorker ==
    ASSUME CarryInv, NEW e \in Execution, NEW p \in Process, Worker(p),
           row'[e].status # "ABSENT", ~row'[e].finished
    PROVE  Carried(e)'
<1>1. /\ proc \in [Process -> PoolProcess] /\ IdleIsFree /\ NoExecution \notin Execution
      /\ Carried(e)
  <2>1. row' = row
    BY DEF Worker, Deliver, AnnounceStart, HandlerReturns, HandlerRaises, ListStale,
           Revoke, ReportFailure
  <2>2. QED
    BY <2>1, ExecutionAssumption DEF CarryInv, CarriedInv, ExchangeInv, TypeOK
<1>2. CASE \E f \in Execution : Deliver(p, f)
  <2>1. PICK f \in Execution : Deliver(p, f)
    BY <1>2
  <2>2. proc[p].id # e
    BY <1>1, <2>1 DEF Deliver, IdleIsFree
  <2>3. /\ proc'[p].id = f
        /\ \A q \in Process \ {p} : proc'[q] = proc[q]
        /\ http \subseteq http' /\ dispatching' = dispatching
        /\ f # e => (e \in queue => e \in queue')
    BY <1>1, <2>1 DEF Deliver, Idle
  <2>4. CASE f = e
    BY <2>3, <2>4 DEF Carried
  <2>5. CASE f # e
    <3>1. Waiting(e) => Waiting(e)'
      BY <2>3, <2>5 DEF Waiting
    <3>2. \A q \in Process : proc[q].id = e => proc'[q].id = e
      BY <2>2, <2>3
    <3>3. QED
      BY <1>1, <2>3, <3>1, <3>2, CarriedOn
  <2>6. QED
    BY <2>4, <2>5
<1>3. CASE \/ AnnounceStart(p) \/ HandlerReturns(p) \/ HandlerRaises(p)
           \/ ListStale(p) \/ Revoke(p) \/ ReportFailure(p)
  <2>1. /\ dispatching' = dispatching /\ queue' = queue /\ http \subseteq http'
        /\ \E pc \in Busy : proc' = [proc EXCEPT ![p] = At(p, pc)]
    BY <1>3
       DEF AnnounceStart, HandlerReturns, HandlerRaises, ListStale, Revoke, ReportFailure,
           Send, Busy
  <2>2. \A q \in Process : proc'[q].id = proc[q].id
    BY <1>1, <2>1 DEF At, Busy, PoolProcess
  <2>3. QED
    BY <1>1, <2>1, <2>2, CarriedOn DEF Waiting
<1>4. QED
  BY <1>2, <1>3 DEF Worker

\* An answer frees a process only when it ends its report.
LEMMA CarriedBackend ==
    ASSUME Lossless, CarryInv, NEW e \in Execution, NEW r \in http,
           Backend(r) \/ TimeOut(r),
           row'[e].status # "ABSENT", ~row'[e].finished
    PROVE  Carried(e)'
<1>1. /\ r \in Request /\ r.id \in Execution /\ r.client \in Process /\ NoHeartbeatInv
      /\ r.op \in {"claim", "start", "fail", "result", "stale"}
      /\ proc \in [Process -> PoolProcess] /\ row \in [Execution -> Row]
      /\ ExchangeInv /\ Matched
      /\ row[e].status # "ABSENT" /\ ~row[e].finished => Carried(e)
  BY DEF CarryInv, CarriedInv, NoHeartbeatInv, ExchangeInv, TypeOK, Request
<1>2. /\ dispatching' = dispatching /\ queue' = queue
      /\ Waiting(e) => Waiting(e)'
  BY DEF Backend, Claim, Read, DispatchResult, ResultHandlerRaises, Write, ServeStale,
         TimeOut, Waiting
<1>3. CASE Read(r) \/ DispatchResult(r) \/ ResultHandlerRaises(r)
  <2>1. PICK s \in Request : Replace(r, s) /\ s.op = r.op /\ s.id = r.id
    BY <1>1, <1>3, ReplacedBy
  <2>2. row' = row /\ proc' = proc
    BY <1>1, <1>3, NothingFails DEF Read, DispatchResult, ResultHandlerRaises
  <2>3. \A q \in http : q.id = e /\ q.op \in {"result", "fail"} =>
          \E t \in http' : t.id = e /\ t.op = q.op
    BY <2>1 DEF Replace
  <2>4. QED
    BY <1>1, <1>2, <2>2, <2>3, CarriedOn
<1>4. CASE TimeOut(r)
  <2>1. /\ Replace(r, Orphan(r)) /\ row' = row /\ r.waited
        /\ proc' = [proc EXCEPT ![r.client] = At(r.client, AfterLoss(r.op))]
        /\ Scheduled = {}
    BY <1>4 DEF TimeOut, Fault, Lossless
  <2>2. /\ r.op # "claim"
        /\ Orphan(r) \in http' /\ Orphan(r).op = r.op /\ Orphan(r).id = r.id
    BY <1>1, <2>1 DEF CarryInv, ClaimInv, Orphan, Replace, Request
  <2>3. CASE r.op = "fail" /\ r.id = e
    BY <2>2, <2>3 DEF Carried, Failures
  <2>4. CASE ~(r.op = "fail" /\ r.id = e)
    <3>1. \A p \in Process : proc[p].id = e => proc'[p].id = e
      <4>1. r.op # "fail" => AfterLoss(r.op) # "idle"
        BY <1>1, <2>2 DEF AfterLoss, AfterError
      <4>2. r.op = "fail" => proc[r.client].id # e
        BY <1>1, <2>1, <2>4 DEF Matched
      <4>3. QED
        BY <1>1, <2>1, <4>1, <4>2 DEF At, PoolProcess
    <3>2. \A q \in http : q.id = e /\ q.op \in {"result", "fail"} =>
            \E t \in http' : t.id = e /\ t.op = q.op
      BY <2>1, <2>2 DEF Replace
    <3>3. QED
      BY <1>1, <1>2, <2>1, <3>1, <3>2, CarriedOn
  <2>5. QED
    BY <2>3, <2>4
<1>5. CASE Write(r) /\ r.op # "start"
  <2>1. r.op \in {"result", "fail"}
    BY <1>1, <1>5 DEF Write
  <2>2. Target(r) \in Terminal
    BY <2>1 DEF Target, Terminal
  <2>3. r.id # e
    BY <1>1, <1>5, <2>2 DEF Write
  <2>4. row'[e] = row[e]
    BY <1>1, <1>5, <2>3 DEF Write
  <2>5. /\ http' = http \ {r}
        /\ \A p \in Process : p # r.client \/ ~r.waited => proc'[p] = proc[p]
    BY <1>1, <1>5 DEF Write, Answer
  <2>6. \A p \in Process : proc[p].id = e => proc'[p].id = e
    BY <1>1, <2>3, <2>5 DEF Matched
  <2>7. \A q \in http : q.id = e /\ q.op \in {"result", "fail"} =>
          \E t \in http' : t.id = e /\ t.op = q.op
    BY <2>3, <2>5
  <2>8. QED
    BY <1>1, <1>2, <2>4, <2>6, <2>7, CarriedOn
<1>6. CASE Claim(r)
  <2>1. /\ r.waited /\ r.op = "claim" /\ http' = http \ {r}
        /\ proc' = [proc EXCEPT ![r.client] = At(r.client, "accepted")]
        /\ proc[r.client].id = r.id
    BY <1>1, <1>6 DEF CarryInv, ClaimInv, Matched, Claim, Answer, AfterOK
  <2>2. \A p \in Process : proc'[p].id = proc[p].id
    BY <1>1, <2>1 DEF At, PoolProcess
  <2>3. CASE r.id = e
    BY <1>1, <2>1, <2>2, <2>3 DEF Carried
  <2>4. CASE r.id # e
    <3>1. row'[e] = row[e]
      BY <1>1, <1>6, <2>4 DEF Claim
    <3>2. QED
      BY <1>1, <1>2, <2>1, <2>2, <3>1, CarriedOn
  <2>5. QED
    BY <2>3, <2>4
<1>7. CASE Write(r) /\ r.op = "start"
  <2>1. /\ http' = http \ {r}
        /\ r.waited => proc' = [proc EXCEPT ![r.client] = At(r.client, "running")]
        /\ ~r.waited => proc' = proc
    BY <1>7 DEF Write, Answer, AfterOK, AfterError
  <2>2. \A p \in Process : proc'[p].id = proc[p].id
    BY <1>1, <2>1 DEF At, PoolProcess
  <2>3. row[e].status # "ABSENT" /\ ~row[e].finished
    <3>1. CASE r.id # e
      BY <1>1, <1>7, <3>1 DEF Write
    <3>2. CASE r.id = e
      <4>1. row'[e].finished <=> row[e].finished \/ Target(r) \in Terminal
        BY <1>1, <1>7, <3>2 DEF Write
      <4>2. row[e].status # "ABSENT"
        BY <1>7, <3>2 DEF CarryInv, RowInv, RowBeforeWork
      <4>3. QED
        BY <4>1, <4>2
    <3>3. QED
      BY <3>1, <3>2
  <2>4. \A q \in http : q.id = e /\ q.op \in {"result", "fail"} =>
          \E t \in http' : t.id = e /\ t.op = q.op
    BY <1>7, <2>1
  <2>5. QED
    BY <1>1, <1>2, <2>2, <2>3, <2>4, CarriedOn
<1>8. CASE ServeStale(r)
  <2>1. row' = row /\ http' = http \ {r} /\ r.op = "stale"
    BY <1>8 DEF ServeStale
  <2>2. \A p \in Process : proc'[p].id = proc[p].id
    BY <1>1, <1>8 DEF ServeStale, PoolProcess
  <2>3. QED
    BY <1>1, <1>2, <2>1, <2>2, CarriedOn
<1>9. QED
  BY <1>3, <1>4, <1>5, <1>6, <1>7, <1>8 DEF Backend

LEMMA CarriedStep ==
    ASSUME Lossless
    PROVE  CarryInv /\ [Next]_vars => CarriedInv'
<1> SUFFICES ASSUME CarryInv, [Next]_vars, NEW e \in Execution,
                    row'[e].status # "ABSENT", ~row'[e].finished
             PROVE  Carried(e)'
  BY DEF CarriedInv
<1>1. CASE UNCHANGED vars
  BY <1>1 DEF CarryInv, CarriedInv, vars, Carried, Waiting, Results, Failures
<1>2. CASE \E f \in Execution : \/ RunTask(f) \/ SendTask(f) \/ BeatFires(f)
                                \/ SendTaskFails(f) \/ FallQuiet(f)
  BY <1>2, CarriedLaunch
<1>3. CASE \E p \in Process : Worker(p)
  BY <1>3, CarriedWorker
<1>4. ~ \E p \in Process : Crash(p) \/ Terminate(p) \/ Heartbeat(p)
  BY DEF Lossless, CarryInv, Crash, Fault, Terminate, NoHeartbeatInv, Heartbeat
<1>5. ~ \E r \in http : DatabaseError(r) \/ Lose(r)
  BY DEF Lossless, DatabaseError, Lose, Fault
<1>6. CASE \E r \in http : Backend(r) \/ TimeOut(r)
  BY <1>6, CarriedBackend
<1>7. QED
  BY <1>1, <1>2, <1>3, <1>4, <1>5, <1>6 DEF Next, Environment

\* Whatever the worker gives up on, whatever result handler raises and whatever
\* the broker delivers twice: a row that nobody holds is finished.
THEOREM AbandonedIsFinishedAlways ==
    ASSUME Lossless
    PROVE  Spec => []AbandonedIsFinished
<1>1. ~HeartbeatClient
  BY DEF Lossless
<1>2. Init => CarryInv
  BY ExchangeInit, RowInit, NoHeartbeatInit, CarryInit DEF CarryInv
<1>3. CarryInv /\ [Next]_vars => CarryInv'
  BY <1>1, ExchangeStep, RowStep, NoHeartbeatStep, ClaimStep, CarriedStep DEF CarryInv
<1>4. CarryInv => AbandonedIsFinished
  BY DEF CarryInv, CarriedInv, AbandonedIsFinished, Carried, Held, Waiting, Results, Failures
<1>5. QED
  BY <1>2, <1>3, <1>4, PTL DEF Spec

----------------------------------------------------------------------------
(* With heartbeats: the cleanup forgets nobody it has killed. *)

ZombieBasis == ExchangeInv /\ RowInv /\ UnclaimedInv /\ ZombieInv

LEMMA ZombieInit == Init => UnclaimedInv /\ ZombieInv
<1> SUFFICES ASSUME Init PROVE UnclaimedInv /\ ZombieInv
  OBVIOUS
<1>1. http = {} /\ \A e \in Execution : row[e].status = "ABSENT" /\ ~row[e].beat
  BY DEF Init, NoRow
<1>2. UnclaimedInv
  BY <1>1, ExecutionAssumption DEF Init, UnclaimedInv, Claims
<1>3. \A e \in Execution : ~Cleaned(e)
  BY <1>1 DEF Init, Idle, Cleaned
<1>4. ZombieInv
  BY <1>1, <1>3 DEF ZombieInv, Begun, Terminal
<1>5. QED
  BY <1>2, <1>4

\* A row that has begun never goes back, and keeps its heartbeat.
LEMMA BegunStays ==
    ASSUME ZombieBasis, Next, NEW e \in Execution
    PROVE  /\ row[e].status \in Begun => row'[e].status \in Begun
           /\ row[e].beat => row'[e].beat
           /\ row'[e].beat => row'[e].status \in Begun
           /\ row'[e].status \in Terminal => row'[e].finished
<1> DEFINE Goal == /\ row[e].status \in Begun => row'[e].status \in Begun
                   /\ row[e].beat => row'[e].beat
                   /\ row'[e].beat => row'[e].status \in Begun
                   /\ row'[e].status \in Terminal => row'[e].finished
<1>1. /\ row \in [Execution -> Row]
      /\ \A r \in http : r \in Request /\ r.id \in Execution
      /\ row[e].beat => row[e].status \in Begun
      /\ row[e].status \in Terminal => row[e].finished
  BY DEF ZombieBasis, ExchangeInv, TypeOK, Request, ZombieInv
<1>2. row' = row => Goal
  BY <1>1
<1>3. ASSUME NEW f \in Execution,
             RunTask(f) \/ SendTask(f) \/ SendTaskFails(f) \/ BeatFires(f) \/ FallQuiet(f)
      PROVE  Goal
  BY <1>1, <1>2, <1>3
     DEF RunTask, SendTask, SendTaskFails, BeatFires, FallQuiet, Row, Begun, Terminal
<1>4. ASSUME NEW p \in Process, Worker(p) \/ Crash(p) \/ Terminate(p) \/ Heartbeat(p)
      PROVE  Goal
  BY <1>2, <1>4
     DEF Worker, Deliver, AnnounceStart, HandlerReturns, HandlerRaises, ListStale,
         Revoke, ReportFailure, Crash, Terminate, Heartbeat
<1>5. ASSUME NEW r \in http, Claim(r)
      PROVE  Goal
  <2>1. r.id \in Scheduled /\ r \in Claims(r.id)
    BY <1>5 DEF Claim, ZombieBasis, UnclaimedInv, Claims
  <2>2. row[r.id].status = "ABSENT"
    BY <2>1 DEF ZombieBasis, UnclaimedInv
  <2>3. row' = [row EXCEPT ![r.id].status = "PENDING"]
    BY <1>5 DEF Claim
  <2>4. QED
    BY <1>1, <2>2, <2>3 DEF Row, Begun, Terminal
<1>6. ASSUME NEW r \in http, DispatchResult(r)
      PROVE  Goal
  BY <1>1, <1>6 DEF DispatchResult, FailMultiple, Row, Begun, Terminal
<1>7. ASSUME NEW r \in http, Write(r)
      PROVE  Goal
  <2>1. CASE e # r.id
    BY <1>1, <1>2, <1>7, <2>1 DEF Write
  <2>2. CASE e = r.id
    <3>1. /\ row'[e].status = IF Target(r) = r.seen THEN row[e].status ELSE Target(r)
          /\ row'[e].finished = (row[e].finished \/ Target(r) \in Terminal)
          /\ row'[e].beat = (row[e].beat \/ r.op = "beat")
      BY <1>1, <1>7, <2>2 DEF Write
    <3>2. Target(r) \in Begun
      BY DEF Target, Begun, Terminal
    <3>3. r.seen \in Begun => row[e].status \in Begun
      BY <2>2 DEF ZombieBasis, ZombieInv
    <3>4. row'[e].status \in Begun
      BY <3>1, <3>2, <3>3
    <3>5. row'[e].status \in Terminal => row'[e].finished
      BY <1>1, <3>1
    <3>6. QED
      BY <3>1, <3>4, <3>5
  <2>3. QED
    BY <2>1, <2>2
<1>8. ASSUME NEW r \in http,
             \/ Read(r) \/ ResultHandlerRaises(r) \/ ServeStale(r)
             \/ DatabaseError(r) \/ Lose(r) \/ TimeOut(r)
      PROVE  Goal
  BY <1>2, <1>8 DEF Read, ResultHandlerRaises, ServeStale, DatabaseError, Lose, TimeOut
<1>9. QED
  BY <1>3, <1>4, <1>5, <1>6, <1>7, <1>8 DEF Next, Backend, Environment

\* Where the requests of the next state come from.
LEMMA Descends ==
    ASSUME ExchangeInv, NEW r \in http,
           Backend(r) \/ DatabaseError(r) \/ Lose(r) \/ TimeOut(r),
           NEW s \in http'
    PROVE  \/ s \in http
           \/ /\ s.op = r.op /\ s.id = r.id /\ s.ids = r.ids
              /\ s.seen \in {"unread", r.seen, row[r.id].status}
              /\ http' = (http \ {r}) \cup {s}
<1>1. r \in Request
  BY DEF ExchangeInv, TypeOK
<1>2. CASE Claim(r) \/ Write(r) \/ ServeStale(r) \/ DatabaseError(r) \/ Lose(r)
  BY <1>2 DEF Claim, Write, ServeStale, DatabaseError, Lose, Answer
<1>3. CASE Read(r) \/ DispatchResult(r) \/ ResultHandlerRaises(r)
  <2>1. PICK t \in Request :
          /\ Replace(r, t) /\ t.op = r.op /\ t.id = r.id /\ t.ids = r.ids
          /\ t.seen \in {"unread", r.seen, row[r.id].status}
    BY <1>3, ReplacedBy
  <2>2. QED
    BY <2>1 DEF Replace
<1>4. CASE TimeOut(r)
  <2>1. /\ Orphan(r).op = r.op /\ Orphan(r).id = r.id /\ Orphan(r).ids = r.ids
        /\ Orphan(r).seen = r.seen
    BY <1>1 DEF Orphan, Request
  <2>2. QED
    BY <1>4, <2>1 DEF TimeOut, Replace
<1>5. QED
  BY <1>2, <1>3, <1>4 DEF Backend

\* A launch or a process sends a claim for nothing but the firing it was handed.
LEMMA UnclaimedWorker ==
    ASSUME ZombieBasis, Next,
           \/ \E e \in Execution : \/ RunTask(e) \/ SendTask(e) \/ BeatFires(e)
                                   \/ SendTaskFails(e) \/ FallQuiet(e)
           \/ \E p \in Process : Worker(p) \/ Crash(p) \/ Terminate(p) \/ Heartbeat(p)
    PROVE  UnclaimedInv'
<1> USE DEF ZombieBasis
<1>1. CASE \E e \in Execution : \/ RunTask(e) \/ SendTask(e) \/ BeatFires(e)
                                \/ SendTaskFails(e) \/ FallQuiet(e)
  <2>1. http' = http
    BY <1>1 DEF RunTask, SendTask, SendTaskFails, BeatFires, FallQuiet
  <2>2. \A f \in Scheduled : row[f].status = "ABSENT" => row'[f].status = "ABSENT"
    BY <1>1, ExecutionAssumption
       DEF RunTask, SendTask, SendTaskFails, BeatFires, FallQuiet, ExchangeInv, TypeOK, Row
  <2>3. \A f \in Scheduled : /\ f \notin dispatching'
                             /\ f \in queue' => f \in fired'
                             /\ f \notin fired' \/ f \in queue' =>
                                   f \notin fired \/ f \in queue
    BY <1>1 DEF RunTask, SendTask, SendTaskFails, BeatFires, FallQuiet, UnclaimedInv
  <2>4. QED
    BY <2>1, <2>2, <2>3 DEF UnclaimedInv, Claims
<1>2. ASSUME NEW p \in Process, NEW e \in Execution, Deliver(p, e)
      PROVE  UnclaimedInv'
  <2>1. row' = row /\ dispatching' = dispatching /\ fired' = fired
    BY <1>2 DEF Deliver
  <2>2. CASE e \in Scheduled
    <3> DEFINE new == NewRequest(p, "claim", e, {})
    <3>1. queue' = queue \ {e} /\ http' = http \cup {new} /\ e \in queue
      BY <1>2, <2>2 DEF Deliver
    <3>2. new.op = "claim" /\ new.id = e
      BY DEF NewRequest
    <3> HIDE DEF new
    <3>3. \A f : Claims(f)' = Claims(f) \cup (IF f = e THEN {new} ELSE {})
      BY <3>1, <3>2 DEF Claims
    <3>4. e \in fired /\ Claims(e) = {} /\ row[e].status = "ABSENT"
      BY <2>2, <3>1 DEF UnclaimedInv
    <3>5. \A f \in Scheduled \ {e} : /\ Claims(f)' = Claims(f)
                                     /\ f \in queue' <=> f \in queue
      BY <3>1, <3>3
    <3>6. Claims(e)' = {new} /\ e \notin queue'
      BY <3>1, <3>3, <3>4
    <3>7. \A r \in http' : r.op = "claim" => r.id \in Scheduled
      BY <2>2, <3>1, <3>2 DEF UnclaimedInv
    <3>8. QED
      BY <2>1, <3>4, <3>5, <3>6, <3>7 DEF UnclaimedInv
  <2>3. CASE e \notin Scheduled
    <3>1. http' = http /\ queue' \subseteq queue /\ queue \subseteq queue' \cup {e}
      BY <1>2, <2>3 DEF Deliver
    <3>2. QED
      BY <2>1, <2>3, <3>1 DEF UnclaimedInv, Claims
  <2>4. QED
    BY <2>2, <2>3
<1>3. ASSUME NEW p \in Process,
             \/ AnnounceStart(p) \/ HandlerReturns(p) \/ HandlerRaises(p) \/ ListStale(p)
             \/ Revoke(p) \/ ReportFailure(p) \/ Heartbeat(p)
      PROVE  UnclaimedInv'
  <2>1. row' = row /\ dispatching' = dispatching /\ fired' = fired /\ queue' = queue
    BY <1>3 DEF AnnounceStart, HandlerReturns, HandlerRaises, ListStale, Revoke,
                ReportFailure, Heartbeat
  <2>2. /\ http \subseteq http'
        /\ \A s \in http' : s \in http \/ s.op # "claim"
    BY <1>3 DEF AnnounceStart, HandlerReturns, HandlerRaises, ListStale, Revoke,
                ReportFailure, Heartbeat, Send, NewRequest
  <2>3. \A f : Claims(f)' = Claims(f)
    BY <2>2 DEF Claims
  <2>4. QED
    BY <2>1, <2>2, <2>3 DEF UnclaimedInv
<1>4. ASSUME NEW p \in Process, Crash(p) \/ Terminate(p)
      PROVE  UnclaimedInv'
  <2>1. /\ row' = row /\ dispatching' = dispatching /\ fired' = fired /\ queue' = queue
        /\ http' = {IF r.client = p THEN Orphan(r) ELSE r : r \in http}
    BY <1>4 DEF Crash, Terminate, Stop
  <2>2. \A r \in http : Orphan(r).op = r.op /\ Orphan(r).id = r.id
    BY DEF Orphan, ExchangeInv, TypeOK, Request
  <2>3. \A f : Claims(f)' = {IF r.client = p THEN Orphan(r) ELSE r : r \in Claims(f)}
    BY <2>1, <2>2 DEF Claims
  <2>4. \A s \in http' : s.op = "claim" => s.id \in Scheduled
    BY <2>1, <2>2 DEF UnclaimedInv
  <2>5. \A f \in Scheduled : \A r, s \in Claims(f)' : r = s
    BY <2>3 DEF UnclaimedInv
  <2>6. \A f : Claims(f)' = {} <=> Claims(f) = {}
    BY <2>3
  <2>7. QED
    BY <2>1, <2>4, <2>5, <2>6 DEF UnclaimedInv
<1>5. QED
  BY <1>1, <1>2, <1>3, <1>4 DEF Worker

\* The backend makes no claims, and writes to no row that is still claimed.
LEMMA UnclaimedBackend ==
    ASSUME ZombieBasis, NEW r \in http,
           Backend(r) \/ DatabaseError(r) \/ Lose(r) \/ TimeOut(r)
    PROVE  UnclaimedInv'
<1> USE DEF ZombieBasis
<1>1. dispatching' = dispatching /\ fired' = fired /\ queue' = queue
  BY DEF Backend, Claim, Read, DispatchResult, ResultHandlerRaises, Write, ServeStale,
         DatabaseError, Lose, TimeOut
<1>2. /\ row \in [Execution -> Row] /\ r.id \in Execution
      /\ r.op # "claim" => row[r.id].status # "ABSENT"
  BY DEF ExchangeInv, TypeOK, Request, RowInv, RowBeforeWork
<1>3. ASSUME NEW f \in Scheduled
      PROVE  /\ Claims(f)' # {} => Claims(f) # {}
             /\ \A s, t \in Claims(f)' : s = t
  <2>1. \A s \in Claims(f)' :
           s \in Claims(f) \/ (r \in Claims(f) /\ http' = (http \ {r}) \cup {s})
    BY Descends DEF Claims
  <2>2. \A s, t \in Claims(f) : s = t
    BY DEF UnclaimedInv
  <2>3. \A s \in Claims(f)' : s \in http' /\ (s \in http => s \in Claims(f))
    BY DEF Claims
  <2>4. Claims(f)' # {} => Claims(f) # {}
    BY <2>1
  <2>5. ASSUME NEW s \in Claims(f)', NEW t \in Claims(f)'
        PROVE  s = t
    <3>1. CASE s \in Claims(f) /\ t \in Claims(f)
      BY <2>2, <3>1
    <3>2. CASE r \in Claims(f) /\ http' = (http \ {r}) \cup {s}
      BY <2>2, <2>3, <3>2
    <3>3. CASE r \in Claims(f) /\ http' = (http \ {r}) \cup {t}
      BY <2>2, <2>3, <3>3
    <3>4. QED
      BY <2>1, <3>1, <3>2, <3>3
  <2>6. QED
    BY <2>4, <2>5
<1>4. ASSUME NEW s \in http', s.op = "claim"
      PROVE  s.id \in Scheduled
  BY <1>4, Descends DEF UnclaimedInv
<1>5. ASSUME NEW f \in Scheduled, row[f].status = "ABSENT",
             f \notin fired \/ f \in queue \/ Claims(f)' # {}
      PROVE  row'[f].status = "ABSENT"
  <2>1. f \in Execution
    BY ExecutionAssumption
  <2>2. CASE Claim(r)
    <3>1. r.op = "claim" /\ http' = http \ {r}
      BY <2>2 DEF Claim, Answer
    <3>2. r.id # f
      <4> SUFFICES ASSUME r.id = f PROVE FALSE
        OBVIOUS
      <4>1. r \in Claims(f)
        BY <3>1 DEF Claims
      <4>2. Claims(f)' = {}
        BY <3>1, <4>1 DEF Claims, UnclaimedInv
      <4>3. QED
        BY <1>5, <4>1, <4>2 DEF UnclaimedInv
    <3>3. QED
      BY <1>2, <1>5, <2>1, <2>2, <3>2 DEF Claim
  <2>3. CASE Write(r)
    <3>1. r.id # f
      BY <1>2, <1>5, <2>3 DEF Write
    <3>2. QED
      BY <1>2, <1>5, <2>1, <2>3, <3>1 DEF Write
  <2>4. CASE DispatchResult(r)
    BY <1>2, <1>5, <2>1, <2>4 DEF DispatchResult, FailMultiple
  <2>5. CASE \/ Read(r) \/ ResultHandlerRaises(r) \/ ServeStale(r)
             \/ DatabaseError(r) \/ Lose(r) \/ TimeOut(r)
    BY <1>5, <2>5 DEF Read, ResultHandlerRaises, ServeStale, DatabaseError, Lose, TimeOut
  <2>6. QED
    BY <2>2, <2>3, <2>4, <2>5 DEF Backend
<1>6. QED
  BY <1>1, <1>3, <1>4, <1>5 DEF UnclaimedInv

\* What a request has seen of a row that has begun stays so.
LEMMA SeenBegun ==
    ASSUME ZombieBasis, Next, NEW s \in http', s.seen \in Begun
    PROVE  row'[s.id].status \in Begun
<1>1. \A r \in http : /\ r.id \in Execution
                      /\ r.seen \in Begun => row'[r.id].status \in Begun
                      /\ row[r.id].status \in Begun => row'[r.id].status \in Begun
  BY BegunStays DEF ZombieBasis, ZombieInv, ExchangeInv, TypeOK, Request
<1>2. "unread" \notin Begun
  BY DEF Begun, Terminal
<1>3. CASE \E r \in http : Backend(r) \/ DatabaseError(r) \/ Lose(r) \/ TimeOut(r)
  BY <1>1, <1>2, <1>3, Descends DEF ZombieBasis
<1>4. CASE \E p \in Process : Crash(p) \/ Terminate(p)
  <2>1. \E r \in http : s = r \/ s = Orphan(r)
    BY <1>4 DEF Crash, Terminate, Stop
  <2>2. \A r \in http : Orphan(r).id = r.id /\ Orphan(r).seen = r.seen
    BY DEF Orphan, ZombieBasis, ExchangeInv, TypeOK, Request
  <2>3. QED
    BY <1>1, <2>1, <2>2
<1>5. CASE \E p \in Process : Worker(p) \/ Heartbeat(p)
  <2>1. \E op, e, ids, p : http' \subseteq http \cup {NewRequest(p, op, e, ids)}
    BY <1>5 DEF Worker, Deliver, AnnounceStart, HandlerReturns, HandlerRaises, ListStale,
                Revoke, ReportFailure, Heartbeat, Send
  <2>2. \A op, e, ids, p : NewRequest(p, op, e, ids).seen = "unread"
    BY DEF NewRequest
  <2>3. QED
    BY <1>1, <1>2, <2>1, <2>2
<1>6. CASE \E e \in Execution : \/ RunTask(e) \/ SendTask(e) \/ BeatFires(e)
                                \/ SendTaskFails(e) \/ FallQuiet(e)
  BY <1>1, <1>6 DEF RunTask, SendTask, SendTaskFails, BeatFires, FallQuiet
<1>7. QED
  BY <1>3, <1>4, <1>5, <1>6 DEF Next, Environment

\* A process learns of stale executions from the backend only.
LEMMA StaleKnown ==
    ASSUME ExchangeInv, NEW p \in Process, NEW q \in Process,
           NEW pc \in Busy \cup {"idle"}, proc' = [proc EXCEPT ![q] = At(q, pc)]
    PROVE  proc'[p].stale \subseteq proc[p].stale
BY DEF ExchangeInv, TypeOK, PoolProcess, At, Idle

\* Whom the cleanup has a hand in, it has read from the stale list, which holds
\* nobody without a heartbeat.
LEMMA CleanedKnown ==
    ASSUME ZombieBasis, Next, NEW e \in Execution, Cleaned(e)'
    PROVE  Cleaned(e) \/ row[e].beat
<1> USE DEF ZombieBasis
<1>1. ASSUME NEW f \in Execution,
             RunTask(f) \/ SendTask(f) \/ SendTaskFails(f) \/ BeatFires(f) \/ FallQuiet(f)
      PROVE  Cleaned(e)
  BY <1>1 DEF RunTask, SendTask, SendTaskFails, BeatFires, FallQuiet, Cleaned
<1>2. ASSUME NEW p \in Process, NEW f \in Execution, Deliver(p, f)
      PROVE  Cleaned(e)
  <2>1. revoked' = revoked /\ \A q \in Process : proc'[q].stale \subseteq proc[q].stale
    <3>1. /\ revoked' = revoked
          /\ \A q \in Process \ {p} : proc'[q] = proc[q]
          /\ proc'[p].stale = {}
      BY <1>2 DEF Deliver, Idle, ExchangeInv, TypeOK
    <3>2. QED
      BY <3>1
  <2>2. \A s \in http' : s \in http \/ s.ids = {}
    BY <1>2 DEF Deliver, NewRequest
  <2>3. QED
    BY <2>1, <2>2 DEF Cleaned
<1>3. ASSUME NEW p \in Process,
             \/ AnnounceStart(p) \/ HandlerReturns(p) \/ HandlerRaises(p) \/ ListStale(p)
             \/ Revoke(p) \/ ReportFailure(p)
      PROVE  Cleaned(e)
  <2>1. PICK pc \in Busy : proc' = [proc EXCEPT ![p] = At(p, pc)]
    BY <1>3 DEF AnnounceStart, HandlerReturns, HandlerRaises, ListStale, Revoke,
                ReportFailure, Send, Busy
  <2>2. \A q \in Process : proc'[q].stale \subseteq proc[q].stale
    BY <2>1, StaleKnown
  <2>3. \A s \in http' : s \in http \/ s.ids = {} \/ s.ids = proc[p].stale
    BY <1>3 DEF AnnounceStart, HandlerReturns, HandlerRaises, ListStale, Revoke,
                ReportFailure, Send, NewRequest
  <2>4. \A f \in revoked' : f \in revoked \/ f \in proc[p].stale
    BY <1>3 DEF AnnounceStart, HandlerReturns, HandlerRaises, ListStale, Revoke,
                ReportFailure
  <2>5. QED
    BY <2>2, <2>3, <2>4 DEF Cleaned
<1>4. ASSUME NEW p \in Process, Heartbeat(p)
      PROVE  Cleaned(e)
  <2>1. \A s \in http' : s \in http \/ s.ids = {}
    BY <1>4 DEF Heartbeat, NewRequest
  <2>2. QED
    BY <1>4, <2>1 DEF Heartbeat, Cleaned
<1>5. ASSUME NEW p \in Process, Crash(p) \/ Terminate(p)
      PROVE  Cleaned(e)
  <2>1. /\ revoked' = revoked
        /\ proc' = [proc EXCEPT ![p] = Idle]
        /\ http' = {IF r.client = p THEN Orphan(r) ELSE r : r \in http}
    BY <1>5 DEF Crash, Terminate, Stop
  <2>2. \A r \in http : Orphan(r).ids = r.ids
    BY DEF Orphan, ExchangeInv, TypeOK, Request
  <2>3. \A q \in Process : proc'[q].stale \subseteq proc[q].stale
    BY <2>1 DEF Idle, ExchangeInv, TypeOK
  <2>4. QED
    BY <2>1, <2>2, <2>3 DEF Cleaned
<1>6. ASSUME NEW r \in http, Backend(r) \/ DatabaseError(r) \/ Lose(r) \/ TimeOut(r)
      PROVE  Cleaned(e) \/ row[e].beat
  <2>1. /\ r \in Request /\ r.client \in Process
        /\ r.op \in {"claim", "start", "fail", "result", "stale", "beat"}
    BY DEF ExchangeInv, TypeOK, Request
  <2>2. revoked' = revoked
    BY <1>6 DEF Backend, Claim, Read, DispatchResult, ResultHandlerRaises, Write,
                ServeStale, DatabaseError, Lose, TimeOut
  <2>3. \A s \in http' : e \in s.ids => \E t \in http : e \in t.ids
    BY <1>6, Descends
  <2>4. CASE ServeStale(r)
    <3>1. \A q \in Process : proc'[q].stale \in {proc[q].stale, StaleExecutions}
      BY <2>1, <2>4 DEF ServeStale, ExchangeInv, TypeOK, PoolProcess
    <3>2. e \in StaleExecutions => row[e].beat
      BY DEF StaleExecutions
    <3>3. QED
      BY <2>2, <2>3, <3>1, <3>2 DEF Cleaned
  <2>5. CASE ~ServeStale(r)
    <3>1. \/ proc' = proc
          \/ \E pc \in Busy \cup {"idle"} :
                proc' = [proc EXCEPT ![r.client] = At(r.client, pc)]
      BY <1>6, <2>1, <2>5, AfterType
         DEF Backend, Claim, Read, DispatchResult, ResultHandlerRaises, Write,
             DatabaseError, Lose, TimeOut, Answer
    <3>2. \A q \in Process : proc'[q].stale \subseteq proc[q].stale
      BY <2>1, <3>1, StaleKnown
    <3>3. QED
      BY <2>2, <2>3, <3>2 DEF Cleaned
  <2>6. QED
    BY <2>4, <2>5
<1>7. QED
  BY <1>1, <1>2, <1>3, <1>4, <1>5, <1>6 DEF Next, Worker, Environment

LEMMA ZombieStep ==
    ExchangeInv /\ RowInv /\ UnclaimedInv /\ ZombieInv /\ [Next]_vars
        => UnclaimedInv' /\ ZombieInv'
<1> SUFFICES ASSUME ZombieBasis, [Next]_vars
             PROVE  UnclaimedInv' /\ ZombieInv'
  BY DEF ZombieBasis
<1>1. CASE UNCHANGED vars
  BY <1>1 DEF vars, ZombieBasis, UnclaimedInv, Claims, ZombieInv, Cleaned
<1>2. CASE Next
  <2>1. UnclaimedInv'
    BY <1>2, UnclaimedWorker, UnclaimedBackend DEF Next, Environment
  <2>2. \A e \in Execution : Cleaned(e)' => row'[e].beat
    BY <1>2, CleanedKnown, BegunStays DEF ZombieBasis, ZombieInv
  <2>3. ZombieInv'
    BY <1>2, <2>2, BegunStays, SeenBegun DEF ZombieInv
  <2>4. QED
    BY <2>1, <2>3
<1>3. QED
  BY <1>1, <1>2

\* Whatever is lost, late, delivered twice or killed, with heartbeats or without:
\* an execution the cleanup has a hand in has finished, or is on a later list.
THEOREM ZombiesAreNotForgottenAlways == Spec => []ZombiesAreNotForgotten
<1>1. ZombieInv => ZombiesAreNotForgotten
  BY DEF ZombieInv, ZombiesAreNotForgotten, Begun
<1>2. QED
  BY <1>1, ZombieInit, ZombieStep, RowInit, RowStep, ExchangeAlways, PTL DEF Spec
=============================================================================
