------------------------ MODULE TaskExecutionProofs ------------------------
(***************************************************************************)
(* Proofs about TaskExecution for every set of executions and processes,   *)
(* and every number of faults.                                             *)
(***************************************************************************)
EXTENDS TaskExecutionInv, TLAPS

----------------------------------------------------------------------------
(* The helpers of the HTTP exchange stay within their types. *)

\* A new request is well-typed.
LEMMA NewRequestType ==
    ASSUME NEW p \in Process, NEW e \in Execution, NEW ids \in SUBSET Execution,
           NEW op \in {"claim", "start", "fail", "result", "stale", "beat"}
    PROVE  NewRequest(p, op, e, ids) \in Request
BY DEF NewRequest, Request, Status

\* A process that moves to another pc stays well-typed.
LEMMA AtType ==
    ASSUME TypeOK, NEW p \in Process, NEW pc \in Busy \cup {"idle"}
    PROVE  At(p, pc) \in PoolProcess
BY DEF TypeOK, At, Idle, PoolProcess

\* Where the worker goes on after an answer, an error or a loss is a pc where
\* it waits for nothing.
LEMMA AfterType ==
    ASSUME NEW op \in {"claim", "start", "fail", "result", "stale", "beat"}
    PROVE  /\ AfterOK(op) \in Busy \cup {"idle"}
           /\ AfterError(op) \in Busy \cup {"idle"}
           /\ AfterLoss(op) \in Busy \cup {"idle"}
BY DEF AfterOK, AfterError, AfterLoss, Busy

\* What every exchange of messages preserves.
ExchangeOK ==
    /\ proc \in [Process -> PoolProcess]
    /\ http \subseteq Request
    /\ IdleIsFree /\ Matched /\ OneRequest

\* A process that waits for nothing sends a request.
LEMMA SendOK ==
    ASSUME ExchangeInv, NEW p \in Process, NEW ids \in SUBSET Execution,
           NEW op \in {"start", "fail", "result", "stale"},
           proc[p].pc \in {"accepted", "running", "revoking", "raised"},
           Send(p, WaitsAt[op], op, ids)
    PROVE  ExchangeOK'
<1> DEFINE pc == WaitsAt[op]
           new == NewRequest(p, op, proc[p].id, ids)
<1>1. pc \in Busy /\ pc # "idle"
  BY DEF WaitsAt, Busy
<1>2. proc[p].id \in Execution
  BY DEF ExchangeInv, TypeOK, IdleIsFree, PoolProcess
<1>3. new \in Request
  BY <1>2, NewRequestType
<1>4. At(p, pc) = [proc[p] EXCEPT !.pc = pc] /\ At(p, pc) \in PoolProcess
  BY <1>1, AtType DEF At, ExchangeInv
<1>5. \A r \in http : r.waited => r.client # p
  <2> SUFFICES ASSUME NEW r \in http, r.waited
               PROVE  r.client # p
    OBVIOUS
  <2>1. r.op \in {"claim", "start", "stale", "result", "fail"}
    BY DEF ExchangeInv, TypeOK, Request, Matched
  <2>2. proc[r.client].pc \in {"claiming", "starting", "listing", "reporting", "failing"}
    BY <2>1 DEF ExchangeInv, Matched, WaitsAt
  <2>3. QED
    BY <2>2
<1>6. /\ proc' = [proc EXCEPT ![p] = [proc[p] EXCEPT !.pc = pc]]
      /\ http' = http \cup {new}
  BY <1>4 DEF Send
<1>7. /\ new.op = op /\ new.client = p /\ new.id = proc[p].id
  BY DEF NewRequest
<1> HIDE DEF new, pc
<1>8. proc' \in [Process -> PoolProcess] /\ http' \subseteq Request
  BY <1>3, <1>4, <1>6 DEF ExchangeInv, TypeOK
<1>9. IdleIsFree'
  BY <1>1, <1>2, <1>6, ExecutionAssumption DEF ExchangeInv, TypeOK, IdleIsFree, PoolProcess
<1>10. Matched'
  BY <1>3, <1>5, <1>6, <1>7 DEF ExchangeInv, TypeOK, Matched, PoolProcess, Request, pc
<1>11. OneRequest'
  BY <1>5, <1>6, <1>7 DEF ExchangeInv, OneRequest
<1>12. QED
  BY <1>8, <1>9, <1>10, <1>11 DEF ExchangeOK

\* A request ends and its client, if it waits, goes on where it waits for
\* nothing.
LEMMA AnswerOK ==
    ASSUME ExchangeInv, NEW r \in http, NEW pc \in Busy \cup {"idle"}, Answer(r, pc)
    PROVE  ExchangeOK'
<1>1. r.client \in Process /\ r \in Request /\ r.id \in Execution
  BY DEF ExchangeInv, TypeOK, Request
<1>2. At(r.client, pc) \in PoolProcess
  BY <1>1, AtType DEF ExchangeInv
<1>3. proc' \in [Process -> PoolProcess] /\ http' \subseteq Request
  BY <1>1, <1>2 DEF Answer, ExchangeInv, TypeOK
<1>4. r.waited => proc[r.client].id \in Execution
  BY <1>1 DEF ExchangeInv, Matched
<1>5. IdleIsFree'
  BY <1>1, <1>4, ExecutionAssumption
     DEF Answer, At, Idle, ExchangeInv, TypeOK, IdleIsFree, PoolProcess
<1>6. \A s \in http' : s \in http /\ (s.waited => (r.waited => s.client # r.client))
  BY DEF Answer, ExchangeInv, OneRequest
<1>7. \A s \in http' : s.waited => proc'[s.client] = proc[s.client]
  BY <1>6 DEF Answer, ExchangeInv, TypeOK, Request
<1>8. Matched' /\ OneRequest'
  BY <1>6, <1>7 DEF ExchangeInv, Matched, OneRequest
<1>9. QED
  BY <1>3, <1>5, <1>8 DEF ExchangeOK

\* The backend makes progress on a request.
LEMMA ReplaceOK ==
    ASSUME ExchangeInv, NEW r \in http, NEW s \in Request, Replace(r, s),
           s.op = r.op, s.id = r.id, s.client = r.client, s.waited = r.waited,
           UNCHANGED proc
    PROVE  ExchangeOK'
BY DEF Replace, ExchangeInv, TypeOK, ExchangeOK, IdleIsFree, Matched, OneRequest

\* A request whose client is gone stays well-typed.
LEMMA OrphanType ==
    ASSUME NEW r \in Request
    PROVE  /\ Orphan(r) \in Request
           /\ ~Orphan(r).waited /\ Orphan(r).id = r.id /\ Orphan(r).op = r.op
           /\ Orphan(r).handled = r.handled
BY DEF Orphan, Request

\* A process stops, and none of the requests in flight is waited for by it.
LEMMA StopOK ==
    ASSUME ExchangeInv, NEW p \in Process, Stop(p)
    PROVE  ExchangeOK'
<1>1. Idle \in PoolProcess /\ Idle.pc = "idle" /\ Idle.id = NoExecution
  BY DEF Idle, PoolProcess
<1>2. \A r \in http : Orphan(r) \in Request /\ ~Orphan(r).waited
  BY OrphanType DEF ExchangeInv, TypeOK
<1>3. \A s \in http' : /\ s \in Request
                       /\ s.waited => s \in http /\ s.client # p
  BY <1>2 DEF Stop, ExchangeInv, TypeOK
<1>4. proc' = [proc EXCEPT ![p] = Idle]
  BY DEF Stop
<1>5. proc' \in [Process -> PoolProcess] /\ http' \subseteq Request
  BY <1>1, <1>3, <1>4 DEF ExchangeInv, TypeOK
<1>6. IdleIsFree'
  BY <1>1, <1>4 DEF ExchangeInv, TypeOK, IdleIsFree
<1>7. Matched' /\ OneRequest'
  BY <1>3, <1>4 DEF ExchangeInv, TypeOK, Matched, OneRequest, Request
<1>8. QED
  BY <1>5, <1>6, <1>7 DEF ExchangeOK

\* A client gives up.
LEMMA TimeOutOK ==
    ASSUME ExchangeInv, NEW r \in http, r.waited, Replace(r, Orphan(r)),
           NEW pc \in Busy \cup {"idle"},
           proc' = [proc EXCEPT ![r.client] = At(r.client, pc)]
    PROVE  ExchangeOK'
<1>1. r.client \in Process /\ r \in Request /\ r.id \in Execution
  BY DEF ExchangeInv, TypeOK, Request
<1>2. At(r.client, pc) \in PoolProcess
  BY <1>1, AtType DEF ExchangeInv
<1>3. Orphan(r) \in Request /\ ~Orphan(r).waited
  BY <1>1, OrphanType
<1>4. proc' \in [Process -> PoolProcess] /\ http' \subseteq Request
  BY <1>1, <1>2, <1>3 DEF Replace, ExchangeInv, TypeOK
<1>5. proc[r.client].id \in Execution
  BY <1>1 DEF ExchangeInv, Matched
<1>6. IdleIsFree'
  BY <1>1, <1>5, ExecutionAssumption
     DEF At, Idle, ExchangeInv, TypeOK, IdleIsFree, PoolProcess
<1>7. \A s \in http' : s.waited => s \in http /\ s.client # r.client
  BY <1>3 DEF Replace, ExchangeInv, OneRequest
<1>8. \A s \in http' : s.waited => proc'[s.client] = proc[s.client]
  BY <1>7 DEF ExchangeInv, TypeOK, Request
<1>9. Matched' /\ OneRequest'
  BY <1>7, <1>8 DEF ExchangeInv, Matched, OneRequest
<1>10. QED
  BY <1>4, <1>6, <1>9 DEF ExchangeOK

\* Counting a fault keeps the counter a natural number.
LEMMA FaultType ==
    ASSUME TypeOK, NEW kind, Fault(kind)
    PROVE  faults' \in Nat
BY DEF Fault, TypeOK

----------------------------------------------------------------------------
(* The exchange invariant, one step per action. *)

\* Initially nobody waits for anything.
LEMMA ExchangeInit == Init => ExchangeInv
<1> SUFFICES ASSUME Init PROVE ExchangeInv
  OBVIOUS
<1>1. TypeOK
  BY DEF Init, TypeOK, NoRow, Row, Status, Idle, PoolProcess
<1>2. IdleIsFree /\ Matched /\ OneRequest
  BY DEF Init, IdleIsFree, Matched, OneRequest, Idle
<1>3. QED
  BY <1>1, <1>2 DEF ExchangeInv

\* What leaves processes and requests alone keeps them matched.
LEMMA UnchangedExchange ==
    ASSUME ExchangeInv, UNCHANGED <<proc, http>>
    PROVE  ExchangeOK'
BY DEF ExchangeInv, TypeOK, ExchangeOK, IdleIsFree, Matched, OneRequest

\* Launching an execution, by the API or by beat, keeps the invariant.
LEMMA LaunchStep ==
    ASSUME ExchangeInv, NEW e \in Execution,
           RunTask(e) \/ SendTask(e) \/ SendTaskFails(e) \/ BeatFires(e) \/ FallQuiet(e)
    PROVE  ExchangeInv'
<1>1. ExchangeOK'
  BY UnchangedExchange DEF RunTask, SendTask, SendTaskFails, BeatFires, FallQuiet
<1>2. faults' \in Nat
  BY DEF RunTask, SendTask, SendTaskFails, BeatFires, FallQuiet, Fault, ExchangeInv, TypeOK
<1>3. row' \in [Execution -> Row]
  <2>1. row \in [Execution -> Row] /\ row[e] \in Row
    BY DEF ExchangeInv, TypeOK
  <2>2. /\ [row[e] EXCEPT !.status = "PENDING"] \in Row
        /\ [row[e] EXCEPT !.quiet = TRUE] \in Row
    BY <2>1 DEF Row, Status
  <2>3. \/ row' = row
        \/ row' = [row EXCEPT ![e] = [row[e] EXCEPT !.status = "PENDING"]]
        \/ row' = [row EXCEPT ![e] = [row[e] EXCEPT !.quiet = TRUE]]
    BY DEF RunTask, SendTask, SendTaskFails, BeatFires, FallQuiet
  <2>4. QED
    BY <2>1, <2>2, <2>3
<1>4. QED
  BY <1>1, <1>2, <1>3
     DEF RunTask, SendTask, SendTaskFails, BeatFires, FallQuiet, ExchangeInv, TypeOK,
         ExchangeOK

\* A delivery gives an idle process one execution and at most one request.
LEMMA DeliverStep ==
    ASSUME ExchangeInv, NEW p \in Process, NEW e \in Execution, Deliver(p, e)
    PROVE  ExchangeInv'
<1> DEFINE new == NewRequest(p, "claim", e, {})
           claiming == [Idle EXCEPT !.pc = "claiming", !.id = e]
           accepted == [Idle EXCEPT !.pc = "accepted", !.id = e]
<1>1. /\ new \in Request
      /\ new.op = "claim" /\ new.client = p /\ new.id = e
  BY NewRequestType DEF NewRequest
<1>2. /\ claiming \in PoolProcess /\ claiming.pc = "claiming" /\ claiming.id = e
      /\ accepted \in PoolProcess /\ accepted.pc = "accepted" /\ accepted.id = e
  BY DEF Idle, PoolProcess, Busy
<1>3. \A r \in http : r.waited => r.client # p
  <2> SUFFICES ASSUME NEW r \in http, r.waited
               PROVE  r.client # p
    OBVIOUS
  <2>1. r.op \in {"claim", "start", "stale", "result", "fail"}
    BY DEF ExchangeInv, TypeOK, Request, Matched
  <2>2. proc[r.client].pc # "idle"
    BY <2>1 DEF ExchangeInv, Matched, WaitsAt
  <2>3. QED
    BY <2>2 DEF Deliver
<1>4. /\ \/ proc' = [proc EXCEPT ![p] = claiming] /\ http' = http \cup {new}
         \/ proc' = [proc EXCEPT ![p] = accepted] /\ http' = http
  BY DEF Deliver
<1>5. WaitsAt["claim"] = "claiming"
  BY DEF WaitsAt
<1> HIDE DEF new, claiming, accepted
<1>6. proc' \in [Process -> PoolProcess] /\ http' \subseteq Request
  BY <1>1, <1>2, <1>4 DEF ExchangeInv, TypeOK
<1>7. IdleIsFree'
  BY <1>2, <1>4, ExecutionAssumption DEF ExchangeInv, TypeOK, IdleIsFree
<1>8. Matched' /\ OneRequest'
  BY <1>1, <1>2, <1>3, <1>4, <1>5 DEF ExchangeInv, TypeOK, Matched, OneRequest, Request
<1>9. faults' \in Nat
  BY DEF Deliver, Fault, ExchangeInv, TypeOK
<1>10. QED
  BY <1>6, <1>7, <1>8, <1>9 DEF Deliver, ExchangeInv, TypeOK

\* The steps of a process that are not a delivery.
LEMMA ProcessStep ==
    ASSUME ExchangeInv, NEW p \in Process,
           \/ AnnounceStart(p) \/ HandlerReturns(p) \/ HandlerRaises(p)
           \/ ListStale(p) \/ Revoke(p) \/ ReportFailure(p)
    PROVE  ExchangeInv'
<1> USE DEF ExchangeInv
<1>1. proc[p] \in PoolProcess /\ proc[p].stale \in SUBSET Execution
  BY DEF TypeOK, PoolProcess
<1>2. /\ WaitsAt["start"] = "starting" /\ WaitsAt["result"] = "reporting"
      /\ WaitsAt["stale"] = "listing" /\ WaitsAt["fail"] = "failing"
  BY DEF WaitsAt
<1>3. CASE AnnounceStart(p)
  <2>1. ExchangeOK'
    BY <1>2, <1>3, SendOK DEF AnnounceStart
  <2>2. QED
    BY <1>3, <2>1 DEF AnnounceStart, TypeOK, ExchangeOK
<1>4. CASE HandlerReturns(p)
  <2>1. ExchangeOK'
    BY <1>2, <1>4, SendOK DEF HandlerReturns
  <2>2. QED
    BY <1>4, <2>1 DEF HandlerReturns, TypeOK, ExchangeOK
<1>5. CASE HandlerRaises(p)
  <2>1. At(p, "raised") = [proc[p] EXCEPT !.pc = "raised"] /\ At(p, "raised") \in PoolProcess
    BY AtType DEF At, Busy
  <2>2. \A r \in http : r.waited => r.client # p
    <3> SUFFICES ASSUME NEW r \in http, r.waited
                 PROVE  r.client # p
      OBVIOUS
    <3>1. r.op \in {"claim", "start", "stale", "result", "fail"}
      BY DEF TypeOK, Request, Matched
    <3>2. proc[r.client].pc # "running"
      BY <3>1 DEF Matched, WaitsAt
    <3>3. QED
      BY <1>5, <3>2 DEF HandlerRaises
  <2>3. proc' = [proc EXCEPT ![p] = [proc[p] EXCEPT !.pc = "raised"]] /\ http' = http
    BY <1>5, <2>1 DEF HandlerRaises
  <2>4. IdleIsFree'
    BY <1>1, <1>5, <2>3 DEF HandlerRaises, TypeOK, IdleIsFree, PoolProcess
  <2>5. Matched' /\ OneRequest'
    BY <2>2, <2>3 DEF TypeOK, Matched, OneRequest, Request
  <2>6. QED
    BY <1>5, <2>1, <2>4, <2>5 DEF HandlerRaises, TypeOK
<1>6. CASE ListStale(p)
  <2>1. ExchangeOK'
    BY <1>2, <1>6, SendOK DEF ListStale
  <2>2. QED
    BY <1>6, <2>1 DEF ListStale, TypeOK, ExchangeOK
<1>7. CASE Revoke(p)
  <2>1. ExchangeOK'
    BY <1>1, <1>2, <1>7, SendOK DEF Revoke
  <2>2. revoked' \subseteq Execution
    BY <1>1, <1>7 DEF Revoke, TypeOK
  <2>3. QED
    BY <1>7, <2>1, <2>2 DEF Revoke, TypeOK, ExchangeOK
<1>8. CASE ReportFailure(p)
  <2>1. ExchangeOK'
    BY <1>2, <1>8, SendOK DEF ReportFailure
  <2>2. QED
    BY <1>8, <2>1 DEF ReportFailure, TypeOK, ExchangeOK
<1>9. QED
  BY <1>3, <1>4, <1>5, <1>6, <1>7, <1>8

\* The backend's steps on a request, and the faults that end one.
LEMMA WrittenRow ==
    ASSUME ExchangeInv, NEW r \in http, Write(r)
    PROVE  row' \in [Execution -> Row]
<1> DEFINE e == r.id
           new == [status   |-> IF Target(r) = r.seen THEN row[e].status ELSE Target(r),
                   result   |-> ResultOf(r),
                   finished |-> row[e].finished \/ Target(r) \in Terminal,
                   beat     |-> row[e].beat \/ r.op = "beat",
                   quiet    |-> row[e].quiet /\ r.op # "beat"]
<1>1. row[e] \in Row /\ e \in Execution
  BY DEF ExchangeInv, TypeOK, Request
<1>2. Target(r) \in Status
  BY DEF Target, Status
<1>3. ResultOf(r) \in {"none", "processed", "error", "rejected", "zombie"}
  BY <1>1 DEF ResultOf, Row
<1>4. /\ row[e].status \in Status
      /\ row[e].finished \in BOOLEAN /\ row[e].beat \in BOOLEAN
      /\ row[e].quiet \in BOOLEAN
  BY <1>1 DEF Row
<1>5. new \in Row
  BY <1>2, <1>3, <1>4 DEF Row
<1>6. row' = [row EXCEPT ![e] = new]
  BY DEF Write
<1>7. QED
  BY <1>5, <1>6 DEF ExchangeInv, TypeOK

\* The backend's steps keep the invariant.
LEMMA BackendStep ==
    ASSUME ExchangeInv, NEW r \in http, Backend(r)
    PROVE  ExchangeInv'
<1> USE DEF ExchangeInv
<1>1. /\ r \in Request /\ r.id \in Execution /\ r.client \in Process
      /\ r.op \in {"claim", "start", "fail", "result", "stale", "beat"}
  BY DEF TypeOK, Request
<1>2. row \in [Execution -> Row] /\ row[r.id] \in Row /\ row[r.id].status \in Status
  BY <1>1 DEF TypeOK, Row
<1>3. CASE Claim(r)
  <2>1. ExchangeOK'
    BY <1>1, <1>3, AnswerOK, AfterType DEF Claim
  <2>2. [row[r.id] EXCEPT !.status = "PENDING"] \in Row
    BY <1>2 DEF Row, Status
  <2>3. row' \in [Execution -> Row]
    BY <1>2, <1>3, <2>2 DEF Claim
  <2>4. QED
    BY <1>3, <2>1, <2>3 DEF Claim, TypeOK, ExchangeOK
<1>4. CASE Read(r)
  <2>1. [r EXCEPT !.seen = row[r.id].status] \in Request
    BY <1>1, <1>2 DEF Request
  <2>2. ExchangeOK'
    BY <1>1, <1>4, <2>1, ReplaceOK DEF Read, Request
  <2>3. QED
    BY <1>4, <2>2 DEF Read, TypeOK, ExchangeOK
<1>5. CASE DispatchResult(r)
  <2>1. PICK committed \in BOOLEAN :
          Replace(r, [r EXCEPT !.handled = "ok",
                               !.seen = IF committed THEN "unread" ELSE r.seen])
    BY <1>5 DEF DispatchResult
  <2>2. [r EXCEPT !.handled = "ok",
                  !.seen = IF committed THEN "unread" ELSE r.seen] \in Request
    BY <1>1 DEF Request
  <2>3. ExchangeOK'
    BY <1>1, <1>5, <2>1, <2>2, ReplaceOK DEF DispatchResult, Request
  <2>4. \A e \in Execution :
          [row[e] EXCEPT !.status = "FAILURE", !.result = "zombie",
                         !.finished = TRUE] \in Row
    BY <1>2 DEF Row, Status
  <2>5. row' \in [Execution -> Row]
    BY <1>2, <1>5, <2>4 DEF DispatchResult, FailMultiple
  <2>6. applied' \in [Execution -> Nat]
    BY <1>1, <1>5 DEF DispatchResult, TypeOK
  <2>7. QED
    BY <1>5, <2>3, <2>5, <2>6 DEF DispatchResult, TypeOK, ExchangeOK
<1>6. CASE ResultHandlerRaises(r)
  <2>1. [r EXCEPT !.handled = "error"] \in Request
    BY <1>1 DEF Request
  <2>2. ExchangeOK'
    BY <1>1, <1>6, <2>1, ReplaceOK DEF ResultHandlerRaises, Request
  <2>3. faults' \in Nat
    BY <1>6, FaultType DEF ResultHandlerRaises
  <2>4. QED
    BY <1>6, <2>2, <2>3 DEF ResultHandlerRaises, TypeOK, ExchangeOK
<1>7. CASE Write(r)
  <2>1. ExchangeOK'
    BY <1>1, <1>7, AnswerOK, AfterType DEF Write
  <2>2. row' \in [Execution -> Row]
    BY <1>7, WrittenRow
  <2>3. QED
    BY <1>7, <2>1, <2>2 DEF Write, TypeOK, ExchangeOK
<1>8. CASE ServeStale(r)
  <2>1. CASE ~r.waited
    <3>1. Answer(r, "idle")
      BY <1>8, <2>1 DEF ServeStale, Answer
    <3>2. ExchangeOK'
      BY <3>1, AnswerOK
    <3>3. QED
      BY <1>8, <3>2 DEF ServeStale, TypeOK, ExchangeOK
  <2>2. CASE r.waited
    <3> DEFINE p == r.client
               new == [proc[p] EXCEPT !.pc = "revoking", !.stale = StaleExecutions]
    <3>1. proc[p] \in PoolProcess /\ proc[p].id \in Execution
      BY <1>1, <2>2 DEF TypeOK, Matched
    <3>2. StaleExecutions \in SUBSET Execution
      BY DEF StaleExecutions
    <3>3. new \in PoolProcess /\ new.pc = "revoking" /\ new.id = proc[p].id
      BY <3>1, <3>2 DEF PoolProcess, Busy
    <3>4. AfterOK(r.op) = "revoking"
      BY <1>8 DEF ServeStale, AfterOK
    <3>5. proc' = [proc EXCEPT ![p] = new] /\ http' = http \ {r}
      BY <1>8, <2>2, <3>1, <3>4 DEF ServeStale, TypeOK, PoolProcess
    <3> HIDE DEF new
    <3>6. \A s \in http' : s \in http /\ (s.waited => s.client # p)
      BY <2>2, <3>5 DEF OneRequest
    <3>7. proc' \in [Process -> PoolProcess] /\ http' \subseteq Request
      BY <1>1, <3>3, <3>5 DEF TypeOK
    <3>8. IdleIsFree'
      BY <1>1, <3>1, <3>3, <3>5, ExecutionAssumption DEF TypeOK, IdleIsFree
    <3>9. Matched' /\ OneRequest'
      BY <3>5, <3>6 DEF TypeOK, Matched, OneRequest, Request
    <3>10. QED
      BY <1>8, <3>7, <3>8, <3>9 DEF ServeStale, TypeOK
  <2>3. QED
    BY <2>1, <2>2
<1>9. QED
  BY <1>3, <1>4, <1>5, <1>6, <1>7, <1>8 DEF Backend

\* Crashes, kills, heartbeats, losses and timeouts keep the invariant.
LEMMA EnvironmentStep ==
    ASSUME ExchangeInv,
           \/ \E p \in Process : Crash(p) \/ Terminate(p) \/ Heartbeat(p)
           \/ \E r \in http : DatabaseError(r) \/ Lose(r) \/ TimeOut(r)
    PROVE  ExchangeInv'
<1> USE DEF ExchangeInv
<1>1. ASSUME NEW p \in Process, Crash(p) \/ Terminate(p)
      PROVE  ExchangeInv'
  <2>1. ExchangeOK'
    BY <1>1, StopOK DEF Crash, Terminate
  <2>2. faults' \in Nat
    BY <1>1 DEF Crash, Terminate, Fault, TypeOK
  <2>3. QED
    BY <1>1, <2>1, <2>2 DEF Crash, Terminate, TypeOK, ExchangeOK
<1>2. ASSUME NEW p \in Process, Heartbeat(p)
      PROVE  ExchangeInv'
  <2> DEFINE new == NewRequest(p, "beat", proc[p].id, {})
  <2>1. proc[p].id \in Execution
    BY <1>2 DEF Heartbeat, TypeOK, IdleIsFree, PoolProcess
  <2>2. new \in Request /\ ~new.waited
    BY <2>1, NewRequestType DEF NewRequest
  <2>3. http' = http \cup {new} /\ proc' = proc
    BY <1>2 DEF Heartbeat
  <2> HIDE DEF new
  <2>4. ExchangeOK'
    BY <2>2, <2>3 DEF TypeOK, ExchangeOK, IdleIsFree, Matched, OneRequest
  <2>5. QED
    BY <1>2, <2>4 DEF Heartbeat, TypeOK, ExchangeOK
<1>3. ASSUME NEW r \in http, DatabaseError(r) \/ Lose(r) \/ TimeOut(r)
      PROVE  ExchangeInv'
  <2>1. r.op \in {"claim", "start", "fail", "result", "stale", "beat"}
    BY DEF TypeOK, Request
  <2>2. ExchangeOK'
    BY <1>3, <2>1, AfterType, AnswerOK, TimeOutOK DEF DatabaseError, Lose, TimeOut
  <2>3. faults' \in Nat
    BY <1>3 DEF DatabaseError, Lose, TimeOut, Fault, TypeOK
  <2>4. QED
    BY <1>3, <2>2, <2>3 DEF DatabaseError, Lose, TimeOut, TypeOK, ExchangeOK
<1>4. QED
  BY <1>1, <1>2, <1>3

\* The exchange invariant is inductive.
LEMMA ExchangeStep == ExchangeInv /\ [Next]_vars => ExchangeInv'
<1> SUFFICES ASSUME ExchangeInv, [Next]_vars
             PROVE  ExchangeInv'
  OBVIOUS
<1>1. CASE UNCHANGED vars
  <2>1. ExchangeOK'
    BY <1>1, UnchangedExchange DEF vars
  <2>2. QED
    BY <1>1, <2>1 DEF vars, ExchangeInv, TypeOK, ExchangeOK
<1>2. CASE Next
  BY <1>2, LaunchStep, DeliverStep, ProcessStep, BackendStep, EnvironmentStep
     DEF Next, Worker, Environment
<1>3. QED
  BY <1>1, <1>2

\* Processes and requests fit together in every reachable state.
LEMMA ExchangeAlways == Spec => []ExchangeInv
<1>1. Init => ExchangeInv
  BY ExchangeInit
<1>2. ExchangeInv /\ [Next]_vars => ExchangeInv'
  BY ExchangeStep
<1>3. QED
  BY <1>1, <1>2, PTL DEF Spec

\* Every variable keeps its type: in particular no process is sent on with a
\* request for "no execution", and no row holds a status outside the list.
THEOREM TypeCorrect == Spec => []TypeOK
<1>1. ExchangeInv => TypeOK
  BY DEF ExchangeInv
<1>2. QED
  BY <1>1, ExchangeAlways, PTL

----------------------------------------------------------------------------
(* A SUCCESS was handled: what the counting of results rests on. *)

\* Every step but DispatchResult leaves the handled results, and every step
\* but Write leaves the successes, as they are.
LEMMA HandledLaunch ==
    ASSUME ExchangeInv, HandledInv, NEW e \in Execution,
           RunTask(e) \/ SendTask(e) \/ SendTaskFails(e) \/ BeatFires(e) \/ FallQuiet(e)
    PROVE  HandledInv'
<1>1. applied' = applied /\ http' = http
  BY DEF RunTask, SendTask, SendTaskFails, BeatFires, FallQuiet
<1>2. \A f \in Execution : row'[f].status = "SUCCESS" => row[f].status = "SUCCESS"
  BY DEF RunTask, SendTask, SendTaskFails, BeatFires, FallQuiet, ExchangeInv, TypeOK, Row
<1>3. QED
  BY <1>1, <1>2 DEF HandledInv

\* The worker's steps make no request handled.
LEMMA HandledWorker ==
    ASSUME ExchangeInv, HandledInv, NEW p \in Process,
           Worker(p) \/ Crash(p) \/ Terminate(p) \/ Heartbeat(p)
    PROVE  HandledInv'
<1>1. row' = row /\ applied' = applied
  BY DEF Worker, Deliver, AnnounceStart, HandlerReturns, HandlerRaises, ListStale,
         Revoke, ReportFailure, Crash, Terminate, Heartbeat
<1>2. CASE Crash(p) \/ Terminate(p)
  <2>1. \A r \in http : Orphan(r).id = r.id /\ Orphan(r).handled = r.handled
    BY OrphanType DEF ExchangeInv, TypeOK
  <2>2. http' = {IF r.client = p THEN Orphan(r) ELSE r : r \in http}
    BY <1>2 DEF Crash, Terminate, Stop
  <2>3. QED
    BY <1>1, <2>1, <2>2 DEF HandledInv
<1>3. CASE Heartbeat(p) \/ Worker(p)
  <2>1. \E op, e, ids : http' \subseteq http \cup {NewRequest(p, op, e, ids)}
    BY <1>3 DEF Worker, Deliver, AnnounceStart, HandlerReturns, HandlerRaises,
                ListStale, Revoke, ReportFailure, Heartbeat, Send
  <2>2. \A op, e, ids : NewRequest(p, op, e, ids).handled = "no"
    BY DEF NewRequest
  <2>3. QED
    BY <1>1, <2>1, <2>2 DEF HandledInv
<1>4. QED
  BY <1>2, <1>3

\* A request is marked as handled in the step that counts its result, and
\* SUCCESS is assigned by a request that is marked.
LEMMA HandledBackend ==
    ASSUME ExchangeInv, HandledInv, NEW r \in http,
           Backend(r) \/ DatabaseError(r) \/ Lose(r) \/ TimeOut(r)
    PROVE  HandledInv'
<1>1. r \in Request /\ r.id \in Execution
  BY DEF ExchangeInv, TypeOK, Request
<1>2. CASE Claim(r)
  <2>1. \A e \in Execution : row'[e].status = "SUCCESS" => row[e].status = "SUCCESS"
    BY <1>2 DEF Claim, ExchangeInv, TypeOK, Row
  <2>2. applied' = applied /\ http' \subseteq http
    BY <1>2 DEF Claim, Answer
  <2>3. QED
    BY <2>1, <2>2 DEF HandledInv
<1>3. CASE Read(r) \/ ResultHandlerRaises(r) \/ TimeOut(r)
  <2>1. row' = row /\ applied' = applied
    BY <1>3 DEF Read, ResultHandlerRaises, TimeOut
  <2>2. Orphan(r).id = r.id /\ Orphan(r).handled = r.handled
    BY <1>1, OrphanType
  <2>3. \A s \in http' : s.handled = "ok" => s \in http \/ (s.id = r.id /\ r.handled = "ok")
    <3>1. /\ [r EXCEPT !.seen = row[r.id].status].id = r.id
          /\ [r EXCEPT !.seen = row[r.id].status].handled = r.handled
          /\ [r EXCEPT !.handled = "error"].handled = "error"
      BY <1>1 DEF Request
    <3>2. QED
      BY <1>3, <2>2, <3>1 DEF Read, ResultHandlerRaises, TimeOut, Replace
  <2>4. QED
    BY <2>1, <2>3 DEF HandledInv
<1>4. CASE DispatchResult(r)
  <2>1. \A e \in Execution : row'[e].status = "SUCCESS" => row[e].status = "SUCCESS"
    BY <1>4 DEF DispatchResult, FailMultiple, ExchangeInv, TypeOK, Row
  <2>2. /\ applied'[r.id] > 0
        /\ \A e \in Execution : applied[e] > 0 => applied'[e] > 0
    BY <1>1, <1>4 DEF DispatchResult, ExchangeInv, TypeOK
  <2>3. \A s \in http' : s \in http \/ s.id = r.id
    BY <1>1, <1>4 DEF DispatchResult, Replace, Request
  <2>4. \A s \in http : s.id \in Execution
    BY DEF ExchangeInv, TypeOK, Request
  <2>5. QED
    BY <2>1, <2>2, <2>3, <2>4 DEF HandledInv
<1>5. CASE Write(r)
  <2>1. applied' = applied /\ http' \subseteq http
    BY <1>5 DEF Write, Answer
  <2>2. Target(r) = "SUCCESS" => r.handled = "ok"
    BY DEF Target
  <2>3. \A e \in Execution :
          row'[e].status = "SUCCESS" =>
            row[e].status = "SUCCESS" \/ (e = r.id /\ r.handled = "ok")
    BY <1>1, <1>5, <2>2 DEF Write, ExchangeInv, TypeOK
  <2>4. QED
    BY <2>1, <2>3 DEF HandledInv
<1>6. CASE ServeStale(r) \/ DatabaseError(r) \/ Lose(r)
  <2>1. row' = row /\ applied' = applied /\ http' \subseteq http
    BY <1>6 DEF ServeStale, DatabaseError, Lose, Answer
  <2>2. QED
    BY <2>1 DEF HandledInv
<1>7. QED
  BY <1>2, <1>3, <1>4, <1>5, <1>6 DEF Backend

\* The invariant of handled results is inductive, given the exchange invariant.
LEMMA HandledStep == ExchangeInv /\ HandledInv /\ [Next]_vars => HandledInv'
<1> SUFFICES ASSUME ExchangeInv, HandledInv, [Next]_vars
             PROVE  HandledInv'
  OBVIOUS
<1>1. CASE UNCHANGED vars
  BY <1>1 DEF vars, HandledInv
<1>2. CASE Next
  BY <1>2, HandledLaunch, HandledWorker, HandledBackend DEF Next, Environment
<1>3. QED
  BY <1>1, <1>2

----------------------------------------------------------------------------
(* A result is handled at most once, as long as the broker delivers once. *)

\* A row is never deleted.
LEMMA RowsStay ==
    ASSUME ExchangeInv, NEW e \in Execution, row[e].status # "ABSENT", Next
    PROVE  row'[e].status # "ABSENT"
<1>1. row \in [Execution -> Row] /\ \A r \in http : r.id \in Execution
  BY DEF ExchangeInv, TypeOK, Request
<1>2. ASSUME NEW f \in Execution,
             RunTask(f) \/ SendTask(f) \/ SendTaskFails(f) \/ BeatFires(f) \/ FallQuiet(f)
      PROVE  row'[e].status # "ABSENT"
  BY <1>1, <1>2 DEF RunTask, SendTask, SendTaskFails, BeatFires, FallQuiet, Row
<1>3. ASSUME NEW p \in Process, Worker(p) \/ Crash(p) \/ Terminate(p) \/ Heartbeat(p)
      PROVE  row'[e].status # "ABSENT"
  BY <1>3 DEF Worker, Deliver, AnnounceStart, HandlerReturns, HandlerRaises, ListStale,
              Revoke, ReportFailure, Crash, Terminate, Heartbeat
<1>4. ASSUME NEW r \in http, Claim(r)
      PROVE  row'[e].status # "ABSENT"
  BY <1>1, <1>4 DEF Claim, Row
<1>5. ASSUME NEW r \in http, DispatchResult(r)
      PROVE  row'[e].status # "ABSENT"
  BY <1>1, <1>5 DEF DispatchResult, FailMultiple, Row
<1>6. ASSUME NEW r \in http, Write(r)
      PROVE  row'[e].status # "ABSENT"
  <2>1. Target(r) # "ABSENT"
    BY DEF Target
  <2>2. QED
    BY <1>1, <1>6, <2>1 DEF Write
<1>7. ASSUME NEW r \in http,
             \/ Read(r) \/ ResultHandlerRaises(r) \/ ServeStale(r)
             \/ DatabaseError(r) \/ Lose(r) \/ TimeOut(r)
      PROVE  row'[e].status # "ABSENT"
  BY <1>7 DEF Read, ResultHandlerRaises, ServeStale, DatabaseError, Lose, TimeOut
<1>8. QED
  BY <1>2, <1>3, <1>4, <1>5, <1>6, <1>7 DEF Next, Backend, Environment

\* A row is never deleted and a firing never taken back.
LEMMA LaunchedForEver ==
    ASSUME ExchangeInv, NEW e \in Execution, Launched(e), Next
    PROVE  Launched(e)'
<1>1. fired \subseteq fired'
  BY DEF Next, Worker, Backend, Environment, RunTask, SendTask, SendTaskFails, BeatFires,
         FallQuiet, Deliver, AnnounceStart, HandlerReturns, HandlerRaises, ListStale,
         Revoke, ReportFailure, Crash, Terminate, Heartbeat, Claim, Read, DispatchResult,
         ResultHandlerRaises, Write, ServeStale, DatabaseError, Lose, TimeOut
<1>2. row[e].status # "ABSENT" => row'[e].status # "ABSENT"
  BY RowsStay
<1>3. QED
  BY <1>1, <1>2 DEF Launched

\* A step that gives the right to nobody keeps it in one place.
LEMMA RightKept ==
    ASSUME NEW e \in Execution, RightOf(e), Launched(e) => Launched(e)',
           e \in dispatching' => e \in dispatching, e \in queue' => e \in queue,
           applied'[e] = applied[e],
           \A p \in Process : Executes(p, e)' => Executes(p, e),
           \A s \in http' : Unhandled(s, e) => InResult(e),
           \A r, s \in http' : Unhandled(r, e) /\ Unhandled(s, e) => r = s
    PROVE  RightOf(e)'
BY DEF RightOf, Waiting, InWork, InResult, Unhandled

\* An answer does not bring a process back to a task it has reported.
LEMMA AnswerWork ==
    ASSUME ExchangeInv, NEW r \in http, NEW pc \in Busy \cup {"idle"},
           r.waited => proc' = [proc EXCEPT ![r.client] = At(r.client, pc)],
           ~r.waited => proc' = proc,
           pc \in Executing => r.op \in {"claim", "start", "stale"},
           NEW e \in Execution, NEW p \in Process, Executes(p, e)'
    PROVE  Executes(p, e)
<1>1. r.client \in Process
  BY DEF ExchangeInv, TypeOK, Request
<1>2. CASE r.waited /\ p = r.client
  <2>1. proc'[p] = At(p, pc) /\ proc[p] \in PoolProcess
    BY <1>1, <1>2 DEF ExchangeInv, TypeOK
  <2>2. proc'[p].id = e /\ proc'[p].pc \in Executing
    BY DEF Executes
  <2>3. pc # "idle"
    BY <2>1, <2>2 DEF At, Idle, Executing
  <2>4. proc'[p].id = proc[p].id /\ proc'[p].pc = pc
    BY <2>1, <2>3 DEF At, PoolProcess
  <2>5. r.op \in {"claim", "start", "stale"}
    BY <2>2, <2>4
  <2>6. proc[p].pc = WaitsAt[r.op]
    BY <1>2 DEF ExchangeInv, Matched
  <2>7. proc[p].pc \in Executing
    BY <2>5, <2>6 DEF WaitsAt, Executing
  <2>8. QED
    BY <2>2, <2>4, <2>7 DEF Executes
<1>3. CASE ~r.waited \/ p # r.client
  BY <1>1, <1>3 DEF Executes, ExchangeInv, TypeOK
<1>4. QED
  BY <1>2, <1>3

\* A launch takes its right from nowhere; handing it on leaves it in one place.
LEMMA RightLaunch ==
    ASSUME ExchangeInv, NEW e \in Execution, RightOf(e), Launched(e) => Launched(e)',
           NEW f \in Execution,
           RunTask(f) \/ SendTask(f) \/ SendTaskFails(f) \/ BeatFires(f) \/ FallQuiet(f)
    PROVE  RightOf(e)'
<1>1. proc' = proc /\ http' = http /\ applied' = applied
  BY DEF RunTask, SendTask, SendTaskFails, BeatFires, FallQuiet
<1>2. InWork(e)' = InWork(e) /\ InResult(e)' = InResult(e)
  BY <1>1 DEF InWork, InResult, Executes, Unhandled
<1>3. \A p \in Process : Executes(p, e)' = Executes(p, e)
  BY <1>1 DEF Executes
<1>4. applied[e] \in Nat /\ row[f] \in Row
  BY DEF ExchangeInv, TypeOK
<1>5. CASE e = f /\ (RunTask(f) \/ BeatFires(f))
  <2>1. ~Launched(e)
    BY <1>5 DEF RunTask, BeatFires, Launched
  <2>2. ~Waiting(e) /\ ~InWork(e) /\ ~InResult(e) /\ applied[e] = 0
    BY <2>1, <1>4 DEF RightOf
  <2>3. Launched(e)'
    BY <1>4, <1>5 DEF RunTask, BeatFires, Launched, ExchangeInv, TypeOK, Row
  <2>4. ~(e \in dispatching' /\ e \in queue')
    BY <1>5, <2>2 DEF RunTask, BeatFires, Waiting
  <2>5. QED
    BY <1>1, <1>2, <1>3, <2>2, <2>3, <2>4 DEF RightOf, Waiting, Unhandled
<1>6. CASE ~(e = f /\ (RunTask(f) \/ BeatFires(f)))
  <2>1. /\ Waiting(e)' => Waiting(e)
        /\ ~(e \in dispatching' /\ e \in queue')
    BY <1>6 DEF RunTask, SendTask, SendTaskFails, BeatFires, FallQuiet, Waiting, RightOf
  <2>2. QED
    BY <1>1, <1>2, <1>3, <2>1 DEF RightOf, Unhandled
<1>7. QED
  BY <1>5, <1>6

\* A delivery moves the right from the broker to the process.
LEMMA RightDeliver ==
    ASSUME ExchangeInv, "redeliver" \notin FaultKinds,
           NEW e \in Execution, RightOf(e), Launched(e) => Launched(e)',
           NEW p \in Process, NEW f \in Execution, Deliver(p, f)
    PROVE  RightOf(e)'
<1>1. /\ queue' = queue \ {f} /\ dispatching' = dispatching /\ applied' = applied
      /\ f \in queue
  BY DEF Deliver, Fault
<1>2. \A s \in http' : s \in http \/ s.op = "claim"
  BY DEF Deliver, NewRequest
<1>3. /\ \A q \in Process \ {p} : proc'[q] = proc[q]
      /\ proc'[p].id = f
      /\ proc[p].pc = "idle"
  BY DEF Deliver, Idle, ExchangeInv, TypeOK, PoolProcess
<1>4. /\ \A s \in http' : Unhandled(s, e) => s \in http
  BY <1>2 DEF Unhandled
<1>5. CASE e = f
  <2>1. Waiting(e)
    BY <1>1, <1>5 DEF Waiting
  <2>2. ~InWork(e) /\ ~InResult(e) /\ applied[e] = 0 /\ Launched(e) /\ ~Waiting(e)'
    BY <1>1, <1>5, <2>1 DEF RightOf, Waiting
  <2>3. \A q \in Process : Executes(q, e)' => q = p
    BY <1>3, <2>2 DEF Executes, InWork
  <2>4. ~InResult(e)'
    BY <1>4, <2>2 DEF InResult, Unhandled
  <2>5. QED
    BY <1>1, <1>4, <2>2, <2>3, <2>4 DEF RightOf, Unhandled, InResult, Waiting
<1>6. CASE e # f
  <2>1. \A q \in Process : Executes(q, e)' => Executes(q, e)
    BY <1>3, <1>6 DEF Executes
  <2>2. \A s \in http' : Unhandled(s, e) => InResult(e)
    BY <1>4 DEF InResult
  <2>3. \A r, s \in http' : Unhandled(r, e) /\ Unhandled(s, e) => r = s
    BY <1>4 DEF RightOf
  <2>4. QED
    BY <1>1, <2>1, <2>2, <2>3, RightKept
<1>7. QED
  BY <1>5, <1>6

\* The process hands its right to the result it posts, or keeps or drops it.
LEMMA RightProcess ==
    ASSUME ExchangeInv, NEW e \in Execution, RightOf(e), Launched(e) => Launched(e)',
           NEW p \in Process,
           \/ AnnounceStart(p) \/ HandlerReturns(p) \/ HandlerRaises(p)
           \/ ListStale(p) \/ Revoke(p) \/ ReportFailure(p) \/ Heartbeat(p)
    PROVE  RightOf(e)'
<1>1. dispatching' = dispatching /\ queue' = queue /\ applied' = applied
  BY DEF AnnounceStart, HandlerReturns, HandlerRaises, ListStale, Revoke, ReportFailure,
         Heartbeat
<1>2. proc[p] \in PoolProcess /\ proc \in [Process -> PoolProcess]
  BY DEF ExchangeInv, TypeOK
<1>3. /\ WaitsAt["start"] = "starting" /\ WaitsAt["result"] = "reporting"
      /\ WaitsAt["stale"] = "listing" /\ WaitsAt["fail"] = "failing"
  BY DEF WaitsAt
<1>4. \A pc \in Busy : At(p, pc).pc = pc /\ At(p, pc).id = proc[p].id
  BY <1>2 DEF At, Busy, PoolProcess
<1>5. CASE HandlerReturns(p) \/ Revoke(p)
  <2>1. PICK x : /\ proc' = [proc EXCEPT ![p] = At(p, "reporting")]
                 /\ http' = http \cup {NewRequest(p, "result", proc[p].id, x)}
    BY <1>5 DEF HandlerReturns, Revoke, Send
  <2>2. /\ NewRequest(p, "result", proc[p].id, x).op = "result"
        /\ NewRequest(p, "result", proc[p].id, x).id = proc[p].id
    BY DEF NewRequest
  <2>3. /\ proc'[p].pc = "reporting"
        /\ \A q \in Process \ {p} : proc'[q] = proc[q]
    BY <1>2, <1>4, <2>1 DEF Busy
  <2>4. \A q \in Process : Executes(q, e)' => Executes(q, e) /\ q # p
    BY <2>3 DEF Executes, Executing
  <2>5. CASE proc[p].id = e
    <3>1. Executes(p, e)
      BY <1>5, <2>5 DEF HandlerReturns, Revoke, Executes, Executing
    <3>2. ~Waiting(e) /\ ~InResult(e) /\ applied[e] = 0 /\ Launched(e)
      BY <3>1 DEF RightOf, InWork
    <3>3. ~InWork(e)' /\ ~Waiting(e)'
      BY <1>1, <2>4, <3>1, <3>2 DEF RightOf, InWork, Waiting
    <3>4. \A s \in http' :
            Unhandled(s, e) => s = NewRequest(p, "result", proc[p].id, x)
      BY <2>1, <3>2 DEF InResult
    <3>5. QED
      BY <1>1, <3>2, <3>3, <3>4 DEF RightOf, InWork, Unhandled
  <2>6. CASE proc[p].id # e
    <3>1. \A s \in http' : Unhandled(s, e) => s \in http
      BY <2>1, <2>2, <2>6 DEF Unhandled
    <3>2. \A s \in http' : Unhandled(s, e) => InResult(e)
      BY <3>1 DEF InResult
    <3>3. \A r, s \in http' : Unhandled(r, e) /\ Unhandled(s, e) => r = s
      BY <3>1 DEF RightOf
    <3>4. QED
      BY <1>1, <2>4, <3>2, <3>3, RightKept
  <2>7. QED
    BY <2>5, <2>6
<1>6. CASE ~(HandlerReturns(p) \/ Revoke(p))
  <2>1. PICK pc \in {"starting", "raised", "listing", "failing", proc[p].pc} :
          /\ pc \in Executing => proc[p].pc \in Executing
          /\ \/ proc' = [proc EXCEPT ![p] = At(p, pc)] /\ pc \in Busy
             \/ proc' = proc
    BY <1>3, <1>6
       DEF AnnounceStart, HandlerRaises, ListStale, ReportFailure, Heartbeat, Send,
           Executing, Busy
  <2>2. \A q \in Process : Executes(q, e)' => Executes(q, e)
    BY <1>2, <1>4, <2>1 DEF Executes
  <2>3. \A s \in http' : s \in http \/ s.op # "result"
    BY <1>6 DEF AnnounceStart, HandlerRaises, ListStale, ReportFailure, Heartbeat, Send,
                NewRequest
  <2>4. \A s \in http' : Unhandled(s, e) => s \in http
    BY <2>3 DEF Unhandled
  <2>5. \A s \in http' : Unhandled(s, e) => InResult(e)
    BY <2>4 DEF InResult
  <2>6. \A r, s \in http' : Unhandled(r, e) /\ Unhandled(s, e) => r = s
    BY <2>4 DEF RightOf
  <2>7. QED
    BY <1>1, <2>2, <2>5, <2>6, RightKept
<1>7. QED
  BY <1>5, <1>6

\* A process that stops loses the right it had; its requests keep theirs.
LEMMA RightStop ==
    ASSUME ExchangeInv, NEW e \in Execution, RightOf(e), Launched(e) => Launched(e)',
           NEW p \in Process, Crash(p) \/ Terminate(p)
    PROVE  RightOf(e)'
<1>1. /\ dispatching' = dispatching /\ queue' = queue /\ applied' = applied
      /\ proc' = [proc EXCEPT ![p] = Idle]
      /\ http' = {IF r.client = p THEN Orphan(r) ELSE r : r \in http}
  BY DEF Crash, Terminate, Stop
<1>2. \A q \in Process : Executes(q, e)' => Executes(q, e)
  BY <1>1 DEF Executes, Executing, Idle, ExchangeInv, TypeOK
<1>3. \A r \in http : Unhandled(Orphan(r), e) <=> Unhandled(r, e)
  BY OrphanType DEF Unhandled, ExchangeInv, TypeOK
<1>4. \A s \in http' : Unhandled(s, e) => InResult(e)
  BY <1>1, <1>3 DEF InResult
<1>5. \A r, s \in http' : Unhandled(r, e) /\ Unhandled(s, e) => r = s
  BY <1>1, <1>3 DEF RightOf
<1>6. QED
  BY <1>1, <1>2, <1>4, <1>5, RightKept

\* Handling a result spends the right, losing one gives it up.
LEMMA RightBackend ==
    ASSUME ExchangeInv, NEW e \in Execution, RightOf(e), Launched(e) => Launched(e)',
           NEW r \in http,
           Backend(r) \/ DatabaseError(r) \/ Lose(r) \/ TimeOut(r)
    PROVE  RightOf(e)'
<1>1. /\ r \in Request /\ r.id \in Execution /\ r.client \in Process
      /\ r.op \in {"claim", "start", "fail", "result", "stale", "beat"}
  BY DEF ExchangeInv, TypeOK, Request
<1>2. dispatching' = dispatching /\ queue' = queue
  BY DEF Backend, Claim, Read, DispatchResult, ResultHandlerRaises, Write, ServeStale,
         DatabaseError, Lose, TimeOut
<1>3. /\ AfterOK(r.op) \in Executing => r.op \in {"claim", "start", "stale"}
      /\ AfterError(r.op) \in Executing => r.op \in {"claim", "start", "stale"}
      /\ AfterLoss(r.op) \in Executing => r.op \in {"claim", "start", "stale"}
  BY <1>1 DEF AfterOK, AfterError, AfterLoss, Executing
<1>4. CASE DispatchResult(r)
  <2>1. PICK committed \in BOOLEAN :
          Replace(r, [r EXCEPT !.handled = "ok",
                               !.seen = IF committed THEN "unread" ELSE r.seen])
    BY <1>4 DEF DispatchResult
  <2>2. ~Unhandled([r EXCEPT !.handled = "ok",
                             !.seen = IF committed THEN "unread" ELSE r.seen], e)
    BY <1>1 DEF Unhandled, Request
  <2>3. \A s \in http' : Unhandled(s, e) => s \in http \ {r}
    BY <2>1, <2>2 DEF Replace
  <2>4. proc' = proc /\ applied' = [applied EXCEPT ![r.id] = @ + 1]
    BY <1>4 DEF DispatchResult
  <2>5. \A q \in Process : Executes(q, e)' = Executes(q, e)
    BY <2>4 DEF Executes
  <2>6. CASE r.id = e
    <3>1. Unhandled(r, e)
      BY <1>4, <2>6 DEF DispatchResult, Unhandled
    <3>2. InResult(e)
      BY <3>1 DEF InResult
    <3>3. ~Waiting(e) /\ ~InWork(e) /\ applied[e] = 0 /\ Launched(e)
      BY <3>2 DEF RightOf
    <3>4. ~InResult(e)'
      BY <2>3, <3>1 DEF RightOf, InResult
    <3>5. ~Waiting(e)' /\ ~InWork(e)'
      BY <1>2, <2>5, <3>3 DEF Waiting, InWork
    <3>6. applied'[e] = 1
      BY <1>1, <2>4, <2>6, <3>3 DEF ExchangeInv, TypeOK
    <3>7. QED
      BY <3>3, <3>4, <3>5, <3>6 DEF RightOf, Waiting, InWork, InResult
  <2>7. CASE r.id # e
    <3>1. applied'[e] = applied[e]
      BY <2>4, <2>7 DEF ExchangeInv, TypeOK
    <3>2. \A s \in http' : Unhandled(s, e) => InResult(e)
      BY <2>3 DEF InResult
    <3>3. \A s, t \in http' : Unhandled(s, e) /\ Unhandled(t, e) => s = t
      BY <2>3 DEF RightOf
    <3>4. QED
      BY <1>2, <2>5, <3>1, <3>2, <3>3, RightKept
  <2>8. QED
    BY <2>6, <2>7
<1>5. CASE Read(r) \/ ResultHandlerRaises(r)
  <2>1. PICK s : /\ Replace(r, s)
                 /\ Unhandled(s, e) => Unhandled(r, e)
    <3>1. /\ Unhandled([r EXCEPT !.seen = row[r.id].status], e) => Unhandled(r, e)
          /\ Unhandled([r EXCEPT !.handled = "error"], e) => Unhandled(r, e)
      BY <1>1 DEF Unhandled, Request
    <3>2. QED
      BY <1>5, <3>1 DEF Read, ResultHandlerRaises
  <2>2. proc' = proc /\ applied' = applied
    BY <1>5 DEF Read, ResultHandlerRaises
  <2>3. \A q \in Process : Executes(q, e)' => Executes(q, e)
    BY <2>2 DEF Executes
  <2>4. \A t \in http' : Unhandled(t, e) => InResult(e)
    BY <2>1 DEF Replace, InResult
  <2>5. \A t, u \in http' : Unhandled(t, e) /\ Unhandled(u, e) => t = u
    BY <2>1 DEF Replace, RightOf
  <2>6. QED
    BY <1>2, <2>2, <2>3, <2>4, <2>5, RightKept
<1>6. CASE TimeOut(r)
  <2>1. /\ r.waited /\ Replace(r, Orphan(r)) /\ applied' = applied
        /\ proc' = [proc EXCEPT ![r.client] = At(r.client, AfterLoss(r.op))]
    BY <1>6 DEF TimeOut
  <2>2. \A q \in Process : Executes(q, e)' => Executes(q, e)
    BY <1>1, <1>3, <2>1, AfterType, AnswerWork
  <2>3. Unhandled(Orphan(r), e) => Unhandled(r, e)
    BY <1>1, OrphanType DEF Unhandled
  <2>4. \A t \in http' : Unhandled(t, e) => InResult(e)
    BY <2>1, <2>3 DEF Replace, InResult
  <2>5. \A t, u \in http' : Unhandled(t, e) /\ Unhandled(u, e) => t = u
    BY <2>1, <2>3 DEF Replace, RightOf
  <2>6. QED
    BY <1>2, <2>1, <2>2, <2>4, <2>5, RightKept
<1>7. CASE Claim(r) \/ Write(r) \/ ServeStale(r) \/ DatabaseError(r) \/ Lose(r)
  <2>1. applied' = applied /\ http' = http \ {r}
    BY <1>7 DEF Claim, Write, ServeStale, DatabaseError, Lose, Answer
  <2>2. \A q \in Process : Executes(q, e)' => Executes(q, e)
    <3>1. CASE ServeStale(r)
      <4>1. AfterOK(r.op) = "revoking" /\ WaitsAt[r.op] = "listing"
        BY <3>1 DEF ServeStale, AfterOK, WaitsAt
      <4>2. r.waited => proc[r.client].pc = "listing"
        BY <4>1 DEF ExchangeInv, Matched
      <4>3. \A q \in Process \ {r.client} : proc'[q] = proc[q]
        BY <3>1 DEF ServeStale, ExchangeInv, TypeOK
      <4>4. ~r.waited => proc' = proc
        BY <3>1 DEF ServeStale
      <4>5. proc'[r.client].id = proc[r.client].id
        BY <1>1, <3>1 DEF ServeStale, ExchangeInv, TypeOK, PoolProcess
      <4>6. QED
        BY <4>2, <4>3, <4>4, <4>5 DEF Executes, Executing
    <3>2. CASE ~ServeStale(r)
      <4>1. PICK pc \in {AfterOK(r.op), AfterError(r.op), AfterLoss(r.op)} : Answer(r, pc)
        BY <1>7, <3>2 DEF Claim, Write, DatabaseError, Lose
      <4>2. /\ pc \in Busy \cup {"idle"}
            /\ pc \in Executing => r.op \in {"claim", "start", "stale"}
        BY <1>1, <1>3, AfterType
      <4>3. /\ r.waited => proc' = [proc EXCEPT ![r.client] = At(r.client, pc)]
            /\ ~r.waited => proc' = proc
        BY <4>1 DEF Answer
      <4>4. QED
        BY <4>2, <4>3, AnswerWork
    <3>3. QED
      BY <3>1, <3>2
  <2>3. \A t \in http' : Unhandled(t, e) => InResult(e)
    BY <2>1 DEF InResult
  <2>4. \A t, u \in http' : Unhandled(t, e) /\ Unhandled(u, e) => t = u
    BY <2>1 DEF RightOf
  <2>5. QED
    BY <1>2, <2>1, <2>2, <2>3, <2>4, RightKept
<1>8. QED
  BY <1>4, <1>5, <1>6, <1>7 DEF Backend

\* The right stays in one place, given the exchange invariant.
LEMMA RightStep ==
    ASSUME "redeliver" \notin FaultKinds
    PROVE  ExchangeInv /\ RightInv /\ [Next]_vars => RightInv'
<1> SUFFICES ASSUME ExchangeInv, RightInv, [Next]_vars, NEW e \in Execution
             PROVE  RightOf(e)'
  BY DEF RightInv
<1>1. RightOf(e)
  BY DEF RightInv
<1>2. CASE UNCHANGED vars
  BY <1>1, <1>2 DEF vars, RightOf, Waiting, InWork, InResult, Executes, Unhandled, Launched
<1>3. CASE Next
  <2>1. Launched(e) => Launched(e)'
    BY <1>3, LaunchedForEver
  <2>2. QED
    BY <1>1, <1>3, <2>1, RightLaunch, RightDeliver, RightProcess, RightStop, RightBackend
       DEF Next, Worker, Environment
<1>4. QED
  BY <1>2, <1>3

\* If the broker delivers no message twice, the result handler of a module runs
\* to its end at most once for an execution, although the worker's POST may
\* time out, be answered late or be followed by a FAILURE.
THEOREM ResultIsAppliedOnce ==
    ASSUME "redeliver" \notin FaultKinds
    PROVE  Spec => []AppliedOnce
<1>1. Init => RightInv
  BY DEF Init, Idle, RightInv, RightOf, Waiting, InWork, InResult, Executes, Executing
<1>2. ExchangeInv /\ RightInv /\ [Next]_vars => RightInv'
  BY RightStep
<1>3. RightInv => AppliedOnce
  BY DEF RightInv, RightOf, AppliedOnce
<1>4. QED
  BY <1>1, <1>2, <1>3, ExchangeAlways, PTL DEF Spec

----------------------------------------------------------------------------
(* One holder at a time. *)

\* A step that gives an execution to nobody keeps it in one pair of hands.
LEMMA HolderKept ==
    ASSUME ExchangeInv, HolderInv, Next,
           dispatching' \subseteq dispatching, queue' \subseteq queue,
           \A p \in Process : proc'[p].id \in {proc[p].id, NoExecution}
    PROVE  HolderInv'
<1>1. dispatching \subseteq Execution /\ queue \subseteq Execution
  BY DEF ExchangeInv, TypeOK
<1>2. \A e \in Execution : Launched(e) => Launched(e)'
  BY LaunchedForEver
<1>3. \A e \in Execution :
         Waiting(e)' \/ (\E p \in Process : proc'[p].id = e) => Launched(e)'
  BY <1>2, ExecutionAssumption DEF HolderInv, Waiting
<1>4. SingleHolder'
  BY <1>1, ExecutionAssumption DEF HolderInv, SingleHolder
<1>5. QED
  BY <1>3, <1>4 DEF HolderInv

\* A process keeps its execution or gives it up, except at a delivery.
LEMMA IdKept ==
    ASSUME ExchangeInv, NEW p \in Process, NEW q \in Process,
           NEW pc \in Busy \cup {"idle"}, proc' = [proc EXCEPT ![q] = At(q, pc)]
    PROVE  proc'[p].id \in {proc[p].id, NoExecution}
BY DEF ExchangeInv, TypeOK, PoolProcess, At, Idle

\* The launch gives the execution to the API request or to the broker.
LEMMA HolderLaunch ==
    ASSUME ExchangeInv, HolderInv, Next, NEW f \in Execution,
           RunTask(f) \/ SendTask(f) \/ SendTaskFails(f) \/ BeatFires(f) \/ FallQuiet(f)
    PROVE  HolderInv'
<1>1. proc' = proc
  BY DEF RunTask, SendTask, SendTaskFails, BeatFires, FallQuiet
<1>2. \A e \in Execution : Launched(e) => Launched(e)'
  BY LaunchedForEver
<1>3. CASE RunTask(f) \/ BeatFires(f)
  <2>1. ~Launched(f)
    BY <1>3 DEF RunTask, BeatFires, Launched
  <2>2. /\ f \notin dispatching /\ f \notin queue
        /\ \A p \in Process : proc[p].id # f
    BY <2>1 DEF HolderInv, Waiting
  <2>3. Launched(f)'
    BY <1>3 DEF RunTask, BeatFires, Launched, ExchangeInv, TypeOK, Row
  <2>4. \/ dispatching' = dispatching \cup {f} /\ queue' = queue
        \/ dispatching' = dispatching /\ queue' = queue \cup {f}
    BY <1>3 DEF RunTask, BeatFires
  <2>5. SingleHolder'
    BY <1>1, <2>2, <2>4 DEF HolderInv, SingleHolder
  <2>6. \A e \in Execution :
           Waiting(e)' \/ (\E p \in Process : proc'[p].id = e) => Launched(e)'
    BY <1>1, <1>2, <2>3, <2>4 DEF HolderInv, Waiting
  <2>7. QED
    BY <2>5, <2>6 DEF HolderInv
<1>4. CASE SendTask(f)
  <2>1. /\ f \in dispatching /\ dispatching' = dispatching \ {f}
        /\ queue' = queue \cup {f}
    BY <1>4 DEF SendTask
  <2>2. SingleHolder'
    BY <1>1, <2>1 DEF HolderInv, SingleHolder
  <2>3. \A e \in Execution :
           Waiting(e)' \/ (\E p \in Process : proc'[p].id = e) => Launched(e)'
    BY <1>1, <1>2, <2>1 DEF HolderInv, Waiting
  <2>4. QED
    BY <2>2, <2>3 DEF HolderInv
<1>5. CASE SendTaskFails(f) \/ FallQuiet(f)
  <2>1. dispatching' \subseteq dispatching /\ queue' \subseteq queue
    BY <1>5 DEF SendTaskFails, FallQuiet
  <2>2. QED
    BY <1>1, <2>1, HolderKept
<1>6. QED
  BY <1>3, <1>4, <1>5

\* The broker hands the message over and forgets it.
LEMMA HolderDeliver ==
    ASSUME ExchangeInv, HolderInv, Next, "redeliver" \notin FaultKinds,
           NEW p \in Process, NEW f \in Execution, Deliver(p, f)
    PROVE  HolderInv'
<1>1. /\ f \in queue /\ queue' = queue \ {f} /\ dispatching' = dispatching
  BY DEF Deliver, Fault
<1>2. /\ \A q \in Process \ {p} : proc'[q] = proc[q]
      /\ proc'[p].id = f
  BY DEF Deliver, Idle, ExchangeInv, TypeOK, PoolProcess
<1>3. /\ f \notin dispatching
      /\ \A q \in Process : proc[q].id # f
  BY <1>1 DEF HolderInv, SingleHolder
<1>4. SingleHolder'
  BY <1>1, <1>2, <1>3 DEF HolderInv, SingleHolder
<1>5. \A e \in Execution : Launched(e) => Launched(e)'
  BY LaunchedForEver
<1>6. \A e \in Execution :
         Waiting(e)' \/ (\E q \in Process : proc'[q].id = e) => Launched(e)'
  BY <1>1, <1>2, <1>5 DEF HolderInv, Waiting
<1>7. QED
  BY <1>4, <1>6 DEF HolderInv

\* The process keeps the execution until it is done with it.
LEMMA HolderProcess ==
    ASSUME ExchangeInv, HolderInv, Next, NEW p \in Process,
           \/ AnnounceStart(p) \/ HandlerReturns(p) \/ HandlerRaises(p) \/ ListStale(p)
           \/ Revoke(p) \/ ReportFailure(p) \/ Heartbeat(p) \/ Crash(p) \/ Terminate(p)
    PROVE  HolderInv'
<1>1. dispatching' = dispatching /\ queue' = queue
  BY DEF AnnounceStart, HandlerReturns, HandlerRaises, ListStale, Revoke, ReportFailure,
         Heartbeat, Crash, Terminate
<1>2. \/ proc' = proc
      \/ \E pc \in Busy \cup {"idle"} : proc' = [proc EXCEPT ![p] = At(p, pc)]
  <2>1. At(p, "idle") = Idle
    BY DEF At
  <2>2. QED
    BY <2>1 DEF AnnounceStart, HandlerReturns, HandlerRaises, ListStale, Revoke,
                ReportFailure, Heartbeat, Crash, Terminate, Stop, Send, Busy
<1>3. \A q \in Process : proc'[q].id \in {proc[q].id, NoExecution}
  BY <1>2, IdKept
<1>4. QED
  BY <1>1, <1>3, HolderKept

\* An answer lets the process go on with its execution, or ends it.
LEMMA HolderBackend ==
    ASSUME ExchangeInv, HolderInv, Next, NEW r \in http,
           Backend(r) \/ DatabaseError(r) \/ Lose(r) \/ TimeOut(r)
    PROVE  HolderInv'
<1>1. r.client \in Process
  BY DEF ExchangeInv, TypeOK, Request
<1>2. dispatching' = dispatching /\ queue' = queue
  BY DEF Backend, Claim, Read, DispatchResult, ResultHandlerRaises, Write, ServeStale,
         DatabaseError, Lose, TimeOut
<1>3. /\ AfterOK(r.op) \in Busy \cup {"idle"}
      /\ AfterError(r.op) \in Busy \cup {"idle"}
      /\ AfterLoss(r.op) \in Busy \cup {"idle"}
  BY DEF AfterOK, AfterError, AfterLoss, Busy
<1>4. \A q \in Process : proc'[q].id \in {proc[q].id, NoExecution}
  <2>1. CASE ServeStale(r)
    BY <1>1, <2>1 DEF ServeStale, ExchangeInv, TypeOK, PoolProcess
  <2>2. CASE \/ Claim(r) \/ Read(r) \/ DispatchResult(r) \/ ResultHandlerRaises(r)
             \/ Write(r) \/ DatabaseError(r) \/ Lose(r) \/ TimeOut(r)
    <3>1. \/ proc' = proc
          \/ \E pc \in Busy \cup {"idle"} :
                proc' = [proc EXCEPT ![r.client] = At(r.client, pc)]
      BY <1>3, <2>2 DEF Claim, Read, DispatchResult, ResultHandlerRaises, Write,
                        DatabaseError, Lose, TimeOut, Answer
    <3>2. QED
      BY <1>1, <3>1, IdKept
  <2>3. QED
    BY <2>1, <2>2 DEF Backend
<1>5. QED
  BY <1>2, <1>4, HolderKept

LEMMA HolderStep ==
    ASSUME "redeliver" \notin FaultKinds
    PROVE  ExchangeInv /\ HolderInv /\ [Next]_vars => HolderInv'
<1> SUFFICES ASSUME ExchangeInv, HolderInv, [Next]_vars
             PROVE  HolderInv'
  OBVIOUS
<1>1. CASE UNCHANGED vars
  BY <1>1 DEF vars, HolderInv, SingleHolder, Waiting, Launched
<1>2. CASE Next
  <2>1. CASE \E e \in Execution : \/ RunTask(e) \/ SendTask(e) \/ BeatFires(e)
                                  \/ SendTaskFails(e) \/ FallQuiet(e)
    BY <1>2, <2>1, HolderLaunch
  <2>2. CASE \E p \in Process : Worker(p) \/ Crash(p) \/ Terminate(p) \/ Heartbeat(p)
    BY <1>2, <2>2, HolderDeliver, HolderProcess DEF Worker
  <2>3. CASE \E r \in http : Backend(r) \/ DatabaseError(r) \/ Lose(r) \/ TimeOut(r)
    BY <1>2, <2>3, HolderBackend
  <2>4. QED
    BY <1>2, <2>1, <2>2, <2>3 DEF Next, Environment
<1>3. QED
  BY <1>1, <1>2

LEMMA HolderInit == Init => HolderInv
BY ExecutionAssumption DEF Init, Idle, HolderInv, SingleHolder, Waiting

\* If the broker delivers no message twice, an execution is in one pair of
\* hands: no two processes work on it, and none while the API request that
\* launches it or the broker still has it.
THEOREM SingleHolderAlways ==
    ASSUME "redeliver" \notin FaultKinds
    PROVE  Spec => []SingleHolder
<1>1. HolderInv => SingleHolder
  BY DEF HolderInv
<1>2. QED
  BY <1>1, HolderInit, HolderStep, ExchangeAlways, PTL DEF Spec

----------------------------------------------------------------------------
(* The row comes first. *)

\* Process q has left the claim behind.
Works(q) == proc[q].pc \notin {"idle", "claiming"}

\* A step that brings nothing new to work on keeps what is worked on in rows.
LEMMA RowKept ==
    ASSUME ExchangeInv, RowInv, Next,
           \A e \in Execution \ Scheduled : Waiting(e)' => Waiting(e),
           \A q \in Process :
              Works(q)' => Works(q) /\ proc'[q].id = proc[q].id,
           \A s \in http' : s.op # "claim" =>
              \/ \E r \in http : r.op = s.op /\ r.id = s.id
              \/ \E q \in Process : Works(q) /\ proc[q].id = s.id
    PROVE  RowInv'
<1>1. \A q \in Process : Works(q) => proc[q].id \in Execution
  BY DEF Works, ExchangeInv, TypeOK, IdleIsFree, PoolProcess
<1>2. \A r \in http : r.id \in Execution
  BY DEF ExchangeInv, TypeOK, Request
<1>3. \A e \in Execution : row[e].status # "ABSENT" => row'[e].status # "ABSENT"
  BY RowsStay
<1>4. \A q \in Process : Works(q) => row[proc[q].id].status # "ABSENT"
  BY DEF RowInv, RowBeforeWork, Works
<1>5. \A q \in Process : Works(q)' => row'[proc'[q].id].status # "ABSENT"
  BY <1>1, <1>3, <1>4
<1>6. \A s \in http' : s.op # "claim" => row'[s.id].status # "ABSENT"
  BY <1>1, <1>2, <1>3, <1>4 DEF RowInv, RowBeforeWork
<1>7. RowBeforeWork'
  BY <1>5, <1>6 DEF RowBeforeWork, Works
<1>8. \A e \in Execution \ Scheduled : Waiting(e)' => row'[e].status # "ABSENT"
  BY <1>3 DEF RowInv
<1>9. QED
  BY <1>7, <1>8 DEF RowInv

\* run_task_by_name commits the row before it sends the message.
LEMMA RowLaunch ==
    ASSUME ExchangeInv, RowInv, Next, NEW f \in Execution,
           RunTask(f) \/ SendTask(f) \/ SendTaskFails(f) \/ BeatFires(f) \/ FallQuiet(f)
    PROVE  RowInv'
<1>1. proc' = proc /\ http' = http
  BY DEF RunTask, SendTask, SendTaskFails, BeatFires, FallQuiet
<1>2. \A q \in Process : Works(q)' => Works(q) /\ proc'[q].id = proc[q].id
  BY <1>1 DEF Works
<1>3. CASE RunTask(f)
  <2>1. row'[f].status # "ABSENT"
    BY <1>3 DEF RunTask, ExchangeInv, TypeOK, Row
  <2>2. \A e \in Execution : row[e].status # "ABSENT" => row'[e].status # "ABSENT"
    BY RowsStay
  <2>3. \A e \in Execution : Waiting(e)' => Waiting(e) \/ e = f
    BY <1>3 DEF RunTask, Waiting
  <2>4. \A q \in Process : Works(q) => proc[q].id \in Execution
    BY DEF Works, ExchangeInv, TypeOK, IdleIsFree, PoolProcess
  <2>5. \A r \in http : r.id \in Execution
    BY DEF ExchangeInv, TypeOK, Request
  <2>6. RowBeforeWork'
    BY <1>1, <2>2, <2>4, <2>5 DEF RowInv, RowBeforeWork, Works
  <2>7. QED
    BY <2>1, <2>2, <2>3, <2>6 DEF RowInv
<1>4. CASE ~RunTask(f)
  <2>1. \A e \in Execution \ Scheduled : Waiting(e)' => Waiting(e)
    BY <1>4 DEF SendTask, SendTaskFails, BeatFires, FallQuiet, Waiting
  <2>2. QED
    BY <1>1, <1>2, <2>1, RowKept
<1>5. QED
  BY <1>3, <1>4

\* A scheduled message has no row: the process that gets it asks for one.
LEMMA RowDeliver ==
    ASSUME ExchangeInv, RowInv, Next,
           NEW p \in Process, NEW f \in Execution, Deliver(p, f)
    PROVE  RowInv'
<1>1. row' = row /\ dispatching' = dispatching /\ queue' \subseteq queue /\ f \in queue
  BY DEF Deliver
<1>2. /\ \A q \in Process \ {p} : proc'[q] = proc[q]
      /\ proc'[p].id = f
      /\ f \in Scheduled => proc'[p].pc = "claiming"
  BY DEF Deliver, Idle, ExchangeInv, TypeOK, PoolProcess
<1>3. \A s \in http' : s \in http \/ s.op = "claim"
  BY DEF Deliver, NewRequest
<1>4. f \notin Scheduled => row[f].status # "ABSENT"
  BY <1>1 DEF RowInv, Waiting
<1>5. RowBeforeWork'
  BY <1>1, <1>2, <1>3, <1>4 DEF RowInv, RowBeforeWork
<1>6. QED
  BY <1>1, <1>5 DEF RowInv, Waiting

\* A process reports on what it works on.
LEMMA RowProcess ==
    ASSUME ExchangeInv, RowInv, Next, NEW p \in Process,
           \/ AnnounceStart(p) \/ HandlerReturns(p) \/ HandlerRaises(p) \/ ListStale(p)
           \/ Revoke(p) \/ ReportFailure(p) \/ Heartbeat(p)
    PROVE  RowInv'
<1>1. dispatching' = dispatching /\ queue' = queue
  BY DEF AnnounceStart, HandlerReturns, HandlerRaises, ListStale, Revoke, ReportFailure,
         Heartbeat
<1>2. Works(p)
  BY DEF AnnounceStart, HandlerReturns, HandlerRaises, ListStale, Revoke, ReportFailure,
         Heartbeat, Works
<1>3. \/ proc' = proc
      \/ \E pc \in Busy : proc' = [proc EXCEPT ![p] = At(p, pc)]
  BY DEF AnnounceStart, HandlerReturns, HandlerRaises, ListStale, Revoke, ReportFailure,
         Heartbeat, Send, Busy
<1>4. \A q \in Process : Works(q)' => Works(q) /\ proc'[q].id = proc[q].id
  BY <1>2, <1>3 DEF Works, At, Busy, ExchangeInv, TypeOK, PoolProcess
<1>5. \A s \in http' : s \in http \/ s.id = proc[p].id
  BY DEF AnnounceStart, HandlerReturns, HandlerRaises, ListStale, Revoke, ReportFailure,
         Heartbeat, Send, NewRequest
<1>6. QED
  BY <1>1, <1>2, <1>4, <1>5, RowKept DEF Waiting

\* A process that stops works on nothing; its requests keep their ids.
LEMMA RowStop ==
    ASSUME ExchangeInv, RowInv, Next, NEW p \in Process, Crash(p) \/ Terminate(p)
    PROVE  RowInv'
<1>1. /\ dispatching' = dispatching /\ queue' = queue
      /\ proc' = [proc EXCEPT ![p] = Idle]
      /\ http' = {IF r.client = p THEN Orphan(r) ELSE r : r \in http}
  BY DEF Crash, Terminate, Stop
<1>2. \A q \in Process : Works(q)' => Works(q) /\ proc'[q].id = proc[q].id
  BY <1>1 DEF Works, Idle, ExchangeInv, TypeOK
<1>3. \A r \in http : Orphan(r).op = r.op /\ Orphan(r).id = r.id
  BY DEF Orphan, ExchangeInv, TypeOK, Request
<1>4. \A s \in http' : \E r \in http : r.op = s.op /\ r.id = s.id
  BY <1>1, <1>3
<1>5. QED
  BY <1>1, <1>2, <1>4, RowKept DEF Waiting

\* An answer other than to a claim lets a process go on with what it works on.
LEMMA WorksKept ==
    ASSUME ExchangeInv, NEW r \in http, NEW pc \in Busy \cup {"idle"},
           r.waited => proc' = [proc EXCEPT ![r.client] = At(r.client, pc)],
           ~r.waited => proc' = proc,
           r.op = "claim" => pc = "idle",
           NEW q \in Process, Works(q)'
    PROVE  Works(q) /\ proc'[q].id = proc[q].id
<1>1. r.client \in Process /\ proc[q] \in PoolProcess
  BY DEF ExchangeInv, TypeOK, Request
<1>2. CASE r.waited /\ q = r.client
  <2>1. proc'[q] = At(q, pc)
    BY <1>1, <1>2 DEF ExchangeInv, TypeOK
  <2>2. pc # "idle"
    BY <2>1 DEF Works, At, Idle
  <2>3. proc'[q].id = proc[q].id
    BY <1>1, <2>1, <2>2 DEF At, PoolProcess
  <2>4. r.op # "claim" /\ r.op # "beat" /\ proc[q].pc = WaitsAt[r.op]
    BY <1>2, <2>2 DEF ExchangeInv, Matched
  <2>5. r.op \in {"start", "fail", "result", "stale"}
    BY <2>4 DEF ExchangeInv, TypeOK, Request
  <2>6. Works(q)
    BY <2>4, <2>5 DEF Works, WaitsAt
  <2>7. QED
    BY <2>3, <2>6
<1>3. CASE ~(r.waited /\ q = r.client)
  BY <1>1, <1>3 DEF Works, ExchangeInv, TypeOK
<1>4. QED
  BY <1>2, <1>3

\* The claim creates the row before the worker hears of it; every other
\* request leaves a process with the row it had.
LEMMA RowBackend ==
    ASSUME ExchangeInv, RowInv, Next, NEW r \in http,
           Backend(r) \/ DatabaseError(r) \/ Lose(r) \/ TimeOut(r)
    PROVE  RowInv'
<1>1. /\ r \in Request /\ r.client \in Process /\ r.id \in Execution
      /\ r.op \in {"claim", "start", "fail", "result", "stale", "beat"}
  BY DEF ExchangeInv, TypeOK, Request
<1>2. dispatching' = dispatching /\ queue' = queue
  BY DEF Backend, Claim, Read, DispatchResult, ResultHandlerRaises, Write, ServeStale,
         DatabaseError, Lose, TimeOut
<1>3. /\ AfterOK(r.op) \in Busy \cup {"idle"}
      /\ AfterError(r.op) \in Busy \cup {"idle"} /\ AfterLoss(r.op) \in Busy \cup {"idle"}
      /\ r.op = "claim" => AfterError(r.op) = "idle" /\ AfterLoss(r.op) = "idle"
  BY DEF AfterOK, AfterError, AfterLoss, Busy
<1>4. \A s \in http' : \E t \in http : t.op = s.op /\ t.id = s.id
  <2>1. CASE Claim(r) \/ Write(r) \/ ServeStale(r) \/ DatabaseError(r) \/ Lose(r)
    BY <2>1 DEF Claim, Write, ServeStale, DatabaseError, Lose, Answer
  <2>2. CASE Read(r) \/ DispatchResult(r) \/ ResultHandlerRaises(r) \/ TimeOut(r)
    <3>1. \E t : Replace(r, t) /\ t.op = r.op /\ t.id = r.id
      <4>1. CASE Read(r)
        BY <1>1, <4>1 DEF Read, Request
      <4>2. CASE DispatchResult(r)
        <5>1. PICK v : Replace(r, [r EXCEPT !.handled = "ok", !.seen = v])
          BY <4>2 DEF DispatchResult
        <5>2. /\ [r EXCEPT !.handled = "ok", !.seen = v].op = r.op
              /\ [r EXCEPT !.handled = "ok", !.seen = v].id = r.id
          BY <1>1 DEF Request
        <5>3. QED
          BY <5>1, <5>2
      <4>3. CASE ResultHandlerRaises(r)
        BY <1>1, <4>3 DEF ResultHandlerRaises, Request
      <4>4. CASE TimeOut(r)
        BY <1>1, <4>4 DEF TimeOut, Orphan, Request
      <4>5. QED
        BY <2>2, <4>1, <4>2, <4>3, <4>4
    <3>2. QED
      BY <3>1 DEF Replace
  <2>3. QED
    BY <2>1, <2>2 DEF Backend
<1>5. CASE Claim(r)
  <2>1. r.op = "claim" /\ http' = http \ {r} /\ row'[r.id].status # "ABSENT"
    BY <1>1, <1>5 DEF Claim, Answer, ExchangeInv, TypeOK, Row
  <2>2. \A e \in Execution : row[e].status # "ABSENT" => row'[e].status # "ABSENT"
    BY RowsStay
  <2>3. \A q \in Process : Works(q) => proc[q].id \in Execution
    BY DEF Works, ExchangeInv, TypeOK, IdleIsFree, PoolProcess
  <2>4. \A q \in Process : Works(q)' => row'[proc'[q].id].status # "ABSENT"
    <3> SUFFICES ASSUME NEW q \in Process, Works(q)'
                 PROVE  row'[proc'[q].id].status # "ABSENT"
      OBVIOUS
    <3>1. CASE r.waited /\ q = r.client
      <4>1. proc'[q] = At(q, "accepted")
        BY <1>1, <1>5, <2>1, <3>1 DEF Claim, Answer, AfterOK, ExchangeInv, TypeOK
      <4>2. proc'[q].id = proc[q].id
        BY <4>1 DEF At, ExchangeInv, TypeOK, PoolProcess
      <4>3. proc[q].id = r.id
        BY <3>1 DEF ExchangeInv, Matched
      <4>4. QED
        BY <2>1, <4>2, <4>3
    <3>2. CASE ~(r.waited /\ q = r.client)
      <4>1. proc'[q] = proc[q]
        BY <1>1, <1>5, <3>2 DEF Claim, Answer, ExchangeInv, TypeOK
      <4>2. Works(q) /\ row[proc[q].id].status # "ABSENT"
        BY <4>1 DEF Works, RowInv, RowBeforeWork
      <4>3. QED
        BY <2>2, <2>3, <4>1, <4>2
    <3>3. QED
      BY <3>1, <3>2
  <2>5. \A s \in http' : s.op # "claim" => row'[s.id].status # "ABSENT"
    BY <2>1, <2>2 DEF RowInv, RowBeforeWork, ExchangeInv, TypeOK, Request
  <2>6. QED
    BY <1>2, <2>2, <2>4, <2>5 DEF RowInv, RowBeforeWork, Works, Waiting
<1>6. CASE ServeStale(r)
  <2>1. r.waited => proc[r.client].pc = "listing"
    BY <1>6 DEF ServeStale, ExchangeInv, Matched, WaitsAt
  <2>2. \A q \in Process : Works(q)' => Works(q) /\ proc'[q].id = proc[q].id
    BY <1>1, <1>6, <2>1 DEF ServeStale, Works, ExchangeInv, TypeOK, PoolProcess
  <2>3. QED
    BY <1>2, <1>4, <2>2, RowKept DEF Waiting
<1>7. CASE \/ Read(r) \/ DispatchResult(r) \/ ResultHandlerRaises(r) \/ Write(r)
           \/ DatabaseError(r) \/ Lose(r) \/ TimeOut(r)
  <2>1. \/ proc' = proc
        \/ \E pc \in Busy \cup {"idle"} :
              /\ r.waited => proc' = [proc EXCEPT ![r.client] = At(r.client, pc)]
              /\ ~r.waited => proc' = proc
              /\ r.op = "claim" => pc = "idle"
    BY <1>3, <1>7 DEF Read, DispatchResult, ResultHandlerRaises, Write, DatabaseError,
                      Lose, TimeOut, Answer
  <2>2. \A q \in Process : Works(q)' => Works(q) /\ proc'[q].id = proc[q].id
    BY <2>1, WorksKept DEF Works
  <2>3. QED
    BY <1>2, <1>4, <2>2, RowKept DEF Waiting
<1>8. QED
  BY <1>5, <1>6, <1>7 DEF Backend

LEMMA RowStep == ExchangeInv /\ RowInv /\ [Next]_vars => RowInv'
<1> SUFFICES ASSUME ExchangeInv, RowInv, [Next]_vars
             PROVE  RowInv'
  OBVIOUS
<1>1. CASE UNCHANGED vars
  BY <1>1 DEF vars, RowInv, RowBeforeWork, Waiting
<1>2. CASE Next
  <2>1. CASE \E e \in Execution : \/ RunTask(e) \/ SendTask(e) \/ BeatFires(e)
                                  \/ SendTaskFails(e) \/ FallQuiet(e)
    BY <1>2, <2>1, RowLaunch
  <2>2. CASE \E p \in Process : Worker(p) \/ Crash(p) \/ Terminate(p) \/ Heartbeat(p)
    BY <1>2, <2>2, RowDeliver, RowProcess, RowStop DEF Worker
  <2>3. CASE \E r \in http : Backend(r) \/ DatabaseError(r) \/ Lose(r) \/ TimeOut(r)
    BY <1>2, <2>3, RowBackend
  <2>4. QED
    BY <1>2, <2>1, <2>2, <2>3 DEF Next, Environment
<1>3. QED
  BY <1>1, <1>2

LEMMA RowInit == Init => RowInv
BY DEF Init, Idle, RowInv, RowBeforeWork, Waiting

\* A process works and reports only on executions that have a row, whatever is
\* lost, late or delivered twice: none of its requests is answered with 404.
THEOREM RowBeforeWorkAlways == Spec => []RowBeforeWork
<1>1. RowInv => RowBeforeWork
  BY DEF RowInv
<1>2. QED
  BY <1>1, RowInit, RowStep, ExchangeAlways, PTL DEF Spec

----------------------------------------------------------------------------
\* The inductive invariant of the pipeline, as TLC checks it, holds for every
\* number of executions and processes while the broker delivers a message once.
THEOREM InvAlways ==
    ASSUME "redeliver" \notin FaultKinds
    PROVE  Spec => []IndInv
<1>1. Init => ExchangeInv /\ HandledInv /\ RightInv
  <2>1. Init => HandledInv
    BY DEF Init, NoRow, HandledInv
  <2>2. Init => RightInv
    BY DEF Init, Idle, RightInv, RightOf, Waiting, InWork, InResult, Executes, Executing
  <2>3. QED
    BY <2>1, <2>2, ExchangeInit
<1>2. IndInv /\ [Next]_vars => IndInv'
  BY ExchangeStep, HandledStep, RightStep, HolderStep, RowStep DEF IndInv
<1>3. Init => IndInv
  BY <1>1, HolderInit, RowInit DEF IndInv
<1>4. QED
  BY <1>2, <1>3, PTL DEF Spec
============================================================================
