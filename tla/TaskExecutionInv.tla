-------------------------- MODULE TaskExecutionInv --------------------------
(***************************************************************************)
(* The inductive invariants behind the theorems of TaskExecutionProofs     *)
(* (whatever happens) and of TaskLifecycleProofs (without heartbeats).     *)
(***************************************************************************)
EXTENDS TaskExecution

\* Where a process waits for the answer to a request.
WaitsAt == [op \in {"claim", "start", "stale", "result", "fail"} |->
              CASE op = "claim"  -> "claiming"
                [] op = "start"  -> "starting"
                [] op = "stale"  -> "listing"
                [] op = "result" -> "reporting"
                [] op = "fail"   -> "failing"]

\* Processes and requests fit together: an idle process has no execution, a
\* request that is waited for is the one its client waits at, for the same
\* execution, and a process waits for one request at a time.
IdleIsFree ==
    \A p \in Process : proc[p].pc = "idle" <=> proc[p].id = NoExecution

Matched ==
    \A r \in http :
        r.waited => /\ r.op # "beat"
                    /\ proc[r.client].pc = WaitsAt[r.op]
                    /\ proc[r.client].id = r.id

OneRequest ==
    \A r, s \in http : r.waited /\ s.waited /\ r.client = s.client => r = s

ExchangeInv == TypeOK /\ IdleIsFree /\ Matched /\ OneRequest

\* A handled result has been counted.
HandledInv ==
    /\ \A e \in Execution : row[e].status = "SUCCESS" => applied[e] > 0
    /\ \A r \in http : r.handled = "ok" => applied[r.id] > 0

\* An execution is launched once: by its row, or by the firing of beat.
Launched(e) ==
    IF e \in Scheduled THEN e \in fired ELSE row[e].status # "ABSENT"

\* Where a process has a task before it whose result is not yet reported.
Executing == {"claiming", "accepted", "starting", "running", "listing", "revoking"}

Executes(p, e) == proc[p].id = e /\ proc[p].pc \in Executing

\* A result of e that its handler has not seen.
Unhandled(r, e) == r.op = "result" /\ r.handled = "no" /\ r.id = e

Waiting(e)  == e \in dispatching \/ e \in queue
InWork(e)   == \E p \in Process : Executes(p, e)
InResult(e) == \E r \in http : Unhandled(r, e)

\* The right to have the result of e handled is in at most one place: with the
\* API request, on the broker, with a process, in an unhandled result, or spent.
RightOf(e) ==
    /\ ~(e \in dispatching /\ e \in queue)
    /\ Waiting(e) => ~InWork(e)
    /\ Waiting(e) \/ InWork(e) => ~InResult(e)
    /\ Waiting(e) \/ InWork(e) \/ InResult(e) => applied[e] = 0
    /\ Waiting(e) \/ InWork(e) \/ InResult(e) \/ applied[e] > 0 => Launched(e)
    /\ applied[e] <= 1
    /\ \A p, q \in Process : Executes(p, e) /\ Executes(q, e) => p = q
    /\ \A r, s \in http : Unhandled(r, e) /\ Unhandled(s, e) => r = s

RightInv == \A e \in Execution : RightOf(e)

\* Who holds an execution, or has held it, was given it by its launch, and hands
\* it on.
HolderInv ==
    /\ SingleHolder
    /\ \A e \in Execution :
          Waiting(e) \/ (\E p \in Process : proc[p].id = e) => Launched(e)

\* What the API hands on has its row before it is sent.
RowInv ==
    /\ RowBeforeWork
    /\ \A e \in Execution \ Scheduled : Waiting(e) => row[e].status # "ABSENT"

\* All together are inductive: from a state that satisfies them every step of
\* worker, backend, broker or environment leads to another one (while the
\* broker delivers a message once).
IndInv == ExchangeInv /\ HandledInv /\ RightInv /\ HolderInv /\ RowInv

----------------------------------------------------------------------------
(* With a client of the heartbeat endpoint: what the cleanup may touch.    *)

Claims(e) == {r \in http : r.op = "claim" /\ r.id = e}

\* A firing of beat leads to one claim, and the row is absent until then.
UnclaimedInv ==
    /\ \A e \in Scheduled :
          /\ e \notin dispatching
          /\ e \in queue => e \in fired
          /\ e \notin fired \/ e \in queue \/ Claims(e) # {} => row[e].status = "ABSENT"
          /\ e \notin fired \/ e \in queue => Claims(e) = {}
          /\ \A r, s \in Claims(e) : r = s
    /\ \A r \in http : r.op = "claim" => r.id \in Scheduled

Begun == {"IN_PROGRESS"} \cup Terminal

\* No row goes back to PENDING once somebody began on it; whoever sent a
\* heartbeat had begun, and the cleanup knows nobody else.
ZombieInv ==
    /\ \A e \in Execution : row[e].beat => row[e].status \in Begun
    /\ \A e \in Execution : row[e].status \in Terminal => row[e].finished
    /\ \A r \in http : r.seen \in Begun => row[r.id].status \in Begun
    /\ \A e \in Execution : Cleaned(e) => row[e].beat

----------------------------------------------------------------------------
(* Without a client of the heartbeat endpoint, as the repository stands.   *)

\* No row has a heartbeat, so the cleanup lists, revokes and fails nothing.
NoHeartbeatInv ==
    /\ \A e \in Execution : ~row[e].beat
    /\ \A p \in Process : proc[p].stale = {}
    /\ \A r \in http : r.op # "beat" /\ r.ids = {}
    /\ revoked = {}

Open == {"PENDING", "IN_PROGRESS"}

\* While no message times out: one request at a time may touch the row of e,
\* and only that of the process that has e, if one has it.
TurnOf(e) ==
    /\ \A r, s \in http : r.id = e /\ s.id = e => r = s
    /\ \A r \in http, p \in Process :
          r.id = e /\ proc[p].id = e => r.waited /\ r.client = p
    /\ \A r \in http : r.id = e =>
          ~Waiting(e) /\ Launched(e) /\ (r.op = "claim" => e \in Scheduled)

\* The statuses the row of e may have while a process is at a pc, or a request
\* of an op is in flight.
StatusAt(place) ==
    CASE place \in {"claiming", "claim"}              -> {"ABSENT"}
      [] place \in {"accepted", "starting", "start"}  -> {"PENDING"}
      [] OTHER                                        -> Open

\* So the status moves with the work, and what a request has read is true
\* until it writes.
StageOf(e) ==
    /\ row[e].finished <=> row[e].status \in Terminal
    /\ ~Launched(e) => row[e].status = "ABSENT"
    /\ Waiting(e) => row[e].status = IF e \in Scheduled THEN "ABSENT" ELSE "PENDING"
    /\ \A p \in Process : proc[p].id = e => row[e].status \in StatusAt(proc[p].pc)
    /\ \A r \in http : r.id = e => /\ row[e].status \in StatusAt(r.op)
                                   /\ r.seen \in {"unread", row[e].status}

TurnInv  == \A e \in Execution : TurnOf(e)
StageInv == \A e \in Execution : StageOf(e)

\* While no answer is lost: a process that failed has no handled result.
FailureInv ==
    /\ \A p \in Process : proc[p].pc \in {"raised", "failing"} => applied[proc[p].id] = 0
    /\ \A r \in http : r.op = "fail" \/ r.handled = "error" => applied[r.id] = 0

\* What the backend has yet to complete of the reports on e.
Results(e)  == {r \in http : r.op = "result" /\ r.id = e}
Failures(e) == {r \in http : r.op = "fail" /\ r.id = e}

\* A process reports on e once: a result, and after it at most a FAILURE, for
\* which it waits as long as it has e.
ReportOf(e) ==
    /\ ~Launched(e) => row[e].status = "ABSENT" /\ \A r \in http : r.id # e
    /\ Waiting(e) \/ InWork(e) =>
          Results(e) \cup Failures(e) = {} /\ row[e].status \notin Terminal
    /\ \A p \in Process, r \in Failures(e) :
          proc[p].id = e => proc[p].pc = "failing" /\ r.waited /\ r.client = p
    /\ \A r, s \in Results(e) : r = s
    /\ \A r, s \in Failures(e) : r = s

\* The row meanwhile: it does not say SUCCESS before the result is written, nor
\* FAILURE because of a FAILURE that is still to come.
OutcomeOf(e) ==
    /\ row[e].status = "SUCCESS" => row[e].result = "processed"
    /\ row[e].status = "FAILURE" => row[e].result \notin {"none", "processed"}
    /\ Results(e) # {} => row[e].status # "SUCCESS"
    /\ \A r \in Results(e) : r.seen # "SUCCESS"
    /\ (\E p \in Process : proc[p].id = e) \/ Failures(e) # {} =>
          row[e].status # "FAILURE" \/ Results(e) = {}
    /\ \A r \in Failures(e) :
          r.seen = "FAILURE" => Results(e) = {} /\ row[e].status # "SUCCESS"

OutcomeInv == \A e \in Execution : ReportOf(e) /\ OutcomeOf(e)

\* What is going to finish e: its launch, a process, or a report.
Carried(e) ==
    \/ Waiting(e)
    \/ \E p \in Process : proc[p].id = e
    \/ Results(e) \cup Failures(e) # {}

CarriedInv == \A e \in Execution :
    row[e].status # "ABSENT" /\ ~row[e].finished => Carried(e)
=============================================================================
