--------------------------- MODULE TaskExecution ---------------------------
(***************************************************************************)
(* The background task pipeline: the backend's execution table and its     *)
(* internal HTTP API (backend/app/tasks), the Celery worker processes that *)
(* run tasks.dispatch (celery_worker), the broker between them, the beat   *)
(* schedule and the zombie cleanup task.                                   *)
(*                                                                         *)
(* Every synchronous endpoint runs in a thread of its own with a session   *)
(* of its own, so a request is a process: it reads the row, and commits    *)
(* what it decided from that reading in a later step.  A worker waits for  *)
(* each of its requests; when it gives up (timeout) or dies, the request   *)
(* is still there and the backend still completes it.                      *)
(***************************************************************************)
EXTENDS Naturals, FiniteSets

CONSTANTS
    Execution,        \* the ids execution rows may be given
    Scheduled,        \* those of launches made by Celery beat
    Cleanup,          \* those of type system:cleanup_zombie_tasks
    Process,          \* processes of the Celery worker pools
    NoExecution,      \* the id of a process that executes nothing
    FaultKinds,       \* which faults of the environment may happen
    MaxFaults,        \* how many of them (a bound for TLC only)
    HeartbeatClient   \* is there a client that sends {heartbeat: true}?

ASSUME ExecutionAssumption ==
    /\ Scheduled \subseteq Execution
    /\ Cleanup \subseteq Execution
    /\ NoExecution \notin Execution

ASSUME FaultAssumption ==
    /\ FaultKinds \subseteq {"broker", "redeliver", "timeout", "reset",
                             "crash", "badresult", "dberror"}
    /\ MaxFaults \in Nat
    /\ HeartbeatClient \in BOOLEAN

VARIABLES
    row,          \* the table task_executions, "ABSENT" before the INSERT
    dispatching,  \* rows whose API request has yet to call send_task
    fired,        \* launches beat has made
    queue,        \* messages on the broker, by the execution they launch
    proc,         \* the pool processes
    http,         \* requests to the internal API that are not answered
    revoked,      \* executions whose message was revoked with terminate
    applied,      \* how often a result handler returned for an execution
    faults        \* faults so far

vars == <<row, dispatching, fired, queue, proc, http, revoked, applied, faults>>

----------------------------------------------------------------------------
(* The data. *)

\* The values the code writes, and "ABSENT" for an id without a row (the
\* enumeration's RETRY and REVOKED are never assigned).
Status == {"ABSENT", "PENDING", "IN_PROGRESS", "SUCCESS", "FAILURE"}

Terminal == {"SUCCESS", "FAILURE"}

\* result says who wrote the column: the module's result handler, the worker's
\* {"error"}, "Result handler failed", or the reason of the zombie cleanup.
\* finished: finished_at is set.  beat: heartbeat_at is set.  quiet: the last
\* sign of life is older than the timeout of the cleanup.
Row == [status : Status,
        result : {"none", "processed", "error", "rejected", "zombie"},
        finished : BOOLEAN, beat : BOOLEAN, quiet : BOOLEAN]

NoRow == [status |-> "ABSENT", result |-> "none",
          finished |-> FALSE, beat |-> FALSE, quiet |-> FALSE]

Busy == {"claiming", "accepted", "starting", "running", "listing",
         "revoking", "reporting", "raised", "failing"}

\* stale: the ids the cleanup handler got from the backend.
PoolProcess == [pc : Busy \cup {"idle"}, id : Execution \cup {NoExecution},
                stale : SUBSET Execution]

Idle == [pc |-> "idle", id |-> NoExecution, stale |-> {}]

\* waited: its client still waits for the answer.  handled: what the result
\* handler did.  seen: the status the session holds, "unread" before the
\* SELECT and after a commit expired it.  ids: the body's terminated_ids.
Request == [op : {"claim", "start", "fail", "result", "stale", "beat"},
            id : Execution, client : Process, waited : BOOLEAN,
            handled : {"no", "ok", "error"},
            seen : Status \cup {"unread"}, ids : SUBSET Execution]

TypeOK ==
    /\ row \in [Execution -> Row]
    /\ dispatching \subseteq Execution
    /\ fired \subseteq Scheduled
    /\ queue \subseteq Execution
    /\ proc \in [Process -> PoolProcess]
    /\ http \subseteq Request
    /\ revoked \subseteq Execution
    /\ applied \in [Execution -> Nat]
    /\ faults \in Nat

Init ==
    /\ row = [e \in Execution |-> NoRow]
    /\ dispatching = {}
    /\ fired = {}
    /\ queue = {}
    /\ proc = [p \in Process |-> Idle]
    /\ http = {}
    /\ revoked = {}
    /\ applied = [e \in Execution |-> 0]
    /\ faults = 0

\* One fault of the environment, of a kind the run allows.
Fault(kind) ==
    /\ kind \in FaultKinds
    /\ faults < MaxFaults
    /\ faults' = faults + 1

----------------------------------------------------------------------------
(* The HTTP exchange. *)

NewRequest(p, op, e, ids) ==
    [op |-> op, id |-> e, client |-> p, waited |-> (op # "beat"),
     handled |-> "no", seen |-> "unread", ids |-> ids]

At(p, pc) ==
    IF pc = "idle" THEN Idle ELSE [proc[p] EXCEPT !.pc = pc]

\* Process p sends a request and waits for it at pc.
Send(p, pc, op, ids) ==
    /\ proc' = [proc EXCEPT ![p] = At(p, pc)]
    /\ http' = http \cup {NewRequest(p, op, proc[p].id, ids)}

\* Request r ends; the client, if it still waits, goes on at pc.
Answer(r, pc) ==
    /\ http' = http \ {r}
    /\ proc' = IF r.waited THEN [proc EXCEPT ![r.client] = At(r.client, pc)]
                           ELSE proc

Replace(r, s) == http' = (http \ {r}) \cup {s}

Orphan(r) == [r EXCEPT !.waited = FALSE]

\* Where the worker goes on after a 2xx answer.
AfterOK(op) ==
    CASE op = "claim"  -> "accepted"
      [] op = "start"  -> "running"
      [] op = "stale"  -> "revoking"
      [] OTHER         -> "idle"

AfterErrorSilent(op) == IF op = "start" THEN "running" ELSE "idle"

AfterErrorRaising(op) ==
    CASE op = "start"              -> "running"
      [] op \in {"stale", "result"} -> "raised"
      [] OTHER                     -> "idle"

\* After an HTTP error: only the claim and the stale list are checked with
\* raise_for_status, so a refused result counts as delivered.
AfterError(op) ==
    CASE op = "start"  -> "running"
      [] op = "stale"  -> "raised"
      [] OTHER         -> "idle"

\* Mutant: the handler runs again when the POST of its result is lost.
AfterLossRetrying(op) == IF op = "result" THEN "running" ELSE AfterError(op)

\* After a transport error: a lost result is an exception of the task.
AfterLoss(op) == IF op = "result" THEN "raised" ELSE AfterError(op)

----------------------------------------------------------------------------
(* Launching: POST /tasks/{name}/run and Celery beat. *)

\* run_task_by_name up to the commit of create_execution.
RunTask(e) ==
    /\ e \notin Scheduled
    /\ row[e].status = "ABSENT"
    /\ row' = [row EXCEPT ![e].status = "PENDING"]
    /\ dispatching' = dispatching \cup {e}
    /\ UNCHANGED <<fired, queue, proc, http, revoked, applied, faults>>

\* Mutant: the request sends again what it has sent.
SendTaskAgain(e) ==
    /\ e \in dispatching
    /\ queue' = queue \cup {e}
    /\ UNCHANGED <<row, dispatching, fired, proc, http, revoked, applied, faults>>

\* ... and its send_task.
SendTask(e) ==
    /\ e \in dispatching
    /\ dispatching' = dispatching \ {e}
    /\ queue' = queue \cup {e}
    /\ UNCHANGED <<row, fired, proc, http, revoked, applied, faults>>

\* send_task raises, or the backend stops, after the row was committed.
SendTaskFails(e) ==
    /\ e \in dispatching
    /\ Fault("broker")
    /\ dispatching' = dispatching \ {e}
    /\ UNCHANGED <<row, fired, queue, proc, http, revoked, applied>>

\* The schedule is due.  The message names the schedule; e stands for the id
\* its row will be given when a worker asks for it.
BeatFires(e) ==
    /\ e \in Scheduled \ fired
    /\ fired' = fired \cup {e}
    /\ queue' = queue \cup {e}
    /\ UNCHANGED <<row, dispatching, proc, http, revoked, applied, faults>>

----------------------------------------------------------------------------
(* The worker process: tasks.dispatch and the two handlers. *)

\* The broker delivers a message and forgets it (Celery acknowledges before
\* the task runs).  A redelivery (Redis gives a message reserved for longer
\* than its visibility timeout to a second worker) leaves it there.
Deliver(p, e) ==
    /\ proc[p].pc = "idle"
    /\ e \in queue
    /\ \/ queue' = queue \ {e} /\ UNCHANGED faults
       \/ e \notin Scheduled /\ Fault("redeliver") /\ UNCHANGED queue
    /\ IF e \in Scheduled
       THEN /\ proc' = [proc EXCEPT ![p] = [Idle EXCEPT !.pc = "claiming", !.id = e]]
            /\ http' = http \cup {NewRequest(p, "claim", e, {})}
       ELSE /\ proc' = [proc EXCEPT ![p] = [Idle EXCEPT !.pc = "accepted", !.id = e]]
            /\ UNCHANGED http
    /\ UNCHANGED <<row, dispatching, fired, revoked, applied>>

\* Mutant: the handler starts before the announcement is answered.
AnnounceStartAsync(p) ==
    /\ proc[p].pc = "accepted"
    /\ proc' = [proc EXCEPT ![p] = At(p, "running")]
    /\ http' = http \cup {Orphan(NewRequest(p, "start", proc[p].id, {}))}
    /\ UNCHANGED <<row, dispatching, fired, queue, revoked, applied, faults>>

\* The secrets are fetched (a read whose failure is ignored) and the process
\* announces IN_PROGRESS.
AnnounceStart(p) ==
    /\ proc[p].pc = "accepted"
    /\ Send(p, "starting", "start", {})
    /\ UNCHANGED <<row, dispatching, fired, queue, revoked, applied, faults>>

\* sync_ldap_users_handler returns users; dispatch_task posts them.
HandlerReturns(p) ==
    /\ proc[p].pc = "running"
    /\ proc[p].id \notin Cleanup
    /\ Send(p, "reporting", "result", {})
    /\ UNCHANGED <<row, dispatching, fired, queue, revoked, applied, faults>>

\* Mutant: the exception ends the task without a report.
HandlerRaisesSilently(p) ==
    /\ proc[p].pc = "running"
    /\ proc' = [proc EXCEPT ![p] = Idle]
    /\ UNCHANGED <<row, dispatching, fired, queue, http, revoked, applied, faults>>

\* No handler is registered, the secrets are missing, LDAP does not answer.
HandlerRaises(p) ==
    /\ proc[p].pc = "running"
    /\ proc' = [proc EXCEPT ![p] = At(p, "raised")]
    /\ UNCHANGED <<row, dispatching, fired, queue, http, revoked, applied, faults>>

\* cleanup_zombie_tasks asks for the stale executions ...
ListStale(p) ==
    /\ proc[p].pc = "running"
    /\ proc[p].id \in Cleanup
    /\ Send(p, "listing", "stale", {})
    /\ UNCHANGED <<row, dispatching, fired, queue, revoked, applied, faults>>

\* What inspect().active() can find: it looks for the execution_id among the
\* kwargs of the message, which a scheduled launch does not carry.
Findable == {proc[p].id : p \in Process} \ (Scheduled \cup {NoExecution})

\* Mutant: the inspection's answer is not compared with the stale list.
RevokeActive(p) ==
    /\ proc[p].pc = "revoking"
    /\ \E active \in SUBSET Findable : revoked' = revoked \cup active
    /\ Send(p, "reporting", "result", proc[p].stale)
    /\ UNCHANGED <<row, dispatching, fired, queue, applied, faults>>

\* ... revokes those that answer the inspection as active, and reports all.
Revoke(p) ==
    /\ proc[p].pc = "revoking"
    /\ \E active \in SUBSET (proc[p].stale \cap Findable) :
           revoked' = revoked \cup active
    /\ Send(p, "reporting", "result", proc[p].stale)
    /\ UNCHANGED <<row, dispatching, fired, queue, applied, faults>>

\* The outer except: PATCH FAILURE with the error.
ReportFailure(p) ==
    /\ proc[p].pc = "raised"
    /\ Send(p, "failing", "fail", {})
    /\ UNCHANGED <<row, dispatching, fired, queue, revoked, applied, faults>>

\* The process stops; its requests are still with the backend.
Stop(p) ==
    /\ proc[p].pc # "idle"
    /\ proc' = [proc EXCEPT ![p] = Idle]
    /\ http' = {IF r.client = p THEN Orphan(r) ELSE r : r \in http}

Crash(p) ==
    /\ Stop(p)
    /\ Fault("crash")
    /\ UNCHANGED <<row, dispatching, fired, queue, revoked, applied>>

\* The terminate signal of a revoke reaches the process.
Terminate(p) ==
    /\ proc[p].id \in revoked
    /\ Stop(p)
    /\ UNCHANGED <<row, dispatching, fired, queue, revoked, applied, faults>>

\* A client of the heartbeat endpoint, beside the handler it reports on.
Heartbeat(p) ==
    /\ HeartbeatClient
    /\ proc[p].pc \in {"running", "listing", "revoking"}
    /\ \A r \in http : r.op = "beat" => r.client # p
    /\ http' = http \cup {NewRequest(p, "beat", proc[p].id, {})}
    /\ UNCHANGED <<row, dispatching, fired, queue, proc, revoked, applied, faults>>

----------------------------------------------------------------------------
(* The backend: /task_execution, PATCH and POST /tasks/{id}, /tasks/stale. *)

\* create_task_execution_from_schedule.
Claim(r) ==
    /\ r.op = "claim"
    /\ row' = [row EXCEPT ![r.id].status = "PENDING"]
    /\ Answer(r, AfterOK(r.op))
    /\ UNCHANGED <<dispatching, fired, queue, revoked, applied, faults>>

\* get_execution: the SELECT that loads the row into the request's session.
Read(r) ==
    /\ r.op \in {"start", "fail", "result", "beat"}
    /\ r.seen = "unread"
    /\ Replace(r, [r EXCEPT !.seen = row[r.id].status])
    /\ UNCHANGED <<row, dispatching, fired, queue, proc, revoked, applied, faults>>

\* fail_multiple_executions: one UPDATE, committed.
FailMultiple(ids) ==
    row' = [e \in Execution |->
              IF e \in ids /\ row[e].status \notin {"ABSENT", "SUCCESS"}
              THEN [row[e] EXCEPT !.status = "FAILURE", !.result = "zombie",
                                  !.finished = TRUE]
              ELSE row[e]]

\* dispatch_result when the handler returns (every task of the repository has
\* one).  The LDAP batch and a cleanup with ids commit, which expires what the
\* session has read.
DispatchResult(r) ==
    /\ r.op = "result" /\ r.handled = "no" /\ r.seen # "unread"
    /\ \E committed \in BOOLEAN :
          /\ r.id \in Cleanup => (committed <=> r.ids # {})
          /\ Replace(r, [r EXCEPT !.handled = "ok",
                                  !.seen = IF committed THEN "unread" ELSE @])
    /\ FailMultiple(r.ids)
    /\ applied' = [applied EXCEPT ![r.id] = @ + 1]
    /\ UNCHANGED <<dispatching, fired, queue, proc, revoked, faults>>

\* dispatch_result when the handler raises and the session is still usable.
ResultHandlerRaises(r) ==
    /\ r.op = "result" /\ r.handled = "no" /\ r.seen # "unread"
    /\ Fault("badresult")
    /\ Replace(r, [r EXCEPT !.handled = "error"])
    /\ UNCHANGED <<row, dispatching, fired, queue, proc, revoked, applied>>

\* Mutant: a result that the handler refused leaves the status as it was.
TargetUnreported(r) ==
    CASE r.op = "result" /\ r.handled = "ok" -> "SUCCESS"
      [] r.op = "fail"                       -> "FAILURE"
      [] OTHER                               -> "IN_PROGRESS"

\* The status a request assigns, and the result that goes with it.
Target(r) ==
    CASE r.op \in {"start", "beat"}                -> "IN_PROGRESS"
      [] r.op = "result" /\ r.handled = "ok"       -> "SUCCESS"
      [] OTHER                                     -> "FAILURE"

\* Mutant: the PATCH of FAILURE loses its reason.
ResultOfWithoutReason(r) ==
    CASE r.op # "result"                           -> row[r.id].result
      [] r.op = "result" /\ r.handled = "ok"       -> "processed"
      [] OTHER                                     -> "rejected"

ResultOf(r) ==
    CASE r.op \in {"start", "beat"}                -> row[r.id].result
      [] r.op = "fail"                             -> "error"
      [] r.op = "result" /\ r.handled = "ok"       -> "processed"
      [] OTHER                                     -> "rejected"

\* update_status and update_heartbeat from the assignments to the commit.  The
\* UPDATE holds the columns that differ from what the session has read, and
\* no condition on the status the row has by now.
Write(r) ==
    /\ r.op \in {"start", "fail", "beat"} \/ (r.op = "result" /\ r.handled # "no")
    /\ r.seen # "unread"
    /\ row' = [row EXCEPT ![r.id] =
                 [status   |-> IF Target(r) = r.seen THEN @.status ELSE Target(r),
                  result   |-> ResultOf(r),
                  finished |-> @.finished \/ Target(r) \in Terminal,
                  beat     |-> @.beat \/ r.op = "beat",
                  quiet    |-> @.quiet /\ r.op # "beat"]]
    /\ Answer(r, IF r.handled = "error" THEN AfterError(r.op) ELSE AfterOK(r.op))
    /\ UNCHANGED <<dispatching, fired, queue, revoked, applied, faults>>

\* get_stale_executions: NULL < cutoff is not true.
StaleExecutions ==
    {e \in Execution : row[e].status = "IN_PROGRESS" /\ row[e].beat /\ row[e].quiet}

ServeStale(r) ==
    /\ r.op = "stale"
    /\ http' = http \ {r}
    /\ proc' = IF r.waited
               THEN [proc EXCEPT ![r.client].pc = AfterOK(r.op),
                                 ![r.client].stale = StaleExecutions]
               ELSE proc
    /\ UNCHANGED <<row, dispatching, fired, queue, revoked, applied, faults>>

\* The database refuses a statement of the request.  After a failed flush the
\* session refuses the except branch's own update as well: answer 500,
\* status untouched.
DatabaseError(r) ==
    /\ Fault("dberror")
    /\ Answer(r, AfterError(r.op))
    /\ UNCHANGED <<row, dispatching, fired, queue, revoked, applied>>

\* The connection breaks or the backend stops before the request's next
\* commit (a refused claim, 404 or 500, has the same effect).
Lose(r) ==
    /\ Fault("reset")
    /\ Answer(r, AfterLoss(r.op))
    /\ UNCHANGED <<row, dispatching, fired, queue, revoked, applied>>

\* The client gives up; the backend does not notice.  A lost answer is this
\* step followed by the commit.
TimeOut(r) ==
    /\ r.waited
    /\ Fault("timeout")
    /\ Replace(r, Orphan(r))
    /\ proc' = [proc EXCEPT ![r.client] = At(r.client, AfterLoss(r.op))]
    /\ UNCHANGED <<row, dispatching, fired, queue, revoked, applied>>

\* timeout_seconds pass without a sign of life.
FallQuiet(e) ==
    /\ row[e].status = "IN_PROGRESS"
    /\ ~row[e].quiet
    /\ row' = [row EXCEPT ![e].quiet = TRUE]
    /\ UNCHANGED <<dispatching, fired, queue, proc, http, revoked, applied, faults>>

----------------------------------------------------------------------------
Backend(r) ==
    \/ Claim(r) \/ Read(r) \/ DispatchResult(r) \/ ResultHandlerRaises(r)
    \/ Write(r) \/ ServeStale(r)

Worker(p) ==
    \/ \E e \in Execution : Deliver(p, e)
    \/ AnnounceStart(p) \/ HandlerReturns(p) \/ HandlerRaises(p)
    \/ ListStale(p) \/ Revoke(p) \/ ReportFailure(p)

Environment ==
    \/ \E e \in Execution : BeatFires(e) \/ SendTaskFails(e) \/ FallQuiet(e)
    \/ \E p \in Process : Crash(p) \/ Terminate(p) \/ Heartbeat(p)
    \/ \E r \in http : DatabaseError(r) \/ Lose(r) \/ TimeOut(r)

Next ==
    \/ \E e \in Execution : RunTask(e) \/ SendTask(e)
    \/ \E p \in Process : Worker(p)
    \/ \E r \in http : Backend(r)
    \/ Environment

Spec == Init /\ [][Next]_vars

\* The backend's threads answer, the workers run, the broker delivers.
Fairness ==
    /\ \A e \in Execution : WF_vars(SendTask(e))
    /\ \A p \in Process : WF_vars(Worker(p))
    /\ \A e \in Execution, p \in Process :
          WF_vars(\E r \in http : r.id = e /\ r.client = p /\ Backend(r))

FairSpec == Spec /\ Fairness

----------------------------------------------------------------------------
(* Properties. *)

\* The result handler of a module (the LDAP batch, the mass FAILURE of the
\* cleanup) takes effect at most once for an execution, whatever the worker
\* does after a timeout of its POST.
AppliedOnce == \A e \in Execution : applied[e] <= 1

\* Status and result column belong together although late requests write
\* only the columns that differ from what they have read: a SUCCESS shows the
\* processed result and a FAILURE shows a reason.
ResultMatchesStatus ==
    \A e \in Execution :
        /\ row[e].status = "SUCCESS" => row[e].result = "processed"
        /\ row[e].status = "FAILURE" => row[e].result \notin {"none", "processed"}

\* Who still holds execution e: the API request that launches it, the broker,
\* a process, a request the backend has yet to complete, or a cleanup that is
\* going to report it.
Held(e) ==
    \/ e \in dispatching \cup queue
    \/ \E p \in Process : proc[p].id = e
    \/ \E r \in http : r.id = e \/ e \in r.ids

\* An execution is in one pair of hands: while the API request or the broker
\* holds it no process executes it, and no two processes execute it.
SingleHolder ==
    /\ dispatching \cap queue = {}
    /\ \A p \in Process :
          /\ proc[p].id \notin dispatching \cup queue
          /\ \A q \in Process \ {p} :
                proc[p].id = proc[q].id => proc[p].id = NoExecution

\* A process works, and reports, only on executions that have a row, so that
\* none of its requests is answered with 404 "Execution not found".
RowBeforeWork ==
    /\ \A p \in Process :
          proc[p].pc \notin {"idle", "claiming"} => row[proc[p].id].status # "ABSENT"
    /\ \A r \in http : r.op # "claim" => row[r.id].status # "ABSENT"

\* Nothing is forgotten: a row nobody holds has a finish time, although the
\* worker ignores every failed PATCH and every answer to its result.
AbandonedIsFinished ==
    \A e \in Execution : row[e].status # "ABSENT" /\ ~Held(e) => row[e].finished

\* finished_at goes with a terminal status: no late IN_PROGRESS reopens a
\* finished execution.
FinishedIsTerminal ==
    \A e \in Execution : row[e].finished <=> row[e].status \in Terminal

\* The backend still has a result of e to answer.
ResultInFlight(e) == \E r \in http : r.op = "result" /\ r.id = e

\* What the cleanup has a hand in: executions whose message it has revoked,
\* that it is going to revoke, or whose failure it has reported.
Cleaned(e) ==
    \/ e \in revoked
    \/ \E p \in Process : e \in proc[p].stale
    \/ \E r \in http : e \in r.ids

\* The cleanup kills first and reports later, and the report may be lost, or
\* overtaken by a report of the process it killed.  Whatever becomes of it, an
\* execution it has a hand in has finished, or a later cleanup is going to list
\* it: nobody's process is killed for a row that stays open for ever.
ZombiesAreNotForgotten ==
    \A e \in Execution : Cleaned(e) =>
        \/ row[e].status \in Terminal /\ row[e].finished
        \/ row[e].status = "IN_PROGRESS" /\ row[e].beat

\* When the backend has answered a result the row is terminal: SUCCESS, or
\* FAILURE "so that the admin sees the error" of the result handler.
ResultIsRecorded ==
    [][\A e \in Execution :
         ResultInFlight(e) /\ ~ResultInFlight(e)' => row'[e].status \in Terminal]_vars

\* The stale list names every execution that is IN_PROGRESS and has given no
\* sign of life for longer than the timeout.
StaleListIsComplete ==
    [][\A p \in Process :
         proc[p].pc = "listing" /\ proc'[p].pc = "revoking" =>
           {e \in Execution : row[e].status = "IN_PROGRESS" /\ row[e].quiet}
             \subseteq proc'[p].stale]_vars

\* Every launch ends: a row that was created becomes terminal, and every
\* schedule that fired gets a row that does.
EveryLaunchEnds ==
    \A e \in Execution :
        (e \in fired \/ row[e].status # "ABSENT") ~> row[e].status \in Terminal

\* Seen through the status column and the result handlers, the pipeline is
\* the life cycle of ExecutionLifecycle.
Lifecycle == INSTANCE ExecutionLifecycle WITH
    status  <- [e \in Execution |-> row[e].status],
    handled <- {e \in Execution : applied[e] > 0}

ImplementsLifecycle == Lifecycle!Spec
============================================================================
