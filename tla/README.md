# Verification of Infraportal

TLA+ models of Infraportal (a FastAPI backend, a Celery worker with beat and
Redis, a React frontend), the TLC runs that check them on small instances, and
TLAPS proofs of what holds for instances of every size. Paths below are
relative to the repository root; `app/` stands for `backend/app/`.

## 1. The system

| part | state it keeps | operations | code |
|---|---|---|---|
| Task executions | table `task_executions` (status, result, started/finished/heartbeat times) | run a task; claim a scheduled one; update status; receive a result; heartbeat; list the stale; fail many | `app/tasks` |
| Zombie cleanup | none of its own | list stale executions, revoke those Celery reports as active, fail them all | `celery_worker/handlers/tasks/cleanup.py`, `app/tasks/tasks/cleanup_zombie.py` |
| Celery worker | pool processes, one message each | `tasks.dispatch`: claim, fetch secrets, announce, run the handler, post result or failure | `celery_worker` |
| Celery beat | periodic tasks and crontabs in the database | send `tasks.dispatch(schedule_id)` when due | `celery_beat` |
| LDAP synchronisation | table `users` (login, type, ldap_id, is_active) | merge a batch of entries, deactivate the absent | `app/users/ldap` |
| Sign-in and sessions | `user_sessions`, JWT access and refresh tokens | sign in (local or LDAP), refresh, log out, revoke | `app/auth` |
| Local users, groups, roles | `users`, `groups`, `roles`, `permissions` and three association tables | create, update (with replacement of the association lists), delete | `app/users` |
| Settings and schedule | `ldap_settings`, `core_settings`, the periodic task of the sync | update one, update many, initialise at start | `app/settings`, `app/tasks/schedule_service.py` |
| Frontend | access token in local storage, queue of requests behind a refresh | refresh on 401, sign in, log out, poll an execution | `frontend/src` |

How they interact:

* The backend inserts an execution row, commits, and sends a message over
  Redis; for a schedule beat sends the message and the worker asks the backend
  for a row. The worker talks to the backend over HTTP only: every endpoint is
  a synchronous function, so every request is a thread with a database session
  of its own, beside all others. The worker waits with a timeout; the backend
  never learns that it has given up.
* The result of a task goes to the result handler of the module that defined
  it. For `users:sync_ldap` this is the batch over the table `users`, which
  sign-ins (just-in-time provisioning) and the administrator change as well.
* Everything in the database goes through SQLAlchemy sessions with autoflush
  off under PostgreSQL's read committed isolation: queries see what is
  committed now, objects keep what was loaded, an UPDATE names the columns with
  a net change, and the flush at the commit is where unique indexes speak.

What is hard here: requests that overtake their own timeout; a worker process
that dies between two requests; a cleanup that acts on a list which is no longer
true; long database sessions that write what they read earlier; two sources of
users (batch and sign-in) with unique columns; a NULL in a NOT IN; partial
answers of a directory; a switch and a scheduled task that two requests write after
reading each; tokens that outlive what they say; tabs that share a token and not
their queues; settings that are read one by one, by three implementations of the same
connection. `PROJECT.json` lists each of these at its line.

What makes each part correct:

* executions: a result is handled once, status and result belong together, one
  holder at a time, every launch ends, a terminal status is final, a worker that
  dies is found by the cleanup, and the cleanup kills nobody whose row stays open;
* synchronisation: the absent and only the absent are deactivated, every entry
  has its row, nobody is activated behind the administrator's back, local users
  are left alone, an undisturbed batch is not refused by the database;
* sessions: a refresh only for a living session; what a user has lost (a
  permission, a session, his account) lives on in tokens for a bounded time, and
  no refresh prolongs it;
* groups and roles: built-in associations survive, a replacement leaves what
  was asked for, updates wait for each other in a circle only when they rename what
  others add members to;
* schedule: the periodic task is enabled exactly when LDAP is, restarts keep what
  was set, beat learns of every change;
* token refresh: one refresh at a time in a tab, every queued request is settled,
  and no request fails only because an access token expired;
* directory settings: a request changes what it names and nothing else, the mask in a
  PATCH never replaces a password (a PUT of the mask does, section 11), readers agree
  with the table unless a commit falls between
  their queries, and what was tried lets the worker and the sign-ins connect; whom the worker
  reports from an Active Directory can sign in (an OpenLDAP: section 11).

## 2. The plan

| order | modules | what | state |
|---|---|---|---|
| 1 | `TaskExecution`, `TaskExecutionInv`, `ExecutionLifecycle`, `MCTaskExecution`, `TaskExecutionProofs`, `TaskLifecycleProofs` | the task pipeline, and the life cycle it implements | done |
| 2 | `LdapSync`, `LdapSyncInv`, `MCLdapSync`, `LdapSyncProofs` | the table of users between batch, sign-in and administrator | done |
| 3 | `Rbac`, `RbacInv`, `MCRbac`, `RbacProofs` | groups, roles, permissions: replacements of association lists beside each other, built-in protection | done |
| 4 | `Schedule`, `ScheduleInv`, `MCSchedule`, `ScheduleProofs` | LDAP_ENABLED and the periodic task: single update, bulk update, starts of the backend, beat | done |
| 5 | `AuthSessions`, `AuthSessionsInv`, `MCAuthSessions`, `AuthSessionsProofs` | tokens with life times, sessions, refresh, log-out, revocation, deactivation | done |
| 6 | `TokenRefresh`, `TokenRefreshInv`, `MCTokenRefresh`, `TokenRefreshProofs` | the queue of each tab behind a refresh, sign-in, log-out and page loads beside it | done |
| 7 | `LdapSettings`, `LdapSettingsInv`, `MCLdapSettings`, `LdapSettingsProofs` | how to reach the directory: the rows, those who change and try them, the worker and the sign-ins that work with them | done |
| 8 | composition of 1 and 2 | an execution of `users:sync_ldap` whose handler's partial changes are committed by the FAILURE that records its error | left |

Every safety property that a passing run checks, and the refinement, is stated by a
theorem (section 10). Left to prove: theorems about the composition of row 8, once it
is there, and weaker hypotheses where section 10 asks for more than a run does. Liveness
stays with TLC.

## 3. TaskExecution

State: `row` is the table; `dispatching` holds rows whose request has committed
but not called `send_task`; `queue` the broker, `fired` the launches of beat;
`proc` the pool processes; `http` the requests the backend has not answered;
`revoked`, `applied` (how often a result handler returned) and `faults`.

| action | code |
|---|---|
| `RunTask`, `SendTask`, `SendTaskFails` | `TaskManagementService.run_task_by_name` up to the commit, the send after it, and the failing send |
| `BeatFires`, `Deliver` | beat; Celery's early acknowledgement (a redelivery leaves the message in place) |
| `Claim` | `POST /task_execution` |
| `AnnounceStart`, `HandlerReturns`, `HandlerRaises`, `ReportFailure` | the course of `dispatch_task` |
| `ListStale`, `ServeStale`, `Revoke`, `FailMultiple` | the cleanup handler and its result handler |
| `Read`, `DispatchResult`, `ResultHandlerRaises`, `Write` | the internal endpoints in their database steps: load the row; run the result handler (which may commit, and so expire the row); assign and commit |
| `TimeOut`, `Lose`, `DatabaseError`, `Crash`, `Terminate`, `Heartbeat`, `FallQuiet` | the environment |

A request is a process: `Read` keeps the status in the session (`seen`), and
`Write` writes the status only if it differs from that, as an UPDATE does. A
`TimeOut` orphans the request; the backend still completes it. After an answer
the worker goes on as `AfterOK`, `AfterError` and `AfterLoss` say: only the claim
and the stale list check the status code, only the result POST turns a transport
error into an exception.

Data left out: parameters, secrets (a read whose failure is ignored), the text of
results, and results of a task without a result handler, which `dispatch_result` lets
pass as SUCCESS (`task_dispatcher.py:23`): every task of the repository has one. The `result` column says only who wrote it. Time is `quiet`: longer
without a sign of life than the cleanup's timeout.

`ExecutionLifecycle` is the abstract specification: what somebody who polls an
execution may rely on. `Lifecycle` maps the pipeline to it (status column,
handled results), and `ImplementsLifecycle` is checked as a property.

Bounds: up to three executions, some from the API, some scheduled, one of them a
cleanup, and two processes; each run says which faults happen and how many.
Two processes are enough for an execution and the cleanup, or an execution and
its second delivery, to run at once; three executions are the least that has a
cleanup beside a scheduled and an API launch. `Symmetry` permutes the
processes, in runs without temporal properties.

| run | faults | checks |
|---|---|---|
| `timeouts` | 2 of timeout and bad result, API launches only | `AbandonedIsFinished`, `ResultMatchesStatus`, `SingleHolder`, `AppliedOnce` for two executions and a cleanup |
| `lifecycle` | 3 of broker, crash, bad result, database error | `FinishedIsTerminal`, `ImplementsLifecycle` |
| `liveness` | 2 bad results | `EveryLaunchEnds`, `ResultIsRecorded` |
| `heartbeat` | 1 of any kind, redelivery included; heartbeats | `ZombiesAreNotForgotten`: whom the cleanup kills or reports has finished, or is on a later stale list, although its report may be lost or overtaken |
| `stale` | 1 crash | refutes `StaleListIsComplete` |

Limits of what holds, seen while choosing the bounds: a scheduled execution whose
claim timed out keeps a PENDING row for ever, so `AbandonedIsFinished` is checked
for API launches; two timeouts and a failing handler leave an IN_PROGRESS of a
late start over the FAILURE, so `ResultIsRecorded` is checked without timeouts; a
heartbeat that overtakes the end of an execution reopens it, so
`ResultMatchesStatus`, `AbandonedIsFinished` and `EveryLaunchEnds` are checked
without them; a second delivery writes beside the first, so that result and status
of a row may come from two processes (`ResultMatchesStatus` is checked without); and with timeouts or resets the
worker reports FAILURE for results that were handled, which the life cycle
excludes. The documents (`docs/backend/celery.md`, `worker_handlers.md`) speak of a
heartbeat every 30 seconds; no worker sends one, which is why `stale` fails.

Fairness (`FairSpec`): the backend completes a request, a process goes on with its
task, the broker delivers, an API request sends its message. Nothing is assumed
of the environment, and nothing forces a handler to return rather than to raise.

With three faults `timeouts` was checked as well (7.8 million states).

The runs stop when every execution was launched: deadlock is not checked,
because launches are finite.

## 4. LdapSync

State: `users` is the committed table by primary key; `directory` gives each
entry its login (or none); `session` holds the database sessions of sync results
(`Sync`) and sign-ins (`SignIn`); `changes` counts what directory and
administrator have done.

A session keeps for each row what it loaded (`old`) and what it has made of it
(`new`), the users to insert (`add`), and for a batch the entries left (`todo`)
and `current_ldap_ids` (`seen`). Queries (`ById`, `ByLogin`, `Absent`) read the
committed table, not the session, since autoflush is off; a row the session holds
keeps its loaded values (`Loaded`), and unchanged rows are forgotten when the
loop goes on (`Kept`: the identity map is weak). `Commit` writes the changed
columns row by row in the order of the keys, then the new rows; `CommitFails` when
a unique index refuses a statement or a row to update is gone.

| action | code |
|---|---|
| `Fetch` | the worker's `fetch_users`, and the test for an empty batch in the result handler |
| `SyncEntry`, `DeactivateAbsent`, `Commit` | `sync_ldap_users_batch`: one turn of the loop, the query for the absent, the commit |
| `Merge` (`Match`, `Adopted`, `Created`) | `create_or_update_ldap_user` |
| `LookUp`, `Search`, `Provision`, `Refuse` | `AuthService.authenticate_user`: the row of the login, search and bind in the directory, create or update, 401 |
| `CreateUser`, `UpdateUser`, `DeleteUser` | `UserService`, each one transaction |
| `DirectoryChanges` | somebody joins, leaves or is renamed |

Left out: entries without id or login, names and dn, the statistics, LDAP switched
off, renaming by the administrator, built-in users (they behave as `local`). The
two look-ups of an entry (one for the statistics, one in
`create_or_update_ldap_user`) are one step. The status the worker sends is a string
such as "514", which no branch recognises, so `is_active` is never taken from it.

Bounds: two entries, two or three logins, three rows, one batch (which
starts again and again) and one sign-in, four changes. A batch of two
entries is the least in which one entry can disturb another; four changes allow
somebody to join, leave, come back under another id and meet the administrator in
between. `OwnNames` lets one entry be renamed and gives nobody a login that
somebody else has had; `SharedNames` does.

| run | what may happen | checks |
|---|---|---|
| `own` | own names, sign-in, administrator (de)activates and changes types, fairness | `AloneBatchCommits`, `AbsentAreDeactivated`, `OnlyAbsentAreDeactivated`, `EveryEntryHasRow`, `LeaversAreDeactivated` |
| `mixed` | shared names, searches cut off, sign-in, administrator creates, (de)activates and deletes | the inductive invariant, `DeactivationHolds`, `LocalUsersAreSpared` |

Fairness: every started batch or sign-in is carried out, and the schedule starts
the sync again; nothing is assumed of directory and administrator, whose number of
changes is bounded by `MaxChanges`. Deadlock is not checked: without entries in the
directory and with all changes used up, nothing is left to happen.

## 5. Rbac

State: `there` holds the committed users, groups, roles and permissions (`used`
also those deleted: a key does not come back); `links` says how often the three
association tables hold a pair, since they have neither a primary key nor a unique
index; `tx` holds the requests in progress, each a database transaction with what
it has read (`kept`, `missing`), deleted (`drop`), inserted (`put`), and taken from
loaded collections (`remove`). `touched` is a ghost: somebody else has committed
since the request began.

| action | code |
|---|---|
| `Create`, `LinkMembers` | `create_group`, `create_role`: the row and its commit; the associations and theirs |
| `Update` | `update_group`, `update_role`: load the owner and the built-in members |
| `RefuseUpdate`, `DeleteOthers`, `SelectMissing`, `InsertMissing` | one list: the guard, DELETE ... NOT IN, the query for the current members, INSERT; a group has two lists, roles first |
| `CommitUpdate`, `RefuseName` | the commit, which flushes the row of the owner; or its refusal, as another one has the name or the row is gone |
| `CreateUser`, `UpdateUser`, `Delete` | the calls that go through collections of the session |
| `FlushRow`, `FlushPair`, `Flush` | their commit: the UPDATE of a login; a DELETE per pair that must match one row, in any order; foreign keys, the row itself, new pairs |
| `DeadlockDetected` | the database refuses a statement of transactions that wait in a circle |

PostgreSQL is what the statements rely on: each sees what is committed by then,
waits for rows that another transaction has deleted (`Unlocked`), and for rows that
others hold (`Free`): an uncommitted pair holds both of its ends by the foreign keys
(`RefersTo`), so that a deletion of one, or an UPDATE of its unique name, waits; and
a login that is about to change holds its user (`Holds`). A request may change the
name of its owner (`renames`), unless that is built in. `Init` is what `init_data` leaves: the administrator, the group
`admins`, the role `admin` with every permission. Descriptions and the
answers are left out, names but for the fact that one changes; a clash of names is
`RefuseName`. An UPDATE that leaves the name as it is takes a lock that foreign keys
do not wait for, and is left out with the calls that name no list. The locks that one
statement takes are taken at once, and those that wait for a row do not queue.

Bounds: two groups, the role of the administrators, two users, one permission,
three calls, two at a time, each of which may name a member twice (`MaxTimes`);
three calls are the least that create a group and then have two requests meet in it
(the built-in group can be met in at once). Two permissions would behave as one,
since they reach the same role alike.

| run | checks |
|---|---|
| `calls` | `WholeInv` of `RbacInv`, `RootKeepsPermissions`, `ReplacementIsExact`, `OnlyRenamesDeadlock`, `CopiesAreBounded` |

What the bounds of the properties say: two replacements at once may leave the
union of their lists, so `ReplacementIsExact` is about updates that nobody else's
commit has touched. `OnlyRenamesDeadlock` is about `update_group` and `update_role`,
which delete list by list in a fixed order, so that the lists never make a circle. The
row of the owner does: two calls that each add a member to one group and rename it
wait for each other at their commits (section 11). The property says that every
circle of updates is of that kind: one of them is about to rename its owner, for which
another one of the same owner has inserted pairs. `delete_group` beside an
`update_group` can wait in a circle with it too, since its flush takes the pairs of the two
tables in the order of a set; so can `update_user`, whose flush is of that kind. One DELETE ... NOT IN is one step: two of the same group take the rows
in the same order. TLC's deadlock check is off: calls are finite.

## 6. Schedule

State: `flag` is the row LDAP_ENABLED, `task` the periodic task "Users: LDAP Sync"
(enabled, crontab, whether its arguments hold schedule_id), `cleanup` the task of
the zombie cleanup, `changed` the row last_update that beat looks at; `tx` holds the
requests of administrators, `left` what the backend has still to initialise, `beat`
the copy of the task in beat and the last_update it saw. `disturbed` is a ghost: a
request has committed although somebody else had since it began, or has set the
switch to null.

| action | code |
|---|---|
| `Open` | `PUT /settings/ldap/{key}` or `PATCH /settings/ldap` arrives |
| `ReadFlag`, `ReadInfo`, `LoadTask` | the queries of `update_ldap_setting` and `update_ldap_settings_bulk`, in the order of each: the row or `is_ldap_enabled`, `get_periodic_task_info`, the task itself |
| `Stamp`, `Commit`, `RollBack` | the listener that takes last_update at the flush; the commit of the columns with a net change (`Column`, `Updated`); an error |
| `Crash` | the backend stops at any point and starts again, perhaps with another environment |
| `InitRows`, `InitTask`, `InitCleanup`, `SyncPeriodicTasks` | the commits of a start: the two `init_data`, in either order, and the lifespan, which writes the task without schedule_id and closes the session without a commit |
| `BeatStarts`, `BeatChecks` | beat reads its tables, anew when last_update has grown |

Left out: the other keys of the table and the test of a connection (section 9), the
listing.
The crontab has two of its five fields, and a string that is not one is `Unparsable`
or `Empty`: `create_or_update_periodic_task` makes it midnight, while the answer
returns the string. A request finds the task, since the backend serves after its
start only; one backend runs, so a start runs alone; LDAP_ENABLED in the
environment is taken as given once and for all (changed between the two attempts of
a very first start, it leaves flag and task apart).

Bounds: two requests of eight kinds (switch, crontab, both, null, unparsable), two
crashes, three environments. Two requests are the least in which one overtakes
another; two crashes the least that interrupt a start and then the next one.

| run | checks |
|---|---|
| `schedule` | `WholeInv` of `ScheduleInv` (with `ScheduleIdStays` and `BeatIsCurrent`), `FlagMatchesTask`, `StartIsComplete`, `RestartsKeepSettings`, `UndisturbedIsExact`, `BeatLearns` |

Fairness: a request is carried out, a started backend gets to its end, beat looks at
its tables. `BeatLearns` and `FlagMatchesTask` are about histories in which no
request is overtaken; what overtaken ones may do is in section 11. Deadlock is not
checked: requests and crashes are finite.

## 7. AuthSessions

State: `sessions` is the table user_sessions, `held` the refresh tokens in cookies,
`tokens` the access tokens in browsers, each with the permissions it carries;
`account` and `rights` are what administrators and synchronisation decide; `req` the
requests in progress with what they have read. `lost`, `off` and `ended` are
ghosts: when a permission, an account or a session came to its end. Tokens are their
payload: two refresh tokens of a user in one second are the same.

| action | code |
|---|---|
| `Authenticate`, `ReadRights`, `CreateTokens`, `SaveSession`, `SaveFails` | `POST /auth/login`: `authenticate_user`, then `create_tokens` with `get_user_permissions` and the commit of the row, which the unique index or the foreign key may refuse |
| `FindSession`, `ReadRights`, `CreateAccess` | `referesh_access_token`: the row and the user, the permissions, the token |
| `Answer`, `AnswerIsLost` | the answer reaches the browser, or comes after the gateway has given up |
| `Logout`, `RevokeSession` | `POST /auth/logout`, `DELETE /auth/sessions/{id}` |
| `LoadUser`, `DeleteUser`, `DeleteFails` | `delete_user`: the sessions are loaded as a collection and deleted with the user, unless he has signed in between |
| `SetActive`, `ChangeRights`, `Tick` | deactivation, a commit of Rbac that reaches the user, the clock |

The gateway waits `Delay` for an answer: `gateway/nginx.conf` proxies every call and
sets no read timeout, which leaves the default of a minute. Without such a bound
nothing could be said: a request that has read permissions makes a token of them
whenever it gets to it. Expiry of a token and of its row are taken as one moment.
Left out: names and changes of logins, last_used_at, built-in users (who cannot be
deleted). Expired rows are kept: `GET /auth/sessions`, "active sessions" in
`docs/backend/api.md:37`, lists them too, since nothing purges them.

Bounds: one user, one permission, two requests at a time, three calls, access tokens
live 1 and refresh tokens 3, the gateway waits 1, the clock ends at 6: the life of a
session, of its last access token, and of the answers on their way. Users share
nothing but the clock, and permissions nothing at all, so one of each stands for all
(the proofs are for any number). Each of the three bounds is tight: with one unit less TLC finds
a violation.

| run | checks |
|---|---|
| `sessions` | the inductive invariant, `StalePowerIsBounded`, `EndedSessionsDieOut`, `DeactivatedDieOut` |

What the properties say is a limit and not a promise of the documents: a lost
permission works for `Delay + AccessLife`, the tokens of a session that was logged
out or revoked for as long, and a deactivated user gets new tokens from
the refresh until the sessions he had have expired. Most other requests of his are
refused by `get_current_user`; the lists of tasks, executions and permissions
(`tasks/api/tasks.py:34-92`, `users/api/permissions.py:7`) depend on `permission_checker`
only, look at nothing but the token, and answer him as long as he has a valid one. No liveness is stated. The runs end with the clock.

## 8. TokenRefresh

State: `stored` is the access token in local storage and `session` says whether the
refresh cookie is that of a living session; both are shared by the tabs. `page` holds
what a tab has in memory (whether it is rendered, the user of the store,
isRefreshing, the refresh under way, whether the token that a refresh has left in
`apiClient.defaults.headers` is still valid), `call` the API calls with their place between
sending and settling: failedQueue is the calls at "queued". Of the token of a call
only its validity is kept, and until the answer. `calm` is a ghost: the
session has lived and the network held since the beginning.

| action | code |
|---|---|
| `Send`, `Request` | a call, and the request interceptor: the token of local storage, or else the default header of the page |
| `Login`, `LoggedIn`, `Logout`, `Load`, `After`, `Forgets` | `AuthService.login` (the token, then /auth/me), `logout`, `initialize` before the first render, and what their ends do to store and page |
| `Serve`, `ServeLogin`, `ServeLogout`, `ServeRefresh` | the backend, as far as the client tells its answers apart; a deactivated user may be answered where a permission is all that is asked for |
| `Resolve`, `Reject`, `Fail`, `Wait`, `Refresh` | the response interceptor: success, a second 401, an error without an answer, the queue, the first 401 |
| `Refreshed`, `RefreshRefused`, `Leave` | the end of the refresh: store and resend, or reject everybody, forget the token and go to the login page; `finally` |
| `Close`, `SessionEnds`, `Deactivate`, `RefreshFails`, `Expire` | tabs, other browsers and administrators, the network, the clock |

One turn of the event loop is one step. A queued call is not marked `_retry`, only
the one that refreshes is; `again` is a ghost for calls sent a second time. `Expire`
assumes that the life of an access token is long beside the timeout of a call.
Answers other than 401 are handed to the caller, as the success is.

Bounds: two tabs, one with two calls and one with one, two clicks (besides the first
loads); the second call is the least that queues behind the first, and the second
tab the least that changes the token under it. With three clicks the safety
properties were checked as well (1.1 million states).

| run | checks |
|---|---|
| `browser` | the inductive invariant (with `QueueHasRefresh`), `CalmCallsResolve`, `EverySettles`, `PagesRender` |

Fairness: a call is answered or runs into its timeout (5 s), a refresh is answered
(it has no timeout of its own; the gateway answers after its own), an answer is
looked at, a page told to leave goes. Users need not do anything. Deadlock is not
checked: clicks are finite.

Limits seen while choosing the bounds: a network error during a refresh signs the
user out, as a refusal does; `initialize` removes the token on any error, a timeout
included; a wrong password in a second tab removes the token the tabs share, and the
others heal by a refresh; a refresh answered after the log-out in another tab stores
a token again, which `EndedSessionsDieOut` bounds. With a deactivated user and ever
new calls a call could queue again and again behind their refreshes: the number of
calls is finite in the model, and in a page that is sent to the login page.

## 9. LdapSettings

State: `row` is the table ldap_settings without the switch (section 6): URI, bind DN,
password, base, filter, tls_verify; `tx` holds the PUTs and PATCHes in progress with the
rows they have loaded, `reader` a run of `users:sync_ldap` or a sign-in with what it has
got so far. `tested` and `reported` are history: the forms that passed the test, and
whom the worker has found with which settings. `touched` is a ghost: a commit has fallen
in between. `clear` is one as well: the network has answered. `Directory` says what
answers at each URI.

| action | code |
|---|---|
| `Open`, `Load`, `Commit`, `RollBack` | `PUT /settings/ldap/{key}`, `PATCH /settings/ldap`: a query for each key, then the UPDATE of what differs from the loaded value (`Saved`); a new cipher always differs |
| `Test` | `test_ldap_connection`, the mask replaced by the stored password (`Effective`) |
| `Start`, `Query` | the worker asks for its secrets (`get_task_secrets`, a query for each of them), or `authenticate_ldap_user` begins; each reads in its own order (`Order`) |
| `WorkerConnects`, `WorkerFetches` | `sync_ldap_users_handler` with `connect_to_ldap`, then `fetch_users` with `detect_server_type` |
| `BackendConnects`, `SearchPerson` | `connect_to_ldap` and `detect_server_type` of the backend, then the search for the id of the person |

The values are data: texts of each kind, and the words the code tells apart (`Empty`,
`Null`, `Mask`, `On`, `Off`). `Null` is both null in a request and the text "None" that is
stored for it; as a password it cannot be decrypted, and whoever asks for it gets an
exception: the secrets endpoint answers 500, the worker goes on without secrets and the
handler refuses. The two kinds of server differ in their Root DSE (`marks`) and in the
attribute that holds the id of an entry (`Identified`). The worker's copy of
`detect_server_type` asks for all of the Root DSE (`WorkerDetects`). The backend's names
three attributes, and what was named is in the entry of ldap3, empty if the server has no
such attribute (`return_empty_attributes`, a default nobody changes): `"forestFunctionality"
in dse` (`core/ldap_service.py:134`) is true of whatever server answers, so every server
is an Active Directory to it (`BackendDetects`). The test and the worker send the filter as
it is, and ldap3 takes it in parentheses only (`Whole`, `Found`); a sign-in cuts off its last
character and puts the id there if it begins with "(&", and adds parentheses if it has none
(`Joined`, `Sought`). ldap3 is not under `src/`, and the tests replace
`detect_server_type`: both facts are those of the library as it is published. A base or filter that is not one
finds nobody; a search that fails is an empty list to the worker, and a search may be cut
off, but not to nothing. A sign-in of somebody whom the backend does not know searches by
login, in an attribute that depends on the kind of server as the id does, and is left out, as
are the password of the person and the timeouts (they are failures of the network here).
The getter of core settings, asked after that of LDAP, has none of these keys.

Bounds: an Active Directory that only vendorName gives away, with a certificate nobody
can verify and anonymous binds, and an OpenLDAP without TLS; two people, a filter, another
that a sign-in cannot put an id into, two passwords; five requests (both servers, one of them beside a mask and the other filter,
null, a mask by PUT, tls_verify), two at a time, three forms, a reader who starts
again and again. Two requests are the least in which one overtakes another and a
reader falls between them; readers share nothing but the table, so one stands for all (the
proofs are for any number). `Symmetry` permutes the requests.

| run | checks |
|---|---|
| `settings` | the inductive invariant, `TestedSettingsWork`, `SyncedPeopleAreFound`, `SavesAreExact` |

What the bounds of the properties say: `TestedSettingsWork` is about settings with a
password, since the test binds anonymously when it has none, and the worker and the
sign-in refuse to; and a sign-in may find nobody with settings that were tried, if the person is
not there. `SyncedPeopleAreFound` is about Active Directories and filters that take an id:
without either condition TLC finds a violation (section 11). `Located`, in the invariant,
says that whom a sign-in finds is there, and that at an OpenLDAP only a failure of
the detection lets it find somebody. Nothing makes a reader see the table at one moment: a bulk update that falls
between two of its queries gives it the URI of one server and the password of another,
which that server refuses. Overlapping bulk updates may leave a mixture. Deadlock is not
checked: requests are finite.

## 10. Proofs

The proofs hold for any sets of executions, processes, rows, entries and sessions,
any number of faults and changes, under the assumptions named in the modules
(`ExecutionAssumption`, `FaultAssumption`, `KeyAssumption`, `SessionAssumption`,
`EntityAssumption`, `CronAssumption`, `FlagAssumption`, `AskAssumption`,
`TaskAssumption`, `EnvironmentAssumption`, `BoundAssumption`, `UserAssumption`,
`TimeAssumption`, `CallAssumption`, `TextAssumption`, `DirectoryAssumption`,
`FormAssumption`, `FilterAssumption`, `RequestAssumption`: kinds of things are disjoint, bounds are numbers,
every call has its tab, an Active Directory shows itself in its Root DSE, finitely many
requests are in progress at once). TLC evaluates them in the runs. Where a theorem
excludes a kind of fault, its hypothesis says so; the runs that check the same property
exclude it too, and the section of the module says what happens otherwise.

`TaskExecutionProofs`

* `TypeCorrect`: `Spec => []TypeOK`. Types alone are not inductive: an answer sends
  the process that waits for it to a place that depends on the request, so the
  invariant must know that a request that is waited for is the one its process
  waits at, for the same execution, and the only one (`ExchangeInv`).
* `ResultIsAppliedOnce`: without redelivery, `[]AppliedOnce`. `RightInv` follows the
  right to have a result handled: it is with the API request, on the broker, with
  a process, in an unhandled request, or spent, and never in two places.
* `SingleHolderAlways`: without redelivery, `[]SingleHolder`. `HolderInv` adds that
  whoever has an execution got it from its one launch, so that a launch finds
  nobody who has it.
* `RowBeforeWorkAlways`: `Spec => []RowBeforeWork`, redelivery included. `RowInv` adds
  that what the API hands on has its row; a scheduled launch gets it from its claim.
* `InvAlways`: without redelivery, `[]IndInv`, all five parts together.

`TaskLifecycleProofs`: how an execution ends, as the repository stands. The first five
theorems assume that nobody calls the heartbeat endpoint (no file of the repository
does; `heartbeat` explores what follows when somebody does), hence that the cleanup
finds nothing stale (`NoHeartbeatInv`).

* `FinishedIsTerminalAlways`: also without redelivery and time-outs of the worker's
  client. Then one request at a time may touch a row, and only that of the process
  which has the execution (`TurnInv`); so the status moves with the work, and what a
  request has read stays true until it writes (`StageInv`). A time-out breaks just
  that: the handler goes on for a client that has given up.
* `ResultIsRecordedAlways`: if moreover no statement is refused and no connection is
  reset. `FailureInv`: a process that is about to report a failure has no handled result.
* `LifecycleImplemented`: `Spec => ImplementsLifecycle` without time-outs, redelivery and
  resets; crashes, refused statements, lost launches and raising handlers are allowed.
  The simulation takes each action to the step of `ExecutionLifecycle` it is, or to a
  stutter.
* `ResultMatchesStatusAlways`: time-outs, resets, refusals and crashes are allowed, only
  redelivery is not. Here a late report does meet another one, and `OutcomeInv` says what
  such a report may have read: a process reports one result and after it at most one
  FAILURE; if that has read FAILURE, and so leaves the status alone, no result is under
  way and the row does not say SUCCESS.
* `AbandonedIsFinishedAlways`: redelivery is allowed; crashes, lost messages, refusals
  and resets are not, nor time-outs of scheduled executions, whose claim nobody repeats.
  `CarriedInv`: a row that is there and not finished is waiting, with a process, or has
  a report on its way.
* `ZombiesAreNotForgottenAlways`: `Spec => []ZombiesAreNotForgotten`, for every kind of
  fault and with heartbeats. Only what has begun sends heartbeats, and a row that has
  begun never goes back to PENDING, since a request that has read it as begun writes
  nothing less, and a claim finds its row absent (`ZombieInv`, `UnclaimedInv`: a firing
  of beat leads to one claim); the cleanup knows nobody but from the stale list, and
  that list names nobody without a heartbeat.

`LdapSyncProofs`

* `InvAlways`: `Spec => []Inv`. `Inv` says of every session that it holds both values
  of a row or neither, a login for everything it has to merge, and no activation
  of a user it has loaded as inactive.
* `TypeCorrect`: `Spec => []TypeOK`, from the first two parts.
* `DeactivatedStaysSo`: `Spec => DeactivationHolds`. The third part of `Inv`: no
  session sets `is_active` on a row it has loaded; with the net-change UPDATE no
  commit activates a user who is inactive by then.
* `LocalUsersSpared`: `Spec => LocalUsersAreSpared`, while the administrator changes
  nobody's type. `TypeInv`: the type a session has loaded is the one in the table, and
  what it has changed is of type ldap.
* `AloneBatchCommitsAlways`, `AbsentDeactivated`, `OnlyAbsentDeactivated`, `EntriesHaveRows`:
  while no two entries of the directory may have the same login and the administrator
  creates nobody by hand, as in `own`; (de)activation, changes of type, deletions and any
  number of batches and sign-ins are allowed. `OwnInv` ties a loaded row to the entry it was
  loaded for, the new users of a session to entries without a row (unless the row was written
  meanwhile), and, once a batch is about to commit, what it deactivates to what it has not
  seen. Shared logins break it: in `mixed` two rows may claim one entry.

`RbacProofs`

* `InvAlways`: `Spec => []Inv`. `DropInv` says that a row is deleted by one
  transaction at a time and is there until that one commits; `KeptInv` that no
  request in progress holds a built-in pair among its deletions or removals, and that an
  update of an owner knows the built-in members it must keep. Neither is true by one
  guard: the pair of the group `admins` and the administrator is protected by
  `update_group` from one end, `update_user` from the other, and by the deletions
  of both.
* `RootKeeps`: `Spec => []RootKeepsPermissions`, from the pairs of `KeptInv`.
* `OnlyRenamesDeadlockAlways`: `Spec => []OnlyRenamesDeadlock`, with `OrderInv` on top of
  `Inv`: an update has deleted and inserted pairs of its own group or role only, has
  deleted none while the roles are still to do, and rows of other lists only when no
  list is left. A circle of deletions would need one that waits at its users and is
  waited for by one that waits at a list it has finished (`NoCircleOfLists`). A role
  that is renamed may wait for an update of a group that has been given it; but
  then the updates of groups in the circle wait for each other, and the circle without
  the roles is one already.
* `ReplacementIsExactAlways`: `Spec => ReplacementIsExact`. `ExactInv` follows an update that
  nobody disturbs through its lists: those it has done hold what was asked for, those
  to come are untouched, and of the one in hand it knows which members are missing.
  It needs the foreign keys (`RowsInv`): a member asked for may be gone.
* `CopiesAreBoundedAlways`: `Spec => []CopiesAreBounded`. Copies are no invariant by
  themselves, as a pair is counted when it is inserted. `CopiesInv` counts ahead: a
  pair has at most `MaxTimes` copies for each request that cannot add it any more, since a
  request that may still add it has not found it.
* `WholeInvAlways`: `Spec => []WholeInv`, what the run checks.

`ScheduleProofs`

* `InvAlways`: `Spec => []Inv`. A request that nobody has overtaken has read what is
  still in the tables, in whatever order it asked; and the parts of a start come in
  their order, so that a task or a cleanup is there once its part is done.
* `FlagMatches`, `ArgumentsStay`, `StartsAreComplete` (invariants) and `RestartsKeep`,
  `UndisturbedExact` (action properties) follow from it. `FlagMatchesTask` alone is not
  inductive: a commit keeps it because the session's `readFlag` and `old` are those of
  the tables.
* `BeatIsCurrentAlways`: `Spec => []BeatIsCurrent`, the safety half of `BeatLearns`: as long
  as no commit overtakes another, last_update grows with every change (`StampsInv`), so
  beat that has seen it has the task as it is. That beat looks is left to TLC.
* `WholeInvAlways`: `Spec => []WholeInv`, what the run checks.

`AuthSessionsProofs`

* `InvAlways`: `Spec => []Inv`. `RequestOK` follows a request from its first query: the
  permissions it has read its user has, or has lost since it began; its session is
  there, or was when it began; a sign-in began while its user was active. `HeldOK`
  bounds the refresh tokens that a deactivated user holds.
* `StalePowerEnds`, `EndedSessionsEnd`, `DeactivatedEnd`: the three bounds, which are
  parts of `Inv`, since each needs the answers on their way.

`TokenRefreshProofs`

* `InvAlways`: `Spec => []Inv`. `ClosedOK` says that nothing goes on in a page that is
  gone; `CalmOK` that, while all is calm, a call sent again carries the new token and is
  never answered with 401.
* `QueueIsServed`, `CalmResolves`: `[]QueueHasRefresh` and `[]CalmCallsResolve`, for
  any number of tabs and of calls.

`LdapSettingsProofs`

* `InvAlways`: `Spec => []Inv`. `ReaderOK` follows a reader: what it has got is the first
  so many settings of its order, those of the table unless it was touched; if it was
  refused or found nobody (a sign-in: at an Active Directory), the settings it holds say
  why, or the network; whom a sign-in has found is there (`Located`). `SessionOK`
  says that an untouched request has loaded what is in the table.
* `TestedSettingsWorkAlways`, `SyncedPeopleAreFoundAlways`: whoever has read all
  of a form that passed the test holds that form (`TestedWhole`), so its reason to fail
  would be one for the test to fail. The worker is right about a server whose Root DSE
  he has read (`DetectionIsRight`), the backend only about an Active Directory, which
  is why the second is about these; whom the worker finds is sought by a sign-in if the filter
  takes an id (`FoundIsSought`).
* `SavesAreExactAlways`: `Spec => SavesAreExact`, from `SessionOK`.

TLC checks the inductive invariant `Inv` or `WholeInv` of each module in its run,
together with the type invariant it holds. Those of `TaskExecutionInv`, and `TypeInv` and
`OwnInv` of `LdapSyncInv`, hold under the hypotheses named above; the runs check the
properties that follow from them (`ZombiesAreNotForgotten`, `SingleHolder`, `AppliedOnce`,
`FinishedIsTerminal`, ..., `AloneBatchCommits`, ...).

Only model-checked: liveness (`EveryLaunchEnds`, `LeaversAreDeactivated`, `BeatLearns`,
`EverySettles`, `PagesRender`), since fairness and ENABLED are out of the prover's reach;
and the violation, which is a counterexample.

## 11. Other disagreements, seen while modelling

The run that fails on purpose (`stale`) quotes a comment. More disagreements were
met, each in a few steps of the models; no run is kept for them:

* `app/tasks/api/internal.py:115` says that an execution whose result handler
  fails is marked FAILED "so that the admin sees the error". When the failure is
  one of the database (`DatabaseError`), the session needs a rollback, the except
  branch's own update raises, the answer is 500, the worker ignores it, and the row
  stays IN_PROGRESS.
* `app/tasks/execution_service.py:129` says that finished executions are left
  alone; the filter excludes SUCCESS only, so an execution that failed between the
  stale list and the mass update has its reason overwritten (`FailMultiple`).
* A batch is as old as the worker's search (`Fetch`). Somebody who joins the
  directory and signs in after it is not in the batch and is deactivated by it. The
  same happens to those whom a search leaves out that the directory has cut off at
  its size limit: `fetch_users` ignores the result of the search (`CutOff`).
* `app/users/ldap/services.py:279` checks the type of a user on the row as loaded; a
  user whom the administrator makes local before the batch commits still gets
  login and id of the entry. `LocalUsersAreSpared` is therefore checked without
  changes of type.
* `app/users/ldap/services.py:409` looks for "all LDAP users who are active but not
  in the current list from LDAP". With autoflush off the query reads the committed
  rows: an account re-created in the directory is matched by login, gets its new id
  in the session only, and is deactivated by the batch that has just adopted it.
  `OnlyAbsentAreDeactivated` is checked where logins are not reused (`OwnNames`).
* `app/users/ldap/services.py:383` adds the `ldap_id` of a matched local user, None,
  to the ids seen; NOT IN a list with NULL is true of no row, and as long as the
  directory has that login nobody is deactivated. `AbsentAreDeactivated` is checked
  without local users of that kind.
* `app/users/groups/services.py:204` says that the roles "not linked yet" are added; a
  list that names a role twice, or two requests at once, store the pair twice
  (`CopiesAreBounded`). A group, role or user with such a pair can no longer be
  deleted: the flush expects one row, finds two, and StaleDataError is not the
  IntegrityError that the deletions catch.
* Two PUTs of one group that each add a member and change its name wait for each
  other: each has inserted a pair, which holds the row of the group, and each is about
  to UPDATE its unique name at the commit (`groups/services.py:255`,
  `roles/services.py:189`). The database refuses one of them, with an error that is not
  the IntegrityError caught there: 500.
* A group or role whose creation is refused because of a member that does not exist
  stays without members, as its row was committed first (`LinkMembers`); the
  repetition of the call is refused because the name exists.
* `LdapSyncButton.tsx:32` says "Stop polling on terminal states". `update_status`
  assigns whatever status the row has: after a result POST that timed out at the
  worker and was handled by the backend, the worker reports FAILURE, and the two
  commits may come in either order. A button that stopped at the first shows one outcome
  and the table keeps the other. `FinishedIsTerminal` is checked where no answer is late.
* `app/settings/ldap/services.py:89` says that the switch is read in order not to
  reset the flag enabled ("чтобы не сбросить флаг enabled"). A PUT of the crontab that
  reads LDAP_ENABLED, is overtaken by a PUT of the switch, and then loads the task
  writes the old flag over the new: the task is scheduled while LDAP is off, or the
  reverse, until the switch is written again.
* Overtaking requests that change different fields of the crontab leave a mixture of
  both. A PATCH of null for LDAP_ENABLED stores "None", which is off, and leaves the
  task enabled (`Unheard`). A PUT of null for the password stores "None" unencrypted,
  and a PUT of the mask "********" encrypts the mask (`services.py:116`), which the
  bulk update ignores (`:167`): both are in `LdapSettings`, where a stored "None" refuses
  every run and sign-in.
* `docs/backend/ldap_auth.md:23` and `:34-36` promise `entryUUID` and `uid` for OpenLDAP.
  The backend takes every server that answers for an Active Directory (section 9), so a
  sign-in searches an OpenLDAP for objectGUID or sAMAccountName and finds nobody, while the
  worker reports its people by entryUUID; and as the test only binds and searches, such
  settings pass it. Only when the Root DSE cannot be read does the sign-in go on as the
  document says. This rests on ldap3's default for attributes that are missing.
* A filter that begins with "(&" and ends in a blank passes the test and works for the worker;
  a sign-in cuts off the blank instead of the parenthesis (`users/ldap/services.py:161`),
  which leaves no filter, and every sign-in of an LDAP user is refused.
* last_update is taken at the flush (`app/tasks/models.py:83`), before the UPDATE may
  wait: when commits overtake each other it goes backwards, and beat misses a change
  until the next.
* `app/tasks/initial_data.py:52`: the interval of an existing cleanup is not
  changed when TASK_TIMEOUT is, its argument is.

## 12. Not modelled

The composition of row 8 of the plan: `TaskExecution` says only that a result handler
may fail after changes of its own, `LdapSync` what these are. The table
of core settings, the collection of tasks at import, migrations and tools, nginx and
the compose file, the frontend's pages and forms. They either keep no state, or change
one row in one transaction, or only show what the backend answers. `PROJECT.json`
names each with its reason. Of the modelled parts: attribute mapping and decoding of
LDAP entries but for the id, the cipher itself, passwords of people, names, when a crontab is due.

## 13. Running

    tlc -config MCTaskExecution_timeouts.cfg MCTaskExecution
    tlc -config MCLdapSync_own.cfg MCLdapSync
    tlc -config MCRbac_calls.cfg MCRbac
    tlc -config MCSchedule_schedule.cfg MCSchedule
    tlc -config MCAuthSessions_sessions.cfg MCAuthSessions
    tlc -config MCTokenRefresh_browser.cfg MCTokenRefresh
    tlc -config MCLdapSettings_settings.cfg MCLdapSettings
    tlapm TaskLifecycleProofs.tla

and so for the other configurations and proof modules. Each run takes up to three
minutes with two workers; `heartbeat` is the largest (2 million states).
