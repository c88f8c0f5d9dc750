---------------------------- MODULE TokenRefresh ----------------------------
(***************************************************************************)
(* The tabs of one browser: the API client, which refreshes the access     *)
(* token when a call is answered with 401 and makes other calls wait for   *)
(* it (frontend shared/api/api-client.ts), and the flows of sign-in,       *)
(* log-out and page load around it (modules/auth).                         *)
(*                                                                         *)
(* The tabs share local storage and cookies; isRefreshing and failedQueue  *)
(* belong to a tab and die with its page.  One turn of the event loop is   *)
(* one step.                                                               *)
(***************************************************************************)
EXTENDS Naturals

CONSTANTS
    Tab,
    Call,       \* calls a tab can have in progress,
    TabOf,      \* and the tab of each
    MaxCalls    \* what users do (a bound for TLC only)

ASSUME CallAssumption == TabOf \in [Call -> Tab] /\ MaxCalls \in Nat

VARIABLES
    stored,     \* localStorage "Token"
    session,    \* the refresh cookie is that of a living session
    barred,     \* the user was deactivated: 401 with any token, but for a few endpoints
    page,
    call,
    calls,
    calm        \* the session has lived, and the network held, since the beginning

vars == <<stored, session, barred, page, call, calls, calm>>

----------------------------------------------------------------------------

Token == {"none", "valid", "expired"}

\* "refresh" is the GET /auth/refresh under way; "header" says that the token which a
\* refresh has left in apiClient.defaults.headers is still valid.
Page ==
    [phase : {"closed", "blank", "up"}, path : {"login", "app"}, user : BOOLEAN,
     leaving : BOOLEAN, isRefreshing : BOOLEAN,
     refresh : {"none", "sent", "granted", "refused"}, header : BOOLEAN]

Closed ==
    [phase |-> "closed", path |-> "login", user |-> FALSE, leaving |-> FALSE,
     isRefreshing |-> FALSE, refresh |-> "none", header |-> FALSE]

Over == {"idle", "rejected"}

\* "valid" says that it is on its way with a token that is, "_retry" is the mark of the
\* call that has refreshed; "again" is set for every call that is sent a second time.
Exchange ==
    [at : Over \cup {"sent", "ok", "401", "queued", "refreshing"},
     kind : {"data", "init", "login", "me", "logout"},
     valid : BOOLEAN, retry : BOOLEAN, again : BOOLEAN]

Idle == [at |-> "idle", kind |-> "data", valid |-> FALSE, retry |-> FALSE, again |-> FALSE]

\* failedQueue, and those who will hear of the refresh.
Queue(t) == {c \in Call : TabOf[c] = t /\ call[c].at = "queued"}

Waiting(t) == {c \in Call : TabOf[c] = t /\ call[c].at \in {"queued", "refreshing"}}

Pending(c) == call[c].at \notin Over

TypeOK ==
    /\ stored \in Token
    /\ session \in BOOLEAN /\ barred \in BOOLEAN /\ calm \in BOOLEAN
    /\ page \in [Tab -> Page]
    /\ call \in [Call -> Exchange]
    /\ calls \in 0..MaxCalls

Init ==
    /\ stored \in Token
    /\ session \in BOOLEAN /\ calm = session
    /\ barred = FALSE
    /\ page = [t \in Tab |-> Closed]
    /\ call = [c \in Call |-> Idle]
    /\ calls = 0

----------------------------------------------------------------------------
(* Sending. *)

\* The request interceptor puts the token of local storage over the default header;
\* when there is none, the header stays as the last refresh of the page has left it.
Request(c, k) ==
    LET valid == IF stored # "none" THEN stored = "valid" ELSE page[TabOf[c]].header
    IN  /\ ~Pending(c)
        /\ call' = [call EXCEPT ![c] = [Idle EXCEPT !.at = "sent", !.kind = k, !.valid = valid]]

\* What a user does counts.
Click == calls < MaxCalls /\ calls' = calls + 1

Server == <<session, barred>>

\* A query or a change of some page.
Send(c) ==
    /\ page[TabOf[c]].phase = "up" /\ page[TabOf[c]].user
    /\ Click
    /\ Request(c, "data")
    /\ UNCHANGED <<stored, Server, page, calm>>

\* AuthService.login, from the login page.
Login(c) ==
    /\ page[TabOf[c]].phase = "up" /\ ~page[TabOf[c]].user
    /\ \A d \in Call : TabOf[d] = TabOf[c] /\ Pending(d) => call[d].kind \notin {"login", "me"}
    /\ Click
    /\ Request(c, "login")
    /\ UNCHANGED <<stored, Server, page, calm>>

\* AuthService.logout.
Logout(c) ==
    /\ page[TabOf[c]].phase = "up" /\ page[TabOf[c]].user
    /\ Click
    /\ Request(c, "logout")
    /\ UNCHANGED <<stored, Server, page, calm>>

\* A page goes, and everything in memory with it.
Unloaded(t) == [c \in Call |-> IF TabOf[c] = t THEN Idle ELSE call[c]]

Unload(t) ==
    /\ page' = [page EXCEPT ![t] = Closed]
    /\ call' = Unloaded(t)
    /\ UNCHANGED <<stored, Server, calm>>

\* window.location.href.
Leave(t) ==
    /\ page[t].leaving
    /\ Unload(t)
    /\ UNCHANGED calls

\* A user closes or reloads the tab.
Close(t) ==
    /\ page[t].phase # "closed"
    /\ Click
    /\ Unload(t)

\* AuthService.initialize, before anything is rendered: without a token the login
\* page is shown, with one the user is asked for.
Load(c) ==
    LET t == TabOf[c]
    IN  /\ page[t].phase = "closed"
        /\ \E path \in {"login", "app"} :
              IF stored = "none"
              THEN /\ page' = [page EXCEPT ![t] = [Closed EXCEPT !.phase = "up"]]
                   /\ UNCHANGED call
              ELSE /\ page' = [page EXCEPT ![t] = [Closed EXCEPT !.phase = "blank",
                                                                 !.path = path]]
                   /\ Request(c, "init")
        /\ UNCHANGED <<stored, Server, calls, calm>>

----------------------------------------------------------------------------
(* The server. *)

\* The token of a call is looked at once.
Answer(c, a) == call' = [call EXCEPT ![c].at = a, ![c].valid = FALSE]

\* get_current_user, but for endpoints that ask for a permission only, which is in the
\* token; an answer other than 401 is handed to the caller as it is.
Serve(c) ==
    /\ call[c].at = "sent" /\ call[c].kind \in {"data", "init", "me"}
    /\ \/ (~call[c].valid \/ barred) /\ Answer(c, "401")
       \/ call[c].valid /\ (barred => call[c].kind = "data") /\ Answer(c, "ok")
    /\ UNCHANGED <<stored, Server, page, calls, calm>>

\* A wrong password, or a new session.
ServeLogin(c) ==
    /\ call[c].at = "sent" /\ call[c].kind = "login"
    /\ \/ Answer(c, "401") /\ UNCHANGED session
       \/ ~barred /\ Answer(c, "ok") /\ session' = TRUE
    /\ UNCHANGED <<stored, barred, page, calls, calm>>

\* No token is needed.
ServeLogout(c) ==
    /\ call[c].at = "sent" /\ call[c].kind = "logout"
    /\ Answer(c, "ok")
    /\ session' = FALSE /\ calm' = FALSE
    /\ UNCHANGED <<stored, barred, page, calls>>

ServeRefresh(t) ==
    /\ page[t].refresh = "sent"
    /\ page' = [page EXCEPT ![t].refresh = IF session THEN "granted" ELSE "refused"]
    /\ UNCHANGED <<stored, Server, call, calls, calm>>

\* The session expires or is revoked; the user is deactivated; the network fails.
SessionEnds ==
    /\ session' = FALSE /\ calm' = FALSE
    /\ UNCHANGED <<stored, barred, page, call, calls>>

Deactivate ==
    /\ barred' = TRUE /\ calm' = FALSE
    /\ UNCHANGED <<stored, session, page, call, calls>>

RefreshFails(t) ==
    /\ page[t].refresh \in {"sent", "granted", "refused"}
    /\ page' = [page EXCEPT ![t].refresh = "refused"]
    /\ calm' = FALSE
    /\ UNCHANGED <<stored, Server, call, calls>>

\* The life of an access token is long beside the timeouts of a call: what a
\* refresh has just brought does not expire while the call that waited for it runs.
Expire ==
    /\ \A c \in Call : Pending(c) => ~call[c].again
    /\ stored' = IF stored = "valid" THEN "expired" ELSE stored
    /\ call' = [c \in Call |-> [call[c] EXCEPT !.valid = FALSE]]
    /\ page' = [t \in Tab |-> [page[t] EXCEPT !.header = FALSE]]
    /\ UNCHANGED <<Server, calls, calm>>

----------------------------------------------------------------------------
(* The answers. *)

\* Mutant: initialize renders after its try, not in its finally.
AfterWithoutFinally(p, k, o) ==
    CASE k = "data" -> p
      [] k = "logout" -> [p EXCEPT !.user = FALSE, !.path = "login", !.leaving = TRUE]
      [] k \in {"init", "login", "me"} /\ o = "rejected" ->
            [p EXCEPT !.user = FALSE, !.path = "login"]
      [] OTHER -> [p EXCEPT !.phase = "up", !.user = TRUE, !.path = "app"]

\* What the end of a call does to its page: initialize, login and logout of
\* AuthService with the reset of the store and the redirections of the router.
After(p, k, o) ==
    CASE k = "data" -> p
      [] k = "logout" -> [p EXCEPT !.user = FALSE, !.path = "login", !.leaving = TRUE]
      [] k \in {"init", "login", "me"} /\ o = "rejected" ->
            [p EXCEPT !.phase = "up", !.user = FALSE, !.path = "login"]
      [] OTHER -> [p EXCEPT !.phase = "up", !.user = TRUE, !.path = "app"]

Forgets(k, o) == k = "logout" \/ (k \in {"init", "login", "me"} /\ o = "rejected")

Settle(c, o) ==
    /\ call' = [call EXCEPT ![c] = IF o = "rejected"
                                   THEN [Idle EXCEPT !.at = o, !.kind = call[c].kind]
                                   ELSE Idle]
    /\ page' = [page EXCEPT ![TabOf[c]] = After(@, call[c].kind, o)]
    /\ stored' = IF Forgets(call[c].kind, o) THEN "none" ELSE stored
    /\ UNCHANGED <<Server, calls>>

Resolve(c) ==
    /\ call[c].at = "ok" /\ call[c].kind # "login"
    /\ Settle(c, "resolved")
    /\ UNCHANGED calm

\* The token of a sign-in is stored, and the user asked for.
LoggedIn(c) ==
    /\ call[c].at = "ok" /\ call[c].kind = "login"
    /\ stored' = "valid"
    /\ call' = [call EXCEPT ![c] = [Idle EXCEPT !.at = "sent", !.kind = "me", !.valid = TRUE]]
    /\ UNCHANGED <<Server, page, calls, calm>>

\* A second 401, or that of a sign-in.
Reject(c) ==
    /\ call[c].at = "401" /\ (call[c].retry \/ call[c].kind = "login")
    /\ Settle(c, "rejected")
    /\ UNCHANGED calm

\* A timeout of the client, or no connection: no refresh for these.
Fail(c) ==
    /\ call[c].at \in {"sent", "ok", "401"}
    /\ Settle(c, "rejected")
    /\ calm' = FALSE

Unauthorized(c) == call[c].at = "401" /\ ~call[c].retry /\ call[c].kind # "login"

\* failedQueue.push.
Wait(c) ==
    /\ Unauthorized(c)
    /\ page[TabOf[c]].isRefreshing
    /\ Answer(c, "queued")
    /\ UNCHANGED <<stored, Server, page, calls, calm>>

\* Mutant: the call is not marked.
RefreshUnmarked(c) ==
    /\ Unauthorized(c)
    /\ ~page[TabOf[c]].isRefreshing
    /\ call' = [call EXCEPT ![c].at = "refreshing"]
    /\ page' = [page EXCEPT ![TabOf[c]].isRefreshing = TRUE, ![TabOf[c]].refresh = "sent"]
    /\ UNCHANGED <<stored, Server, calls, calm>>

\* The first 401 refreshes.
Refresh(c) ==
    /\ Unauthorized(c)
    /\ ~page[TabOf[c]].isRefreshing
    /\ call' = [call EXCEPT ![c].at = "refreshing", ![c].retry = TRUE]
    /\ page' = [page EXCEPT ![TabOf[c]].isRefreshing = TRUE, ![TabOf[c]].refresh = "sent"]
    /\ UNCHANGED <<stored, Server, calls, calm>>

\* Mutant: the calls are sent again before the token is stored.
RefreshedTooLate(t) ==
    /\ page[t].refresh = "granted"
    /\ stored' = "valid"
    /\ call' = [c \in Call |-> IF c \in Waiting(t)
                               THEN [call[c] EXCEPT !.at = "sent", !.valid = (stored = "valid"), !.again = TRUE]
                               ELSE call[c]]
    /\ page' = [page EXCEPT ![t].isRefreshing = FALSE, ![t].refresh = "none",
                             ![t].header = TRUE]
    /\ UNCHANGED <<Server, calls, calm>>

\* Mutant: the flag is reset after a failure only.
RefreshedFlagLeft(t) ==
    /\ page[t].refresh = "granted"
    /\ stored' = "valid"
    /\ call' = [c \in Call |-> IF c \in Waiting(t)
                               THEN [call[c] EXCEPT !.at = "sent", !.valid = TRUE, !.again = TRUE]
                               ELSE call[c]]
    /\ page' = [page EXCEPT ![t].refresh = "none", ![t].header = TRUE]
    /\ UNCHANGED <<Server, calls, calm>>

\* The token is stored and kept in the page, the queue and the call itself are sent
\* again.
Refreshed(t) ==
    /\ page[t].refresh = "granted"
    /\ stored' = "valid"
    /\ call' = [c \in Call |-> IF c \in Waiting(t)
                               THEN [call[c] EXCEPT !.at = "sent", !.valid = TRUE, !.again = TRUE]
                               ELSE call[c]]
    /\ page' = [page EXCEPT ![t].isRefreshing = FALSE, ![t].refresh = "none",
                             ![t].header = TRUE]
    /\ UNCHANGED <<Server, calls, calm>>

\* Everybody is rejected, the token removed, and the page left unless it is the
\* login page.
RefreshRefused(t) ==
    /\ page[t].refresh = "refused"
    /\ stored' = "none"
    /\ call' = [c \in Call |-> IF c \in Waiting(t)
                               THEN [Idle EXCEPT !.at = "rejected", !.kind = call[c].kind]
                               ELSE call[c]]
    /\ LET left == [page[t] EXCEPT !.isRefreshing = FALSE, !.refresh = "none",
                                   !.leaving = @ \/ page[t].path # "login"]
           asked == \E c \in Waiting(t) : call[c].kind \in {"init", "me"}
       IN  page' = [page EXCEPT ![t] = IF asked THEN After(left, "init", "rejected") ELSE left]
    /\ UNCHANGED <<Server, calls, calm>>

Next ==
    \/ \E c \in Call :
          \/ Send(c) \/ Login(c) \/ Logout(c) \/ Load(c)
          \/ Serve(c) \/ ServeLogin(c) \/ ServeLogout(c)
          \/ Resolve(c) \/ LoggedIn(c) \/ Reject(c) \/ Fail(c) \/ Wait(c) \/ Refresh(c)
    \/ \E t \in Tab :
          \/ Leave(t) \/ Close(t) \/ ServeRefresh(t) \/ RefreshFails(t) \/ Refreshed(t) \/ RefreshRefused(t)
    \/ SessionEnds \/ Deactivate \/ Expire

Spec == Init /\ [][Next]_vars

\* A call is answered or times out, a refresh is answered (by the gateway, if by
\* nobody else), an answer is looked at, and a page that was told to leave goes.
FairSpec ==
    /\ Spec
    /\ \A c \in Call :
          WF_vars(\/ Serve(c) \/ ServeLogin(c) \/ ServeLogout(c) \/ Fail(c)
                  \/ Resolve(c) \/ LoggedIn(c) \/ Reject(c) \/ Wait(c) \/ Refresh(c))
    /\ \A t \in Tab :
          /\ WF_vars(ServeRefresh(t) \/ Refreshed(t) \/ RefreshRefused(t))
          /\ WF_vars(Leave(t))

----------------------------------------------------------------------------
(* What holds. *)

\* api-client.ts:40-52, 71, 107: isRefreshing is set exactly while one call of the
\* tab waits for its own refresh, and nobody is queued without it: no path leaves
\* the flag up or a call behind.
QueueHasRefresh ==
    \A t \in Tab :
        /\ page[t].isRefreshing <=> page[t].refresh # "none"
        /\ page[t].isRefreshing <=> Waiting(t) # Queue(t)
        /\ \A c, d \in Waiting(t) \ Queue(t) : c = d
        /\ Queue(t) # {} => page[t].isRefreshing

\* As long as the session lives and the network holds, whatever expires and
\* whatever other tabs do, no call fails but a sign-in with a wrong password, and
\* no page is sent to the login page.
CalmCallsResolve ==
    calm => /\ \A c \in Call : call[c].at = "rejected" => call[c].kind = "login"
            /\ \A t \in Tab : ~page[t].leaving

\* api-client.ts:54-112: every call is handed back to its caller in the end, or its
\* page is gone; a 401 that a refresh does not cure is no endless loop.
EverySettles == \A c \in Call : Pending(c) ~> ~Pending(c)

\* main.tsx:12: nothing is rendered before initialize has ended, which it does
\* however its request and the refresh end.
PagesRender == \A t \in Tab : page[t].phase = "blank" ~> page[t].phase # "blank"
=============================================================================
