---------------------------- MODULE AuthSessions ----------------------------
(***************************************************************************)
(* Sign-in, refresh, log-out and revocation (backend/app/auth,             *)
(* backend/app/users/api/auth.py), beside the deactivation and deletion of *)
(* users and changes of their permissions.                                 *)
(*                                                                         *)
(* An access token carries the permissions its user had when they were     *)
(* read, and no request looks them up again; a refresh token is a row of   *)
(* user_sessions.  A request is a process that queries the database        *)
(* several times.  Its answer reaches nobody when it takes longer than the *)
(* gateway waits.                                                          *)
(***************************************************************************)
EXTENDS Naturals, FiniteSets

CONSTANTS
    User, Permission,
    Nobody,        \* the user of a request that is over
    Req,           \* the requests in progress
    AccessLife,    \* ACCESS_TOKEN_EXPIRE
    RefreshLife,   \* REFRESH_TOKEN_EXPIRE
    Delay,         \* how long the gateway waits for an answer
    MaxTime,       \* the end of the clock, and the number of requests and of changes
    MaxCalls       \* by administrators (bounds for TLC only)

ASSUME UserAssumption == Nobody \notin User

ASSUME TimeAssumption ==
    /\ AccessLife \in Nat /\ RefreshLife \in Nat /\ Delay \in Nat
    /\ MaxTime \in Nat /\ MaxCalls \in Nat

VARIABLES
    now,        \* in seconds, as in a token
    account,    \* is_active of the users, and those deleted
    rights,     \* the permissions of a user through groups and roles
    sessions,   \* the table user_sessions
    held,       \* the refresh tokens in cookies
    tokens,     \* the access tokens in the browsers
    req,
    lost,       \* when a user lost a permission that he lacks,
    off,        \* when a user who is inactive was deactivated,
    ended,      \* and when rows of user_sessions were deleted
    calls

vars == <<now, account, rights, sessions, held, tokens, req, lost, off, ended, calls>>

----------------------------------------------------------------------------

\* A refresh token is its payload, user and expiry in seconds, and a row of
\* user_sessions is a token: two of a user in one second are the same.
Refresh == [user : User, exp : Nat]

\* "until" names the session that the token came with.
Access == [user : User, exp : Nat, rights : SUBSET Permission, until : Nat]

\* A request: what it has read and made since it began.
Request ==
    [at : {"free", "rights", "make", "save", "answer", "delete"},
     op : {"login", "refresh"}, user : User \cup {Nobody}, since : Nat,
     rights : SUBSET Permission, exp : Nat, until : Nat, loaded : SUBSET Refresh]

Free ==
    [at |-> "free", op |-> "login", user |-> Nobody, since |-> 0,
     rights |-> {}, exp |-> 0, until |-> 0, loaded |-> {}]

Session(q) == [user |-> q.user, exp |-> q.until]

SessionsOf(u) == {k \in sessions : k.user = u}

TypeOK ==
    /\ now \in Nat
    /\ account \in [User -> {"active", "inactive", "gone"}]
    /\ rights \in [User -> SUBSET Permission]
    /\ sessions \in SUBSET Refresh
    /\ held \in SUBSET Refresh
    /\ tokens \in SUBSET Access
    /\ req \in [Req -> Request]
    /\ lost \in [User -> [Permission -> Nat]]
    /\ off \in [User -> Nat]
    /\ ended \in SUBSET [session : Refresh, at : Nat]
    /\ calls \in 0..MaxCalls

Init ==
    /\ now = 0
    /\ account \in [User -> {"active", "inactive"}]
    /\ rights \in [User -> SUBSET Permission]
    /\ sessions = {} /\ held = {} /\ tokens = {}
    /\ req = [r \in Req |-> Free]
    /\ lost = [u \in User |-> [p \in Permission |-> 0]]
    /\ off = [u \in User |-> 0]
    /\ ended = {}
    /\ calls = 0

----------------------------------------------------------------------------
(* Tokens. *)

\* decode_token: a token is valid in its last second too.
Valid(t) == now <= t.exp

\* get_current_user: the user of the access token, looked up at every request of an
\* endpoint that depends on it.
Current(t) == Valid(t) /\ account[t.user] = "active"

Users == <<account, rights, lost, off>>

Call == calls < MaxCalls /\ calls' = calls + 1

----------------------------------------------------------------------------
(* POST /auth/login. *)

\* Mutant: the password is enough.
AuthenticateInactive(r, u) ==
    /\ Call
    /\ req[r].at = "free"
    /\ account[u] # "gone"
    /\ req' = [req EXCEPT ![r] = [Free EXCEPT !.at = "rights", !.op = "login",
                                              !.user = u, !.since = now]]
    /\ UNCHANGED <<now, Users, sessions, held, tokens, ended>>

\* authenticate_user: the password was right, or the directory has agreed.
Authenticate(r, u) ==
    /\ Call
    /\ req[r].at = "free"
    /\ account[u] = "active"
    /\ req' = [req EXCEPT ![r] = [Free EXCEPT !.at = "rights", !.op = "login",
                                              !.user = u, !.since = now]]
    /\ UNCHANGED <<now, Users, sessions, held, tokens, ended>>

\* Mutant: a refresh copies the permissions of the token it replaces.
ReadRightsOfToken(r) ==
    /\ req[r].at = "rights"
    /\ \E s \in {t.rights : t \in {t \in tokens : req[r].op = "refresh"
                                                 /\ t.user = req[r].user /\ t.until = req[r].until}}
             \cup {rights[req[r].user]} :
          req' = [req EXCEPT ![r].at = "make", ![r].rights = s]
    /\ UNCHANGED <<now, Users, sessions, held, tokens, ended, calls>>

\* get_user_permissions, of a sign-in and of a refresh.
ReadRights(r) ==
    /\ req[r].at = "rights"
    /\ req' = [req EXCEPT ![r].at = "make", ![r].rights = rights[req[r].user]]
    /\ UNCHANGED <<now, Users, sessions, held, tokens, ended, calls>>

\* create_tokens.
CreateTokens(r) ==
    /\ req[r].at = "make" /\ req[r].op = "login"
    /\ req' = [req EXCEPT ![r].at = "save", ![r].exp = now + AccessLife,
                          ![r].until = now + RefreshLife]
    /\ UNCHANGED <<now, Users, sessions, held, tokens, ended, calls>>

\* The commit of create_tokens: the user is still there and no row has this token.
SaveSession(r) ==
    /\ req[r].at = "save"
    /\ account[req[r].user] # "gone"
    /\ Session(req[r]) \notin sessions
    /\ sessions' = sessions \cup {Session(req[r])}
    /\ ended' = {e \in ended : e.session # Session(req[r])}
    /\ req' = [req EXCEPT ![r].at = "answer"]
    /\ UNCHANGED <<now, Users, held, tokens, calls>>

\* 500: the foreign key or the unique index of user_sessions refuses the row.
SaveFails(r) ==
    /\ req[r].at = "save"
    /\ account[req[r].user] = "gone" \/ Session(req[r]) \in sessions
    /\ req' = [req EXCEPT ![r] = Free]
    /\ UNCHANGED <<now, Users, sessions, held, tokens, ended, calls>>

----------------------------------------------------------------------------
(* GET /auth/refresh. *)

\* Mutant: the token alone is trusted.
FindSessionByToken(r, k) ==
    /\ Call
    /\ req[r].at = "free"
    /\ k \in held /\ Valid(k)
    /\ account[k.user] # "gone"
    /\ req' = [req EXCEPT ![r] = [Free EXCEPT !.at = "rights", !.op = "refresh",
                                              !.user = k.user, !.since = now, !.until = k.exp]]
    /\ UNCHANGED <<now, Users, sessions, held, tokens, ended>>

\* Mutant: neither the token's nor the row's expiry is looked at.
FindSessionOfAnyAge(r, k) ==
    /\ Call
    /\ req[r].at = "free"
    /\ k \in held
    /\ k \in sessions
    /\ account[k.user] # "gone"
    /\ req' = [req EXCEPT ![r] = [Free EXCEPT !.at = "rights", !.op = "refresh",
                                              !.user = k.user, !.since = now, !.until = k.exp]]
    /\ UNCHANGED <<now, Users, sessions, held, tokens, ended>>

\* referesh_access_token: the row of the cookie's token and its user; whether he
\* is active is not asked.
FindSession(r, k) ==
    /\ Call
    /\ req[r].at = "free"
    /\ k \in held /\ Valid(k)
    /\ k \in sessions
    /\ account[k.user] # "gone"
    /\ req' = [req EXCEPT ![r] = [Free EXCEPT !.at = "rights", !.op = "refresh",
                                              !.user = k.user, !.since = now, !.until = k.exp]]
    /\ UNCHANGED <<now, Users, sessions, held, tokens, ended>>

CreateAccess(r) ==
    /\ req[r].at = "make" /\ req[r].op = "refresh"
    /\ req' = [req EXCEPT ![r].at = "answer", ![r].exp = now + AccessLife]
    /\ UNCHANGED <<now, Users, sessions, held, tokens, ended, calls>>

\* The answer of a sign-in, which sets the cookie, or of a refresh.
Answer(r) ==
    LET q == req[r]
    IN  /\ q.at = "answer"
        /\ now <= q.since + Delay
        /\ tokens' = tokens \cup {[user |-> q.user, exp |-> q.exp,
                                   rights |-> q.rights, until |-> q.until]}
        /\ held' = held \cup {Session(q)}
        /\ req' = [req EXCEPT ![r] = Free]
        /\ UNCHANGED <<now, Users, sessions, ended, calls>>

\* The gateway, or the browser, has given up.
AnswerIsLost(r) ==
    /\ req[r].at = "answer"
    /\ req' = [req EXCEPT ![r] = Free]
    /\ UNCHANGED <<now, Users, sessions, held, tokens, ended, calls>>

----------------------------------------------------------------------------
(* The end of a session. *)

Remove(gone) ==
    /\ sessions' = sessions \ gone
    /\ ended' = ended \cup [session : gone, at : {now}]

\* POST /auth/logout; copies of the cookie may be on their way in other requests.
Logout(k) ==
    /\ k \in held
    /\ k \in sessions
    /\ Remove({k})
    /\ UNCHANGED <<now, Users, held, tokens, req, calls>>

\* DELETE /auth/sessions/{id}.
RevokeSession(t, k) ==
    /\ t \in tokens /\ Current(t)
    /\ k \in SessionsOf(t.user)
    /\ Remove({k})
    /\ UNCHANGED <<now, Users, held, tokens, req, calls>>

\* delete_user: his sessions are loaded as a collection,
LoadUser(r, u) ==
    /\ Call
    /\ req[r].at = "free"
    /\ account[u] # "gone"
    /\ req' = [req EXCEPT ![r] = [Free EXCEPT !.at = "delete", !.user = u,
                                              !.loaded = SessionsOf(u)]]
    /\ UNCHANGED <<now, Users, sessions, held, tokens, ended>>

Forget(r) ==
    /\ req[r].at = "delete"
    /\ req' = [req EXCEPT ![r] = Free]
    /\ UNCHANGED <<now, held, tokens, calls>>

\* and deleted with him at the commit,
DeleteUser(r) ==
    LET u == req[r].user
    IN  /\ Forget(r)
        /\ SessionsOf(u) \subseteq req[r].loaded
        /\ account' = [account EXCEPT ![u] = "gone"]
        /\ rights' = [rights EXCEPT ![u] = {}]
        /\ lost' = [lost EXCEPT ![u] = [p \in Permission |->
                       IF p \in rights[u] THEN now ELSE lost[u][p]]]
        /\ Remove(SessionsOf(u))
        /\ UNCHANGED off

\* unless he has signed in since: the foreign key of the new session, 400.
DeleteFails(r) ==
    /\ Forget(r)
    /\ ~(SessionsOf(req[r].user) \subseteq req[r].loaded)
    /\ UNCHANGED <<Users, sessions, ended>>

----------------------------------------------------------------------------
(* Administrators and the clock. *)

\* update_user, or a sync with the directory.
SetActive(u, a) ==
    /\ Call
    /\ account[u] # "gone" /\ account[u] # a
    /\ account' = [account EXCEPT ![u] = a]
    /\ off' = [off EXCEPT ![u] = IF a = "inactive" THEN now ELSE 0]
    /\ UNCHANGED <<now, rights, lost, sessions, held, tokens, req, ended>>

\* A commit of the module Rbac that reaches the user.
ChangeRights(u, s) ==
    /\ Call
    /\ account[u] # "gone" /\ rights[u] # s
    /\ rights' = [rights EXCEPT ![u] = s]
    /\ lost' = [lost EXCEPT ![u] = [p \in Permission |->
                   IF p \in s THEN 0 ELSE IF p \in rights[u] THEN now ELSE lost[u][p]]]
    /\ UNCHANGED <<now, account, off, sessions, held, tokens, req, ended>>

\* Expired access tokens are of no use to anybody; rows and cookies stay.
Tick ==
    /\ now < MaxTime
    /\ now' = now + 1
    /\ tokens' = {t \in tokens : now' <= t.exp}
    /\ UNCHANGED <<Users, sessions, held, req, ended, calls>>

Next ==
    \/ \E r \in Req :
          \/ \E u \in User : Authenticate(r, u) \/ LoadUser(r, u)
          \/ \E k \in held : FindSession(r, k)
          \/ ReadRights(r) \/ CreateTokens(r) \/ SaveSession(r) \/ SaveFails(r)
          \/ CreateAccess(r) \/ Answer(r) \/ AnswerIsLost(r)
          \/ DeleteUser(r) \/ DeleteFails(r)
    \/ \E k \in held : Logout(k)
    \/ \E t \in tokens, k \in sessions : RevokeSession(t, k)
    \/ \E u \in User : \/ \E a \in {"active", "inactive"} : SetActive(u, a)
                       \/ \E s \in SUBSET Permission : ChangeRights(u, s)
    \/ Tick

Spec == Init /\ [][Next]_vars

----------------------------------------------------------------------------
(* What holds. *)

\* dependencies.py:58: a token may still carry a permission that its user has
\* lost, but no longer than the life of an access token after the last answer
\* that was on its way; no refresh prolongs it.
StalePowerIsBounded ==
    \A t \in tokens, p \in Permission :
        p \in t.rights /\ p \notin rights[t.user]
            => t.exp <= lost[t.user][p] + Delay + AccessLife

\* services.py:103, auth.md:76-78: after a log-out, a revocation or the deletion
\* of the user the tokens of a session die out in the life of one access token.
EndedSessionsDieOut ==
    \A t \in tokens :
        \/ Session(t) \in sessions
        \/ \E e \in ended : e.session = Session(t) /\ t.exp <= e.at + Delay + AccessLife

\* services.py:115: the refresh does not look at is_active, so the tokens of a
\* deactivated user die out with his sessions, no later: nothing he does starts
\* a new one.
DeactivatedDieOut ==
    \A t \in tokens :
        account[t.user] = "inactive"
            => t.exp <= off[t.user] + RefreshLife + AccessLife + 2 * Delay
=============================================================================
