------------------------- MODULE AuthSessionsProofs -------------------------
(***************************************************************************)
(* How long what is no longer true lives on in tokens: for any number of   *)
(* users, permissions and requests, and any lives of the tokens.           *)
(***************************************************************************)
EXTENDS AuthSessionsInv, TLAPS

\* A request that is over, or has not begun, promises nothing.
LEMMA FreeOK == Free \in Request /\ RequestOK(Free)
BY DEF Free, Request, RequestOK

\* What is known of a request.
LEMMA RequestType ==
    ASSUME Inv, NEW r \in Req
    PROVE  req[r] \in Request /\ RequestOK(req[r])
BY DEF Inv, TypeOK

\* The empty table satisfies the invariant.
LEMMA InitInv == Init => Inv
<1> SUFFICES ASSUME Init PROVE Inv
  OBVIOUS
<1>1. req \in [Req -> Request] /\ \A r \in Req : RequestOK(req[r])
  BY FreeOK DEF Init
<1>2. TypeOK
  BY <1>1, TimeAssumption DEF Init, TypeOK
<1>3. QED
  BY <1>1, <1>2 DEF Init, Inv, HeldOK, TokensOK, StalePowerIsBounded, EndedSessionsDieOut,
                    DeactivatedDieOut

\* A step of one request that leaves everything else alone.
LEMMA OneRequest ==
    ASSUME Inv, UNCHANGED <<now, Users, sessions, held, tokens, ended>>,
           calls' \in 0..MaxCalls,
           NEW r \in Req, NEW q \in Request, RequestOK(q),
           req' = [req EXCEPT ![r] = q]
    PROVE  Inv'
<1>1. req' \in [Req -> Request] /\ \A x \in Req : req'[x] = IF x = r THEN q ELSE req[x]
  BY DEF Inv, TypeOK
<1>2. TypeOK'
  BY <1>1 DEF Inv, TypeOK, Users
<1>3. ASSUME NEW x \in Req PROVE RequestOK(req[x])'
  <2>1. RequestOK(req'[x])
    BY <1>1 DEF Inv
  <2>2. QED
    BY <2>1 DEF RequestOK, RightsOK, ActivityOK, Began, Users
<1>4. QED
  BY <1>2, <1>3 DEF Inv, HeldOK, TokensOK, StalePowerIsBounded, EndedSessionsDieOut,
                    DeactivatedDieOut, Users

LEMMA CallType == TypeOK /\ Call => calls' \in 0..MaxCalls
BY TimeAssumption DEF TypeOK, Call

-----------------------------------------------------------------------------
(* Sign-in and refresh. *)

LEMMA AuthenticateStep ==
    ASSUME Inv, NEW r \in Req, NEW u \in User, Authenticate(r, u) PROVE Inv'
<1> DEFINE q == [Free EXCEPT !.at = "rights", !.op = "login", !.user = u, !.since = now]
<1>1. /\ q \in Request /\ q.at = "rights" /\ q.op = "login" /\ q.user = u /\ q.since = now
      /\ q.until = 0
  BY DEF Free, Request, Inv, TypeOK
<1> HIDE DEF q
<1>2. RequestOK(q)
  BY <1>1, TimeAssumption DEF RequestOK, RightsOK, ActivityOK, Authenticate, Inv, TypeOK
<1>3. req' = [req EXCEPT ![r] = q]
  BY DEF Authenticate, q
<1>4. QED
  BY <1>1, <1>2, <1>3, CallType, OneRequest DEF Authenticate, Inv

LEMMA ReadRightsStep == ASSUME Inv, NEW r \in Req, ReadRights(r) PROVE Inv'
<1> DEFINE q == [req[r] EXCEPT !.at = "make", !.rights = rights[req[r].user]]
<1>1. req[r] \in Request /\ RequestOK(req[r]) /\ req[r].at = "rights" /\ req[r].user \in User
  BY RequestType DEF ReadRights, RequestOK
<1>2. rights[req[r].user] \in SUBSET Permission
  BY <1>1 DEF Inv, TypeOK
<1>3. /\ q \in Request /\ q.at = "make" /\ q.op = req[r].op /\ q.user = req[r].user
      /\ q.since = req[r].since /\ q.until = req[r].until /\ q.rights = rights[q.user]
  BY <1>1, <1>2 DEF Request
<1> HIDE DEF q
<1>4. RequestOK(q)
  BY <1>1, <1>3 DEF RequestOK, RightsOK, ActivityOK, Session
<1>5. req' = [req EXCEPT ![r] = q]
  BY <1>1 DEF ReadRights, Request, Inv, TypeOK, q
<1>6. QED
  BY <1>3, <1>4, <1>5, OneRequest DEF ReadRights, Inv, TypeOK

LEMMA CreateTokensStep == ASSUME Inv, NEW r \in Req, CreateTokens(r) PROVE Inv'
<1> DEFINE q == [req[r] EXCEPT !.at = "save", !.exp = now + AccessLife,
                               !.until = now + RefreshLife]
<1>1. /\ req[r] \in Request /\ RequestOK(req[r]) /\ req[r].at = "make" /\ req[r].op = "login"
      /\ now \in Nat
  BY RequestType DEF CreateTokens, Inv, TypeOK
<1>2. now + AccessLife \in Nat /\ now + RefreshLife \in Nat
  BY <1>1, TimeAssumption
<1>3. /\ q \in Request /\ q.at = "save" /\ q.op = "login" /\ q.user = req[r].user
      /\ q.since = req[r].since /\ q.exp = now + AccessLife /\ q.until = now + RefreshLife
      /\ q.rights = req[r].rights
  BY <1>1, <1>2 DEF Request
<1> HIDE DEF q
<1>4. RequestOK(q)
  BY <1>1, <1>2, <1>3 DEF RequestOK, RightsOK, ActivityOK
<1>5. req' = [req EXCEPT ![r] = q]
  BY <1>1 DEF CreateTokens, Request, Inv, TypeOK, q
<1>6. QED
  BY <1>3, <1>4, <1>5, OneRequest DEF CreateTokens, Inv, TypeOK

LEMMA FindSessionStep ==
    ASSUME Inv, NEW r \in Req, NEW k \in held, FindSession(r, k) PROVE Inv'
<1> DEFINE q == [Free EXCEPT !.at = "rights", !.op = "refresh", !.user = k.user,
                             !.since = now, !.until = k.exp]
<1>1. k \in Refresh /\ k.user \in User /\ k.exp \in Nat /\ now \in Nat
  BY DEF Inv, TypeOK, Refresh
<1>2. /\ q \in Request /\ q.at = "rights" /\ q.op = "refresh" /\ q.user = k.user
      /\ q.since = now /\ q.until = k.exp /\ Session(q) = k
  BY <1>1 DEF Free, Request, Session, Refresh
<1> HIDE DEF q
<1>3. RequestOK(q)
  BY <1>1, <1>2 DEF RequestOK, RightsOK, ActivityOK, FindSession, Valid, Inv, HeldOK, Began
<1>4. req' = [req EXCEPT ![r] = q]
  BY DEF FindSession, q
<1>5. QED
  BY <1>2, <1>3, <1>4, CallType, OneRequest DEF FindSession, Inv

LEMMA CreateAccessStep == ASSUME Inv, NEW r \in Req, CreateAccess(r) PROVE Inv'
<1> DEFINE q == [req[r] EXCEPT !.at = "answer", !.exp = now + AccessLife]
<1>1. /\ req[r] \in Request /\ RequestOK(req[r]) /\ req[r].at = "make" /\ req[r].op = "refresh"
      /\ now \in Nat
  BY RequestType DEF CreateAccess, Inv, TypeOK
<1>2. now + AccessLife \in Nat
  BY <1>1, TimeAssumption
<1>3. /\ q \in Request /\ q.at = "answer" /\ q.op = "refresh" /\ q.user = req[r].user
      /\ q.since = req[r].since /\ q.exp = now + AccessLife /\ q.until = req[r].until
      /\ q.rights = req[r].rights /\ Session(q) = Session(req[r])
  BY <1>1, <1>2 DEF Request, Session
<1> HIDE DEF q
<1>4. RequestOK(q)
  BY <1>1, <1>2, <1>3 DEF RequestOK, RightsOK, ActivityOK
<1>5. req' = [req EXCEPT ![r] = q]
  BY <1>1 DEF CreateAccess, Request, Inv, TypeOK, q
<1>6. QED
  BY <1>3, <1>4, <1>5, OneRequest DEF CreateAccess, Inv, TypeOK

\* A request that ends with nothing, and the beginning of a deletion.
LEMMA FreeStep ==
    ASSUME Inv, NEW r \in Req, UNCHANGED <<now, Users, sessions, held, tokens, ended, calls>>,
           req' = [req EXCEPT ![r] = Free]
    PROVE  Inv'
BY FreeOK, OneRequest DEF Inv, TypeOK

LEMMA LoadUserStep ==
    ASSUME Inv, NEW r \in Req, NEW u \in User, LoadUser(r, u) PROVE Inv'
<1> DEFINE q == [Free EXCEPT !.at = "delete", !.user = u, !.loaded = SessionsOf(u)]
<1>1. q \in Request /\ q.at = "delete" /\ q.user = u /\ q.since = 0
  <2>1. SessionsOf(u) \in SUBSET Refresh
    BY DEF Inv, TypeOK, SessionsOf
  <2>2. QED
    BY <2>1 DEF Free, Request
<1> HIDE DEF q
<1>2. RequestOK(q)
  BY <1>1 DEF RequestOK, Inv, TypeOK
<1>3. req' = [req EXCEPT ![r] = q]
  BY DEF LoadUser, q
<1>4. QED
  BY <1>1, <1>2, <1>3, CallType, OneRequest DEF LoadUser, Inv

LEMMA SaveSessionStep == ASSUME Inv, NEW r \in Req, SaveSession(r) PROVE Inv'
<1> DEFINE q == [req[r] EXCEPT !.at = "answer"]
           k == Session(req[r])
<1>1. /\ req[r] \in Request /\ RequestOK(req[r]) /\ req[r].at = "save" /\ req[r].user \in User
      /\ now \in Nat
  BY RequestType DEF SaveSession, RequestOK, Inv, TypeOK
<1>2. /\ q \in Request /\ q.at = "answer" /\ q.op = req[r].op /\ q.user = req[r].user
      /\ q.since = req[r].since /\ q.exp = req[r].exp /\ q.until = req[r].until
      /\ q.rights = req[r].rights /\ Session(q) = k /\ k \in Refresh
  BY <1>1 DEF Request, Session, Refresh
<1>3. req' = [req EXCEPT ![r] = q]
  BY <1>1 DEF SaveSession, Request, Inv, TypeOK, q
<1>4. /\ sessions' = sessions \cup {k}
      /\ ended' = {e \in ended : e.session # k}
      /\ UNCHANGED <<now, account, rights, lost, off, held, tokens, calls>>
  BY DEF SaveSession, Users
<1> HIDE DEF q, k
<1>5. \A x \in Req : req'[x] = IF x = r THEN q ELSE req[x]
  BY <1>3 DEF Inv, TypeOK
<1>6. TypeOK'
  BY <1>2, <1>3, <1>4 DEF Inv, TypeOK
<1>7. ASSUME NEW j, NEW n, Began(j, n) PROVE Began(j, n)'
  BY <1>4, <1>7 DEF Began
<1>8. ASSUME NEW x \in Req PROVE RequestOK(req[x])'
  <2>1. req'[r] = q
    BY <1>5
  <2>2. RightsOK(req[r])' /\ ActivityOK(req[r])' /\ Began(Session(req[r]), req[r].since)'
    BY <1>1, <1>2, <1>4, <2>1 DEF RequestOK, RightsOK, ActivityOK, Began, Session
  <2>3. CASE x = r
    BY <1>1, <1>2, <1>4, <2>1, <2>2, <2>3 DEF RequestOK
  <2>4. CASE x # r
    <3>1. RequestOK(req[x]) /\ req'[x] = req[x]
      BY <1>5, <2>4, RequestType
    <3>2. RightsOK(req[x]) => RightsOK(req[x])'
      BY <1>4, <3>1 DEF RightsOK
    <3>3. ActivityOK(req[x]) => ActivityOK(req[x])'
      BY <1>4, <3>1 DEF ActivityOK
    <3>4. Began(Session(req[x]), req[x].since) => Began(Session(req[x]), req[x].since)'
      BY <1>4, <3>1 DEF Began
    <3>5. QED
      BY <1>4, <3>1, <3>2, <3>3, <3>4 DEF RequestOK
  <2>5. QED
    BY <2>3, <2>4
<1>9. EndedSessionsDieOut'
  BY <1>4 DEF Inv, EndedSessionsDieOut
<1>10. QED
  BY <1>4, <1>6, <1>8, <1>9
     DEF Inv, HeldOK, TokensOK, StalePowerIsBounded, DeactivatedDieOut

LEMMA AnswerStep == ASSUME Inv, NEW r \in Req, Answer(r) PROVE Inv'
<1> DEFINE q == req[r]
           t == [user |-> q.user, exp |-> q.exp, rights |-> q.rights, until |-> q.until]
<1>1. /\ q \in Request /\ RequestOK(q) /\ q.at = "answer" /\ q.user \in User
      /\ now \in Nat /\ now <= q.since + Delay
      /\ q.exp \in Nat /\ q.until \in Nat /\ q.since \in Nat /\ q.rights \in SUBSET Permission
  <2>1. q \in Request /\ RequestOK(q) /\ q.at = "answer" /\ now <= q.since + Delay
    BY RequestType DEF Answer
  <2>2. QED
    BY <2>1 DEF RequestOK, Request, Inv, TypeOK
<1>2. /\ t \in Access /\ t.user = q.user /\ t.exp = q.exp /\ t.rights = q.rights
      /\ Session(t) = Session(q) /\ Session(q) \in Refresh
      /\ Session(q).user = q.user /\ Session(q).exp = q.until
  BY <1>1 DEF Access, Session, Refresh
<1>3. /\ tokens' = tokens \cup {t}
      /\ held' = held \cup {Session(q)}
      /\ req' = [req EXCEPT ![r] = Free]
      /\ UNCHANGED <<now, account, rights, lost, off, sessions, ended, calls>>
  BY DEF Answer, Users
<1>4. /\ q.exp <= now + AccessLife /\ q.until <= now + RefreshLife
      /\ RightsOK(q) /\ ActivityOK(q) /\ Began(Session(q), q.since)
  BY <1>1 DEF RequestOK
<1> HIDE DEF q, t
<1>5. TypeOK'
  BY <1>2, <1>3, FreeOK DEF Inv, TypeOK
<1>6. ASSUME NEW x \in Req PROVE RequestOK(req[x])'
  <2>1. req'[x] = req[x] \/ req'[x] = Free
    BY <1>3 DEF Inv, TypeOK
  <2>2. RequestOK(req'[x])
    BY <2>1, FreeOK, RequestType
  <2>3. QED
    BY <1>3, <2>2 DEF RequestOK, RightsOK, ActivityOK, Began
<1>7. account[q.user] = "inactive" =>
          /\ off[q.user] \in Nat
          /\ q.until <= off[q.user] + Delay + RefreshLife
          /\ q.exp <= off[q.user] + RefreshLife + AccessLife + 2 * Delay
  <2>1. off[q.user] \in Nat
    BY <1>1 DEF Inv, TypeOK
  <2>2. QED
    BY <1>1, <1>4, <2>1, TimeAssumption DEF ActivityOK, Request
<1>8. HeldOK'
  BY <1>2, <1>3, <1>4, <1>7 DEF Inv, HeldOK
<1>9. TokensOK'
  BY <1>2, <1>3, <1>4 DEF Inv, TokensOK
<1>10. StalePowerIsBounded'
  <2>1. ASSUME NEW p \in Permission, p \in q.rights, p \notin rights[q.user]
        PROVE  q.exp <= lost[q.user][p] + Delay + AccessLife
    <3>1. lost[q.user][p] \in Nat /\ q.since <= lost[q.user][p]
      BY <1>1, <1>4, <2>1 DEF RightsOK, Inv, TypeOK
    <3>2. QED
      BY <1>1, <1>4, <3>1, TimeAssumption
  <2>2. QED
    BY <1>2, <1>3, <2>1 DEF Inv, StalePowerIsBounded
<1>11. EndedSessionsDieOut'
  <2>1. ASSUME NEW e \in ended, q.since <= e.at
        PROVE  q.exp <= e.at + Delay + AccessLife
    <3>1. e.at \in Nat
      BY DEF Inv, TypeOK
    <3>2. QED
      BY <1>1, <1>4, <2>1, <3>1, TimeAssumption
  <2>2. QED
    BY <1>2, <1>3, <1>4, <2>1 DEF Inv, EndedSessionsDieOut, Began
<1>12. DeactivatedDieOut'
  BY <1>2, <1>3, <1>7 DEF Inv, DeactivatedDieOut
<1>13. QED
  BY <1>5, <1>6, <1>8, <1>9, <1>10, <1>11, <1>12 DEF Inv

-----------------------------------------------------------------------------
(* The end of sessions. *)

\* Rows that are deleted are deleted now: what needed them began before.
LEMMA Removed ==
    ASSUME Inv, NEW gone \in SUBSET sessions, Remove(gone)
    PROVE  /\ sessions' \in SUBSET Refresh
           /\ ended' \in SUBSET [session : Refresh, at : Nat]
           /\ \A k, n : n <= now /\ Began(k, n) => Began(k, n)'
           /\ \A t \in tokens :
                 \/ Session(t) \in sessions'
                 \/ \E e \in ended' : e.session = Session(t)
                                      /\ t.exp <= e.at + Delay + AccessLife
<1>1. /\ now \in Nat /\ sessions \in SUBSET Refresh
      /\ ended \in SUBSET [session : Refresh, at : Nat]
  BY DEF Inv, TypeOK
<1>2. sessions' = sessions \ gone /\ ended' = ended \cup [session : gone, at : {now}]
  BY DEF Remove
<1>3. sessions' \in SUBSET Refresh /\ ended' \in SUBSET [session : Refresh, at : Nat]
  BY <1>1, <1>2
<1>4. \A k \in gone : \E e \in ended' : e.session = k /\ e.at = now
  <2>1. TAKE k \in gone
  <2>2. [session |-> k, at |-> now] \in ended'
    BY <1>2
  <2>3. QED
    BY <2>2
<1>5. ASSUME NEW k, NEW n, n <= now, Began(k, n) PROVE Began(k, n)'
  BY <1>2, <1>4, <1>5 DEF Began
<1>6. ASSUME NEW t \in tokens
      PROVE  \/ Session(t) \in sessions'
             \/ \E e \in ended' : e.session = Session(t) /\ t.exp <= e.at + Delay + AccessLife
  <2>1. t.exp \in Nat /\ t.exp <= now + AccessLife
    BY DEF Inv, TypeOK, TokensOK, Access
  <2>2. t.exp <= now + Delay + AccessLife
    BY <1>1, <2>1, TimeAssumption
  <2>3. QED
    BY <1>2, <1>4, <2>2 DEF Inv, EndedSessionsDieOut
<1>7. QED
  BY <1>3, <1>5, <1>6

\* Log-out and revocation.
LEMMA RemoveStep ==
    ASSUME Inv, NEW gone \in SUBSET sessions, Remove(gone),
           UNCHANGED <<now, Users, held, tokens, req, calls>>
    PROVE  Inv'
<1>1. TypeOK'
  BY Removed DEF Inv, TypeOK, Users
<1>2. ASSUME NEW x \in Req PROVE RequestOK(req[x])'
  <2>1. RequestOK(req[x]) /\ req'[x] = req[x]
    BY RequestType
  <2>2. RightsOK(req[x])' <=> RightsOK(req[x])
    BY DEF RightsOK, Users
  <2>3. ActivityOK(req[x])' <=> ActivityOK(req[x])
    BY DEF ActivityOK, Users
  <2>4. req[x].at # "free" /\ Began(Session(req[x]), req[x].since)
            => Began(Session(req[x]), req[x].since)'
    BY <2>1, Removed DEF RequestOK
  <2>5. QED
    BY <2>1, <2>2, <2>3, <2>4 DEF RequestOK, Users
<1>3. EndedSessionsDieOut'
  BY Removed DEF EndedSessionsDieOut
<1>4. QED
  BY <1>1, <1>2, <1>3 DEF Inv, HeldOK, TokensOK, StalePowerIsBounded, DeactivatedDieOut, Users

LEMMA DeleteUserStep == ASSUME Inv, NEW r \in Req, DeleteUser(r) PROVE Inv'
<1> DEFINE u == req[r].user
           was == [p \in Permission |-> IF p \in rights[u] THEN now ELSE lost[u][p]]
<1>1. u \in User /\ now \in Nat
  BY RequestType DEF DeleteUser, Forget, RequestOK, Inv, TypeOK
<1>2. /\ req' = [req EXCEPT ![r] = Free]
      /\ account' = [account EXCEPT ![u] = "gone"]
      /\ rights' = [rights EXCEPT ![u] = {}]
      /\ lost' = [lost EXCEPT ![u] = was]
      /\ Remove(SessionsOf(u))
      /\ UNCHANGED <<now, off, held, tokens, calls>>
  BY DEF DeleteUser, Forget
<1> HIDE DEF u
<1>3. /\ was \in [Permission -> Nat]
      /\ \A p \in Permission : was[p] = IF p \in rights[u] THEN now ELSE lost[u][p]
  BY <1>1 DEF Inv, TypeOK
<1> HIDE DEF was
<1>4. /\ \A v \in User : /\ account'[v] = IF v = u THEN "gone" ELSE account[v]
                         /\ rights'[v] = IF v = u THEN {} ELSE rights[v]
                         /\ lost'[v] = IF v = u THEN was ELSE lost[v]
  BY <1>2 DEF Inv, TypeOK
<1>5. SessionsOf(u) \in SUBSET sessions
  BY DEF SessionsOf
<1>6. TypeOK'
  BY <1>2, <1>3, <1>5, Removed, FreeOK DEF Inv, TypeOK
<1>7. ASSUME NEW v \in User, NEW p \in Permission
      PROVE  p \notin rights'[v] =>
                \/ p \in rights[v] /\ lost'[v][p] = now
                \/ p \notin rights[v] /\ lost'[v][p] = lost[v][p]
  BY <1>3, <1>4
<1>8. ASSUME NEW x \in Req PROVE RequestOK(req[x])'
  <2>1. req'[x] = req[x] \/ req'[x] = Free
    BY <1>2 DEF Inv, TypeOK
  <2>2. CASE req'[x] = Free
    BY <2>2 DEF RequestOK, Free
  <2>3. CASE req'[x] = req[x] /\ req[x].at # "free"
    <3>1. req[x] \in Request /\ RequestOK(req[x]) /\ req[x].user \in User /\ req[x].since <= now
      BY <2>3, RequestType DEF RequestOK
    <3>2. RightsOK(req[x]) => RightsOK(req[x])'
      BY <1>1, <1>7, <3>1, <2>3 DEF RightsOK, Request
    <3>3. ActivityOK(req[x]) => ActivityOK(req[x])'
      BY <1>2, <1>4, <2>3, <3>1 DEF ActivityOK
    <3>4. Began(Session(req[x]), req[x].since) => Began(Session(req[x]), req[x].since)'
      BY <1>2, <1>5, <2>3, <3>1, Removed
    <3>5. QED
      BY <1>2, <2>3, <3>1, <3>2, <3>3, <3>4 DEF RequestOK
  <2>4. CASE req'[x] = req[x] /\ req[x].at = "free"
    BY <2>4 DEF RequestOK
  <2>5. QED
    BY <2>1, <2>2, <2>3, <2>4
<1>9. HeldOK'
  BY <1>2, <1>4 DEF Inv, HeldOK, TypeOK, Refresh
<1>10. TokensOK'
  BY <1>2 DEF Inv, TokensOK
<1>11. StalePowerIsBounded'
  <2>1. ASSUME NEW t \in tokens, NEW p \in Permission, p \in t.rights, p \notin rights'[t.user]
        PROVE  t.exp <= lost'[t.user][p] + Delay + AccessLife
    <3>1. t.user \in User /\ t.exp \in Nat /\ t.exp <= now + AccessLife
      BY DEF Inv, TypeOK, TokensOK, Access
    <3>2. QED
      BY <1>1, <1>7, <2>1, <3>1, TimeAssumption DEF Inv, StalePowerIsBounded
  <2>2. QED
    BY <1>2, <2>1 DEF StalePowerIsBounded
<1>12. EndedSessionsDieOut'
  BY <1>2, <1>5, Removed DEF EndedSessionsDieOut
<1>13. DeactivatedDieOut'
  BY <1>2, <1>4 DEF Inv, DeactivatedDieOut, TypeOK, Access
<1>14. QED
  BY <1>6, <1>8, <1>9, <1>10, <1>11, <1>12, <1>13 DEF Inv

-----------------------------------------------------------------------------
(* Administrators and the clock. *)

LEMMA SetActiveStep ==
    ASSUME Inv, NEW u \in User, NEW a \in {"active", "inactive"}, SetActive(u, a) PROVE Inv'
<1> DEFINE n == IF a = "inactive" THEN now ELSE 0
<1>1. /\ account' = [account EXCEPT ![u] = a]
      /\ off' = [off EXCEPT ![u] = n]
      /\ UNCHANGED <<now, rights, lost, sessions, held, tokens, req, ended>>
  BY DEF SetActive
<1>2. now \in Nat /\ n \in Nat
  BY DEF Inv, TypeOK
<1>3. TypeOK'
  BY <1>1, <1>2, CallType DEF SetActive, Inv, TypeOK
<1>4. \A v \in User : account'[v] = "inactive" =>
          \/ account[v] = "inactive" /\ off'[v] = off[v]
          \/ off'[v] = now
  BY <1>1 DEF Inv, TypeOK
<1> HIDE DEF n
<1>5. ASSUME NEW x \in Req PROVE RequestOK(req[x])'
  <2>1. RequestOK(req[x]) /\ req[x] \in Request /\ req'[x] = req[x]
    BY <1>1, RequestType
  <2>2. CASE req[x].at = "free"
    BY <2>1, <2>2 DEF RequestOK
  <2>3. CASE req[x].at # "free"
    <3>1. req[x].user \in User /\ req[x].since <= now /\ req[x].until \in Nat
          /\ req[x].op \in {"login", "refresh"}
      BY <2>1, <2>3 DEF RequestOK, Request
    <3>2. RightsOK(req[x])' <=> RightsOK(req[x])
      BY <1>1 DEF RightsOK
    <3>3. req[x].until <= now + RefreshLife /\ ActivityOK(req[x]) => ActivityOK(req[x])'
      BY <1>1, <1>2, <1>4, <3>1, TimeAssumption DEF ActivityOK
    <3>4. Began(Session(req[x]), req[x].since)' <=> Began(Session(req[x]), req[x].since)
      BY <1>1 DEF Began
    <3>5. QED
      BY <1>1, <2>1, <2>3, <3>1, <3>2, <3>3, <3>4 DEF RequestOK
  <2>4. QED
    BY <2>2, <2>3
<1>6. HeldOK'
  <2>1. ASSUME NEW k \in held
        PROVE  /\ k.exp <= now + RefreshLife
               /\ account'[k.user] = "inactive" => k.exp <= off'[k.user] + Delay + RefreshLife
    <3>1. k.user \in User /\ k.exp \in Nat /\ k.exp <= now + RefreshLife
      BY DEF Inv, TypeOK, HeldOK, Refresh
    <3>2. QED
      BY <1>2, <1>4, <3>1, TimeAssumption DEF Inv, HeldOK
  <2>2. QED
    BY <1>1, <2>1 DEF HeldOK
<1>7. DeactivatedDieOut'
  <2>1. ASSUME NEW t \in tokens, account'[t.user] = "inactive"
        PROVE  t.exp <= off'[t.user] + RefreshLife + AccessLife + 2 * Delay
    <3>1. t.user \in User /\ t.exp \in Nat /\ t.exp <= now + AccessLife
      BY DEF Inv, TypeOK, TokensOK, Access
    <3>2. QED
      BY <1>2, <1>4, <2>1, <3>1, TimeAssumption DEF Inv, DeactivatedDieOut
  <2>2. QED
    BY <1>1, <2>1 DEF DeactivatedDieOut
<1>8. QED
  BY <1>1, <1>3, <1>5, <1>6, <1>7 DEF Inv, TokensOK, StalePowerIsBounded, EndedSessionsDieOut

LEMMA ChangeRightsStep ==
    ASSUME Inv, NEW u \in User, NEW s \in SUBSET Permission, ChangeRights(u, s) PROVE Inv'
<1> DEFINE was == [p \in Permission |->
                      IF p \in s THEN 0 ELSE IF p \in rights[u] THEN now ELSE lost[u][p]]
<1>1. /\ rights' = [rights EXCEPT ![u] = s]
      /\ lost' = [lost EXCEPT ![u] = was]
      /\ UNCHANGED <<now, account, off, sessions, held, tokens, req, ended>>
  BY DEF ChangeRights
<1>2. /\ now \in Nat /\ was \in [Permission -> Nat]
      /\ \A p \in Permission :
            was[p] = IF p \in s THEN 0 ELSE IF p \in rights[u] THEN now ELSE lost[u][p]
  BY DEF Inv, TypeOK
<1> HIDE DEF was
<1>3. TypeOK'
  BY <1>1, <1>2, CallType DEF ChangeRights, Inv, TypeOK
<1>4. ASSUME NEW v \in User, NEW p \in Permission
      PROVE  p \notin rights'[v] =>
                \/ p \in rights[v] /\ lost'[v][p] = now
                \/ p \notin rights[v] /\ lost'[v][p] = lost[v][p]
  <2>1. /\ rights'[v] = IF v = u THEN s ELSE rights[v]
        /\ lost'[v] = IF v = u THEN was ELSE lost[v]
    BY <1>1 DEF Inv, TypeOK
  <2>2. QED
    BY <1>2, <2>1
<1>5. ASSUME NEW x \in Req PROVE RequestOK(req[x])'
  <2>1. RequestOK(req[x]) /\ req[x] \in Request /\ req'[x] = req[x]
    BY <1>1, RequestType
  <2>2. CASE req[x].at = "free"
    BY <2>1, <2>2 DEF RequestOK
  <2>3. CASE req[x].at # "free"
    <3>1. req[x].user \in User /\ req[x].since <= now
      BY <2>1, <2>3 DEF RequestOK
    <3>2. RightsOK(req[x]) => RightsOK(req[x])'
      BY <1>2, <1>4, <2>1, <3>1 DEF RightsOK, Request
    <3>3. ActivityOK(req[x])' <=> ActivityOK(req[x])
      BY <1>1 DEF ActivityOK
    <3>4. Began(Session(req[x]), req[x].since)' <=> Began(Session(req[x]), req[x].since)
      BY <1>1 DEF Began
    <3>5. QED
      BY <1>1, <2>1, <2>3, <3>1, <3>2, <3>3, <3>4 DEF RequestOK
  <2>4. QED
    BY <2>2, <2>3
<1>6. StalePowerIsBounded'
  <2>1. ASSUME NEW t \in tokens, NEW p \in Permission, p \in t.rights, p \notin rights'[t.user]
        PROVE  t.exp <= lost'[t.user][p] + Delay + AccessLife
    <3>1. t.user \in User /\ t.exp \in Nat /\ t.exp <= now + AccessLife
      BY DEF Inv, TypeOK, TokensOK, Access
    <3>2. QED
      BY <1>2, <1>4, <2>1, <3>1, TimeAssumption DEF Inv, StalePowerIsBounded
  <2>2. QED
    BY <1>1, <2>1 DEF StalePowerIsBounded
<1>7. QED
  BY <1>1, <1>3, <1>5, <1>6 DEF Inv, HeldOK, TokensOK, EndedSessionsDieOut, DeactivatedDieOut

LEMMA TickStep == ASSUME Inv, Tick PROVE Inv'
<1>1. /\ now \in Nat /\ now' = now + 1 /\ tokens' \subseteq tokens
      /\ UNCHANGED <<account, rights, lost, off, sessions, held, req, ended, calls>>
  BY DEF Tick, Users, Inv, TypeOK
<1>2. TypeOK'
  BY <1>1 DEF Inv, TypeOK
<1>3. ASSUME NEW x \in Req PROVE RequestOK(req[x])'
  <2>1. RequestOK(req[x]) /\ req[x] \in Request /\ req'[x] = req[x]
    BY <1>1, RequestType
  <2>2. req[x].since \in Nat /\ req[x].exp \in Nat /\ req[x].until \in Nat
    BY <2>1 DEF Request
  <2>3. (RightsOK(req[x])' <=> RightsOK(req[x])) /\ (ActivityOK(req[x])' <=> ActivityOK(req[x]))
    BY <1>1 DEF RightsOK, ActivityOK
  <2>4. Began(Session(req[x]), req[x].since)' <=> Began(Session(req[x]), req[x].since)
    BY <1>1 DEF Began
  <2>5. QED
    BY <1>1, <2>1, <2>2, <2>3, <2>4, TimeAssumption DEF RequestOK
<1>4. HeldOK'
  <2>1. \A k \in held : k.exp \in Nat
    BY DEF Inv, TypeOK, Refresh
  <2>2. QED
    BY <1>1, <2>1, TimeAssumption DEF Inv, HeldOK
<1>5. TokensOK'
  <2>1. \A t \in tokens : t.exp \in Nat
    BY DEF Inv, TypeOK, Access
  <2>2. QED
    BY <1>1, <2>1, TimeAssumption DEF Inv, TokensOK
<1>6. StalePowerIsBounded' /\ EndedSessionsDieOut' /\ DeactivatedDieOut'
  BY <1>1 DEF Inv, StalePowerIsBounded, EndedSessionsDieOut, DeactivatedDieOut
<1>7. QED
  BY <1>2, <1>3, <1>4, <1>5, <1>6 DEF Inv

-----------------------------------------------------------------------------

\* Every step keeps the invariant.
LEMMA NextInv == Inv /\ [Next]_vars => Inv'
<1> SUFFICES ASSUME Inv, [Next]_vars PROVE Inv'
  OBVIOUS
<1>1. CASE UNCHANGED vars
  BY <1>1 DEF vars, Inv, TypeOK, RequestOK, RightsOK, ActivityOK, Began, HeldOK, TokensOK,
              StalePowerIsBounded, EndedSessionsDieOut, DeactivatedDieOut
<1>2. ASSUME NEW r \in Req, NEW u \in User, Authenticate(r, u) \/ LoadUser(r, u) PROVE Inv'
  BY <1>2, AuthenticateStep, LoadUserStep
<1>3. ASSUME NEW r \in Req, NEW k \in held, FindSession(r, k) PROVE Inv'
  BY <1>3, FindSessionStep
<1>4. ASSUME NEW r \in Req, ReadRights(r) \/ CreateTokens(r) \/ SaveSession(r)
                            \/ CreateAccess(r) \/ Answer(r) \/ DeleteUser(r)
      PROVE  Inv'
  BY <1>4, ReadRightsStep, CreateTokensStep, SaveSessionStep, CreateAccessStep, AnswerStep,
     DeleteUserStep
<1>5. ASSUME NEW r \in Req, SaveFails(r) \/ AnswerIsLost(r) \/ DeleteFails(r) PROVE Inv'
  BY <1>5, FreeStep DEF SaveFails, AnswerIsLost, DeleteFails, Forget
<1>6. ASSUME NEW k \in held, Logout(k) PROVE Inv'
  BY <1>6, RemoveStep DEF Logout
<1>7. ASSUME NEW t \in tokens, NEW k \in sessions, RevokeSession(t, k) PROVE Inv'
  BY <1>7, RemoveStep DEF RevokeSession
<1>8. ASSUME NEW u \in User, NEW a \in {"active", "inactive"}, SetActive(u, a) PROVE Inv'
  BY <1>8, SetActiveStep
<1>9. ASSUME NEW u \in User, NEW s \in SUBSET Permission, ChangeRights(u, s) PROVE Inv'
  BY <1>9, ChangeRightsStep
<1>10. CASE Tick
  BY <1>10, TickStep
<1>11. QED
  BY <1>1, <1>2, <1>3, <1>4, <1>5, <1>6, <1>7, <1>8, <1>9, <1>10 DEF Next

\* AuthSessionsInv: a request answers for what was true when it began, whatever
\* happens to users, sessions and permissions while it runs.
THEOREM InvAlways == Spec => []Inv
BY InitInv, NextInv, PTL DEF Spec

\* dependencies.py:58: a lost permission is gone from the tokens after the answers
\* that were on their way and the life of one access token.
THEOREM StalePowerEnds == Spec => []StalePowerIsBounded
<1>1. Inv => StalePowerIsBounded
  BY DEF Inv
<1>2. QED
  BY <1>1, InvAlways, PTL

\* services.py:103: the tokens of a session that was ended, by whomever, die out
\* in the same time.
THEOREM EndedSessionsEnd == Spec => []EndedSessionsDieOut
<1>1. Inv => EndedSessionsDieOut
  BY DEF Inv
<1>2. QED
  BY <1>1, InvAlways, PTL

\* services.py:115: a deactivated user is left without tokens when the sessions he
\* had have expired.
THEOREM DeactivatedEnd == Spec => []DeactivatedDieOut
<1>1. Inv => DeactivatedDieOut
  BY DEF Inv
<1>2. QED
  BY <1>1, InvAlways, PTL
=============================================================================
