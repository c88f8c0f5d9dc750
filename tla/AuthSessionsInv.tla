-------------------------- MODULE AuthSessionsInv --------------------------
(***************************************************************************)
(* The inductive invariant behind the theorems of AuthSessionsProofs.      *)
(***************************************************************************)
EXTENDS AuthSessions

\* A session is there, or was when this began.
Began(k, since) ==
    \/ k \in sessions
    \/ \E e \in ended : e.session = k /\ since <= e.at

\* The permissions a request has read, its user has or has lost since it began.
RightsOK(q) ==
    q.at \in {"make", "save", "answer"} =>
        \A p \in q.rights : p \in rights[q.user] \/ q.since <= lost[q.user][p]

\* A sign-in began while its user was active; a refresh, while its token was
\* valid, and the token is no younger than the last deactivation allows.
ActivityOK(q) ==
    /\ q.op = "refresh" => q.since <= q.until
    /\ account[q.user] = "inactive" =>
          \/ q.op = "login" /\ q.since <= off[q.user]
          \/ q.op = "refresh" /\ q.until <= off[q.user] + Delay + RefreshLife

RequestOK(q) ==
    /\ q.at # "free" => q.user \in User /\ q.since <= now
    /\ q.at \in {"save", "answer"} => q.exp <= now + AccessLife
    /\ q.at \in {"rights", "make", "save", "answer"} =>
          /\ q.until <= now + RefreshLife
          /\ RightsOK(q)
          /\ ActivityOK(q)
          /\ q.op = "refresh" \/ q.at = "answer" => Began(Session(q), q.since)

\* Nothing lives longer than if it was made now; what was handed out was handed
\* out in time.
HeldOK ==
    \A k \in held :
        /\ k.exp <= now + RefreshLife
        /\ account[k.user] = "inactive" => k.exp <= off[k.user] + Delay + RefreshLife

TokensOK == \A t \in tokens : t.exp <= now + AccessLife

\* Inductive.
Inv ==
    /\ TypeOK
    /\ \A r \in Req : RequestOK(req[r])
    /\ HeldOK
    /\ TokensOK
    /\ StalePowerIsBounded
    /\ EndedSessionsDieOut
    /\ DeactivatedDieOut
=============================================================================
