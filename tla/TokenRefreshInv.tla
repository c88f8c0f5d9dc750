-------------------------- MODULE TokenRefreshInv --------------------------
(***************************************************************************)
(* The inductive invariant behind the theorems of TokenRefreshProofs.      *)
(***************************************************************************)
EXTENDS TokenRefresh

\* Nothing goes on in a page that is gone.
ClosedOK ==
    \A t \in Tab :
        page[t].phase = "closed" =>
            /\ ~page[t].isRefreshing
            /\ \A c \in Call : TabOf[c] = t => ~Pending(c)

\* As long as all is calm: a call that is sent again carries the token of the
\* refresh, and is never answered with 401; who has refreshed is sent again.
CalmCall(q) ==
    /\ q.at = "rejected" => q.kind = "login"
    /\ q.at = "ok" => q.kind # "logout"
    /\ q.kind = "login" => ~q.again /\ q.at \notin {"queued", "refreshing"}
    /\ q.retry => q.again \/ q.at = "refreshing"
    /\ q.again => q.at # "401"
    /\ q.again /\ q.at = "sent" => q.valid

CalmOK ==
    calm => /\ session /\ ~barred
            /\ \A t \in Tab : page[t].refresh # "refused" /\ ~page[t].leaving
            /\ \A c \in Call : CalmCall(call[c])

\* Inductive.
Inv == TypeOK /\ ClosedOK /\ QueueHasRefresh /\ CalmOK
=============================================================================
