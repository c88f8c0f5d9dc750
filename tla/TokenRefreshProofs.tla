------------------------- MODULE TokenRefreshProofs -------------------------
(***************************************************************************)
(* Proofs about TokenRefresh, for any number of tabs and calls.            *)
(***************************************************************************)
EXTENDS TokenRefreshInv, TLAPS

\* What a queue and a refresh look like, call by call.
LEMMA QueueMembers ==
  ASSUME NEW t \in Tab, NEW c \in Call
  PROVE  /\ c \in Queue(t) <=> TabOf[c] = t /\ call[c].at = "queued"
         /\ c \in Waiting(t) \ Queue(t) <=> TabOf[c] = t /\ call[c].at = "refreshing"
  BY DEF Queue, Waiting

\* The records that begin a page and a call.
LEMMA BlankTypes == Closed \in Page /\ Idle \in Exchange
  BY DEF Closed, Page, Idle, Exchange, Token, Over

LEMMA InitInv == Init => Inv
  <1> SUFFICES ASSUME Init PROVE Inv
    OBVIOUS
  <1>1. TypeOK
    <2>1. page \in [Tab -> Page] /\ call \in [Call -> Exchange]
      BY BlankTypes DEF Init
    <2>2. calls \in 0..MaxCalls
      BY CallAssumption DEF Init
    <2> QED BY <2>1, <2>2 DEF Init, TypeOK
  <1>2. ClosedOK
    BY DEF Init, ClosedOK, Closed, Idle, Pending, Over
  <1>3. QueueHasRefresh
    BY DEF Init, QueueHasRefresh, Queue, Waiting, Closed, Idle
  <1>4. CalmOK
    BY DEF Init, CalmOK, CalmCall, Closed, Idle
  <1> QED BY <1>1, <1>2, <1>3, <1>4 DEF Inv

\* Queues, and those who wait, stay as they are.
LEMMA QueueFrame ==
  ASSUME QueueHasRefresh,
         \A t \in Tab : page'[t].isRefreshing = page[t].isRefreshing
                        /\ page'[t].refresh = page[t].refresh,
         \A d \in Call : \A a \in {"queued", "refreshing"} : call'[d].at = a <=> call[d].at = a
  PROVE  QueueHasRefresh'
  <1>1. \A t \in Tab : Queue(t)' = Queue(t) /\ Waiting(t)' = Waiting(t)
    BY DEF Queue, Waiting
  <1> QED BY <1>1 DEF QueueHasRefresh

\* A call begins.
LEMMA RequestTypes ==
  ASSUME NEW c \in Call, NEW k \in {"data", "init", "login", "me", "logout"},
         TypeOK, Request(c, k)
  PROVE  /\ call' \in [Call -> Exchange]
         /\ /\ call'[c].at = "sent" /\ call'[c].kind = k
            /\ ~call'[c].retry /\ ~call'[c].again
         /\ \A d \in Call : d # c => call'[d] = call[d]
  <1>1. PICK valid \in BOOLEAN :
           call' = [call EXCEPT ![c] = [Idle EXCEPT !.at = "sent", !.kind = k, !.valid = valid]]
    <2>1. (stored = "valid") \in BOOLEAN /\ page[TabOf[c]].header \in BOOLEAN
      BY CallAssumption DEF TypeOK, Page
    <2> QED BY <2>1 DEF Request
  <1>2. [Idle EXCEPT !.at = "sent", !.kind = k, !.valid = valid] \in Exchange
    BY DEF Exchange, Idle
  <1> QED BY <1>1, <1>2 DEF TypeOK, Idle

LEMMA SendInv ==
  ASSUME NEW c \in Call, Inv, Send(c) PROVE Inv'
  <1> USE CallAssumption DEF Inv
  <1>1. TypeOK'
    BY RequestTypes DEF TypeOK, Send, Server, Click
  <1>2. ClosedOK'
    BY DEF TypeOK, Send, Request, ClosedOK, Pending, Idle, Over
  <1>3. QueueHasRefresh'
    BY DEF TypeOK, Send, Request, QueueHasRefresh, Queue, Waiting, Idle, Pending, Over
  <1>4. CalmOK'
    BY DEF TypeOK, Send, Request, CalmOK, CalmCall, Idle, Server
  <1> QED BY <1>1, <1>2, <1>3, <1>4

\* A call is answered.
LEMMA AnswerTypes ==
  ASSUME NEW c \in Call, NEW a \in {"ok", "401", "queued"}, TypeOK, Answer(c, a)
  PROVE  /\ call' \in [Call -> Exchange]
         /\ call'[c] = [call[c] EXCEPT !.at = a, !.valid = FALSE]
         /\ \A d \in Call : d # c => call'[d] = call[d]
  BY DEF TypeOK, Answer, Exchange, Over

\* A page hears of the end of a call.
LEMMA AfterTypes ==
  ASSUME NEW p \in Page, NEW k \in {"data", "init", "login", "me", "logout"},
         NEW o \in {"resolved", "rejected"}
  PROVE  /\ After(p, k, o) \in Page
         /\ After(p, k, o).isRefreshing = p.isRefreshing
         /\ After(p, k, o).refresh = p.refresh
  BY DEF Page, After

\* AuthService.login begins.
LEMMA LoginInv ==
  ASSUME NEW c \in Call, Inv, Login(c) PROVE Inv'
  <1> USE CallAssumption DEF Inv
  <1>1. TypeOK'
    BY RequestTypes DEF TypeOK, Login, Server, Click
  <1>2. ClosedOK'
    BY DEF TypeOK, Login, Request, Idle, Server, Click, ClosedOK, Pending, Over
  <1>3. QueueHasRefresh'
    BY DEF TypeOK, Login, Request, Idle, Server, Click, QueueHasRefresh, Queue, Waiting, ClosedOK, Pending, Over
  <1>4. CalmOK'
    BY DEF TypeOK, Login, Request, Idle, Server, Click, CalmOK, CalmCall
  <1> QED BY <1>1, <1>2, <1>3, <1>4

\* AuthService.logout begins.
LEMMA LogoutInv ==
  ASSUME NEW c \in Call, Inv, Logout(c) PROVE Inv'
  <1> USE CallAssumption DEF Inv
  <1>1. TypeOK'
    BY RequestTypes DEF TypeOK, Logout, Server, Click
  <1>2. ClosedOK'
    BY DEF TypeOK, Logout, Request, Idle, Server, Click, ClosedOK, Pending, Over
  <1>3. QueueHasRefresh'
    BY DEF TypeOK, Logout, Request, Idle, Server, Click, QueueHasRefresh, Queue, Waiting, ClosedOK, Pending, Over
  <1>4. CalmOK'
    BY DEF TypeOK, Logout, Request, Idle, Server, Click, CalmOK, CalmCall
  <1> QED BY <1>1, <1>2, <1>3, <1>4

\* A page is loaded.
LEMMA LoadInv ==
  ASSUME NEW c \in Call, Inv, Load(c) PROVE Inv'
  <1> DEFINE t == TabOf[c]
  <1> USE CallAssumption DEF Inv
  <1>1. CASE stored = "none"
    <2>1. /\ page[t].phase = "closed"
          /\ page' = [page EXCEPT ![t] = [Closed EXCEPT !.phase = "up"]]
          /\ UNCHANGED <<call, stored, Server, calls, calm>>
      BY <1>1 DEF Load
    <2>2. TypeOK'
      BY <2>1, BlankTypes DEF TypeOK, Page, Closed, Server
    <2>3. ClosedOK'
      BY <2>1 DEF TypeOK, Closed, ClosedOK, Pending
    <2>4. QueueHasRefresh'
      BY <2>1, QueueMembers DEF TypeOK, Closed, ClosedOK, QueueHasRefresh, Queue, Waiting
    <2>5. CalmOK'
      BY <2>1 DEF TypeOK, Closed, CalmOK, CalmCall, Server
    <2> QED BY <2>2, <2>3, <2>4, <2>5
  <1>2. CASE stored # "none"
    <2>1. PICK path \in {"login", "app"} :
             page' = [page EXCEPT ![t] = [Closed EXCEPT !.phase = "blank", !.path = path]]
      BY <1>2 DEF Load
    <2>2. /\ page[t].phase = "closed" /\ Request(c, "init")
          /\ UNCHANGED <<stored, Server, calls, calm>>
      BY <1>2 DEF Load
    <2>3. TypeOK'
      BY <2>1, <2>2, BlankTypes, RequestTypes DEF TypeOK, Page, Closed, Server
    <2>4. ClosedOK'
      <3>1. page'[t].phase = "blank" /\ \A u \in Tab : u # t => page'[u] = page[u]
        BY <2>1 DEF TypeOK, Closed
      <3>2. \A d \in Call : d # c => call'[d] = call[d]
        BY <2>2, RequestTypes
      <3> QED BY <3>1, <3>2 DEF ClosedOK, Pending
    <2>5. QueueHasRefresh'
      <3>1. \A d \in Call : \A a \in {"queued", "refreshing"} : call'[d].at = a <=> call[d].at = a
        BY <2>2, RequestTypes DEF Request, Pending, Idle, Over
      <3>2. page[t].isRefreshing = FALSE /\ page[t].refresh = "none"
        BY <2>2, CallAssumption DEF TypeOK, Page, ClosedOK, QueueHasRefresh
      <3>3. \A u \in Tab : page'[u].isRefreshing = page[u].isRefreshing
                           /\ page'[u].refresh = page[u].refresh
        BY <2>1, <3>2 DEF TypeOK, Closed
      <3> QED BY <3>1, <3>3, QueueFrame
    <2>6. CalmOK'
      <3>1. CalmCall(call'[c])
        <4>1. /\ call'[c].at = "sent" /\ call'[c].kind = "init"
              /\ ~call'[c].retry /\ ~call'[c].again
          BY <2>2, RequestTypes DEF Idle
        <4> QED BY <4>1 DEF CalmCall
      <3>2. \A d \in Call : d # c => call'[d] = call[d]
        BY <2>2, RequestTypes
      <3>3. \A u \in Tab : page'[u] = page[u] \/ (page'[u].refresh = "none" /\ ~page'[u].leaving)
        BY <2>1 DEF TypeOK, Closed
      <3> QED BY <2>2, <3>1, <3>2, <3>3 DEF CalmOK, Server
    <2> QED BY <2>3, <2>4, <2>5, <2>6
  <1> QED BY <1>1, <1>2

\* A page goes.
LEMMA LeaveInv ==
  ASSUME NEW t \in Tab, Inv, Leave(t) PROVE Inv'
  <1> USE CallAssumption DEF Inv
  <1>1. TypeOK'
    BY BlankTypes DEF TypeOK, Leave, Unload, Unloaded, Closed, Idle, Server, Page, Exchange, Token, Over
  <1>2. ClosedOK'
    BY DEF TypeOK, Leave, Unload, Unloaded, Closed, Idle, Server, ClosedOK, Pending, Over
  <1>3. QueueHasRefresh'
    <2>1. \A d \in Call : /\ TabOf[d] = t => call'[d].at = "idle"
                          /\ TabOf[d] # t => call'[d] = call[d]
      BY DEF Leave, Unload, Unloaded, Idle
    <2>2. /\ page'[t].isRefreshing = FALSE /\ page'[t].refresh = "none"
          /\ \A u \in Tab : u # t => page'[u] = page[u]
      BY DEF Leave, Unload, Closed, TypeOK
    <2> QED BY <2>1, <2>2 DEF QueueHasRefresh, Queue, Waiting
  <1>4. CalmOK'
    BY DEF TypeOK, Leave, Unload, Unloaded, Closed, Idle, Server, CalmOK, CalmCall
  <1> QED BY <1>1, <1>2, <1>3, <1>4

\* A tab is closed.
LEMMA CloseInv ==
  ASSUME NEW t \in Tab, Inv, Close(t) PROVE Inv'
  <1> USE CallAssumption DEF Inv
  <1>1. TypeOK'
    BY BlankTypes DEF TypeOK, Close, Click, Unload, Unloaded, Closed, Idle, Server, Page, Exchange, Token, Over
  <1>2. ClosedOK'
    BY DEF TypeOK, Close, Click, Unload, Unloaded, Closed, Idle, Server, ClosedOK, Pending, Over
  <1>3. QueueHasRefresh'
    <2>1. \A d \in Call : /\ TabOf[d] = t => call'[d].at = "idle"
                          /\ TabOf[d] # t => call'[d] = call[d]
      BY DEF Close, Unload, Unloaded, Idle
    <2>2. /\ page'[t].isRefreshing = FALSE /\ page'[t].refresh = "none"
          /\ \A u \in Tab : u # t => page'[u] = page[u]
      BY DEF Close, Unload, Closed, TypeOK
    <2> QED BY <2>1, <2>2 DEF QueueHasRefresh, Queue, Waiting
  <1>4. CalmOK'
    BY DEF TypeOK, Close, Click, Unload, Unloaded, Closed, Idle, Server, CalmOK, CalmCall
  <1> QED BY <1>1, <1>2, <1>3, <1>4

\* The answer to a call.
LEMMA ServeInv ==
  ASSUME NEW c \in Call, Inv, Serve(c) PROVE Inv'
  <1> USE CallAssumption DEF Inv
  <1>1. PICK a \in {"ok", "401"} :
           /\ Answer(c, a)
           /\ a = "401" => ~call[c].valid \/ barred
    BY DEF Serve
  <1>2. /\ call[c].at = "sent" /\ call[c].kind \in {"data", "init", "me"}
        /\ UNCHANGED <<stored, session, barred, page, calls, calm>>
    BY DEF Serve, Server
  <1>3. TypeOK'
    BY <1>1, <1>2, AnswerTypes DEF TypeOK
  <1>4. /\ call'[c].at = a /\ call'[c].kind = call[c].kind
        /\ call'[c].retry = call[c].retry /\ call'[c].again = call[c].again
        /\ \A d \in Call : d # c => call'[d] = call[d]
    <2>1. call[c] \in Exchange
      BY DEF TypeOK
    <2>2. call'[c] = [call[c] EXCEPT !.at = a, !.valid = FALSE]
      BY <1>1, AnswerTypes
    <2>3. \A d \in Call : d # c => call'[d] = call[d]
      BY <1>1, AnswerTypes
    <2> QED BY <2>1, <2>2, <2>3 DEF Exchange
  <1>5. ClosedOK'
    BY <1>2, <1>4 DEF ClosedOK, Pending, Over
  <1>6. QueueHasRefresh'
    <2>1. \A d \in Call : \A b \in {"queued", "refreshing"} : call'[d].at = b <=> call[d].at = b
      BY <1>2, <1>4
    <2> QED BY <1>2, <2>1, QueueFrame
  <1>7. CalmOK'
    BY <1>1, <1>2, <1>4 DEF CalmOK, CalmCall
  <1> QED BY <1>3, <1>5, <1>6, <1>7

\* The answer to a sign-in.
LEMMA ServeLoginInv ==
  ASSUME NEW c \in Call, Inv, ServeLogin(c) PROVE Inv'
  <1> USE CallAssumption DEF Inv
  <1>1. PICK a \in {"ok", "401"} : Answer(c, a) /\ (session' = session \/ session' = TRUE)
    BY DEF ServeLogin
  <1>2. TypeOK'
    BY <1>1, AnswerTypes DEF TypeOK, ServeLogin
  <1>3. /\ call[c].at = "sent" /\ call[c].kind = "login"
        /\ UNCHANGED <<page, barred, calm>>
    BY DEF ServeLogin
  <1>4. /\ call'[c].at = a /\ call'[c].kind = "login"
        /\ call'[c].retry = call[c].retry /\ call'[c].again = call[c].again
        /\ \A d \in Call : d # c => call'[d] = call[d]
    BY <1>1, <1>3, AnswerTypes DEF TypeOK, Exchange
  <1>5. ClosedOK'
    BY <1>3, <1>4 DEF ClosedOK, Pending, Over
  <1>6. QueueHasRefresh'
    <2>1. \A d \in Call : \A b \in {"queued", "refreshing"} : call'[d].at = b <=> call[d].at = b
      BY <1>3, <1>4
    <2> QED BY <1>3, <2>1, QueueFrame
  <1>7. CalmOK'
    <2>1. CASE session' = session
      BY <2>1, <1>3, <1>4 DEF CalmOK, CalmCall
    <2>2. calm => CalmCall(call'[c])
      BY <1>3, <1>4 DEF CalmOK, CalmCall
    <2>3. CASE session' = TRUE
      BY <2>2, <2>3, <1>3, <1>4 DEF CalmOK
    <2> QED BY <1>1, <2>1, <2>3
  <1> QED BY <1>2, <1>5, <1>6, <1>7

\* The answer to a log-out.
LEMMA ServeLogoutInv ==
  ASSUME NEW c \in Call, Inv, ServeLogout(c) PROVE Inv'
  <1> USE CallAssumption DEF Inv
  <1>1. TypeOK'
    BY AnswerTypes DEF TypeOK, ServeLogout
  <1>2. ClosedOK'
    BY DEF TypeOK, ServeLogout, Answer, ClosedOK, Pending, Over
  <1>3. QueueHasRefresh'
    BY DEF TypeOK, ServeLogout, Answer, QueueHasRefresh, Queue, Waiting, ClosedOK, Pending, Over
  <1>4. CalmOK'
    BY DEF TypeOK, ServeLogout, Answer, CalmOK, CalmCall
  <1> QED BY <1>1, <1>2, <1>3, <1>4

\* A call is queued.
LEMMA WaitInv ==
  ASSUME NEW c \in Call, Inv, Wait(c) PROVE Inv'
  <1> USE CallAssumption DEF Inv
  <1>1. TypeOK'
    BY AnswerTypes DEF TypeOK, Wait, Server
  <1>2. ClosedOK'
    BY DEF TypeOK, Wait, Answer, Server, Unauthorized, ClosedOK, Pending, Over
  <1>3. QueueHasRefresh'
    BY DEF TypeOK, Wait, Answer, Server, Unauthorized, QueueHasRefresh, Queue, Waiting, ClosedOK, Pending, Over
  <1>4. CalmOK'
    BY DEF TypeOK, Wait, Answer, Server, Unauthorized, CalmOK, CalmCall
  <1> QED BY <1>1, <1>2, <1>3, <1>4

\* A call refreshes.
LEMMA RefreshInv ==
  ASSUME NEW c \in Call, Inv, Refresh(c) PROVE Inv'
  <1> USE CallAssumption DEF Inv
  <1>1. TypeOK'
    BY DEF TypeOK, Refresh, Server, Unauthorized, Page, Exchange, Token, Over
  <1>2. ClosedOK'
    BY DEF TypeOK, Refresh, Server, Unauthorized, ClosedOK, Pending, Over
  <1>3. QueueHasRefresh'
    BY DEF TypeOK, Refresh, Server, Unauthorized, QueueHasRefresh, Queue, Waiting, ClosedOK, Pending, Over
  <1>4. CalmOK'
    BY DEF TypeOK, Refresh, Server, Unauthorized, CalmOK, CalmCall
  <1> QED BY <1>1, <1>2, <1>3, <1>4

\* A sign-in goes on.
LEMMA LoggedInInv ==
  ASSUME NEW c \in Call, Inv, LoggedIn(c) PROVE Inv'
  <1> USE CallAssumption DEF Inv
  <1>1. TypeOK'
    BY DEF TypeOK, LoggedIn, Server, Idle, Page, Exchange, Token, Over
  <1>2. ClosedOK'
    BY DEF TypeOK, LoggedIn, Server, Idle, ClosedOK, Pending, Over
  <1>3. QueueHasRefresh'
    BY DEF TypeOK, LoggedIn, Server, Idle, QueueHasRefresh, Queue, Waiting, ClosedOK, Pending, Over
  <1>4. CalmOK'
    BY DEF TypeOK, LoggedIn, Server, Idle, CalmOK, CalmCall
  <1> QED BY <1>1, <1>2, <1>3, <1>4

\* A call is handed back.
LEMMA ResolveInv ==
  ASSUME NEW c \in Call, Inv, Resolve(c) PROVE Inv'
  <1> USE CallAssumption DEF Inv
  <1>1. TypeOK'
    <2>1. call' \in [Call -> Exchange]
      BY BlankTypes DEF TypeOK, Resolve, Settle, Exchange, Idle, Over, Token
    <2>2. page' \in [Tab -> Page]
      BY AfterTypes DEF TypeOK, Resolve, Settle, Exchange
    <2> QED BY <2>1, <2>2 DEF TypeOK, Resolve, Settle, Server, Token
  <1>2. ClosedOK'
    BY DEF TypeOK, Resolve, Settle, After, Forgets, Server, Idle, ClosedOK, Pending, Over
  <1>3. QueueHasRefresh'
    BY DEF TypeOK, Resolve, Settle, After, Forgets, Server, Idle, QueueHasRefresh, Queue, Waiting, ClosedOK, Pending, Over
  <1>4. CalmOK'
    BY DEF TypeOK, Resolve, Settle, After, Forgets, Server, Idle, CalmOK, CalmCall
  <1> QED BY <1>1, <1>2, <1>3, <1>4

\* A call is given up.
LEMMA RejectInv ==
  ASSUME NEW c \in Call, Inv, Reject(c) PROVE Inv'
  <1> USE CallAssumption DEF Inv
  <1>1. TypeOK'
    <2>1. call' \in [Call -> Exchange]
      BY BlankTypes DEF TypeOK, Reject, Settle, Exchange, Idle, Over, Token
    <2>2. page' \in [Tab -> Page]
      BY AfterTypes DEF TypeOK, Reject, Settle, Exchange
    <2> QED BY <2>1, <2>2 DEF TypeOK, Reject, Settle, Server, Token
  <1>2. ClosedOK'
    BY DEF TypeOK, Reject, Settle, After, Forgets, Server, Idle, ClosedOK, Pending, Over
  <1>3. QueueHasRefresh'
    BY DEF TypeOK, Reject, Settle, After, Forgets, Server, Idle, QueueHasRefresh, Queue, Waiting, ClosedOK, Pending, Over
  <1>4. CalmOK'
    BY DEF TypeOK, Reject, Settle, After, Forgets, Server, Idle, CalmOK, CalmCall
  <1> QED BY <1>1, <1>2, <1>3, <1>4

\* A call runs out of time.
LEMMA FailInv ==
  ASSUME NEW c \in Call, Inv, Fail(c) PROVE Inv'
  <1> USE CallAssumption DEF Inv
  <1>1. TypeOK'
    <2>1. call' \in [Call -> Exchange]
      BY BlankTypes DEF TypeOK, Fail, Settle, Exchange, Idle, Over, Token
    <2>2. page' \in [Tab -> Page]
      BY AfterTypes DEF TypeOK, Fail, Settle, Exchange
    <2> QED BY <2>1, <2>2 DEF TypeOK, Fail, Settle, Server, Token
  <1>2. ClosedOK'
    BY DEF TypeOK, Fail, Settle, After, Forgets, Server, Idle, ClosedOK, Pending, Over
  <1>3. QueueHasRefresh'
    BY DEF TypeOK, Fail, Settle, After, Forgets, Server, Idle, QueueHasRefresh, Queue, Waiting, ClosedOK, Pending, Over
  <1>4. CalmOK'
    BY DEF TypeOK, Fail, Settle, After, Forgets, Server, Idle, CalmOK, CalmCall
  <1> QED BY <1>1, <1>2, <1>3, <1>4

\* The answer to a refresh.
LEMMA ServeRefreshInv ==
  ASSUME NEW t \in Tab, Inv, ServeRefresh(t) PROVE Inv'
  <1> USE CallAssumption DEF Inv
  <1>1. TypeOK'
    BY DEF TypeOK, ServeRefresh, Server, Page, Exchange, Token, Over
  <1>2. ClosedOK'
    BY DEF TypeOK, ServeRefresh, Server, ClosedOK, Pending, Over
  <1>3. QueueHasRefresh'
    BY DEF TypeOK, ServeRefresh, Server, QueueHasRefresh, Queue, Waiting, ClosedOK, Pending, Over
  <1>4. CalmOK'
    BY DEF TypeOK, ServeRefresh, Server, CalmOK, CalmCall
  <1> QED BY <1>1, <1>2, <1>3, <1>4

\* A refresh fails.
LEMMA RefreshFailsInv ==
  ASSUME NEW t \in Tab, Inv, RefreshFails(t) PROVE Inv'
  <1> USE CallAssumption DEF Inv
  <1>1. TypeOK'
    <2>1. page' \in [Tab -> Page]
      BY DEF TypeOK, RefreshFails, Page
    <2> QED BY <2>1 DEF TypeOK, RefreshFails, Server
  <1>2. ClosedOK'
    BY DEF TypeOK, RefreshFails, Server, ClosedOK, Pending, Over
  <1>3. QueueHasRefresh'
    BY DEF TypeOK, RefreshFails, Server, QueueHasRefresh, Queue, Waiting, ClosedOK, Pending, Over
  <1>4. CalmOK'
    BY DEF TypeOK, RefreshFails, Server, CalmOK, CalmCall
  <1> QED BY <1>1, <1>2, <1>3, <1>4

\* The queue is sent again.
LEMMA RefreshedInv ==
  ASSUME NEW t \in Tab, Inv, Refreshed(t) PROVE Inv'
  <1> USE CallAssumption DEF Inv
  <1>1. TypeOK'
    <2>1. page' \in [Tab -> Page]
      <3>1. [page[t] EXCEPT !.isRefreshing = FALSE, !.refresh = "none", !.header = TRUE] \in Page
        BY DEF TypeOK, Page
      <3> QED BY <3>1 DEF TypeOK, Refreshed
    <2>2. call' \in [Call -> Exchange]
      <3>1. \A d \in Call : [call[d] EXCEPT !.at = "sent", !.valid = TRUE, !.again = TRUE] \in Exchange
        BY DEF TypeOK, Exchange
      <3> QED BY <3>1 DEF TypeOK, Refreshed
    <2> QED BY <2>1, <2>2 DEF TypeOK, Refreshed, Server, Token
  <1>2. ClosedOK'
    <2>1. page[t].phase # "closed"
      BY DEF TypeOK, Refreshed, QueueHasRefresh, ClosedOK
    <2>2. /\ page'[t].phase = page[t].phase
          /\ \A u \in Tab : u # t => page'[u] = page[u]
          /\ \A d \in Call : TabOf[d] # t => call'[d] = call[d]
      BY DEF TypeOK, Refreshed, Page, Waiting
    <2> QED BY <2>1, <2>2 DEF ClosedOK, Pending
  <1>3. QueueHasRefresh'
    <2>1. \A d \in Call : /\ d \in Waiting(t) => call'[d].at = "sent"
                          /\ d \notin Waiting(t) => call'[d] = call[d]
      BY DEF TypeOK, Refreshed, Exchange
    <2>2. /\ page'[t].isRefreshing = FALSE /\ page'[t].refresh = "none"
          /\ \A u \in Tab : u # t => page'[u] = page[u]
      BY DEF TypeOK, Refreshed, Page
    <2> QED BY <2>1, <2>2 DEF QueueHasRefresh, Queue, Waiting
  <1>4. CalmOK'
    <2>1. \A d \in Call : /\ call'[d].kind = call[d].kind /\ call'[d].retry = call[d].retry
                          /\ d \in Waiting(t) =>
                                /\ call'[d].at = "sent" /\ call'[d].again
                                /\ call'[d].valid
                          /\ d \notin Waiting(t) => call'[d] = call[d]
      BY DEF TypeOK, Refreshed, Exchange
    <2>2. \A u \in Tab : /\ page'[u].leaving = page[u].leaving
                         /\ page'[u].refresh \in {"none", page[u].refresh}
      BY DEF TypeOK, Refreshed, Page
    <2>3. UNCHANGED <<session, barred, calm>>
      BY DEF Refreshed, Server
    <2> QED BY <2>1, <2>2, <2>3 DEF CalmOK, CalmCall, Waiting
  <1> QED BY <1>1, <1>2, <1>3, <1>4

\* The queue is rejected.
LEMMA RefreshRefusedInv ==
  ASSUME NEW t \in Tab, Inv, RefreshRefused(t) PROVE Inv'
  <1> USE DEF Inv
  <1> DEFINE left == [page[t] EXCEPT !.isRefreshing = FALSE, !.refresh = "none",
                                     !.leaving = @ \/ page[t].path # "login"]
             asked == \E c \in Waiting(t) : call[c].kind \in {"init", "me"}
             q == IF asked THEN After(left, "init", "rejected") ELSE left
  <1>1. /\ page[t].refresh = "refused" /\ stored' = "none"
        /\ UNCHANGED <<session, barred, calls, calm>>
        /\ page' = [page EXCEPT ![t] = q]
    BY DEF RefreshRefused, Server
  <1>2. \A d \in Call :
           call'[d] = IF d \in Waiting(t)
                      THEN [Idle EXCEPT !.at = "rejected", !.kind = call[d].kind]
                      ELSE call[d]
    BY DEF RefreshRefused
  <1>3. left \in Page /\ left.isRefreshing = FALSE /\ left.refresh = "none"
    BY DEF TypeOK, Page
  <1>4. q \in Page /\ q.isRefreshing = FALSE /\ q.refresh = "none"
    BY <1>3, AfterTypes
  <1>5. page[t].phase # "closed"
    BY <1>1 DEF TypeOK, Page, ClosedOK, QueueHasRefresh
  <1>6. q.phase # "closed"
    BY <1>5 DEF TypeOK, Page, After
  <1> HIDE DEF q
  <1>7. TypeOK'
    <2>1. page' \in [Tab -> Page]
      BY <1>1, <1>4 DEF TypeOK
    <2>2. call' \in [Call -> Exchange]
      BY BlankTypes DEF RefreshRefused, TypeOK, Exchange, Idle, Over
    <2> QED BY <1>1, <2>1, <2>2 DEF TypeOK, Token
  <1>8. page'[t] = q /\ \A u \in Tab : u # t => page'[u] = page[u]
    BY <1>1 DEF TypeOK
  <1>9. ClosedOK'
    <2>1. \A d \in Call : TabOf[d] # t => call'[d] = call[d]
      BY <1>2 DEF Waiting
    <2> QED BY <1>6, <1>8, <2>1 DEF ClosedOK, Pending
  <1>10. QueueHasRefresh'
    <2>1. \A d \in Call : /\ d \in Waiting(t) => call'[d].at = "rejected"
                          /\ d \notin Waiting(t) => call'[d] = call[d]
      BY <1>2 DEF Idle
    <2> QED BY <1>4, <1>8, <2>1 DEF QueueHasRefresh, Queue, Waiting
  <1>11. CalmOK'
    BY <1>1 DEF CalmOK
  <1> QED BY <1>7, <1>9, <1>10, <1>11

\* The session ends.
LEMMA SessionEndsInv ==
  ASSUME Inv, SessionEnds PROVE Inv'
  <1> USE CallAssumption DEF Inv
  <1>1. TypeOK'
    BY DEF TypeOK, SessionEnds, Page, Exchange, Token, Over
  <1>2. ClosedOK'
    BY DEF TypeOK, SessionEnds, ClosedOK, Pending, Over
  <1>3. QueueHasRefresh'
    BY DEF TypeOK, SessionEnds, QueueHasRefresh, Queue, Waiting, ClosedOK, Pending, Over
  <1>4. CalmOK'
    BY DEF TypeOK, SessionEnds, CalmOK, CalmCall
  <1> QED BY <1>1, <1>2, <1>3, <1>4

\* The user is deactivated.
LEMMA DeactivateInv ==
  ASSUME Inv, Deactivate PROVE Inv'
  <1> USE CallAssumption DEF Inv
  <1>1. TypeOK'
    BY DEF TypeOK, Deactivate, Page, Exchange, Token, Over
  <1>2. ClosedOK'
    BY DEF TypeOK, Deactivate, ClosedOK, Pending, Over
  <1>3. QueueHasRefresh'
    BY DEF TypeOK, Deactivate, QueueHasRefresh, Queue, Waiting, ClosedOK, Pending, Over
  <1>4. CalmOK'
    BY DEF TypeOK, Deactivate, CalmOK, CalmCall
  <1> QED BY <1>1, <1>2, <1>3, <1>4

\* Tokens expire.
LEMMA ExpireInv ==
  ASSUME Inv, Expire PROVE Inv'
  <1> USE DEF Inv
  <1>1. \A d \in Call : /\ call'[d].at = call[d].at /\ call'[d].kind = call[d].kind
                        /\ call'[d].retry = call[d].retry /\ call'[d].again = call[d].again
    BY DEF Expire, TypeOK, Exchange
  <1>2. /\ UNCHANGED <<session, barred, calls, calm>>
        /\ page' = [t \in Tab |-> [page[t] EXCEPT !.header = FALSE]]
        /\ \A d \in Call : Pending(d) => ~call[d].again
    BY DEF Expire, Server
  <1>3. TypeOK'
    <2>1. stored' \in Token
      BY DEF TypeOK, Expire, Token
    <2>2. call' \in [Call -> Exchange]
      BY DEF TypeOK, Expire, Exchange, Token
    <2>3. page' \in [Tab -> Page]
      BY <1>2 DEF TypeOK, Page
    <2> QED BY <1>2, <2>1, <2>2, <2>3 DEF TypeOK
  <1>4. \A t \in Tab : /\ page'[t].phase = page[t].phase /\ page'[t].leaving = page[t].leaving
                       /\ page'[t].isRefreshing = page[t].isRefreshing
                       /\ page'[t].refresh = page[t].refresh
    BY <1>2 DEF TypeOK, Page
  <1>5. ClosedOK'
    BY <1>1, <1>4 DEF ClosedOK, Pending
  <1>6. QueueHasRefresh'
    BY <1>1, <1>4, QueueFrame
  <1>7. CalmOK'
    BY <1>1, <1>2, <1>4 DEF CalmOK, CalmCall, Pending, Over
  <1> QED BY <1>3, <1>5, <1>6, <1>7

THEOREM InvAlways == Spec => []Inv
  <1>1. Inv /\ [Next]_vars => Inv'
    <2> SUFFICES ASSUME Inv, [Next]_vars PROVE Inv'
      OBVIOUS
    <2>1. ASSUME NEW c \in Call,
                 \/ Send(c) \/ Login(c) \/ Logout(c) \/ Load(c)
                 \/ Serve(c) \/ ServeLogin(c) \/ ServeLogout(c)
                 \/ Resolve(c) \/ LoggedIn(c) \/ Reject(c) \/ Fail(c) \/ Wait(c) \/ Refresh(c)
          PROVE  Inv'
      BY <2>1, SendInv, LoginInv, LogoutInv, LoadInv, ServeInv, ServeLoginInv, ServeLogoutInv,
         ResolveInv, LoggedInInv, RejectInv, FailInv, WaitInv, RefreshInv
    <2>2. ASSUME NEW t \in Tab,
                 \/ Leave(t) \/ Close(t) \/ ServeRefresh(t) \/ RefreshFails(t)
                 \/ Refreshed(t) \/ RefreshRefused(t)
          PROVE  Inv'
      BY <2>2, LeaveInv, CloseInv, ServeRefreshInv, RefreshFailsInv, RefreshedInv, RefreshRefusedInv
    <2>3. CASE SessionEnds \/ Deactivate \/ Expire
      BY <2>3, SessionEndsInv, DeactivateInv, ExpireInv
    <2>4. CASE UNCHANGED vars
      BY <2>4 DEF vars, Inv, TypeOK, ClosedOK, Pending, QueueHasRefresh, Queue, Waiting, CalmOK
    <2> QED BY <2>1, <2>2, <2>3, <2>4 DEF Next
  <1> QED BY InitInv, <1>1, PTL DEF Spec

\* api-client.ts:40-52, 71, 107, for any number of tabs and of calls in each.
THEOREM QueueIsServed == Spec => []QueueHasRefresh
  <1>1. Inv => QueueHasRefresh
    BY DEF Inv
  <1> QED BY <1>1, InvAlways, PTL

\* api-client.ts:54-112, for any number of tabs and of calls in each.
THEOREM CalmResolves == Spec => []CalmCallsResolve
  <1>1. Inv => CalmCallsResolve
    BY DEF Inv, CalmOK, CalmCall, CalmCallsResolve
  <1> QED BY <1>1, InvAlways, PTL
=============================================================================
