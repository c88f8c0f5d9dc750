---------------------------- MODULE LdapSyncProofs ----------------------------
(***************************************************************************)
(* What holds of the user synchronisation for any number of users,         *)
(* sessions, entries and changes.                                          *)
(***************************************************************************)
EXTENDS LdapSyncInv, TLAPS

\* Neither placeholder is a user.
LEMMA NotUsers ==
    /\ NoUser \notin User /\ Gone \notin User
    /\ NoUser.login = NoLogin /\ Gone.login = NoLogin
    /\ NoUser.id = NoId /\ Gone.id = NoId
    /\ NoUser.active = FALSE /\ Gone.active = FALSE
BY DEF NoUser, Gone, User

\* A closed session satisfies the invariant.
LEMMA ClosedOK == SessionOK(Closed)
<1>1. Closed \in SessionState
  BY DEF Closed, SessionState, NoEntries, Entries
<1>2. LoadedTogether(Closed) /\ HasLogins(Closed) /\ NoActivation(Closed)
  BY NotUsers DEF Closed, LoadedTogether, HasLogins, NoActivation
<1>3. QED
  BY <1>1, <1>2 DEF SessionOK

\* A row found by one of the queries holds a user.
LEMMA FoundIsUser ==
    ASSUME TypeOK, NEW i \in LdapId, NEW l \in Login, NEW r \in Match(i, l)
    PROVE  r \in Row /\ users[r] \in User
<1>1. r \in Row /\ (users[r].id = i \/ users[r].login = l)
  BY DEF Match, ById, ByLogin
<1>2. i # NoId /\ l # NoLogin
  BY KeyAssumption
<1>3. QED
  BY <1>1, <1>2, NotUsers DEF TypeOK

\* Taking over login and id of an entry leaves a user, as active as he was.
LEMMA AdoptedType ==
    ASSUME NEW u \in User, NEW i \in LdapId, NEW l \in Login
    PROVE  Adopted(u, i, l) \in User /\ Adopted(u, i, l).active = u.active
BY DEF Adopted, User

\* Forgetting rows keeps the session in order.
LEMMA KeptOK ==
    ASSUME NEW s \in Sync \cup SignIn, SessionOK(session[s])
    PROVE  /\ SessionOK(Kept(s))
           /\ Kept(s).batch = session[s].batch /\ Kept(s).todo = session[s].todo
<1> DEFINE t == session[s]
           o == [q \in Row |-> IF q \in Dirty(s) THEN t.old[q] ELSE NoUser]
           n == [q \in Row |-> IF q \in Dirty(s) THEN t.new[q] ELSE NoUser]
           k == [t EXCEPT !.old = o, !.new = n]
<1>1. t \in SessionState
  BY DEF SessionOK
<1>2. Kept(s) = k
  BY <1>1 DEF Kept, SessionState
<1>3. o \in [Row -> User \cup {NoUser}] /\ n \in [Row -> User \cup {NoUser}]
  BY <1>1 DEF SessionState
<1>4. /\ k \in SessionState
      /\ k.old = o /\ k.new = n /\ k.pc = t.pc
      /\ k.todo = t.todo /\ k.batch = t.batch /\ k.typed = t.typed
  BY <1>1, <1>3 DEF SessionState
<1>5. LoadedTogether(k) /\ NoActivation(k)
  BY <1>4, NotUsers DEF SessionOK, LoadedTogether, NoActivation
<1>6. HasLogins(k)
  BY <1>4 DEF SessionOK, HasLogins
<1>7. QED
  BY <1>2, <1>4, <1>5, <1>6 DEF SessionOK

\* Loading a row and giving it a value that is no more active than the row the
\* session has keeps the session in order.
LEMMA LoadOK ==
    ASSUME TypeOK, NEW s \in Sync \cup SignIn, SessionOK(session[s]),
           NEW r \in Row, users[r] \in User,
           NEW u \in User, u.active => Loaded(s, r).active
    PROVE  SessionOK(Load(s, r, u))
<1> DEFINE t == session[s]
           k == Kept(s)
           t2 == Load(s, r, u)
<1>1. t \in SessionState /\ k \in SessionState /\ SessionOK(k)
  BY KeptOK DEF SessionOK
<1>2. /\ t2 \in SessionState
      /\ t2.old[r] = IF t.old[r] = NoUser THEN users[r] ELSE t.old[r]
      /\ t2.new[r] = u
      /\ \A q \in Row \ {r} : t2.old[q] = k.old[q] /\ t2.new[q] = k.new[q]
      /\ t2.todo = k.todo /\ t2.batch = k.batch /\ t2.typed = k.typed /\ t2.pc = k.pc
  BY <1>1 DEF SessionState, Load
<1>3. LoadedTogether(t2)
  BY <1>1, <1>2, NotUsers DEF LoadedTogether, SessionOK
<1>4. HasLogins(t2)
  BY <1>1, <1>2 DEF HasLogins, SessionOK
<1>5. NoActivation(t2)
  BY <1>1, <1>2 DEF NoActivation, SessionOK, Loaded
<1>6. QED
  BY <1>2, <1>3, <1>4, <1>5 DEF SessionOK

\* Merging an entry keeps the session in order.
LEMMA MergeOK ==
    ASSUME TypeOK, NEW s \in Sync \cup SignIn, SessionOK(session[s]),
           NEW i \in LdapId, NEW l \in Login
    PROVE  /\ SessionOK(Merge(s, i, l))
           /\ Merge(s, i, l).batch = session[s].batch
           /\ Merge(s, i, l).todo = session[s].todo
<1>1. /\ session[s] \in SessionState
      /\ Kept(s) \in SessionState /\ SessionOK(Kept(s))
      /\ Kept(s).batch = session[s].batch /\ Kept(s).todo = session[s].todo
  BY KeptOK DEF SessionOK
<1>2. CASE Match(i, l) = {}
  <2> DEFINE m == [Kept(s) EXCEPT !.add = @ \cup {Created(i, l)},
                                  !.seen = @ \cup {Seen(Created(i, l))}]
  <2>1. Merge(s, i, l) = m
    BY <1>2 DEF Merge
  <2>2. Created(i, l) \in User /\ Seen(Created(i, l)) \in LdapId
    BY DEF Created, Seen, User
  <2>3. /\ m \in SessionState
        /\ m.old = Kept(s).old /\ m.new = Kept(s).new /\ m.pc = Kept(s).pc
        /\ m.todo = session[s].todo /\ m.batch = session[s].batch
        /\ m.typed = Kept(s).typed
    BY <1>1, <2>2 DEF SessionState
  <2>4. QED
    BY <1>1, <2>1, <2>3 DEF SessionOK, LoadedTogether, HasLogins, NoActivation
<1>3. CASE Match(i, l) # {}
  <2> DEFINE r == CHOOSE r \in Match(i, l) : TRUE
             u == Adopted(Loaded(s, r), i, l)
             m == Load(s, r, u)
             n == [m EXCEPT !.seen = @ \cup {Seen(u)}]
  <2>1. Merge(s, i, l) = n
    BY <1>3 DEF Merge
  <2>2. r \in Match(i, l)
    BY <1>3
  <2>3. r \in Row /\ users[r] \in User
    BY <2>2, FoundIsUser
  <2>4. Loaded(s, r) \in User
    BY <1>1, <2>3 DEF Loaded, SessionOK, LoadedTogether, SessionState
  <2>5. u \in User /\ u.active = Loaded(s, r).active
    BY <2>4, AdoptedType
  <2>6. SessionOK(m)
    BY <2>3, <2>5, LoadOK
  <2>7. m \in SessionState
    BY <2>6 DEF SessionOK
  <2>8. Seen(u) \in LdapId \cup {NoId}
    BY <2>5 DEF Seen, User
  <2>9. /\ n \in SessionState
        /\ n.old = m.old /\ n.new = m.new /\ n.pc = m.pc
        /\ n.todo = m.todo /\ n.batch = m.batch /\ n.typed = m.typed
    BY <2>7, <2>8 DEF SessionState
  <2>10. m.todo = session[s].todo /\ m.batch = session[s].batch
    BY <1>1 DEF Load, SessionState
  <2>11. QED
    BY <2>1, <2>6, <2>9, <2>10 DEF SessionOK, LoadedTogether, HasLogins, NoActivation
<1>4. QED
  BY <1>2, <1>3

\* Initially every session is closed.
LEMMA InitInv == Init => Inv
<1> SUFFICES ASSUME Init
             PROVE  Inv
  OBVIOUS
<1>1. Closed \in SessionState
  BY ClosedOK DEF SessionOK
<1>2. TypeOK
  BY <1>1 DEF Init, TypeOK, NoEntries, Entries
<1>3. QED
  BY <1>2, ClosedOK DEF Init, Inv

\* A step of one session.
LEMMA OneSession ==
    ASSUME Inv, NEW s \in Sync \cup SignIn, NEW t, SessionOK(t),
           session' = [session EXCEPT ![s] = t],
           UNCHANGED <<users, directory, changes>>
    PROVE  Inv'
<1>1. t \in SessionState
  BY DEF SessionOK
<1>2. TypeOK'
  BY <1>1 DEF Inv, TypeOK
<1>3. \A q \in Sync \cup SignIn : SessionOK(session'[q])
  BY DEF Inv, TypeOK
<1>4. \A q \in Sync \cup SignIn : SessionOK(session[q])'
  BY <1>3 DEF SessionOK, LoadedTogether, HasLogins, NoActivation
<1>5. QED
  BY <1>2, <1>4 DEF Inv

\* Other sessions' commits reach a session only as a mark on the rows.
LEMMA TouchedOK ==
    ASSUME Inv, NEW R \in SUBSET Row
    PROVE  /\ DOMAIN session = Sync \cup SignIn
           /\ Touched(R) \in [Sync \cup SignIn -> SessionState]
           /\ \A s \in Sync \cup SignIn : SessionOK(Touched(R)[s])
<1>1. DOMAIN session = Sync \cup SignIn
  BY DEF Inv, TypeOK
<1>2. ASSUME NEW s \in Sync \cup SignIn
      PROVE  SessionOK(Touched(R)[s])
  <2> DEFINE t == session[s]
             n == [t EXCEPT !.touched = @ \cup R]
  <2>1. SessionOK(t) /\ t \in SessionState
    BY DEF Inv, SessionOK
  <2>2. /\ n \in SessionState
        /\ n.old = t.old /\ n.new = t.new /\ n.pc = t.pc
        /\ n.todo = t.todo /\ n.batch = t.batch /\ n.typed = t.typed
    BY <2>1 DEF SessionState
  <2>3. SessionOK(n)
    BY <2>1, <2>2 DEF SessionOK, LoadedTogether, HasLogins, NoActivation
  <2>4. Touched(R)[s] = t \/ Touched(R)[s] = n
    BY <1>1 DEF Touched
  <2>5. QED
    BY <2>1, <2>3, <2>4
<1>3. Touched(R) \in [Sync \cup SignIn -> SessionState]
  BY <1>1, <1>2 DEF Touched, SessionOK
<1>4. QED
  BY <1>1, <1>2, <1>3

-----------------------------------------------------------------------------
(* The steps of a sync. *)

\* A fetched batch holds a login for each entry found.
LEMMA FetchStep ==
    ASSUME Inv, NEW s \in Sync, Fetch(s)
    PROVE  Inv'
<1>1. PICK found \in SUBSET Found(directory) :
        session' = [session EXCEPT ![s] =
          [Closed EXCEPT !.pc = "fetched", !.todo = found,
             !.batch = [i \in LdapId |-> IF i \in found THEN directory[i] ELSE NoLogin]]]
  BY DEF Fetch
<1> DEFINE b == [i \in LdapId |-> IF i \in found THEN directory[i] ELSE NoLogin]
           t == [Closed EXCEPT !.pc = "fetched", !.todo = found, !.batch = b]
<1>2. directory \in Entries /\ found \subseteq LdapId
  BY DEF Inv, TypeOK, Found
<1>3. b \in Entries /\ \A i \in found : b[i] \in Login
  BY <1>2 DEF Entries, Found
<1>4. Closed \in SessionState
  BY ClosedOK DEF SessionOK
<1>5. /\ t \in SessionState
      /\ t.old = Closed.old /\ t.new = Closed.new /\ t.pc = "fetched"
      /\ t.todo = found /\ t.batch = b
  BY <1>2, <1>3, <1>4 DEF SessionState
<1>6. SessionOK(t)
  BY <1>3, <1>5, ClosedOK DEF SessionOK, LoadedTogether, HasLogins, NoActivation
<1>7. UNCHANGED <<users, directory, changes>>
  BY DEF Fetch
<1>8. QED
  BY <1>1, <1>6, <1>7, OneSession

\* One entry of the batch is merged.
LEMMA MergeStep ==
    ASSUME Inv, NEW s \in Sync \cup SignIn, NEW next \in {"merging", "committing"},
           MergeEntry(s, next)
    PROVE  Inv'
<1>1. PICK i \in session[s].todo :
        session' = [session EXCEPT ![s] =
          [Merge(s, i, session[s].batch[i]) EXCEPT !.pc = next, !.todo = @ \ {i}]]
  BY DEF MergeEntry
<1>2. SessionOK(session[s]) /\ session[s] \in SessionState /\ TypeOK
  BY DEF Inv, SessionOK
<1>3. i \in LdapId /\ session[s].batch[i] \in Login
  BY <1>2 DEF SessionOK, HasLogins, SessionState
<1> DEFINE m == Merge(s, i, session[s].batch[i])
           t == [m EXCEPT !.pc = next, !.todo = @ \ {i}]
<1>4. SessionOK(m) /\ m \in SessionState
  BY <1>2, <1>3, MergeOK DEF SessionOK
<1>5. /\ t \in SessionState
      /\ t.old = m.old /\ t.new = m.new /\ t.pc = next
      /\ t.todo \subseteq m.todo /\ t.batch = m.batch
  BY <1>4 DEF SessionState
<1>6. SessionOK(t)
  BY <1>4, <1>5 DEF SessionOK, LoadedTogether, HasLogins, NoActivation
<1>7. UNCHANGED <<users, directory, changes>>
  BY DEF MergeEntry
<1>8. QED
  BY <1>1, <1>6, <1>7, OneSession

\* The absent are loaded, and set to inactive.
LEMMA DeactivateStep ==
    ASSUME Inv, NEW s \in Sync, DeactivateAbsent(s)
    PROVE  Inv'
<1> DEFINE t == session[s]
           out == Absent(t.seen)
           o == [r \in Row |-> IF r \in out /\ t.old[r] = NoUser THEN users[r] ELSE t.old[r]]
           n == [r \in Row |-> IF r \in out THEN [Loaded(s, r) EXCEPT !.active = FALSE]
                                            ELSE t.new[r]]
           t2 == [t EXCEPT !.pc = "committing", !.old = o, !.new = n]
<1>1. SessionOK(t) /\ t \in SessionState /\ TypeOK
  BY DEF Inv, SessionOK
<1>2. \A r \in out : r \in Row /\ users[r] \in User
  BY <1>1, NotUsers DEF Absent, TypeOK
<1>3. \A r \in out : Loaded(s, r) \in User
  BY <1>1, <1>2 DEF Loaded, SessionOK, LoadedTogether, SessionState
<1>4. \A r \in out : /\ [Loaded(s, r) EXCEPT !.active = FALSE] \in User
                     /\ [Loaded(s, r) EXCEPT !.active = FALSE].active = FALSE
  BY <1>3 DEF User
<1>5. o \in [Row -> User \cup {NoUser}] /\ n \in [Row -> User \cup {NoUser}]
  BY <1>1, <1>2, <1>4 DEF SessionState
<1>6. /\ t2 \in SessionState
      /\ t2.old = o /\ t2.new = n /\ t2.pc = "committing"
      /\ t2.todo = t.todo /\ t2.batch = t.batch
  BY <1>1, <1>5 DEF SessionState
<1>7. LoadedTogether(t2)
  BY <1>1, <1>2, <1>4, <1>6, NotUsers DEF LoadedTogether, SessionOK
<1>8. NoActivation(t2)
  BY <1>1, <1>4, <1>6, NotUsers DEF NoActivation, SessionOK, LoadedTogether
<1>9. HasLogins(t2)
  BY <1>1, <1>6 DEF HasLogins, SessionOK
<1>10. session' = [session EXCEPT ![s] = t2] /\ UNCHANGED <<users, directory, changes>>
  BY <1>1 DEF DeactivateAbsent, Inv, TypeOK, SessionState
<1>11. QED
  BY <1>6, <1>7, <1>8, <1>9, <1>10, OneSession DEF SessionOK

-----------------------------------------------------------------------------
(* The steps of a sign-in. *)

\* A sign-in starts with the row of the typed login, if there is one.
LEMMA LookUpStep ==
    ASSUME Inv, NEW s \in SignIn, NEW l \in Login, LookUp(s, l)
    PROVE  Inv'
<1> DEFINE o == [r \in Row |-> IF r \in ByLogin(l) THEN users[r] ELSE NoUser]
           t == [Closed EXCEPT !.pc = "searching", !.typed = l, !.old = o, !.new = o]
<1>1. session' = [session EXCEPT ![s] = t] /\ UNCHANGED <<users, directory, changes>>
  BY DEF LookUp
<1>2. Closed \in SessionState
  BY ClosedOK DEF SessionOK
<1>3. \A r \in ByLogin(l) : r \in Row /\ users[r] \in User
  BY KeyAssumption, NotUsers DEF ByLogin, Inv, TypeOK
<1>4. o \in [Row -> User \cup {NoUser}]
  BY <1>3
<1>5. /\ t \in SessionState
      /\ t.old = o /\ t.new = o /\ t.typed = l
      /\ t.todo = {} /\ t.batch = Closed.batch
  BY <1>2, <1>4 DEF SessionState, Closed
<1>6. SessionOK(t)
  BY <1>4, <1>5 DEF SessionOK, LoadedTogether, HasLogins, NoActivation
<1>7. QED
  BY <1>1, <1>6, OneSession

\* The entry found becomes a batch of one.
LEMMA SearchStep ==
    ASSUME Inv, NEW s \in SignIn, Search(s)
    PROVE  Inv'
<1>1. PICK i \in Found(directory) :
        session' = [session EXCEPT ![s].pc = "fetched", ![s].todo = {i},
                                   ![s].batch = [NoEntries EXCEPT ![i] = directory[i]]]
  BY DEF Search
<1>2. SessionOK(session[s]) /\ session[s] \in SessionState /\ TypeOK
  BY DEF Inv, SessionOK
<1>3. i \in LdapId /\ directory[i] \in Login
  BY <1>2 DEF Found, TypeOK, Entries
<1> DEFINE b == [NoEntries EXCEPT ![i] = directory[i]]
           t == [session[s] EXCEPT !.pc = "fetched", !.todo = {i}, !.batch = b]
<1>4. b \in Entries /\ b[i] \in Login
  BY <1>3 DEF NoEntries, Entries
<1>5. /\ t \in SessionState
      /\ t.old = session[s].old /\ t.new = session[s].new /\ t.pc = "fetched"
      /\ t.todo = {i} /\ t.batch = b
  BY <1>2, <1>3, <1>4 DEF SessionState
<1>6. SessionOK(t)
  BY <1>2, <1>4, <1>5 DEF SessionOK, LoadedTogether, HasLogins, NoActivation
<1>7. session' = [session EXCEPT ![s] = t]
  BY <1>1, <1>2 DEF TypeOK
<1>8. UNCHANGED <<users, directory, changes>>
  BY DEF Search
<1>9. QED
  BY <1>6, <1>7, <1>8, OneSession

-----------------------------------------------------------------------------
(* The steps that change the table. *)

\* The UPDATE of a row leaves a user in it.
LEMMA UpdatedType ==
    ASSUME TypeOK, NEW s \in Sync \cup SignIn, SessionOK(session[s]),
           NEW r \in Dirty(s), users[r] \in User
    PROVE  Updated(s, r) \in User
<1>1. r \in Row /\ session[s].old[r] \in User /\ session[s].new[r] \in User
  BY DEF Dirty, SessionOK, SessionState, LoadedTogether
<1>2. QED
  BY <1>1 DEF Updated, Column, User

\* A commit writes users, and closes its session.
LEMMA CommitStep ==
    ASSUME Inv, NEW s \in Sync \cup SignIn, Commit(s)
    PROVE  Inv'
<1>1. PICK place \in Bijection(NextKeys(Cardinality(session[s].add)), session[s].add) :
        /\ users' = [r \in Row |-> IF r \in DOMAIN place THEN place[r] ELSE Flushed(s, Row)[r]]
        /\ session' = [Touched(Dirty(s) \cup DOMAIN place) EXCEPT ![s] = Closed]
  BY DEF Commit
<1>2. /\ place \in [NextKeys(Cardinality(session[s].add)) -> session[s].add]
      /\ DOMAIN place \subseteq Row
  BY DEF Bijection, Injection, NextKeys
<1>3. SessionOK(session[s]) /\ session[s] \in SessionState /\ TypeOK
  BY DEF Inv, SessionOK
<1>4. \A r \in DOMAIN place : place[r] \in User
  BY <1>2, <1>3 DEF SessionState
<1>5. \A r \in Dirty(s) : users[r] \in User
  BY DEF Commit, UpdatesPass
<1>6. \A r \in Row : Flushed(s, Row)[r] \in User \cup {NoUser, Gone}
  BY <1>3, <1>5, UpdatedType DEF Flushed, TypeOK
<1>7. users' \in [Row -> User \cup {NoUser, Gone}]
  BY <1>1, <1>4, <1>6
<1>8. Dirty(s) \cup DOMAIN place \in SUBSET Row
  BY <1>2 DEF Dirty
<1>9. /\ session' \in [Sync \cup SignIn -> SessionState]
      /\ \A q \in Sync \cup SignIn : SessionOK(session'[q])
  BY <1>1, <1>8, TouchedOK, ClosedOK DEF SessionOK
<1>10. TypeOK'
  BY <1>3, <1>7, <1>9 DEF TypeOK, Commit
<1>11. QED
  BY <1>9, <1>10 DEF Inv, SessionOK, LoadedTogether, HasLogins, NoActivation

\* A change by the administrator.
LEMMA AdministerStep ==
    ASSUME Inv, NEW r \in Row, NEW u \in User \cup {Gone}, Administer(r, u)
    PROVE  Inv'
<1>1. users' = [users EXCEPT ![r] = u] /\ session' = Touched({r})
      /\ changes' = changes + 1 /\ directory' = directory
  BY DEF Administer, Change
<1>2. users' \in [Row -> User \cup {NoUser, Gone}]
  BY <1>1 DEF Inv, TypeOK
<1>3. /\ session' \in [Sync \cup SignIn -> SessionState]
      /\ \A q \in Sync \cup SignIn : SessionOK(session'[q])
  BY <1>1, TouchedOK
<1>4. changes' \in Nat /\ directory' \in Entries
  BY <1>1 DEF Inv, TypeOK
<1>5. TypeOK'
  BY <1>2, <1>3, <1>4 DEF TypeOK
<1>6. QED
  BY <1>3, <1>5 DEF Inv, SessionOK, LoadedTogether, HasLogins, NoActivation

\* The three operations of the administrator.
LEMMA AdminStep ==
    ASSUME Inv, \/ \E l \in Login, type \in {"ldap", "local"} : CreateUser(l, type)
                \/ \E r \in Row : UpdateUser(r) \/ DeleteUser(r)
    PROVE  Inv'
<1>1. ASSUME NEW l \in Login, NEW type \in {"ldap", "local"}, CreateUser(l, type)
      PROVE  Inv'
  <2>1. PICK r \in NextKeys(1) :
          Administer(r, [login |-> l, type |-> type, id |-> NoId, active |-> TRUE])
    BY <1>1 DEF CreateUser
  <2>2. r \in Row /\ [login |-> l, type |-> type, id |-> NoId, active |-> TRUE] \in User
    BY DEF NextKeys, User
  <2>3. QED
    BY <2>1, <2>2, AdministerStep
<1>2. ASSUME NEW r \in Row, UpdateUser(r)
      PROVE  Inv'
  <2>1. users[r] \in User
    BY <1>2 DEF UpdateUser
  <2>2. /\ [users[r] EXCEPT !.active = ~@] \in User
        /\ \A type \in {"ldap", "local"} : [users[r] EXCEPT !.type = type] \in User
    BY <2>1 DEF User
  <2>3. QED
    BY <1>2, <2>2, AdministerStep DEF UpdateUser
<1>3. ASSUME NEW r \in Row, DeleteUser(r)
      PROVE  Inv'
  BY <1>3, AdministerStep DEF DeleteUser
<1>4. QED
  BY <1>1, <1>2, <1>3

\* A change of the directory.
LEMMA DirectoryStep ==
    ASSUME Inv, NEW i \in LdapId, DirectoryChanges(i)
    PROVE  Inv'
<1>1. PICK l \in (Names[i] \ {directory[j] : j \in LdapId}) \cup ({NoLogin} \ {directory[i]}) :
        directory' = [directory EXCEPT ![i] = l]
  BY DEF DirectoryChanges
<1>2. l \in Login \cup {NoLogin}
  BY KeyAssumption
<1>3. TypeOK'
  BY <1>1, <1>2 DEF DirectoryChanges, Change, Inv, TypeOK, Entries
<1>4. QED
  BY <1>3 DEF DirectoryChanges, Inv, SessionOK, LoadedTogether, HasLogins, NoActivation

\* The invariant is inductive.
LEMMA InvStep == Inv /\ [Next]_vars => Inv'
<1> SUFFICES ASSUME Inv, [Next]_vars
             PROVE  Inv'
  OBVIOUS
<1>1. CASE UNCHANGED vars
  BY <1>1 DEF vars, Inv, TypeOK, SessionOK, LoadedTogether, HasLogins, NoActivation
<1>2. ASSUME NEW s \in Sync \cup SignIn, CommitFails(s) \/ Refuse(s)
      PROVE  Inv'
  BY <1>2, ClosedOK, OneSession DEF CommitFails, Refuse
<1>3. CASE Next
  BY <1>2, <1>3, FetchStep, MergeStep, DeactivateStep, LookUpStep, SearchStep,
     CommitStep, AdminStep, DirectoryStep DEF Next, SyncStep, SyncEntry, Provision
<1>4. QED
  BY <1>1, <1>3

\* Whatever batches and sign-ins interleave, every session knows both the loaded
\* and the current values of a row or neither, has a login for every entry it
\* merges, and assigns no activation to a user it has loaded as inactive.
THEOREM InvAlways == Spec => []Inv
<1>1. Init => Inv
  BY InitInv
<1>2. Inv /\ [Next]_vars => Inv'
  BY InvStep
<1>3. QED
  BY <1>1, <1>2, PTL DEF Spec

-----------------------------------------------------------------------------

\* Table, directory and sessions keep their types: in particular no UPDATE is
\* sent for a row that was not loaded, and none leaves a half-written user.
THEOREM TypeCorrect == Spec => []TypeOK
<1>1. Inv => TypeOK
  BY DEF Inv
<1>2. QED
  BY <1>1, InvAlways, PTL

\* No batch and no sign-in, however old the values it has loaded, activates a
\* user who is inactive when it commits.
THEOREM DeactivatedStaysSo == Spec => DeactivationHolds
<1> DEFINE Holds == \A r \in Row, s \in DOMAIN session :
                      Commit(s) /\ users[r] \in User /\ users'[r].active => users[r].active
<1>1. Inv => Holds
  <2> SUFFICES ASSUME Inv, NEW r \in Row, NEW s \in DOMAIN session,
                      Commit(s), users[r] \in User, users'[r].active
               PROVE  users[r].active
    OBVIOUS
  <2>1. s \in Sync \cup SignIn /\ SessionOK(session[s]) /\ session[s] \in SessionState
    BY DEF Inv, TypeOK, SessionOK
  <2>2. PICK place \in Bijection(NextKeys(Cardinality(session[s].add)), session[s].add) :
          users' = [q \in Row |-> IF q \in DOMAIN place THEN place[q] ELSE Flushed(s, Row)[q]]
    BY DEF Commit
  <2>3. DOMAIN place = NextKeys(Cardinality(session[s].add))
    BY DEF Bijection, Injection
  <2>4. r \notin DOMAIN place
    BY <2>3, NotUsers DEF NextKeys
  <2>5. users'[r] = IF r \in Dirty(s) THEN Updated(s, r) ELSE users[r]
    BY <2>2, <2>4 DEF Flushed
  <2>6. CASE r \in Dirty(s)
    <3>1. /\ session[s].old[r] \in User /\ session[s].new[r] \in User
          /\ session[s].new[r].active => session[s].old[r].active
      BY <2>1, <2>6 DEF Dirty, SessionOK, SessionState, LoadedTogether, NoActivation
    <3>2. Column(session[s].old[r].active, session[s].new[r].active, users[r].active)
      BY <2>5, <2>6 DEF Updated
    <3>3. QED
      BY <3>1, <3>2 DEF Column, User
  <2>7. CASE r \notin Dirty(s)
    BY <2>5, <2>7
  <2>8. QED
    BY <2>6, <2>7
<1>2. Inv => [Holds]_vars
  BY <1>1
<1>3. QED
  BY <1>2, InvAlways, PTL DEF DeactivationHolds

-----------------------------------------------------------------------------
(* What the steps do to a session and to the table. *)

\* Session state n holds of row r what t holds, or has forgotten it.
KeptRow(t, n, r) ==
    \/ n.old[r] = NoUser /\ n.new[r] = NoUser
    \/ n.old[r] = t.old[r] /\ n.new[r] = t.new[r]

\* Entry i, with login l, becomes a new user ...
MergedNew(s, i, l, n) ==
    /\ n.add = session[s].add \cup {Created(i, l)}
    /\ n.seen = session[s].seen \cup {Created(i, l).id}
    /\ \A q \in Row : KeptRow(session[s], n, q)

\* ... or changes row r.
MergedRow(s, i, l, n, r) ==
    /\ n.add = session[s].add
    /\ n.seen = session[s].seen \cup {n.new[r].id}
    /\ n.old[r] = IF session[s].old[r] = NoUser THEN users[r] ELSE session[s].old[r]
    /\ n.new[r] = Adopted(Loaded(s, r), i, l)
    /\ \A q \in Row \ {r} : KeptRow(session[s], n, q)

\* The session once it has merged entry i.
MergeResult(s, i, next) ==
    [Merge(s, i, session[s].batch[i]) EXCEPT !.pc = next, !.todo = @ \ {i}]

\* An entry that is merged becomes a new user, or changes one row.
LEMMA MergeShape ==
    ASSUME Inv, NEW s \in Sync \cup SignIn, NEW i \in session[s].todo,
           NEW next \in {"merging", "committing"}, NEW l, l = session[s].batch[i],
           NEW n, n = MergeResult(s, i, next)
    PROVE  /\ SessionOK(n) /\ i \in LdapId /\ l \in Login
           /\ n.pc = next /\ n.batch = session[s].batch /\ n.todo = session[s].todo \ {i}
           /\ n.touched = session[s].touched
           /\ \/ Match(i, l) = {} /\ MergedNew(s, i, l, n)
              \/ \E r \in Match(i, l) : MergedRow(s, i, l, n, r)
<1> DEFINE t == session[s]
           k == Kept(s)
           m == Merge(s, i, l)
<1>1. SessionOK(t) /\ t \in SessionState /\ TypeOK
  BY DEF Inv, SessionOK
<1>2. i \in LdapId /\ l \in Login
  BY <1>1 DEF SessionOK, HasLogins, SessionState
<1>3. /\ SessionOK(m) /\ m \in SessionState /\ m.batch = t.batch /\ m.todo = t.todo
      /\ k \in SessionState
  BY <1>1, <1>2, MergeOK, KeptOK DEF SessionOK
<1>4. /\ n \in SessionState /\ n.pc = next /\ n.batch = t.batch /\ n.todo = t.todo \ {i}
      /\ n.old = m.old /\ n.new = m.new /\ n.touched = m.touched
      /\ n.add = m.add /\ n.seen = m.seen /\ n.typed = m.typed
  BY <1>3 DEF SessionState, MergeResult
<1>5. SessionOK(n)
  BY <1>3, <1>4 DEF SessionOK, LoadedTogether, HasLogins, NoActivation
<1>6. /\ k.touched = t.touched /\ k.add = t.add /\ k.seen = t.seen
      /\ \A q \in Row : KeptRow(t, k, q)
  <2> DEFINE o == [q \in Row |-> IF q \in Dirty(s) THEN t.old[q] ELSE NoUser]
             w == [q \in Row |-> IF q \in Dirty(s) THEN t.new[q] ELSE NoUser]
  <2>1. k = [t EXCEPT !.old = o, !.new = w]
    BY <1>1 DEF Kept, SessionState
  <2>2. k.old = o /\ k.new = w
    BY <1>1, <2>1 DEF SessionState
  <2>3. \A q \in Row : KeptRow(t, k, q)
    BY <2>2 DEF KeptRow
  <2>4. QED
    BY <1>1, <2>1, <2>3 DEF SessionState
<1>7. CASE Match(i, l) = {}
  <2>1. m = [k EXCEPT !.add = @ \cup {Created(i, l)}, !.seen = @ \cup {Seen(Created(i, l))}]
    BY <1>7 DEF Merge
  <2>2. /\ m.add = t.add \cup {Created(i, l)} /\ m.seen = t.seen \cup {Created(i, l).id}
        /\ m.old = k.old /\ m.new = k.new /\ m.touched = t.touched
    BY <1>3, <1>6, <2>1 DEF SessionState, Seen
  <2>3. \A q \in Row : KeptRow(t, n, q)
    BY <1>4, <1>6, <2>2 DEF KeptRow
  <2>4. MergedNew(s, i, l, n)
    BY <1>4, <2>2, <2>3 DEF MergedNew
  <2>5. QED
    BY <1>2, <1>4, <1>5, <1>6, <1>7, <2>2, <2>4
<1>8. CASE Match(i, l) # {}
  <2> DEFINE r == CHOOSE r \in Match(i, l) : TRUE
             u == Adopted(Loaded(s, r), i, l)
             d == Load(s, r, u)
  <2>1. r \in Match(i, l) /\ r \in Row
    BY <1>1, <1>2, <1>8, FoundIsUser
  <2>2. m = [d EXCEPT !.seen = @ \cup {Seen(u)}]
    BY <1>8 DEF Merge
  <2>3. /\ d.add = t.add /\ d.seen = t.seen /\ d.touched = t.touched
        /\ d.old[r] = IF t.old[r] = NoUser THEN users[r] ELSE t.old[r]
        /\ d.new[r] = u
        /\ \A q \in Row \ {r} : d.old[q] = k.old[q] /\ d.new[q] = k.new[q]
        /\ DOMAIN d = DOMAIN k
    BY <1>3, <1>6, <2>1 DEF Load, SessionState
  <2>4. /\ m.add = d.add /\ m.seen = d.seen \cup {u.id}
        /\ m.old = d.old /\ m.new = d.new /\ m.touched = d.touched
    BY <1>3, <2>2, <2>3 DEF SessionState, Seen
  <2>5. \A q \in Row \ {r} : KeptRow(t, n, q)
    <3> HIDE DEF r, u, d, m, k
    <3>1. \A q \in Row \ {r} : n.old[q] = k.old[q] /\ n.new[q] = k.new[q]
      BY <1>4, <2>3, <2>4
    <3>2. QED
      BY <1>6, <3>1 DEF KeptRow
  <2>6. MergedRow(s, i, l, n, r)
    BY <1>4, <2>3, <2>4, <2>5 DEF MergedRow
  <2>7. QED
    BY <1>2, <1>4, <1>5, <2>1, <2>3, <2>4, <2>6
<1>9. QED
  BY <1>7, <1>8

\* Row r, if it is absent, is loaded, and set to inactive.
DeactivatedRow(s, n, r) ==
    IF r \in Absent(session[s].seen)
    THEN /\ n.old[r] = IF session[s].old[r] = NoUser THEN users[r] ELSE session[s].old[r]
         /\ n.new[r] = [Loaded(s, r) EXCEPT !.active = FALSE]
         /\ n.new[r].active = FALSE
         /\ Loaded(s, r) \in User /\ users[r] \in User
    ELSE n.old[r] = session[s].old[r] /\ n.new[r] = session[s].new[r]

\* The absent are deactivated; nothing else changes.
LEMMA DeactivateShape ==
    ASSUME Inv, NEW s \in Sync, DeactivateAbsent(s)
    PROVE  \E n \in SessionState :
             /\ session' = [session EXCEPT ![s] = n]
             /\ SessionOK(n)
             /\ session[s].todo = {} /\ session[s].pc = "merging" /\ n.pc = "committing"
             /\ n.batch = session[s].batch /\ n.todo = session[s].todo /\ n.seen = session[s].seen
             /\ n.add = session[s].add /\ n.touched = session[s].touched
             /\ \A r \in Row : DeactivatedRow(s, n, r)
<1> DEFINE t == session[s]
           out == Absent(t.seen)
           o == [r \in Row |-> IF r \in out /\ t.old[r] = NoUser THEN users[r] ELSE t.old[r]]
           w == [r \in Row |-> IF r \in out THEN [Loaded(s, r) EXCEPT !.active = FALSE]
                                            ELSE t.new[r]]
           n == [t EXCEPT !.pc = "committing", !.old = o, !.new = w]
<1>1. SessionOK(t) /\ t \in SessionState /\ TypeOK
  BY DEF Inv, SessionOK
<1>2. \A r \in out : r \in Row /\ users[r] \in User
  BY <1>1, NotUsers DEF Absent, TypeOK
<1>3. \A r \in out : Loaded(s, r) \in User
  BY <1>1, <1>2 DEF Loaded, SessionOK, LoadedTogether, SessionState
<1>4. \A r \in out : /\ [Loaded(s, r) EXCEPT !.active = FALSE] \in User
                     /\ [Loaded(s, r) EXCEPT !.active = FALSE].active = FALSE
  BY <1>3 DEF User
<1>5. o \in [Row -> User \cup {NoUser}] /\ w \in [Row -> User \cup {NoUser}]
  BY <1>1, <1>2, <1>4 DEF SessionState
<1>6. /\ n \in SessionState
      /\ n.old = o /\ n.new = w /\ n.pc = "committing"
      /\ n.todo = t.todo /\ n.batch = t.batch /\ n.seen = t.seen
      /\ n.add = t.add /\ n.touched = t.touched
  BY <1>1, <1>5 DEF SessionState
<1>7. session' = [session EXCEPT ![s] = n] /\ t.todo = {} /\ t.pc = "merging"
  BY <1>1 DEF DeactivateAbsent, Inv, TypeOK, SessionState
<1>8. Inv'
  BY DeactivateStep
<1>9. SessionOK(n)
  BY <1>1, <1>7, <1>8 DEF Inv, TypeOK, SessionOK, LoadedTogether, HasLogins, NoActivation
<1>10. ASSUME NEW r \in Row
       PROVE  DeactivatedRow(s, n, r)
  <2>1. n.old[r] = o[r] /\ n.new[r] = w[r]
    BY <1>6
  <2> HIDE DEF n
  <2>2. CASE r \in out
    BY <1>2, <1>3, <1>4, <2>1, <2>2 DEF DeactivatedRow
  <2>3. CASE r \notin out
    BY <2>1, <2>3 DEF DeactivatedRow
  <2>4. QED
    BY <2>2, <2>3
<1>11. QED
  BY <1>6, <1>7, <1>9, <1>10

\* A commit inserts the new users, each in a row of its own, and updates the
\* changed ones.
LEMMA CommitShape ==
    ASSUME Inv, NEW s \in Sync \cup SignIn, Commit(s)
    PROVE  \E R \in SUBSET Row :
             /\ session' = [Touched(R) EXCEPT ![s] = Closed]
             /\ directory' = directory
             /\ \A r \in Row \ R : users'[r] = users[r]
             /\ Dirty(s) \subseteq R
             /\ \A r \in R :
                  \/ users[r] = NoUser /\ users'[r] \in session[s].add
                  \/ users[r] \in User /\ r \in Dirty(s) /\ users'[r] = Updated(s, r)
             /\ \A r, q \in R :
                  users[r] = NoUser /\ users[q] = NoUser /\ users'[r] = users'[q] => r = q
             /\ \A u \in session[s].add : \E r \in R : users[r] = NoUser /\ users'[r] = u
<1>1. PICK place \in Bijection(NextKeys(Cardinality(session[s].add)), session[s].add) :
        /\ users' = [r \in Row |-> IF r \in DOMAIN place THEN place[r] ELSE Flushed(s, Row)[r]]
        /\ session' = [Touched(Dirty(s) \cup DOMAIN place) EXCEPT ![s] = Closed]
  BY DEF Commit
<1> DEFINE K == DOMAIN place
           R == Dirty(s) \cup K
<1>2. /\ K = NextKeys(Cardinality(session[s].add))
      /\ \A r \in K : place[r] \in session[s].add
      /\ \A r, q \in K : place[r] = place[q] => r = q
      /\ \A u \in session[s].add : \E r \in K : place[r] = u
  BY DEF Bijection, Injection, Surjection, IsInjective
<1>3. \A r \in K : r \in Row /\ users[r] = NoUser
  BY <1>2 DEF NextKeys
<1>4. \A r \in Dirty(s) : r \in Row /\ users[r] \in User
  BY DEF Dirty, Commit, UpdatesPass
<1>5. R \in SUBSET Row
  BY <1>3, <1>4
<1>6. \A r \in Row : users'[r] = IF r \in K THEN place[r]
                                 ELSE IF r \in Dirty(s) THEN Updated(s, r) ELSE users[r]
  BY <1>1 DEF Flushed
<1>7. \A r \in Dirty(s) : r \notin K /\ users[r] # NoUser
  BY <1>3, <1>4, NotUsers
<1>8. directory' = directory
  BY DEF Commit
<1> HIDE DEF K
<1>9. QED
  BY <1>1, <1>2, <1>3, <1>4, <1>5, <1>6, <1>7, <1>8 DEF K

\* The administrator creates a user, deletes one, or changes columns other
\* than login and id.
LEMMA AdminShape ==
    ASSUME Inv, \/ \E l \in Login, type \in {"ldap", "local"} : CreateUser(l, type)
                \/ \E r \in Row : UpdateUser(r) \/ DeleteUser(r)
    PROVE  \E r \in Row :
             /\ session' = Touched({r}) /\ directory' = directory
             /\ \A q \in Row \ {r} : users'[q] = users[q]
             /\ \/ users[r] = NoUser /\ "create" \in AdminActions
                \/ users[r] \in User /\ users'[r] = Gone
                \/ /\ users[r] \in User /\ users'[r] \in User
                   /\ users'[r].id = users[r].id /\ users'[r].login = users[r].login
                   /\ users'[r].type # users[r].type => "type" \in AdminActions
<1> DEFINE Shape == \E r \in Row :
             /\ session' = Touched({r}) /\ directory' = directory
             /\ \A q \in Row \ {r} : users'[q] = users[q]
             /\ \/ users[r] = NoUser /\ "create" \in AdminActions
                \/ users[r] \in User /\ users'[r] = Gone
                \/ /\ users[r] \in User /\ users'[r] \in User
                   /\ users'[r].id = users[r].id /\ users'[r].login = users[r].login
                   /\ users'[r].type # users[r].type => "type" \in AdminActions
<1>1. ASSUME NEW r \in Row, NEW u, Administer(r, u)
      PROVE  /\ session' = Touched({r}) /\ directory' = directory
             /\ \A q \in Row \ {r} : users'[q] = users[q]
             /\ users'[r] = u
  BY <1>1 DEF Administer, Inv, TypeOK
<1>2. ASSUME NEW l \in Login, NEW type \in {"ldap", "local"}, CreateUser(l, type)
      PROVE  Shape
  <2>1. PICK r \in NextKeys(1) :
          Administer(r, [login |-> l, type |-> type, id |-> NoId, active |-> TRUE])
    BY <1>2 DEF CreateUser
  <2>2. r \in Row /\ users[r] = NoUser /\ "create" \in AdminActions
    BY <1>2 DEF NextKeys, CreateUser
  <2>3. QED
    BY <1>1, <2>1, <2>2
<1>3. ASSUME NEW r \in Row, UpdateUser(r)
      PROVE  Shape
  <2>1. users[r] \in User
    BY <1>3 DEF UpdateUser
  <2>2. CASE Administer(r, [users[r] EXCEPT !.active = ~@])
    <3>1. users'[r] = [users[r] EXCEPT !.active = ~@]
      BY <1>1, <2>2
    <3>2. /\ users'[r] \in User
          /\ users'[r].id = users[r].id /\ users'[r].login = users[r].login
          /\ users'[r].type = users[r].type
      BY <2>1, <3>1 DEF User
    <3>3. QED
      BY <1>1, <2>1, <2>2, <3>2
  <2>3. ASSUME NEW type \in {"ldap", "local"}, "type" \in AdminActions,
               Administer(r, [users[r] EXCEPT !.type = type])
        PROVE  Shape
    <3>1. users'[r] = [users[r] EXCEPT !.type = type]
      BY <1>1, <2>3
    <3>2. /\ users'[r] \in User
          /\ users'[r].id = users[r].id /\ users'[r].login = users[r].login
      BY <2>1, <3>1 DEF User
    <3>3. QED
      BY <1>1, <2>1, <2>3, <3>2
  <2>4. QED
    BY <1>3, <2>2, <2>3 DEF UpdateUser
<1>4. ASSUME NEW r \in Row, DeleteUser(r)
      PROVE  Shape
  <2>1. users[r] \in User /\ Administer(r, Gone)
    BY <1>4 DEF DeleteUser
  <2>2. QED
    BY <1>1, <2>1
<1>5. QED
  BY <1>2, <1>3, <1>4

-----------------------------------------------------------------------------
(* Local users are spared while nobody's type is changed. *)

LEMMA ClosedHoldsNothing ==
    /\ Closed \in SessionState
    /\ \A r \in Row : Closed.old[r] = NoUser /\ Closed.new[r] = NoUser
    /\ Closed.add = {} /\ Closed.seen = {} /\ Closed.todo = {} /\ Closed.touched = {}
    /\ Closed.batch = NoEntries /\ Closed.pc = "idle"
<1>1. Closed \in SessionState
  BY ClosedOK DEF SessionOK
<1>2. QED
  BY <1>1 DEF Closed

\* What a session holds of a row stays right when others write rows, as long
\* as they keep types.
LEMMA TypeElsewhere ==
    ASSUME NEW t \in SessionState, TypeKept(t), NEW R \in SUBSET Row,
           \A r \in Row \ R : users'[r] = users[r],
           \A r \in R : \/ users[r] = NoUser
                        \/ users[r] \in User
                           /\ (users'[r] = Gone \/ users'[r].type = users[r].type),
           NEW n, n.old = t.old, n.new = t.new
    PROVE  TypeKept(n)'
<1> SUFFICES ASSUME NEW r \in Row, t.old[r] # NoUser
             PROVE  users'[r] = Gone \/ users'[r].type = t.old[r].type
  BY DEF TypeKept
<1>1. t.old[r] \in User
  BY DEF SessionState
<1>2. t.old[r].type \in {"ldap", "local"} /\ NoUser.type = "none"
  BY <1>1 DEF User, NoUser
<1>3. users[r] = Gone \/ users[r].type = t.old[r].type
  BY DEF TypeKept
<1>4. NoUser # Gone
  BY DEF NoUser, Gone
<1>5. CASE users[r] = NoUser
  BY <1>2, <1>3, <1>4, <1>5
<1>6. CASE users[r] # NoUser
  BY <1>3, <1>6, NotUsers
<1>7. QED
  BY <1>5, <1>6

\* The step of a session on its own.
LEMMA OneTypeKept ==
    ASSUME Inv, TypeInv, NEW s \in Sync \cup SignIn, NEW n, TypeKept(n),
           session' = [session EXCEPT ![s] = n], users' = users
    PROVE  TypeInv'
<1>1. \A q \in Sync \cup SignIn : TypeKept(session'[q])
  BY DEF Inv, TypeOK, TypeInv
<1>2. QED
  BY <1>1 DEF TypeInv, TypeKept

\* A session whose rows were all loaded just now has changed none.
LEMMA JustLoaded ==
    ASSUME NEW n, n.new = n.old, \A r \in Row : n.old[r] \in {NoUser, users[r]}
    PROVE  TypeKept(n)
BY DEF TypeKept

LEMMA TypeMerge ==
    ASSUME Inv, TypeInv, NEW s \in Sync \cup SignIn,
           NEW next \in {"merging", "committing"}, MergeEntry(s, next)
    PROVE  TypeInv'
<1> DEFINE t == session[s]
<1>1. PICK i \in t.todo :
        session' = [session EXCEPT ![s] = MergeResult(s, i, next)]
  BY DEF MergeEntry, MergeResult
<1>2. PICK l : l = t.batch[i]
  OBVIOUS
<1>3. PICK n : n = MergeResult(s, i, next)
  OBVIOUS
<1>4. /\ SessionOK(n) /\ i \in LdapId /\ l \in Login
      /\ MergedNew(s, i, l, n) \/ \E r \in Match(i, l) : MergedRow(s, i, l, n, r)
  BY <1>2, <1>3, MergeShape
<1>5. t \in SessionState /\ SessionOK(t) /\ TypeKept(t) /\ TypeOK
  BY DEF Inv, SessionOK, TypeInv
<1>6. users' = users /\ session' = [session EXCEPT ![s] = n]
  BY <1>1, <1>2, <1>3 DEF MergeEntry
<1>7. CASE MergedNew(s, i, l, n)
  <2>1. TypeKept(n)
    BY <1>5, <1>7 DEF MergedNew, KeptRow, TypeKept
  <2>2. QED
    BY <1>6, <2>1, OneTypeKept
<1>8. ASSUME NEW r \in Match(i, l), MergedRow(s, i, l, n, r)
      PROVE  TypeInv'
  <2>1. r \in Row /\ users[r] \in User
    BY <1>4, <1>5, FoundIsUser
  <2>2. \A q \in Row \ {r} : n.old[q] # NoUser =>
          /\ users[q] = Gone \/ users[q].type = n.old[q].type
          /\ n.new[q].type = n.old[q].type
          /\ n.new[q] # n.old[q] => n.old[q].type = "ldap"
    BY <1>5, <1>8 DEF MergedRow, KeptRow, TypeKept
  <2>3. /\ Loaded(s, r) \in User /\ n.old[r] \in User
        /\ Loaded(s, r).type = n.old[r].type
        /\ users[r].type = n.old[r].type
        /\ Loaded(s, r) # n.old[r] => n.old[r].type = "ldap"
    BY <1>5, <1>8, <2>1, NotUsers DEF MergedRow, Loaded, TypeKept, SessionOK, LoadedTogether, SessionState
  <2>4. /\ Adopted(Loaded(s, r), i, l).type = Loaded(s, r).type
        /\ Loaded(s, r).type # "ldap" => Adopted(Loaded(s, r), i, l) = Loaded(s, r)
    BY <2>3 DEF Adopted, User
  <2>5. TypeKept(n)
    BY <1>8, <2>2, <2>3, <2>4 DEF MergedRow, TypeKept
  <2>6. QED
    BY <1>6, <2>5, OneTypeKept
<1>9. QED
  BY <1>4, <1>7, <1>8

LEMMA TypeDeactivate ==
    ASSUME Inv, TypeInv, NEW s \in Sync, DeactivateAbsent(s)
    PROVE  TypeInv'
<1> DEFINE t == session[s]
<1>1. PICK n \in SessionState :
        /\ session' = [session EXCEPT ![s] = n]
        /\ \A r \in Row : DeactivatedRow(s, n, r)
  BY DeactivateShape
<1>2. TypeKept(t)
  BY DEF TypeInv
<1>3. ASSUME NEW r \in Absent(t.seen)
      PROVE  users[r].type = n.old[r].type /\ n.new[r].type = "ldap" /\ n.old[r].type = "ldap"
  <2>1. r \in Row /\ users[r].type = "ldap"
    BY DEF Absent
  <2>2. /\ users[r] \in User /\ Loaded(s, r) \in User
        /\ n.new[r].type = Loaded(s, r).type
    BY <1>1, <2>1 DEF DeactivatedRow, User
  <2>3. t.old[r] # NoUser => t.old[r].type = "ldap" /\ t.new[r].type = "ldap"
    BY <1>2, <2>1, <2>2, NotUsers DEF TypeKept
  <2>4. QED
    BY <1>1, <2>1, <2>2, <2>3 DEF DeactivatedRow, Loaded
<1>4. TypeKept(n)
  BY <1>1, <1>2, <1>3 DEF DeactivatedRow, TypeKept
<1>5. QED
  BY <1>1, <1>4, OneTypeKept DEF DeactivateAbsent

\* The table is written.
LEMMA TypeWritten ==
    ASSUME Inv, TypeInv, NEW R \in SUBSET Row,
           \A r \in Row \ R : users'[r] = users[r],
           \A r \in R : \/ users[r] = NoUser
                        \/ users[r] \in User
                           /\ (users'[r] = Gone \/ users'[r].type = users[r].type),
           NEW q \in Sync \cup SignIn,
           session'[q] = Touched(R)[q] \/ session'[q] = Closed
    PROVE  TypeKept(session[q])'
<1>1. session[q] \in SessionState /\ TypeKept(session[q]) /\ DOMAIN session = Sync \cup SignIn
  BY DEF Inv, TypeOK, TypeInv
<1>2. CASE session'[q] = Closed
  BY <1>2, ClosedHoldsNothing DEF TypeKept
<1>3. CASE session'[q] = Touched(R)[q]
  <2>1. session'[q].old = session[q].old /\ session'[q].new = session[q].new
    BY <1>1, <1>3 DEF Touched, SessionState
  <2>2. \A n : n.old = session[q].old /\ n.new = session[q].new => TypeKept(n)'
    BY <1>1, TypeElsewhere
  <2>3. QED
    BY <2>1, <2>2 DEF TypeKept
<1>4. QED
  BY <1>2, <1>3

LEMMA TypeStep ==
    ASSUME "type" \notin AdminActions
    PROVE  Inv /\ TypeInv /\ [Next]_vars => TypeInv'
<1> SUFFICES ASSUME Inv, TypeInv, [Next]_vars
             PROVE  TypeInv'
  OBVIOUS
<1>1. CASE UNCHANGED vars
  BY <1>1 DEF vars, TypeInv, TypeKept
<1>2. ASSUME NEW s \in Sync \cup SignIn, CommitFails(s) \/ Refuse(s)
      PROVE  TypeInv'
  <2>1. TypeKept(Closed)
    BY ClosedHoldsNothing DEF TypeKept
  <2>2. QED
    BY <1>2, <2>1, OneTypeKept DEF CommitFails, Refuse
<1>3. ASSUME NEW s \in Sync, Fetch(s)
      PROVE  TypeInv'
  <2>1. PICK found \in SUBSET Found(directory) :
          session' = [session EXCEPT ![s] =
            [Closed EXCEPT !.pc = "fetched", !.todo = found,
               !.batch = [i \in LdapId |-> IF i \in found THEN directory[i] ELSE NoLogin]]]
    BY <1>3 DEF Fetch
  <2> DEFINE n == [Closed EXCEPT !.pc = "fetched", !.todo = found,
               !.batch = [i \in LdapId |-> IF i \in found THEN directory[i] ELSE NoLogin]]
  <2>2. n.old = Closed.old /\ n.new = Closed.new
    BY ClosedHoldsNothing DEF SessionState
  <2>3. TypeKept(n)
    BY <2>2, ClosedHoldsNothing DEF TypeKept
  <2>4. QED
    BY <1>3, <2>1, <2>3, OneTypeKept DEF Fetch
<1>4. ASSUME NEW s \in SignIn, NEW l \in Login, LookUp(s, l)
      PROVE  TypeInv'
  <2> DEFINE o == [r \in Row |-> IF r \in ByLogin(l) THEN users[r] ELSE NoUser]
             n == [Closed EXCEPT !.pc = "searching", !.typed = l, !.old = o, !.new = o]
  <2>1. session' = [session EXCEPT ![s] = n] /\ users' = users
    BY <1>4 DEF LookUp
  <2>2. n.old = o /\ n.new = o
    BY ClosedHoldsNothing DEF SessionState
  <2>3. TypeKept(n)
    BY <2>2, JustLoaded
  <2>4. QED
    BY <2>1, <2>3, OneTypeKept
<1>5. ASSUME NEW s \in SignIn, Search(s)
      PROVE  TypeInv'
  <2>1. session[s] \in SessionState /\ TypeKept(session[s])
    BY DEF Inv, TypeOK, TypeInv
  <2>2. PICK i \in Found(directory) :
          session' = [session EXCEPT ![s].pc = "fetched", ![s].todo = {i},
                                     ![s].batch = [NoEntries EXCEPT ![i] = directory[i]]]
    BY <1>5 DEF Search
  <2> DEFINE n == [session[s] EXCEPT !.pc = "fetched", !.todo = {i},
                                     !.batch = [NoEntries EXCEPT ![i] = directory[i]]]
  <2>3. session' = [session EXCEPT ![s] = n] /\ users' = users
    BY <1>5, <2>1, <2>2 DEF Inv, TypeOK, Search
  <2>4. n.old = session[s].old /\ n.new = session[s].new
    BY <2>1 DEF SessionState
  <2>5. TypeKept(n)
    BY <2>1, <2>4 DEF TypeKept
  <2>6. QED
    BY <2>3, <2>5, OneTypeKept
<1>6. ASSUME NEW s \in Sync \cup SignIn, Commit(s)
      PROVE  TypeInv'
  <2>1. PICK R \in SUBSET Row :
          /\ session' = [Touched(R) EXCEPT ![s] = Closed]
          /\ \A r \in Row \ R : users'[r] = users[r]
          /\ \A r \in R : \/ users[r] = NoUser
                          \/ users[r] \in User /\ r \in Dirty(s) /\ users'[r] = Updated(s, r)
    BY <1>6, CommitShape
  <2>2. \A r \in Dirty(s) : users[r] \in User => Updated(s, r).type = users[r].type
    <3>1. \A r \in Dirty(s) : r \in Row /\ session[s].old[r] # NoUser
      BY DEF Dirty
    <3>2. \A r \in Dirty(s) : session[s].new[r].type = session[s].old[r].type
      BY <3>1 DEF TypeInv, TypeKept
    <3>3. QED
      BY <3>2 DEF Updated, Column
  <2>3. \A q \in Sync \cup SignIn : session'[q] = Touched(R)[q] \/ session'[q] = Closed
    BY <2>1, TouchedOK
  <2>4. \A q \in Sync \cup SignIn : TypeKept(session[q])'
    BY <2>1, <2>2, <2>3, TypeWritten
  <2>5. QED
    BY <2>4 DEF TypeInv
<1>7. ASSUME \/ \E l \in Login, type \in {"ldap", "local"} : CreateUser(l, type)
             \/ \E r \in Row : UpdateUser(r) \/ DeleteUser(r)
      PROVE  TypeInv'
  <2>1. PICK r \in Row :
          /\ session' = Touched({r})
          /\ \A q \in Row \ {r} : users'[q] = users[q]
          /\ \/ users[r] = NoUser
             \/ users[r] \in User /\ (users'[r] = Gone \/ users'[r].type = users[r].type)
    BY <1>7, AdminShape
  <2>2. \A q \in Sync \cup SignIn : TypeKept(session[q])'
    BY <2>1, TypeWritten
  <2>3. QED
    BY <2>2 DEF TypeInv
<1>8. ASSUME NEW i \in LdapId, DirectoryChanges(i)
      PROVE  TypeInv'
  BY <1>8 DEF DirectoryChanges, TypeInv, TypeKept
<1>9. CASE Next
  BY <1>2, <1>3, <1>4, <1>5, <1>6, <1>7, <1>8, <1>9, TypeMerge, TypeDeactivate
     DEF Next, SyncStep, SyncEntry, Provision
<1>10. QED
  BY <1>1, <1>9

\* While nobody's type is changed, no batch and no sign-in writes a column of a
\* local user, however long ago it loaded the row.
THEOREM LocalUsersSpared ==
    ASSUME "type" \notin AdminActions
    PROVE  Spec => LocalUsersAreSpared
<1> DEFINE Spared == \A r \in Row, s \in DOMAIN session :
                       Commit(s) /\ users[r].type = "local" => users'[r] = users[r]
<1>1. Inv /\ TypeInv => [Spared]_vars
  <2> SUFFICES ASSUME Inv, TypeInv, NEW r \in Row, NEW s \in DOMAIN session,
                      Commit(s), users[r].type = "local"
               PROVE  users'[r] = users[r]
    OBVIOUS
  <2>1. s \in Sync \cup SignIn
    BY DEF Inv, TypeOK
  <2>2. PICK R \in SUBSET Row :
          /\ \A q \in Row \ R : users'[q] = users[q]
          /\ \A q \in R : users[q] = NoUser \/ q \in Dirty(s)
    BY <2>1, CommitShape
  <2>3. users[r] # NoUser /\ users[r] # Gone
    BY DEF NoUser, Gone
  <2>4. r \notin Dirty(s)
    BY <2>1, <2>3 DEF Dirty, TypeInv, TypeKept
  <2>5. QED
    BY <2>2, <2>3, <2>4
<1>2. Init => TypeInv
  BY ClosedHoldsNothing DEF Init, TypeInv, TypeKept
<1>3. QED
  BY <1>1, <1>2, TypeStep, InvAlways, PTL DEF Spec, LocalUsersAreSpared

-----------------------------------------------------------------------------
(* Entries and rows while every login belongs to one entry. *)

\* The users of two entries never clash, nor does a user with an empty row.
LEMMA OwnedApart ==
    ASSUME OneEntryPerLogin, NEW u, NEW v, Owned(u)
    PROVE  /\ u.id \in LdapId /\ u.id # NoId /\ u.login \in Login /\ u.login # NoLogin
           /\ Owned(v) /\ u.id # v.id => ~Clash(u, v)
           /\ v.id = NoId /\ v.login = NoLogin => ~Clash(u, v) /\ ~Clash(v, u)
BY KeyAssumption DEF Owned, OneEntryPerLogin, Clash

\* An entry finds no other row than its own.
LEMMA OwnMatch ==
    ASSUME OneEntryPerLogin, Inv, TableInv, NEW i \in LdapId, NEW l \in Names[i]
    PROVE  /\ \A r \in Match(i, l) : r \in Row /\ users[r] \in User /\ users[r].id = i
           /\ Match(i, l) = {} => \A r \in Row : users[r].id # i
<1>1. l \in Login /\ TypeOK
  BY KeyAssumption DEF Inv
<1>2. ASSUME NEW r \in Match(i, l)
      PROVE  r \in Row /\ users[r] \in User /\ users[r].id = i
  <2>1. r \in Row /\ users[r] \in User /\ (users[r].id = i \/ users[r].login = l)
    BY <1>1, FoundIsUser DEF Match, ById, ByLogin
  <2>2. Owned(users[r])
    BY <2>1 DEF TableInv
  <2>3. QED
    BY <2>1, <2>2 DEF Owned, OneEntryPerLogin
<1>3. Match(i, l) = {} => \A r \in Row : users[r].id # i
  BY DEF Match, ById
<1>4. QED
  BY <1>2, <1>3

LEMMA ClosedOwn == OwnOK(Closed)
<1>1. Found(Closed.batch) = {}
  BY ClosedHoldsNothing DEF Found, NoEntries
<1>2. BatchOK(Closed)
  BY <1>1, ClosedHoldsNothing DEF BatchOK, NoEntries
<1>3. RowsOK(Closed) /\ AddOK(Closed)
  BY ClosedHoldsNothing DEF RowsOK, RowOK, AddOK
<1>4. QED
  BY <1>2, <1>3 DEF OwnOK

\* The step of a session on its own.
LEMMA OneOwn ==
    ASSUME Inv, OwnInv, NEW s \in Sync \cup SignIn, NEW n, OwnOK(n),
           s \in Sync /\ n.pc = "committing" => n.todo = {} /\ AbsentOut(n),
           session' = [session EXCEPT ![s] = n], users' = users, directory' = directory
    PROVE  OwnInv'
<1>1. TableInv'
  BY DEF OwnInv, TableInv
<1>2. \A q \in Sync \cup SignIn : OwnOK(session'[q])
  BY DEF OwnInv, Inv, TypeOK
<1>3. \A q \in Sync \cup SignIn : OwnOK(session[q])'
  BY <1>2 DEF OwnOK, BatchOK, RowsOK, RowOK, AddOK
<1>4. \A q \in Sync : session'[q].pc = "committing" =>
        session'[q].todo = {} /\ AbsentOut(session'[q])
  BY DEF OwnInv, Inv, TypeOK
<1>5. \A q \in Sync : (session[q].pc = "committing" =>
                        session[q].todo = {} /\ AbsentOut(session[q]))'
  BY <1>4 DEF AbsentOut
<1>6. QED
  BY <1>1, <1>3, <1>5 DEF OwnInv

\* A session in which others have written rows R.
LEMMA OwnElsewhere ==
    ASSUME NEW t \in SessionState, OwnOK(t), NEW R \in SUBSET Row,
           \A r \in Row \ R : users'[r] = users[r],
           \A r \in R : \/ users[r] = NoUser
                        \/ users[r] \in User
                           /\ (users'[r] = Gone \/ users'[r].id = users[r].id),
           t.pc # "idle",
           NEW n, n.pc = t.pc, n.batch = t.batch, n.todo = t.todo, n.seen = t.seen,
           n.old = t.old, n.new = t.new, n.add = t.add, n.touched = t.touched \cup R
    PROVE  OwnOK(n)' /\ (AbsentOut(t) => AbsentOut(n)')
<1>1. BatchOK(n)'
  BY DEF OwnOK, BatchOK
<1>2. ASSUME NEW r \in Row
      PROVE  RowOK(n, r)'
  <2>1. RowOK(t, r)
    BY DEF OwnOK, RowsOK
  <2>2. t.old[r] # NoUser => users'[r] = Gone \/ users'[r].id = t.old[r].id
    <3>1. t.old[r] # NoUser => users[r] # NoUser
      BY <2>1, KeyAssumption DEF RowOK, Owned, NoUser, Gone
    <3>2. QED
      BY <2>1, <3>1, NotUsers DEF RowOK
  <2>3. r \notin n.touched => t.old[r] \in {NoUser, users'[r]}
    BY <2>1 DEF RowOK
  <2>4. QED
    BY <2>1, <2>2, <2>3 DEF RowOK
<1>3. AddOK(n)'
  <2>1. AddOK(t)
    BY DEF OwnOK
  <2>2. \A u \in t.add, r \in Row : users'[r].id = u.id => r \in n.touched
    BY <2>1 DEF AddOK
  <2>3. n.touched = {} => t.touched = {} /\ \A r \in Row : users'[r] = users[r]
    OBVIOUS
  <2>4. n.touched = {} => \A i \in n.seen :
          (\E u \in n.add : u.id = i) \/ (\E r \in Row : users'[r].id = i)
    BY <2>1, <2>3 DEF AddOK
  <2>5. QED
    BY <2>1, <2>2, <2>4 DEF AddOK
<1>4. AbsentOut(t) => AbsentOut(n)'
  BY DEF AbsentOut
<1>5. RowsOK(n)'
  BY <1>2 DEF RowsOK
<1>6. QED
  BY <1>1, <1>3, <1>4, <1>5 DEF OwnOK

\* The sessions once the table is written.
LEMMA OwnWritten ==
    ASSUME Inv, OwnInv, NEW R \in SUBSET Row,
           \A r \in Row \ R : users'[r] = users[r],
           \A r \in R : \/ users[r] = NoUser
                        \/ users[r] \in User
                           /\ (users'[r] = Gone \/ users'[r].id = users[r].id),
           NEW q \in Sync \cup SignIn,
           session'[q] = Touched(R)[q] \/ session'[q] = Closed
    PROVE  /\ OwnOK(session[q])'
           /\ q \in Sync => (session[q].pc = "committing" =>
                              session[q].todo = {} /\ AbsentOut(session[q]))'
<1>1. session[q] \in SessionState /\ OwnOK(session[q]) /\ DOMAIN session = Sync \cup SignIn
  BY DEF Inv, TypeOK, OwnInv
<1>2. CASE session'[q] = Closed
  <2>1. OwnOK(Closed)'
    BY ClosedHoldsNothing, ClosedOwn DEF OwnOK, BatchOK, RowsOK, RowOK, AddOK
  <2>2. OwnOK(session[q])'
    BY <1>2, <2>1 DEF OwnOK, BatchOK, RowsOK, RowOK, AddOK
  <2>3. QED
    BY <1>2, <2>2, ClosedHoldsNothing
<1>3. CASE session'[q] = Touched(R)[q] /\ session[q].pc = "idle"
  <2>1. session'[q] = Closed
    BY <1>1, <1>3 DEF Touched, OwnOK, BatchOK
  <2>2. QED
    BY <1>2, <2>1
<1>4. CASE session'[q] = Touched(R)[q] /\ session[q].pc # "idle"
  <2>1. session'[q] = [session[q] EXCEPT !.touched = @ \cup R]
    BY <1>1, <1>4 DEF Touched
  <2>2. PICK t \in SessionState : t = session[q]
    BY <1>1
  <2>3. PICK n : n = session'[q]
    OBVIOUS
  <2>4. /\ n.pc = t.pc /\ n.batch = t.batch /\ n.todo = t.todo /\ n.seen = t.seen
        /\ n.old = t.old /\ n.new = t.new /\ n.add = t.add /\ n.touched = t.touched \cup R
    BY <2>1, <2>2, <2>3 DEF SessionState
  <2>5. OwnOK(n)' /\ (AbsentOut(t) => AbsentOut(n)')
    BY <1>1, <1>4, <2>2, <2>4, OwnElsewhere
  <2>6. OwnOK(session[q])'
    BY <2>3, <2>5
  <2>7. q \in Sync => (n.pc = "committing" => n.todo = {} /\ AbsentOut(n)')
    BY <2>2, <2>4, <2>5 DEF OwnInv
  <2>8. QED
    BY <2>3, <2>6, <2>7
<1>5. QED
  BY <1>2, <1>3, <1>4

\* A fetched batch has nothing loaded.
LEMMA OwnFetch ==
    ASSUME Inv, OwnInv, NEW s \in Sync, Fetch(s)
    PROVE  OwnInv'
<1>1. PICK found \in SUBSET Found(directory) :
        session' = [session EXCEPT ![s] =
          [Closed EXCEPT !.pc = "fetched", !.todo = found,
             !.batch = [i \in LdapId |-> IF i \in found THEN directory[i] ELSE NoLogin]]]
  BY DEF Fetch
<1> DEFINE b == [i \in LdapId |-> IF i \in found THEN directory[i] ELSE NoLogin]
           n == [Closed EXCEPT !.pc = "fetched", !.todo = found, !.batch = b]
<1>2. /\ n.pc = "fetched" /\ n.todo = found /\ n.batch = b /\ n.seen = {} /\ n.add = {}
      /\ n.touched = {} /\ \A r \in Row : n.old[r] = NoUser
  BY ClosedHoldsNothing DEF SessionState
<1>3. Found(b) = found
  BY DEF Found
<1>4. \A i \in LdapId : b[i] \in Names[i] \cup {NoLogin}
  BY DEF OwnInv, TableInv
<1>5. session' = [session EXCEPT ![s] = n] /\ users' = users /\ directory' = directory
  BY <1>1 DEF Fetch
<1> HIDE DEF n, b
<1>6. BatchOK(n)
  BY <1>2, <1>3, <1>4 DEF BatchOK
<1>7. RowsOK(n) /\ AddOK(n)
  BY <1>2 DEF RowsOK, RowOK, AddOK
<1>8. QED
  BY <1>2, <1>5, <1>6, <1>7, OneOwn DEF OwnOK

\* The rows a sign-in starts with belong to their entries.
LEMMA OwnLookUp ==
    ASSUME Inv, OwnInv, NEW s \in SignIn, NEW l \in Login, LookUp(s, l)
    PROVE  OwnInv'
<1> DEFINE o == [r \in Row |-> IF r \in ByLogin(l) THEN users[r] ELSE NoUser]
           n == [Closed EXCEPT !.pc = "searching", !.typed = l, !.old = o, !.new = o]
<1>1. session' = [session EXCEPT ![s] = n] /\ users' = users /\ directory' = directory
  BY DEF LookUp
<1>2. /\ n.pc = "searching" /\ n.todo = {} /\ n.batch = NoEntries /\ n.seen = {}
      /\ n.add = {} /\ n.touched = {} /\ n.old = o /\ n.new = o
  BY ClosedHoldsNothing DEF SessionState
<1>3. \A r \in ByLogin(l) : r \in Row /\ users[r] \in User
  BY KeyAssumption, NotUsers DEF ByLogin, Inv, TypeOK
<1>4. \A r \in Row : o[r] = NoUser \/ (o[r] = users[r] /\ Owned(users[r]))
  BY <1>3 DEF OwnInv, TableInv
<1>5. Found(NoEntries) = {}
  BY DEF Found, NoEntries
<1> HIDE DEF n, o
<1>6. BatchOK(n)
  BY <1>2, <1>5 DEF BatchOK, NoEntries
<1>7. RowsOK(n) /\ AddOK(n)
  BY <1>2, <1>4, <1>5 DEF RowsOK, RowOK, AddOK
<1>8. s \notin Sync
  BY SessionAssumption
<1>9. QED
  BY <1>1, <1>6, <1>7, <1>8, OneOwn DEF OwnOK

\* The entry found becomes a batch of one.
LEMMA OwnSearch ==
    ASSUME Inv, OwnInv, NEW s \in SignIn, Search(s)
    PROVE  OwnInv'
<1> DEFINE t == session[s]
<1>1. PICK i \in Found(directory) :
        session' = [session EXCEPT ![s].pc = "fetched", ![s].todo = {i},
                                   ![s].batch = [NoEntries EXCEPT ![i] = directory[i]]]
  BY DEF Search
<1>2. t \in SessionState /\ OwnOK(t) /\ t.pc = "searching" /\ TypeOK
  BY DEF Inv, TypeOK, OwnInv, Search
<1>3. i \in LdapId /\ directory[i] \in Names[i] /\ directory[i] # NoLogin
  BY DEF Found, OwnInv, TableInv
<1> DEFINE b == [NoEntries EXCEPT ![i] = directory[i]]
           n == [t EXCEPT !.pc = "fetched", !.todo = {i}, !.batch = b]
<1>4. Found(b) = {i} /\ \A j \in LdapId : b[j] \in Names[j] \cup {NoLogin}
  BY <1>3 DEF Found, NoEntries
<1>5. /\ n.pc = "fetched" /\ n.todo = {i} /\ n.batch = b /\ n.seen = t.seen
      /\ n.old = t.old /\ n.new = t.new /\ n.add = t.add /\ n.touched = t.touched
  BY <1>2 DEF SessionState
<1>6. session' = [session EXCEPT ![s] = n] /\ users' = users /\ directory' = directory
  BY <1>1, <1>2 DEF TypeOK, Search
<1> HIDE DEF n, b
<1>7. t.seen = {} /\ t.new = t.old
  BY <1>2 DEF OwnOK, BatchOK
<1>8. BatchOK(n)
  BY <1>4, <1>5, <1>7 DEF BatchOK
<1>9. RowsOK(n)
  BY <1>2, <1>5, <1>7 DEF OwnOK, RowsOK, RowOK
<1>10. AddOK(n)
  BY <1>2, <1>5 DEF OwnOK, AddOK
<1>11. QED
  BY <1>5, <1>6, <1>8, <1>9, <1>10, OneOwn DEF OwnOK

\* A merged entry is found in its own row, or becomes a user of its own.
LEMMA OwnMerge ==
    ASSUME OneEntryPerLogin, Inv, OwnInv, NEW s \in Sync \cup SignIn,
           NEW next \in {"merging", "committing"}, MergeEntry(s, next),
           s \in Sync => next = "merging"
    PROVE  OwnInv'
<1> DEFINE t == session[s]
<1>1. PICK i \in t.todo :
        session' = [session EXCEPT ![s] = MergeResult(s, i, next)]
  BY DEF MergeEntry, MergeResult
<1>2. PICK l : l = t.batch[i]
  OBVIOUS
<1>3. PICK n : n = MergeResult(s, i, next)
  OBVIOUS
<1>4. /\ i \in LdapId /\ l \in Login
      /\ n.pc = next /\ n.batch = t.batch /\ n.todo = t.todo \ {i} /\ n.touched = t.touched
      /\ \/ Match(i, l) = {} /\ MergedNew(s, i, l, n)
         \/ \E r \in Match(i, l) : MergedRow(s, i, l, n, r)
  BY <1>2, <1>3, MergeShape
<1>5. t \in SessionState /\ SessionOK(t) /\ OwnOK(t) /\ TypeOK /\ TableInv
  BY DEF Inv, SessionOK, OwnInv
<1>6. /\ session' = [session EXCEPT ![s] = n] /\ users' = users /\ directory' = directory
      /\ s \in Sync => n.pc # "committing"
  BY <1>1, <1>3, <1>4 DEF MergeEntry
<1>7. l \in Names[i] /\ i \in Found(t.batch) /\ i \notin t.seen
  BY <1>2, <1>4, <1>5, KeyAssumption DEF OwnOK, BatchOK
<1>8. n.seen = t.seen \cup {i} => BatchOK(n)
  BY <1>4, <1>5, <1>7 DEF OwnOK, BatchOK
<1>9. \A q \in Row : KeptRow(t, n, q) => RowOK(n, q)
  BY <1>4, <1>5 DEF KeptRow, OwnOK, RowsOK, RowOK
<1>10. CASE Match(i, l) = {} /\ MergedNew(s, i, l, n)
  <2>1. Created(i, l).id = i /\ Owned(Created(i, l))
    BY <1>4, <1>7 DEF Created, Owned
  <2>2. /\ n.add = t.add \cup {Created(i, l)} /\ n.seen = t.seen \cup {i}
        /\ RowsOK(n)
    BY <1>9, <1>10, <2>1 DEF MergedNew, RowsOK
  <2>3. \A r \in Row : users[r].id # i
    BY <1>4, <1>5, <1>7, <1>10, OwnMatch
  <2>4. AddOK(n)
    BY <1>4, <1>5, <1>7, <2>1, <2>2, <2>3 DEF OwnOK, AddOK
  <2>5. QED
    BY <1>6, <1>8, <2>2, <2>4, OneOwn DEF OwnOK
<1>11. ASSUME NEW r \in Match(i, l), MergedRow(s, i, l, n, r)
       PROVE  OwnInv'
  <2>1. r \in Row /\ users[r] \in User /\ users[r].id = i
    BY <1>4, <1>5, <1>7, OwnMatch
  <2>2. users[r] # Gone /\ users[r] # NoUser /\ Owned(users[r])
    BY <1>5, <2>1, NotUsers DEF TableInv
  <2>3. RowOK(t, r)
    BY <1>5, <2>1 DEF OwnOK, RowsOK
  <2>4. /\ n.old[r] # NoUser /\ n.old[r].id = i /\ Owned(n.old[r])
        /\ Loaded(s, r) \in User /\ Loaded(s, r).id = i /\ Owned(Loaded(s, r))
        /\ Loaded(s, r).type = n.old[r].type
        /\ Loaded(s, r).active \/ ~n.old[r].active
        /\ r \notin t.touched => n.old[r] = users[r]
    <3>1. CASE t.old[r] = NoUser
      BY <1>11, <2>1, <2>2, <3>1 DEF MergedRow, Loaded
    <3>2. CASE t.old[r] # NoUser
      <4>1. t.new[r] \in User
        BY <1>5, <2>1, <3>2 DEF SessionOK, LoadedTogether, SessionState
      <4>2. QED
        BY <1>7, <1>11, <2>1, <2>2, <2>3, <3>2, <4>1 DEF MergedRow, Loaded, RowOK
    <3>3. QED
      BY <3>1, <3>2
  <2>5. /\ n.new[r] = Adopted(Loaded(s, r), i, l)
        /\ n.new[r].id = i /\ n.new[r].active = Loaded(s, r).active
        /\ n.new[r].type = Loaded(s, r).type
        /\ n.new[r].login \in {l, Loaded(s, r).login}
    BY <1>11, <2>4 DEF MergedRow, Adopted, User
  <2>6. RowOK(n, r)
    BY <1>4, <1>7, <2>1, <2>4, <2>5 DEF RowOK, Owned
  <2>7. RowsOK(n)
    BY <1>9, <1>11, <2>6 DEF MergedRow, RowsOK
  <2>8. n.seen = t.seen \cup {i} /\ n.add = t.add
    BY <1>11, <2>5 DEF MergedRow
  <2>9. AddOK(n)
    BY <1>4, <1>5, <2>1, <2>8 DEF OwnOK, AddOK
  <2>10. QED
    BY <1>6, <1>8, <2>7, <2>8, <2>9, OneOwn DEF OwnOK
<1>12. QED
  BY <1>4, <1>10, <1>11

\* The batch deactivates whom it has not seen, and nobody else.
LEMMA OwnDeactivate ==
    ASSUME OneEntryPerLogin, Inv, OwnInv, NEW s \in Sync, DeactivateAbsent(s)
    PROVE  OwnInv'
<1> DEFINE t == session[s]
           out == Absent(t.seen)
<1>1. PICK n \in SessionState :
        /\ session' = [session EXCEPT ![s] = n]
        /\ t.todo = {} /\ t.pc = "merging" /\ n.pc = "committing"
        /\ n.batch = t.batch /\ n.todo = t.todo /\ n.seen = t.seen
        /\ n.add = t.add /\ n.touched = t.touched
        /\ \A r \in Row : DeactivatedRow(s, n, r)
  BY DeactivateShape
<1>2. t \in SessionState /\ OwnOK(t) /\ TypeOK /\ TableInv
  BY DEF Inv, TypeOK, OwnInv
<1>3. t.seen = Found(t.batch) /\ t.seen \subseteq LdapId /\ NoId \notin t.seen
  BY <1>1, <1>2, KeyAssumption DEF OwnOK, BatchOK, Found
<1>4. ASSUME NEW r \in Row
      PROVE  RowOK(n, r)
  <2>1. RowOK(t, r) /\ DeactivatedRow(s, n, r)
    BY <1>1, <1>2 DEF OwnOK, RowsOK
  <2>2. CASE r \notin out
    BY <1>1, <2>1, <2>2 DEF DeactivatedRow, RowOK
  <2>3. CASE r \in out
    <3>1. /\ n.old[r] = IF t.old[r] = NoUser THEN users[r] ELSE t.old[r]
          /\ n.new[r] = [Loaded(s, r) EXCEPT !.active = FALSE]
          /\ Loaded(s, r) \in User /\ users[r] \in User
      BY <2>1, <2>3 DEF DeactivatedRow
    <3>2. /\ n.new[r].id = Loaded(s, r).id /\ n.new[r].login = Loaded(s, r).login
          /\ n.new[r].type = Loaded(s, r).type
      BY <3>1 DEF User
    <3>3. /\ Owned(users[r]) /\ users[r] # NoUser /\ users[r] # Gone
          /\ users[r].id \notin Found(t.batch)
      BY <1>2, <1>3, <2>3, <3>1, NotUsers DEF TableInv, Absent
    <3>4. /\ Owned(n.old[r]) /\ Owned(Loaded(s, r)) /\ Loaded(s, r).id = n.old[r].id
          /\ n.old[r].id = users[r].id /\ Loaded(s, r).type = n.old[r].type
          /\ r \notin t.touched => n.old[r] = users[r]
      BY <2>1, <3>1, <3>3 DEF RowOK, Loaded
    <3>5. Owned(n.new[r])
      BY <3>2, <3>4 DEF Owned
    <3>6. QED
      BY <1>1, <3>2, <3>3, <3>4, <3>5 DEF RowOK
  <2>4. QED
    BY <2>2, <2>3
<1>5. BatchOK(n) /\ AddOK(n)
  BY <1>1, <1>2 DEF OwnOK, BatchOK, AddOK
<1>6. AbsentOut(n)
  <2> SUFFICES ASSUME NEW r \in Row \ t.touched, users[r].type = "ldap", users[r].active,
                      users[r].id \notin t.seen
               PROVE  n.old[r] # NoUser /\ ~n.new[r].active
    BY <1>1 DEF AbsentOut
  <2>1. users[r] \in User
    BY <1>2, NotUsers DEF TypeOK
  <2>2. users[r].id # NoId
    BY <1>2, <2>1, KeyAssumption DEF TableInv, Owned
  <2>3. r \in out
    BY <1>3, <2>2 DEF Absent
  <2>4. DeactivatedRow(s, n, r)
    BY <1>1
  <2>5. QED
    BY <2>1, <2>3, <2>4, NotUsers DEF DeactivatedRow
<1>7. users' = users /\ directory' = directory
  BY DEF DeactivateAbsent
<1>8. QED
  BY <1>1, <1>4, <1>5, <1>6, <1>7, OneOwn DEF OwnOK, RowsOK

\* A commit leaves every user to his entry.
LEMMA OwnUpdated ==
    ASSUME Inv, OwnInv, NEW s \in Sync \cup SignIn, NEW r \in Dirty(s), users[r] \in User
    PROVE  /\ Updated(s, r).id = users[r].id /\ Owned(Updated(s, r))
           /\ Updated(s, r).type = users[r].type
           /\ session[s].old[r].id = users[r].id
           /\ Updated(s, r) \in User
<1>1. r \in Row /\ session[s].old[r] # NoUser
  BY DEF Dirty
<1>2. /\ Owned(session[s].new[r]) /\ Owned(users[r]) /\ users[r] # Gone
      /\ session[s].new[r].id = session[s].old[r].id
      /\ session[s].new[r].type = session[s].old[r].type
      /\ users[r].id = session[s].old[r].id
  BY <1>1, NotUsers DEF OwnInv, OwnOK, RowsOK, RowOK, TableInv
<1>3. Updated(s, r) \in User
  BY UpdatedType DEF Inv
<1>4. /\ Updated(s, r).id = users[r].id /\ Updated(s, r).type = users[r].type
      /\ Updated(s, r).login \in {users[r].login, session[s].new[r].login}
  BY <1>2 DEF Updated, Column
<1>5. QED
  BY <1>2, <1>3, <1>4 DEF Owned

LEMMA OwnCommit ==
    ASSUME OneEntryPerLogin, Inv, OwnInv, NEW s \in Sync \cup SignIn, Commit(s)
    PROVE  OwnInv'
<1>1. PICK R \in SUBSET Row :
        /\ session' = [Touched(R) EXCEPT ![s] = Closed] /\ directory' = directory
        /\ \A r \in Row \ R : users'[r] = users[r]
        /\ Dirty(s) \subseteq R
        /\ \A r \in R : \/ users[r] = NoUser /\ users'[r] \in session[s].add
                        \/ users[r] \in User /\ r \in Dirty(s) /\ users'[r] = Updated(s, r)
        /\ \A r, q \in R :
             users[r] = NoUser /\ users[q] = NoUser /\ users'[r] = users'[q] => r = q
  BY CommitShape
<1>2. /\ TypeOK /\ TableInv /\ AddOK(session[s])
      /\ session[s] \in SessionState /\ UpdatesPass(s) /\ InsertsPass(s)
  BY DEF Inv, TypeOK, OwnInv, OwnOK, Commit
<1> DEFINE New == {r \in R : users[r] = NoUser}
<1>3. \A r \in New : r \in Row /\ users'[r] \in session[s].add /\ Owned(users'[r])
  BY <1>1, <1>2, NotUsers DEF AddOK
<1>4. \A r \in Row \ New : /\ users'[r].id = users[r].id
                           /\ users'[r] \in User => users[r] \in User /\ Owned(users'[r])
                           /\ users'[r] = Flushed(s, Row)[r]
  <2> SUFFICES ASSUME NEW r \in Row \ New
               PROVE  /\ users'[r].id = users[r].id
                      /\ users'[r] \in User => users[r] \in User /\ Owned(users'[r])
                      /\ users'[r] = Flushed(s, Row)[r]
    OBVIOUS
  <2>1. CASE r \in R
    <3>1. users[r] \in User /\ r \in Dirty(s) /\ users'[r] = Updated(s, r)
      BY <1>1, <2>1
    <3>2. QED
      BY <3>1, OwnUpdated DEF Flushed
  <2>2. CASE r \notin R
    BY <1>1, <1>2, <2>2 DEF Flushed, TableInv
  <2>3. QED
    BY <2>1, <2>2
<1>5. \A r \in Row : users'[r] \in User => Owned(users'[r])
  BY <1>3, <1>4
<1>6. ASSUME NEW r \in Row, NEW q \in Row, users'[r] \in User, users'[r].id = users'[q].id
      PROVE  r = q
  <2>1. users'[r].id # NoId
    BY <1>5, <1>6, KeyAssumption DEF Owned
  <2>2. CASE r \in New /\ q \in New
    <3>1. users'[r] \in session[s].add /\ users'[q] \in session[s].add
      BY <1>3, <2>2
    <3>2. users'[r] = users'[q]
      BY <1>2, <1>6, <2>1, <3>1 DEF InsertsPass, Clash
    <3>3. QED
      BY <1>1, <2>2, <3>2
  <2>3. CASE r \in New /\ q \notin New
    <3>1. users'[r] \in session[s].add /\ users'[q] = Flushed(s, Row)[q]
      BY <1>3, <1>4, <2>3
    <3>2. ~Clash(users'[r], users'[q])
      BY <1>2, <3>1 DEF InsertsPass
    <3>3. QED
      BY <1>6, <2>1, <3>2 DEF Clash
  <2>4. CASE r \notin New /\ q \in New
    <3>1. users'[q] \in session[s].add /\ users'[r] = Flushed(s, Row)[r]
      BY <1>3, <1>4, <2>4
    <3>2. ~Clash(users'[q], users'[r])
      BY <1>2, <3>1 DEF InsertsPass
    <3>3. QED
      BY <1>6, <2>1, <3>2 DEF Clash
  <2>5. CASE r \notin New /\ q \notin New
    BY <1>2, <1>4, <1>6, <2>5 DEF TableInv
  <2>6. QED
    BY <2>2, <2>3, <2>4, <2>5
<1>7. TableInv'
  BY <1>1, <1>2, <1>5, <1>6 DEF TableInv
<1>8. \A r \in R : \/ users[r] = NoUser
                   \/ users[r] \in User
                      /\ (users'[r] = Gone \/ users'[r].id = users[r].id)
  BY <1>1, <1>4
<1>9. \A q \in Sync \cup SignIn : session'[q] = Touched(R)[q] \/ session'[q] = Closed
  BY <1>1, TouchedOK
<1>10. \A q \in Sync \cup SignIn :
         /\ OwnOK(session[q])'
         /\ q \in Sync => (session[q].pc = "committing" =>
                            session[q].todo = {} /\ AbsentOut(session[q]))'
  BY <1>1, <1>8, <1>9, OwnWritten
<1>11. QED
  BY <1>7, <1>10 DEF OwnInv

\* The administrator, who creates nobody.
LEMMA OwnAdmin ==
    ASSUME "create" \notin AdminActions, Inv, OwnInv,
           \/ \E l \in Login, type \in {"ldap", "local"} : CreateUser(l, type)
           \/ \E r \in Row : UpdateUser(r) \/ DeleteUser(r)
    PROVE  OwnInv'
<1>1. PICK r \in Row :
        /\ session' = Touched({r}) /\ directory' = directory
        /\ \A q \in Row \ {r} : users'[q] = users[q]
        /\ users[r] \in User
        /\ \/ users'[r] = Gone
           \/ users'[r] \in User /\ users'[r].id = users[r].id
              /\ users'[r].login = users[r].login
  BY AdminShape
<1>2. TableInv
  BY DEF OwnInv
<1>3. \A q \in Row : /\ users'[q] \in User => users[q] \in User /\ Owned(users'[q])
                     /\ users'[q].id \in {users[q].id, NoId}
  BY <1>1, <1>2, NotUsers DEF TableInv, Owned
<1>4. TableInv'
  <2>1. \A p \in Row : users'[p] \in User => users'[p].id \in LdapId
    BY <1>3 DEF Owned
  <2>2. \A p, q \in Row : users'[p] \in User /\ users'[p].id = users'[q].id => p = q
    BY <1>2, <1>3, <2>1, KeyAssumption DEF TableInv
  <2>3. QED
    BY <1>1, <1>2, <1>3, <2>2 DEF TableInv
<1>5. \A q \in Sync \cup SignIn :
         /\ OwnOK(session[q])'
         /\ q \in Sync => (session[q].pc = "committing" =>
                            session[q].todo = {} /\ AbsentOut(session[q]))'
  BY <1>1, OwnWritten
<1>6. QED
  BY <1>4, <1>5 DEF OwnInv

LEMMA OwnDirectory ==
    ASSUME Inv, OwnInv, NEW i \in LdapId, DirectoryChanges(i)
    PROVE  OwnInv'
<1>1. PICK l \in Names[i] \cup {NoLogin} : directory' = [directory EXCEPT ![i] = l]
  BY DEF DirectoryChanges
<1>2. users' = users /\ session' = session /\ TypeOK
  BY DEF DirectoryChanges, Inv
<1>3. TableInv'
  BY <1>1, <1>2 DEF OwnInv, TableInv, TypeOK, Entries
<1>4. QED
  BY <1>2, <1>3 DEF OwnInv, OwnOK, BatchOK, RowsOK, RowOK, AddOK, AbsentOut

LEMMA OwnInit == Init => OwnInv
<1> SUFFICES ASSUME Init
             PROVE  OwnInv
  OBVIOUS
<1>1. TableInv
  BY NotUsers DEF Init, TableInv, NoEntries
<1>2. \A s \in Sync \cup SignIn : session[s] = Closed
  BY DEF Init
<1>3. QED
  BY <1>1, <1>2, ClosedOwn, ClosedHoldsNothing DEF OwnInv

LEMMA OwnStep ==
    ASSUME OneEntryPerLogin, "create" \notin AdminActions
    PROVE  Inv /\ OwnInv /\ [Next]_vars => OwnInv'
<1> SUFFICES ASSUME Inv, OwnInv, [Next]_vars
             PROVE  OwnInv'
  OBVIOUS
<1>1. CASE UNCHANGED vars
  BY <1>1 DEF vars, OwnInv, TableInv, OwnOK, BatchOK, RowsOK, RowOK, AddOK, AbsentOut
<1>2. ASSUME NEW s \in Sync \cup SignIn, CommitFails(s) \/ Refuse(s)
      PROVE  OwnInv'
  BY <1>2, ClosedOwn, ClosedHoldsNothing, OneOwn DEF CommitFails, Refuse
<1>3. ASSUME NEW s \in Sync, SyncEntry(s)
      PROVE  OwnInv'
  BY <1>3, OwnMerge DEF SyncEntry
<1>4. ASSUME NEW s \in SignIn, Provision(s)
      PROVE  OwnInv'
  BY <1>4, OwnMerge, SessionAssumption DEF Provision
<1>5. CASE Next
  BY <1>2, <1>3, <1>4, <1>5, OwnFetch, OwnLookUp, OwnSearch, OwnDeactivate, OwnCommit,
     OwnAdmin, OwnDirectory
     DEF Next, SyncStep
<1>6. QED
  BY <1>1, <1>5

LEMMA OwnAlways ==
    ASSUME OneEntryPerLogin, "create" \notin AdminActions
    PROVE  Spec => [](Inv /\ OwnInv)
BY OwnInit, OwnStep, InvAlways, PTL DEF Spec

\* While every login belongs to one entry and the administrator creates nobody,
\* a batch that nothing was committed beside commits: no UPDATE, in the order
\* of the keys, and no INSERT meets a login or an ldap_id twice.
THEOREM AloneBatchCommitsAlways ==
    ASSUME OneEntryPerLogin, "create" \notin AdminActions
    PROVE  Spec => []AloneBatchCommits
<1>1. Inv /\ OwnInv => AloneBatchCommits
  <2> SUFFICES ASSUME Inv, OwnInv, NEW s \in Sync, session[s].touched = {}
               PROVE  UpdatesPass(s) /\ InsertsPass(s)
    BY DEF AloneBatchCommits
  <2> DEFINE t == session[s]
  <2>1. /\ SessionOK(t) /\ t \in SessionState /\ TypeOK /\ TableInv
        /\ RowsOK(t) /\ AddOK(t)
    BY DEF Inv, SessionOK, OwnInv, OwnOK
  <2>2. \A r \in Dirty(s) : r \in Row /\ users[r] \in User
    BY <2>1 DEF Dirty, RowsOK, RowOK, SessionState
  <2>3. ASSUME NEW R \in SUBSET Row, NEW r \in Row
        PROVE  /\ Flushed(s, R)[r].id = users[r].id
               /\ users[r] \in User => Owned(Flushed(s, R)[r])
               /\ users[r] \notin User => Flushed(s, R)[r].login = NoLogin
                                          /\ users[r].id = NoId
    <3>1. CASE r \in Dirty(s) \cap R
      BY <2>2, <3>1, OwnUpdated DEF Flushed
    <3>2. CASE r \notin Dirty(s) \cap R
      BY <2>1, <3>2, NotUsers DEF Flushed, TableInv, TypeOK
    <3>3. QED
      BY <3>1, <3>2
  <2>4. UpdatesPass(s)
    <3> SUFFICES ASSUME NEW r \in Dirty(s), NEW q \in Row \ {r}
                 PROVE  ~Clash(Flushed(s, {p \in Row : p <= r})[r],
                               Flushed(s, {p \in Row : p <= r})[q])
      BY <2>2 DEF UpdatesPass
    <3>1. PICK R \in SUBSET Row : R = {p \in Row : p <= r}
      OBVIOUS
    <3>2. r \in Row /\ users[r] \in User /\ users[q].id # users[r].id
      BY <2>1, <2>2 DEF TableInv
    <3>3. ~Clash(Flushed(s, R)[r], Flushed(s, R)[q])
      BY <2>3, <3>2, OwnedApart
    <3>4. QED
      BY <3>1, <3>3
  <2>5. InsertsPass(s)
    <3>1. ASSUME NEW u \in t.add, NEW r \in Row
          PROVE  ~Clash(u, Flushed(s, Row)[r])
      <4>1. Owned(u) /\ users[r].id # u.id
        BY <2>1 DEF AddOK
      <4>2. QED
        BY <2>3, <4>1, OwnedApart
    <3>2. ASSUME NEW u \in t.add, NEW v \in t.add \ {u}
          PROVE  ~Clash(u, v)
      <4>1. Owned(u) /\ Owned(v) /\ u.id # v.id
        BY <2>1 DEF AddOK
      <4>2. QED
        BY <4>1, OwnedApart
    <3>3. QED
      BY <3>1, <3>2 DEF InsertsPass
  <2>6. QED
    BY <2>4, <2>5
<1>2. QED
  BY <1>1, OwnAlways, PTL

\* What a batch commits, row by row.
LEMMA CompletesShape ==
    ASSUME Inv, OwnInv, NEW s \in Sync, Completes(s), NEW r \in Row
    PROVE  \/ users[r] = NoUser /\ users'[r] \in session[s].add
           \/ users[r] \in User /\ r \in Dirty(s) /\ users'[r] = Updated(s, r)
           \/ r \notin Dirty(s) /\ users'[r] = users[r]
<1>1. PICK R \in SUBSET Row :
        /\ \A q \in Row \ R : users'[q] = users[q]
        /\ Dirty(s) \subseteq R
        /\ \A q \in R : \/ users[q] = NoUser /\ users'[q] \in session[s].add
                        \/ users[q] \in User /\ q \in Dirty(s) /\ users'[q] = Updated(s, q)
  BY CommitShape DEF Completes
<1>2. QED
  BY <1>1

\* After a batch no active ldap user stands for somebody the batch did not find,
\* but in rows that others have written meanwhile.
THEOREM AbsentDeactivated ==
    ASSUME OneEntryPerLogin, "create" \notin AdminActions
    PROVE  Spec => AbsentAreDeactivated
<1> DEFINE Out == \A s \in Sync, r \in Row :
         Completes(s) /\ r \notin session[s].touched
           /\ users'[r].type = "ldap" /\ users'[r].active =>
             users'[r].id \in Found(session[s].batch) \cup {NoId}
<1>1. Inv /\ OwnInv => [Out]_vars
  <2> SUFFICES ASSUME Inv, OwnInv, NEW s \in Sync, NEW r \in Row, Completes(s),
                      r \notin session[s].touched,
                      users'[r].type = "ldap", users'[r].active
               PROVE  users'[r].id \in Found(session[s].batch) \cup {NoId}
    OBVIOUS
  <2> DEFINE t == session[s]
  <2>1. /\ SessionOK(t) /\ t \in SessionState /\ AbsentOut(t) /\ RowOK(t, r) /\ AddOK(t)
        /\ t.seen = Found(t.batch)
    BY DEF Completes, Inv, SessionOK, OwnInv, OwnOK, RowsOK, BatchOK
  <2>2. CASE users'[r] \in t.add
    BY <2>1, <2>2 DEF AddOK
  <2>3. CASE r \notin Dirty(s) /\ users'[r] = users[r]
    <3>1. t.old[r] # NoUser => t.new[r] = users[r]
      BY <2>1, <2>3 DEF Dirty, RowOK
    <3>2. QED
      BY <2>1, <2>3, <3>1 DEF AbsentOut
  <2>4. CASE users[r] \in User /\ r \in Dirty(s) /\ users'[r] = Updated(s, r)
    <3>1. users'[r].id = users[r].id /\ users[r].type = "ldap"
      BY <2>4, OwnUpdated
    <3>2. t.old[r] = users[r] /\ t.new[r] \in User
      BY <2>1, <2>4 DEF Dirty, RowOK, SessionOK, LoadedTogether, SessionState
    <3>3. users'[r].active = Column(t.old[r].active, t.new[r].active, users[r].active)
      <4>1. Updated(s, r).active
              = Column(t.old[r].active, t.new[r].active, users[r].active)
        BY DEF Updated
      <4>2. QED
        BY <2>4, <4>1
    <3>4. t.new[r].active => t.old[r].active
      BY <2>1 DEF SessionOK, NoActivation
    <3>5. t.new[r].active /\ users[r].active
      BY <2>4, <3>2, <3>3, <3>4 DEF Column, User
    <3>6. users[r].id \in t.seen
      BY <2>1, <3>1, <3>5 DEF AbsentOut
    <3>7. QED
      BY <2>1, <3>1, <3>6
  <2>5. QED
    BY <2>2, <2>3, <2>4, CompletesShape
<1>2. QED
  BY <1>1, OwnAlways, PTL DEF AbsentAreDeactivated

\* A batch deactivates nobody whom it has found, whatever is committed beside it.
THEOREM OnlyAbsentDeactivated ==
    ASSUME OneEntryPerLogin, "create" \notin AdminActions
    PROVE  Spec => OnlyAbsentAreDeactivated
<1> DEFINE Only == \A s \in Sync, r \in Row :
         Completes(s) /\ users[r].active /\ ~users'[r].active =>
             users'[r].id \notin Found(session[s].batch)
<1>1. Inv /\ OwnInv => [Only]_vars
  <2> SUFFICES ASSUME Inv, OwnInv, NEW s \in Sync, NEW r \in Row, Completes(s),
                      users[r].active, ~users'[r].active
               PROVE  users'[r].id \notin Found(session[s].batch)
    OBVIOUS
  <2> DEFINE t == session[s]
  <2>1. t \in SessionState /\ SessionOK(t) /\ RowOK(t, r)
    BY DEF Inv, SessionOK, OwnInv, OwnOK, RowsOK
  <2>2. users[r] \in User /\ r \in Dirty(s) /\ users'[r] = Updated(s, r)
    BY CompletesShape, NotUsers
  <2>3. users'[r].id = users[r].id /\ t.old[r].id = users[r].id /\ t.old[r] # NoUser
    BY <2>2, OwnUpdated DEF Dirty
  <2>4. t.old[r] \in User /\ t.new[r] \in User
    BY <2>1, <2>3 DEF SessionOK, LoadedTogether, SessionState
  <2>5. users'[r].active = Column(t.old[r].active, t.new[r].active, users[r].active)
    BY <2>2 DEF Updated
  <2>6. ~t.new[r].active /\ t.old[r].active
    BY <2>4, <2>5 DEF Column, User
  <2>7. QED
    BY <2>1, <2>3, <2>6 DEF RowOK
<1>2. QED
  BY <1>1, OwnAlways, PTL DEF OnlyAbsentAreDeactivated

\* A batch that nothing was committed beside leaves a row for each of its entries.
THEOREM EntriesHaveRows ==
    ASSUME OneEntryPerLogin, "create" \notin AdminActions
    PROVE  Spec => EveryEntryHasRow
<1> DEFINE Every == \A s \in Sync, i \in LdapId :
         Completes(s) /\ session[s].touched = {} /\ i \in Found(session[s].batch) =>
             \E r \in Row : users'[r].id = i
<1>1. Inv /\ OwnInv => [Every]_vars
  <2> SUFFICES ASSUME Inv, OwnInv, NEW s \in Sync, NEW i \in LdapId, Completes(s),
                      session[s].touched = {}, i \in Found(session[s].batch)
               PROVE  \E r \in Row : users'[r].id = i
    OBVIOUS
  <2>1. AddOK(session[s]) /\ i \in session[s].seen
    BY DEF Completes, OwnInv, OwnOK, BatchOK
  <2>2. CASE \E u \in session[s].add : u.id = i
    <3>1. PICK u \in session[s].add : u.id = i
      BY <2>2
    <3>2. \E r \in Row : users'[r] = u
      BY CommitShape DEF Completes
    <3>3. QED
      BY <3>1, <3>2
  <2>3. CASE \E r \in Row : users[r].id = i
    <3>1. PICK r \in Row : users[r].id = i
      BY <2>3
    <3>2. users[r] # NoUser
      BY <3>1, KeyAssumption, NotUsers
    <3>3. users'[r].id = i
      BY <3>1, <3>2, CompletesShape, OwnUpdated
    <3>4. QED
      BY <3>3
  <2>4. QED
    BY <2>1, <2>2, <2>3 DEF AddOK
<1>2. QED
  BY <1>1, OwnAlways, PTL DEF EveryEntryHasRow
=============================================================================
