------------------------------ MODULE LdapSync ------------------------------
(***************************************************************************)
(* How the table users follows the LDAP directory: the result handler of   *)
(* users:sync_ldap (backend/app/users/ldap), the sign-in that creates or   *)
(* updates one user (backend/app/auth), and the administrator's changes    *)
(* (backend/app/users/local) beside them.                                  *)
(*                                                                         *)
(* A session (SQLAlchemy, autoflush off, read committed) asks the table    *)
(* what it holds now, keeps the rows it has changed, or still refers to,   *)
(* as it loaded them, and at its commit writes the columns it has changed. *)
(***************************************************************************)
EXTENDS Naturals, FiniteSets, Functions

CONSTANTS
    Row,         \* primary keys of users, given in increasing order
    Login,       \* logins, in lower case
    LdapId,      \* objectGUID or entryUUID of directory entries
    NoLogin, NoId,
    Names,       \* Names[i]: the logins entry i may have over time
    CutOff,      \* may the directory's size limit cut a search off?
    Sync,        \* sessions of sync results
    SignIn,      \* sessions of sign-ins
    AdminActions,
    MaxChanges   \* changes of directory and administrator (a bound for TLC)

ASSUME KeyAssumption ==
    /\ Row \subseteq Nat
    /\ NoLogin \notin Login
    /\ NoId \notin LdapId
    /\ Names \in [LdapId -> SUBSET Login]
    /\ CutOff \in BOOLEAN

ASSUME SessionAssumption ==
    /\ Sync \cap SignIn = {}
    /\ AdminActions \subseteq {"create", "active", "type", "delete"}
    /\ MaxChanges \in Nat

VARIABLES
    users,       \* the committed table
    directory,   \* the login of each entry, NoLogin when there is no entry
    session,     \* the sessions
    changes      \* changes so far

vars == <<users, directory, session, changes>>

----------------------------------------------------------------------------
(* The data. *)

User == [login : Login, type : {"ldap", "local"},
         id : LdapId \cup {NoId}, active : BOOLEAN]

\* A row not yet inserted, and a deleted one: its key is not given again.
NoUser == [login |-> NoLogin, type |-> "none", id |-> NoId, active |-> FALSE]
Gone   == [login |-> NoLogin, type |-> "gone", id |-> NoId, active |-> FALSE]

Entries == [LdapId -> Login \cup {NoLogin}]

\* batch: the entries that were found.  todo: those not yet merged.
\* seen: current_ldap_ids.  typed: the login of a sign-in.  old, new: the
\* loaded rows (NoUser otherwise), as they were and as the session has changed
\* them.  add: users to insert.  touched: rows that others have committed
\* since the session began; no action reads it.
SessionState ==
    [pc : {"idle", "fetched", "merging", "searching", "committing"},
     batch : Entries, todo : SUBSET LdapId, seen : SUBSET (LdapId \cup {NoId}),
     typed : Login \cup {NoLogin},
     old : [Row -> User \cup {NoUser}], new : [Row -> User \cup {NoUser}],
     add : SUBSET User, touched : SUBSET Row]

NoEntries == [i \in LdapId |-> NoLogin]

Closed ==
    [pc |-> "idle", batch |-> NoEntries, todo |-> {}, seen |-> {},
     typed |-> NoLogin, old |-> [r \in Row |-> NoUser],
     new |-> [r \in Row |-> NoUser], add |-> {}, touched |-> {}]

TypeOK ==
    /\ users \in [Row -> User \cup {NoUser, Gone}]
    /\ directory \in Entries
    /\ session \in [Sync \cup SignIn -> SessionState]
    /\ changes \in Nat

Init ==
    /\ users = [r \in Row |-> NoUser]
    /\ directory = NoEntries
    /\ session = [s \in Sync \cup SignIn |-> Closed]
    /\ changes = 0

Found(entries) == {i \in LdapId : entries[i] # NoLogin}

Change ==
    /\ changes < MaxChanges
    /\ changes' = changes + 1

----------------------------------------------------------------------------
(* Sessions and the table. *)

\* The queries: filter(User.ldap_id == i), filter(User.login == l).
ById(i)    == {r \in Row : users[r].id = i}
ByLogin(l) == {r \in Row : users[r].login = l}

\* The rows the session has changed.
Dirty(s) ==
    {r \in Row : session[s].old[r] # NoUser /\ session[s].new[r] # session[s].old[r]}

\* A row the session holds keeps the values it had when it was loaded.
Loaded(s, r) == IF session[s].old[r] = NoUser THEN users[r] ELSE session[s].new[r]

\* The session forgets the rows of earlier look-ups that it has not changed:
\* its identity map refers to them weakly.
Kept(s) ==
    [session[s] EXCEPT !.old = [r \in Row |-> IF r \in Dirty(s) THEN @[r] ELSE NoUser],
                       !.new = [r \in Row |-> IF r \in Dirty(s) THEN @[r] ELSE NoUser]]

Load(s, r, u) ==
    [Kept(s) EXCEPT !.old[r] = IF session[s].old[r] = NoUser THEN users[r]
                                                             ELSE session[s].old[r],
                    !.new[r] = u]

\* The sessions after others have committed rows R.
Touched(R) ==
    [t \in DOMAIN session |->
       IF session[t].pc = "idle" THEN session[t]
                                 ELSE [session[t] EXCEPT !.touched = @ \cup R]]

\* The row of an entry: by ldap_id, and by login if there is none.
\* Mutant: by login alone.
MatchLogin(i, l) == ByLogin(l)

Match(i, l) == IF ById(i) # {} THEN ById(i) ELSE ByLogin(l)

\* An existing user takes login and id of the entry only if he is of type
\* ldap.  The status the worker sends is a string that none of the branches
\* recognises, and the sign-in sends none: is_active stays.
\* Mutant: whatever his type.
AdoptedAnyType(u, i, l) == [u EXCEPT !.login = l, !.id = i]

Adopted(u, i, l) == IF u.type = "ldap" THEN [u EXCEPT !.login = l, !.id = i] ELSE u

\* Mutant: the id is not stored.
CreatedWithoutId(i, l) == [login |-> l, type |-> "ldap", id |-> NoId, active |-> TRUE]

Created(i, l) == [login |-> l, type |-> "ldap", id |-> i, active |-> TRUE]

\* current_ldap_ids.add.  Mutant: the login is added.
SeenLogin(u) == u.login

Seen(u) == u.id

\* create_or_update_ldap_user for entry i with login l.
Merge(s, i, l) ==
    IF Match(i, l) = {}
    THEN [Kept(s) EXCEPT !.add = @ \cup {Created(i, l)},
                         !.seen = @ \cup {Seen(Created(i, l))}]
    ELSE LET r == CHOOSE r \in Match(i, l) : TRUE
             u == Adopted(Loaded(s, r), i, l)
         IN  [Load(s, r, u) EXCEPT !.seen = @ \cup {Seen(u)}]

\* The UPDATE of a changed row names the columns that were changed.
\* Mutant: it names all columns.
ColumnAlways(old, new, now) == new

Column(old, new, now) == IF new = old THEN now ELSE new

Updated(s, r) ==
    LET old == session[s].old[r]
        new == session[s].new[r]
    IN  [login  |-> Column(old.login, new.login, users[r].login),
         type   |-> Column(old.type, new.type, users[r].type),
         id     |-> Column(old.id, new.id, users[r].id),
         active |-> Column(old.active, new.active, users[r].active)]

\* The flush sends the UPDATEs by primary key, then the INSERTs; the unique
\* indexes of login and ldap_id are checked at every statement.
Flushed(s, R) ==
    [r \in Row |-> IF r \in Dirty(s) \cap R THEN Updated(s, r) ELSE users[r]]

Clash(u, v) == u.login = v.login \/ (u.id # NoId /\ u.id = v.id)

UpdatesPass(s) ==
    \A r \in Dirty(s) :
        LET table == Flushed(s, {q \in Row : q <= r})
        IN  users[r] \in User /\ \A q \in Row \ {r} : ~Clash(table[r], table[q])

InsertsPass(s) ==
    \A u \in session[s].add :
        /\ \A r \in Row : ~Clash(u, Flushed(s, Row)[r])
        /\ \A v \in session[s].add \ {u} : ~Clash(u, v)

\* The n keys the sequence gives next.
NextKeys(n) ==
    {r \in Row : /\ users[r] = NoUser
                 /\ Cardinality({q \in Row : users[q] = NoUser /\ q < r}) < n}

Commit(s) ==
    /\ session[s].pc = "committing"
    /\ UpdatesPass(s) /\ InsertsPass(s)
    /\ \E place \in Bijection(NextKeys(Cardinality(session[s].add)), session[s].add) :
          /\ users' = [r \in Row |-> IF r \in DOMAIN place THEN place[r]
                                     ELSE Flushed(s, Row)[r]]
          /\ session' = [Touched(Dirty(s) \cup DOMAIN place) EXCEPT ![s] = Closed]
    /\ UNCHANGED <<directory, changes>>

\* IntegrityError or StaleDataError: the transaction is rolled back and the
\* endpoint answers 500.
CommitFails(s) ==
    /\ session[s].pc = "committing"
    /\ ~(UpdatesPass(s) /\ InsertsPass(s))
    /\ session' = [session EXCEPT ![s] = Closed]
    /\ UNCHANGED <<users, directory, changes>>

----------------------------------------------------------------------------
(* The batch: the worker's search, result_handler, sync_ldap_users_batch. *)

\* fetch_users.  What the directory returns is taken for the whole, although
\* sizeLimitExceeded leaves a part.
Fetch(s) ==
    /\ s \in Sync /\ session[s].pc = "idle"
    /\ \E found \in SUBSET Found(directory) :
          /\ CutOff \/ found = Found(directory)
          /\ found # {}      \* "LDAP returned no users. Aborting sync."
          /\ session' = [session EXCEPT ![s] =
                [Closed EXCEPT
                    !.pc = "fetched", !.todo = found,
                    !.batch = [i \in LdapId |-> IF i \in found THEN directory[i] ELSE NoLogin]]]
    /\ UNCHANGED <<users, directory, changes>>

MergeEntry(s, next) ==
    /\ \E i \in session[s].todo :
          session' = [session EXCEPT ![s] =
             [Merge(s, i, session[s].batch[i]) EXCEPT !.pc = next, !.todo = @ \ {i}]]
    /\ UNCHANGED <<users, directory, changes>>

\* One turn of the loop over users_data.
SyncEntry(s) == session[s].pc \in {"fetched", "merging"} /\ MergeEntry(s, "merging")

\* Mutants: everybody; those who are inactive already.
AbsentAll(seen) ==
    {r \in Row : users[r].type = "ldap" /\ users[r].active /\ users[r].id # NoId}

AbsentInactive(seen) ==
    {r \in Row : /\ users[r].type = "ldap" /\ ~users[r].active
                 /\ users[r].id # NoId /\ NoId \notin seen /\ users[r].id \notin seen}

\* ldap_id NOT IN seen: no row passes when the list holds a NULL.
Absent(seen) ==
    {r \in Row : /\ users[r].type = "ldap" /\ users[r].active
                 /\ users[r].id # NoId /\ NoId \notin seen /\ users[r].id \notin seen}

\* The deactivation of the absent.
DeactivateAbsent(s) ==
    /\ session[s].pc = "merging" /\ session[s].todo = {}
    /\ LET out == Absent(session[s].seen)
       IN  session' = [session EXCEPT
             ![s].pc = "committing",
             ![s].old = [r \in Row |-> IF r \in out /\ @[r] = NoUser THEN users[r] ELSE @[r]],
             ![s].new = [r \in Row |-> IF r \in out THEN [Loaded(s, r) EXCEPT !.active = FALSE]
                                                    ELSE @[r]]]
    /\ UNCHANGED <<users, directory, changes>>

----------------------------------------------------------------------------
(* Sign-in: AuthService.authenticate_user. *)

\* The row of the typed login; a local one is checked by password and leaves
\* the table alone.
LookUp(s, l) ==
    /\ s \in SignIn /\ session[s].pc = "idle"
    /\ \A r \in ByLogin(l) : users[r].type = "ldap"
    /\ session' = [session EXCEPT ![s] =
          [Closed EXCEPT !.pc = "searching", !.typed = l,
                         !.old = [r \in Row |-> IF r \in ByLogin(l) THEN users[r] ELSE NoUser],
                         !.new = [r \in Row |-> IF r \in ByLogin(l) THEN users[r] ELSE NoUser]]]
    /\ UNCHANGED <<users, directory, changes>>

\* The entry is searched by the row's ldap_id if it has one, by login if not.
Search(s) ==
    /\ session[s].pc = "searching"
    /\ LET known == {session[s].old[r].id : r \in Row} \ {NoId}
       IN  \E i \in Found(directory) :
              /\ IF known # {} THEN i \in known ELSE directory[i] = session[s].typed
              /\ session' = [session EXCEPT ![s].pc = "fetched", ![s].todo = {i},
                                            ![s].batch = [NoEntries EXCEPT ![i] = directory[i]]]
    /\ UNCHANGED <<users, directory, changes>>

\* The row is created or updated.
Provision(s) == session[s].pc = "fetched" /\ MergeEntry(s, "committing")

\* No entry, or a wrong password: 401.
Refuse(s) ==
    /\ session[s].pc = "searching"
    /\ session' = [session EXCEPT ![s] = Closed]
    /\ UNCHANGED <<users, directory, changes>>

----------------------------------------------------------------------------
(* The directory and the administrator. *)

\* Somebody joins, leaves, or is renamed; logins are unique in the directory.
DirectoryChanges(i) ==
    /\ Change
    /\ \E l \in (Names[i] \ {directory[j] : j \in LdapId}) \cup ({NoLogin} \ {directory[i]}) :
          directory' = [directory EXCEPT ![i] = l]
    /\ UNCHANGED <<users, session>>

Administer(r, u) ==
    /\ Change
    /\ users' = [users EXCEPT ![r] = u]
    /\ session' = Touched({r})
    /\ UNCHANGED directory

\* UserService.create_user: 400 "User already exists" otherwise.
CreateUser(l, type) ==
    /\ "create" \in AdminActions
    /\ ByLogin(l) = {}
    /\ \E r \in NextKeys(1) :
          Administer(r, [login |-> l, type |-> type, id |-> NoId, active |-> TRUE])

\* UserService.update_user: is_active, and type, which the schema lets pass.
UpdateUser(r) ==
    /\ users[r] \in User
    /\ \/ "active" \in AdminActions /\ Administer(r, [users[r] EXCEPT !.active = ~@])
       \/ "type" \in AdminActions
          /\ \E type \in {"ldap", "local"} \ {users[r].type} :
                Administer(r, [users[r] EXCEPT !.type = type])

DeleteUser(r) ==
    /\ "delete" \in AdminActions
    /\ users[r] \in User
    /\ Administer(r, Gone)

----------------------------------------------------------------------------
SyncStep(s) == SyncEntry(s) \/ DeactivateAbsent(s) \/ Commit(s) \/ CommitFails(s)

Next ==
    \/ \E s \in Sync : Fetch(s) \/ SyncStep(s)
    \/ \E s \in SignIn : \/ \E l \in Login : LookUp(s, l)
                         \/ Search(s) \/ Refuse(s) \/ Provision(s)
                         \/ Commit(s) \/ CommitFails(s)
    \/ \E i \in LdapId : DirectoryChanges(i)
    \/ \E l \in Login, type \in {"ldap", "local"} : CreateUser(l, type)
    \/ \E r \in Row : UpdateUser(r) \/ DeleteUser(r)

Spec == Init /\ [][Next]_vars

\* The schedule starts a sync again and again, and each one is carried out.
FairSpec ==
    /\ Spec
    /\ \A s \in Sync : WF_vars(Fetch(s)) /\ WF_vars(SyncStep(s))
    /\ \A s \in SignIn : WF_vars(Search(s) \/ Refuse(s) \/ Provision(s) \/ Commit(s) \/ CommitFails(s))

----------------------------------------------------------------------------
(* Properties. *)

\* A user whom somebody has deactivated is not activated by a batch or a
\* sign-in, whatever they loaded before the deactivation: both write only the
\* columns they have changed.
DeactivationHolds ==
    [][\A r \in Row, s \in DOMAIN session :
         Commit(s) /\ users[r] \in User /\ users'[r].active => users[r].active]_vars

\* Batches and sign-ins update a user only if he is of type ldap ("Critical
\* check" in create_or_update_ldap_user): the row of a local user keeps its
\* columns.
LocalUsersAreSpared ==
    [][\A r \in Row, s \in DOMAIN session :
         Commit(s) /\ users[r].type = "local" => users'[r] = users[r]]_vars

\* A batch reaches its end.
Completes(s) == session[s].pc = "committing" /\ s \in Sync /\ Commit(s)

\* After a batch no active row stands for an entry the batch did not have,
\* but for those that others have changed meanwhile.
AbsentAreDeactivated ==
    [][\A s \in Sync, r \in Row :
         Completes(s) /\ r \notin session[s].touched /\ users'[r].type = "ldap" /\ users'[r].active =>
             users'[r].id \in Found(session[s].batch) \cup {NoId}]_vars

\* A batch deactivates only users who are not in it.
OnlyAbsentAreDeactivated ==
    [][\A s \in Sync, r \in Row :
         Completes(s) /\ users[r].active /\ ~users'[r].active =>
             users'[r].id \notin Found(session[s].batch)]_vars

\* After a batch every entry of it has its row, unless others have changed
\* rows meanwhile.
EveryEntryHasRow ==
    [][\A s \in Sync, i \in LdapId :
         Completes(s) /\ session[s].touched = {} /\ i \in Found(session[s].batch) =>
             \E r \in Row : users'[r].id = i]_vars

\* A batch fails at its commit only if another transaction has committed
\* since it was fetched.
AloneBatchCommits ==
    \A s \in Sync :
        session[s].pc = "committing" /\ session[s].touched = {} =>
            UpdatesPass(s) /\ InsertsPass(s)

\* Somebody who leaves a directory that is not empty ends up deactivated, unless
\* the administrator has made a local user of him.
LeaversAreDeactivated ==
    \A i \in LdapId :
        <>[](directory[i] = NoLogin /\ Found(directory) # {}) =>
            <>[](\A r \in Row : users[r].id = i => users[r].type = "local" \/ ~users[r].active)
=============================================================================
