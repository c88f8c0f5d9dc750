---------------------------- MODULE LdapSettings ----------------------------
(***************************************************************************)
(* How to reach the directory: the rows of ldap_settings, the requests     *)
(* that change or try them (backend/app/settings/ldap), and those who work *)
(* with them: the worker, who is handed all of them at once                *)
(* (backend/app/tasks/api/internal, celery_worker/handlers/users), and a   *)
(* sign-in, which asks for them as it goes (backend/app/users/ldap).       *)
(*                                                                         *)
(* Every query is a step and sees what is committed by then.  There are    *)
(* three implementations of "connect and search": test_ldap_connection,    *)
(* the worker's, and the one of the sign-in.                               *)
(***************************************************************************)
EXTENDS Naturals, Sequences

CONSTANTS
    Uri, Dn, Secret, Base, Filter,  \* texts that are neither empty nor null
    Whole, Joined,         \* filters that are one, and that are one beside the id of a person
    Person,
    Empty, Null, Mask,     \* "", null ("None" in the table), "********"
    On, Off,               \* "true", "false", as which a boolean is stored
    Unread,                \* not asked for yet
    Directory,             \* what answers at each of Uri
    Environment,           \* the rows init_data may create
    Ask,                   \* what administrators ask for
    Form,                  \* what they try before they save it
    Tx, Reader,
    MaxCalls               \* bound for TLC only

Key == {"uri", "dn", "password", "base", "filter", "tls"}

Word == {Empty, Null, Mask, On, Off}

Text == Uri \cup Dn \cup Secret \cup Base \cup Filter \cup Word

\* In the table the password is encrypted, unless it is empty or null.
Stored == Text \cup [cipher : Secret \cup {Mask}]

\* What get_ldap_setting_value returns, or a form holds.
Gotten == Text \cup BOOLEAN

Server ==
    [ldaps       : BOOLEAN,                   \* the scheme of the URI
     certificate : BOOLEAN,                   \* it has one that can be verified
     anonymous   : BOOLEAN,                   \* binds without a password
     admin       : Dn \X Secret,
     kind        : {"ad", "openldap"},
     marks       : SUBSET {"capabilities", "forest", "vendor"},  \* of its Root DSE
     people      : [Base -> [Filter \cup {Empty} -> SUBSET Person]]]

ASSUME TextAssumption ==
    /\ Unread \notin Stored /\ Unread \notin BOOLEAN /\ Unread \notin Person
    /\ Word \cap (Uri \cup Dn \cup Secret \cup Base \cup Filter) = {}
    /\ Empty \notin {Null, Mask, On} /\ Null \notin {Mask, On} /\ Mask # On

ASSUME FilterAssumption == Whole \subseteq Filter /\ Joined \subseteq Filter

ASSUME DirectoryAssumption ==
    /\ Directory \in [Uri -> Server]
    /\ \A u \in Uri : Directory[u].kind = "ad" <=> Directory[u].marks # {}

Column(k) == IF k = "password" THEN {Empty, Null} \cup [cipher : Secret \cup {Mask}] ELSE Text

Row == {r \in [Key -> Stored] : \A k \in Key : r[k] \in Column(k)}

ASSUME EnvironmentAssumption == Environment \subseteq Row

\* A PUT names one key; a PATCH any of them.
ASSUME AskAssumption ==
    \A a \in Ask :
      /\ a.via \in {"PUT", "PATCH"}
      /\ DOMAIN a.form \subseteq Key
      /\ \A k \in DOMAIN a.form : a.form[k] \in Text
      /\ "password" \in DOMAIN a.form => a.form["password"] \in Secret \cup {Empty, Null, Mask}

ASSUME FormAssumption ==
    \A f \in Form : f \in [Key -> Gotten] /\ f["tls"] \in BOOLEAN

ASSUME BoundAssumption == MaxCalls \in Nat

VARIABLES
    row,       \* the table
    tx,        \* the requests that change it
    reader,    \* the runs and the sign-ins
    calls,
    tested,    \* history: what was tried with success, as the sync would see it
    reported   \* history: whom the worker has found, where

vars == <<row, tx, reader, calls, tested, reported>>

----------------------------------------------------------------------------
(* Values on their way to the table and back. *)

Encrypt(v) == IF v \in {Empty, Null} THEN v ELSE [cipher |-> v]

\* A password "None" is no token of the cipher: whoever asks for it gets an
\* exception, here Null.
Decrypt(s) == IF s \in {Empty, Null} THEN s ELSE s.cipher

\* _convert_value_to_type
Convert(k, s) == IF k = "tls" THEN s = On ELSE s

\* get_ldap_setting_value
Value(k, s) == IF k = "password" THEN Decrypt(s) ELSE Convert(k, s)

\* Mutant: the bulk update does not know the mask.
AssignsMask(a, k) == k \in DOMAIN a.form

\* The mask in a PATCH stands for the password that is stored; a PUT takes it
\* for a password.
Assigns(a, k) ==
    /\ k \in DOMAIN a.form
    /\ ~(a.via = "PATCH" /\ k = "password" /\ a.form[k] = Mask)

New(a, k) == IF k = "password" THEN Encrypt(a.form[k]) ELSE a.form[k]

\* An UPDATE writes what differs from the loaded value; a new cipher always does.
Saved(a, k, old, now) ==
    IF ~Assigns(a, k) THEN now
    ELSE IF New(a, k) # old \/ New(a, k) \in [cipher : Secret \cup {Mask}]
         THEN New(a, k) ELSE now

----------------------------------------------------------------------------
(* Connect and search. *)

Verified(u, tls) == Directory[u].ldaps /\ tls => Directory[u].certificate

\* Mutant: tls_verify stays at its default.
WorkerBindsVerified(c) ==
    /\ c["uri"] \in Uri
    /\ Verified(c["uri"], TRUE)
    /\ <<c["dn"], c["password"]>> = Directory[c["uri"]].admin

\* The worker's connect_to_ldap.
WorkerBinds(c) ==
    /\ c["uri"] \in Uri
    /\ Verified(c["uri"], c["tls"])
    /\ <<c["dn"], c["password"]>> = Directory[c["uri"]].admin

\* create_ldap_server and create_ldap_connection: without a name or a password
\* the bind is anonymous.
BackendBinds(c) ==
    /\ c["uri"] \in Uri
    /\ Verified(c["uri"], c["tls"])
    /\ IF c["dn"] # Empty /\ c["password"] \notin {Empty, Null}
       THEN <<c["dn"], c["password"]>> = Directory[c["uri"]].admin
       ELSE Directory[c["uri"]].anonymous

\* Mutant: it looks at the values, and the vendor is not among those asked for.
BackendDetectsWithoutVendor(u, answered) ==
    IF answered /\ Directory[u].marks \ {"vendor"} # {} THEN "ad" ELSE "openldap"

\* detect_server_type of the backend names three attributes of the Root DSE, and an
\* entry holds what was named, empty where the server has none: "in" is true of
\* whatever server answers.  Without an answer there is nothing to fall back on.
BackendDetects(u, answered) == IF answered THEN "ad" ELSE "openldap"

\* The worker's asks for all there is, and can fall back on what the library has
\* kept of it at the bind.
WorkerDetects(u, answered, kept) ==
    IF (IF answered THEN Directory[u].marks ELSE kept) # {} THEN "ad" ELSE "openldap"

\* The id of an entry is in another attribute on the other kind of server.
Identified(u, kind, people) == IF kind = Directory[u].kind THEN people ELSE {}

\* A base or a filter that is no such thing is an exception, and finds nobody.
Among(c, filters) ==
    IF c["base"] \in Base /\ c["filter"] \in filters \cup {Empty}
    THEN Directory[c["uri"]].people[c["base"]][c["filter"]] ELSE {}

\* The test and the worker send the filter as it is.
Found(c) == Among(c, Whole)

\* A sign-in puts the id of the person into it: before its last character, when it
\* begins with "(&", or beside it.
Sought(c) == Among(c, Joined)

----------------------------------------------------------------------------
(* The state. *)

\* A request; touched: it has been overtaken by a commit.
Session ==
    [pc : {"closed", "open"}, ask : Ask \cup {Unread},
     old : [Key -> Stored \cup {Unread}], touched : BOOLEAN]

\* A run (without a person) or a sign-in.  asked: how many of the settings it has
\* got; clear: the network has answered.
Reading ==
    [pc : {"away", "asking", "bound", "refused", "listed", "found", "absent"},
     kind : {"sync", "signin", Unread}, person : Person \cup {Unread},
     asked : 0 .. 6, got : [Key -> Gotten \cup {Unread}],
     server : {"ad", "openldap", Unread}, clear : BOOLEAN, touched : BOOLEAN]

TypeOK ==
    /\ row \in Row
    /\ tx \in [Tx -> Session]
    /\ reader \in [Reader -> Reading]
    /\ calls \in Nat
    /\ tested \subseteq [Key -> Gotten]
    /\ reported \subseteq [where : [Key -> Gotten \cup {Unread}], person : Person]

Nothing == [k \in Key |-> Unread]

Closed == [pc |-> "closed", ask |-> Unread, old |-> Nothing, touched |-> FALSE]

Away == [pc |-> "away", kind |-> Unread, person |-> Unread, asked |-> 0, got |-> Nothing,
         server |-> Unread, clear |-> TRUE, touched |-> FALSE]

Init ==
    /\ row \in Environment
    /\ tx = [t \in Tx |-> Closed]
    /\ reader = [r \in Reader |-> Away]
    /\ calls = 0 /\ tested = {} /\ reported = {}

----------------------------------------------------------------------------
(* Requests of the administrator. *)

Open(t) ==
    /\ tx[t].pc = "closed"
    /\ calls < MaxCalls
    /\ calls' = calls + 1
    /\ \E a \in Ask : tx' = [tx EXCEPT ![t] = [Closed EXCEPT !.pc = "open", !.ask = a]]
    /\ UNCHANGED <<row, reader, tested, reported>>

\* The rows it is going to change, a query for each, in whatever order it has them.
Load(t) ==
    /\ tx[t].pc = "open"
    /\ \E k \in DOMAIN tx[t].ask.form :
         /\ tx[t].old[k] = Unread
         /\ tx' = [tx EXCEPT ![t].old[k] = row[k]]
    /\ UNCHANGED <<row, reader, calls, tested, reported>>

Commit(t) ==
    LET a == tx[t].ask IN
    /\ tx[t].pc = "open"
    /\ \A k \in DOMAIN a.form : tx[t].old[k] # Unread
    /\ row' = [k \in Key |-> Saved(a, k, tx[t].old[k], row[k])]
    /\ tx' = [u \in Tx |-> IF u = t THEN Closed ELSE [tx[u] EXCEPT !.touched = TRUE]]
    /\ reader' = [r \in Reader |-> [reader[r] EXCEPT !.touched = TRUE]]
    /\ UNCHANGED <<calls, tested, reported>>

\* An error rolls the session back.
RollBack(t) ==
    /\ tx[t].pc = "open"
    /\ tx' = [tx EXCEPT ![t] = Closed]
    /\ UNCHANGED <<row, reader, calls, tested, reported>>

\* test_ldap_connection: the mask stands for the stored password.  Only a form
\* that finds somebody passes; a failure of the network changes nothing.
Effective(f) ==
    [f EXCEPT !["password"] = IF @ = Mask THEN Value("password", row["password"]) ELSE @]

Test ==
    \E f \in Form :
      LET c == Effective(f) IN
      /\ {Empty, Null} \cap {c["uri"], c["dn"], c["base"], c["filter"]} = {}
      /\ ~(f["password"] = Mask /\ c["password"] = Null)
      /\ BackendBinds(c)
      /\ Found(c) # {}
      /\ tested' = tested \cup {c}
      /\ UNCHANGED <<row, tx, reader, calls, reported>>

----------------------------------------------------------------------------
(* Those who work with the settings. *)

\* The secrets of users:sync_ldap, and the queries of a sign-in.
Order(kind) ==
    IF kind = "sync" THEN <<"uri", "dn", "password", "base", "filter", "tls">>
                     ELSE <<"uri", "tls", "dn", "password", "base", "filter">>

Kind(p) == IF p = Unread THEN "sync" ELSE "signin"

\* Mutant: a run begins with what the run before has got.
StartWithCache(r) ==
    /\ reader[r].pc \notin {"asking", "bound"}
    /\ \E p \in Person \cup {Unread} :
         reader' = [reader EXCEPT ![r] = [Away EXCEPT !.pc = "asking", !.kind = Kind(p),
                                            !.person = p, !.got = reader[r].got]]
    /\ UNCHANGED <<row, tx, calls, tested, reported>>

\* A worker asks for its secrets, or a person whom the backend knows signs in.
Start(r) ==
    /\ reader[r].pc \notin {"asking", "bound"}
    /\ \E p \in Person \cup {Unread} :
         reader' = [reader EXCEPT ![r] =
                      [Away EXCEPT !.pc = "asking", !.kind = Kind(p), !.person = p]]
    /\ UNCHANGED <<row, tx, calls, tested, reported>>

\* The next setting.  The worker is refused all of them when the password cannot
\* be decrypted; a sign-in gives up as soon as it misses one.
Query(r) ==
    LET n == reader[r].asked + 1
        k == Order(reader[r].kind)[n]
        v == Value(k, row[k])
        signin == reader[r].kind = "signin"
        missing == \/ k = "password" /\ v = Null
                   \/ signin /\ k = "uri" /\ v = Empty
                   \/ signin /\ k = "password" /\ Empty \in {v, reader[r].got["dn"]}
                   \/ signin /\ k = "filter" /\ reader[r].got["base"] = Empty
    IN /\ \/ reader[r].pc = "asking" /\ n <= (IF signin THEN 4 ELSE 6)
          \/ reader[r].pc = "bound" /\ signin /\ n <= 6
       /\ reader' = [reader EXCEPT ![r].asked = n, ![r].got[k] = v,
                                   ![r].pc = IF missing THEN "refused" ELSE @]
       /\ UNCHANGED <<row, tx, calls, tested, reported>>

\* The handler checks what it was handed and connects.
WorkerConnects(r) ==
    LET c == reader[r].got IN
    /\ reader[r].kind = "sync" /\ reader[r].pc = "asking" /\ reader[r].asked = 6
    /\ \E up \in BOOLEAN :
         reader' = [reader EXCEPT
           ![r].clear = up,
           ![r].pc = IF /\ Empty \notin {c["uri"], c["dn"], c["base"], c["password"]}
                        /\ up /\ WorkerBinds(c)
                     THEN "bound" ELSE "refused"]
    /\ UNCHANGED <<row, tx, calls, tested, reported>>

\* fetch_users: an exception of the search is an empty list; with the attributes of
\* the other kind of server nobody has an id.  A server may cut a list off.
WorkerFetches(r) ==
    LET c == reader[r].got IN
    /\ reader[r].kind = "sync" /\ reader[r].pc = "bound"
    /\ \E up, answered \in BOOLEAN, kept \in SUBSET Directory[c["uri"]].marks,
          part \in SUBSET Found(c) :
         LET kind == WorkerDetects(c["uri"], answered, kept)
             ids  == IF up THEN Identified(c["uri"], kind, part) ELSE {}
         IN /\ part = {} => Found(c) = {}
            /\ reader' = [reader EXCEPT ![r].pc = IF ids = {} THEN "absent" ELSE "listed",
                                        ![r].clear = up /\ answered,
                                        ![r].server = kind]
            /\ reported' = reported \cup [where : {c}, person : ids]
    /\ UNCHANGED <<row, tx, calls, tested>>

\* The backend's connect_to_ldap, once it has got what it needs for a bind.
BackendConnects(r) ==
    LET c == reader[r].got IN
    /\ reader[r].kind = "signin" /\ reader[r].pc = "asking" /\ reader[r].asked = 4
    /\ \E up, answered \in BOOLEAN :
         reader' = [reader EXCEPT
           ![r].clear = up /\ answered,
           ![r].pc = IF up /\ BackendBinds(c) THEN "bound" ELSE "refused",
           ![r].server = IF up /\ BackendBinds(c)
                         THEN BackendDetects(c["uri"], answered) ELSE Unread]
    /\ UNCHANGED <<row, tx, calls, tested, reported>>

\* authenticate_ldap_user looks for the id of the person, in the attribute and the
\* format of the kind of server it has detected.
SearchPerson(r) ==
    LET c == reader[r].got IN
    /\ reader[r].kind = "signin" /\ reader[r].pc = "bound" /\ reader[r].asked = 6
    /\ \E up \in BOOLEAN :
         reader' = [reader EXCEPT
           ![r].clear = @ /\ up,
           ![r].pc = IF up /\ reader[r].person \in Identified(c["uri"], reader[r].server, Sought(c))
                     THEN "found" ELSE "absent"]
    /\ UNCHANGED <<row, tx, calls, tested, reported>>

----------------------------------------------------------------------------

Next ==
    \/ \E t \in Tx : Open(t) \/ Load(t) \/ Commit(t) \/ RollBack(t)
    \/ Test
    \/ \E r \in Reader : \/ Start(r) \/ Query(r)
                         \/ WorkerConnects(r) \/ WorkerFetches(r)
                         \/ BackendConnects(r) \/ SearchPerson(r)

Spec == Init /\ [][Next]_vars

----------------------------------------------------------------------------
(* What must hold. *)

\* Whatever overtakes it, a request leaves alone what it does not name, the password
\* behind a mask included; and whom nobody overtakes, gets what he has asked for.
SavesAreExact ==
    [][\A t \in Tx : Commit(t) =>
         LET a == tx[t].ask IN
         /\ \A k \in Key : k \notin DOMAIN a.form => row'[k] = row[k]
         /\ "password" \in DOMAIN a.form /\ a.via = "PATCH" /\ a.form["password"] = Mask
              => row'["password"] = row["password"]
         /\ ~tx[t].touched =>
              \A k \in DOMAIN a.form :
                ~(k = "password" /\ a.form[k] = Mask) =>
                   row'[k] = IF k = "password" /\ a.form[k] \notin {Empty, Null}
                             THEN [cipher |-> a.form[k]] ELSE a.form[k]]_vars

\* What has been got so far is that of a form that was tried.
Tested(c) == \E f \in tested : \A k \in Key : c[k] \in {Unread, f[k]}

\* Settings that were tried with success, with a password, then let the runs of the
\* worker connect and find people, and sign-ins connect, unless the network fails them:
\* the three ways to connect agree.  (Without a password the test binds anonymously.)
TestedSettingsWork ==
    \A r \in Reader :
      LET c == reader[r].got IN
      /\ reader[r].pc = "refused" /\ reader[r].clear /\ Tested(c)
           => c["password"] \in {Empty, Null}
      /\ reader[r].pc = "absent" /\ reader[r].clear /\ Tested(c)
           => reader[r].kind = "signin"

\* At an Active Directory, a person whom a run has reported is found by a sign-in with
\* the same settings, unless the directory does not answer or the filter is none that
\* the id can be put into: both detect the server, in two copies of the code.  (An
\* OpenLDAP the backend takes for an Active Directory as well.)
SyncedPeopleAreFound ==
    \A r \in Reader :
      LET c == reader[r].got IN
      /\ reader[r].kind = "signin" /\ reader[r].pc = "absent" /\ reader[r].clear
      /\ Directory[c["uri"]].kind = "ad"
      /\ c["filter"] \in Joined \cup {Empty}
      => [where |-> c, person |-> reader[r].person] \notin reported
=============================================================================
