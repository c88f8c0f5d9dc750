-------------------------- MODULE LdapSettingsInv --------------------------
(***************************************************************************)
(* The invariant of LdapSettings: what a reader has got, and why he is     *)
(* where he is.                                                            *)
(***************************************************************************)
EXTENDS LdapSettings

\* The settings come one by one, in their order.
InOrder(q) ==
    \A n \in 1 .. 6 : (q.got[Order(q.kind)[n]] = Unread) <=> n > q.asked

\* A run or a sign-in that no commit falls into works with the settings as they are
\* in the table, although it reads them one by one.
Agrees(q) ==
    ~q.touched => \A k \in Key : q.got[k] \in {Unread, Value(k, row[k])}

\* Nobody is refused without a reason: a text is missing, the network was down,
\* or the server does not let him in.
Reasoned(q) ==
    q.pc = "refused" =>
      \/ q.got["password"] \in {Empty, Null}
      \/ Empty \in {q.got["uri"], q.got["dn"], q.got["base"]}
      \/ ~q.clear
      \/ q.kind = "sync" /\ q.asked = 6 /\ ~WorkerBinds(q.got)
      \/ q.kind = "signin" /\ q.asked = 4 /\ ~BackendBinds(q.got)

\* A bind needs a server; whichever has answered, the backend takes it for an
\* Active Directory.
Connected(q) ==
    q.pc = "bound" =>
      /\ q.kind = "sync" => q.asked = 6
      /\ q.kind = "signin" => q.asked \in 4 .. 6
      /\ q.got["uri"] \in Uri
      /\ q.kind = "signin" /\ q.clear => q.server = "ad"

\* An undisturbed run misses nobody, and at an Active Directory no sign-in does.
Searched(q) ==
    q.pc = "absent" /\ q.clear =>
      /\ q.asked = 6
      /\ q.kind \in {"sync", "signin"}
      /\ q.kind = "sync" => Found(q.got) = {}
      /\ q.kind = "signin" /\ Directory[q.got["uri"]].kind = "ad"
           => q.person \notin Sought(q.got)

\* Whom a sign-in has found is there, under the settings it has read; at an OpenLDAP
\* that takes a Root DSE which could not be read.
Located(q) ==
    q.pc = "found" =>
      /\ q.asked = 6
      /\ q.person \in Sought(q.got)
      /\ q.clear => Directory[q.got["uri"]].kind = "ad"

ReaderOK(q) == InOrder(q) /\ Agrees(q) /\ Reasoned(q) /\ Connected(q) /\ Searched(q)
               /\ Located(q)

\* A request that nobody has overtaken has loaded what is in the table.
SessionOK(s) ==
    /\ s.pc = "open" => s.ask \in Ask
    /\ ~s.touched => \A k \in Key : s.old[k] \in {Unread, row[k]}

\* A form passes the test with all of its texts, and finds somebody.
Succeeded(f) ==
    /\ Empty \notin {f["uri"], f["dn"], f["base"], f["filter"]}
    /\ BackendBinds(f)
    /\ Found(f) # {}

\* Whom the worker has reported is there.
IsThere(q) == q.where["uri"] \in Uri /\ q.person \in Found(q.where)

\* What every reachable state satisfies, and every step keeps (settings/ldap/services.py,
\* tasks/api/internal.py, users/ldap/services.py, celery_worker/handlers/users): readers
\* whom no commit overtakes agree with the table, and whatever became of a reader or
\* of a test has its reason in the settings it has worked with.
Inv ==
    /\ TypeOK
    /\ \A r \in Reader : ReaderOK(reader[r])
    /\ \A t \in Tx : SessionOK(tx[t])
    /\ \A f \in tested : Succeeded(f)
    /\ \A q \in reported : IsThere(q)
=============================================================================
