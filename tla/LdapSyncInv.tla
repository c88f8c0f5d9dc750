----------------------------- MODULE LdapSyncInv -----------------------------
(***************************************************************************)
(* The inductive invariants behind the theorems of LdapSyncProofs, stated  *)
(* of one session t: what always holds, what holds while nobody's type is  *)
(* changed, and what holds while every login belongs to one entry.         *)
(***************************************************************************)
EXTENDS LdapSync

\* A session holds both values of a row, the loaded and its own, or neither.
LoadedTogether(t) == \A r \in Row : t.old[r] = NoUser <=> t.new[r] = NoUser

\* What a session still has to merge, or looks for, has a login.
HasLogins(t) ==
    /\ \A i \in t.todo : t.batch[i] \in Login
    /\ t.pc = "searching" => t.typed \in Login

\* A session never sets is_active on a row it has loaded.
NoActivation(t) == \A r \in Row : t.new[r].active => t.old[r].active

SessionOK(t) ==
    t \in SessionState /\ LoadedTogether(t) /\ HasLogins(t) /\ NoActivation(t)

\* Inductive; it implies the type invariant and, for the step of a commit,
\* DeactivationHolds.
Inv == TypeOK /\ \A s \in Sync \cup SignIn : SessionOK(session[s])

----------------------------------------------------------------------------
(* While the administrator changes nobody's type.                          *)

\* What a session has changed is of type ldap, and the type in the table is the
\* one it has loaded.
TypeKept(t) ==
    \A r \in Row : t.old[r] # NoUser =>
        /\ users[r] = Gone \/ users[r].type = t.old[r].type
        /\ t.new[r].type = t.old[r].type
        /\ t.new[r] # t.old[r] => t.old[r].type = "ldap"

TypeInv == \A s \in Sync \cup SignIn : TypeKept(session[s])

----------------------------------------------------------------------------
(* While no entry is given the login of another one and the administrator  *)
(* creates nobody: a user belongs to one entry for ever.                   *)

OneEntryPerLogin == \A i, j \in LdapId : i # j => Names[i] \cap Names[j] = {}

Owned(u) == u.id \in LdapId /\ u.login \in Names[u.id]

TableInv ==
    /\ \A r \in Row : users[r] \in User => Owned(users[r])
    /\ \A r, q \in Row : users[r] \in User /\ users[r].id = users[q].id => r = q
    /\ \A i \in LdapId : directory[i] \in Names[i] \cup {NoLogin}

\* The batch, and how far it is merged.
BatchOK(t) ==
    /\ t.pc = "idle" => t = Closed
    /\ t.pc = "searching" => Found(t.batch) = {} /\ t.new = t.old
    /\ \A i \in LdapId : t.batch[i] \in Names[i] \cup {NoLogin}
    /\ t.todo \subseteq Found(t.batch)
    /\ t.seen = Found(t.batch) \ t.todo

\* A loaded row stays the row of its entry, and a session deactivates nobody
\* who is in its batch.
RowOK(t, r) ==
    /\ t.old[r] # NoUser =>
         /\ Owned(t.old[r]) /\ Owned(t.new[r])
         /\ t.new[r].id = t.old[r].id /\ t.new[r].type = t.old[r].type
         /\ users[r] = Gone \/ users[r].id = t.old[r].id
         /\ t.new[r].active \/ ~t.old[r].active \/ t.old[r].id \notin Found(t.batch)
    /\ r \notin t.touched => t.old[r] \in {NoUser, users[r]}

RowsOK(t) == \A r \in Row : RowOK(t, r)

\* New users are those entries of the batch that have no row.
AddOK(t) ==
    /\ \A u \in t.add : Owned(u) /\ u.id \in t.seen
    /\ \A u, v \in t.add : u.id = v.id => u = v
    /\ \A u \in t.add, r \in Row : users[r].id = u.id => r \in t.touched
    /\ t.touched = {} => \A i \in t.seen :
          (\E u \in t.add : u.id = i) \/ (\E r \in Row : users[r].id = i)

\* A batch that is about to commit has deactivated whom it did not see.
AbsentOut(t) ==
    \A r \in Row \ t.touched :
        users[r].type = "ldap" /\ users[r].active /\ users[r].id \notin t.seen =>
            t.old[r] # NoUser /\ ~t.new[r].active

OwnOK(t) == BatchOK(t) /\ RowsOK(t) /\ AddOK(t)

OwnInv ==
    /\ TableInv
    /\ \A s \in Sync \cup SignIn : OwnOK(session[s])
    /\ \A s \in Sync : session[s].pc = "committing" =>
          session[s].todo = {} /\ AbsentOut(session[s])
=============================================================================
