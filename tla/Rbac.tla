-------------------------------- MODULE Rbac --------------------------------
(***************************************************************************)
(* Users, groups, roles and permissions, and the three association tables  *)
(* between them (backend/app/users/groups, roles, local, permissions).     *)
(*                                                                         *)
(* A request is a database transaction of several statements under read    *)
(* committed: a query sees what others have committed, a row that another  *)
(* transaction has deleted but not committed is waited for, and a foreign  *)
(* key holds the row it refers to.  The association tables have no primary *)
(* key and no unique index, so the same pair may be stored more than once. *)
(***************************************************************************)
EXTENDS Naturals, FiniteSets

CONSTANTS
    Group, Role, User, Permission,
    Admins, AdminRole, Root,   \* the built-in group, role and user
    Nobody,                    \* the owner of a session that has none
    Tx,                        \* the requests in progress
    MaxTimes,                  \* how often a list of a request may name a member
    MaxCalls                   \* calls of the API (a bound for TLC only)

ASSUME EntityAssumption ==
    /\ Admins \in Group /\ AdminRole \in Role /\ Root \in User
    /\ Group \cap Role = {} /\ Group \cap User = {} /\ Group \cap Permission = {}
    /\ Role \cap User = {} /\ Role \cap Permission = {} /\ User \cap Permission = {}
    /\ Nobody \notin Group \cup Role \cup User \cup Permission
    /\ MaxTimes \in Nat \ {0}
    /\ MaxCalls \in Nat

ASSUME RequestAssumption == IsFiniteSet(Tx) /\ Tx # {}

VARIABLES
    there,   \* the committed users, groups, roles and permissions
    used,    \* those that exist or have existed
    links,   \* how often the association tables hold a pair
    tx,      \* the transactions
    calls

vars == <<there, used, links, tx, calls>>

----------------------------------------------------------------------------
(* The tables. *)

Entity == Group \cup Role \cup User \cup Permission

\* group_role_association, user_group_association, role_permission_association.
Link == (Group \X (Role \cup User)) \cup (Role \X Permission)

Bag == [Link -> Nat]

Empty == [l \in Link |-> 0]

BuiltIn == {Admins, AdminRole, Root} \cup Permission

\* The rows with built_in set.
BuiltInLink ==
    {<<Admins, AdminRole>>, <<Admins, Root>>} \cup {<<AdminRole, p>> : p \in Permission}

\* The lists an update may replace.
List == {"roles", "users", "permissions"}

Lists(o) == IF o \in Group THEN {"roles", "users"} ELSE {"permissions"}

Members(list) ==
    CASE list = "roles" -> Role [] list = "users" -> User [] OTHER -> Permission

Of(l, e) == l[1] = e \/ l[2] = e

\* lists, todo: the lists to replace, and those still to replace.  wanted:
\* their members in the request, each of them named as often as times says.
\* kept: the built-in members read at the beginning.  missing: what the last
\* query found not to be linked.  drop: the rows deleted and not committed.
\* put: pairs inserted and not committed, or added to a loaded collection.
\* remove: pairs taken from a loaded collection, still to delete.  dying: the entity to delete.
\* renames: the unique name of the owner, or the login, is going to change.
\* touched: others have committed meanwhile; no action reads it.
Transaction ==
    [pc : {"idle", "created", "delete", "select", "insert", "commit", "row", "flush"},
     renames : BOOLEAN, owner : Entity \cup {Nobody}, lists : SUBSET List, todo : SUBSET List,
     wanted : SUBSET Entity, times : 1..MaxTimes, kept : SUBSET Entity, missing : SUBSET Entity,
     drop : Bag, put : SUBSET (Entity \X Entity), remove : SUBSET Link,
     dying : SUBSET Entity, touched : BOOLEAN]

Idle ==
    [pc |-> "idle", renames |-> FALSE, owner |-> Nobody, lists |-> {}, todo |-> {}, wanted |-> {}, times |-> 1,
     kept |-> {}, missing |-> {}, drop |-> Empty, put |-> {}, remove |-> {}, dying |-> {},
     touched |-> FALSE]

TypeOK ==
    /\ there \subseteq Entity
    /\ used \subseteq Entity
    /\ links \in Bag
    /\ tx \in [Tx -> Transaction]
    /\ calls \in Nat

\* What init_data leaves: the administrator, the group admins, the role admin
\* with every permission.
Init ==
    /\ there = BuiltIn
    /\ used = BuiltIn
    /\ links = [l \in Link |-> IF l \in BuiltInLink THEN 1 ELSE 0]
    /\ tx = [t \in Tx |-> Idle]
    /\ calls = 0

Call(t) ==
    /\ tx[t].pc = "idle"
    /\ calls < MaxCalls
    /\ calls' = calls + 1

\* t ends; the others see what it has committed.
Ended(t, changed) ==
    [s \in Tx |-> IF s = t THEN Idle
                  ELSE IF tx[s].pc = "idle" THEN tx[s]
                  ELSE [tx[s] EXCEPT !.touched = @ \/ changed]]

Rollback(t) ==
    /\ tx' = Ended(t, FALSE)
    /\ UNCHANGED <<there, used, links, calls>>

\* Rows of L that another transaction has deleted are waited for.
Unlocked(t, L) == \A s \in Tx \ {t}, l \in L : tx[s].drop[l] = 0

\* A pair that is inserted holds the keys of its two rows (FOR KEY SHARE of the
\* foreign keys) up to the commit ...
RefersTo(s, e) == tx[s].pc \notin {"row", "flush"} /\ \E l \in tx[s].put : Of(l, e)

\* ... and the UPDATE of a login its row (FOR UPDATE, as the login is unique).
\* The rows that a request inserts, renames or deletes at its commit are held by
\* nobody else before it ends.
Holds(s, e) == tx[s].pc = "flush" /\ tx[s].renames /\ tx[s].owner = e

\* The keys that t's next statement refers to ...
Needs(t) ==
    CASE tx[t].pc = "created"                       -> tx[t].wanted
      [] tx[t].pc = "insert"                        -> tx[t].missing
      [] tx[t].pc = "flush" /\ tx[t].remove = {}    -> {l[2] : l \in tx[t].put}
      [] OTHER                                      -> {}

\* ... and those it changes or deletes.
Changes(t) ==
    CASE tx[t].pc \in {"commit", "row"} /\ tx[t].renames -> {tx[t].owner}
      [] tx[t].pc = "flush" /\ tx[t].remove = {}         -> tx[t].dying
      [] OTHER                                           -> {}

\* t's next statement waits for s: a row is shared by those who refer to it, and
\* changed or deleted by one alone.  (The locks of a statement are taken at once;
\* an UPDATE that leaves the name as it is makes nobody wait who refers to the row.)
Blocks(s, t) ==
    /\ s # t
    /\ \/ \E e \in Needs(t) \cup Changes(t) : Holds(s, e)
       \/ \E e \in Changes(t) : RefersTo(s, e)

Free(t) == \A s \in Tx : ~Blocks(s, t)

----------------------------------------------------------------------------
(* create_group, create_role, create_user. *)

\* The row of the group or role is committed first ...
Create(t, o, W, n) ==
    /\ Call(t)
    /\ o \notin used
    /\ there' = there \cup {o}
    /\ used' = used \cup {o}
    /\ tx' = [Ended(t, TRUE) EXCEPT ![t] = [Idle EXCEPT !.pc = "created", !.owner = o,
                                                        !.wanted = W, !.times = n]]
    /\ UNCHANGED links

\* ... and its members after it; a member that does not exist is refused by
\* the foreign key, and the answer is 400.
LinkMembers(t) ==
    /\ tx[t].pc = "created"
    /\ Free(t)
    /\ IF tx[t].wanted \cup {tx[t].owner} \subseteq there
       THEN /\ links' = [l \in Link |-> IF l[1] = tx[t].owner /\ l[2] \in tx[t].wanted
                                        THEN links[l] + tx[t].times ELSE links[l]]
            /\ tx' = Ended(t, TRUE)
            /\ UNCHANGED <<there, used, calls>>
       ELSE Rollback(t)

\* create_user commits the user and its groups together.
CreateUser(t, u, G) ==
    /\ Call(t)
    /\ u \notin used
    /\ G \subseteq there
    /\ there' = there \cup {u}
    /\ used' = used \cup {u}
    /\ links' = [l \in Link |-> IF l[1] \in G /\ l[2] = u THEN links[l] + 1 ELSE links[l]]
    /\ tx' = Ended(t, TRUE)

----------------------------------------------------------------------------
(* update_group and update_role: the lists, one after the other. *)

\* The owner is loaded, and the ids of its built-in members.  A built-in owner
\* keeps its name.
Update(t, o, lists, W, n, rename) ==
    /\ Call(t)
    /\ o \in there
    /\ rename => o \notin BuiltIn
    /\ tx' = [tx EXCEPT ![t] =
          [Idle EXCEPT !.pc = "delete", !.renames = rename, !.owner = o, !.lists = lists, !.todo = lists,
                       !.wanted = W, !.times = n,
                       !.kept = {m \in Entity : <<o, m>> \in BuiltInLink}]]
    /\ UNCHANGED <<there, used, links>>

\* Mutant: the list that is to be emptied comes first.
CurrentEmptyFirst(t) ==
    IF "users" \in tx[t].todo /\ tx[t].wanted \cap User = {} THEN "users"
    ELSE IF "roles" \in tx[t].todo THEN "roles"
    ELSE IF "users" \in tx[t].todo THEN "users" ELSE "permissions"

\* Roles come before users.
Current(t) ==
    IF "roles" \in tx[t].todo THEN "roles"
    ELSE IF "users" \in tx[t].todo THEN "users" ELSE "permissions"

\* "Cannot remove built-in ...": only a built-in owner is protected.
\* Mutant: the built-in users of a group are forgotten.
RefusedRolesOnly(t) ==
    /\ tx[t].owner \in BuiltIn
    /\ ~(tx[t].kept \cap Members(Current(t)) \cap (Role \cup Permission) \subseteq tx[t].wanted)

Refused(t) ==
    /\ tx[t].owner \in BuiltIn
    /\ ~(tx[t].kept \cap Members(Current(t)) \subseteq tx[t].wanted)

RefuseUpdate(t) == tx[t].pc = "delete" /\ Refused(t) /\ Rollback(t)

\* Mutant: NOT IN is dropped for an empty list.
OthersUnlessEmpty(t) ==
    {l \in Link : /\ l[1] = tx[t].owner /\ l[2] \in Members(Current(t)) \ tx[t].wanted
                  /\ tx[t].wanted # {} /\ links[l] > 0}

\* DELETE ... WHERE group_id = ... AND role_id NOT IN (...).
Others(t) ==
    {l \in Link : /\ l[1] = tx[t].owner /\ l[2] \in Members(Current(t)) \ tx[t].wanted
                  /\ links[l] > 0}

DeleteOthers(t) ==
    /\ tx[t].pc = "delete" /\ ~Refused(t)
    /\ Unlocked(t, Others(t))
    /\ tx' = [tx EXCEPT ![t].pc = "select",
                        ![t].drop = [l \in Link |-> IF l \in Others(t) THEN links[l] ELSE @[l]]]
    /\ UNCHANGED <<there, used, links, calls>>

\* Mutant: the members linked now are not looked up.
SelectAll(t) ==
    /\ tx[t].pc = "select"
    /\ tx' = [tx EXCEPT
          ![t].pc = "insert",
          ![t].missing = {m \in tx[t].wanted \cap Members(Current(t)) : m \in Role => m \in there}]
    /\ UNCHANGED <<there, used, links, calls>>

\* The members that are not linked now; of the roles those that exist.
SelectMissing(t) ==
    /\ tx[t].pc = "select"
    /\ tx' = [tx EXCEPT
          ![t].pc = "insert",
          ![t].missing = {m \in tx[t].wanted \cap Members(Current(t)) :
                             /\ links[<<tx[t].owner, m>>] = 0
                             /\ m \in Role => m \in there}]
    /\ UNCHANGED <<there, used, links, calls>>

\* A missing user or permission is refused by the foreign key: 500.
InsertMissing(t) ==
    /\ tx[t].pc = "insert"
    /\ Free(t)
    /\ IF tx[t].missing = {} \/ tx[t].missing \cup {tx[t].owner} \subseteq there
       THEN /\ tx' = [tx EXCEPT
                  ![t].put = @ \cup {<<tx[t].owner, m>> : m \in tx[t].missing},
                  ![t].todo = @ \ {Current(t)}, ![t].missing = {},
                  ![t].pc = IF tx[t].todo = {Current(t)} THEN "commit" ELSE "delete"]
            /\ UNCHANGED <<there, used, links, calls>>
       ELSE Rollback(t)

\* The rows after the transaction.
After(t) ==
    [l \in Link |-> (links[l] - tx[t].drop[l]) + (IF l \in tx[t].put THEN tx[t].times ELSE 0)]

\* The row of the group or role is flushed at the commit, after the lists.
CommitUpdate(t) ==
    /\ tx[t].pc = "commit"
    /\ Free(t)
    /\ tx[t].renames => tx[t].owner \in there
    /\ links' = After(t)
    /\ tx' = Ended(t, TRUE)
    /\ UNCHANGED <<there, used, calls>>

\* Another one has the name (400), or the row that is to get it is gone.
RefuseName(t) == tx[t].pc \in {"commit", "row"} /\ tx[t].renames /\ Rollback(t)

----------------------------------------------------------------------------
(* update_user and the deletions: objects of the session, flushed at the   *)
(* commit.                                                                 *)

\* user.groups = groups loads the collection that it replaces.  The row of the user
\* is flushed before the pairs; a built-in user keeps his login.
UpdateUser(t, u, G, rename) ==
    /\ Call(t)
    /\ u \in there /\ G \subseteq there
    /\ rename => u \notin BuiltIn
    /\ u \in BuiltIn => \A l \in BuiltInLink : l[2] = u => l[1] \in G
    /\ tx' = [tx EXCEPT ![t] =
          [Idle EXCEPT !.pc = IF rename THEN "row" ELSE "flush",
                       !.renames = rename, !.owner = u,
                       !.remove = {l \in Link : l[2] = u /\ links[l] > 0 /\ l[1] \notin G},
                       !.put = {<<g, u>> : g \in {h \in G : links[<<h, u>>] = 0}}]]
    /\ UNCHANGED <<there, used, links>>

\* delete_group, delete_role, delete_user: what is deleted leaves all the
\* collections it is in.
\* Mutant: a built-in entity can be deleted.
DeleteAny(t, e) ==
    /\ Call(t)
    /\ e \in there
    /\ tx' = [tx EXCEPT ![t] =
          [Idle EXCEPT !.pc = "flush", !.owner = e, !.dying = {e},
                       !.remove = {l \in Link : Of(l, e) /\ links[l] > 0}]]
    /\ UNCHANGED <<there, used, links>>

Delete(t, e) ==
    /\ Call(t)
    /\ e \in there \ BuiltIn
    /\ tx' = [tx EXCEPT ![t] =
          [Idle EXCEPT !.pc = "flush", !.owner = e, !.dying = {e},
                       !.remove = {l \in Link : Of(l, e) /\ links[l] > 0}]]
    /\ UNCHANGED <<there, used, links>>

FlushRow(t) ==
    /\ tx[t].pc = "row"
    /\ Free(t)
    /\ tx[t].owner \in there
    /\ tx' = [tx EXCEPT ![t].pc = "flush"]
    /\ UNCHANGED <<there, used, links, calls>>

\* The pairs are deleted one by one, in no particular order; a DELETE must match
\* one row (StaleDataError otherwise).
FlushPair(t) ==
    /\ tx[t].pc = "flush"
    /\ \E l \in tx[t].remove :
          /\ Unlocked(t, {l})
          /\ IF links[l] = 1
             THEN /\ tx' = [tx EXCEPT ![t].remove = @ \ {l}, ![t].drop[l] = 1]
                  /\ UNCHANGED <<there, used, links, calls>>
             ELSE Rollback(t)

\* The foreign keys hold, and what is to be deleted or updated is still there.
FlushPasses(t) ==
    /\ {tx[t].owner} \cup {l[1] : l \in tx[t].put} \subseteq there
    /\ \A e \in tx[t].dying, l \in Link : Of(l, e) => links[l] = tx[t].drop[l]

Flush(t) ==
    /\ tx[t].pc = "flush" /\ tx[t].remove = {}
    /\ Free(t)
    /\ IF FlushPasses(t)
       THEN /\ links' = After(t)
            /\ there' = there \ tx[t].dying
            /\ tx' = Ended(t, TRUE)
            /\ UNCHANGED <<used, calls>>
       ELSE Rollback(t)

\* t waits, or is about to, for what s has deleted, renamed or refers to.
WaitsFor(t, s) ==
    /\ s # t
    /\ \/ tx[t].pc = "delete" /\ ~Refused(t) /\ \E l \in Others(t) : tx[s].drop[l] > 0
       \/ tx[t].pc = "flush" /\ \E l \in tx[t].remove : tx[s].drop[l] > 0
       \/ Blocks(s, t)

InCircle(C) == \A t \in C : \E s \in C : WaitsFor(t, s)

\* The database refuses a statement of a circle of waiting transactions: 500.
DeadlockDetected(t) == (\E C \in SUBSET Tx : t \in C /\ InCircle(C)) /\ Rollback(t)

----------------------------------------------------------------------------
\* The lists of a request name no permissions for a group, and so on.
MembersOf(o, lists) == SUBSET UNION {Members(k) : k \in lists}

Begin(t) ==
    \/ \E o \in Group \cup Role, n \in 1..MaxTimes : \E W \in MembersOf(o, Lists(o)) :
          (W = {} => n = 1) /\ Create(t, o, W, n)
    \/ \E u \in User, G \in SUBSET Group :
          CreateUser(t, u, G) \/ \E rename \in BOOLEAN : UpdateUser(t, u, G, rename)
    \/ \E o \in Group \cup Role, n \in 1..MaxTimes : \E lists \in (SUBSET Lists(o)) \ {{}} :
          \E W \in MembersOf(o, lists), rename \in BOOLEAN :
             (W = {} => n = 1) /\ Update(t, o, lists, W, n, rename)
    \/ \E e \in Group \cup Role \cup User : Delete(t, e)

Proceed(t) ==
    \/ LinkMembers(t) \/ RefuseUpdate(t) \/ DeleteOthers(t) \/ SelectMissing(t)
    \/ InsertMissing(t) \/ CommitUpdate(t) \/ RefuseName(t)
    \/ FlushRow(t) \/ FlushPair(t) \/ Flush(t) \/ DeadlockDetected(t)

Next == \E t \in Tx : Begin(t) \/ Proceed(t)

Spec == Init /\ [][Next]_vars

----------------------------------------------------------------------------
(* Properties. *)

\* get_user_permissions: the three joins.
Permissions(u) ==
    {p \in Permission : \E g \in Group, r \in Role :
        links[<<g, u>>] > 0 /\ links[<<g, r>>] > 0 /\ links[<<r, p>>] > 0}

\* The administrator of init_data keeps every permission, whatever sequence of
\* replacements and deletions reaches the group admins, the role admin and
\* himself from both ends of the associations.
RootKeepsPermissions == Permissions(Root) = Permission

\* An update that nobody has disturbed leaves the lists it replaces as they
\* were given: deletion, query and insertion of three statements, twice over
\* for a group, agree with each other (roles that do not exist are skipped).
ReplacementIsExact ==
    [][\A t \in Tx :
         CommitUpdate(t) /\ ~tx[t].touched =>
            \A m \in UNION {Members(k) : k \in tx[t].lists} :
               links'[<<tx[t].owner, m>>] > 0 <=> m \in tx[t].wanted \cap there]_vars

\* The tables accept a pair again and again; only a request that names a member
\* repeatedly, and requests in progress at the same time, none of which has seen
\* the others' pair, store it more than once.
CopiesAreBounded == \A l \in Link : links[l] <= MaxTimes * Cardinality(Tx)

\* Updates of groups and roles hold the rows of one list while they wait for
\* those of the next, and the rows they refer to while they rename their owner.
\* As the order of the lists is the same for all, they wait in a circle only when
\* one of them is about to rename its group or role, to which another update of
\* the same group or role has added members.  (Requests that delete pair by pair
\* may wait in other circles.)
OnlyRenamesDeadlock ==
    \A C \in SUBSET {t \in Tx : tx[t].pc \notin {"row", "flush"}} :
        C # {} /\ InCircle(C) =>
            \E t, s \in C : /\ tx[t].pc = "commit" /\ tx[t].renames
                            /\ tx[s].owner = tx[t].owner /\ RefersTo(s, tx[t].owner)

----------------------------------------------------------------------------
(* The inductive invariant of the proofs. *)

\* A row is deleted by one transaction at a time, and is there until that one
\* commits.
DropInv ==
    /\ \A t \in Tx, l \in Link :
          /\ tx[t].drop[l] <= links[l]
          /\ \A s \in Tx \ {t} : tx[t].drop[l] = 0 \/ tx[s].drop[l] = 0
    /\ \A t \in Tx : tx[t].pc \in {"idle", "created"} => tx[t].drop = Empty

\* No request in progress is about to take a built-in pair away, from
\* whichever end it goes about it.
KeptInv ==
    /\ \A l \in BuiltInLink :
          /\ links[l] > 0
          /\ \A t \in Tx : tx[t].drop[l] = 0 /\ l \notin tx[t].remove
    /\ \A t \in Tx : tx[t].pc \in {"delete", "select", "insert"} =>
          {m \in Entity : <<tx[t].owner, m>> \in BuiltInLink} \subseteq tx[t].kept

Inv == TypeOK /\ DropInv /\ KeptInv
=============================================================================
