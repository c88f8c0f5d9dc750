------------------------------ MODULE RbacInv ------------------------------
(***************************************************************************)
(* What every reachable state of Rbac satisfies besides its Inv: rows      *)
(* refer to what exists, updates that nobody disturbs are as far as their  *)
(* statements have brought them, and copies of a pair are paid for by the  *)
(* requests that have not seen it.                                         *)
(***************************************************************************)
EXTENDS Rbac

Updating == {"delete", "select", "insert", "commit"}

\* What r has inserted refers to what is in T; a deletion inserts nothing.
PutOK(r, T) ==
    /\ r.pc \in Updating => \A l \in r.put : l[1] \in T /\ l[2] \in T
    /\ r.pc \in {"row", "flush"} => \A l \in r.put : l[2] = r.owner /\ r.dying = {}

\* The foreign keys of the association tables hold.
RowsInv ==
    /\ there \subseteq used
    /\ \A l \in Link : links[l] > 0 => l[1] \in there /\ l[2] \in there
    /\ \A t \in Tx : PutOK(tx[t], there)

\* The member m of r's owner as the request has it: what of the pair is there
\* after the commit is what the request asks for.
Replaced(r, m) ==
    LET l == <<r.owner, m>>
    IN  IF m \in r.wanted \cap there
        THEN l \in r.put \/ (links[l] > 0 /\ r.drop[l] = 0)
        ELSE l \notin r.put /\ r.drop[l] = links[l]

\* The member m of a list that r has not begun to replace.
Untouched(r, m) == <<r.owner, m>> \notin r.put /\ r.drop[<<r.owner, m>>] = 0

\* The member m of the list that r replaces now: the rows of the others are deleted.
Deleted(r, m) ==
    LET l == <<r.owner, m>>
    IN  l \notin r.put /\ r.drop[l] = IF m \in r.wanted THEN 0 ELSE links[l]

\* The list that r replaces now.
Now(r) ==
    IF "roles" \in r.todo THEN "roles" ELSE IF "users" \in r.todo THEN "users" ELSE "permissions"

\* The members that r has found not to be linked.
Missed(r) ==
    {m \in r.wanted \cap Members(Now(r)) : links[<<r.owner, m>>] = 0 /\ (m \in Role => m \in there)}

\* An update that nobody disturbs has replaced the lists that are not to do, and
\* has left those alone that come later.
ExactOK(r) ==
    r.pc \in Updating =>
      /\ r.owner \in Group \cup Role
      /\ r.todo \subseteq r.lists /\ r.lists \subseteq Lists(r.owner)
      /\ r.todo = {} <=> r.pc = "commit"
      /\ ~r.touched =>
           /\ \A k \in r.lists \ r.todo : \A m \in Members(k) : Replaced(r, m)
           /\ \A k \in r.todo \ {Now(r)} : \A m \in Members(k) : Untouched(r, m)
           /\ r.pc = "delete" => \A m \in Members(Now(r)) : Untouched(r, m)
           /\ r.pc \in {"select", "insert"} => \A m \in Members(Now(r)) : Deleted(r, m)
           /\ r.pc = "insert" => r.missing = Missed(r)

ExactInv == \A t \in Tx : ExactOK(tx[t])

\* r may still add the pair l: it was not there when r has looked for it.
WillAdd(r, l) ==
    \/ r.pc # "idle" /\ l \in r.put
    \/ r.pc = "insert" /\ l[1] = r.owner /\ l[2] \in r.missing
    \/ r.pc = "created" /\ l[1] = r.owner /\ l[2] \in r.wanted

Adders(l) == {t \in Tx : WillAdd(tx[t], l)}

\* Each request that may still add a pair has not added its copies yet.
CopiesInv ==
    \A l \in Link : links[l] + MaxTimes * Cardinality(Adders(l)) <= MaxTimes * Cardinality(Tx)

\* What every reachable state satisfies (update_group, update_role, update_user, the
\* creations and the deletions): built-in pairs are out of everybody's reach, rows are
\* deleted by one request at a time and refer to what exists, undisturbed updates are
\* exact as far as they have got, and pairs are stored boundedly often.
WholeInv == Inv /\ RowsInv /\ ExactInv /\ CopiesInv
=============================================================================
