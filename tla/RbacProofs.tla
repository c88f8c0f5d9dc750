----------------------------- MODULE RbacProofs -----------------------------
(***************************************************************************)
(* What holds of groups and roles for any number of users, groups, roles,  *)
(* permissions and requests in progress.                                   *)
(***************************************************************************)
EXTENDS RbacInv, FiniteSetTheorems, TLAPS

LEMMA IdleType == Idle \in Transaction /\ Empty \in Bag
BY EntityAssumption DEF Idle, Empty, Transaction, Bag

LEMMA TimesNat == ASSUME TypeOK, NEW t \in Tx PROVE tx[t].times \in Nat
BY EntityAssumption DEF TypeOK, Transaction

\* The built-in pairs are pairs between built-in entities.
LEMMA BuiltInEnds ==
    /\ BuiltInLink \subseteq Link
    /\ BuiltIn \subseteq Entity
    /\ \A l \in BuiltInLink : l = <<l[1], l[2]>> /\ l[1] \in BuiltIn /\ l[2] \in BuiltIn
BY EntityAssumption DEF BuiltInLink, BuiltIn, Link, Entity

LEMMA LinkEnds == \A l \in Link : l = <<l[1], l[2]>> /\ l[1] \in Entity /\ l[2] \in Entity
BY DEF Link, Entity

\* What the invariant asks of one transaction, given the others.
TxOK(r, s) ==
    /\ s \in Transaction
    /\ \A l \in Link :
          /\ s.drop[l] <= links[l]
          /\ \A q \in Tx \ {r} : s.drop[l] = 0 \/ tx[q].drop[l] = 0
    /\ s.pc \in {"idle", "created"} => s.drop = Empty
    /\ \A l \in BuiltInLink : s.drop[l] = 0 /\ l \notin s.remove
    /\ s.pc \in {"delete", "select", "insert"} =>
          {m \in Entity : <<s.owner, m>> \in BuiltInLink} \subseteq s.kept

LEMMA HeldOK == ASSUME Inv, NEW t \in Tx PROVE TxOK(t, tx[t])
BY DEF Inv, TypeOK, DropInv, KeptInv, TxOK

\* A step of one request that commits nothing.
LEMMA TxStep ==
    ASSUME Inv, NEW t \in Tx, NEW r, TxOK(t, r),
           tx' = [tx EXCEPT ![t] = r], calls' \in Nat,
           UNCHANGED <<there, used, links>>
    PROVE  Inv'
<1>1. TypeOK'
  BY DEF Inv, TypeOK, TxOK
<1>2. tx'[t] = r /\ \A s \in Tx \ {t} : tx'[s] = tx[s]
  BY DEF Inv, TypeOK
<1>3. DropInv'
  <2>1. \A s \in Tx, l \in Link :
          /\ tx'[s].drop[l] <= links[l]
          /\ \A q \in Tx \ {s} : tx'[s].drop[l] = 0 \/ tx'[q].drop[l] = 0
    BY <1>2 DEF Inv, DropInv, TxOK
  <2>2. \A s \in Tx : tx'[s].pc \in {"idle", "created"} => tx'[s].drop = Empty
    BY <1>2 DEF Inv, DropInv, TxOK
  <2>3. QED
    BY <2>1, <2>2 DEF DropInv, Empty
<1>4. KeptInv'
  BY <1>2 DEF Inv, KeptInv, TxOK, BuiltInLink
<1>5. QED
  BY <1>1, <1>3, <1>4 DEF Inv

\* When a request ends, the others keep all but their mark.
LEMMA EndedTx ==
    ASSUME TypeOK, NEW t \in Tx, NEW c \in BOOLEAN
    PROVE  /\ Ended(t, c) \in [Tx -> Transaction]
           /\ Ended(t, c)[t] = Idle
           /\ \A s \in Tx \ {t} :
                 /\ Ended(t, c)[s].drop = tx[s].drop /\ Ended(t, c)[s].pc = tx[s].pc
                 /\ Ended(t, c)[s].remove = tx[s].remove /\ Ended(t, c)[s].kept = tx[s].kept
                 /\ Ended(t, c)[s].owner = tx[s].owner /\ Ended(t, c)[s].todo = tx[s].todo
                 /\ Ended(t, c)[s].put = tx[s].put /\ Ended(t, c)[s].missing = tx[s].missing
<1>1. \A s \in Tx : tx[s] \in Transaction
  BY DEF TypeOK
<1>2. ASSUME NEW r \in Transaction
      PROVE  LET q == [r EXCEPT !.touched = @ \/ c]
             IN  /\ q \in Transaction /\ q.drop = r.drop /\ q.pc = r.pc
                 /\ q.remove = r.remove /\ q.kept = r.kept /\ q.owner = r.owner
                 /\ q.todo = r.todo /\ q.put = r.put /\ q.missing = r.missing
  BY DEF Transaction
<1>3. /\ Ended(t, c) = [s \in Tx |-> Ended(t, c)[s]]
      /\ Ended(t, c)[t] = Idle
      /\ \A s \in Tx \ {t} : \/ Ended(t, c)[s] = tx[s]
                             \/ Ended(t, c)[s] = [tx[s] EXCEPT !.touched = @ \/ c]
  BY DEF Ended
<1>4. ASSUME NEW s \in Tx \ {t}
      PROVE  /\ Ended(t, c)[s] \in Transaction
             /\ Ended(t, c)[s].drop = tx[s].drop /\ Ended(t, c)[s].pc = tx[s].pc
             /\ Ended(t, c)[s].remove = tx[s].remove /\ Ended(t, c)[s].kept = tx[s].kept
             /\ Ended(t, c)[s].owner = tx[s].owner /\ Ended(t, c)[s].todo = tx[s].todo
             /\ Ended(t, c)[s].put = tx[s].put /\ Ended(t, c)[s].missing = tx[s].missing
  BY <1>1, <1>2, <1>3
<1>5. \A s \in Tx : Ended(t, c)[s] \in Transaction
  BY <1>3, <1>4, IdleType
<1>6. Ended(t, c) \in [Tx -> Transaction]
  BY <1>3, <1>5
<1>7. QED
  BY <1>3, <1>4, <1>6

\* A request ends, and has committed rows that leave room for the deletions of
\* the others and the built-in pairs.
LEMMA EndStep ==
    ASSUME Inv, NEW t \in Tx, NEW c \in BOOLEAN, NEW r \in Transaction,
           tx' = [Ended(t, c) EXCEPT ![t] = r],
           r.drop = Empty, r.remove = {}, r.pc \notin {"delete", "select", "insert"},
           there' \subseteq Entity, used' \subseteq Entity, calls' \in Nat, links' \in Bag,
           \A l \in Link, s \in Tx \ {t} : tx[s].drop[l] <= links'[l],
           \A l \in BuiltInLink : links'[l] > 0
    PROVE  Inv'
<1>1. /\ tx' \in [Tx -> Transaction] /\ tx'[t] = r
      /\ \A s \in Tx \ {t} :
            /\ tx'[s].drop = tx[s].drop /\ tx'[s].pc = tx[s].pc
            /\ tx'[s].remove = tx[s].remove /\ tx'[s].kept = tx[s].kept
            /\ tx'[s].owner = tx[s].owner
  BY EndedTx DEF Inv
<1>2. TypeOK'
  BY <1>1 DEF TypeOK, Bag
<1>3. DropInv'
  <2>1. \A l \in Link : r.drop[l] = 0 /\ links'[l] \in Nat
    BY DEF Empty, Bag
  <2>2. \A s \in Tx, l \in Link :
          /\ tx'[s].drop[l] <= links'[l]
          /\ \A q \in Tx \ {s} : tx'[s].drop[l] = 0 \/ tx'[q].drop[l] = 0
    BY <1>1, <2>1 DEF Inv, DropInv
  <2>3. \A s \in Tx : tx'[s].pc \in {"idle", "created"} => tx'[s].drop = Empty
    BY <1>1 DEF Inv, DropInv
  <2>4. QED
    BY <2>2, <2>3 DEF DropInv, Empty
<1>4. KeptInv'
  <2>1. \A l \in BuiltInLink, s \in Tx : tx'[s].drop[l] = 0 /\ l \notin tx'[s].remove
    BY <1>1, BuiltInEnds DEF Inv, KeptInv, Empty
  <2>2. \A s \in Tx : tx'[s].pc \in {"delete", "select", "insert"} =>
          {m \in Entity : <<tx'[s].owner, m>> \in BuiltInLink} \subseteq tx'[s].kept
    BY <1>1 DEF Inv, KeptInv
  <2>3. QED
    BY <2>1, <2>2 DEF KeptInv, BuiltInLink
<1>5. QED
  BY <1>2, <1>3, <1>4 DEF Inv

\* The case that nothing but the request's own record is left behind.
LEMMA EndStepIdle ==
    ASSUME Inv, NEW t \in Tx, NEW c \in BOOLEAN, tx' = Ended(t, c),
           there' \subseteq Entity, used' \subseteq Entity, calls' \in Nat, links' \in Bag,
           \A l \in Link, s \in Tx \ {t} : tx[s].drop[l] <= links'[l],
           \A l \in BuiltInLink : links'[l] > 0
    PROVE  Inv'
<1>1. tx' = [Ended(t, c) EXCEPT ![t] = Idle]
  BY EndedTx DEF Inv
<1>2. Idle.drop = Empty /\ Idle.remove = {} /\ Idle.pc = "idle"
  BY DEF Idle
<1>3. QED
  BY <1>1, <1>2, IdleType, EndStep

LEMMA RollbackStep == ASSUME Inv, NEW t \in Tx, Rollback(t) PROVE Inv'
<1>1. \A l \in Link, s \in Tx \ {t} : tx[s].drop[l] <= links'[l]
  BY DEF Inv, DropInv, Rollback
<1>2. \A l \in BuiltInLink : links'[l] > 0
  BY DEF Inv, KeptInv, Rollback
<1>3. QED
  BY <1>1, <1>2, EndStepIdle DEF Rollback, Inv, TypeOK

\* Rows that only become more leave room for everything.
LEMMA MoreLinks ==
    ASSUME Inv, links' \in Bag, \A l \in Link : links[l] <= links'[l]
    PROVE  /\ \A l \in Link, s \in Tx : tx[s].drop[l] <= links'[l]
           /\ \A l \in BuiltInLink : links'[l] > 0
<1>1. \A l \in Link : links[l] \in Nat /\ links'[l] \in Nat /\ \A s \in Tx : tx[s].drop[l] \in Nat
  BY DEF Inv, TypeOK, Transaction, Bag
<1>2. \A l \in Link, s \in Tx : tx[s].drop[l] <= links'[l]
  BY <1>1 DEF Inv, DropInv
<1>3. \A l \in BuiltInLink : links[l] > 0
  BY DEF Inv, KeptInv
<1>4. \A l \in BuiltInLink : links'[l] > 0
  BY <1>1, <1>3, BuiltInEnds
<1>5. QED
  BY <1>2, <1>4

LEMMA InitInv == Init => Inv
<1> SUFFICES ASSUME Init PROVE Inv
  OBVIOUS
<1>1. TypeOK
  BY IdleType, BuiltInEnds DEF Init, TypeOK, Bag
<1>2. DropInv
  <2>1. \A l \in Link : links[l] \in Nat
    BY DEF Init
  <2>2. \A t \in Tx : tx[t].drop = Empty /\ tx[t].pc = "idle"
    BY DEF Init, Idle
  <2>3. QED
    BY <2>1, <2>2 DEF DropInv, Empty
<1>3. KeptInv
  BY BuiltInEnds DEF Init, KeptInv, Idle, Empty
<1>4. QED
  BY <1>1, <1>2, <1>3 DEF Inv

\* A request that begins with what it will flush at its commit.
LEMMA FlushingOK ==
    ASSUME Inv, NEW t \in Tx, NEW r \in Transaction, r.drop = Empty,
           r.pc \in {"row", "flush"},
           r.remove \cap BuiltInLink = {}
    PROVE  TxOK(t, r)
<1>1. \A l \in Link : r.drop[l] = 0 /\ links[l] \in Nat
  BY DEF Empty, Inv, TypeOK, Bag
<1>2. QED
  BY <1>1, BuiltInEnds DEF TxOK

-----------------------------------------------------------------------------
(* The actions. *)

LEMMA CreateStep ==
    ASSUME Inv, NEW t \in Tx, NEW o \in Group \cup Role,
           NEW W \in MembersOf(o, Lists(o)), NEW n \in 1..MaxTimes, Create(t, o, W, n)
    PROVE  Inv'
<1> DEFINE r == [Idle EXCEPT !.pc = "created", !.owner = o, !.wanted = W, !.times = n]
<1>1. o \in Entity /\ W \subseteq Entity
  BY DEF MembersOf, Members, Entity
<1>2. r \in Transaction /\ r.drop = Empty /\ r.remove = {} /\ r.pc = "created"
  BY <1>1, IdleType DEF Transaction, Idle
<1>3. /\ there' \subseteq Entity /\ used' \subseteq Entity /\ calls' \in Nat /\ links' = links
      /\ tx' = [Ended(t, TRUE) EXCEPT ![t] = r]
  BY <1>1 DEF Create, Call, Inv, TypeOK
<1>4. /\ \A l \in Link, s \in Tx \ {t} : tx[s].drop[l] <= links'[l]
      /\ \A l \in BuiltInLink : links'[l] > 0
      /\ links' \in Bag
  BY <1>3 DEF Inv, TypeOK, DropInv, KeptInv
<1> HIDE DEF r
<1>5. QED
  BY <1>2, <1>3, <1>4, EndStep

LEMMA LinkMembersStep == ASSUME Inv, NEW t \in Tx, LinkMembers(t) PROVE Inv'
<1>1. CASE Rollback(t)
  BY <1>1, RollbackStep
<1>2. CASE /\ links' = [l \in Link |-> IF l[1] = tx[t].owner /\ l[2] \in tx[t].wanted
                                       THEN links[l] + tx[t].times ELSE links[l]]
           /\ tx' = Ended(t, TRUE)
           /\ UNCHANGED <<there, used, calls>>
  <2>1. links' \in Bag /\ \A l \in Link : links[l] <= links'[l]
    BY <1>2, TimesNat DEF Inv, TypeOK, Bag
  <2>2. QED
    BY <1>2, <2>1, MoreLinks, EndStepIdle DEF Inv, TypeOK
<1>3. QED
  BY <1>1, <1>2 DEF LinkMembers

LEMMA CreateUserStep ==
    ASSUME Inv, NEW t \in Tx, NEW u \in User, NEW G \in SUBSET Group, CreateUser(t, u, G)
    PROVE  Inv'
<1>1. links' \in Bag /\ \A l \in Link : links[l] <= links'[l]
  BY DEF CreateUser, Inv, TypeOK, Bag
<1>2. there' \subseteq Entity /\ used' \subseteq Entity /\ calls' \in Nat /\ tx' = Ended(t, TRUE)
  BY DEF CreateUser, Call, Inv, TypeOK, Entity
<1>3. QED
  BY <1>1, <1>2, MoreLinks, EndStepIdle

LEMMA UpdateStep ==
    ASSUME Inv, NEW t \in Tx, NEW o \in Group \cup Role, NEW lists \in SUBSET Lists(o),
           NEW W \in MembersOf(o, lists), NEW n \in 1..MaxTimes, NEW rename \in BOOLEAN,
           Update(t, o, lists, W, n, rename)
    PROVE  Inv'
<1> DEFINE r == [Idle EXCEPT !.pc = "delete", !.renames = rename, !.owner = o, !.lists = lists,
                             !.todo = lists, !.wanted = W, !.times = n,
                             !.kept = {m \in Entity : <<o, m>> \in BuiltInLink}]
<1>1. o \in Entity /\ W \subseteq Entity /\ lists \subseteq List
  BY DEF MembersOf, Members, Entity, Lists, List
<1>2. r \in Transaction
  BY <1>1, IdleType DEF Transaction, Idle
<1>3. /\ r.drop = Empty /\ r.remove = {} /\ r.pc = "delete" /\ r.owner = o
      /\ r.kept = {m \in Entity : <<o, m>> \in BuiltInLink}
  BY DEF Idle
<1>4. TxOK(t, r)
  <2>1. \A l \in Link : r.drop[l] = 0 /\ links[l] \in Nat
    BY <1>3 DEF Empty, Inv, TypeOK, Bag
  <2> HIDE DEF r
  <2>2. QED
    BY <1>2, <1>3, <2>1, BuiltInEnds DEF TxOK
<1>5. tx' = [tx EXCEPT ![t] = r] /\ UNCHANGED <<there, used, links>> /\ calls' \in Nat
  BY DEF Update, Call, Inv, TypeOK
<1> HIDE DEF r
<1>6. QED
  BY <1>4, <1>5, TxStep

\* Only an owner that is not built in, or a list that keeps its built-in
\* members, gets as far as the DELETE: no built-in pair is among the others.
LEMMA OthersSpared ==
    ASSUME Inv, NEW t \in Tx, tx[t].pc = "delete", ~Refused(t)
    PROVE  Others(t) \cap BuiltInLink = {}
<1> SUFFICES ASSUME NEW l \in BuiltInLink, l \in Others(t) PROVE FALSE
  OBVIOUS
<1>1. l = <<tx[t].owner, l[2]>> /\ l[2] \in Entity /\ tx[t].owner \in BuiltIn
  BY BuiltInEnds DEF Others
<1>2. l[2] \in tx[t].kept
  BY <1>1 DEF Inv, KeptInv
<1>3. QED
  BY <1>1, <1>2 DEF Others, Refused

LEMMA DeleteOthersStep == ASSUME Inv, NEW t \in Tx, DeleteOthers(t) PROVE Inv'
<1> DEFINE d == [l \in Link |-> IF l \in Others(t) THEN links[l] ELSE tx[t].drop[l]]
           r == [tx[t] EXCEPT !.pc = "select", !.drop = d]
<1>1. TxOK(t, tx[t]) /\ tx[t] \in Transaction
  BY HeldOK DEF TxOK
<1>2. d \in Bag
  BY <1>1 DEF Inv, TypeOK, Bag, Transaction
<1>3. /\ r \in Transaction /\ r.drop = d /\ r.pc = "select"
      /\ r.remove = tx[t].remove /\ r.kept = tx[t].kept /\ r.owner = tx[t].owner
  BY <1>1, <1>2 DEF Transaction
<1>4. \A l \in Link :
          /\ d[l] <= links[l]
          /\ \A q \in Tx \ {t} : d[l] = 0 \/ tx[q].drop[l] = 0
  <2> SUFFICES ASSUME NEW l \in Link
               PROVE  /\ d[l] <= links[l]
                      /\ \A q \in Tx \ {t} : d[l] = 0 \/ tx[q].drop[l] = 0
    OBVIOUS
  <2>1. CASE l \in Others(t)
    BY <2>1 DEF DeleteOthers, Unlocked, Inv, TypeOK, Bag
  <2>2. CASE l \notin Others(t)
    BY <2>2, <1>1 DEF TxOK
  <2>3. QED
    BY <2>1, <2>2
<1>5. \A l \in BuiltInLink : d[l] = 0 /\ l \notin tx[t].remove
  BY <1>1, OthersSpared, BuiltInEnds DEF DeleteOthers, TxOK
<1>6. {m \in Entity : <<tx[t].owner, m>> \in BuiltInLink} \subseteq tx[t].kept
  BY DEF DeleteOthers, Inv, KeptInv
<1>7. tx' = [tx EXCEPT ![t] = r] /\ UNCHANGED <<there, used, links>> /\ calls' \in Nat
  BY DEF DeleteOthers, Inv, TypeOK
<1> HIDE DEF d, r
<1>8. TxOK(t, r)
  BY <1>3, <1>4, <1>5, <1>6 DEF TxOK
<1>9. QED
  BY <1>7, <1>8, TxStep

LEMMA SelectMissingStep == ASSUME Inv, NEW t \in Tx, SelectMissing(t) PROVE Inv'
<1> DEFINE ms == {m \in tx[t].wanted \cap Members(Current(t)) :
                    links[<<tx[t].owner, m>>] = 0 /\ (m \in Role => m \in there)}
           r == [tx[t] EXCEPT !.pc = "insert", !.missing = ms]
<1>1. TxOK(t, tx[t]) /\ tx[t] \in Transaction /\ tx[t].pc = "select"
  BY HeldOK DEF TxOK, SelectMissing
<1>2. ms \subseteq Entity
  BY <1>1 DEF Transaction
<1>3. tx' = [tx EXCEPT ![t] = r] /\ UNCHANGED <<there, used, links>> /\ calls' \in Nat
  BY DEF SelectMissing, Inv, TypeOK
<1> HIDE DEF ms
<1>4. /\ r \in Transaction /\ r.drop = tx[t].drop /\ r.pc = "insert"
      /\ r.remove = tx[t].remove /\ r.kept = tx[t].kept /\ r.owner = tx[t].owner
  BY <1>1, <1>2 DEF Transaction
<1> HIDE DEF r
<1>5. TxOK(t, r)
  BY <1>1, <1>4 DEF TxOK
<1>6. QED
  BY <1>3, <1>5, TxStep

LEMMA InsertMissingStep == ASSUME Inv, NEW t \in Tx, InsertMissing(t) PROVE Inv'
<1> DEFINE p == tx[t].put \cup {<<tx[t].owner, m>> : m \in tx[t].missing}
           r == [tx[t] EXCEPT !.put = p, !.todo = @ \ {Current(t)}, !.missing = {},
                              !.pc = IF tx[t].todo = {Current(t)} THEN "commit" ELSE "delete"]
<1>1. TxOK(t, tx[t]) /\ tx[t] \in Transaction /\ tx[t].pc = "insert"
  BY HeldOK DEF TxOK, InsertMissing
<1>2. CASE Rollback(t)
  BY <1>2, RollbackStep
<1>3. CASE /\ tx[t].missing = {} \/ tx[t].missing \cup {tx[t].owner} \subseteq there
           /\ tx' = [tx EXCEPT
                  ![t].put = @ \cup {<<tx[t].owner, m>> : m \in tx[t].missing},
                  ![t].todo = @ \ {Current(t)}, ![t].missing = {},
                  ![t].pc = IF tx[t].todo = {Current(t)} THEN "commit" ELSE "delete"]
           /\ UNCHANGED <<there, used, links, calls>>
  <2>1. p \subseteq Entity \X Entity
    <3>1. tx[t].put \subseteq Entity \X Entity
      BY <1>1 DEF Transaction
    <3>2. tx[t].missing = {} \/ (tx[t].missing \subseteq Entity /\ tx[t].owner \in Entity)
      BY <1>3 DEF Inv, TypeOK
    <3>3. QED
      BY <3>1, <3>2
  <2>2. tx' = [tx EXCEPT ![t] = r] /\ UNCHANGED <<there, used, links>> /\ calls' \in Nat
    BY <1>1, <1>3 DEF Inv, TypeOK, Transaction
  <2> HIDE DEF p
  <2>3. /\ r \in Transaction /\ r.drop = tx[t].drop /\ r.pc \in {"commit", "delete"}
        /\ r.remove = tx[t].remove /\ r.kept = tx[t].kept /\ r.owner = tx[t].owner
    BY <1>1, <2>1 DEF Transaction
  <2> HIDE DEF r
  <2>4. TxOK(t, r)
    BY <1>1, <2>3 DEF TxOK
  <2>5. QED
    BY <2>2, <2>4, TxStep
<1>4. QED
  BY <1>2, <1>3 DEF InsertMissing

\* What t deletes nobody else has deleted, nor is it built in.
LEMMA CommitStep ==
    ASSUME Inv, NEW t \in Tx, links' = After(t), tx' = Ended(t, TRUE),
           there' \subseteq Entity, UNCHANGED <<used, calls>>
    PROVE  Inv'
<1>1. \A l \in Link :
          /\ links[l] \in Nat /\ tx[t].drop[l] \in Nat /\ tx[t].drop[l] <= links[l]
          /\ links'[l] \in Nat /\ links'[l] >= links[l] - tx[t].drop[l]
  <2>1. \A l \in Link : links[l] \in Nat /\ tx[t].drop[l] \in Nat /\ tx[t].drop[l] <= links[l]
    BY HeldOK DEF Inv, TypeOK, Bag, Transaction, TxOK
  <2>2. \A l \in Link : links'[l] = (links[l] - tx[t].drop[l]) + (IF l \in tx[t].put THEN tx[t].times ELSE 0)
    BY DEF After
  <2>3. QED
    BY <2>1, <2>2, TimesNat DEF Inv
<1>2. links' \in Bag
  BY <1>1 DEF After, Bag
<1>3. ASSUME NEW l \in Link, NEW s \in Tx \ {t} PROVE tx[s].drop[l] <= links'[l]
  <2>1. tx[s].drop[l] \in Nat /\ tx[s].drop[l] <= links[l]
    BY DEF Inv, TypeOK, Transaction, Bag, DropInv
  <2>2. tx[t].drop[l] = 0 \/ tx[s].drop[l] = 0
    BY DEF Inv, DropInv
  <2>3. QED
    BY <1>1, <2>1, <2>2
<1>4. \A l \in BuiltInLink : links'[l] > 0
  BY <1>1, BuiltInEnds DEF Inv, KeptInv
<1>5. QED
  BY <1>2, <1>3, <1>4, EndStepIdle DEF Inv, TypeOK

LEMMA CommitUpdateStep == ASSUME Inv, NEW t \in Tx, CommitUpdate(t) PROVE Inv'
BY CommitStep DEF CommitUpdate, Inv, TypeOK

LEMMA UpdateUserStep ==
    ASSUME Inv, NEW t \in Tx, NEW u \in User, NEW G \in SUBSET Group,
           NEW rename \in BOOLEAN, UpdateUser(t, u, G, rename)
    PROVE  Inv'
<1> DEFINE gone == {l \in Link : l[2] = u /\ links[l] > 0 /\ l[1] \notin G}
           joined == {h \in G : links[<<h, u>>] = 0}
           new == {<<g, u>> : g \in joined}
           r == [Idle EXCEPT !.pc = IF rename THEN "row" ELSE "flush", !.renames = rename,
                             !.owner = u, !.remove = gone, !.put = new]
<1>1. u \in Entity /\ gone \subseteq Link /\ new \subseteq Entity \X Entity
  <2>1. u \in Entity /\ Group \subseteq Entity
    BY DEF Entity
  <2>2. gone \subseteq Link
    OBVIOUS
  <2>3. joined \subseteq Entity
    BY <2>1
  <2>4. new \subseteq Entity \X Entity
    <3> HIDE DEF joined
    <3>1. QED
      BY <2>1, <2>3
  <2>5. QED
    BY <2>1, <2>2, <2>4
<1>2. gone \cap BuiltInLink = {}
  BY BuiltInEnds DEF UpdateUser
<1>3. tx' = [tx EXCEPT ![t] = r] /\ UNCHANGED <<there, used, links>> /\ calls' \in Nat
  BY DEF UpdateUser, Call, Inv, TypeOK
<1> HIDE DEF gone, new
<1>4. r \in Transaction /\ r.drop = Empty /\ r.remove = gone /\ r.pc \in {"row", "flush"}
  BY <1>1, IdleType DEF Transaction, Idle
<1> HIDE DEF r
<1>5. TxOK(t, r)
  BY <1>2, <1>4, FlushingOK
<1>6. QED
  BY <1>3, <1>5, TxStep

LEMMA DeleteStep ==
    ASSUME Inv, NEW t \in Tx, NEW e \in Group \cup Role \cup User, Delete(t, e)
    PROVE  Inv'
<1> DEFINE gone == {l \in Link : Of(l, e) /\ links[l] > 0}
           r == [Idle EXCEPT !.pc = "flush", !.owner = e, !.dying = {e}, !.remove = gone]
<1>1. e \in Entity /\ gone \subseteq Link
  BY DEF Entity
<1>2. gone \cap BuiltInLink = {}
  BY BuiltInEnds DEF Delete, Of
<1>3. tx' = [tx EXCEPT ![t] = r] /\ UNCHANGED <<there, used, links>> /\ calls' \in Nat
  BY DEF Delete, Call, Inv, TypeOK
<1> HIDE DEF gone
<1>4. r \in Transaction /\ r.drop = Empty /\ r.remove = gone /\ r.pc = "flush"
  BY <1>1, IdleType DEF Transaction, Idle
<1> HIDE DEF r
<1>5. TxOK(t, r)
  BY <1>2, <1>4, FlushingOK
<1>6. QED
  BY <1>3, <1>5, TxStep

LEMMA FlushRowStep == ASSUME Inv, NEW t \in Tx, FlushRow(t) PROVE Inv'
<1> DEFINE r == [tx[t] EXCEPT !.pc = "flush"]
<1>1. TxOK(t, tx[t]) /\ tx[t] \in Transaction /\ tx[t].pc = "row"
  BY HeldOK DEF TxOK, FlushRow
<1>2. tx' = [tx EXCEPT ![t] = r] /\ UNCHANGED <<there, used, links>> /\ calls' \in Nat
  BY DEF FlushRow, Inv, TypeOK
<1>3. /\ r \in Transaction /\ r.drop = tx[t].drop /\ r.pc = "flush"
      /\ r.remove = tx[t].remove
  BY <1>1 DEF Transaction
<1> HIDE DEF r
<1>4. TxOK(t, r)
  BY <1>1, <1>3 DEF TxOK
<1>5. QED
  BY <1>2, <1>4, TxStep

\* A pair that is left to delete is not built in.
LEMMA FlushPairStep == ASSUME Inv, NEW t \in Tx, FlushPair(t) PROVE Inv'
<1>1. PICK l \in tx[t].remove :
          /\ Unlocked(t, {l})
          /\ \/ Rollback(t)
             \/ /\ links[l] = 1
                /\ tx' = [tx EXCEPT ![t].remove = @ \ {l}, ![t].drop[l] = 1]
                /\ UNCHANGED <<there, used, links, calls>>
  BY DEF FlushPair
<1>2. CASE Rollback(t)
  BY <1>2, RollbackStep
<1>3. CASE /\ links[l] = 1
           /\ tx' = [tx EXCEPT ![t].remove = @ \ {l}, ![t].drop[l] = 1]
           /\ UNCHANGED <<there, used, links, calls>>
  <2> DEFINE d == [tx[t].drop EXCEPT ![l] = 1]
             rest == tx[t].remove \ {l}
             r == [tx[t] EXCEPT !.remove = rest, !.drop = d]
  <2>1. TxOK(t, tx[t]) /\ tx[t] \in Transaction /\ tx[t].pc = "flush"
    BY HeldOK DEF TxOK, FlushPair
  <2>2. l \in Link /\ l \notin BuiltInLink /\ rest \subseteq Link
    BY <2>1 DEF TxOK, Transaction
  <2>3. d \in Bag /\ d[l] = 1 /\ \A k \in Link \ {l} : d[k] = tx[t].drop[k]
    BY <2>1, <2>2 DEF Transaction, Bag
  <2>4. tx' = [tx EXCEPT ![t] = r] /\ UNCHANGED <<there, used, links>> /\ calls' \in Nat
    BY <1>3, <2>1 DEF Inv, TypeOK, Transaction
  <2> HIDE DEF d
  <2>5. /\ r \in Transaction /\ r.drop = d /\ r.pc = "flush" /\ r.remove = rest
    BY <2>1, <2>2, <2>3 DEF Transaction
  <2>6. \A k \in Link : d[k] <= links[k] /\ \A q \in Tx \ {t} : d[k] = 0 \/ tx[q].drop[k] = 0
    BY <1>1, <1>3, <2>1, <2>3 DEF Unlocked, TxOK
  <2>7. \A k \in BuiltInLink : d[k] = 0 /\ k \notin rest
    BY <2>1, <2>2, <2>3, BuiltInEnds DEF TxOK
  <2> HIDE DEF r
  <2>8. TxOK(t, r)
    BY <2>5, <2>6, <2>7 DEF TxOK
  <2>9. QED
    BY <2>4, <2>8, TxStep
<1>4. QED
  BY <1>1, <1>2, <1>3

LEMMA FlushStep == ASSUME Inv, NEW t \in Tx, Flush(t) PROVE Inv'
<1>1. CASE Rollback(t)
  BY <1>1, RollbackStep
<1>2. CASE /\ links' = After(t)
           /\ there' = there \ tx[t].dying
           /\ tx' = Ended(t, TRUE)
           /\ UNCHANGED <<used, calls>>
  BY <1>2, CommitStep DEF Inv, TypeOK
<1>3. QED
  BY <1>1, <1>2 DEF Flush

-----------------------------------------------------------------------------
(* The theorems. *)

LEMMA InvStep == Inv /\ [Next]_vars => Inv'
<1> SUFFICES ASSUME Inv, [Next]_vars PROVE Inv'
  OBVIOUS
<1>1. CASE UNCHANGED vars
  BY <1>1 DEF vars, Inv, TypeOK, DropInv, KeptInv
<1>2. ASSUME NEW t \in Tx, Begin(t) PROVE Inv'
  <2>1. ASSUME NEW o \in Group \cup Role, NEW n \in 1..MaxTimes,
               NEW W \in MembersOf(o, Lists(o)), Create(t, o, W, n)
        PROVE  Inv'
    BY <2>1, CreateStep
  <2>2. ASSUME NEW u \in User, NEW G \in SUBSET Group, CreateUser(t, u, G) PROVE Inv'
    BY <2>2, CreateUserStep
  <2>3. ASSUME NEW u \in User, NEW G \in SUBSET Group, NEW rename \in BOOLEAN,
               UpdateUser(t, u, G, rename)
        PROVE  Inv'
    BY <2>3, UpdateUserStep
  <2>4. ASSUME NEW o \in Group \cup Role, NEW n \in 1..MaxTimes,
               NEW lists \in (SUBSET Lists(o)) \ {{}},
               NEW W \in MembersOf(o, lists), NEW rename \in BOOLEAN,
               Update(t, o, lists, W, n, rename)
        PROVE  Inv'
    BY <2>4, UpdateStep
  <2>5. ASSUME NEW e \in Group \cup Role \cup User, Delete(t, e) PROVE Inv'
    BY <2>5, DeleteStep
  <2>6. QED
    BY <1>2, <2>1, <2>2, <2>3, <2>4, <2>5 DEF Begin
<1>3. ASSUME NEW t \in Tx, Proceed(t) PROVE Inv'
  <2>1. CASE LinkMembers(t)
    BY <2>1, LinkMembersStep
  <2>2. CASE RefuseUpdate(t) \/ RefuseName(t) \/ DeadlockDetected(t)
    BY <2>2, RollbackStep DEF RefuseUpdate, RefuseName, DeadlockDetected
  <2>3. CASE DeleteOthers(t)
    BY <2>3, DeleteOthersStep
  <2>4. CASE SelectMissing(t)
    BY <2>4, SelectMissingStep
  <2>5. CASE InsertMissing(t)
    BY <2>5, InsertMissingStep
  <2>6. CASE CommitUpdate(t)
    BY <2>6, CommitUpdateStep
  <2>7. CASE FlushRow(t) \/ FlushPair(t) \/ Flush(t)
    BY <2>7, FlushRowStep, FlushPairStep, FlushStep
  <2>8. QED
    BY <1>3, <2>1, <2>2, <2>3, <2>4, <2>5, <2>6, <2>7 DEF Proceed
<1>4. QED
  BY <1>1, <1>2, <1>3 DEF Next

\* Whatever the requests do, in whatever order their statements meet: a row is
\* deleted by one of them at a time, and none is about to take a pair of the
\* built-in group, role and user away (update_group, update_role, update_user
\* and the deletions guard the same pairs from both ends).
THEOREM InvAlways == Spec => []Inv
<1>1. QED
  BY InitInv, InvStep, PTL DEF Spec

\* The administrator that init_data creates can never be left without a
\* permission by updates and deletions of users, groups and roles.
THEOREM RootKeeps == Spec => []RootKeepsPermissions
<1>1. Inv => RootKeepsPermissions
  <2> SUFFICES ASSUME Inv PROVE RootKeepsPermissions
    OBVIOUS
  <2>1. /\ links[<<Admins, Root>>] > 0 /\ links[<<Admins, AdminRole>>] > 0
        /\ \A p \in Permission : links[<<AdminRole, p>>] > 0
    BY DEF Inv, KeptInv, BuiltInLink
  <2>2. QED
    BY <2>1, EntityAssumption DEF RootKeepsPermissions, Permissions
<1>2. QED
  BY <1>1, InvAlways, PTL

-----------------------------------------------------------------------------
(* When updates of groups and roles wait for each other in a circle.         *)

First(L) == IF "roles" \in L THEN "roles" ELSE IF "users" \in L THEN "users" ELSE "permissions"

\* The lists whose rows are not deleted yet.
Left(r) == IF r.pc = "delete" THEN r.todo ELSE r.todo \ {First(r.todo)}

\* An update holds rows of its own lists only, and no rows of the second list
\* while it has the first before it.
OrderOK(r) ==
    r.pc \in {"delete", "select", "insert"} =>
        /\ r.todo # {} /\ r.todo \subseteq Lists(r.owner)
        /\ \A l \in Link : r.drop[l] > 0 =>
              /\ l[1] = r.owner
              /\ "roles" \notin Left(r)
              /\ l[2] \notin Role => Left(r) = {}

\* What the lists of o may name.
Linked(o) == IF o \in Group THEN Role \cup User ELSE Permission

\* Requests that have not begun have inserted nothing, an update has deleted and
\* inserted pairs of its own group or role only.
OwnOK(r) ==
    /\ r.pc \in {"idle", "created"} => r.put = {}
    /\ r.pc \in Updating =>
          /\ r.owner \in Group \cup Role
          /\ \A l \in Link : r.drop[l] > 0 => l[1] = r.owner
          /\ \A l \in r.put : l[1] = r.owner /\ l[2] \in Linked(r.owner)
    /\ r.pc = "insert" => r.missing \subseteq Linked(r.owner)

OrderInv == \A t \in Tx : OrderOK(tx[t]) /\ OwnOK(tx[t])

\* The members of the list that is replaced now may be linked to the owner.
LEMMA CurrentLinked ==
    ASSUME NEW o \in Group \cup Role, NEW L, L # {}, L \subseteq Lists(o)
    PROVE  Members(First(L)) \subseteq Linked(o)
<1>1. CASE o \in Group
  <2>1. First(L) \in {"roles", "users"}
    BY <1>1 DEF First, Lists
  <2>2. QED
    BY <1>1, <2>1 DEF Members, Linked
<1>2. CASE o \notin Group
  <2>1. First(L) = "permissions"
    BY <1>2 DEF First, Lists
  <2>2. QED
    BY <1>2, <2>1 DEF Members, Linked
<1>3. QED
  BY <1>1, <1>2

LEMMA CurrentIsFirst == \A t \in Tx : Current(t) = First(tx[t].todo)
BY DEF Current, First

\* The others keep what OrderOK and OwnOK speak of.
LEMMA OrderStep ==
    ASSUME Inv, OrderInv, NEW t \in Tx, NEW r, OrderOK(r), OwnOK(r),
           \/ tx' = [tx EXCEPT ![t] = r]
           \/ \E c \in BOOLEAN : tx' = [Ended(t, c) EXCEPT ![t] = r]
    PROVE  OrderInv'
<1>1. tx'[t] = r
  BY EndedTx DEF Inv, TypeOK
<1>2. \A s \in Tx \ {t} :
          /\ tx'[s].drop = tx[s].drop /\ tx'[s].pc = tx[s].pc
          /\ tx'[s].owner = tx[s].owner /\ tx'[s].todo = tx[s].todo
          /\ tx'[s].put = tx[s].put /\ tx'[s].missing = tx[s].missing
  BY EndedTx DEF Inv, TypeOK
<1>3. \A s \in Tx \ {t} : OrderOK(tx'[s])
  BY <1>2 DEF OrderInv, OrderOK, Left
<1>4. \A s \in Tx \ {t} : OwnOK(tx'[s])
  BY <1>2 DEF OrderInv, OwnOK
<1>5. QED
  BY <1>1, <1>3, <1>4 DEF OrderInv, OrderOK, OwnOK

\* A request that flushes objects of its session is none of them.
Flushing(r) == r.pc \in {"row", "flush"}

LEMMA FlushingOrder ==
    ASSUME Inv, OrderInv, NEW t \in Tx, NEW r, Flushing(r), tx' = [tx EXCEPT ![t] = r]
    PROVE  OrderInv'
<1>1. OrderOK(r)
  BY DEF OrderOK, Flushing
<1>2. OwnOK(r)
  BY DEF OwnOK, Updating, Flushing
<1>3. QED
  BY <1>1, <1>2, OrderStep

LEMMA EndedOrder ==
    ASSUME Inv, OrderInv, NEW t \in Tx, NEW c \in BOOLEAN, tx' = Ended(t, c)
    PROVE  OrderInv'
<1>1. tx' = [Ended(t, c) EXCEPT ![t] = Idle]
  BY EndedTx DEF Inv
<1>2. OrderOK(Idle) /\ OwnOK(Idle)
  BY DEF OrderOK, OwnOK, Updating, Idle
<1>3. QED
  BY <1>1, <1>2, OrderStep

LEMMA DeleteOthersOrder ==
    ASSUME Inv, OrderInv, NEW t \in Tx, DeleteOthers(t) PROVE OrderInv'
<1> DEFINE d == [l \in Link |-> IF l \in Others(t) THEN links[l] ELSE tx[t].drop[l]]
           r == [tx[t] EXCEPT !.pc = "select", !.drop = d]
           todo == tx[t].todo
<1>1. /\ tx[t] \in Transaction /\ tx[t].pc = "delete" /\ tx' = [tx EXCEPT ![t] = r]
  BY DEF DeleteOthers, Inv, TypeOK
<1>2. /\ r.pc = "select" /\ r.drop = d /\ r.todo = todo /\ r.owner = tx[t].owner
      /\ r.put = tx[t].put
  BY <1>1 DEF Transaction
<1>3. /\ todo # {} /\ todo \subseteq Lists(tx[t].owner)
      /\ \A l \in Link : tx[t].drop[l] > 0 =>
            l[1] = tx[t].owner /\ "roles" \notin todo /\ l[2] \in Role
  BY <1>1 DEF OrderInv, OrderOK, Left
<1>4. ASSUME NEW l \in Link, d[l] > 0
      PROVE  /\ l[1] = tx[t].owner
             /\ "roles" \notin todo \ {First(todo)}
             /\ l[2] \notin Role => todo \ {First(todo)} = {}
  <2>1. "roles" \notin todo \ {First(todo)}
    BY DEF First
  <2>2. CASE l \in Others(t)
    <3>1. l[1] = tx[t].owner /\ l[2] \in Members(First(todo))
      BY <2>2, CurrentIsFirst DEF Others
    <3>2. ASSUME l[2] \notin Role PROVE todo \ {First(todo)} = {}
      <4>1. First(todo) # "roles"
        BY <3>1, <3>2 DEF Members
      <4>2. "roles" \notin todo
        BY <4>1 DEF First
      <4>3. QED
        BY <1>3, <4>2 DEF First, Lists
    <3>3. QED
      BY <2>1, <3>1, <3>2
  <2>3. CASE l \notin Others(t)
    BY <1>3, <1>4, <2>1, <2>3
  <2>4. QED
    BY <2>2, <2>3
<1> HIDE DEF d, r
<1>5. OrderOK(r)
  BY <1>2, <1>3, <1>4 DEF OrderOK, Left
<1>6. OwnOK(r)
  BY <1>1, <1>2, <1>4 DEF OwnOK, OrderInv, Updating
<1>7. QED
  BY <1>1, <1>5, <1>6, OrderStep

LEMMA SelectMissingOrder ==
    ASSUME Inv, OrderInv, NEW t \in Tx, SelectMissing(t) PROVE OrderInv'
<1> DEFINE ms == {m \in tx[t].wanted \cap Members(Current(t)) :
                    links[<<tx[t].owner, m>>] = 0 /\ (m \in Role => m \in there)}
           r == [tx[t] EXCEPT !.pc = "insert", !.missing = ms]
<1>1. tx[t] \in Transaction /\ tx[t].pc = "select" /\ tx' = [tx EXCEPT ![t] = r]
  BY DEF SelectMissing, Inv, TypeOK
<1>2. ms \subseteq Linked(tx[t].owner)
  <2>1. OrderOK(tx[t]) /\ OwnOK(tx[t])
    BY DEF OrderInv
  <2>2. /\ tx[t].todo # {} /\ tx[t].todo \subseteq Lists(tx[t].owner)
        /\ tx[t].owner \in Group \cup Role
    BY <1>1, <2>1 DEF OrderOK, OwnOK, Updating
  <2>3. Members(Current(t)) \subseteq Linked(tx[t].owner)
    BY <2>2, CurrentLinked, CurrentIsFirst
  <2>4. QED
    BY <2>3
<1> HIDE DEF ms
<1>3. /\ r.pc = "insert" /\ r.drop = tx[t].drop /\ r.todo = tx[t].todo /\ r.owner = tx[t].owner
      /\ r.put = tx[t].put /\ r.missing = ms
  BY <1>1 DEF Transaction
<1> HIDE DEF r
<1>4. OrderOK(r)
  BY <1>1, <1>3 DEF OrderInv, OrderOK, Left
<1>5. OwnOK(r)
  BY <1>1, <1>2, <1>3 DEF OrderInv, OwnOK, Updating
<1>6. QED
  BY <1>1, <1>4, <1>5, OrderStep

LEMMA InsertMissingOrder ==
    ASSUME Inv, OrderInv, NEW t \in Tx, InsertMissing(t) PROVE OrderInv'
<1> DEFINE p == tx[t].put \cup {<<tx[t].owner, m>> : m \in tx[t].missing}
           todo == tx[t].todo
           r == [tx[t] EXCEPT !.put = p, !.todo = @ \ {Current(t)}, !.missing = {},
                              !.pc = IF todo = {Current(t)} THEN "commit" ELSE "delete"]
<1>1. tx[t] \in Transaction /\ tx[t].pc = "insert" /\ Current(t) = First(todo)
  BY CurrentIsFirst DEF InsertMissing, Inv, TypeOK
<1>2. CASE Rollback(t)
  BY <1>2, EndedOrder DEF Rollback
<1>3. CASE tx' = [tx EXCEPT
                  ![t].put = @ \cup {<<tx[t].owner, m>> : m \in tx[t].missing},
                  ![t].todo = @ \ {Current(t)}, ![t].missing = {},
                  ![t].pc = IF tx[t].todo = {Current(t)} THEN "commit" ELSE "delete"]
  <2>1. tx' = [tx EXCEPT ![t] = r]
    BY <1>1, <1>3 DEF Inv, TypeOK, Transaction
  <2>2. OrderOK(tx[t]) /\ OwnOK(tx[t])
    BY DEF OrderInv
  <2>3. \A l \in p : l[1] = tx[t].owner /\ l[2] \in Linked(tx[t].owner)
    <3>1. \A l \in {<<tx[t].owner, m>> : m \in tx[t].missing} :
              l[1] = tx[t].owner /\ l[2] \in tx[t].missing
      OBVIOUS
    <3>2. QED
      BY <1>1, <2>2, <3>1 DEF OwnOK, Updating
  <2> HIDE DEF p
  <2>4. /\ r.pc = IF todo = {First(todo)} THEN "commit" ELSE "delete"
        /\ r.drop = tx[t].drop /\ r.todo = todo \ {First(todo)} /\ r.owner = tx[t].owner
        /\ r.put = p
    BY <1>1 DEF Transaction
  <2> HIDE DEF r
  <2>5. OrderOK(r)
    BY <1>1, <2>2, <2>4 DEF OrderOK, Left
  <2>6. OwnOK(r)
    BY <1>1, <2>2, <2>3, <2>4 DEF OwnOK, Updating
  <2>7. QED
    BY <2>1, <2>5, <2>6, OrderStep
<1>4. QED
  BY <1>2, <1>3 DEF InsertMissing

LEMMA BeginOrder == ASSUME Inv, OrderInv, NEW t \in Tx, Begin(t) PROVE OrderInv'
<1>1. ASSUME NEW o, NEW W, NEW n, Create(t, o, W, n) PROVE OrderInv'
  <2> DEFINE r == [Idle EXCEPT !.pc = "created", !.owner = o, !.wanted = W, !.times = n]
  <2>1. OrderOK(r) /\ OwnOK(r)
    BY DEF OrderOK, OwnOK, Updating, Idle
  <2>2. QED
    BY <1>1, <2>1, OrderStep DEF Create
<1>2. ASSUME NEW u, NEW G, CreateUser(t, u, G) PROVE OrderInv'
  BY <1>2, EndedOrder DEF CreateUser
<1>3. ASSUME NEW u, NEW G, NEW rename \in BOOLEAN, UpdateUser(t, u, G, rename) PROVE OrderInv'
  <2> DEFINE r == [Idle EXCEPT !.pc = IF rename THEN "row" ELSE "flush", !.renames = rename,
                       !.owner = u,
                       !.remove = {l \in Link : l[2] = u /\ links[l] > 0 /\ l[1] \notin G},
                       !.put = {<<g, u>> : g \in {h \in G : links[<<h, u>>] = 0}}]
  <2>1. Flushing(r)
    BY DEF Idle, Flushing
  <2>2. tx' = [tx EXCEPT ![t] = r]
    BY <1>3 DEF UpdateUser
  <2> HIDE DEF r
  <2>3. QED
    BY <2>1, <2>2, FlushingOrder
<1>4. ASSUME NEW o \in Group \cup Role, NEW lists \in (SUBSET Lists(o)) \ {{}}, NEW W, NEW n,
             NEW rename \in BOOLEAN, Update(t, o, lists, W, n, rename)
      PROVE  OrderInv'
  <2> DEFINE r == [Idle EXCEPT !.pc = "delete", !.renames = rename, !.owner = o, !.lists = lists,
                       !.todo = lists, !.wanted = W, !.times = n,
                       !.kept = {m \in Entity : <<o, m>> \in BuiltInLink}]
  <2>1. tx' = [tx EXCEPT ![t] = r]
    BY <1>4 DEF Update
  <2>2. r.pc = "delete" /\ r.todo = lists /\ r.owner = o /\ r.drop = Empty /\ r.put = {}
    BY DEF Idle
  <2> HIDE DEF r
  <2>3. OrderOK(r) /\ OwnOK(r)
    BY <2>2 DEF OrderOK, OwnOK, Updating, Empty
  <2>4. QED
    BY <2>1, <2>3, OrderStep
<1>5. ASSUME NEW e, Delete(t, e) PROVE OrderInv'
  <2> DEFINE r == [Idle EXCEPT !.pc = "flush", !.owner = e, !.dying = {e},
                       !.remove = {l \in Link : Of(l, e) /\ links[l] > 0}]
  <2>1. Flushing(r)
    BY DEF Idle, Flushing
  <2>2. tx' = [tx EXCEPT ![t] = r]
    BY <1>5 DEF Delete
  <2> HIDE DEF r
  <2>3. QED
    BY <2>1, <2>2, FlushingOrder
<1>6. QED
  BY <1>1, <1>2, <1>3, <1>4, <1>5 DEF Begin

LEMMA FlushRowOrder == ASSUME Inv, OrderInv, NEW t \in Tx, FlushRow(t) PROVE OrderInv'
<1> DEFINE r == [tx[t] EXCEPT !.pc = "flush"]
<1>1. tx[t] \in Transaction /\ tx' = [tx EXCEPT ![t] = r]
  BY DEF FlushRow, Inv, TypeOK
<1>2. Flushing(r)
  BY <1>1 DEF Transaction, Flushing
<1> HIDE DEF r
<1>3. QED
  BY <1>1, <1>2, FlushingOrder

LEMMA FlushPairOrder == ASSUME Inv, OrderInv, NEW t \in Tx, FlushPair(t) PROVE OrderInv'
<1>1. PICK l \in tx[t].remove :
          \/ Rollback(t)
          \/ tx' = [tx EXCEPT ![t].remove = @ \ {l}, ![t].drop[l] = 1]
  BY DEF FlushPair
<1>2. CASE Rollback(t)
  BY <1>2, EndedOrder DEF Rollback
<1>3. CASE tx' = [tx EXCEPT ![t].remove = @ \ {l}, ![t].drop[l] = 1]
  <2> DEFINE r == [tx[t] EXCEPT !.remove = @ \ {l}, !.drop = [@ EXCEPT ![l] = 1]]
  <2>1. tx[t] \in Transaction /\ tx[t].pc = "flush"
    BY DEF FlushPair, Inv, TypeOK
  <2>2. tx' = [tx EXCEPT ![t] = r]
    BY <1>3, <2>1 DEF Inv, TypeOK, Transaction
  <2>3. Flushing(r)
    BY <2>1 DEF Transaction, Flushing
  <2> HIDE DEF r
  <2>4. QED
    BY <2>2, <2>3, FlushingOrder
<1>4. QED
  BY <1>1, <1>2, <1>3

LEMMA OrderAlways == Spec => []OrderInv
<1>1. Init => OrderInv
  BY DEF Init, OrderInv, OrderOK, OwnOK, Updating, Idle
<1>2. Inv /\ OrderInv /\ [Next]_vars => OrderInv'
  <2> SUFFICES ASSUME Inv, OrderInv, [Next]_vars PROVE OrderInv'
    OBVIOUS
  <2>1. CASE UNCHANGED vars
    BY <2>1 DEF vars, OrderInv, OrderOK, OwnOK
  <2>2. ASSUME NEW t \in Tx, Begin(t) PROVE OrderInv'
    BY <2>2, BeginOrder
  <2>3. ASSUME NEW t \in Tx, Proceed(t) PROVE OrderInv'
    <3>1. CASE Rollback(t) \/ CommitUpdate(t)
      BY <3>1, EndedOrder DEF Rollback, CommitUpdate
    <3>2. CASE LinkMembers(t) \/ Flush(t)
      BY <3>1, <3>2, EndedOrder DEF LinkMembers, Flush
    <3>3. CASE RefuseUpdate(t) \/ RefuseName(t) \/ DeadlockDetected(t)
      BY <3>1, <3>3 DEF RefuseUpdate, RefuseName, DeadlockDetected
    <3>4. QED
      BY <2>3, <3>1, <3>2, <3>3, DeleteOthersOrder, SelectMissingOrder, InsertMissingOrder,
         FlushRowOrder, FlushPairOrder DEF Proceed
  <2>4. QED
    BY <2>1, <2>2, <2>3 DEF Next
<1>3. QED
  BY <1>1, <1>2, InvAlways, PTL DEF Spec

\* The lists alone never do it: the roles come before the users.
LEMMA NoCircleOfLists ==
    ASSUME Inv, OrderInv, NEW D \in SUBSET Tx, NEW t \in D,
           \A s \in D : /\ tx[s].pc = "delete"
                        /\ \E q \in D, l \in Others(s) : tx[q].drop[l] > 0
    PROVE  FALSE
<1>1. ASSUME NEW s \in D
      PROVE  /\ tx[s].todo # {} /\ tx[s].todo \subseteq Lists(tx[s].owner)
             /\ \A l \in Link : tx[s].drop[l] > 0 =>
                   l[1] = tx[s].owner /\ "roles" \notin tx[s].todo /\ l[2] \in Role
  BY DEF OrderInv, OrderOK, Left
<1>2. PICK s \in D : "roles" \notin tx[s].todo
  BY <1>1 DEF Others
<1>3. PICK q \in D, l \in Others(s) : tx[q].drop[l] > 0
  OBVIOUS
<1>4. l \in Link /\ l[2] \in Role
  BY <1>1, <1>3 DEF Others
<1>5. l[2] \in User \cup Permission
  BY <1>2 DEF Others, Current, Members
<1>6. QED
  BY <1>4, <1>5, EntityAssumption

\* Whom a request that flushes nothing may wait for among others of its kind.
LEMMA CircleWaits ==
    ASSUME Inv, NEW C \in SUBSET {t \in Tx : tx[t].pc \notin {"row", "flush"}}, InCircle(C),
           NEW t \in C
    PROVE  \/ /\ tx[t].pc = "delete"
              /\ \E s \in C, l \in Others(t) : tx[s].drop[l] > 0
           \/ /\ tx[t].pc = "commit" /\ tx[t].renames
              /\ \E s \in C : RefersTo(s, tx[t].owner)
<1>1. PICK s \in C : WaitsFor(t, s)
  BY DEF InCircle
<1>2. CASE Blocks(s, t)
  <2>1. \A e : ~Holds(s, e)
    BY DEF Holds
  <2>2. PICK e \in Changes(t) : RefersTo(s, e)
    BY <1>2, <2>1 DEF Blocks
  <2>3. tx[t].pc = "commit" /\ tx[t].renames /\ e = tx[t].owner
    BY <2>2 DEF Changes
  <2>4. QED
    BY <2>2, <2>3
<1>3. QED
  BY <1>1, <1>2 DEF WaitsFor

\* Of what t has deleted or inserted it is the owner.
LEMMA OwnPairs ==
    ASSUME Inv, OrderInv, NEW t \in Tx, tx[t].pc \notin {"row", "flush"}
    PROVE  /\ \A l \in Link : tx[t].drop[l] > 0 => l[1] = tx[t].owner
           /\ \A l \in tx[t].put : /\ tx[t].owner \in Group \cup Role
                                   /\ l[1] = tx[t].owner /\ l[2] \in Linked(tx[t].owner)
<1>1. OwnOK(tx[t]) /\ tx[t] \in Transaction
  BY DEF OrderInv, Inv, TypeOK
<1>2. CASE tx[t].pc \in {"idle", "created"}
  <2>1. \A l \in Link : ~(tx[t].drop[l] > 0)
    BY <1>2 DEF Inv, DropInv, Empty
  <2>2. QED
    BY <1>1, <1>2, <2>1 DEF OwnOK
<1>3. CASE tx[t].pc \in Updating
  BY <1>1, <1>3 DEF OwnOK
<1>4. QED
  BY <1>1, <1>2, <1>3 DEF Transaction, Updating

\* However many updates of groups and roles are in progress: they wait for each
\* other in a circle only when one of them is about to rename (update_group,
\* update_role flush the row at the commit) what another update of the same group
\* or role has added members to.
THEOREM OnlyRenamesDeadlockAlways == Spec => []OnlyRenamesDeadlock
<1>1. Inv /\ OrderInv => OnlyRenamesDeadlock
  <2> SUFFICES ASSUME Inv, OrderInv,
                      NEW C \in SUBSET {t \in Tx : tx[t].pc \notin {"row", "flush"}},
                      InCircle(C), NEW t0 \in C,
                      ~ \E t, s \in C : /\ tx[t].pc = "commit" /\ tx[t].renames
                                        /\ tx[s].owner = tx[t].owner /\ RefersTo(s, tx[t].owner)
               PROVE  FALSE
    BY DEF OnlyRenamesDeadlock
  <2>1. \A t \in C : OwnOK(tx[t])
    BY DEF OrderInv
  <2>2. ASSUME NEW t \in C PROVE tx[t].owner \in Group \cup Role
    BY <2>1, CircleWaits DEF OwnOK, Updating
  <2>3. ASSUME NEW t \in C, tx[t].pc = "delete", NEW s \in C, NEW l \in Others(t), tx[s].drop[l] > 0
        PROVE  tx[s].owner = tx[t].owner
    BY <2>3, OwnPairs DEF Others
  <2>4. ASSUME NEW t \in C, NEW s \in C, RefersTo(s, tx[t].owner), tx[s].owner # tx[t].owner
        PROVE  tx[s].owner \in Group /\ tx[t].owner \in Role
    <3>1. PICK l \in tx[s].put : Of(l, tx[t].owner)
      BY <2>4 DEF RefersTo
    <3>2. l[1] = tx[s].owner /\ l[2] \in Linked(tx[s].owner)
      BY <3>1, OwnPairs
    <3>3. l[2] = tx[t].owner
      BY <2>4, <3>1, <3>2 DEF Of
    <3>4. QED
      BY <2>2, <3>2, <3>3, EntityAssumption DEF Linked
  <2>5. ASSUME NEW t \in C, tx[t].pc # "delete"
        PROVE  tx[t].owner \in Role /\ \E s \in C : tx[s].owner \in Group
    <3>1. tx[t].pc = "commit" /\ tx[t].renames
      BY <2>5, CircleWaits
    <3>2. PICK s \in C : RefersTo(s, tx[t].owner)
      BY <2>5, CircleWaits
    <3>3. QED
      BY <2>4, <3>1, <3>2
  <2>6. CASE \E t \in C : tx[t].owner \in Group
    <3> DEFINE D == {t \in C : tx[t].owner \in Group}
    <3>1. PICK t \in C : tx[t].owner \in Group
      BY <2>6
    <3>2. ASSUME NEW s \in D
          PROVE  tx[s].pc = "delete" /\ \E q \in D, l \in Others(s) : tx[q].drop[l] > 0
      <4>1. tx[s].pc = "delete"
        BY <2>5, EntityAssumption
      <4>2. PICK q \in C, l \in Others(s) : tx[q].drop[l] > 0
        BY <4>1, CircleWaits
      <4>3. QED
        BY <2>3, <4>1, <4>2
    <3>3. t \in D /\ D \in SUBSET Tx
      BY <3>1
    <3> HIDE DEF D
    <3>4. QED
      BY <3>2, <3>3, NoCircleOfLists
  <2>7. CASE ~ \E t \in C : tx[t].owner \in Group
    <3>1. ASSUME NEW s \in C
          PROVE  tx[s].pc = "delete" /\ \E q \in C, l \in Others(s) : tx[q].drop[l] > 0
      BY <2>5, <2>7, CircleWaits
    <3>2. C \in SUBSET Tx
      OBVIOUS
    <3>3. QED
      BY <3>1, <3>2, NoCircleOfLists
  <2>8. QED
    BY <2>6, <2>7
<1>2. QED
  BY <1>1, InvAlways, OrderAlways, PTL

-----------------------------------------------------------------------------
(* The foreign keys, and what is left of a request when it ends.             *)

\* The ends of pairs.
LEMMA PairFrom ==
    ASSUME NEW a, NEW S PROVE \A l \in {<<a, m>> : m \in S} : l = <<a, l[2]>> /\ l[1] = a /\ l[2] \in S
<1> SUFFICES ASSUME NEW l \in {<<a, m>> : m \in S} PROVE l = <<a, l[2]>> /\ l[1] = a /\ l[2] \in S
  OBVIOUS
<1>1. PICK m \in S : l = <<a, m>>
  OBVIOUS
<1>2. QED
  BY <1>1

LEMMA PairTo ==
    ASSUME NEW b, NEW S PROVE \A l \in {<<m, b>> : m \in S} : l = <<l[1], b>> /\ l[2] = b /\ l[1] \in S
<1> SUFFICES ASSUME NEW l \in {<<m, b>> : m \in S} PROVE l = <<l[1], b>> /\ l[2] = b /\ l[1] \in S
  OBVIOUS
<1>1. PICK m \in S : l = <<m, b>>
  OBVIOUS
<1>2. QED
  BY <1>1

\* A rollback leaves the others as they are.
LEMMA RollbackTx ==
    ASSUME TypeOK, NEW t \in Tx, Rollback(t)
    PROVE  tx' = [tx EXCEPT ![t] = Idle] /\ UNCHANGED <<there, used, links>>
<1>1. ASSUME NEW r \in Transaction PROVE [r EXCEPT !.touched = @ \/ FALSE] = r
  BY DEF Transaction
<1>2. \A s \in Tx : tx[s] \in Transaction
  BY DEF TypeOK
<1>3. tx' = [s \in Tx |-> IF s = t THEN Idle ELSE tx[s]]
  BY <1>1, <1>2 DEF Rollback, Ended
<1>4. QED
  BY <1>3 DEF Rollback, TypeOK

\* A commit marks those that are in progress.
LEMMA CommitTx ==
    ASSUME TypeOK, NEW t \in Tx
    PROVE  \A s \in Tx \ {t} :
              \/ tx[s].pc = "idle" /\ Ended(t, TRUE)[s] = tx[s]
              \/ tx[s].pc # "idle" /\ Ended(t, TRUE)[s] = [tx[s] EXCEPT !.touched = TRUE]
BY DEF Ended

\* All of q but its mark is that of r.
Like(q, r) ==
    /\ q.pc = r.pc /\ q.owner = r.owner /\ q.lists = r.lists /\ q.todo = r.todo
    /\ q.wanted = r.wanted /\ q.missing = r.missing /\ q.put = r.put /\ q.dying = r.dying

LEMMA MarkedLike == ASSUME NEW r \in Transaction PROVE Like([r EXCEPT !.touched = TRUE], r)
BY DEF Transaction, Like

LEMMA OthersLike ==
    ASSUME TypeOK, NEW t \in Tx, NEW r,
           tx' = [tx EXCEPT ![t] = r] \/ tx' = [Ended(t, TRUE) EXCEPT ![t] = r]
    PROVE  tx'[t] = r /\ \A s \in Tx \ {t} : Like(tx'[s], tx[s])
<1>1. \A s \in Tx : Like(tx[s], tx[s]) /\ tx[s] \in Transaction
  BY DEF Like, TypeOK
<1>2. CASE tx' = [tx EXCEPT ![t] = r]
  BY <1>1, <1>2 DEF TypeOK
<1>3. CASE tx' = [Ended(t, TRUE) EXCEPT ![t] = r]
  <2>1. tx'[t] = r /\ \A s \in Tx \ {t} : tx'[s] = Ended(t, TRUE)[s]
    BY <1>3 DEF Ended
  <2>2. QED
    BY <1>1, <2>1, CommitTx, MarkedLike
<1>4. QED
  BY <1>2, <1>3

LEMMA EndedIdle == ASSUME NEW t \in Tx, NEW c PROVE Ended(t, c) = [Ended(t, c) EXCEPT ![t] = Idle]
BY DEF Ended

LEMMA IdlePut == Idle.put = {} /\ Idle.pc = "idle" /\ Idle.drop = Empty /\ Idle.touched = FALSE
BY DEF Idle

\* A request goes on, or ends, and rows refer to what exists.
LEMMA RowsStep ==
    ASSUME Inv, RowsInv, NEW t \in Tx, NEW r,
           tx' = [tx EXCEPT ![t] = r] \/ tx' = [Ended(t, TRUE) EXCEPT ![t] = r],
           PutOK(r, there'), there' \subseteq used',
           \A l \in Link : links'[l] > 0 => l[1] \in there' /\ l[2] \in there',
           \A s \in Tx \ {t} : tx[s].pc \in Updating =>
              \A l \in tx[s].put : l[1] \in there' /\ l[2] \in there'
    PROVE  RowsInv'
<1>1. tx'[t] = r /\ \A s \in Tx \ {t} : Like(tx'[s], tx[s])
  BY OthersLike DEF Inv
<1>2. \A s \in Tx \ {t} : PutOK(tx'[s], there')
  BY <1>1 DEF RowsInv, PutOK, Like
<1>3. QED
  BY <1>1, <1>2 DEF RowsInv, PutOK

\* The case that nothing is removed.
LEMMA RowsMore ==
    ASSUME Inv, RowsInv, NEW t \in Tx, NEW r,
           tx' = [tx EXCEPT ![t] = r] \/ tx' = [Ended(t, TRUE) EXCEPT ![t] = r],
           PutOK(r, there'), there' \subseteq used', there \subseteq there',
           \A l \in Link : links'[l] > 0 /\ ~(links[l] > 0) => l[1] \in there' /\ l[2] \in there'
    PROVE  RowsInv'
<1>1. \A l \in Link : links'[l] > 0 => l[1] \in there' /\ l[2] \in there'
  BY DEF RowsInv
<1>2. \A s \in Tx \ {t} : tx[s].pc \in Updating =>
              \A l \in tx[s].put : l[1] \in there' /\ l[2] \in there'
  BY DEF RowsInv, PutOK
<1>3. QED
  BY <1>1, <1>2, RowsStep

\* Without a look at the tables.
LEMMA RowsSame ==
    ASSUME Inv, RowsInv, NEW t \in Tx, NEW r, tx' = [tx EXCEPT ![t] = r], PutOK(r, there'),
           UNCHANGED <<there, used, links>>
    PROVE  RowsInv'
BY RowsMore DEF RowsInv

LEMMA IdlePutOK == ASSUME NEW T PROVE PutOK(Idle, T)
BY DEF PutOK, Idle, Updating

LEMMA RowsRollback == ASSUME Inv, RowsInv, NEW t \in Tx, Rollback(t) PROVE RowsInv'
BY RollbackTx, RowsSame, IdlePutOK DEF Inv

LEMMA RowsBegin == ASSUME Inv, RowsInv, NEW t \in Tx, Begin(t) PROVE RowsInv'
<1>1. ASSUME NEW o, NEW W, NEW n, Create(t, o, W, n) PROVE RowsInv'
  <2> DEFINE r == [Idle EXCEPT !.pc = "created", !.owner = o, !.wanted = W, !.times = n]
  <2>1. PutOK(r, there')
    BY DEF PutOK, Idle, Updating
  <2>2. tx' = [Ended(t, TRUE) EXCEPT ![t] = r] /\ there' = there \cup {o} /\ used' = used \cup {o}
        /\ links' = links
    BY <1>1 DEF Create
  <2> HIDE DEF r
  <2>3. QED
    BY <2>1, <2>2, RowsMore DEF RowsInv
<1>2. ASSUME NEW u \in User, NEW G \in SUBSET Group, CreateUser(t, u, G) PROVE RowsInv'
  <2>1. tx' = [Ended(t, TRUE) EXCEPT ![t] = Idle] /\ there' = there \cup {u} /\ used' = used \cup {u}
        /\ G \subseteq there
    BY <1>2, EndedIdle DEF CreateUser
  <2>2. \A l \in Link : links'[l] > 0 /\ ~(links[l] > 0) => l[1] \in G /\ l[2] = u
    BY <1>2 DEF CreateUser
  <2>3. QED
    BY <2>1, <2>2, IdlePutOK, RowsMore DEF RowsInv
<1>3. ASSUME NEW u, NEW G, NEW rename \in BOOLEAN, UpdateUser(t, u, G, rename) PROVE RowsInv'
  <2> DEFINE new == {<<g, u>> : g \in {h \in G : links[<<h, u>>] = 0}}
             r == [Idle EXCEPT !.pc = IF rename THEN "row" ELSE "flush", !.renames = rename,
                       !.owner = u,
                       !.remove = {l \in Link : l[2] = u /\ links[l] > 0 /\ l[1] \notin G},
                       !.put = new]
  <2>1. \A l \in new : l[2] = u
    BY PairTo
  <2>2. r.pc \in {"row", "flush"} /\ r.put = new /\ r.owner = u /\ r.dying = {}
    BY DEF Idle
  <2>3. tx' = [tx EXCEPT ![t] = r] /\ UNCHANGED <<there, used, links>>
    BY <1>3 DEF UpdateUser
  <2> HIDE DEF r, new
  <2>4. PutOK(r, there')
    BY <2>1, <2>2 DEF PutOK, Updating
  <2>5. QED
    BY <2>3, <2>4, RowsSame
<1>4. ASSUME NEW o \in Group \cup Role, NEW lists \in (SUBSET Lists(o)) \ {{}}, NEW W, NEW n,
             NEW rename \in BOOLEAN, Update(t, o, lists, W, n, rename)
      PROVE  RowsInv'
  <2> DEFINE r == [Idle EXCEPT !.pc = "delete", !.renames = rename, !.owner = o, !.lists = lists,
                       !.todo = lists, !.wanted = W, !.times = n,
                       !.kept = {m \in Entity : <<o, m>> \in BuiltInLink}]
  <2>1. tx' = [tx EXCEPT ![t] = r] /\ UNCHANGED <<there, used, links>>
    BY <1>4 DEF Update
  <2>2. r.pc = "delete" /\ r.put = {}
    BY DEF Idle
  <2> HIDE DEF r
  <2>3. PutOK(r, there')
    BY <2>2 DEF PutOK, Updating
  <2>4. QED
    BY <2>1, <2>3, RowsSame
<1>5. ASSUME NEW e, Delete(t, e) PROVE RowsInv'
  <2> DEFINE r == [Idle EXCEPT !.pc = "flush", !.owner = e, !.dying = {e},
                       !.remove = {l \in Link : Of(l, e) /\ links[l] > 0}]
  <2>1. r.pc = "flush" /\ r.put = {}
    BY DEF Idle
  <2>2. tx' = [tx EXCEPT ![t] = r] /\ UNCHANGED <<there, used, links>>
    BY <1>5 DEF Delete
  <2> HIDE DEF r
  <2>3. PutOK(r, there')
    BY <2>1 DEF PutOK, Updating
  <2>4. QED
    BY <2>2, <2>3, RowsSame
<1>6. QED
  BY <1>1, <1>2, <1>3, <1>4, <1>5 DEF Begin

\* What a commit of t leaves in the tables was there, or is what t has put there.
LEMMA AfterCommit ==
    ASSUME Inv, NEW t \in Tx, NEW l \in Link
    PROVE  /\ links[l] \in Nat /\ tx[t].drop[l] \in Nat /\ tx[t].times \in Nat
           /\ tx[t].drop[l] <= links[l]
           /\ After(t)[l] = (links[l] - tx[t].drop[l]) + (IF l \in tx[t].put THEN tx[t].times ELSE 0)
           /\ After(t)[l] > 0 => links[l] > 0 \/ l \in tx[t].put
<1>1. /\ links[l] \in Nat /\ tx[t].drop[l] \in Nat /\ tx[t].times \in Nat
      /\ tx[t].drop[l] <= links[l]
  BY HeldOK, TimesNat DEF Inv, TypeOK, Bag, Transaction, TxOK
<1>2. After(t)[l] = (links[l] - tx[t].drop[l]) + (IF l \in tx[t].put THEN tx[t].times ELSE 0)
  BY DEF After
<1>3. QED
  BY <1>1, <1>2

LEMMA RowsProceed == ASSUME Inv, RowsInv, NEW t \in Tx, Proceed(t) PROVE RowsInv'
<1>1. CASE Rollback(t)
  BY <1>1, RowsRollback
<1>2. CASE RefuseUpdate(t) \/ RefuseName(t) \/ DeadlockDetected(t)
  BY <1>1, <1>2 DEF RefuseUpdate, RefuseName, DeadlockDetected
<1>3. CASE LinkMembers(t) /\ ~Rollback(t)
  <2>1. /\ tx[t].wanted \cup {tx[t].owner} \subseteq there
        /\ links' = [l \in Link |-> IF l[1] = tx[t].owner /\ l[2] \in tx[t].wanted
                                    THEN links[l] + tx[t].times ELSE links[l]]
        /\ tx' = [Ended(t, TRUE) EXCEPT ![t] = Idle] /\ UNCHANGED <<there, used>>
    BY <1>3, EndedIdle DEF LinkMembers
  <2>2. \A l \in Link : links'[l] > 0 /\ ~(links[l] > 0) => l[1] \in there /\ l[2] \in there
    BY <2>1
  <2>3. QED
    BY <2>1, <2>2, IdlePutOK, RowsMore DEF RowsInv
<1>4. CASE DeleteOthers(t)
  <2> DEFINE d == [l \in Link |-> IF l \in Others(t) THEN links[l] ELSE tx[t].drop[l]]
             r == [tx[t] EXCEPT !.pc = "select", !.drop = d]
  <2>1. /\ tx[t] \in Transaction /\ tx[t].pc = "delete" /\ tx' = [tx EXCEPT ![t] = r]
        /\ UNCHANGED <<there, used, links>>
    BY <1>4 DEF DeleteOthers, Inv, TypeOK
  <2> HIDE DEF d
  <2>2. r.pc = "select" /\ r.put = tx[t].put
    BY <2>1 DEF Transaction
  <2> HIDE DEF r
  <2>3. PutOK(r, there')
    BY <2>1, <2>2 DEF RowsInv, PutOK, Updating
  <2>4. QED
    BY <2>1, <2>3, RowsSame
<1>5. CASE SelectMissing(t)
  <2> DEFINE ms == {m \in tx[t].wanted \cap Members(Current(t)) :
                      links[<<tx[t].owner, m>>] = 0 /\ (m \in Role => m \in there)}
             r == [tx[t] EXCEPT !.pc = "insert", !.missing = ms]
  <2>1. /\ tx[t] \in Transaction /\ tx[t].pc = "select" /\ tx' = [tx EXCEPT ![t] = r]
        /\ UNCHANGED <<there, used, links>>
    BY <1>5 DEF SelectMissing, Inv, TypeOK
  <2> HIDE DEF ms
  <2>2. r.pc = "insert" /\ r.put = tx[t].put
    BY <2>1 DEF Transaction
  <2> HIDE DEF r
  <2>3. PutOK(r, there')
    BY <2>1, <2>2 DEF RowsInv, PutOK, Updating
  <2>4. QED
    BY <2>1, <2>3, RowsSame
<1>6. CASE InsertMissing(t) /\ ~Rollback(t)
  <2> DEFINE p == tx[t].put \cup {<<tx[t].owner, m>> : m \in tx[t].missing}
             r == [tx[t] EXCEPT !.put = p, !.todo = @ \ {Current(t)}, !.missing = {},
                              !.pc = IF tx[t].todo = {Current(t)} THEN "commit" ELSE "delete"]
  <2>1. /\ tx[t] \in Transaction /\ tx[t].pc = "insert"
        /\ tx[t].missing = {} \/ tx[t].missing \cup {tx[t].owner} \subseteq there
        /\ UNCHANGED <<there, used, links>>
        /\ tx' = [tx EXCEPT
                  ![t].put = @ \cup {<<tx[t].owner, m>> : m \in tx[t].missing},
                  ![t].todo = @ \ {Current(t)}, ![t].missing = {},
                  ![t].pc = IF tx[t].todo = {Current(t)} THEN "commit" ELSE "delete"]
    BY <1>6 DEF InsertMissing, Inv, TypeOK
  <2>2. tx' = [tx EXCEPT ![t] = r]
    BY <2>1 DEF Inv, TypeOK, Transaction
  <2>3. \A l \in p : l[1] \in there /\ l[2] \in there
    <3>1. \A l \in {<<tx[t].owner, m>> : m \in tx[t].missing} :
              l[1] = tx[t].owner /\ l[2] \in tx[t].missing
      BY PairFrom
    <3>2. \A l \in tx[t].put : l[1] \in there /\ l[2] \in there
      BY <2>1 DEF RowsInv, PutOK, Updating
    <3>3. QED
      BY <2>1, <3>1, <3>2
  <2> HIDE DEF p
  <2>4. r.pc \in {"commit", "delete"} /\ r.put = p
    BY <2>1 DEF Transaction
  <2> HIDE DEF r
  <2>5. PutOK(r, there')
    BY <2>1, <2>3, <2>4 DEF PutOK
  <2>6. QED
    BY <2>1, <2>2, <2>5, RowsSame
<1>7. CASE CommitUpdate(t)
  <2>1. tx' = [Ended(t, TRUE) EXCEPT ![t] = Idle] /\ UNCHANGED <<there, used>> /\ links' = After(t)
        /\ tx[t].pc = "commit"
    BY <1>7, EndedIdle DEF CommitUpdate
  <2>2. \A l \in tx[t].put : l[1] \in there /\ l[2] \in there
    BY <2>1 DEF RowsInv, PutOK, Updating
  <2>3. \A l \in Link : links'[l] > 0 /\ ~(links[l] > 0) => l[1] \in there /\ l[2] \in there
    BY <2>1, <2>2, AfterCommit
  <2>4. QED
    BY <2>1, <2>3, IdlePutOK, RowsMore DEF RowsInv
<1>8. CASE FlushPair(t) /\ ~Rollback(t)
  <2>1. PICK l \in tx[t].remove :
          /\ tx' = [tx EXCEPT ![t].remove = @ \ {l}, ![t].drop[l] = 1]
          /\ UNCHANGED <<there, used, links>>
    BY <1>8 DEF FlushPair
  <2> DEFINE d == [tx[t].drop EXCEPT ![l] = 1]
             r == [tx[t] EXCEPT !.remove = @ \ {l}, !.drop = d]
  <2>2. tx[t] \in Transaction /\ tx[t].pc = "flush"
    BY <1>8 DEF FlushPair, Inv, TypeOK
  <2>3. tx' = [tx EXCEPT ![t] = r]
    BY <2>1, <2>2 DEF Inv, TypeOK, Transaction
  <2> HIDE DEF d
  <2>4. r.pc = "flush" /\ r.put = tx[t].put /\ r.owner = tx[t].owner /\ r.dying = tx[t].dying
    BY <2>2 DEF Transaction
  <2> HIDE DEF r
  <2>5. PutOK(tx[t], there)
    BY DEF RowsInv
  <2>6. PutOK(r, there')
    BY <2>2, <2>4, <2>5 DEF PutOK, Updating
  <2>7. QED
    BY <2>1, <2>3, <2>6, RowsSame
<1>9. CASE Flush(t) /\ ~Rollback(t)
  <2>0. /\ tx' = [Ended(t, TRUE) EXCEPT ![t] = Idle] /\ links' = After(t)
        /\ there' = there \ tx[t].dying /\ used' = used
        /\ tx[t].pc = "flush" /\ tx[t].remove = {} /\ FlushPasses(t) /\ Free(t)
    BY <1>9, EndedIdle DEF Flush
  <2>1. /\ tx' = [Ended(t, TRUE) EXCEPT ![t] = Idle] /\ links' = After(t)
        /\ there' = there \ tx[t].dying /\ used' = used
        /\ tx[t].pc = "flush" /\ FlushPasses(t)
        /\ \A s \in Tx \ {t}, e \in tx[t].dying : ~RefersTo(s, e)
    <3>1. Changes(t) = tx[t].dying
      BY <2>0 DEF Changes
    <3>2. QED
      BY <2>0, <3>1 DEF Free, Blocks
  <2>2. ASSUME NEW l \in Link, links'[l] > 0 PROVE l[1] \in there' /\ l[2] \in there'
    <3>1. links[l] > 0 \/ l \in tx[t].put
      BY <2>1, <2>2, AfterCommit
    <3>2. CASE l \in tx[t].put
      <4>1. l[2] = tx[t].owner /\ tx[t].dying = {}
        BY <2>1, <3>2 DEF RowsInv, PutOK
      <4>2. QED
        BY <2>1, <3>2, <4>1 DEF FlushPasses
    <3>3. CASE l \notin tx[t].put
      <4>1. \A e \in tx[t].dying : ~Of(l, e)
        <5> SUFFICES ASSUME NEW e \in tx[t].dying, Of(l, e) PROVE FALSE
          OBVIOUS
        <5>1. links[l] = tx[t].drop[l]
          BY <2>1 DEF FlushPasses
        <5>2. QED
          BY <2>1, <2>2, <3>3, <5>1, AfterCommit
      <4>2. l[1] \in there /\ l[2] \in there
        BY <3>1, <3>3 DEF RowsInv
      <4>3. QED
        BY <2>1, <4>1, <4>2 DEF Of
    <3>4. QED
      BY <3>2, <3>3
  <2>3. ASSUME NEW s \in Tx \ {t}, tx[s].pc \in Updating, NEW l \in tx[s].put
        PROVE  l[1] \in there' /\ l[2] \in there'
    <3>1. l[1] \in there /\ l[2] \in there
      BY <2>3 DEF RowsInv, PutOK
    <3>2. \A e \in tx[t].dying : ~Of(l, e)
      BY <2>1, <2>3 DEF RefersTo, Updating
    <3>3. QED
      BY <2>1, <3>1, <3>2 DEF Of
  <2>4. there' \subseteq used'
    BY <2>1 DEF RowsInv
  <2>5. QED
    BY <2>1, <2>2, <2>3, <2>4, IdlePutOK, RowsStep
<1>10. CASE FlushRow(t)
  <2> DEFINE r == [tx[t] EXCEPT !.pc = "flush"]
  <2>1. /\ tx[t] \in Transaction /\ tx[t].pc = "row" /\ tx' = [tx EXCEPT ![t] = r]
        /\ UNCHANGED <<there, used, links>>
    BY <1>10 DEF FlushRow, Inv, TypeOK
  <2>2. r.pc = "flush" /\ r.put = tx[t].put /\ r.owner = tx[t].owner /\ r.dying = tx[t].dying
    BY <2>1 DEF Transaction
  <2> HIDE DEF r
  <2>3. PutOK(tx[t], there)
    BY DEF RowsInv
  <2>4. PutOK(r, there')
    BY <2>1, <2>2, <2>3 DEF PutOK, Updating
  <2>5. QED
    BY <2>1, <2>4, RowsSame
<1>11. QED
  BY <1>1, <1>2, <1>3, <1>4, <1>5, <1>6, <1>7, <1>8, <1>9, <1>10 DEF Proceed

\* A row of the association tables refers to what exists, and an update is about to
\* insert no other.
LEMMA RowsAlways == Spec => []RowsInv
<1>1. Init => RowsInv
  <2> SUFFICES ASSUME Init PROVE RowsInv
    OBVIOUS
  <2>1. \A l \in Link : links[l] > 0 => l[1] \in there /\ l[2] \in there
    BY BuiltInEnds DEF Init
  <2>2. \A t \in Tx : PutOK(tx[t], there)
    BY IdlePutOK DEF Init
  <2>3. QED
    BY <2>1, <2>2 DEF RowsInv, Init
<1>2. Inv /\ RowsInv /\ [Next]_vars => RowsInv'
  BY RowsBegin, RowsProceed DEF Next, vars, RowsInv, PutOK
<1>3. QED
  BY <1>1, <1>2, InvAlways, PTL DEF Spec

-----------------------------------------------------------------------------
(* What an update that nobody disturbs leaves behind.                        *)

\* The pair of an owner and a member of one of his lists is a pair of the tables.
LEMMA PairIsLink ==
    ASSUME NEW o \in Group \cup Role, NEW k \in Lists(o), NEW m \in Members(k)
    PROVE  <<o, m>> \in Link
BY EntityAssumption DEF Lists, Members, Link

\* Different lists have different members.
LEMMA ListsDiffer ==
    ASSUME NEW j \in List, NEW k \in List, j # k, NEW m \in Members(j)
    PROVE  m \notin Members(k)
BY EntityAssumption DEF List, Members

LEMMA NowIsCurrent == \A t \in Tx : Current(t) = Now(tx[t])
BY DEF Current, Now

LEMMA NowIsThere ==
    ASSUME NEW r, r.todo # {}, r.todo \subseteq List PROVE Now(r) \in r.todo
BY DEF Now, List

\* A step of one request that changes no table.
LEMMA ExactStep ==
    ASSUME Inv, ExactInv, NEW t \in Tx, NEW r, tx' = [tx EXCEPT ![t] = r], ExactOK(r),
           UNCHANGED <<there, used, links>>
    PROVE  ExactInv'
<1>1. \A s \in Tx : ExactOK(tx'[s])
  BY DEF ExactInv, Inv, TypeOK
<1>2. \A s \in Tx : ExactOK(tx'[s]) = ExactOK(tx[s])'
  BY DEF ExactOK, Replaced, Untouched, Deleted, Missed, Now
<1>3. QED
  BY <1>1, <1>2 DEF ExactInv

\* A commit marks every update in progress.
LEMMA ExactCommit ==
    ASSUME Inv, ExactInv, NEW t \in Tx, NEW r, r.pc \notin Updating,
           tx' = [Ended(t, TRUE) EXCEPT ![t] = r]
    PROVE  ExactInv'
<1>1. tx'[t] = r /\ \A s \in Tx \ {t} : Like(tx'[s], tx[s])
  BY OthersLike DEF Inv
<1>2. \A s \in Tx \ {t} : tx'[s] = Ended(t, TRUE)[s]
  BY DEF Ended
<1>3. ASSUME NEW s \in Tx \ {t}, tx[s].pc \in Updating PROVE tx'[s].touched = TRUE
  <2>1. tx'[s] = [tx[s] EXCEPT !.touched = TRUE] /\ tx[s] \in Transaction
    BY <1>2, <1>3, CommitTx DEF Updating, Inv, TypeOK
  <2>2. QED
    BY <2>1 DEF Transaction
<1>4. ASSUME NEW s \in Tx PROVE ExactOK(tx[s])'
  <2>1. CASE s = t
    BY <1>1, <2>1 DEF ExactOK
  <2>2. CASE s # t
    <3>1. Like(tx'[s], tx[s]) /\ ExactOK(tx[s])
      BY <1>1, <2>2 DEF ExactInv
    <3>2. tx[s].pc \in Updating => tx'[s].touched = TRUE
      BY <1>3, <2>2
    <3>3. QED
      BY <3>1, <3>2 DEF ExactOK, Like, Updating
  <2>3. QED
    BY <2>1, <2>2
<1>5. QED
  BY <1>4 DEF ExactInv

LEMMA ExactIdle == ASSUME NEW r, r.pc \notin Updating PROVE ExactOK(r)
BY DEF ExactOK

LEMMA ExactEnded ==
    ASSUME Inv, ExactInv, NEW t \in Tx, Rollback(t) \/ tx' = Ended(t, TRUE)
    PROVE  ExactInv'
<1>1. Idle.pc \notin Updating
  BY DEF Idle, Updating
<1>2. CASE Rollback(t)
  BY <1>1, <1>2, RollbackTx, ExactStep, ExactIdle DEF Inv
<1>3. CASE tx' = Ended(t, TRUE)
  BY <1>1, <1>3, EndedIdle, ExactCommit
<1>4. QED
  BY <1>2, <1>3

LEMMA UpdateExact ==
    ASSUME Inv, ExactInv, NEW t \in Tx, NEW o \in Group \cup Role,
           NEW lists \in (SUBSET Lists(o)) \ {{}}, NEW W, NEW n,
           NEW rename \in BOOLEAN, Update(t, o, lists, W, n, rename)
    PROVE  ExactInv'
<1> DEFINE r == [Idle EXCEPT !.pc = "delete", !.renames = rename, !.owner = o, !.lists = lists,
                       !.todo = lists, !.wanted = W, !.times = n,
                       !.kept = {m \in Entity : <<o, m>> \in BuiltInLink}]
<1>1. tx' = [tx EXCEPT ![t] = r] /\ UNCHANGED <<there, used, links>>
  BY DEF Update
<1>2. /\ r.pc = "delete" /\ r.owner = o /\ r.lists = lists /\ r.todo = lists /\ r.put = {}
      /\ r.drop = Empty
  BY DEF Idle
<1> HIDE DEF r
<1>3. \A k \in lists : \A m \in Members(k) : Untouched(r, m)
  <2> SUFFICES ASSUME NEW k \in lists, NEW m \in Members(k) PROVE Untouched(r, m)
    OBVIOUS
  <2>1. <<o, m>> \in Link
    BY PairIsLink
  <2>2. QED
    BY <1>2, <2>1 DEF Untouched, Empty
<1>4. Now(r) \in lists
  BY <1>2, NowIsThere DEF Lists, List
<1>5. ExactOK(r)
  BY <1>2, <1>3, <1>4 DEF ExactOK, Updating
<1>6. QED
  BY <1>1, <1>5, ExactStep

\* Of an update that has lists left to replace.
LEMMA ExactFacts ==
    ASSUME Inv, ExactInv, NEW t \in Tx, tx[t].pc \in {"delete", "select", "insert"}
    PROVE  /\ tx[t] \in Transaction
           /\ tx[t].owner \in Group \cup Role
           /\ tx[t].todo \subseteq tx[t].lists /\ tx[t].lists \subseteq Lists(tx[t].owner)
           /\ tx[t].lists \subseteq List
           /\ Now(tx[t]) \in tx[t].todo
           /\ \A k \in tx[t].lists : \A m \in Members(k) : <<tx[t].owner, m>> \in Link
<1>1. /\ tx[t] \in Transaction
      /\ tx[t].owner \in Group \cup Role
      /\ tx[t].todo \subseteq tx[t].lists /\ tx[t].lists \subseteq Lists(tx[t].owner)
      /\ tx[t].todo # {}
  BY DEF Inv, TypeOK, ExactInv, ExactOK, Updating
<1>2. tx[t].lists \subseteq List
  BY <1>1 DEF Lists, List
<1>3. Now(tx[t]) \in tx[t].todo
  BY <1>1, <1>2, NowIsThere
<1>4. \A k \in tx[t].lists : \A m \in Members(k) : <<tx[t].owner, m>> \in Link
  BY <1>1, PairIsLink
<1>5. QED
  BY <1>1, <1>2, <1>3, <1>4

\* Only rows of the list that is replaced now are deleted.
LEMMA DeleteOthersExact ==
    ASSUME Inv, ExactInv, NEW t \in Tx, DeleteOthers(t) PROVE ExactInv'
<1> DEFINE d == [l \in Link |-> IF l \in Others(t) THEN links[l] ELSE tx[t].drop[l]]
           r == [tx[t] EXCEPT !.pc = "select", !.drop = d]
           q == tx[t]
<1>1. /\ q \in Transaction /\ q.pc = "delete" /\ tx' = [tx EXCEPT ![t] = r]
      /\ UNCHANGED <<there, used, links>>
  BY DEF DeleteOthers, Inv, TypeOK
<1>2. /\ q.owner \in Group \cup Role
      /\ q.todo \subseteq q.lists /\ q.lists \subseteq Lists(q.owner)
      /\ q.lists \subseteq List
      /\ Now(q) \in q.todo
      /\ \A k \in q.lists : \A m \in Members(k) : <<q.owner, m>> \in Link
  BY <1>1, ExactFacts
<1> HIDE DEF d
<1>3. /\ r.pc = "select" /\ r.drop = d /\ r.owner = q.owner /\ r.lists = q.lists
      /\ r.todo = q.todo /\ r.wanted = q.wanted /\ r.put = q.put /\ r.touched = q.touched
  BY <1>1 DEF Transaction
<1>4. Now(r) = Now(q)
  BY <1>3 DEF Now
<1> HIDE DEF r
<1>5. ASSUME ~q.touched
      PROVE  /\ \A k \in q.lists \ q.todo : \A m \in Members(k) : Replaced(q, m)
             /\ \A k \in q.todo : \A m \in Members(k) : Untouched(q, m)
  BY <1>1, <1>2, <1>5 DEF ExactInv, ExactOK, Updating
<1>6. ASSUME NEW k \in q.lists, k # Now(q), NEW m \in Members(k)
      PROVE  d[<<q.owner, m>>] = q.drop[<<q.owner, m>>]
  <2>1. m \notin Members(Now(q))
    BY <1>2, <1>6, ListsDiffer
  <2>2. <<q.owner, m>> \notin Others(t)
    BY <2>1, NowIsCurrent DEF Others
  <2>3. QED
    BY <1>2, <1>6, <2>2 DEF d
<1>7. ASSUME ~q.touched, NEW m \in Members(Now(q)) PROVE Deleted(r, m)
  <2>1. Untouched(q, m) /\ <<q.owner, m>> \in Link
    BY <1>2, <1>5, <1>7
  <2>2. links[<<q.owner, m>>] \in Nat
    BY <2>1 DEF Inv, TypeOK, Bag
  <2>3. <<q.owner, m>> \in Others(t) <=> m \notin q.wanted /\ links[<<q.owner, m>>] > 0
    BY <1>7, <2>1, NowIsCurrent DEF Others
  <2>4. d[<<q.owner, m>>] = IF m \in q.wanted THEN 0 ELSE links[<<q.owner, m>>]
    BY <2>1, <2>2, <2>3 DEF Untouched, d
  <2>5. QED
    BY <1>3, <2>1, <2>4 DEF Deleted, Untouched
<1>8. ASSUME ~q.touched
      PROVE  /\ \A k \in q.lists \ q.todo : \A m \in Members(k) : Replaced(r, m)
             /\ \A k \in q.todo \ {Now(q)} : \A m \in Members(k) : Untouched(r, m)
  BY <1>2, <1>3, <1>5, <1>6, <1>8 DEF Replaced, Untouched
<1>9. ExactOK(r)
  BY <1>2, <1>3, <1>4, <1>7, <1>8 DEF ExactOK, Updating
<1>10. QED
  BY <1>1, <1>9, ExactStep

LEMMA SelectMissingExact ==
    ASSUME Inv, ExactInv, NEW t \in Tx, SelectMissing(t) PROVE ExactInv'
<1> DEFINE ms == {m \in tx[t].wanted \cap Members(Current(t)) :
                    links[<<tx[t].owner, m>>] = 0 /\ (m \in Role => m \in there)}
           r == [tx[t] EXCEPT !.pc = "insert", !.missing = ms]
           q == tx[t]
<1>1. /\ q \in Transaction /\ q.pc = "select" /\ tx' = [tx EXCEPT ![t] = r]
      /\ UNCHANGED <<there, used, links>>
  BY DEF SelectMissing, Inv, TypeOK
<1>2. /\ q.owner \in Group \cup Role
      /\ q.todo \subseteq q.lists /\ q.lists \subseteq Lists(q.owner)
      /\ Now(q) \in q.todo
  BY <1>1, ExactFacts
<1> HIDE DEF ms
<1>3. /\ r.pc = "insert" /\ r.drop = q.drop /\ r.owner = q.owner /\ r.lists = q.lists
      /\ r.todo = q.todo /\ r.wanted = q.wanted /\ r.put = q.put /\ r.touched = q.touched
      /\ r.missing = ms
  BY <1>1 DEF Transaction
<1>4. Now(r) = Now(q)
  BY <1>3 DEF Now
<1> HIDE DEF r
<1>5. r.missing = Missed(r)
  BY <1>3, <1>4, NowIsCurrent DEF Missed, ms
<1>6. ASSUME ~q.touched
      PROVE  /\ \A k \in q.lists \ q.todo : \A m \in Members(k) : Replaced(r, m)
             /\ \A k \in q.todo \ {Now(q)} : \A m \in Members(k) : Untouched(r, m)
             /\ \A m \in Members(Now(q)) : Deleted(r, m)
  <2>1. /\ \A k \in q.lists \ q.todo : \A m \in Members(k) : Replaced(q, m)
        /\ \A k \in q.todo \ {Now(q)} : \A m \in Members(k) : Untouched(q, m)
        /\ \A m \in Members(Now(q)) : Deleted(q, m)
    BY <1>1, <1>6 DEF ExactInv, ExactOK, Updating
  <2>2. QED
    BY <1>3, <2>1 DEF Replaced, Untouched, Deleted
<1>7. ExactOK(r)
  BY <1>2, <1>3, <1>4, <1>5, <1>6 DEF ExactOK, Updating
<1>8. QED
  BY <1>1, <1>7, ExactStep

\* With the missing members put, the list is as the request has it: a member
\* that is not linked and does not exist is a role, which is skipped.
LEMMA InsertMissingExact ==
    ASSUME Inv, RowsInv, ExactInv, NEW t \in Tx, InsertMissing(t) PROVE ExactInv'
<1> DEFINE q == tx[t]
           new == {<<q.owner, m>> : m \in q.missing}
           p == q.put \cup new
           r == [q EXCEPT !.put = p, !.todo = @ \ {Current(t)}, !.missing = {},
                          !.pc = IF q.todo = {Current(t)} THEN "commit" ELSE "delete"]
<1>1. q \in Transaction /\ q.pc = "insert" /\ Current(t) = Now(q)
  BY NowIsCurrent DEF InsertMissing, Inv, TypeOK
<1>2. CASE Rollback(t)
  BY <1>2, ExactEnded
<1>3. CASE /\ q.missing = {} \/ q.missing \cup {q.owner} \subseteq there
           /\ tx' = [tx EXCEPT
                  ![t].put = @ \cup {<<tx[t].owner, m>> : m \in tx[t].missing},
                  ![t].todo = @ \ {Current(t)}, ![t].missing = {},
                  ![t].pc = IF tx[t].todo = {Current(t)} THEN "commit" ELSE "delete"]
           /\ UNCHANGED <<there, used, links, calls>>
  <2>1. tx' = [tx EXCEPT ![t] = r]
    BY <1>1, <1>3 DEF Inv, TypeOK, Transaction
  <2>2. /\ q.owner \in Group \cup Role
        /\ q.todo \subseteq q.lists /\ q.lists \subseteq Lists(q.owner)
        /\ q.lists \subseteq List
        /\ Now(q) \in q.todo
        /\ \A k \in q.lists : \A m \in Members(k) : <<q.owner, m>> \in Link
    BY <1>1, ExactFacts
  <2>3. \A m : <<q.owner, m>> \in new <=> m \in q.missing
    BY PairFrom
  <2> HIDE DEF p, new
  <2>4. /\ r.pc = IF q.todo = {Now(q)} THEN "commit" ELSE "delete"
        /\ r.drop = q.drop /\ r.owner = q.owner /\ r.lists = q.lists /\ r.put = p
        /\ r.todo = q.todo \ {Now(q)} /\ r.wanted = q.wanted /\ r.touched = q.touched
    BY <1>1 DEF Transaction
  <2> HIDE DEF r
  <2>5. ASSUME ~q.touched
        PROVE  /\ \A k \in q.lists \ q.todo : \A m \in Members(k) : Replaced(q, m)
               /\ \A k \in q.todo \ {Now(q)} : \A m \in Members(k) : Untouched(q, m)
               /\ \A m \in Members(Now(q)) : Deleted(q, m)
               /\ q.missing = Missed(q)
    BY <1>1, <2>5 DEF ExactInv, ExactOK, Updating
  <2>6. ASSUME ~q.touched, NEW k \in q.lists, k # Now(q), NEW m \in Members(k)
        PROVE  m \notin q.missing
    <3>1. m \notin Members(Now(q))
      BY <2>2, <2>6, ListsDiffer
    <3>2. QED
      BY <2>5, <2>6, <3>1 DEF Missed
  <2>7. ASSUME ~q.touched, NEW m \in Members(Now(q)) PROVE Replaced(r, m)
    <3> DEFINE l == <<q.owner, m>>
    <3>1. Deleted(q, m) /\ l \in Link /\ q.missing = Missed(q)
      BY <2>2, <2>5, <2>7
    <3>2. links[l] \in Nat /\ (links[l] > 0 => m \in there)
      BY <3>1 DEF Inv, TypeOK, Bag, RowsInv
    <3>3. m \in q.missing <=> m \in q.wanted /\ links[l] = 0 /\ (m \in Role => m \in there)
      BY <2>7, <3>1 DEF Missed
    <3>4. l \in p <=> m \in q.missing
      BY <2>3, <3>1 DEF Deleted, p
    <3>5. m \in q.missing => m \in there
      BY <1>3
    <3> HIDE DEF l
    <3>6. l \notin q.put /\ q.drop[l] = IF m \in q.wanted THEN 0 ELSE links[l]
      BY <3>1 DEF Deleted, l
    <3>7. CASE m \in q.wanted \cap there
      <4>1. l \in p \/ (links[l] > 0 /\ q.drop[l] = 0)
        BY <3>2, <3>3, <3>4, <3>6, <3>7
      <4>2. QED
        BY <2>4, <3>7, <4>1 DEF Replaced, l
    <3>8. CASE m \notin q.wanted \cap there
      <4>1. l \notin p /\ q.drop[l] = links[l]
        BY <3>2, <3>3, <3>4, <3>5, <3>6, <3>8
      <4>2. QED
        BY <2>4, <3>8, <4>1 DEF Replaced, l
    <3>9. QED
      BY <3>7, <3>8
  <2>8. ASSUME ~q.touched
        PROVE  /\ \A k \in q.lists \ q.todo : \A m \in Members(k) : Replaced(r, m)
               /\ \A k \in q.todo \ {Now(q)} : \A m \in Members(k) : Untouched(r, m)
    <3>1. ASSUME NEW k \in q.lists, k # Now(q), NEW m \in Members(k)
          PROVE  <<q.owner, m>> \in p <=> <<q.owner, m>> \in q.put
      BY <2>3, <2>6, <2>8, <3>1 DEF p
    <3>2. QED
      BY <2>2, <2>4, <2>5, <2>8, <3>1 DEF Replaced, Untouched
  <2>9. Now(r) \in r.todo \/ r.pc = "commit"
    <3>1. r.todo = {} <=> q.todo = {Now(q)}
      BY <2>2, <2>4
    <3>2. QED
      BY <2>2, <2>4, <3>1, NowIsThere
  <2>10. r.todo = {} <=> r.pc = "commit"
    BY <2>2, <2>4
  <2>11. ASSUME ~r.touched
         PROVE  /\ \A k \in r.lists \ r.todo : \A m \in Members(k) : Replaced(r, m)
                /\ \A k \in r.todo : \A m \in Members(k) : Untouched(r, m)
    <3>1. ~q.touched
      BY <2>4, <2>11
    <3>2. \A k \in r.lists \ r.todo : k \in q.lists \ q.todo \/ k = Now(q)
      BY <2>4
    <3>3. \A k \in r.lists \ r.todo : \A m \in Members(k) : Replaced(r, m)
      BY <2>7, <2>8, <3>1, <3>2
    <3>4. QED
      BY <2>4, <2>8, <3>1, <3>3
  <2>12. r.pc \in {"commit", "delete"}
    BY <2>4
  <2>13. ExactOK(r)
    BY <2>2, <2>4, <2>9, <2>10, <2>11, <2>12 DEF ExactOK
  <2>14. QED
    BY <1>3, <2>1, <2>13, ExactStep
<1>4. QED
  BY <1>2, <1>3 DEF InsertMissing

LEMMA ExactBegin == ASSUME Inv, ExactInv, NEW t \in Tx, Begin(t) PROVE ExactInv'
<1>1. ASSUME NEW o, NEW W, NEW n, Create(t, o, W, n) PROVE ExactInv'
  <2> DEFINE r == [Idle EXCEPT !.pc = "created", !.owner = o, !.wanted = W, !.times = n]
  <2>1. r.pc \notin Updating
    BY DEF Idle, Updating
  <2>2. tx' = [Ended(t, TRUE) EXCEPT ![t] = r]
    BY <1>1 DEF Create
  <2> HIDE DEF r
  <2>3. QED
    BY <2>1, <2>2, ExactCommit
<1>2. ASSUME NEW u, NEW G, CreateUser(t, u, G) PROVE ExactInv'
  BY <1>2, ExactEnded DEF CreateUser
<1>3. ASSUME NEW u, NEW G, NEW rename \in BOOLEAN, UpdateUser(t, u, G, rename) PROVE ExactInv'
  <2> DEFINE r == [Idle EXCEPT !.pc = IF rename THEN "row" ELSE "flush", !.renames = rename,
                       !.owner = u,
                       !.remove = {l \in Link : l[2] = u /\ links[l] > 0 /\ l[1] \notin G},
                       !.put = {<<g, u>> : g \in {h \in G : links[<<h, u>>] = 0}}]
  <2>1. r.pc \notin Updating
    BY DEF Idle, Updating
  <2>2. tx' = [tx EXCEPT ![t] = r] /\ UNCHANGED <<there, used, links>>
    BY <1>3 DEF UpdateUser
  <2> HIDE DEF r
  <2>3. QED
    BY <2>1, <2>2, ExactIdle, ExactStep
<1>4. ASSUME NEW e, Delete(t, e) PROVE ExactInv'
  <2> DEFINE r == [Idle EXCEPT !.pc = "flush", !.owner = e, !.dying = {e},
                       !.remove = {l \in Link : Of(l, e) /\ links[l] > 0}]
  <2>1. r.pc \notin Updating
    BY DEF Idle, Updating
  <2>2. tx' = [tx EXCEPT ![t] = r] /\ UNCHANGED <<there, used, links>>
    BY <1>4 DEF Delete
  <2> HIDE DEF r
  <2>3. QED
    BY <2>1, <2>2, ExactIdle, ExactStep
<1>5. QED
  BY <1>1, <1>2, <1>3, <1>4, UpdateExact DEF Begin

LEMMA FlushPairExact == ASSUME Inv, ExactInv, NEW t \in Tx, FlushPair(t) PROVE ExactInv'
<1>1. PICK l \in tx[t].remove :
          \/ Rollback(t)
          \/ /\ tx' = [tx EXCEPT ![t].remove = @ \ {l}, ![t].drop[l] = 1]
             /\ UNCHANGED <<there, used, links, calls>>
  BY DEF FlushPair
<1>2. CASE Rollback(t)
  BY <1>2, ExactEnded
<1>3. CASE /\ tx' = [tx EXCEPT ![t].remove = @ \ {l}, ![t].drop[l] = 1]
           /\ UNCHANGED <<there, used, links, calls>>
  <2> DEFINE r == [tx[t] EXCEPT !.remove = @ \ {l}, !.drop = [@ EXCEPT ![l] = 1]]
  <2>1. tx[t] \in Transaction /\ tx[t].pc = "flush"
    BY DEF FlushPair, Inv, TypeOK
  <2>2. tx' = [tx EXCEPT ![t] = r]
    BY <1>3, <2>1 DEF Inv, TypeOK, Transaction
  <2>3. r.pc \notin Updating
    BY <2>1 DEF Transaction, Updating
  <2> HIDE DEF r
  <2>4. QED
    BY <1>3, <2>2, <2>3, ExactIdle, ExactStep
<1>4. QED
  BY <1>1, <1>2, <1>3

LEMMA FlushRowExact == ASSUME Inv, ExactInv, NEW t \in Tx, FlushRow(t) PROVE ExactInv'
<1> DEFINE r == [tx[t] EXCEPT !.pc = "flush"]
<1>1. /\ tx[t] \in Transaction /\ tx' = [tx EXCEPT ![t] = r]
      /\ UNCHANGED <<there, used, links>>
  BY DEF FlushRow, Inv, TypeOK
<1>2. r.pc \notin Updating
  BY <1>1 DEF Transaction, Updating
<1> HIDE DEF r
<1>3. QED
  BY <1>1, <1>2, ExactIdle, ExactStep

LEMMA ExactAlways == Spec => []ExactInv
<1>1. Init => ExactInv
  BY ExactIdle DEF Init, ExactInv, Idle, Updating
<1>2. Inv /\ RowsInv /\ ExactInv /\ [Next]_vars => ExactInv'
  <2> SUFFICES ASSUME Inv, RowsInv, ExactInv, [Next]_vars PROVE ExactInv'
    OBVIOUS
  <2>1. CASE UNCHANGED vars
    BY <2>1 DEF vars, ExactInv, ExactOK, Replaced, Untouched, Deleted, Missed, Now
  <2>2. ASSUME NEW t \in Tx, Begin(t) PROVE ExactInv'
    BY <2>2, ExactBegin
  <2>3. ASSUME NEW t \in Tx, Proceed(t) PROVE ExactInv'
    <3>1. CASE Rollback(t) \/ CommitUpdate(t)
      BY <3>1, ExactEnded DEF CommitUpdate
    <3>2. CASE LinkMembers(t) \/ Flush(t)
      BY <3>1, <3>2, ExactEnded DEF LinkMembers, Flush
    <3>3. CASE RefuseUpdate(t) \/ RefuseName(t) \/ DeadlockDetected(t)
      BY <3>1, <3>3 DEF RefuseUpdate, RefuseName, DeadlockDetected
    <3>4. QED
      BY <2>3, <3>1, <3>2, <3>3, DeleteOthersExact, SelectMissingExact, InsertMissingExact,
         FlushRowExact, FlushPairExact DEF Proceed
  <2>4. QED
    BY <2>1, <2>2, <2>3 DEF Next
<1>3. QED
  BY <1>1, <1>2, InvAlways, RowsAlways, PTL DEF Spec

\* For any lists, owners and requests in progress: the three statements per list
\* of update_group and update_role leave exactly the members asked for that exist,
\* unless somebody else has committed meanwhile.
THEOREM ReplacementIsExactAlways == Spec => ReplacementIsExact
<1>1. ASSUME Inv, ExactInv, NEW t \in Tx, CommitUpdate(t), ~tx[t].touched,
             NEW k \in tx[t].lists, NEW m \in Members(k)
      PROVE  links'[<<tx[t].owner, m>>] > 0 <=> m \in tx[t].wanted \cap there
  <2> DEFINE l == <<tx[t].owner, m>>
  <2>1. /\ tx[t].pc = "commit" /\ links' = After(t)
        /\ tx[t].owner \in Group \cup Role /\ tx[t].lists \subseteq Lists(tx[t].owner)
        /\ tx[t].todo = {}
    BY <1>1 DEF CommitUpdate, ExactInv, ExactOK, Updating
  <2>2. Replaced(tx[t], m)
    BY <1>1, <2>1 DEF ExactInv, ExactOK, Updating
  <2>3. l \in Link
    BY <1>1, <2>1, PairIsLink
  <2>4. /\ links[l] \in Nat /\ tx[t].drop[l] \in Nat /\ tx[t].times \in Nat
        /\ tx[t].drop[l] <= links[l]
        /\ After(t)[l] = (links[l] - tx[t].drop[l]) + (IF l \in tx[t].put THEN tx[t].times ELSE 0)
    BY <1>1, <2>3, AfterCommit
  <2>5. tx[t].times > 0
    BY <1>1, EntityAssumption DEF Inv, TypeOK, Transaction
  <2>6. IF m \in tx[t].wanted \cap there
        THEN l \in tx[t].put \/ (links[l] > 0 /\ tx[t].drop[l] = 0)
        ELSE l \notin tx[t].put /\ tx[t].drop[l] = links[l]
    BY <2>2 DEF Replaced
  <2> HIDE DEF l
  <2>7. After(t)[l] > 0 <=> m \in tx[t].wanted \cap there
    BY <2>4, <2>5, <2>6
  <2>8. QED
    BY <2>1, <2>7 DEF l
<1>2. Inv /\ ExactInv =>
        [\A t \in Tx :
           CommitUpdate(t) /\ ~tx[t].touched =>
              \A m \in UNION {Members(k) : k \in tx[t].lists} :
                 links'[<<tx[t].owner, m>>] > 0 <=> m \in tx[t].wanted \cap there]_vars
  BY <1>1
<1>3. QED
  BY <1>2, InvAlways, ExactAlways, PTL DEF ReplacementIsExact

-----------------------------------------------------------------------------
(* How often a pair can be stored.                                           *)

\* Products with a common factor.
LEMMA Products ==
    ASSUME NEW k \in Nat, NEW a \in Nat, NEW b \in Nat
    PROVE  /\ k * a \in Nat
           /\ a <= b => k * a <= k * b
           /\ a + 1 <= b => k * a + k <= k * b
<1>1. k * a \in Nat
  OBVIOUS
<1>2. ASSUME a <= b PROVE k * a <= k * b
  BY <1>2, Z3
<1>3. ASSUME a + 1 <= b PROVE k * a + k <= k * b
  <2>1. PICK c \in Nat : b = a + 1 + c
    <3>1. b - (a + 1) \in Nat /\ b = a + 1 + (b - (a + 1))
      BY <1>3
    <3>2. QED
      BY <3>1
  <2>2. k * b = k * a + k + k * c /\ k * c \in Nat
    BY <2>1, Z3
  <2>3. QED
    BY <1>1, <2>2
<1>4. QED
  BY <1>1, <1>2, <1>3

\* How many requests there are of a kind.
LEMMA Counting ==
    ASSUME NEW A \in SUBSET Tx, NEW B \in SUBSET Tx
    PROVE  /\ Cardinality(A) \in Nat /\ Cardinality(Tx) \in Nat
           /\ Cardinality(A) <= Cardinality(Tx)
           /\ A \subseteq B => Cardinality(A) <= Cardinality(B)
           /\ \A t \in B : A \subseteq B \ {t} => Cardinality(A) + 1 <= Cardinality(B)
<1>1. IsFiniteSet(A) /\ IsFiniteSet(B) /\ IsFiniteSet(Tx)
  BY RequestAssumption, FS_Subset
<1>2. Cardinality(A) \in Nat /\ Cardinality(B) \in Nat /\ Cardinality(Tx) \in Nat
  BY <1>1, FS_CardinalityType
<1>3. Cardinality(A) <= Cardinality(Tx) /\ (A \subseteq B => Cardinality(A) <= Cardinality(B))
  BY <1>1, FS_Subset
<1>4. ASSUME NEW t \in B, A \subseteq B \ {t} PROVE Cardinality(A) + 1 <= Cardinality(B)
  <2>1. IsFiniteSet(B \ {t}) /\ Cardinality(B \ {t}) = Cardinality(B) - 1
    BY <1>1, FS_RemoveElement
  <2>2. Cardinality(A) <= Cardinality(B \ {t})
    BY <1>4, <2>1, FS_Subset
  <2>3. QED
    BY <1>2, <2>1, <2>2
<1>5. QED
  BY <1>2, <1>3, <1>4

\* A step of t leaves the others as likely to add a pair as they were.  t itself may
\* become likely to add one that is not there, and adds one only if it was.
LEMMA CopiesStep ==
    ASSUME Inv, CopiesInv, NEW t \in Tx, NEW r, links' \in Bag,
           tx' = [tx EXCEPT ![t] = r] \/ tx' = [Ended(t, TRUE) EXCEPT ![t] = r],
           \A l \in Link :
              \/ links'[l] <= links[l] /\ (WillAdd(r, l) => WillAdd(tx[t], l))
              \/ links'[l] = 0
              \/ WillAdd(tx[t], l) /\ ~WillAdd(r, l) /\ links'[l] <= links[l] + MaxTimes
              \/ ~WillAdd(r, l) /\ links'[l] <= MaxTimes
    PROVE  CopiesInv'
<1> SUFFICES ASSUME NEW l \in Link
             PROVE  links'[l] + MaxTimes * Cardinality(Adders(l)') <= MaxTimes * Cardinality(Tx)
  BY DEF CopiesInv
<1>1. tx'[t] = r /\ \A s \in Tx \ {t} : Like(tx'[s], tx[s])
  BY OthersLike DEF Inv
<1> DEFINE A == Adders(l)
           B == {s \in Tx : WillAdd(tx'[s], l)}
<1>2. Adders(l)' = B
  BY DEF Adders, WillAdd
<1>3. \A s \in Tx \ {t} : s \in B <=> s \in A
  BY <1>1 DEF Adders, WillAdd, Like
<1>4. (t \in A <=> WillAdd(tx[t], l)) /\ (t \in B <=> WillAdd(r, l))
  BY <1>1 DEF Adders
<1>5. A \in SUBSET Tx /\ B \in SUBSET Tx
  BY DEF Adders
<1>6. links[l] \in Nat /\ links'[l] \in Nat /\ MaxTimes \in Nat
  BY EntityAssumption DEF Inv, TypeOK, Bag
<1>7. links[l] + MaxTimes * Cardinality(A) <= MaxTimes * Cardinality(Tx)
  BY DEF CopiesInv
<1> HIDE DEF A, B
<1> DEFINE a == Cardinality(A)
           b == Cardinality(B)
           n == Cardinality(Tx)
           ka == MaxTimes * a
           kb == MaxTimes * b
           kn == MaxTimes * n
<1>8. a \in Nat /\ b \in Nat /\ n \in Nat /\ b <= n
  BY <1>5, Counting
<1>9. /\ ka \in Nat /\ kb \in Nat /\ kn \in Nat /\ kb <= kn
      /\ b <= a => kb <= ka
      /\ b + 1 <= a => kb + MaxTimes <= ka
      /\ b + 1 <= n => kb + MaxTimes <= kn
  BY <1>6, <1>8, Products
<1>10. links[l] + ka <= kn
  BY <1>7
<1> HIDE DEF ka, kb, kn
<1>11. CASE links'[l] <= links[l] /\ (WillAdd(r, l) => WillAdd(tx[t], l))
  <2>1. B \subseteq A
    BY <1>3, <1>4, <1>5, <1>11
  <2>2. b <= a
    BY <1>5, <2>1, Counting
  <2>3. links'[l] + kb <= kn
    BY <1>6, <1>9, <1>10, <1>11, <2>2
  <2>4. QED
    BY <1>2, <2>3 DEF kb, kn
<1>12. CASE links'[l] = 0
  <2>1. links'[l] + kb <= kn
    BY <1>9, <1>12
  <2>2. QED
    BY <1>2, <2>1 DEF kb, kn
<1>13. CASE WillAdd(tx[t], l) /\ ~WillAdd(r, l) /\ links'[l] <= links[l] + MaxTimes
  <2>1. t \in A /\ B \subseteq A \ {t}
    BY <1>3, <1>4, <1>5, <1>13
  <2>2. b + 1 <= a
    BY <1>5, <2>1, Counting
  <2>3. links'[l] + kb <= kn
    BY <1>6, <1>9, <1>10, <1>13, <2>2
  <2>4. QED
    BY <1>2, <2>3 DEF kb, kn
<1>14. CASE ~WillAdd(r, l) /\ links'[l] <= MaxTimes
  <2>1. B \subseteq Tx \ {t}
    BY <1>4, <1>5, <1>14
  <2>2. b + 1 <= n
    BY <1>5, <2>1, Counting
  <2>3. links'[l] + kb <= kn
    BY <1>6, <1>9, <1>14, <2>2
  <2>4. QED
    BY <1>2, <2>3 DEF kb, kn
<1>15. QED
  BY <1>11, <1>12, <1>13, <1>14

Unlinked(l) == links[l] = 0

\* Without a change of the tables.
LEMMA CopiesSame ==
    ASSUME Inv, CopiesInv, NEW t \in Tx, NEW r, links' = links,
           tx' = [tx EXCEPT ![t] = r] \/ tx' = [Ended(t, TRUE) EXCEPT ![t] = r],
           \A l \in Link : WillAdd(r, l) => WillAdd(tx[t], l) \/ Unlinked(l)
    PROVE  CopiesInv'
<1>1. links' \in Bag /\ \A l \in Link : links'[l] <= links[l]
  BY DEF Inv, TypeOK, Bag
<1>2. \A l \in Link : Unlinked(l) => links'[l] = 0
  BY DEF Unlinked
<1>3. QED
  BY <1>1, <1>2, CopiesStep

LEMMA IdleAdds == \A l : ~WillAdd(Idle, l)
BY DEF WillAdd, Idle

LEMMA CopiesRollback == ASSUME Inv, CopiesInv, NEW t \in Tx, Rollback(t) PROVE CopiesInv'
BY RollbackTx, CopiesSame, IdleAdds DEF Inv

\* What has never existed is in no pair.
LEMMA UnusedUnlinked ==
    ASSUME Inv, RowsInv, NEW l \in Link, l[1] \notin used \/ l[2] \notin used
    PROVE  links[l] = 0
BY DEF RowsInv, Inv, TypeOK, Bag

LEMMA CopiesBegin == ASSUME Inv, RowsInv, CopiesInv, NEW t \in Tx, Begin(t) PROVE CopiesInv'
<1>1. ASSUME NEW o, NEW W, NEW n, Create(t, o, W, n) PROVE CopiesInv'
  <2> DEFINE r == [Idle EXCEPT !.pc = "created", !.owner = o, !.wanted = W, !.times = n]
  <2>1. \A l : WillAdd(r, l) => l[1] = o
    BY DEF Idle, WillAdd
  <2>2. tx' = [Ended(t, TRUE) EXCEPT ![t] = r] /\ links' = links /\ o \notin used
    BY <1>1 DEF Create
  <2> HIDE DEF r
  <2>3. \A l \in Link : WillAdd(r, l) => links[l] = 0
    BY <2>1, <2>2, UnusedUnlinked
  <2>4. \A l \in Link : WillAdd(r, l) => WillAdd(tx[t], l) \/ Unlinked(l)
    BY <2>3 DEF Unlinked
  <2>5. QED
    BY <2>2, <2>4, CopiesSame
<1>2. ASSUME NEW u \in User, NEW G \in SUBSET Group, CreateUser(t, u, G) PROVE CopiesInv'
  <2>1. tx' = [Ended(t, TRUE) EXCEPT ![t] = Idle] /\ u \notin used
        /\ links' = [l \in Link |-> IF l[1] \in G /\ l[2] = u THEN links[l] + 1 ELSE links[l]]
    BY <1>2, EndedIdle DEF CreateUser
  <2>2. links' \in Bag
    BY <2>1 DEF Inv, TypeOK, Bag
  <2>3. ASSUME NEW l \in Link
        PROVE  links'[l] <= links[l] \/ links'[l] <= MaxTimes
    <3>1. CASE l[2] = u
      <4>1. links[l] = 0
        BY <2>1, <3>1, UnusedUnlinked
      <4>2. links'[l] = 0 \/ links'[l] = 1
        BY <2>1, <4>1
      <4>3. QED
        BY <4>2, EntityAssumption
    <3>2. CASE l[2] # u
      BY <2>1, <3>2 DEF Inv, TypeOK, Bag
    <3>3. QED
      BY <3>1, <3>2
  <2>4. QED
    BY <2>1, <2>2, <2>3, IdleAdds, CopiesStep
<1>3. ASSUME NEW u \in User, NEW G \in SUBSET Group, NEW rename \in BOOLEAN,
             UpdateUser(t, u, G, rename)
      PROVE  CopiesInv'
  <2> DEFINE joined == {h \in G : links[<<h, u>>] = 0}
             new == {<<g, u>> : g \in joined}
             r == [Idle EXCEPT !.pc = IF rename THEN "row" ELSE "flush", !.renames = rename,
                       !.owner = u,
                       !.remove = {l \in Link : l[2] = u /\ links[l] > 0 /\ l[1] \notin G},
                       !.put = new]
  <2>1. \A l \in new : l = <<l[1], u>> /\ l[1] \in joined
    BY PairTo
  <2>2. \A l \in new : links[l] = 0
    BY <2>1
  <2> HIDE DEF new
  <2>3. \A l : WillAdd(r, l) => l \in new
    BY DEF Idle, WillAdd
  <2>4. tx' = [tx EXCEPT ![t] = r] /\ links' = links
    BY <1>3 DEF UpdateUser, new
  <2> HIDE DEF r
  <2>5. \A l \in Link : WillAdd(r, l) => WillAdd(tx[t], l) \/ Unlinked(l)
    BY <2>2, <2>3 DEF Unlinked
  <2>6. QED
    BY <2>4, <2>5, CopiesSame
<1>4. ASSUME NEW o \in Group \cup Role, NEW lists \in (SUBSET Lists(o)) \ {{}}, NEW W, NEW n,
             NEW rename \in BOOLEAN, Update(t, o, lists, W, n, rename)
      PROVE  CopiesInv'
  <2> DEFINE r == [Idle EXCEPT !.pc = "delete", !.renames = rename, !.owner = o, !.lists = lists,
                       !.todo = lists, !.wanted = W, !.times = n,
                       !.kept = {m \in Entity : <<o, m>> \in BuiltInLink}]
  <2>1. tx' = [tx EXCEPT ![t] = r] /\ links' = links
    BY <1>4 DEF Update
  <2>2. \A l : ~WillAdd(r, l)
    BY DEF Idle, WillAdd
  <2> HIDE DEF r
  <2>3. QED
    BY <2>1, <2>2, CopiesSame
<1>5. ASSUME NEW e, Delete(t, e) PROVE CopiesInv'
  <2> DEFINE r == [Idle EXCEPT !.pc = "flush", !.owner = e, !.dying = {e},
                       !.remove = {l \in Link : Of(l, e) /\ links[l] > 0}]
  <2>1. tx' = [tx EXCEPT ![t] = r] /\ links' = links
    BY <1>5 DEF Delete
  <2>2. \A l : ~WillAdd(r, l)
    BY DEF Idle, WillAdd
  <2> HIDE DEF r
  <2>3. QED
    BY <2>1, <2>2, CopiesSame
<1>6. QED
  BY <1>1, <1>2, <1>3, <1>4, <1>5 DEF Begin

\* A commit adds its copies once, and is not likely to add any more.
LEMMA CopiesCommit ==
    ASSUME Inv, CopiesInv, NEW t \in Tx, tx[t].pc # "idle", links' = After(t),
           tx' = Ended(t, TRUE)
    PROVE  CopiesInv'
<1>1. ASSUME NEW l \in Link
      PROVE  \/ links'[l] <= links[l]
             \/ WillAdd(tx[t], l) /\ links'[l] <= links[l] + MaxTimes
  <2>1. /\ links[l] \in Nat /\ tx[t].drop[l] \in Nat /\ tx[t].times \in Nat
        /\ tx[t].drop[l] <= links[l]
        /\ links'[l] = (links[l] - tx[t].drop[l]) + (IF l \in tx[t].put THEN tx[t].times ELSE 0)
    BY AfterCommit
  <2>2. tx[t].times <= MaxTimes /\ MaxTimes \in Nat
    BY EntityAssumption DEF Inv, TypeOK, Transaction
  <2>3. CASE l \in tx[t].put
    <3>1. WillAdd(tx[t], l)
      BY <2>3 DEF WillAdd
    <3>2. QED
      BY <2>1, <2>2, <2>3, <3>1
  <2>4. CASE l \notin tx[t].put
    BY <2>1, <2>4
  <2>5. QED
    BY <2>3, <2>4
<1>2. links' \in Bag
  <2>1. \A l \in Link : links'[l] \in Nat
    <3> SUFFICES ASSUME NEW l \in Link PROVE links'[l] \in Nat
      OBVIOUS
    <3>1. /\ links[l] \in Nat /\ tx[t].drop[l] \in Nat /\ tx[t].times \in Nat
          /\ tx[t].drop[l] <= links[l]
          /\ links'[l] = (links[l] - tx[t].drop[l]) + (IF l \in tx[t].put THEN tx[t].times ELSE 0)
      BY AfterCommit
    <3>2. QED
      BY <3>1
  <2>2. QED
    BY <2>1 DEF After, Bag
<1>3. tx' = [Ended(t, TRUE) EXCEPT ![t] = Idle]
  BY EndedIdle
<1>4. QED
  BY <1>1, <1>2, <1>3, IdleAdds, CopiesStep

LEMMA CopiesProceed == ASSUME Inv, CopiesInv, NEW t \in Tx, Proceed(t) PROVE CopiesInv'
<1>1. CASE Rollback(t)
  BY <1>1, CopiesRollback
<1>2. CASE RefuseUpdate(t) \/ RefuseName(t) \/ DeadlockDetected(t)
  BY <1>1, <1>2 DEF RefuseUpdate, RefuseName, DeadlockDetected
<1>3. CASE LinkMembers(t) /\ ~Rollback(t)
  <2>1. /\ links' = [l \in Link |-> IF l[1] = tx[t].owner /\ l[2] \in tx[t].wanted
                                    THEN links[l] + tx[t].times ELSE links[l]]
        /\ tx' = [Ended(t, TRUE) EXCEPT ![t] = Idle] /\ tx[t].pc = "created"
    BY <1>3, EndedIdle DEF LinkMembers
  <2>2. tx[t].times \in Nat /\ tx[t].times <= MaxTimes /\ MaxTimes \in Nat
    BY EntityAssumption DEF Inv, TypeOK, Transaction
  <2>3. links' \in Bag
    BY <2>1, <2>2 DEF Inv, TypeOK, Bag
  <2>4. ASSUME NEW l \in Link
        PROVE  \/ links'[l] <= links[l]
               \/ WillAdd(tx[t], l) /\ links'[l] <= links[l] + MaxTimes
    <3>1. links[l] \in Nat
      BY DEF Inv, TypeOK, Bag
    <3>2. CASE l[1] = tx[t].owner /\ l[2] \in tx[t].wanted
      <4>1. WillAdd(tx[t], l)
        BY <2>1, <3>2 DEF WillAdd
      <4>2. links'[l] = links[l] + tx[t].times
        BY <2>1, <3>2
      <4>3. QED
        BY <2>2, <3>1, <4>1, <4>2
    <3>3. CASE ~(l[1] = tx[t].owner /\ l[2] \in tx[t].wanted)
      BY <2>1, <3>1, <3>3
    <3>4. QED
      BY <3>2, <3>3
  <2>5. QED
    BY <2>1, <2>3, <2>4, IdleAdds, CopiesStep
<1>4. CASE DeleteOthers(t)
  <2> DEFINE d == [l \in Link |-> IF l \in Others(t) THEN links[l] ELSE tx[t].drop[l]]
             r == [tx[t] EXCEPT !.pc = "select", !.drop = d]
  <2>1. /\ tx[t] \in Transaction /\ tx[t].pc = "delete" /\ tx' = [tx EXCEPT ![t] = r]
        /\ links' = links
    BY <1>4 DEF DeleteOthers, Inv, TypeOK
  <2> HIDE DEF d
  <2>2. r.pc = "select" /\ r.put = tx[t].put
    BY <2>1 DEF Transaction
  <2> HIDE DEF r
  <2>3. \A l : WillAdd(r, l) => WillAdd(tx[t], l)
    BY <2>1, <2>2 DEF WillAdd
  <2>4. QED
    BY <2>1, <2>3, CopiesSame
<1>5. CASE SelectMissing(t)
  <2> DEFINE ms == {m \in tx[t].wanted \cap Members(Current(t)) :
                      links[<<tx[t].owner, m>>] = 0 /\ (m \in Role => m \in there)}
             r == [tx[t] EXCEPT !.pc = "insert", !.missing = ms]
  <2>1. /\ tx[t] \in Transaction /\ tx[t].pc = "select" /\ tx' = [tx EXCEPT ![t] = r]
        /\ links' = links
    BY <1>5 DEF SelectMissing, Inv, TypeOK
  <2>2. \A m \in ms : links[<<tx[t].owner, m>>] = 0
    OBVIOUS
  <2> HIDE DEF ms
  <2>3. r.pc = "insert" /\ r.put = tx[t].put /\ r.owner = tx[t].owner /\ r.missing = ms
    BY <2>1 DEF Transaction
  <2> HIDE DEF r
  <2>4. ASSUME NEW l \in Link, WillAdd(r, l) PROVE WillAdd(tx[t], l) \/ Unlinked(l)
    <3>1. CASE l \in r.put
      BY <2>1, <2>3, <3>1 DEF WillAdd
    <3>2. CASE l[1] = r.owner /\ l[2] \in r.missing
      BY <2>2, <2>3, <3>2, LinkEnds DEF Unlinked
    <3>3. QED
      BY <2>3, <2>4, <3>1, <3>2 DEF WillAdd
  <2>5. QED
    BY <2>1, <2>4, CopiesSame
<1>6. CASE InsertMissing(t) /\ ~Rollback(t)
  <2> DEFINE new == {<<tx[t].owner, m>> : m \in tx[t].missing}
             p == tx[t].put \cup new
             r == [tx[t] EXCEPT !.put = p, !.todo = @ \ {Current(t)}, !.missing = {},
                              !.pc = IF tx[t].todo = {Current(t)} THEN "commit" ELSE "delete"]
  <2>1. /\ tx[t] \in Transaction /\ tx[t].pc = "insert" /\ links' = links
        /\ tx' = [tx EXCEPT
                  ![t].put = @ \cup {<<tx[t].owner, m>> : m \in tx[t].missing},
                  ![t].todo = @ \ {Current(t)}, ![t].missing = {},
                  ![t].pc = IF tx[t].todo = {Current(t)} THEN "commit" ELSE "delete"]
    BY <1>6 DEF InsertMissing, Inv, TypeOK
  <2>2. tx' = [tx EXCEPT ![t] = r]
    BY <2>1 DEF Inv, TypeOK, Transaction
  <2>3. \A l \in new : l[1] = tx[t].owner /\ l[2] \in tx[t].missing
    BY PairFrom
  <2> HIDE DEF p, new
  <2>4. r.pc \in {"commit", "delete"} /\ r.put = p
    BY <2>1 DEF Transaction
  <2> HIDE DEF r
  <2>5. ASSUME NEW l, WillAdd(r, l) PROVE WillAdd(tx[t], l)
    <3>1. l \in tx[t].put \/ l \in new
      BY <2>4, <2>5 DEF WillAdd, p
    <3>2. QED
      BY <2>1, <2>3, <3>1 DEF WillAdd
  <2>6. QED
    BY <2>1, <2>2, <2>5, CopiesSame
<1>7. CASE CommitUpdate(t)
  BY <1>7, CopiesCommit DEF CommitUpdate
<1>8. CASE FlushPair(t) /\ ~Rollback(t)
  <2>1. PICK l \in tx[t].remove :
          /\ tx' = [tx EXCEPT ![t].remove = @ \ {l}, ![t].drop[l] = 1]
          /\ links' = links
    BY <1>8 DEF FlushPair
  <2> DEFINE r == [tx[t] EXCEPT !.remove = @ \ {l}, !.drop = [@ EXCEPT ![l] = 1]]
  <2>2. tx[t] \in Transaction /\ tx[t].pc = "flush"
    BY <1>8 DEF FlushPair, Inv, TypeOK
  <2>3. tx' = [tx EXCEPT ![t] = r]
    BY <2>1, <2>2 DEF Inv, TypeOK, Transaction
  <2>4. r.pc = "flush" /\ r.put = tx[t].put
    BY <2>2 DEF Transaction
  <2> HIDE DEF r
  <2>5. \A k : WillAdd(r, k) => WillAdd(tx[t], k)
    BY <2>2, <2>4 DEF WillAdd
  <2>6. QED
    BY <2>1, <2>3, <2>5, CopiesSame
<1>9. CASE Flush(t) /\ ~Rollback(t)
  BY <1>9, CopiesCommit DEF Flush
<1>10. CASE FlushRow(t)
  <2> DEFINE r == [tx[t] EXCEPT !.pc = "flush"]
  <2>1. /\ tx[t] \in Transaction /\ tx[t].pc = "row" /\ tx' = [tx EXCEPT ![t] = r]
        /\ links' = links
    BY <1>10 DEF FlushRow, Inv, TypeOK
  <2>2. r.pc = "flush" /\ r.put = tx[t].put
    BY <2>1 DEF Transaction
  <2> HIDE DEF r
  <2>3. \A l : WillAdd(r, l) => WillAdd(tx[t], l)
    BY <2>1, <2>2 DEF WillAdd
  <2>4. QED
    BY <2>1, <2>3, CopiesSame
<1>11. QED
  BY <1>1, <1>2, <1>3, <1>4, <1>5, <1>6, <1>7, <1>8, <1>9, <1>10 DEF Proceed

LEMMA CopiesAlways == Spec => []CopiesInv
<1>1. Init => CopiesInv
  <2> SUFFICES ASSUME Init, NEW l \in Link
               PROVE  links[l] + MaxTimes * Cardinality(Adders(l)) <= MaxTimes * Cardinality(Tx)
    BY DEF CopiesInv
  <2>1. Adders(l) = {} /\ links[l] \in {0, 1}
    BY IdleAdds DEF Init, Adders
  <2>2. Cardinality(Adders(l)) = 0
    BY <2>1, FS_EmptySet
  <2>3. Cardinality(Tx) \in Nat /\ 1 <= Cardinality(Tx)
    <3>1. PICK t \in Tx : TRUE
      BY RequestAssumption
    <3>2. {} \in SUBSET Tx /\ Tx \in SUBSET Tx
      OBVIOUS
    <3>3. /\ Cardinality({}) \in Nat /\ Cardinality(Tx) \in Nat
          /\ Cardinality({}) + 1 <= Cardinality(Tx)
      BY <3>1, <3>2, Counting
    <3>4. QED
      BY <3>3
  <2>4. MaxTimes \in Nat /\ 1 <= MaxTimes
    BY EntityAssumption
  <2> DEFINE k == MaxTimes * Cardinality(Tx)
  <2>5. k \in Nat /\ MaxTimes * 1 <= k
    BY <2>3, <2>4, Products
  <2>6. MaxTimes * 1 = MaxTimes /\ MaxTimes * 0 = 0
    BY <2>4
  <2> HIDE DEF k
  <2>7. links[l] + 0 <= k
    BY <2>1, <2>4, <2>5, <2>6
  <2>8. QED
    BY <2>2, <2>6, <2>7 DEF k
<1>2. Inv /\ RowsInv /\ CopiesInv /\ [Next]_vars => CopiesInv'
  <2> SUFFICES ASSUME Inv, RowsInv, CopiesInv, [Next]_vars PROVE CopiesInv'
    OBVIOUS
  <2>1. CASE UNCHANGED vars
    BY <2>1 DEF vars, CopiesInv, Adders, WillAdd
  <2>2. QED
    BY <2>1, CopiesBegin, CopiesProceed DEF Next
<1>3. QED
  BY <1>1, <1>2, InvAlways, RowsAlways, PTL DEF Spec

\* The association tables have no unique index, but however many requests fall over
\* each other, and whatever they name twice, no pair is stored more often than
\* MaxTimes per request in progress.
THEOREM CopiesAreBoundedAlways == Spec => []CopiesAreBounded
<1>1. Inv /\ CopiesInv => CopiesAreBounded
  <2> SUFFICES ASSUME Inv, CopiesInv, NEW l \in Link PROVE links[l] <= MaxTimes * Cardinality(Tx)
    BY DEF CopiesAreBounded
  <2> DEFINE k == MaxTimes * Cardinality(Tx)
             a == MaxTimes * Cardinality(Adders(l))
  <2>1. Adders(l) \in SUBSET Tx
    BY DEF Adders
  <2>2. Cardinality(Adders(l)) \in Nat /\ Cardinality(Tx) \in Nat
    BY <2>1, Counting
  <2>3. MaxTimes \in Nat
    BY EntityAssumption
  <2>4. a \in Nat /\ k \in Nat
    BY <2>2, <2>3, Products
  <2>5. links[l] \in Nat /\ links[l] + a <= k
    BY DEF Inv, TypeOK, Bag, CopiesInv
  <2> HIDE DEF a, k
  <2>6. links[l] <= k
    BY <2>4, <2>5
  <2>7. QED
    BY <2>6 DEF k
<1>2. QED
  BY <1>1, InvAlways, CopiesAlways, PTL

\* Everything the proofs follow, from one step of a request to the next, holds in
\* every reachable state.
THEOREM WholeInvAlways == Spec => []WholeInv
<1>1. QED
  BY InvAlways, RowsAlways, ExactAlways, CopiesAlways, PTL DEF WholeInv
=============================================================================
