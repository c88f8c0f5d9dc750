------------------------- MODULE LdapSettingsProofs -------------------------
(***************************************************************************)
(* The settings of the directory: for any tables, directories, requests    *)
(* and forms, and any number of requests, runs and sign-ins at a time.     *)
(***************************************************************************)
EXTENDS LdapSettingsInv, TLAPS

(* The order of the queries. *)

\* Each order names every key once.
LEMMA OrderIsComplete ==
    ASSUME NEW kind
    PROVE  /\ \A n \in 1 .. 6 : Order(kind)[n] \in Key
           /\ \A m, n \in 1 .. 6 : Order(kind)[m] = Order(kind)[n] => m = n
           /\ \A k \in Key : \E n \in 1 .. 6 : k = Order(kind)[n]
<1>1. CASE kind = "sync"
  <2> DEFINE o == <<"uri", "dn", "password", "base", "filter", "tls">>
  <2>1. Order(kind) = o
    BY <1>1 DEF Order
  <2>2. /\ o[1] = "uri" /\ o[2] = "dn" /\ o[3] = "password"
        /\ o[4] = "base" /\ o[5] = "filter" /\ o[6] = "tls"
    OBVIOUS
  <2> HIDE DEF o
  <2>3. QED
    BY <2>1, <2>2 DEF Key
<1>2. CASE kind # "sync"
  <2> DEFINE o == <<"uri", "tls", "dn", "password", "base", "filter">>
  <2>1. Order(kind) = o
    BY <1>2 DEF Order
  <2>2. /\ o[1] = "uri" /\ o[2] = "tls" /\ o[3] = "dn"
        /\ o[4] = "password" /\ o[5] = "base" /\ o[6] = "filter"
    OBVIOUS
  <2> HIDE DEF o
  <2>3. QED
    BY <2>1, <2>2 DEF Key
<1>3. QED
  BY <1>1, <1>2

\* A sign-in has asked for the URI when it binds; base and filter come last.
LEMMA SigninOrder ==
    /\ Order("signin")[4] = "password"
    /\ Order("signin")[5] = "base"
    /\ Order("signin")[6] = "filter"
BY DEF Order

\* Who has asked six times has got everything.
LEMMA GotEverything ==
    ASSUME NEW q, InOrder(q), q.asked = 6, NEW k \in Key
    PROVE  q.got[k] # Unread
<1>1. PICK n \in 1 .. 6 : k = Order(q.kind)[n]
  BY OrderIsComplete
<1>2. QED
  BY <1>1 DEF InOrder

-----------------------------------------------------------------------------
(* The types of values. *)

LEMMA ValueType ==
    ASSUME row \in Row, NEW k \in Key
    PROVE  Value(k, row[k]) \in Gotten /\ Value(k, row[k]) # Unread
<1>1. row[k] \in Column(k)
  BY DEF Row
<1>2. Unread \notin Gotten
  BY TextAssumption DEF Gotten, Stored
<1>3. CASE k = "password"
  <2>1. row[k] \in {Empty, Null} \/ row[k] \in [cipher : Secret \cup {Mask}]
    BY <1>1, <1>3 DEF Column
  <2>2. Decrypt(row[k]) \in Text
    <3>1. CASE row[k] \in {Empty, Null}
      BY <3>1 DEF Decrypt, Text, Word
    <3>2. CASE row[k] \notin {Empty, Null}
      <4>1. row[k].cipher \in Secret \cup {Mask}
        BY <2>1, <3>2
      <4>2. QED
        BY <3>2, <4>1 DEF Decrypt, Text, Word
    <3>3. QED
      BY <3>1, <3>2
  <2>3. QED
    BY <2>2, <1>2, <1>3 DEF Value, Gotten
<1>4. CASE k # "password"
  <2>1. row[k] \in Text
    BY <1>1, <1>4 DEF Column
  <2>2. CASE k = "tls"
    <3>1. Value(k, row[k]) = (row[k] = On)
      BY <1>4, <2>2 DEF Value, Convert
    <3>2. (row[k] = On) \in BOOLEAN
      OBVIOUS
    <3>3. QED
      BY <3>1, <3>2, <1>2 DEF Gotten
  <2>3. CASE k # "tls"
    BY <1>4, <2>1, <2>3, <1>2 DEF Value, Convert, Gotten
  <2>4. QED
    BY <2>2, <2>3
<1>5. QED
  BY <1>3, <1>4

LEMMA NewType ==
    ASSUME NEW a \in Ask, NEW k \in DOMAIN a.form
    PROVE  k \in Key /\ New(a, k) \in Column(k)
<1>1. k \in Key /\ a.form[k] \in Text
  BY AskAssumption
<1>2. CASE k = "password"
  <2>1. a.form[k] \in Secret \cup {Empty, Null, Mask}
    BY <1>2, AskAssumption
  <2>2. CASE a.form[k] \in {Empty, Null}
    BY <1>1, <1>2, <2>2 DEF New, Encrypt, Column
  <2>3. CASE a.form[k] \notin {Empty, Null}
    <3>1. [cipher |-> a.form[k]] \in [cipher : Secret \cup {Mask}]
      BY <2>1, <2>3
    <3>2. QED
      BY <1>1, <1>2, <2>3, <3>1 DEF New, Encrypt, Column
  <2>4. QED
    BY <2>2, <2>3
<1>3. CASE k # "password"
  BY <1>1, <1>3 DEF New, Column
<1>4. QED
  BY <1>2, <1>3

LEMMA FoundType ==
    ASSUME NEW c, c["uri"] \in Uri
    PROVE  Found(c) \in SUBSET Person
<1>1. Directory[c["uri"]].people \in [Base -> [Filter \cup {Empty} -> SUBSET Person]]
  BY DirectoryAssumption DEF Server
<1>2. QED
  BY <1>1, FilterAssumption DEF Found, Among

\* A server whose Root DSE the worker has read, he takes for what it is.
LEMMA DetectionIsRight ==
    ASSUME NEW u \in Uri, NEW kept
    PROVE  WorkerDetects(u, TRUE, kept) = Directory[u].kind
<1>1. Directory[u].kind \in {"ad", "openldap"}
  BY DirectoryAssumption DEF Server
<1>2. QED
  BY <1>1, DirectoryAssumption DEF WorkerDetects

\* Whom the test and the worker find, a sign-in does too, with a filter that takes
\* the id of a person.
LEMMA FoundIsSought ==
    ASSUME NEW c, c["filter"] \in Joined \cup {Empty}
    PROVE  Found(c) \subseteq Sought(c)
BY DEF Found, Sought, Among

-----------------------------------------------------------------------------
(* Steps of one part. *)

LEMMA AwayType == Away \in Reading
<1>1. Nothing \in [Key -> Gotten \cup {Unread}]
  BY DEF Nothing
<1>2. QED
  BY <1>1 DEF Away, Reading

LEMMA InitInv == Init => Inv
<1> SUFFICES ASSUME Init PROVE Inv
  OBVIOUS
<1>1. Nothing \in [Key -> Stored \cup {Unread}] /\ Nothing \in [Key -> Gotten \cup {Unread}]
  BY DEF Nothing
<1>2. Closed \in Session
  BY <1>1 DEF Closed, Session
<1>3. Away \in Reading
  BY AwayType
<1>4. TypeOK
  BY <1>2, <1>3, EnvironmentAssumption DEF Init, TypeOK
<1>5. ReaderOK(Away)
  <2>1. InOrder(Away)
    BY OrderIsComplete DEF InOrder, Away, Nothing
  <2>2. QED
    BY <2>1 DEF ReaderOK, Agrees, Reasoned, Connected, Searched, Located, Away, Nothing
<1>6. SessionOK(Closed)
  BY DEF SessionOK, Closed, Nothing
<1>7. QED
  BY <1>4, <1>5, <1>6 DEF Init, Inv

\* A request goes on.
LEMMA OneSession ==
    ASSUME Inv, UNCHANGED <<row, reader, tested, reported>>, calls' \in Nat,
           NEW t \in Tx, NEW s \in Session, SessionOK(s),
           tx' = [tx EXCEPT ![t] = s]
    PROVE  Inv'
<1>1. tx' \in [Tx -> Session] /\ \A u \in Tx : tx'[u] = IF u = t THEN s ELSE tx[u]
  BY DEF Inv, TypeOK
<1>2. TypeOK'
  BY <1>1 DEF Inv, TypeOK
<1>3. \A u \in Tx : SessionOK(tx[u])'
  BY <1>1 DEF Inv, SessionOK
<1>4. \A r \in Reader : ReaderOK(reader[r])'
  BY DEF Inv, ReaderOK, InOrder, Agrees, Reasoned, Connected, Searched, Located
<1>5. QED
  BY <1>2, <1>3, <1>4 DEF Inv, Succeeded, IsThere

\* A run or a sign-in goes on.
LEMMA OneReader ==
    ASSUME Inv, UNCHANGED <<row, tx, calls, tested>>,
           reported' \subseteq [where : [Key -> Gotten \cup {Unread}], person : Person],
           \A q \in reported' : IsThere(q),
           NEW r \in Reader, NEW q \in Reading, ReaderOK(q),
           reader' = [reader EXCEPT ![r] = q]
    PROVE  Inv'
<1>1. reader' \in [Reader -> Reading] /\ \A p \in Reader : reader'[p] = IF p = r THEN q ELSE reader[p]
  BY DEF Inv, TypeOK
<1>2. TypeOK'
  BY <1>1 DEF Inv, TypeOK
<1>3. \A p \in Reader : ReaderOK(reader'[p])
  BY <1>1 DEF Inv
<1>4. \A p \in Reader : ReaderOK(reader[p])'
  BY <1>3 DEF ReaderOK, InOrder, Agrees, Reasoned, Connected, Searched, Located
<1>5. \A t \in Tx : SessionOK(tx[t])'
  BY DEF Inv, SessionOK
<1>6. QED
  BY <1>2, <1>4, <1>5 DEF Inv, Succeeded, IsThere

-----------------------------------------------------------------------------
(* The administrators. *)

LEMMA OpenStep == ASSUME Inv, NEW t \in Tx, Open(t) PROVE Inv'
<1>1. PICK a \in Ask : tx' = [tx EXCEPT ![t] = [Closed EXCEPT !.pc = "open", !.ask = a]]
  BY DEF Open
<1> DEFINE s == [Closed EXCEPT !.pc = "open", !.ask = a]
<1>2. s \in Session /\ s.old = Nothing
  BY DEF Closed, Session, Nothing
<1>3. SessionOK(s)
  BY <1>2 DEF SessionOK, Nothing
<1>4. calls' \in Nat
  BY DEF Open, Inv, TypeOK
<1> HIDE DEF s
<1>5. QED
  BY <1>1, <1>2, <1>3, <1>4, OneSession DEF Open, s

LEMMA LoadStep == ASSUME Inv, NEW t \in Tx, Load(t) PROVE Inv'
<1>1. PICK k \in DOMAIN tx[t].ask.form : tx' = [tx EXCEPT ![t].old[k] = row[k]]
  BY DEF Load
<1> DEFINE s == [tx[t] EXCEPT !.old[k] = row[k]]
<1>2. tx[t] \in Session /\ tx[t].pc = "open"
  BY DEF Load, Inv, TypeOK
<1>3. row \in [Key -> Stored]
  BY DEF Inv, TypeOK, Row
<1>4. tx[t].ask \in Ask /\ k \in Key
  BY <1>2, AskAssumption DEF Inv, SessionOK
<1>5. s \in Session
  BY <1>2, <1>3, <1>4 DEF Session
<1>6. SessionOK(s)
  BY <1>2, <1>3, <1>4 DEF Session, SessionOK, Inv
<1>7. tx' = [tx EXCEPT ![t] = s]
  BY <1>1
<1>8. calls' \in Nat
  BY DEF Load, Inv, TypeOK
<1> HIDE DEF s
<1>9. QED
  BY <1>5, <1>6, <1>7, <1>8, OneSession DEF Load

\* What a commit leaves in the table is of the type of its column.
LEMMA CommitKeepsRow == ASSUME Inv, NEW t \in Tx, Commit(t) PROVE row' \in Row
<1>1. tx[t].ask \in Ask
  BY DEF Inv, SessionOK, Commit
<1> DEFINE a == tx[t].ask
           to(k) == Saved(a, k, tx[t].old[k], row[k])
<1>2. row' = [k \in Key |-> to(k)]
  BY DEF Commit
<1>3. ASSUME NEW k \in Key PROVE to(k) \in Column(k)
  <2>1. row[k] \in Column(k)
    BY DEF Inv, TypeOK, Row
  <2>2. CASE Assigns(a, k)
    <3>1. New(a, k) \in Column(k)
      BY <1>1, <2>2, NewType DEF Assigns
    <3>2. QED
      BY <2>1, <3>1 DEF Saved
  <2>3. CASE ~Assigns(a, k)
    BY <2>1, <2>3 DEF Saved
  <2>4. QED
    BY <2>2, <2>3
<1>4. ASSUME NEW k \in Key PROVE Column(k) \subseteq Stored
  BY DEF Column, Stored, Text, Word
<1> HIDE DEF to
<1>5. row' \in [Key -> Stored]
  BY <1>2, <1>3, <1>4
<1>6. QED
  BY <1>2, <1>3, <1>5 DEF Row

LEMMA CommitStep == ASSUME Inv, NEW t \in Tx, Commit(t) PROVE Inv'
<1>1. row' \in Row
  BY CommitKeepsRow
<1>2. \A u \in Tx : /\ tx[u] \in Session
                    /\ tx'[u] = IF u = t THEN Closed ELSE [tx[u] EXCEPT !.touched = TRUE]
  BY DEF Commit, Inv, TypeOK
<1>3. \A r \in Reader : /\ reader[r] \in Reading
                        /\ reader'[r] = [reader[r] EXCEPT !.touched = TRUE]
  BY DEF Commit, Inv, TypeOK
<1>4. Closed \in Session
  BY DEF Closed, Session, Nothing
<1>5. ASSUME NEW u \in Tx PROVE tx'[u] \in Session /\ SessionOK(tx[u])'
  <2>1. tx'[u] \in Session
    BY <1>2, <1>4 DEF Session
  <2>2. CASE u = t
    <3>1. Closed.pc = "closed" /\ \A k \in Key : Closed.old[k] = Unread
      BY DEF Closed, Nothing
    <3>2. tx'[u] = Closed
      BY <1>2, <2>2
    <3>3. QED
      BY <2>1, <3>1, <3>2 DEF SessionOK
  <2>3. CASE u # t
    <3>1. tx'[u].touched /\ tx'[u].pc = tx[u].pc /\ tx'[u].ask = tx[u].ask
      BY <1>2, <2>3 DEF Session
    <3>2. QED
      BY <2>1, <3>1 DEF SessionOK, Inv
  <2>4. QED
    BY <2>2, <2>3
<1>6. ASSUME NEW r \in Reader PROVE reader'[r] \in Reading /\ ReaderOK(reader[r])'
  <2> DEFINE p == reader[r]
             q == reader'[r]
  <2>1. q \in Reading
    BY <1>3 DEF Reading
  <2>2. /\ q.touched /\ q.pc = p.pc /\ q.kind = p.kind /\ q.person = p.person
        /\ q.asked = p.asked /\ q.got = p.got /\ q.server = p.server /\ q.clear = p.clear
    BY <1>3 DEF Reading
  <2>3. ReaderOK(p)
    BY DEF Inv
  <2> HIDE DEF p, q
  <2>4. InOrder(q) /\ Reasoned(q) /\ Connected(q) /\ Searched(q) /\ Located(q)
    BY <2>2, <2>3 DEF ReaderOK, InOrder, Reasoned, Connected, Searched, Located
  <2>5. InOrder(reader'[r]) /\ Reasoned(reader'[r]) /\ Connected(reader'[r])
        /\ Searched(reader'[r]) /\ Located(reader'[r]) /\ reader'[r].touched
    BY <2>2, <2>4 DEF q
  <2>6. QED
    BY <2>1, <2>5 DEF ReaderOK, InOrder, Agrees, Reasoned, Connected, Searched, Located, q
<1>7. TypeOK'
  BY <1>1, <1>5, <1>6 DEF Commit, Inv, TypeOK
<1>8. QED
  BY <1>5, <1>6, <1>7 DEF Commit, Inv, Succeeded, IsThere

LEMMA RollBackStep == ASSUME Inv, NEW t \in Tx, RollBack(t) PROVE Inv'
<1>1. Closed \in Session /\ SessionOK(Closed)
  BY DEF Closed, Session, SessionOK, Nothing
<1>2. calls' \in Nat
  BY DEF RollBack, Inv, TypeOK
<1>3. QED
  BY <1>1, <1>2, OneSession DEF RollBack

\* The form as it is tried.
LEMMA EffectiveType ==
    ASSUME row \in Row, NEW f \in Form
    PROVE  Effective(f) \in [Key -> Gotten]
<1>1. f \in [Key -> Gotten] /\ "password" \in Key
  BY FormAssumption DEF Key
<1>2. Value("password", row["password"]) \in Gotten
  BY <1>1, ValueType
<1>3. QED
  BY <1>1, <1>2 DEF Effective

LEMMA TestStep == ASSUME Inv, Test PROVE Inv'
<1>1. PICK f \in Form :
        /\ {Empty, Null} \cap {Effective(f)["uri"], Effective(f)["dn"],
                               Effective(f)["base"], Effective(f)["filter"]} = {}
        /\ BackendBinds(Effective(f))
        /\ Found(Effective(f)) # {}
        /\ tested' = tested \cup {Effective(f)}
        /\ UNCHANGED <<row, tx, reader, calls, reported>>
  BY DEF Test
<1> DEFINE c == Effective(f)
<1>2. c \in [Key -> Gotten]
  BY EffectiveType DEF Inv, TypeOK
<1>3. Succeeded(c)
  BY <1>1 DEF Succeeded
<1> HIDE DEF c
<1>4. tested' = tested \cup {c}
  BY <1>1 DEF c
<1>5. TypeOK'
  BY <1>1, <1>2, <1>4 DEF Inv, TypeOK
<1>6. \A r \in Reader : ReaderOK(reader[r])'
  BY <1>1 DEF Inv, ReaderOK, InOrder, Agrees, Reasoned, Connected, Searched, Located
<1>7. \A t \in Tx : SessionOK(tx[t])'
  BY <1>1 DEF Inv, SessionOK
<1>8. \A g \in tested' : Succeeded(g)
  BY <1>3, <1>4 DEF Inv
<1>9. QED
  BY <1>1, <1>5, <1>6, <1>7, <1>8 DEF Inv, Succeeded, IsThere

-----------------------------------------------------------------------------
(* The runs and the sign-ins. *)

LEMMA StartStep == ASSUME Inv, NEW r \in Reader, Start(r) PROVE Inv'
<1>1. PICK p \in Person \cup {Unread} :
        reader' = [reader EXCEPT ![r] =
                     [Away EXCEPT !.pc = "asking", !.kind = Kind(p), !.person = p]]
  BY DEF Start
<1> DEFINE q == [Away EXCEPT !.pc = "asking", !.kind = Kind(p), !.person = p]
<1>2. /\ q \in Reading
      /\ q.pc = "asking" /\ q.asked = 0 /\ q.got = Nothing
  <2>1. Kind(p) \in {"sync", "signin"}
    BY DEF Kind
  <2>2. q \in Reading
    BY <2>1, AwayType DEF Reading
  <2>3. QED
    BY <2>2 DEF Away
<1> HIDE DEF q
<1>3. InOrder(q)
  BY <1>2, OrderIsComplete DEF InOrder, Nothing
<1>4. ReaderOK(q)
  BY <1>2, <1>3 DEF ReaderOK, Agrees, Reasoned, Connected, Searched, Located, Nothing
<1>5. QED
  BY <1>1, <1>2, <1>4, OneReader DEF Start, q, Inv, TypeOK

LEMMA QueryStep == ASSUME Inv, NEW r \in Reader, Query(r) PROVE Inv'
<1> DEFINE p == reader[r]
           n == p.asked + 1
           k == Order(p.kind)[n]
           v == Value(k, row[k])
<1>1. p \in Reading /\ ReaderOK(p)
  BY DEF Inv, TypeOK
<1>2. PICK to \in {p.pc, "refused"} :
        /\ reader' = [reader EXCEPT ![r].asked = n, ![r].got[k] = v, ![r].pc = to]
        /\ to = "refused" =>
             \/ p.pc = "refused"
             \/ k = "password" /\ v = Null
             \/ p.kind = "signin" /\ k = "uri" /\ v = Empty
             \/ p.kind = "signin" /\ k = "password" /\ Empty \in {v, p.got["dn"]}
             \/ p.kind = "signin" /\ k = "filter" /\ p.got["base"] = Empty
  BY DEF Query
<1>3. /\ n \in 1 .. 6
      /\ \/ p.pc = "asking"
         \/ p.pc = "bound" /\ p.kind = "signin"
  BY <1>1 DEF Query, Reading
<1>4. k \in Key
  BY <1>3, OrderIsComplete
<1>5. v \in Gotten /\ v # Unread
  BY <1>4, ValueType DEF Inv, TypeOK
<1> DEFINE q == [p EXCEPT !.asked = n, !.got[k] = v, !.pc = to]
<1>6. reader' = [reader EXCEPT ![r] = q]
  BY <1>2
<1>7. q \in Reading
  <2>1. [p.got EXCEPT ![k] = v] \in [Key -> Gotten \cup {Unread}]
    BY <1>1, <1>4, <1>5 DEF Reading
  <2>2. q = [p EXCEPT !.asked = n, !.got = [p.got EXCEPT ![k] = v], !.pc = to]
    OBVIOUS
  <2>3. to \in {"away", "asking", "bound", "refused", "listed", "found", "absent"}
    BY <1>1 DEF Reading
  <2>4. n \in 0 .. 6
    BY <1>3
  <2> HIDE DEF q, n, k, v, p
  <2>5. QED
    BY <1>1, <2>1, <2>2, <2>3, <2>4 DEF Reading
<1>8. /\ q.asked = n /\ q.pc = to /\ q.kind = p.kind /\ q.person = p.person
      /\ q.server = p.server /\ q.clear = p.clear /\ q.touched = p.touched
      /\ \A x \in Key : q.got[x] = IF x = k THEN v ELSE p.got[x]
  BY <1>1, <1>4 DEF Reading
<1> HIDE DEF q
<1>9. InOrder(q)
  <2> SUFFICES ASSUME NEW m \in 1 .. 6
               PROVE  (q.got[Order(p.kind)[m]] = Unread) <=> m > n
    BY <1>8 DEF InOrder
  <2>1. Order(p.kind)[m] \in Key
    BY OrderIsComplete
  <2>2. (p.got[Order(p.kind)[m]] = Unread) <=> m > p.asked
    BY <1>1 DEF ReaderOK, InOrder
  <2>3. p.asked \in Nat
    BY <1>1 DEF Reading
  <2>4. CASE m = n
    BY <1>5, <1>8, <2>1, <2>3, <2>4
  <2>5. CASE m # n
    <3>1. Order(p.kind)[m] # k
      BY <1>3, <2>5, OrderIsComplete
    <3>2. q.got[Order(p.kind)[m]] = p.got[Order(p.kind)[m]]
      BY <1>8, <2>1, <3>1
    <3>3. m > n <=> m > p.asked
      BY <2>3, <2>5
    <3> HIDE DEF n, k, p
    <3>4. QED
      BY <2>2, <3>2, <3>3
  <2>6. QED
    BY <2>4, <2>5
<1>10. Agrees(q)
  BY <1>1, <1>4, <1>8 DEF ReaderOK, Agrees
<1>11. Reasoned(q)
  <2>1. {"uri", "dn", "password", "base", "filter"} \subseteq Key
    BY DEF Key
  <2>2. QED
    BY <1>2, <1>3, <1>8, <2>1 DEF Reasoned
<1>12. Connected(q)
  <2> SUFFICES ASSUME to = "bound" PROVE Connected(q)
    BY <1>8 DEF Connected
  <2>1. p.pc = "bound" /\ p.kind = "signin"
    BY <1>2, <1>3
  <2>2. p.asked \in 4 .. 6
    BY <1>1, <2>1 DEF ReaderOK, Connected
  <2>3. n \in 5 .. 6
    BY <1>3, <2>2
  <2>4. k # "uri" /\ "uri" \in Key
    BY <2>1, <2>3, SigninOrder DEF Key
  <2>5. q.got["uri"] = p.got["uri"]
    BY <1>8, <2>4
  <2>6. QED
    BY <1>1, <1>8, <2>1, <2>3, <2>5 DEF ReaderOK, Connected
<1>13. Searched(q) /\ Located(q)
  BY <1>2, <1>3, <1>8 DEF Searched, Located
<1>14. QED
  BY <1>6, <1>7, <1>9, <1>10, <1>11, <1>12, <1>13, OneReader
  DEF ReaderOK, Query, Inv, TypeOK

\* What a step of a reader that asks for nothing leaves alone.
LEMMA SameGot ==
    ASSUME NEW p \in Reading, ReaderOK(p), NEW q, q.got = p.got, q.kind = p.kind,
           q.asked = p.asked, q.touched = p.touched
    PROVE  InOrder(q) /\ Agrees(q)
BY DEF ReaderOK, InOrder, Agrees

LEMMA WorkerConnectsStep == ASSUME Inv, NEW r \in Reader, WorkerConnects(r) PROVE Inv'
<1> DEFINE p == reader[r]
           c == p.got
<1>1. p \in Reading /\ ReaderOK(p) /\ p.kind = "sync" /\ p.asked = 6
  BY DEF WorkerConnects, Inv, TypeOK
<1>2. PICK up \in BOOLEAN, to \in {"bound", "refused"} :
        /\ reader' = [reader EXCEPT ![r].clear = up, ![r].pc = to]
        /\ to = "bound" <=> /\ Empty \notin {c["uri"], c["dn"], c["base"], c["password"]}
                            /\ up /\ WorkerBinds(c)
  <2>1. PICK up \in BOOLEAN :
          reader' = [reader EXCEPT
            ![r].clear = up,
            ![r].pc = IF /\ Empty \notin {c["uri"], c["dn"], c["base"], c["password"]}
                         /\ up /\ WorkerBinds(c)
                      THEN "bound" ELSE "refused"]
    BY DEF WorkerConnects
  <2> DEFINE in == Empty \notin {c["uri"], c["dn"], c["base"], c["password"]} /\ up /\ WorkerBinds(c)
  <2>2. CASE in
    BY <2>1, <2>2
  <2>3. CASE ~in
    BY <2>1, <2>3
  <2>4. QED
    BY <2>2, <2>3
<1> DEFINE q == [p EXCEPT !.clear = up, !.pc = to]
<1>3. reader' = [reader EXCEPT ![r] = q]
  BY <1>2
<1>4. q \in Reading
  BY <1>1, <1>2 DEF Reading
<1>5. /\ q.asked = 6 /\ q.pc = to /\ q.kind = "sync" /\ q.got = c
      /\ q.clear = up /\ q.touched = p.touched
  BY <1>1 DEF Reading
<1> HIDE DEF q
<1>6. InOrder(q) /\ Agrees(q)
  BY <1>1, <1>5, SameGot
<1>7. Reasoned(q)
  BY <1>2, <1>5 DEF Reasoned
<1>8. Connected(q)
  BY <1>2, <1>5 DEF Connected, WorkerBinds
<1>9. Searched(q) /\ Located(q)
  BY <1>2, <1>5 DEF Searched, Located
<1>10. QED
  BY <1>3, <1>4, <1>6, <1>7, <1>8, <1>9, OneReader DEF ReaderOK, WorkerConnects, Inv, TypeOK

LEMMA WorkerFetchesStep == ASSUME Inv, NEW r \in Reader, WorkerFetches(r) PROVE Inv'
<1> DEFINE p == reader[r]
           c == p.got
           u == c["uri"]
<1>1. /\ p \in Reading /\ ReaderOK(p)
      /\ p.kind = "sync" /\ p.asked = 6 /\ u \in Uri
  BY DEF WorkerFetches, Inv, TypeOK, ReaderOK, Connected
<1>2. PICK up \in BOOLEAN, answered \in BOOLEAN, kept \in SUBSET Directory[u].marks,
           part \in SUBSET Found(c) :
        LET kind == WorkerDetects(u, answered, kept)
            ids  == IF up THEN Identified(u, kind, part) ELSE {}
        IN /\ part = {} => Found(c) = {}
           /\ reader' = [reader EXCEPT ![r].pc = IF ids = {} THEN "absent" ELSE "listed",
                                       ![r].clear = up /\ answered,
                                       ![r].server = kind]
           /\ reported' = reported \cup [where : {c}, person : ids]
  BY DEF WorkerFetches
<1> DEFINE kind == WorkerDetects(u, answered, kept)
           ids == IF up THEN Identified(u, kind, part) ELSE {}
           to == IF ids = {} THEN "absent" ELSE "listed"
           clear == up /\ answered
           q == [p EXCEPT !.pc = to, !.clear = clear, !.server = kind]
<1>3. reader' = [reader EXCEPT ![r] = q]
  BY <1>2
<1>4. kind \in {"ad", "openldap"}
  BY DEF WorkerDetects
<1>5. ids \subseteq Found(c)
  BY DEF Identified
<1>6. clear \in BOOLEAN
  OBVIOUS
<1>7. to \in {"absent", "listed"}
  OBVIOUS
<1>8. clear /\ ids = {} => Found(c) = {}
  <2> SUFFICES ASSUME up, answered, ids = {} PROVE Found(c) = {}
    OBVIOUS
  <2>1. answered = TRUE
    OBVIOUS
  <2>2. kind = Directory[u].kind
    BY <1>1, <2>1, DetectionIsRight
  <2>3. ids = part
    BY <2>2 DEF Identified
  <2>4. QED
    BY <1>2, <2>3
<1>9. reported' = reported \cup [where : {c}, person : ids]
  BY <1>2
<1>10. to = "absent" => ids = {}
  OBVIOUS
<1> HIDE DEF kind, ids, to, clear
<1>11. q \in Reading
  BY <1>1, <1>4, <1>6, <1>7 DEF Reading
<1>12. /\ q.asked = 6 /\ q.pc = to /\ q.kind = "sync" /\ q.got = c
       /\ q.clear = clear /\ q.touched = p.touched
  BY <1>1 DEF Reading
<1> HIDE DEF q
<1>13. InOrder(q) /\ Agrees(q)
  BY <1>1, <1>12, SameGot
<1>14. Reasoned(q) /\ Connected(q)
  BY <1>7, <1>12 DEF Reasoned, Connected
<1>15. Searched(q) /\ Located(q)
  BY <1>7, <1>8, <1>10, <1>12 DEF Searched, Located
<1>16. ReaderOK(q)
  BY <1>13, <1>14, <1>15 DEF ReaderOK
<1>17. \A e \in reported' : e \in [where : [Key -> Gotten \cup {Unread}], person : Person]
                           /\ IsThere(e)
  <2> SUFFICES ASSUME NEW e \in reported'
               PROVE  e \in [where : [Key -> Gotten \cup {Unread}], person : Person] /\ IsThere(e)
    OBVIOUS
  <2>1. CASE e \in reported
    BY <2>1 DEF Inv, TypeOK
  <2>2. CASE e \in [where : {c}, person : ids]
    <3>1. e.where = c /\ e.person \in Found(c) /\ e = [where |-> c, person |-> e.person]
      BY <1>5, <2>2
    <3>2. c \in [Key -> Gotten \cup {Unread}]
      BY <1>1 DEF Reading
    <3>3. Found(c) \subseteq Person
      BY <1>1, FoundType
    <3> HIDE DEF c
    <3>4. e \in [where : [Key -> Gotten \cup {Unread}], person : Person]
      BY <3>1, <3>2, <3>3
    <3>5. e.where["uri"] \in Uri
      BY <1>1, <3>1 DEF c
    <3>6. QED
      BY <3>1, <3>4, <3>5 DEF IsThere
  <2>3. QED
    BY <1>9, <2>1, <2>2
<1>18. QED
  BY <1>3, <1>11, <1>16, <1>17, OneReader DEF WorkerFetches

LEMMA BackendConnectsStep == ASSUME Inv, NEW r \in Reader, BackendConnects(r) PROVE Inv'
<1> DEFINE p == reader[r]
           c == p.got
<1>1. p \in Reading /\ ReaderOK(p) /\ p.kind = "signin" /\ p.asked = 4
  BY DEF BackendConnects, Inv, TypeOK
<1>2. PICK up \in BOOLEAN, answered \in BOOLEAN :
         reader' = [reader EXCEPT
           ![r].clear = up /\ answered,
           ![r].pc = IF up /\ BackendBinds(c) THEN "bound" ELSE "refused",
           ![r].server = IF up /\ BackendBinds(c)
                         THEN BackendDetects(c["uri"], answered) ELSE Unread]
  BY DEF BackendConnects
<1> DEFINE to == IF up /\ BackendBinds(c) THEN "bound" ELSE "refused"
           server == IF up /\ BackendBinds(c) THEN BackendDetects(c["uri"], answered) ELSE Unread
           clear == up /\ answered
           q == [p EXCEPT !.clear = clear, !.pc = to, !.server = server]
<1>3. reader' = [reader EXCEPT ![r] = q]
  BY <1>2
<1>4. server \in {"ad", "openldap", Unread}
  BY DEF BackendDetects
<1>5. clear \in BOOLEAN /\ to \in {"bound", "refused"}
  OBVIOUS
<1>6. to = "refused" /\ clear => ~BackendBinds(c)
  OBVIOUS
<1>7. to = "bound" => c["uri"] \in Uri /\ (clear => server = "ad")
  BY DEF BackendBinds, BackendDetects
<1> HIDE DEF to, server, clear
<1>8. q \in Reading
  BY <1>1, <1>4, <1>5 DEF Reading
<1>9. /\ q.asked = 4 /\ q.pc = to /\ q.kind = "signin" /\ q.got = c /\ q.server = server
      /\ q.clear = clear /\ q.touched = p.touched
  BY <1>1 DEF Reading
<1> HIDE DEF q
<1>10. InOrder(q) /\ Agrees(q)
  BY <1>1, <1>9, SameGot
<1>11. Reasoned(q)
  BY <1>5, <1>6, <1>9 DEF Reasoned
<1>12. Connected(q) /\ Searched(q) /\ Located(q)
  BY <1>5, <1>7, <1>9 DEF Connected, Searched, Located
<1>13. QED
  BY <1>3, <1>8, <1>10, <1>11, <1>12, OneReader DEF ReaderOK, BackendConnects, Inv, TypeOK

LEMMA SearchPersonStep == ASSUME Inv, NEW r \in Reader, SearchPerson(r) PROVE Inv'
<1> DEFINE p == reader[r]
           c == p.got
           u == c["uri"]
<1>1. /\ p \in Reading /\ ReaderOK(p) /\ p.kind = "signin" /\ p.asked = 6
      /\ p.clear => p.server = "ad"
  BY DEF SearchPerson, Inv, TypeOK, ReaderOK, Connected
<1>2. PICK up \in BOOLEAN :
        reader' = [reader EXCEPT
           ![r].clear = @ /\ up,
           ![r].pc = IF up /\ p.person \in Identified(u, p.server, Sought(c))
                     THEN "found" ELSE "absent"]
  BY DEF SearchPerson
<1> DEFINE to == IF up /\ p.person \in Identified(u, p.server, Sought(c)) THEN "found" ELSE "absent"
           clear == p.clear /\ up
           q == [p EXCEPT !.clear = clear, !.pc = to]
<1>3. reader' = [reader EXCEPT ![r] = q]
  BY <1>2
<1>4. clear \in BOOLEAN /\ to \in {"found", "absent"}
  OBVIOUS
<1>5. /\ to = "absent" /\ clear /\ Directory[u].kind = "ad" => p.person \notin Sought(c)
      /\ to = "found" => p.person \in Sought(c)
      /\ to = "found" /\ clear => Directory[u].kind = "ad"
  BY <1>1 DEF Identified
<1> HIDE DEF to, clear
<1>6. q \in Reading
  BY <1>1, <1>4 DEF Reading
<1>7. /\ q.asked = 6 /\ q.pc = to /\ q.kind = "signin" /\ q.got = c /\ q.person = p.person
      /\ q.clear = clear /\ q.touched = p.touched
  BY <1>1 DEF Reading
<1> HIDE DEF q
<1>8. InOrder(q) /\ Agrees(q)
  BY <1>1, <1>7, SameGot
<1>9. Reasoned(q) /\ Connected(q) /\ Searched(q) /\ Located(q)
  BY <1>4, <1>5, <1>7 DEF Reasoned, Connected, Searched, Located
<1>10. QED
  BY <1>3, <1>6, <1>8, <1>9, OneReader DEF ReaderOK, SearchPerson, Inv, TypeOK

-----------------------------------------------------------------------------
(* The theorems. *)

LEMMA StutterInv == Inv /\ UNCHANGED vars => Inv'
<1> SUFFICES ASSUME Inv, UNCHANGED vars PROVE Inv'
  OBVIOUS
<1>1. TypeOK'
  BY DEF vars, Inv, TypeOK
<1>2. \A r \in Reader : ReaderOK(reader[r])'
  BY DEF vars, Inv, ReaderOK, InOrder, Agrees, Reasoned, Connected, Searched, Located
<1>3. \A t \in Tx : SessionOK(tx[t])'
  BY DEF vars, Inv, SessionOK
<1>4. (\A f \in tested : Succeeded(f))' /\ (\A q \in reported : IsThere(q))'
  BY DEF vars, Inv, Succeeded, IsThere
<1>5. QED
  BY <1>1, <1>2, <1>3, <1>4 DEF Inv

LEMMA NextInv == Inv /\ [Next]_vars => Inv'
BY OpenStep, LoadStep, CommitStep, RollBackStep, TestStep, StartStep, QueryStep,
   WorkerConnectsStep, WorkerFetchesStep, BackendConnectsStep, SearchPersonStep,
   StutterInv DEF Next

\* Runs and sign-ins that no commit falls into agree with the table, and whoever is
\* refused, finds nobody (at an Active Directory) or finds somebody has his reason in
\* the settings he has read (tasks/api/internal.py:20-40, users/ldap/services.py:25-203).
THEOREM InvAlways == Spec => []Inv
BY InitInv, NextInv, PTL DEF Spec

\* What agrees with a form on what was asked for is that form once all was asked.
LEMMA TestedWhole ==
    ASSUME Inv, NEW q \in Reading, InOrder(q), q.asked = 6, Tested(q.got)
    PROVE  q.got \in tested
<1>1. PICK f \in tested : \A k \in Key : q.got[k] \in {Unread, f[k]}
  BY DEF Tested
<1>2. f \in [Key -> Gotten] /\ q.got \in [Key -> Gotten \cup {Unread}]
  BY DEF Inv, TypeOK, Reading
<1>3. \A k \in Key : q.got[k] = f[k]
  BY <1>1, GotEverything
<1>4. q.got = f
  BY <1>2, <1>3
<1>5. QED
  BY <1>4

LEMMA TestedSettingsWorkInv == Inv => TestedSettingsWork
<1> SUFFICES ASSUME Inv, NEW r \in Reader,
                    reader[r].clear, Tested(reader[r].got)
             PROVE  /\ reader[r].pc = "refused" => reader[r].got["password"] \in {Empty, Null}
                    /\ reader[r].pc = "absent" => reader[r].kind = "signin"
  BY DEF TestedSettingsWork
<1> DEFINE q == reader[r]
           c == q.got
<1>1. q \in Reading /\ ReaderOK(q)
  BY DEF Inv, TypeOK
<1>2. PICK f \in tested : \A k \in Key : c[k] \in {Unread, f[k]}
  BY DEF Tested
<1>3. Succeeded(f)
  BY DEF Inv
<1>4. {"uri", "dn", "password", "base", "filter", "tls"} = Key
  BY DEF Key
<1>5. ASSUME q.asked = 6 PROVE Succeeded(c)
  BY <1>1, <1>5, TestedWhole DEF ReaderOK, Inv
<1>6. ASSUME q.pc = "absent" PROVE q.kind = "signin"
  BY <1>1, <1>5, <1>6 DEF ReaderOK, Searched, Succeeded
<1>7. ASSUME q.pc = "refused", c["password"] \notin {Empty, Null} PROVE FALSE
  <2>1. CASE Empty \in {c["uri"], c["dn"], c["base"]}
    <3>1. Empty # Unread
      BY TextAssumption DEF Stored, Text, Word
    <3>2. QED
      BY <1>2, <1>3, <1>4, <2>1, <3>1 DEF Succeeded
  <2>2. CASE q.kind = "sync" /\ q.asked = 6 /\ ~WorkerBinds(c)
    <3>1. BackendBinds(c) /\ c["dn"] # Empty
      BY <1>5, <2>2 DEF Succeeded
    <3>2. QED
      BY <1>7, <2>2, <3>1 DEF BackendBinds, WorkerBinds
  <2>3. CASE q.kind = "signin" /\ q.asked = 4 /\ ~BackendBinds(c)
    <3>1. \A n \in 1 .. 4 : c[Order("signin")[n]] # Unread
      BY <1>1, <2>3 DEF ReaderOK, InOrder
    <3>2. /\ Order("signin")[1] = "uri" /\ Order("signin")[2] = "tls"
          /\ Order("signin")[3] = "dn" /\ Order("signin")[4] = "password"
      BY DEF Order
    <3>3. /\ c["uri"] # Unread /\ c["tls"] # Unread
          /\ c["dn"] # Unread /\ c["password"] # Unread
      BY <3>1, <3>2
    <3>4. /\ c["uri"] = f["uri"] /\ c["tls"] = f["tls"]
          /\ c["dn"] = f["dn"] /\ c["password"] = f["password"]
      BY <1>2, <1>4, <3>3
    <3>5. BackendBinds(c)
      BY <1>3, <3>4 DEF Succeeded, BackendBinds
    <3>6. QED
      BY <2>3, <3>5
  <2>4. QED
    BY <1>1, <1>7, <2>1, <2>2, <2>3 DEF ReaderOK, Reasoned
<1>8. QED
  BY <1>6, <1>7

\* Settings that passed the test, with a password, then let the worker connect and
\* find people, and sign-ins connect, as long as the network works
\* (settings/ldap/services.py:242-330 beside celery_worker/utils/users/ldap.py and
\* users/ldap/services.py).
THEOREM TestedSettingsWorkAlways == Spec => []TestedSettingsWork
BY InvAlways, TestedSettingsWorkInv, PTL

LEMMA SyncedPeopleAreFoundInv == Inv => SyncedPeopleAreFound
<1> SUFFICES ASSUME Inv, NEW r \in Reader, reader[r].kind = "signin",
                    reader[r].pc = "absent", reader[r].clear,
                    Directory[reader[r].got["uri"]].kind = "ad",
                    reader[r].got["filter"] \in Joined \cup {Empty},
                    [where |-> reader[r].got, person |-> reader[r].person] \in reported
             PROVE  FALSE
  BY DEF SyncedPeopleAreFound
<1>1. reader[r].person \notin Sought(reader[r].got)
  BY DEF Inv, ReaderOK, Searched
<1>2. IsThere([where |-> reader[r].got, person |-> reader[r].person])
  BY DEF Inv
<1>3. QED
  BY <1>1, <1>2, FoundIsSought DEF IsThere

\* At an Active Directory, whom a run has reported, a sign-in with the same settings
\* finds, if its filter takes the id of a person: detect_server_type, in two copies
\* (core/ldap_service.py, celery_worker/utils/users/ldap.py), tells both what it is.
THEOREM SyncedPeopleAreFoundAlways == Spec => []SyncedPeopleAreFound
BY InvAlways, SyncedPeopleAreFoundInv, PTL

LEMMA CommitIsExact ==
    ASSUME Inv, NEW t \in Tx, Commit(t)
    PROVE  LET a == tx[t].ask IN
           /\ \A k \in Key : k \notin DOMAIN a.form => row'[k] = row[k]
           /\ "password" \in DOMAIN a.form /\ a.via = "PATCH" /\ a.form["password"] = Mask
                => row'["password"] = row["password"]
           /\ ~tx[t].touched =>
                \A k \in DOMAIN a.form :
                  ~(k = "password" /\ a.form[k] = Mask) =>
                     row'[k] = IF k = "password" /\ a.form[k] \notin {Empty, Null}
                               THEN [cipher |-> a.form[k]] ELSE a.form[k]
<1> DEFINE a == tx[t].ask
<1>1. a \in Ask /\ DOMAIN a.form \subseteq Key
  BY AskAssumption DEF Inv, SessionOK, Commit
<1>2. \A k \in Key : row'[k] = Saved(a, k, tx[t].old[k], row[k])
  BY DEF Commit
<1>3. \A k \in Key : ~Assigns(a, k) => row'[k] = row[k]
  BY <1>2 DEF Saved
<1>4. ASSUME NEW k \in Key, k \notin DOMAIN a.form PROVE row'[k] = row[k]
  BY <1>3, <1>4 DEF Assigns
<1>5. ASSUME "password" \in DOMAIN a.form, a.via = "PATCH", a.form["password"] = Mask
      PROVE  row'["password"] = row["password"]
  BY <1>1, <1>3, <1>5 DEF Assigns
<1>6. ASSUME ~tx[t].touched, NEW k \in DOMAIN a.form, ~(k = "password" /\ a.form[k] = Mask)
      PROVE  row'[k] = IF k = "password" /\ a.form[k] \notin {Empty, Null}
                       THEN [cipher |-> a.form[k]] ELSE a.form[k]
  <2>1. k \in Key /\ Assigns(a, k)
    BY <1>1, <1>6 DEF Assigns
  <2>2. tx[t].old[k] = row[k]
    BY <1>6, <2>1 DEF Inv, SessionOK, Commit
  <2>3. row'[k] = New(a, k)
    BY <1>2, <2>1, <2>2 DEF Saved
  <2>4. QED
    BY <2>3 DEF New, Encrypt
<1>7. QED
  BY <1>4, <1>5, <1>6

\* A request changes what it names as it was asked to, if nobody overtakes it, and
\* whoever overtakes it, nothing else (settings/ldap/services.py:82-225).
THEOREM SavesAreExactAlways == Spec => SavesAreExact
<1>1. Inv /\ [Next]_vars =>
        [\A t \in Tx : Commit(t) =>
         LET a == tx[t].ask IN
         /\ \A k \in Key : k \notin DOMAIN a.form => row'[k] = row[k]
         /\ "password" \in DOMAIN a.form /\ a.via = "PATCH" /\ a.form["password"] = Mask
              => row'["password"] = row["password"]
         /\ ~tx[t].touched =>
              \A k \in DOMAIN a.form :
                ~(k = "password" /\ a.form[k] = Mask) =>
                   row'[k] = IF k = "password" /\ a.form[k] \notin {Empty, Null}
                             THEN [cipher |-> a.form[k]] ELSE a.form[k]]_vars
  BY CommitIsExact
<1>2. QED
  BY <1>1, InvAlways, PTL DEF Spec, SavesAreExact
=============================================================================
