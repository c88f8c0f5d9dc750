--------------------------- MODULE MCLdapSettings ---------------------------
(* LdapSettings for TLC: an Active Directory that only its vendor gives away *)
(* and whose certificate nobody can verify, and an OpenLDAP without TLS; a   *)
(* filter, and one that a sign-in cannot put an id into.                     *)
EXTENDS LdapSettingsInv, TLC

CONSTANTS ad, open, dn, s1, s2, base, filter, odd, p1, p2, t1, t2

Symmetry == Permutations({t1, t2})

people(some, all) == [b \in {base} |-> [f \in {filter, odd, Empty} |-> IF f = Empty THEN all ELSE some]]

directory ==
    [u \in {ad, open} |->
       IF u = ad
       THEN [ldaps |-> TRUE, certificate |-> FALSE, anonymous |-> TRUE, admin |-> <<dn, s1>>,
             kind |-> "ad", marks |-> {"vendor"}, people |-> people({p1}, {p1, p2})]
       ELSE [ldaps |-> FALSE, certificate |-> FALSE, anonymous |-> FALSE, admin |-> <<dn, s2>>,
             kind |-> "openldap", marks |-> {}, people |-> people({p2}, {p2})]]

settings(uri, password, filter_, tls) ==
    [k \in Key |-> CASE k = "uri" -> uri       [] k = "dn" -> dn
                     [] k = "base" -> base     [] k = "filter" -> filter_
                     [] k = "tls" -> tls       [] k = "password" -> password]

environments ==
    {settings(ad, [cipher |-> s1], filter, Off),
     [k \in Key |-> IF k = "tls" THEN On ELSE Empty]}

ask(via_, form_) == [via |-> via_, form |-> form_]

asks ==
    {ask("PATCH", [k \in {"uri", "password", "filter"} |-> settings(open, s2, Empty, On)[k]]),
     ask("PATCH", [k \in {"uri", "password", "filter"} |-> settings(ad, Mask, odd, Off)[k]]),
     ask("PATCH", [k \in {"password"} |-> Null]),
     ask("PUT", [k \in {"password"} |-> Mask]),
     ask("PUT", [k \in {"tls"} |-> On])}

forms == {settings(ad, Mask, filter, FALSE), settings(ad, Empty, filter, FALSE),
          settings(open, s2, filter, TRUE)}
=============================================================================
