---------------------------- MODULE MCLdapSync ----------------------------
(* LdapSync for TLC: two directory entries, and the logins they may have. *)
EXTENDS LdapSyncInv

CONSTANTS ann, bob, eve, x, y

\* x may be renamed; nobody is given a login another entry has had.
OwnNames == [i \in LdapId |-> IF i = x THEN {ann, bob} ELSE {eve}]

\* A login may pass from one entry to another.
SharedNames == [i \in LdapId |-> {ann, bob}]
===========================================================================
