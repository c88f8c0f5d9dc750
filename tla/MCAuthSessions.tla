--------------------------- MODULE MCAuthSessions ---------------------------
(* AuthSessions for TLC. *)
EXTENDS AuthSessionsInv, TLC

Symmetry == Permutations(Req)
=============================================================================
