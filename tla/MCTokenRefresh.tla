--------------------------- MODULE MCTokenRefresh ---------------------------
(* TokenRefresh for TLC. *)
EXTENDS TokenRefreshInv, TLC

CONSTANTS t1, t2, a, b, c

tabOf == (a :> t1) @@ (b :> t1) @@ (c :> t2)
=============================================================================
