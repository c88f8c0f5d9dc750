------------------------------- MODULE MCRbac -------------------------------
(* Rbac for TLC. *)
EXTENDS RbacInv, TLC

CONSTANTS admins, ops, admin, viewer, root, ann, read

Symmetry == Permutations(Tx)
=============================================================================
