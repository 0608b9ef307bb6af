-------------------------- MODULE MCAuthorization --------------------------
(* Instances of Authorization for TLC.                                      *)
EXTENDS Authorization

CONSTANTS r1, r2, root, user, group

ManageUsers == {[action |-> "manage", subject |-> "user"]}
=============================================================================
