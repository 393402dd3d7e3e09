------------------------- MODULE MCPermissionCache -------------------------
(***************************************************************************)
(* Instances of PermissionCache for TLC.                                   *)
(***************************************************************************)
EXTENDS PermissionCache

CONSTANTS u1, r1, r2, p1

OneUserRole == {<<u1, r1>>}
OneGrant == {<<r1, p1>>}
=============================================================================
