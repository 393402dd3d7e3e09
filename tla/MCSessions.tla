----------------------------- MODULE MCSessions -----------------------------
(***************************************************************************)
(* Instances of Sessions for TLC: one role is both the base role and the   *)
(* administrator's.                                                        *)
(***************************************************************************)
EXTENDS Sessions

CONSTANT r1
=============================================================================
