------------------------- MODULE MCBillingPayments -------------------------
(***************************************************************************)
(* Instances of BillingPayments for TLC.                                   *)
(***************************************************************************)
EXTENDS BillingPayments
=============================================================================
