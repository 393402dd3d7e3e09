-------------------------- MODULE MCBillingRefunds --------------------------
(***************************************************************************)
(* Instances of BillingRefunds for TLC.                                    *)
(***************************************************************************)
EXTENDS BillingRefunds, TLC

Symmetry == Permutations(Payment) \cup Permutations(Operation) \cup Permutations(Request)
=============================================================================
