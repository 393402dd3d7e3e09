-------------------------- MODULE MCReviewRatings --------------------------
(***************************************************************************)
(* Instances of ReviewRatings for TLC.                                     *)
(***************************************************************************)
EXTENDS ReviewRatings

CONSTANTS u1, u2, v1

ByFirst == [r \in {v1} |-> u1]
=============================================================================
