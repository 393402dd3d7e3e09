---------------------------- MODULE MCReviewLiked ----------------------------
(***************************************************************************)
(* Instances of ReviewLiked for TLC.                                       *)
(***************************************************************************)
EXTENDS ReviewLiked, TLC

CONSTANTS k1, k2, a1

OneAuthor == [k \in Key |-> a1]

\* Workers are alike, and so are keys of one author.
Symmetry == Permutations(Worker) \cup Permutations(Key)
=============================================================================
