------------------------------ MODULE MCReview ------------------------------
(* Review with the values its runs give the constants.                     *)
EXTENDS Review, TLC

CONSTANTS c1, c2

CallerSymmetry == Permutations({c1, c2})
=============================================================================
