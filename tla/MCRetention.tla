---------------------------- MODULE MCRetention ----------------------------
(* Retention with the values its runs give the constants.                  *)
EXTENDS Retention, TLC

CONSTANTS x1, x2

PathSymmetry == Permutations({x1, x2})
=============================================================================
