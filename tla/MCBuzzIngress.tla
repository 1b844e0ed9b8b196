--------------------------- MODULE MCBuzzIngress ---------------------------
(* BuzzIngress for TLC: no symmetry, since the run checks liveness.        *)
EXTENDS BuzzIngress

=============================================================================
