----------------------------- MODULE MCArchive -----------------------------
(* Archive for TLC: no symmetry, since its run checks liveness.            *)
EXTENDS Archive

=============================================================================
