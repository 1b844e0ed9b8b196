--------------------------- MODULE MCTaskLifecycle ---------------------------
(* TaskLifecycle with the values its runs give the constants: no symmetry, *)
(* since they check liveness or one action.                                *)
EXTENDS TaskLifecycle

CONSTANTS a1, a2

=============================================================================
