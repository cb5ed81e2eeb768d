---------------------------- MODULE MCCompletions ----------------------------
(***************************************************************************)
(* Model checking of Completions: runs as model values, sessions numbered.  *)
(***************************************************************************)
EXTENDS Completions

CONSTANTS p1, p2, a1
=============================================================================
