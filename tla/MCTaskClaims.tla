---------------------------- MODULE MCTaskClaims ----------------------------
(***************************************************************************)
(* Model checking of TaskClaims: tasks as model values, sessions numbered.  *)
(***************************************************************************)
EXTENDS TaskClaims

CONSTANTS t1, t2
=============================================================================
