---------------------------- MODULE MCTaskGraph ----------------------------
(***************************************************************************)
(* Model checking of TaskGraph: model values for the processes.            *)
(***************************************************************************)
EXTENDS TaskGraph

CONSTANTS daemon, cli
=============================================================================
