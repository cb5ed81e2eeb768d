-------------------------- MODULE MCTaskExpansion --------------------------
(***************************************************************************)
(* Model checking of TaskExpansion.                                        *)
(***************************************************************************)
EXTENDS TaskExpansion
=============================================================================
