---------------------------- MODULE MCWorktrees ----------------------------
(***************************************************************************)
(* The instance of Worktrees that the runs check.                          *)
(***************************************************************************)
EXTENDS Worktrees

=============================================================================
