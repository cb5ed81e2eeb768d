---------------------------- MODULE MCAgentRuns ----------------------------
(***************************************************************************)
(* Model checking of AgentRuns: a model value for the user.                *)
(***************************************************************************)
EXTENDS AgentRuns

CONSTANT user
=============================================================================
