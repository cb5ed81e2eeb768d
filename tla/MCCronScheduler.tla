-------------------------- MODULE MCCronScheduler --------------------------
(***************************************************************************)
(* Model checking of CronScheduler: model values for the jobs.             *)
(***************************************************************************)
EXTENDS CronScheduler

CONSTANTS j1, j2
=============================================================================
