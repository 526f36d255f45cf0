---------------------------- MODULE MCScheduler ----------------------------
(***************************************************************************)
(* An instance of Scheduler for TLC: two jobs and a stop.                  *)
(***************************************************************************)
EXTENDS Scheduler
=============================================================================
