----------------------------- MODULE MCScheduler -----------------------------
(* The scheduler of two tasks, for the counterexample of a delay of zero.  *)
EXTENDS Scheduler
==============================================================================
