---------------------------- MODULE MCRoundRobin -----------------------------
(* The safety of the scheduler and bounded waiting on a small instance.    *)
EXTENDS RoundRobin
==============================================================================
