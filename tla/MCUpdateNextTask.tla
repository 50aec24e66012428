-------------------------- MODULE MCUpdateNextTask ---------------------------
(* update_next_task with the repository's five tasks.                      *)
EXTENDS UpdateNextTask
==============================================================================
