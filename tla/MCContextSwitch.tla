--------------------------- MODULE MCContextSwitch ---------------------------
(* The processor and the scheduler on a small instance.                    *)
EXTENDS ContextSwitch
==============================================================================
