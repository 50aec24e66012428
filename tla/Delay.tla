-------------------------------- MODULE Delay --------------------------------
(***************************************************************************)
(* What the kernel promises its tasks, without ticks that wrap, pending    *)
(* bits or a critical section.  A task sleeps for the number of ticks it   *)
(* asked for: it misses no tick and counts none twice.  The processor is   *)
(* given to a task that is awake, and to the idle task only when no other  *)
(* task is.                                                                *)
(*                                                                         *)
(* Scheduler implements this module.                                       *)
(***************************************************************************)
EXTENDS Integers

CONSTANTS Tasks,    \* the tasks, Idle included
          Idle,     \* the task, one of Tasks, that never sleeps
          Requests  \* the delays a task may ask for: positive numbers of ticks

VARIABLES running,   \* the task that owns the processor
          remaining  \* for each task, the ticks it still has to sleep; 0 awake

vars == <<running, remaining>>

Awake == {t \in Tasks : remaining[t] = 0}

TypeOK ==
    /\ running \in Tasks
    /\ remaining \in [Tasks -> Nat]

Init ==
    /\ running \in Tasks \ {Idle}
    /\ remaining = [t \in Tasks |-> 0]

\* The running task asks to sleep for n ticks; it keeps the processor until
\* the next Dispatch but, being asleep, does nothing with it.
Sleep(n) ==
    /\ running # Idle
    /\ running \in Awake
    /\ remaining' = [remaining EXCEPT ![running] = n]
    /\ UNCHANGED running

\* One tick of the clock: every sleeper has one tick less to sleep.
Tick ==
    /\ remaining' = [t \in Tasks |->
                        IF remaining[t] > 0 THEN remaining[t] - 1 ELSE 0]
    /\ UNCHANGED running

\* The processor is given to an awake task, to Idle as a last resort.
Dispatch ==
    /\ running' \in IF Awake \subseteq {Idle} THEN {Idle} ELSE Awake \ {Idle}
    /\ UNCHANGED remaining

Next ==
    \/ \E n \in Requests : Sleep(n)
    \/ Tick
    \/ Dispatch

Spec == Init /\ [][Next]_vars

\* The clock does not stop while somebody sleeps.
FairSpec == Spec /\ WF_vars(Tick)
==============================================================================
