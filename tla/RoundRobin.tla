----------------------------- MODULE RoundRobin ------------------------------
(***************************************************************************)
(* How long a ready task waits for the processor.  A history variable is   *)
(* added to Scheduler: for each task but idle_task, how many times         *)
(* PendSV_Handler has switched to another task since this one last was the *)
(* current task or became READY.  It is read by no action.                 *)
(***************************************************************************)
EXTENDS Scheduler

VARIABLE bypassed

rrvars == <<vars, bypassed>>

Waiters == Tasks \ {Idle}

RRInit ==
    /\ Init
    /\ bypassed = [t \in Waiters |-> 0]

\* A context switch: it bypasses the ready tasks that it does not choose.
Switch ==
    /\ PendSV_Handler
    /\ bypassed' = [t \in Waiters |->
                       IF t = current_task' \/ current_state[t] # READY
                       THEN 0 ELSE bypassed[t] + 1]

\* Any other step; a task that is not READY does not wait.
NoSwitch ==
    /\ \/ TimerExpires
       \/ SysTick_Handler
       \/ \E t \in Tasks : Thread(t)
    /\ bypassed' = [t \in Waiters |->
                       IF current_state'[t] # READY THEN 0 ELSE bypassed[t]]

RRNext == Switch \/ NoSwitch

RRSpec == RRInit /\ [][RRNext]_rrvars

\* Bounded waiting: every other task is switched to at most once before a
\* ready task has its turn, in whatever order the others block and wake up.
BoundedBypass == \A t \in Waiters : bypassed[t] <= MAX_TASKS - 2

\* The tasks between the current one and t, in the order of the round robin,
\* idle_task not counted.
Between(t) ==
    IF t > current_task THEN t - current_task - 1
    ELSE (MAX_TASKS - 1 - current_task) + (t - 1)

\* What the bound rests on: a task that has been bypassed has come that much
\* closer to its turn.
BypassInv ==
    /\ bypassed \in [Waiters -> Nat]
    /\ \A t \in Waiters : bypassed[t] + Between(t) <= MAX_TASKS - 2
    /\ current_task # Idle => bypassed[current_task] = 0
==============================================================================
