--------------------------- MODULE UpdateNextTask ----------------------------
(***************************************************************************)
(* The loop of update_next_task in src/task_scheduler/scheduler.c, one     *)
(* iteration per step, from every value of current_task and every          *)
(* combination of task states.  PendSV_Handler calls it and nothing        *)
(* interrupts it.  Scheduler uses what the loop computes,                  *)
(* S!update_next_task, as one step; this module shows that it does.        *)
(***************************************************************************)
EXTENDS Integers

CONSTANT MAX_TASKS  \* number of tasks, idle_task included

ASSUME MaxTasksAssumption == MAX_TASKS \in Nat /\ MAX_TASKS >= 2

VARIABLES
    current_task,   \* the global, which the loop itself moves
    current_state,  \* user_tasks[i].current_state, not changed by the loop
    state,          \* the local variable: state of the last task visited
    i,              \* the loop counter
    pc,             \* "loop", "exit" or "done"
    start           \* history: current_task when the function was called

vars == <<current_task, current_state, state, i, pc, start>>

S == INSTANCE Scheduler WITH
        current_task <- start, TickMod <- 2, Delays <- {}, Callers <- {},
        block_count <- 0, g_tick_count <- 0, primask <- FALSE,
        pendst <- FALSE, pendsv <- FALSE, pc <- 0, tick_count <- 0, sum <- 0

Tasks == 0 .. MAX_TASKS-1
READY == "READY"
BLOCKED == "BLOCKED"

Init ==
    /\ current_task \in Tasks
    /\ current_state \in [Tasks -> {READY, BLOCKED}]
    /\ state = BLOCKED
    /\ i = 0
    /\ pc = "loop"
    /\ start = current_task

\* A loop that tests the state before it moves on.
Iterate_TestFirst ==
    /\ pc = "loop" /\ i < MAX_TASKS
    /\ state' = current_state[current_task]
    /\ IF state' = READY /\ current_task # 0
       THEN pc' = "exit" /\ UNCHANGED <<i, current_task>>
       ELSE /\ i' = i + 1
            /\ current_task' = S!Wrap(current_task + 1, MAX_TASKS)
            /\ UNCHANGED pc
    /\ UNCHANGED <<current_state, start>>

\* One iteration: go to the next index, look at its state, break if it is a
\* ready task other than idle_task.
Iterate ==
    /\ pc = "loop" /\ i < MAX_TASKS
    /\ current_task' = S!Wrap(current_task + 1, MAX_TASKS)
    /\ state' = current_state[current_task']
    /\ IF state' = READY /\ current_task' # 0
       THEN pc' = "exit" /\ UNCHANGED i
       ELSE i' = i + 1 /\ UNCHANGED pc
    /\ UNCHANGED <<current_state, start>>

\* The loop condition i < MAX_TASKS fails.
LoopEnds ==
    /\ pc = "loop" /\ i = MAX_TASKS
    /\ pc' = "exit"
    /\ UNCHANGED <<current_task, current_state, state, i, start>>

\* if (state == TASK_BlOCKED_STATE) current_task = 0;
FallBack ==
    /\ pc = "exit"
    /\ current_task' = IF state = BLOCKED THEN 0 ELSE current_task
    /\ pc' = "done"
    /\ UNCHANGED <<current_state, state, i, start>>

Next == Iterate \/ LoopEnds \/ FallBack

Spec == Init /\ [][Next]_vars

-----------------------------------------------------------------------------
TypeOK ==
    /\ current_task \in Tasks
    /\ current_state \in [Tasks -> {READY, BLOCKED}]
    /\ state \in {READY, BLOCKED}
    /\ i \in 0 .. MAX_TASKS
    /\ pc \in {"loop", "exit", "done"}
    /\ start \in Tasks

\* The function leaves in current_task the first ready task after the one it
\* was called for, that one itself last; and idle_task if there is none.
LoopFindsNextTask == pc = "done" => current_task = S!update_next_task

\* Where the loop is: it has visited the i tasks after start, none of which
\* breaks it, and when it breaks the task it has reached is the first that
\* does.
LoopInv ==
    /\ TypeOK
    /\ pc = "loop" =>
          /\ current_task = S!Wrap(start + i, MAX_TASKS)
          /\ \A k \in 1 .. i : k \notin S!Breaks
          /\ i > 0 => state = current_state[current_task]
    /\ pc = "exit" =>
          /\ state = current_state[current_task]
          /\ \/ /\ S!Breaks = {}
                /\ current_task = start
             \/ \E k \in S!Breaks :
                   current_task = S!Visited(k) /\ \A j \in S!Breaks : k <= j
    /\ LoopFindsNextTask
==============================================================================
