------------------------------ MODULE Scheduler ------------------------------
(***************************************************************************)
(* The task scheduler of src/task_scheduler/scheduler.c: task_delay as the *)
(* running thread executes it, statement by statement, and the two         *)
(* exceptions that interrupt it, SysTick and PendSV.                       *)
(*                                                                         *)
(* An exception is taken between two instructions of the thread, when      *)
(* PRIMASK is clear.  No code of the repository writes the priority        *)
(* registers, so SysTick and PendSV both keep priority 0: neither preempts *)
(* the other, each handler is one step, and when both are pending PendSV   *)
(* goes first because it has the lower exception number.                   *)
(*                                                                         *)
(* Every task has a program counter of its own, as if it had a processor   *)
(* of its own; ContextSwitch shows how PendSV_Handler provides that.       *)
(***************************************************************************)
EXTENDS Integers

CONSTANTS MAX_TASKS,  \* the tasks are 0 .. MAX_TASKS-1, and 0 is idle_task
          TickMod,    \* number of values of a tick counter (2^32 in the code)
          Delays,     \* the values task_delay is called with
          Callers     \* the tasks whose handler calls task_delay

ASSUME SchedulerAssumption ==
    /\ MAX_TASKS \in Nat /\ MAX_TASKS >= 2
    /\ TickMod \in Nat /\ TickMod >= 2
    /\ Delays \subseteq 0 .. TickMod-1
    /\ Callers \subseteq 0 .. MAX_TASKS-1

VARIABLES
    current_task,   \* index of the task that owns the processor
    current_state,  \* user_tasks[i].current_state
    block_count,    \* user_tasks[i].block_count
    g_tick_count,   \* ticks counted, modulo TickMod
    primask,        \* the CPU's PRIMASK: TRUE, no exception is taken
    pendst,         \* ICSR.PENDSTSET: SysTick is pending
    pendsv,         \* ICSR.PENDSVSET: PendSV is pending
    pc,             \* where each task is in task_delay
    tick_count,     \* the argument of each task's call of task_delay
    sum             \* the register that holds g_tick_count + tick_count

tasks == <<current_task, current_state, block_count, g_tick_count>>
pending == <<pendst, pendsv>>
vars == <<tasks, primask, pending, pc, tick_count, sum>>

Tasks == 0 .. MAX_TASKS-1
Idle == 0
Ticks == 0 .. TickMod-1
READY == "READY"
BLOCKED == "BLOCKED"

\* x modulo m, for x below 2 * m.
Wrap(x, m) == IF x < m THEN x ELSE x - m

\* Statements between INTERRUPT_DISABLE and INTERRUPT_ENABLE.
CriticalSection == {"check", "read", "block_count", "state", "schedule", "enable"}
Labels == CriticalSection \cup {"body", "disable", "return"}

-----------------------------------------------------------------------------
(* Exceptions.                                                             *)

\* Between two instructions the processor takes a pending exception first.
ExceptionTaken == ~primask /\ (pendst \/ pendsv)

\* The SysTick counter reaches zero and reloads.  If the exception is still
\* pending from the last time the tick is lost, and nothing changes.
TimerExpires ==
    /\ ~pendst
    /\ pendst' = TRUE
    /\ UNCHANGED <<tasks, primask, pendsv, pc, tick_count, sum>>

\* unblock_tasks: only a task whose block_count is exactly the tick wakes up.
unblock_tasks(tick) ==
    [i \in Tasks |->
        IF i # Idle /\ current_state[i] # READY /\ block_count[i] = tick
        THEN READY ELSE current_state[i]]

SysTick_Handler ==
    /\ ExceptionTaken /\ pendst /\ ~pendsv
    /\ pendst' = FALSE
    /\ g_tick_count' = Wrap(g_tick_count + 1, TickMod)
    /\ current_state' = unblock_tasks(g_tick_count')
    /\ pendsv' = TRUE
    /\ UNCHANGED <<current_task, block_count, primask, pc, tick_count, sum>>

\* update_next_task.  Iteration k visits task Visited(k); the loop breaks at
\* the first one that is ready and is not idle_task, else it ends where it
\* began and falls back on idle_task if that task is blocked.
Visited(k) == Wrap(current_task + k, MAX_TASKS)

Breaks ==
    {k \in 1 .. MAX_TASKS :
        Visited(k) # Idle /\ current_state[Visited(k)] = READY}

\* A search that starts at task 1 each time, not after the current task.
update_next_task_FromOne ==
    IF \E t \in Tasks \ {Idle} : current_state[t] = READY
    THEN CHOOSE t \in Tasks \ {Idle} :
            /\ current_state[t] = READY
            /\ \A u \in 1 .. t-1 : current_state[u] # READY
    ELSE Idle

\* A loop that breaks at idle_task as well.
update_next_task_IdleBreaks ==
    LET Ready == {k \in 1 .. MAX_TASKS : current_state[Visited(k)] = READY}
    IN  Visited(CHOOSE k \in Ready : \A j \in Ready : k <= j)

update_next_task ==
    IF Breaks # {}
    THEN Visited(CHOOSE k \in Breaks : \A j \in Breaks : k <= j)
    ELSE IF current_state[current_task] = BLOCKED THEN Idle ELSE current_task

\* The modulo of update_next_task left out.
PendSV_Handler_NoModulo ==
    /\ ExceptionTaken /\ pendsv
    /\ pendsv' = FALSE
    /\ current_task' = current_task + 1
    /\ UNCHANGED <<current_state, block_count, g_tick_count, primask, pendst,
                   pc, tick_count, sum>>

PendSV_Handler ==
    /\ ExceptionTaken /\ pendsv
    /\ pendsv' = FALSE
    /\ current_task' = update_next_task
    /\ UNCHANGED <<current_state, block_count, g_tick_count, primask, pendst,
                   pc, tick_count, sum>>

-----------------------------------------------------------------------------
(* task_delay, executed by the running thread.                             *)

\* The running task t goes from one statement to the next.
At(t, from, to) ==
    /\ t = current_task
    /\ ~ExceptionTaken
    /\ pc[t] = from
    /\ pc' = [pc EXCEPT ![t] = to]

\* A task handler calls task_delay(n).
Call(t, n) ==
    /\ t \in Callers
    /\ At(t, "body", "disable")
    /\ tick_count' = [tick_count EXCEPT ![t] = n]
    /\ UNCHANGED <<tasks, primask, pending, sum>>

\* task_delay without its INTERRUPT_DISABLE.
INTERRUPT_DISABLE_Missing(t) ==
    /\ At(t, "disable", "check")
    /\ UNCHANGED <<tasks, primask, pending, tick_count, sum>>

INTERRUPT_DISABLE(t) ==
    /\ At(t, "disable", "check")
    /\ primask' = TRUE
    /\ UNCHANGED <<tasks, pending, tick_count, sum>>

\* A return in the branch of idle_task that skips INTERRUPT_ENABLE.
CheckTask_EarlyReturn(t) ==
    /\ At(t, "check", IF t = Idle THEN "return" ELSE "read")
    /\ UNCHANGED <<tasks, primask, pending, tick_count, sum>>

\* if (current_task): idle_task does not block.
CheckTask(t) ==
    /\ At(t, "check", IF t = Idle THEN "enable" ELSE "read")
    /\ UNCHANGED <<tasks, primask, pending, tick_count, sum>>

ReadTick(t) ==
    /\ At(t, "read", "block_count")
    /\ sum' = [sum EXCEPT ![t] = Wrap(g_tick_count + tick_count[t], TickMod)]
    /\ UNCHANGED <<tasks, primask, pending, tick_count>>

SetBlockCount(t) ==
    /\ At(t, "block_count", "state")
    /\ block_count' = [block_count EXCEPT ![t] = sum[t]]
    /\ sum' = [sum EXCEPT ![t] = 0]  \* the register is dead
    /\ UNCHANGED <<current_task, current_state, g_tick_count, primask, pending,
                   tick_count>>

SetBlocked(t) ==
    /\ At(t, "state", "schedule")
    /\ current_state' = [current_state EXCEPT ![t] = BLOCKED]
    /\ UNCHANGED <<current_task, block_count, g_tick_count, primask, pending,
                   tick_count, sum>>

\* task_delay without its call of schedule().
schedule_Missing(t) ==
    /\ At(t, "schedule", "enable")
    /\ UNCHANGED <<tasks, primask, pending, tick_count, sum>>

schedule(t) ==
    /\ At(t, "schedule", "enable")
    /\ pendsv' = TRUE
    /\ UNCHANGED <<tasks, primask, pendst, tick_count, sum>>

INTERRUPT_ENABLE(t) ==
    /\ At(t, "enable", "return")
    /\ primask' = FALSE
    /\ UNCHANGED <<tasks, pending, tick_count, sum>>

Return(t) ==
    /\ At(t, "return", "body")
    /\ tick_count' = [tick_count EXCEPT ![t] = 0]  \* its frame is gone
    /\ UNCHANGED <<tasks, primask, pending, sum>>

Thread(t) ==
    \/ \E n \in Delays : Call(t, n)
    \/ INTERRUPT_DISABLE(t)
    \/ CheckTask(t)
    \/ ReadTick(t)
    \/ SetBlockCount(t)
    \/ SetBlocked(t)
    \/ schedule(t)
    \/ INTERRUPT_ENABLE(t)
    \/ Return(t)

-----------------------------------------------------------------------------
\* main has run init_task_stack, started the timer and moved to task 1's stack.
Init ==
    /\ current_task = 1
    /\ current_state = [i \in Tasks |-> READY]
    /\ block_count = [i \in Tasks |-> 0]
    /\ g_tick_count = 0
    /\ primask = FALSE
    /\ pendst = FALSE
    /\ pendsv = FALSE
    /\ pc = [i \in Tasks |-> "body"]
    /\ tick_count = [i \in Tasks |-> 0]
    /\ sum = [i \in Tasks |-> 0]

Next ==
    \/ TimerExpires
    \/ SysTick_Handler
    \/ PendSV_Handler
    \/ \E t \in Tasks : Thread(t)

Spec == Init /\ [][Next]_vars

-----------------------------------------------------------------------------
(* Properties.                                                             *)

\* Type correctness: the indices and counters of scheduler.c stay in range.
TypeOK ==
    /\ current_task \in Tasks
    /\ current_state \in [Tasks -> {READY, BLOCKED}]
    /\ block_count \in [Tasks -> Ticks]
    /\ g_tick_count \in Ticks
    /\ primask \in BOOLEAN
    /\ pendst \in BOOLEAN
    /\ pendsv \in BOOLEAN
    /\ pc \in [Tasks -> Labels]
    /\ tick_count \in [Tasks -> Ticks]
    /\ sum \in [Tasks -> Ticks]

\* The ticks that are left until g_tick_count equals block_count.
Distance(t) == Wrap(TickMod - g_tick_count + block_count[t], TickMod)

\* A blocked task still has between one tick and the delay it asked for to
\* wait, so the == of unblock_tasks cannot have stepped over it: this is what
\* the critical section of task_delay is for.
NoMissedWakeup ==
    \A t \in Tasks :
        current_state[t] = BLOCKED => Distance(t) \in 1 .. tick_count[t]

\* When g_tick_count reaches a task's block_count the task becomes READY: the
\* tick never goes past the block_count of a task that is still BLOCKED.
NeverOversleeps ==
    \A t \in Tasks :
        current_state[t] = BLOCKED => Distance(t) <= tick_count[t]

\* A task that has blocked executes nothing but the rest of the critical
\* section of task_delay: PendSV is pending before PRIMASK is cleared.
BlockedNeverRuns ==
    current_state[current_task] = BLOCKED => primask \/ pendsv

\* PRIMASK is set exactly while the running task is in the critical section,
\* and no task is switched out in the middle of one: on every path through
\* task_delay, INTERRUPT_ENABLE answers INTERRUPT_DISABLE.
CriticalSectionMasked ==
    \A t \in Tasks : pc[t] \in CriticalSection <=> t = current_task /\ primask

\* idle_task stays READY even if its code calls task_delay, so
\* update_next_task always has a task to fall back on.
IdleNeverBlocks == current_state[Idle] = READY

\* A call of task_delay in progress: idle_task never gets past the test of
\* current_task; between the addition and the end of the critical section the
\* sum, then block_count, is g_tick_count plus the argument, no tick having
\* come between; only the last steps of task_delay find the task BLOCKED.
CallInProgress ==
    \A t \in Tasks :
        /\ pc[t] \in {"read", "block_count", "state", "schedule"} => t # Idle
        /\ pc[t] # "body" => tick_count[t] \in Delays
        /\ pc[t] = "block_count" =>
              sum[t] = Wrap(g_tick_count + tick_count[t], TickMod)
        /\ pc[t] = "state" =>
              block_count[t] = Wrap(g_tick_count + tick_count[t], TickMod)
        /\ current_state[t] = BLOCKED => pc[t] \in {"schedule", "enable", "return"}

\* From the moment schedule() returns, a running task that has blocked has
\* PendSV pending.
SwitchPending ==
    current_state[current_task] = BLOCKED /\ pc[current_task] # "schedule"
        => pendsv

\* The inductive invariant of the safety proofs.
IInv ==
    /\ TypeOK
    /\ IdleNeverBlocks
    /\ CriticalSectionMasked
    /\ CallInProgress
    /\ SwitchPending

\* The scheduler keeps the promise of Delay: a task sleeps for as many ticks
\* as it asked for, counted from the tick at which task_delay blocks it.
remaining ==
    [t \in Tasks |-> IF current_state[t] = BLOCKED THEN Distance(t) ELSE 0]

D == INSTANCE Delay WITH running <- current_task, Requests <- Delays

ImplementsDelay == D!Spec

\* Its promise of progress: ContextSwitch, where the fairness is, checks it.
ImplementsFairDelay == D!FairSpec
==============================================================================
