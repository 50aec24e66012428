---------------------------- MODULE ContextSwitch ----------------------------
(***************************************************************************)
(* The scheduler on the processor it runs on.  There is one program        *)
(* counter and one set of registers; each task has a stack; the processor  *)
(* stacks half of a thread's registers when it takes an exception, and     *)
(* PendSV_Handler, in assembly, stacks the other half, changes the task    *)
(* and unstacks the registers of the next one.  main's move from the main  *)
(* stack to task 1's, and the dummy frames that init_task_stack lays out   *)
(* for the first switch to each task, are modelled too.                    *)
(*                                                                         *)
(* The unit of memory is eight words, what each half of the registers      *)
(* takes on a stack.  Of the registers, the model keeps those whose loss a *)
(* task would notice in task_delay: in the half that the processor stacks, *)
(* pc and r3, where g_tick_count + tick_count is computed; in the half     *)
(* that PendSV_Handler stacks, r7, which addresses the frame of task_delay.*)
(*                                                                         *)
(* This module implements Scheduler, where each task has a program counter,*)
(* an argument and a register of its own.                                  *)
(***************************************************************************)
EXTENDS Integers, Sequences

CONSTANTS MAX_TASKS, TickMod, Delays, Callers,  \* as in Scheduler
          StackSize                             \* units of memory in a stack

\* A stack holds the dummy frames, a frame of task_delay and a context.
ASSUME ContextSwitchAssumption ==
    /\ MAX_TASKS \in Nat /\ MAX_TASKS >= 2
    /\ TickMod \in Nat /\ TickMod >= 2
    /\ Delays \subseteq 0 .. TickMod-1
    /\ Callers \subseteq 0 .. MAX_TASKS-1
    /\ StackSize \in Nat /\ StackSize >= 5

VARIABLES
    current_task, current_state, block_count, g_tick_count,  \* scheduler.c
    psp_val,          \* user_tasks[i].psp_val
    mem,              \* the stacks
    msp,              \* what is stacked on the main stack, last first
    control,          \* the stack that thread code uses: "MSP" or "PSP"
    psp,              \* the process stack pointer
    pc,               \* code: a task's handler, or Kernel; at: where in it
    lr, r3, r7,       \* registers
    primask, pendst, pendsv,
    systick           \* the SysTick counter runs

data == <<current_task, current_state, block_count, g_tick_count>>
nvic == <<primask, pendst, pendsv, systick>>
stacks == <<msp, control, psp>>
vars == <<data, psp_val, mem, stacks, pc, lr, r3, r7, nvic>>

Tasks == 0 .. MAX_TASKS-1
Idle == 0
READY == "READY"
BLOCKED == "BLOCKED"
Kernel == MAX_TASKS   \* the code of main and of the handlers

\* The operators of Scheduler on the variables of scheduler.c.
Ops == INSTANCE Scheduler WITH pc <- <<>>, tick_count <- <<>>, sum <- <<>>

-----------------------------------------------------------------------------
(* Memory (main.h).                                                        *)

SRAM_END == (MAX_TASKS + 1) * StackSize

\* IDLE_STACK_START one stack too high: idle_task shares the last task's stack.
STACK_START_Overlap(t) ==
    IF t = Idle THEN SRAM_END - (MAX_TASKS - 2) * StackSize
    ELSE SRAM_END - (t - 1) * StackSize

\* T1_STACK_START is SRAM_END, the other tasks' stacks follow downwards, then
\* idle_task's and, below all of them, the main stack.
STACK_START(t) ==
    IF t = Idle THEN SRAM_END - (MAX_TASKS - 1) * StackSize
    ELSE SRAM_END - (t - 1) * StackSize

Addresses == 0 .. SRAM_END-1
Stack(t) == STACK_START(t) - StackSize .. STACK_START(t) - 1

\* What a unit of memory holds: the registers that exception entry stacks,
\* those that PendSV_Handler stacks, a pushed LR, or the frame of task_delay.
HardwareFrame(c, l, s) == [code |-> c, at |-> l, r3 |-> s, r7 |-> 0, n |-> 0]
SoftwareFrame(f) == [code |-> Kernel, at |-> "none", r3 |-> 0, r7 |-> f, n |-> 0]
PushedLR(l) == [code |-> Kernel, at |-> l, r3 |-> 0, r7 |-> 0, n |-> 0]
CallFrame(f, k) == [code |-> Kernel, at |-> "none", r3 |-> 0, r7 |-> f, n |-> k]

-----------------------------------------------------------------------------
(* Where the processor is.                                                 *)

BootSteps == {"init_task_stack", "init_systick_timer", "switch_sp_to_psp",
              "msr_control", "call_task1_handler"}
HandlerSteps == {"SysTick_Handler", "PendSV_Handler", "update_next_task",
                 "get_psp_value", "bx_lr"}

Booting == pc.at \in BootSteps
InHandler == pc.at \in HandlerSteps
Goto(l) == pc' = [pc EXCEPT !.at = l]

-----------------------------------------------------------------------------
(* main, from init_task_stack on, on the main stack.                       *)

\* init_task_stack: every task is READY, and its stack holds what the first
\* switch to it unstacks, above it R0-R3, R12, LR, PC and xPSR with the PC of
\* its handler, below it R4-R11, all zero.
init_task_stack ==
    /\ pc.at = "init_task_stack"
    /\ current_state' = [t \in Tasks |-> READY]
    /\ mem' = [a \in Addresses |->
                  IF \E t \in Tasks : a = STACK_START(t) - 1
                  THEN HardwareFrame(CHOOSE t \in Tasks : a = STACK_START(t) - 1,
                                     "body", 0)
                  ELSE IF \E t \in Tasks : a = STACK_START(t) - 2
                  THEN SoftwareFrame(0) ELSE mem[a]]
    /\ psp_val' = [t \in Tasks |-> STACK_START(t) - 2]
    /\ Goto("init_systick_timer")
    /\ UNCHANGED <<current_task, block_count, g_tick_count, stacks, lr, r3,
                   r7, nvic>>

init_systick_timer ==
    /\ pc.at = "init_systick_timer"
    /\ systick' = TRUE
    /\ Goto("switch_sp_to_psp")
    /\ UNCHANGED <<data, psp_val, mem, stacks, lr, r3, r7, primask, pendst,
                   pendsv>>

\* switch_sp_to_psp up to MSR PSP: it saves LR around its call.
switch_sp_to_psp ==
    /\ pc.at = "switch_sp_to_psp"
    /\ psp' = psp_val[current_task]
    /\ Goto("msr_control")
    /\ UNCHANGED <<data, psp_val, mem, msp, control, lr, r3, r7, nvic>>

\* The rest of switch_sp_to_psp: thread code uses the process stack.
msr_control ==
    /\ pc.at = "msr_control"
    /\ control' = "PSP"
    /\ Goto("call_task1_handler")
    /\ UNCHANGED <<data, psp_val, mem, msp, psp, lr, r3, r7, nvic>>

\* main calls task1_handler, below the dummy frames of task 1, which stay.
call_task1_handler ==
    /\ pc.at = "call_task1_handler"
    /\ pc' = [code |-> 1, at |-> "body"]
    /\ r3' = 0 /\ r7' = 0
    /\ UNCHANGED <<data, psp_val, mem, stacks, lr, nvic>>

Boot ==
    \/ init_task_stack
    \/ init_systick_timer
    \/ switch_sp_to_psp
    \/ msr_control
    \/ call_task1_handler

-----------------------------------------------------------------------------
(* Exception entry and return, done by the processor.                      *)

\* A tick so short that it can expire before task 1 runs.
TimerExpires_DuringBoot ==
    /\ systick
    /\ ~pendst
    /\ pendst' = TRUE
    /\ UNCHANGED <<data, psp_val, mem, stacks, pc, lr, r3, r7, primask,
                   pendsv, systick>>

\* The counter reaches zero.  main gets from init_systick_timer to task 1 in
\* far less than a tick (16000 cycles): the first expiry finds it there.
TimerExpires ==
    /\ systick /\ ~Booting
    /\ ~pendst
    /\ pendst' = TRUE
    /\ UNCHANGED <<data, psp_val, mem, stacks, pc, lr, r3, r7, primask,
                   pendsv, systick>>

ExceptionTaken == ~primask /\ (pendst \/ pendsv)

\* PendSV, the lower exception number, goes first.
Acknowledge ==
    IF pendsv
    THEN pendsv' = FALSE /\ pc' = [code |-> Kernel, at |-> "PendSV_Handler"] /\ UNCHANGED pendst
    ELSE /\ pendst' = FALSE
         /\ pc' = [code |-> Kernel, at |-> "SysTick_Handler"]
         /\ UNCHANGED pendsv

\* The processor stacks half of the registers on the stack that the thread
\* uses, and leaves in LR how to return.
TakeException ==
    /\ ~InHandler /\ ExceptionTaken
    /\ Acknowledge
    /\ IF control = "PSP"
       THEN /\ mem' = [mem EXCEPT ![psp - 1] = HardwareFrame(pc.code, pc.at, r3)]
            /\ psp' = psp - 1
            /\ lr' = "EXC_RETURN_PSP"
            /\ UNCHANGED msp
       ELSE /\ msp' = <<HardwareFrame(pc.code, pc.at, r3)>> \o msp
            /\ lr' = "EXC_RETURN_MSP"
            /\ UNCHANGED <<mem, psp>>
    /\ UNCHANGED <<data, psp_val, control, r3, r7, primask, systick>>

\* BX LR at the end of a handler.  If the other exception is pending its
\* handler starts without unstacking; else LR says what to unstack.  With the
\* LR of a call (BL) the handler would not return: see ReturnsFromHandler.
TailChain ==
    /\ pc.at = "bx_lr" /\ lr # "BL" /\ ExceptionTaken
    /\ Acknowledge
    /\ UNCHANGED <<data, psp_val, mem, stacks, lr, r3, r7, primask, systick>>

ExceptionReturn ==
    /\ pc.at = "bx_lr" /\ lr # "BL" /\ ~ExceptionTaken
    /\ LET stacked == IF lr = "EXC_RETURN_PSP" THEN mem[psp] ELSE Head(msp)
       IN  /\ pc' = [code |-> stacked.code, at |-> stacked.at]
           /\ r3' = stacked.r3
    /\ IF lr = "EXC_RETURN_PSP"
       THEN psp' = psp + 1 /\ UNCHANGED msp
       ELSE msp' = Tail(msp) /\ UNCHANGED psp
    /\ UNCHANGED <<data, psp_val, mem, control, lr, r7, nvic>>

-----------------------------------------------------------------------------
(* The handlers.                                                           *)

\* SysTick_Handler that looks for tasks to wake before it counts the tick.
SysTick_Handler_UnblockFirst ==
    /\ pc.at = "SysTick_Handler"
    /\ g_tick_count' = Ops!Wrap(g_tick_count + 1, TickMod)
    /\ current_state' = Ops!unblock_tasks(g_tick_count)
    /\ pendsv' = TRUE
    /\ Goto("bx_lr")
    /\ UNCHANGED <<current_task, block_count, psp_val, mem, stacks, lr, r3, r7,
                   primask, pendst, systick>>

\* SysTick_Handler is compiled C: it keeps R4-R11, and its own LR.
SysTick_Handler ==
    /\ pc.at = "SysTick_Handler"
    /\ g_tick_count' = Ops!Wrap(g_tick_count + 1, TickMod)
    /\ current_state' = Ops!unblock_tasks(g_tick_count')
    /\ pendsv' = TRUE
    /\ Goto("bx_lr")
    /\ UNCHANGED <<current_task, block_count, psp_val, mem, stacks, lr, r3, r7,
                   primask, pendst, systick>>

\* PendSV_Handler up to save_psp_value: R4-R11 go below what the processor has
\* stacked, the user_tasks entry gets the address, LR goes to the main stack.
save_context ==
    /\ pc.at = "PendSV_Handler"
    /\ mem' = [mem EXCEPT ![psp - 1] = SoftwareFrame(r7)]
    /\ psp_val' = [psp_val EXCEPT ![current_task] = psp - 1]
    /\ msp' = <<PushedLR(lr)>> \o msp
    /\ lr' = "BL"
    /\ Goto("update_next_task")
    /\ UNCHANGED <<data, control, psp, r3, r7, nvic>>

\* The modulo of update_next_task left out.
update_next_task_NoModulo ==
    /\ pc.at = "update_next_task"
    /\ current_task' = current_task + 1
    /\ Goto("get_psp_value")
    /\ UNCHANGED <<current_state, block_count, g_tick_count, psp_val, mem, stacks,
                   lr, r3, r7, nvic>>

update_next_task ==
    /\ pc.at = "update_next_task"
    /\ current_task' = Ops!update_next_task
    /\ Goto("get_psp_value")
    /\ UNCHANGED <<current_state, block_count, g_tick_count, psp_val, mem, stacks,
                   lr, r3, r7, nvic>>

\* R4-R11 of the next task skipped, not loaded.
restore_context_NotLoaded ==
    /\ pc.at = "get_psp_value"
    /\ psp' = psp_val[current_task] + 1
    /\ lr' = Head(msp).at
    /\ msp' = Tail(msp)
    /\ Goto("bx_lr")
    /\ UNCHANGED <<data, psp_val, mem, control, r3, r7, nvic>>

\* PendSV_Handler without its POP {LR}.
restore_context_NoPop ==
    /\ pc.at = "get_psp_value"
    /\ r7' = mem[psp_val[current_task]].r7
    /\ psp' = psp_val[current_task] + 1
    /\ Goto("bx_lr")
    /\ UNCHANGED <<data, psp_val, mem, msp, control, lr, r3, nvic>>

\* PendSV_Handler from get_psp_value to POP {LR}.
restore_context ==
    /\ pc.at = "get_psp_value"
    /\ r7' = mem[psp_val[current_task]].r7
    /\ psp' = psp_val[current_task] + 1
    /\ lr' = Head(msp).at
    /\ msp' = Tail(msp)
    /\ Goto("bx_lr")
    /\ UNCHANGED <<data, psp_val, mem, control, r3, nvic>>

PendSV_Handler ==
    \/ save_context
    \/ update_next_task
    \/ restore_context

-----------------------------------------------------------------------------
(* task_delay, on the process stack, with its frame at r7.                 *)

\* The statement at from of the code that a task runs, on to the one at to.
At(from, to) ==
    /\ pc.at = from /\ ~ExceptionTaken
    /\ Goto(to)

\* A handler calls task_delay(k): its prologue makes the frame.
Call(k) ==
    /\ pc.code \in Callers
    /\ At("body", "disable")
    /\ mem' = [mem EXCEPT ![psp - 1] = CallFrame(r7, k)]
    /\ psp' = psp - 1
    /\ r7' = psp - 1
    /\ UNCHANGED <<data, psp_val, msp, control, lr, r3, nvic>>

INTERRUPT_DISABLE ==
    /\ At("disable", "check")
    /\ primask' = TRUE
    /\ UNCHANGED <<data, psp_val, mem, stacks, lr, r3, r7, pendst, pendsv,
                   systick>>

CheckTask ==
    /\ At("check", IF current_task = Idle THEN "enable" ELSE "read")
    /\ UNCHANGED <<data, psp_val, mem, stacks, lr, r3, r7, nvic>>

ReadTick ==
    /\ At("read", "block_count")
    /\ r3' = Ops!Wrap(g_tick_count + mem[r7].n, TickMod)
    /\ UNCHANGED <<data, psp_val, mem, stacks, lr, r7, nvic>>

SetBlockCount ==
    /\ At("block_count", "state")
    /\ block_count' = [block_count EXCEPT ![current_task] = r3]
    /\ r3' = 0  \* dead
    /\ UNCHANGED <<current_task, current_state, g_tick_count, psp_val, mem, stacks,
                   lr, r7, nvic>>

SetBlocked ==
    /\ At("state", "schedule")
    /\ current_state' = [current_state EXCEPT ![current_task] = BLOCKED]
    /\ UNCHANGED <<current_task, block_count, g_tick_count, psp_val, mem, stacks,
                   lr, r3, r7, nvic>>

schedule ==
    /\ At("schedule", "enable")
    /\ pendsv' = TRUE
    /\ UNCHANGED <<data, psp_val, mem, stacks, lr, r3, r7, primask, pendst,
                   systick>>

INTERRUPT_ENABLE ==
    /\ At("enable", "return")
    /\ primask' = FALSE
    /\ UNCHANGED <<data, psp_val, mem, stacks, lr, r3, r7, pendst, pendsv,
                   systick>>

\* The epilogue of task_delay drops the frame.
Return ==
    /\ At("return", "body")
    /\ psp' = r7 + 1
    /\ r7' = mem[r7].r7
    /\ UNCHANGED <<data, psp_val, mem, msp, control, lr, r3, nvic>>

Thread ==
    \/ \E k \in Delays : Call(k)
    \/ INTERRUPT_DISABLE
    \/ CheckTask
    \/ ReadTick
    \/ SetBlockCount
    \/ SetBlocked
    \/ schedule
    \/ INTERRUPT_ENABLE
    \/ Return

-----------------------------------------------------------------------------
\* Reset_Handler has cleared .bss and set current_task; main has moved MSP to
\* the scheduler's stack.  The process stack pointer is not initialised.
Init ==
    /\ current_task = 1
    /\ current_state = [t \in Tasks |-> READY]
    /\ block_count = [t \in Tasks |-> 0]
    /\ g_tick_count = 0
    /\ psp_val = [t \in Tasks |-> 0]
    /\ mem = [a \in Addresses |-> SoftwareFrame(0)]
    /\ msp = <<>>
    /\ control = "MSP"
    /\ psp \in Addresses \ {0}
    /\ pc = [code |-> Kernel, at |-> "init_task_stack"]
    /\ lr = "BL"
    /\ r3 = 0 /\ r7 = 0
    /\ primask = FALSE /\ pendst = FALSE /\ pendsv = FALSE
    /\ systick = FALSE

Next ==
    \/ Boot
    \/ TimerExpires
    \/ TakeException
    \/ TailChain
    \/ ExceptionReturn
    \/ SysTick_Handler
    \/ PendSV_Handler
    \/ Thread

Spec == Init /\ [][Next]_vars

\* The processor goes on: it takes an exception that is pending and not
\* masked, runs a handler to its end, and runs a thread that no exception
\* interrupts, except that the thread may stay in its handler's own code for
\* ever (no fairness of Call).  The SysTick counter reloads and runs again.
Fairness ==
    /\ WF_vars(Boot)
    /\ WF_vars(TimerExpires)
    /\ WF_vars(TakeException \/ TailChain \/ ExceptionReturn)
    /\ WF_vars(SysTick_Handler \/ PendSV_Handler)
    /\ WF_vars(Thread /\ pc.at # "body")

FairSpec == Spec /\ Fairness

-----------------------------------------------------------------------------
(* Properties.                                                             *)

TypeOK ==
    /\ current_task \in Tasks
    /\ psp_val \in [Tasks -> Addresses \cup {SRAM_END}]
    /\ mem \in [Addresses -> [code : Tasks \cup {Kernel}, at : Ops!Labels \cup {"none"},
                              r3 : 0 .. TickMod-1, r7 : Addresses,
                              n : 0 .. TickMod-1]]
    /\ Len(msp) <= 1
    /\ control \in {"MSP", "PSP"}
    /\ psp \in 0 .. SRAM_END
    /\ pc.code \in Tasks \cup {Kernel}
    /\ r3 \in 0 .. TickMod-1 /\ r7 \in Addresses

\* The thread that runs is the one of current_task, on its own stack; so
\* user_tasks[current_task], which task_delay writes, is the caller's entry.
RunsItsOwnTask ==
    pc.code \in Tasks => 
        /\ pc.code = current_task
        /\ psp \in STACK_START(pc.code) - StackSize .. STACK_START(pc.code)

\* A handler ends with EXC_RETURN in LR, although PendSV_Handler's calls
\* overwrite it, and leaves nothing on the main stack.
ReturnsFromHandler ==
    pc.at = "bx_lr" => lr = "EXC_RETURN_PSP" /\ msp = <<>>

\* Once the tasks run, a stack is written while its task is the current one,
\* and at no other time.
StackWrittenByItsTask ==
    [][~Booting =>
          \A t \in Tasks \ {current_task} :
              \A a \in Stack(t) : mem'[a] = mem[a]]_vars

(* Refinement.  The halves of a task's context are in the processor or on   *)
(* its stack; an exception of Scheduler takes place when the processor      *)
(* takes it, before its handler has done what Scheduler does in that step.  *)

InMemory(t) ==
    t # current_task \/ pc.at = "get_psp_value"

hardware(t) ==
    IF Booting THEN HardwareFrame(t, "body", 0)
    ELSE IF InMemory(t) THEN mem[psp_val[t] + 1]
    ELSE IF InHandler THEN mem[psp]
    ELSE HardwareFrame(pc.code, pc.at, r3)

frame(t) == IF InMemory(t) THEN mem[psp_val[t]].r7 ELSE r7

ticked ==
    IF pc.at = "SysTick_Handler" THEN Ops!Wrap(g_tick_count + 1, TickMod)
    ELSE g_tick_count

\* What Scheduler's variables are here.
next_task ==
    IF pc.at \in {"PendSV_Handler", "update_next_task"} THEN Ops!update_next_task
    ELSE current_task

states ==
    IF pc.at = "SysTick_Handler" THEN Ops!unblock_tasks(ticked) ELSE current_state

switch_pending == pendsv \/ pc.at = "SysTick_Handler"

argument(t) == IF hardware(t).at = "body" THEN 0 ELSE mem[frame(t)].n

S == INSTANCE Scheduler WITH
        current_task <- next_task,
        current_state <- states,
        g_tick_count <- ticked,
        pendsv <- switch_pending,
        pc <- [t \in Tasks |-> hardware(t).at],
        sum <- [t \in Tasks |-> hardware(t).r3],
        tick_count <- [t \in Tasks |-> argument(t)]

\* PendSV_Handler and exception entry give every task a processor of its own:
\* to the code of the tasks, the machine is the one that Scheduler describes.
ImplementsScheduler == S!Spec

\* A ready task is eventually the one PendSV_Handler switches to: the round
\* robin starves none of them, although a task may never give up the
\* processor of its own accord.
ReadyEventuallyDispatched ==
    \A t \in Tasks \ {Idle} : current_state[t] = READY ~> current_task = t

\* The machine keeps Delay's promise of progress as well: every tick comes, so
\* every task that sleeps wakes up.
ImplementsFairDelay == S!ImplementsFairDelay
==============================================================================
