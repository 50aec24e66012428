------------------------- MODULE ContextSwitchProofs -------------------------
(***************************************************************************)
(* Proofs about ContextSwitch, for every number of tasks, every size of    *)
(* their stacks and every width of the tick counter: the stacks are not    *)
(* mixed up, and the processor implements Scheduler.                       *)
(***************************************************************************)
EXTENDS ContextSwitch, SequenceTheorems, WellFoundedInduction, TLAPS

Ticks == 0 .. TickMod-1

\* Where a thread can be.
ThreadSteps == {"body", "disable", "check", "read", "block_count", "state", "schedule",
                "enable", "return"}

\* The stack pointer of a task in its handler: below the dummy frames for the
\* task that main calls, at the start of the stack for those that are switched
\* to.
Base(t) == STACK_START(t) - (IF t = 1 THEN 2 ELSE 0)

\* The stack pointer and r7 of task t at l, when the processor has stacked
\* nothing: task_delay has a frame.
Top(t, l) == IF l = "body" THEN Base(t) ELSE Base(t) - 1
Frame(t, l) == IF l = "body" THEN 0 ELSE Base(t) - 1

Cells == [code : Tasks \cup {Kernel}, at : ThreadSteps \cup {"none"}, r3 : Ticks, r7 : Addresses, n : Ticks]

Types ==
    /\ current_task \in Tasks
    /\ current_state \in [Tasks -> {READY, BLOCKED}]
    /\ block_count \in [Tasks -> Ticks]
    /\ g_tick_count \in Ticks
    /\ psp_val \in [Tasks -> Addresses]
    /\ mem \in [Addresses -> Cells]
    /\ control \in {"MSP", "PSP"}
    /\ psp \in 0 .. SRAM_END
    /\ pc \in [code : Tasks \cup {Kernel}, at : BootSteps \cup HandlerSteps \cup ThreadSteps]
    /\ r3 \in Ticks /\ r7 \in Addresses
    /\ primask \in BOOLEAN /\ pendst \in BOOLEAN /\ pendsv \in BOOLEAN

\* The frame of task_delay, while t is in it.
Called(t, l) == l # "body" => mem[Base(t) - 1].r7 = 0

\* What the processor stacks of t is at a.
HardwareAt(t, a) ==
    /\ mem[a].code = t /\ mem[a].at \in ThreadSteps
    /\ a = Top(t, mem[a].at) - 1
    /\ Called(t, mem[a].at)

\* The whole context of t is on its stack, at the address in user_tasks.
Suspended(t) ==
    /\ HardwareAt(t, psp_val[t] + 1)
    /\ mem[psp_val[t]].r7 = Frame(t, mem[psp_val[t] + 1].at)

\* What init_task_stack lays out for t.
Dummy(t) ==
    /\ psp_val[t] = STACK_START(t) - 2
    /\ mem[STACK_START(t) - 2].r7 = 0
    /\ mem[STACK_START(t) - 1] = HardwareFrame(t, "body", 0)

\* main's boot path.
BootInv ==
    Booting =>
        /\ pc.code = Kernel /\ current_task = 1
        /\ current_state = [t \in Tasks |-> READY]
        /\ block_count = [t \in Tasks |-> 0] /\ g_tick_count = 0
        /\ ~primask /\ ~pendst /\ ~pendsv
        /\ msp = <<>>
        /\ pc.at # "init_task_stack" => \A t \in Tasks : Dummy(t)
        /\ pc.at \in {"msr_control", "call_task1_handler"} => psp = psp_val[1]
        /\ pc.at = "call_task1_handler" => control = "PSP"

\* A thread runs.
ThreadInv ==
    pc.at \in ThreadSteps =>
        /\ pc.code = current_task
        /\ psp = Top(current_task, pc.at) /\ r7 = Frame(current_task, pc.at)
        /\ Called(current_task, pc.at)
        /\ control = "PSP" /\ msp = <<>>

\* A handler runs, and the context of current_task is not yet on its stack, or
\* no longer.
InterruptedInv ==
    InHandler /\ pc.at # "get_psp_value" =>
        /\ HardwareAt(current_task, psp)
        /\ r7 = Frame(current_task, mem[psp].at)
        /\ pc.at = "update_next_task" =>
              psp = psp_val[current_task] + 1 /\ mem[psp_val[current_task]].r7 = r7

\* LR, and what PendSV_Handler has pushed.
HandlerInv ==
    InHandler =>
        /\ control = "PSP" /\ pc.code = Kernel
        /\ IF pc.at \in {"update_next_task", "get_psp_value"}
           THEN msp = <<PushedLR("EXC_RETURN_PSP")>>
           ELSE msp = <<>> /\ lr = "EXC_RETURN_PSP"

\* The other tasks' contexts are on their stacks.
SuspendedInv == ~Booting => \A t \in Tasks : InMemory(t) => Suspended(t)

\* The inductive invariant.
IInv == Types /\ BootInv /\ ThreadInv /\ InterruptedInv /\ HandlerInv /\ SuspendedInv

-----------------------------------------------------------------------------
(* Memory.                                                                 *)

\* A stack ends where the next one begins, or before.
LEMMA Multiples ==
  ASSUME NEW i \in Nat, NEW j \in Nat, i < j
  PROVE  i * StackSize \in Nat /\ j * StackSize \in Nat
         /\ i * StackSize + StackSize <= j * StackSize
<1> USE ContextSwitchAssumption
<1>1. PICK d \in Nat : j = i + 1 + d
  <2>1. j - i - 1 \in Nat /\ j = i + 1 + (j - i - 1)
    OBVIOUS
  <2> QED BY <2>1
<1>2. j * StackSize = i * StackSize + StackSize + d * StackSize
  BY <1>1
<1>3. d * StackSize \in Nat /\ i * StackSize \in Nat
  OBVIOUS
<1> QED BY <1>2, <1>3

\* The place of a task's stack, counted from the end of the memory.
Slot(t) == IF t = Idle THEN MAX_TASKS - 1 ELSE t - 1

\* The stacks are in memory, above the first stack, and have no address in common.
LEMMA Stacks ==
  /\ SRAM_END \in Nat
  /\ \A t \in Tasks : /\ STACK_START(t) \in Nat
                      /\ StackSize <= STACK_START(t) - StackSize
                      /\ STACK_START(t) <= SRAM_END
  /\ \A t, u \in Tasks : t # u => \/ STACK_START(t) <= STACK_START(u) - StackSize
                                  \/ STACK_START(u) <= STACK_START(t) - StackSize
<1> USE ContextSwitchAssumption DEF Tasks, Idle
<1> DEFINE Place(t) == MAX_TASKS + 1 - Slot(t)
<1>1. \A t \in Tasks : Slot(t) \in 0 .. MAX_TASKS-1 /\ Place(t) \in 2 .. MAX_TASKS+1
  BY DEF Slot
<1>2. \A t, u \in Tasks : t # u => Place(t) # Place(u)
  BY DEF Slot
<1>3. SRAM_END = (MAX_TASKS + 1) * StackSize /\ SRAM_END \in Nat
  BY DEF SRAM_END
<1>4. ASSUME NEW t \in Tasks
      PROVE  STACK_START(t) = Place(t) * StackSize
  <2>1. STACK_START(t) = (MAX_TASKS + 1) * StackSize - Slot(t) * StackSize
    BY DEF STACK_START, SRAM_END, Slot
  <2>2. Slot(t) \in Int
    BY <1>1
  <2> HIDE DEF Slot
  <2> QED BY <2>1, <2>2
<1> HIDE DEF Place, Slot, Tasks
<1>5. ASSUME NEW t \in Tasks
      PROVE  /\ STACK_START(t) \in Nat
             /\ StackSize <= STACK_START(t) - StackSize
             /\ STACK_START(t) <= SRAM_END
  <2>1. Place(t) \in Nat /\ 1 < Place(t) /\ (Place(t) = MAX_TASKS + 1 \/ Place(t) < MAX_TASKS + 1)
    BY <1>1
  <2>2. Place(t) * StackSize \in Nat /\ StackSize + StackSize <= Place(t) * StackSize
    BY <2>1, Multiples
  <2>3. Place(t) * StackSize <= SRAM_END
    <3>1. CASE Place(t) = MAX_TASKS + 1
      BY <1>3, <3>1
    <3>2. CASE Place(t) < MAX_TASKS + 1
      <4>1. Place(t) * StackSize + StackSize <= (MAX_TASKS + 1) * StackSize
        BY <2>1, <3>2, Multiples
      <4> QED BY <1>3, <2>2, <4>1
    <3> QED BY <2>1, <3>1, <3>2
  <2> QED BY <1>4, <2>2, <2>3
<1>6. ASSUME NEW t \in Tasks, NEW u \in Tasks, t # u
      PROVE  \/ STACK_START(t) <= STACK_START(u) - StackSize
             \/ STACK_START(u) <= STACK_START(t) - StackSize
  <2>1. Place(t) \in Nat /\ Place(u) \in Nat /\ (Place(t) < Place(u) \/ Place(u) < Place(t))
    BY <1>1, <1>2, <1>6
  <2>2. CASE Place(t) < Place(u)
    BY <1>4, <2>1, <2>2, Multiples
  <2>3. CASE Place(u) < Place(t)
    BY <1>4, <2>1, <2>3, Multiples
  <2> QED BY <2>1, <2>2, <2>3
<1> QED BY <1>3, <1>5, <1>6

\* The addresses that a context of t may take are on its stack.
LEMMA OnStack ==
  ASSUME NEW t \in Tasks
  PROVE  /\ Base(t) \in Nat
         /\ \A k \in 1..3 : Base(t) - k \in Stack(t)
         /\ STACK_START(t) - 1 \in Stack(t) /\ STACK_START(t) - 2 \in Stack(t)
         /\ Stack(t) \subseteq Addresses
         /\ 0 \in Addresses /\ Base(t) <= SRAM_END
         /\ \A u \in Tasks : u # t => Stack(t) \cap Stack(u) = {}
BY Stacks, ContextSwitchAssumption DEF Base, Stack, Addresses

-----------------------------------------------------------------------------
(* The operators of Scheduler.                                             *)

\* Every non-empty set of naturals has a least element.
LEMMA LeastNat ==
  ASSUME NEW Q, Q \subseteq Nat, Q # {}
  PROVE  \E n \in Q : \A m \in Q : n <= m
<1> DEFINE R == {p \in Nat \X Nat : p[1] < p[2]}
<1>1. IsWellFoundedOn(R, Nat)
  BY NatLessThanWellFounded DEF OpToRel
<1>2. PICK n \in Q : \A m \in Q : ~ (<<m, n>> \in R)
  <2> HIDE DEF R
  <2> QED BY <1>1, WFMin
<1>3. ASSUME NEW m \in Q
      PROVE  n <= m
  <2>1. n \in Nat /\ m \in Nat /\ ~ (m < n)
    BY <1>2
  <2> QED BY <2>1
<1> QED BY <1>3

\* The loop of update_next_task leaves the index of a task.
LEMMA NextTaskInRange ==
  ASSUME Types
  PROVE  Ops!update_next_task \in Tasks
<1> USE ContextSwitchAssumption
<1>1. \A k \in 1 .. MAX_TASKS : Ops!Visited(k) \in Tasks
  BY DEF Types, Ops!Visited, Ops!Wrap, Tasks
<1>2. CASE Ops!Breaks # {}
  <2>1. \E k \in Ops!Breaks : \A j \in Ops!Breaks : k <= j
    <3>1. Ops!Breaks \subseteq Nat
      BY DEF Ops!Breaks
    <3> QED BY <1>2, <3>1, LeastNat
  <2>2. PICK k \in Ops!Breaks : Ops!update_next_task = Ops!Visited(k)
    BY <2>1, <1>2 DEF Ops!update_next_task
  <2> QED BY <1>1, <2>2 DEF Ops!Breaks
<1>3. CASE Ops!Breaks = {}
  BY <1>3 DEF Ops!update_next_task, Ops!Idle, Types, Tasks
<1> QED BY <1>2, <1>3

LEMMA UnblockTypes ==
  ASSUME Types, NEW tick
  PROVE  Ops!unblock_tasks(tick) \in [Tasks -> {READY, BLOCKED}]
BY DEF Types, Ops!unblock_tasks, Ops!Tasks, Tasks, Ops!READY, READY

LEMMA WrapTypes ==
  ASSUME NEW m \in Nat, NEW x \in 0 .. 2*m-1
  PROVE  Ops!Wrap(x, m) \in 0 .. m-1
BY DEF Ops!Wrap

\* Where the processor can be.
LEMMA Steps ==
  /\ BootSteps \cap HandlerSteps = {}
  /\ BootSteps \cap ThreadSteps = {}
  /\ HandlerSteps \cap ThreadSteps = {}
  /\ ThreadSteps = Ops!Labels
BY DEF BootSteps, HandlerSteps, ThreadSteps, Ops!Labels, Ops!CriticalSection

\* The frames are units of memory.
LEMMA Frames ==
  /\ \A c \in Tasks \cup {Kernel}, l \in ThreadSteps, k \in Ticks : HardwareFrame(c, l, k) \in Cells
  /\ \A f \in Addresses : SoftwareFrame(f) \in Cells
  /\ \A f \in Addresses, k \in Ticks : CallFrame(f, k) \in Cells
<1>1. 0 \in Ticks /\ 0 \in Addresses
  <2>1. 1 \in Tasks
    BY ContextSwitchAssumption DEF Tasks
  <2> QED BY <2>1, OnStack, ContextSwitchAssumption DEF Ticks
<1> QED BY <1>1 DEF Cells, HardwareFrame, SoftwareFrame, CallFrame

LEMMA InitInvariant ==
  ASSUME Init
  PROVE  IInv
<1>1. 1 \in Tasks /\ 0 \in Ticks /\ 0 \in Addresses
  <2>1. 1 \in Tasks
    BY ContextSwitchAssumption DEF Tasks
  <2> QED BY <2>1, OnStack, ContextSwitchAssumption DEF Ticks
<1>2. Types
  <2>1. psp \in 0 .. SRAM_END
    BY Stacks DEF Init, Addresses
  <2>2. mem \in [Addresses -> Cells]
    BY <1>1, Frames DEF Init
  <2> QED BY <1>1, <2>1, <2>2 DEF Init, Types, BootSteps
<1>3. Booting /\ ~InHandler /\ pc.at \notin ThreadSteps
  BY DEF Init, Booting, InHandler, BootSteps, HandlerSteps, ThreadSteps
<1>4. BootInv
  BY DEF Init, BootInv
<1> QED BY <1>2, <1>3, <1>4 DEF IInv, ThreadInv, InterruptedInv, HandlerInv, SuspendedInv

-----------------------------------------------------------------------------
(* What leaves the contexts alone.                                         *)

\* Where a context that the processor has stacked is.
LEMMA ContextOnStack ==
  ASSUME NEW t \in Tasks, NEW a, HardwareAt(t, a)
  PROVE  /\ mem[a].at \in ThreadSteps
         /\ a \in Stack(t) /\ a - 1 \in Stack(t) /\ a \in Nat
         /\ Called(t, mem[a].at) /\ mem[a].code = t
         /\ a = Top(t, mem[a].at) - 1
         /\ Base(t) - 1 \in Stack(t)
         /\ a + 1 <= SRAM_END
<1>1. a = Base(t) - 1 \/ a = Base(t) - 2
  BY OnStack DEF HardwareAt, Top
<1>2. /\ Base(t) \in Nat /\ Base(t) <= SRAM_END
      /\ Base(t) - 1 \in Stack(t) /\ Base(t) - 2 \in Stack(t) /\ Base(t) - 3 \in Stack(t)
  BY OnStack
<1>3. a \in Stack(t) /\ a - 1 \in Stack(t) /\ a \in Nat /\ a + 1 <= SRAM_END
  <2>1. Stack(t) \subseteq Nat
    BY OnStack DEF Addresses
  <2>2. CASE a = Base(t) - 1
    BY <1>2, <2>1, <2>2, Stacks
  <2>3. CASE a = Base(t) - 2
    BY <1>2, <2>1, <2>3, Stacks
  <2> QED BY <1>1, <2>2, <2>3
<1> QED BY <1>2, <1>3 DEF HardwareAt

LEMMA HardwareKept ==
  ASSUME NEW t \in Tasks, NEW a, HardwareAt(t, a), \A b \in Stack(t) : mem'[b] = mem[b]
  PROVE  HardwareAt(t, a)' /\ mem'[a] = mem[a]
BY ContextOnStack DEF HardwareAt, Called

LEMMA SuspendedKept ==
  ASSUME NEW t \in Tasks, Types, Suspended(t), psp_val'[t] = psp_val[t],
         \A b \in Stack(t) : mem'[b] = mem[b]
  PROVE  Suspended(t)'
<1>1. psp_val[t] \in Int
  BY Stacks DEF Types, Addresses
<1>2. HardwareAt(t, psp_val[t] + 1)' /\ mem'[psp_val[t] + 1] = mem[psp_val[t] + 1]
  BY HardwareKept DEF Suspended
<1>3. psp_val[t] \in Stack(t)
  BY <1>1, ContextOnStack DEF Suspended
<1> QED BY <1>2, <1>3 DEF Suspended, Frame

\* The others' stacks are not written.
LEMMA OthersKept ==
  ASSUME Types, NEW t \in Tasks, NEW b \in Stack(t), NEW cell, mem' = [mem EXCEPT ![b] = cell]
  PROVE  /\ \A u \in Tasks \ {t} : \A a \in Stack(u) : mem'[a] = mem[a]
         /\ mem'[b] = cell
         /\ \A a \in Stack(t) \ {b} : mem'[a] = mem[a]
BY OnStack DEF Types

-----------------------------------------------------------------------------
(* The boot path.                                                          *)

LEMMA InitTaskStackStep ==
  ASSUME IInv, init_task_stack
  PROVE  IInv'
<1> USE DEF IInv, init_task_stack, Goto
<1>1. /\ pc'.at = "init_systick_timer" /\ pc'.code = pc.code
      /\ pc' \in [code : Tasks \cup {Kernel}, at : BootSteps \cup HandlerSteps \cup ThreadSteps]
  BY DEF Types, BootSteps
<1>2. Booting /\ Booting' /\ ~InHandler' /\ pc'.at \notin ThreadSteps
  BY <1>1, Steps DEF Booting, InHandler, BootSteps, HandlerSteps, ThreadSteps
<1> DEFINE top(t) == STACK_START(t) - 1
           next(t) == STACK_START(t) - 2
           New(a) == IF \E t \in Tasks : a = top(t)
                     THEN HardwareFrame(CHOOSE t \in Tasks : a = top(t), "body", 0)
                     ELSE IF \E t \in Tasks : a = next(t) THEN SoftwareFrame(0) ELSE mem[a]
<1>3. mem' = [a \in Addresses |-> New(a)]
  OBVIOUS
<1>4. ASSUME NEW t \in Tasks
      PROVE  /\ top(t) \in Addresses /\ next(t) \in Addresses
             /\ \A u \in Tasks : top(t) = top(u) => t = u
             /\ \A u \in Tasks : next(t) # top(u)
  BY OnStack, Stacks, ContextSwitchAssumption
<1>5. mem' \in [Addresses -> Cells]
  <2>1. 0 \in Ticks /\ 0 \in Addresses
    BY OnStack, ContextSwitchAssumption DEF Types, Ticks
  <2> SUFFICES ASSUME NEW a \in Addresses
               PROVE  New(a) \in Cells
    BY <1>3
  <2> HIDE DEF top, next
  <2>2. CASE \E t \in Tasks : a = top(t)
    <3>1. (CHOOSE t \in Tasks : a = top(t)) \in Tasks
      BY <2>2
    <3> QED BY <2>1, <2>2, <3>1, Frames DEF ThreadSteps
  <2>3. CASE ~ \E t \in Tasks : a = top(t)
    BY <2>1, <2>3, Frames DEF Types
  <2> QED BY <2>2, <2>3
<1>6. ASSUME NEW t \in Tasks
      PROVE  /\ mem'[top(t)] = HardwareFrame(t, "body", 0)
             /\ mem'[next(t)] = SoftwareFrame(0)
  <2> HIDE DEF top, next
  <2>1. (CHOOSE u \in Tasks : top(t) = top(u)) = t
    BY <1>4
  <2>2. mem'[top(t)] = New(top(t)) /\ mem'[next(t)] = New(next(t))
    BY <1>3, <1>4
  <2> QED BY <1>4, <2>1, <2>2
<1>7. Types'
  <2>1. psp_val' \in [Tasks -> Addresses]
    BY OnStack
  <2> QED BY <1>1, <1>5, <2>1 DEF Types, stacks, nvic
<1>8. BootInv'
  <2>1. \A t \in Tasks : Dummy(t)'
    <3> SUFFICES ASSUME NEW t \in Tasks
                 PROVE  Dummy(t)'
      OBVIOUS
    <3>1. psp_val'[t] = STACK_START(t) - 2
      OBVIOUS
    <3>2. SoftwareFrame(0).r7 = 0
      BY DEF SoftwareFrame
    <3> QED BY <1>6, <3>1, <3>2 DEF Dummy
  <2> QED BY <1>1, <1>2, <2>1 DEF BootInv, stacks, nvic
<1> QED BY <1>2, <1>7, <1>8 DEF ThreadInv, InterruptedInv, HandlerInv, SuspendedInv

\* The steps of main that leave memory as init_task_stack has made it.
LEMMA BootStep ==
  ASSUME IInv, init_systick_timer \/ switch_sp_to_psp \/ msr_control
  PROVE  IInv'
<1> USE DEF IInv, Goto, init_systick_timer, switch_sp_to_psp, msr_control
<1>1. /\ pc'.at = CASE pc.at = "init_systick_timer" -> "switch_sp_to_psp"
                    [] pc.at = "switch_sp_to_psp" -> "msr_control"
                    [] pc.at = "msr_control" -> "call_task1_handler"
      /\ pc.at \in {"init_systick_timer", "switch_sp_to_psp", "msr_control"}
      /\ pc'.code = pc.code
      /\ pc' \in [code : Tasks \cup {Kernel}, at : BootSteps \cup HandlerSteps \cup ThreadSteps]
  BY DEF Types, BootSteps
<1>2. Booting /\ Booting' /\ ~InHandler' /\ pc'.at \notin ThreadSteps
  BY <1>1, Steps DEF Booting, InHandler, BootSteps, HandlerSteps, ThreadSteps
<1>3. UNCHANGED <<data, psp_val, mem, msp, lr, r3, r7, primask, pendst, pendsv>>
  BY DEF stacks, nvic
<1>4. Types'
  <2>1. psp' \in 0 .. SRAM_END
    BY Stacks DEF Types, stacks, Addresses
  <2>2. control' \in {"MSP", "PSP"}
    BY DEF Types, stacks
  <2> QED BY <1>1, <1>3, <2>1, <2>2 DEF Types, data
<1>5. BootInv'
  <2>1. \A t \in Tasks : Dummy(t)'
    BY <1>1, <1>2, <1>3 DEF BootInv, Dummy
  <2>2. pc'.at \in {"msr_control", "call_task1_handler"} => psp' = psp_val'[1]
    BY <1>1, <1>2, <1>3 DEF BootInv, stacks, data
  <2>3. pc'.at = "call_task1_handler" => control' = "PSP"
    BY <1>1 DEF stacks
  <2> QED BY <1>1, <1>2, <1>3, <2>1, <2>2, <2>3 DEF BootInv, data
<1> QED BY <1>2, <1>4, <1>5 DEF ThreadInv, InterruptedInv, HandlerInv, SuspendedInv

LEMMA CallTask1Step ==
  ASSUME IInv, call_task1_handler
  PROVE  IInv'
<1> USE DEF IInv, call_task1_handler
<1>1. 1 \in Tasks /\ 0 \in Ticks /\ 0 \in Addresses
  <2>1. 1 \in Tasks
    BY ContextSwitchAssumption DEF Tasks
  <2> QED BY <2>1, OnStack, ContextSwitchAssumption DEF Ticks
<1>2. pc'.at = "body" /\ pc'.code = 1
  OBVIOUS
<1>3. Booting /\ ~Booting' /\ ~InHandler' /\ pc'.at \in ThreadSteps
  BY <1>2 DEF Booting, InHandler, BootSteps, HandlerSteps, ThreadSteps
<1>4. UNCHANGED <<data, psp_val, mem, msp, control, psp, primask, pendst, pendsv>>
  BY DEF stacks, nvic
<1>5. Types'
  BY <1>1, <1>4 DEF Types, data, ThreadSteps
<1>6. current_task = 1 /\ psp = psp_val[1] /\ control = "PSP" /\ msp = <<>>
      /\ \A t \in Tasks : Dummy(t)
  BY <1>3 DEF BootInv
<1>7. ThreadInv'
  BY <1>1, <1>2, <1>4, <1>6 DEF ThreadInv, Top, Frame, Base, Called, Dummy, data
<1>8. SuspendedInv'
  <2> SUFFICES ASSUME NEW t \in Tasks, InMemory(t)'
               PROVE  Suspended(t)'
    BY DEF SuspendedInv
  <2>1. t # 1
    BY <1>2, <1>4, <1>6 DEF InMemory, data
  <2>2. Base(t) = STACK_START(t) /\ STACK_START(t) \in Nat
    BY <2>1, Stacks DEF Base
  <2>3. mem[STACK_START(t) - 1].at = "body" /\ mem[STACK_START(t) - 1].code = t
    <3>1. mem[STACK_START(t) - 1] = HardwareFrame(t, "body", 0)
      BY <1>6 DEF Dummy
    <3> QED BY <3>1 DEF HardwareFrame
  <2>4. psp_val[t] + 1 = STACK_START(t) - 1 /\ mem[psp_val[t]].r7 = 0
    BY <1>6, <2>2 DEF Dummy
  <2>5. HardwareAt(t, psp_val[t] + 1)
    BY <2>2, <2>3, <2>4 DEF HardwareAt, Top, Called, ThreadSteps
  <2>6. Suspended(t)
    BY <2>3, <2>4, <2>5 DEF Suspended, Frame
  <2> QED BY <1>4, <2>6 DEF Suspended, HardwareAt, Called
<1> QED BY <1>3, <1>5, <1>7, <1>8 DEF BootInv, InterruptedInv, HandlerInv

-----------------------------------------------------------------------------
(* The code of the tasks.                                                  *)

\* A statement of task_delay between its prologue and its epilogue.
LEMMA StatementStep ==
  ASSUME IInv, Types',
         pc.at \in ThreadSteps \ {"body"}, pc'.at \in ThreadSteps \ {"body"}, pc'.code = pc.code,
         UNCHANGED <<current_task, psp_val, mem, msp, control, psp, r7>>
  PROVE  IInv'
<1> USE DEF IInv
<1>1. ~Booting /\ ~InHandler /\ ~Booting' /\ ~InHandler' /\ pc'.at # "get_psp_value"
      /\ pc.at # "get_psp_value"
  BY Steps DEF Booting, InHandler, HandlerSteps
<1>2. ThreadInv'
  BY DEF ThreadInv, Top, Frame, Called
<1>3. SuspendedInv'
  BY <1>1 DEF SuspendedInv, InMemory, Suspended, HardwareAt, Called
<1> QED BY <1>1, <1>2, <1>3 DEF BootInv, InterruptedInv, HandlerInv

LEMMA GotoTypes ==
  ASSUME Types, NEW l \in BootSteps \cup HandlerSteps \cup ThreadSteps, Goto(l)
  PROVE  /\ pc'.at = l /\ pc'.code = pc.code
         /\ pc' \in [code : Tasks \cup {Kernel}, at : BootSteps \cup HandlerSteps \cup ThreadSteps]
BY DEF Types, Goto

LEMMA StatementsStep ==
  ASSUME IInv,
         \/ INTERRUPT_DISABLE \/ CheckTask \/ ReadTick \/ SetBlockCount \/ SetBlocked \/ schedule
         \/ INTERRUPT_ENABLE
  PROVE  IInv'
<1> USE DEF IInv, At
<1>a. {"disable", "check", "read", "block_count", "state", "schedule", "enable", "return"}
          = ThreadSteps \ {"body"}
  BY DEF ThreadSteps
<1>1. CASE INTERRUPT_DISABLE
  BY <1>1, <1>a, GotoTypes, StatementStep DEF INTERRUPT_DISABLE, Types, data, stacks
<1>2. CASE CheckTask
  <2>1. Goto(IF current_task = Idle THEN "enable" ELSE "read") /\ pc.at = "check"
    BY <1>2 DEF CheckTask
  <2>2. UNCHANGED <<data, psp_val, mem, stacks, lr, r3, r7, nvic>>
    BY <1>2 DEF CheckTask
  <2>3. pc'.at \in {"enable", "read"} /\ pc'.code = pc.code
        /\ pc' \in [code : Tasks \cup {Kernel}, at : BootSteps \cup HandlerSteps \cup ThreadSteps]
    BY <1>a, <2>1, GotoTypes
  <2>4. Types'
    BY <2>2, <2>3 DEF Types, data, stacks, nvic
  <2> QED BY <1>a, <2>1, <2>2, <2>3, <2>4, StatementStep DEF data, stacks
<1>3. CASE ReadTick
  <2>1. r3' \in Ticks
    <3>1. r7 \in Addresses /\ mem[r7].n \in Ticks /\ g_tick_count \in Ticks
      BY DEF Types, Cells
    <3>2. TickMod \in Nat /\ g_tick_count + mem[r7].n \in 0 .. 2 * TickMod - 1
      BY <3>1, ContextSwitchAssumption DEF Ticks
    <3> QED BY <1>3, <3>2, WrapTypes DEF ReadTick, Ticks
  <2>2. Goto("block_count") /\ pc.at = "read"
    BY <1>3 DEF ReadTick
  <2>3. UNCHANGED <<data, psp_val, mem, stacks, lr, r7, nvic>>
    BY <1>3 DEF ReadTick
  <2>4. Types'
    BY <1>a, <2>1, <2>2, <2>3, GotoTypes DEF Types, data, stacks, nvic
  <2> QED BY <1>a, <2>2, <2>3, <2>4, GotoTypes, StatementStep DEF data, stacks
<1>4. CASE SetBlockCount
  <2>1. Goto("state") /\ pc.at = "block_count"
    BY <1>4 DEF SetBlockCount
  <2>2. 0 \in Ticks
    BY ContextSwitchAssumption DEF Ticks
  <2>3. UNCHANGED <<current_task, current_state, g_tick_count, psp_val, mem, stacks, lr, r7, nvic>>
        /\ block_count' = [block_count EXCEPT ![current_task] = r3] /\ r3' = 0
    BY <1>4 DEF SetBlockCount
  <2>4. Types'
    BY <1>a, <2>1, <2>2, <2>3, GotoTypes DEF Types, stacks, nvic
  <2> QED BY <1>a, <2>1, <2>3, <2>4, GotoTypes, StatementStep DEF stacks
<1>5. CASE SetBlocked
  <2>1. Goto("schedule") /\ pc.at = "state"
    BY <1>5 DEF SetBlocked
  <2>2. UNCHANGED <<current_task, block_count, g_tick_count, psp_val, mem, stacks, lr, r3, r7, nvic>>
        /\ current_state' = [current_state EXCEPT ![current_task] = BLOCKED]
    BY <1>5 DEF SetBlocked
  <2>3. Types'
    BY <1>a, <2>1, <2>2, GotoTypes DEF Types, stacks, nvic
  <2> QED BY <1>a, <2>1, <2>2, <2>3, GotoTypes, StatementStep DEF stacks
<1>6. CASE schedule
  BY <1>6, <1>a, GotoTypes, StatementStep DEF schedule, Types, data, stacks
<1>7. CASE INTERRUPT_ENABLE
  BY <1>7, <1>a, GotoTypes, StatementStep DEF INTERRUPT_ENABLE, Types, data, stacks
<1> QED BY <1>1, <1>2, <1>3, <1>4, <1>5, <1>6, <1>7

LEMMA CallStep ==
  ASSUME IInv, NEW k \in Delays, Call(k)
  PROVE  IInv'
<1> USE DEF IInv
<1> DEFINE b == Base(current_task) - 1
<1>1. current_task \in Tasks /\ pc.at = "body" /\ pc.at \in ThreadSteps
  BY DEF Types, Call, At, ThreadSteps
<1>2. psp = Base(current_task) /\ r7 = 0 /\ pc.code = current_task /\ control = "PSP" /\ msp = <<>>
  BY <1>1 DEF ThreadInv, Top, Frame
<1>3. b \in Stack(current_task) /\ b \in Addresses /\ b \in Nat /\ b <= SRAM_END
  BY <1>1, OnStack, Stacks DEF Addresses
<1>4. /\ mem' = [mem EXCEPT ![b] = CallFrame(0, k)]
      /\ psp' = b /\ r7' = b
      /\ UNCHANGED <<data, psp_val, msp, control, lr, r3, nvic>>
  BY <1>2 DEF Call
<1>5. pc'.at = "disable" /\ pc'.code = pc.code
      /\ pc' \in [code : Tasks \cup {Kernel}, at : BootSteps \cup HandlerSteps \cup ThreadSteps]
  BY GotoTypes DEF Call, At, ThreadSteps
<1>6. ~Booting /\ ~InHandler /\ ~Booting' /\ ~InHandler' /\ pc'.at \in ThreadSteps
      /\ pc'.at # "get_psp_value" /\ pc.at # "get_psp_value"
  BY <1>1, <1>5, Steps DEF Booting, InHandler, ThreadSteps, HandlerSteps
<1>7. CallFrame(0, k) \in Cells
  <2>1. k \in Ticks /\ 0 \in Addresses
    BY <1>1, OnStack, ContextSwitchAssumption DEF Ticks
  <2> QED BY <2>1, Frames
<1>8. Types'
  <2>1. mem' \in [Addresses -> Cells]
    BY <1>3, <1>4, <1>7 DEF Types
  <2>2. psp' \in 0 .. SRAM_END /\ r7' \in Addresses
    BY <1>3, <1>4, Stacks
  <2> QED BY <1>4, <1>5, <2>1, <2>2 DEF Types, data, nvic
<1>9. \A u \in Tasks \ {current_task} : \A a \in Stack(u) : mem'[a] = mem[a]
  BY <1>1, <1>3, <1>4, OthersKept
<1>10. ThreadInv'
  <2>1. mem'[b].r7 = 0
    BY <1>3, <1>4 DEF Types, CallFrame
  <2>2. UNCHANGED current_task
    BY <1>4 DEF data
  <2>3. Top(current_task, "disable") = b /\ Frame(current_task, "disable") = b
    BY DEF Top, Frame
  <2> QED BY <1>2, <1>4, <1>5, <2>1, <2>2, <2>3 DEF ThreadInv, Called, Top, Frame
<1>11. SuspendedInv'
  BY <1>4, <1>6, <1>9, SuspendedKept DEF SuspendedInv, InMemory, data
<1> QED BY <1>6, <1>8, <1>10, <1>11 DEF BootInv, InterruptedInv, HandlerInv

LEMMA ReturnStep ==
  ASSUME IInv, Return
  PROVE  IInv'
<1> USE DEF IInv
<1>1. current_task \in Tasks /\ pc.at = "return" /\ pc.at \in ThreadSteps
  BY DEF Types, Return, At, ThreadSteps
<1>2. /\ r7 = Base(current_task) - 1 /\ pc.code = current_task /\ control = "PSP" /\ msp = <<>>
      /\ mem[r7].r7 = 0
  BY <1>1 DEF ThreadInv, Top, Frame, Called
<1>3. Base(current_task) \in Nat /\ Base(current_task) <= SRAM_END /\ 0 \in Addresses
  BY <1>1, OnStack
<1>4. psp' = Base(current_task) /\ r7' = 0
      /\ UNCHANGED <<data, psp_val, mem, msp, control, lr, r3, nvic>>
  BY <1>2, <1>3 DEF Return
<1>5. pc'.at = "body" /\ pc'.code = pc.code
      /\ pc' \in [code : Tasks \cup {Kernel}, at : BootSteps \cup HandlerSteps \cup ThreadSteps]
  BY GotoTypes DEF Return, At, ThreadSteps
<1>6. ~Booting /\ ~InHandler /\ ~Booting' /\ ~InHandler' /\ pc'.at \in ThreadSteps
      /\ pc'.at # "get_psp_value" /\ pc.at # "get_psp_value"
  BY <1>1, <1>5, Steps DEF Booting, InHandler, ThreadSteps, HandlerSteps
<1>7. Types'
  BY <1>3, <1>4, <1>5, Stacks DEF Types, data, nvic
<1>8. ThreadInv'
  BY <1>2, <1>4, <1>5 DEF ThreadInv, Called, Top, Frame, data
<1>9. SuspendedInv'
  BY <1>4, <1>6, SuspendedKept DEF SuspendedInv, InMemory, data
<1> QED BY <1>6, <1>7, <1>8, <1>9 DEF BootInv, InterruptedInv, HandlerInv

-----------------------------------------------------------------------------
(* Exceptions and handlers.                                                *)

\* A step that leaves the processor where it is in the code.
LEMMA FlagsStep ==
  ASSUME IInv, Types', Booting => ~pendst' /\ ~pendsv',
         UNCHANGED <<data, psp_val, mem, stacks, pc, lr, r3, r7, primask>>
  PROVE  IInv'
<1> USE DEF IInv, data, stacks
<1>1. BootInv'
  BY DEF BootInv, Booting, Dummy
<1>2. ThreadInv' /\ HandlerInv'
  BY DEF ThreadInv, HandlerInv, Called, InHandler, Top, Frame
<1>3. InterruptedInv'
  BY DEF InterruptedInv, HardwareAt, Called, InHandler
<1>4. SuspendedInv'
  BY DEF SuspendedInv, Suspended, HardwareAt, Called, Booting, InMemory
<1> QED BY <1>1, <1>2, <1>3, <1>4

\* A step inside the handlers that has nothing to do with the context.
LEMMA HandlerStep ==
  ASSUME IInv, Types',
         pc.at \in {"SysTick_Handler", "bx_lr"},
         pc'.at \in {"SysTick_Handler", "PendSV_Handler", "bx_lr"}, pc'.code = Kernel,
         UNCHANGED <<current_task, psp_val, mem, stacks, lr, r7>>
  PROVE  IInv'
<1> USE DEF IInv, stacks
<1>1. /\ InHandler /\ InHandler' /\ ~Booting /\ ~Booting'
      /\ pc.at \notin ThreadSteps /\ pc'.at \notin ThreadSteps
      /\ pc'.at \notin {"update_next_task", "get_psp_value"}
      /\ pc.at \notin {"update_next_task", "get_psp_value"}
  BY DEF InHandler, Booting, HandlerSteps, BootSteps, ThreadSteps
<1>2. InterruptedInv'
  BY <1>1 DEF InterruptedInv, HardwareAt, Called
<1>3. HandlerInv'
  BY <1>1 DEF HandlerInv
<1>4. SuspendedInv'
  BY <1>1 DEF SuspendedInv, InMemory, Suspended, HardwareAt, Called
<1> QED BY <1>1, <1>2, <1>3, <1>4 DEF BootInv, ThreadInv

LEMMA AcknowledgeFacts ==
  ASSUME Types, Acknowledge
  PROVE  /\ pc'.code = Kernel /\ pc'.at \in {"PendSV_Handler", "SysTick_Handler"}
         /\ pc' \in [code : Tasks \cup {Kernel}, at : BootSteps \cup HandlerSteps \cup ThreadSteps]
         /\ pendst' \in BOOLEAN /\ pendsv' \in BOOLEAN
<1>1. Kernel \in Tasks \cup {Kernel} /\ {"PendSV_Handler", "SysTick_Handler"} \subseteq HandlerSteps
  BY DEF HandlerSteps
<1>2. CASE pendsv
  <2>1. pendsv' = FALSE /\ pc' = [code |-> Kernel, at |-> "PendSV_Handler"] /\ UNCHANGED pendst
    BY <1>2 DEF Acknowledge
  <2>2. pc'.code = Kernel /\ pc'.at = "PendSV_Handler"
    BY <2>1
  <2>3. pc' \in [code : Tasks \cup {Kernel}, at : BootSteps \cup HandlerSteps \cup ThreadSteps]
    BY <1>1, <2>1
  <2> QED BY <2>1, <2>2, <2>3 DEF Types
<1>3. CASE ~pendsv
  <2>1. pendst' = FALSE /\ pc' = [code |-> Kernel, at |-> "SysTick_Handler"] /\ UNCHANGED pendsv
    BY <1>3 DEF Acknowledge
  <2>2. pc'.code = Kernel /\ pc'.at = "SysTick_Handler"
    BY <2>1
  <2>3. pc' \in [code : Tasks \cup {Kernel}, at : BootSteps \cup HandlerSteps \cup ThreadSteps]
    BY <1>1, <2>1
  <2> QED BY <2>1, <2>2, <2>3 DEF Types
<1> QED BY <1>2, <1>3

LEMMA TakeExceptionStep ==
  ASSUME IInv, TakeException
  PROVE  IInv'
<1> USE DEF IInv
<1>1. current_task \in Tasks /\ pc.at \in ThreadSteps /\ ~Booting
  BY DEF Types, TakeException, ExceptionTaken, BootInv, Booting, InHandler
<1>2. /\ psp = Top(current_task, pc.at) /\ r7 = Frame(current_task, pc.at)
      /\ Called(current_task, pc.at) /\ pc.code = current_task
      /\ control = "PSP" /\ msp = <<>>
  BY <1>1 DEF ThreadInv
<1> DEFINE b == psp - 1
<1>3. /\ b \in Stack(current_task) /\ b \in Addresses /\ b \in Nat /\ b <= SRAM_END
      /\ pc.at # "body" => b # Base(current_task) - 1 /\ Base(current_task) - 1 \in Stack(current_task)
  BY <1>1, <1>2, OnStack, Stacks DEF Addresses, Top
<1>4. /\ mem' = [mem EXCEPT ![b] = HardwareFrame(current_task, pc.at, r3)]
      /\ psp' = b /\ lr' = "EXC_RETURN_PSP"
      /\ UNCHANGED <<data, psp_val, msp, control, r3, r7, primask, systick>>
  BY <1>2 DEF TakeException
<1>5. Acknowledge
  BY DEF TakeException
<1>6. ~Booting' /\ InHandler' /\ ~InHandler /\ pc'.at \notin ThreadSteps
      /\ pc'.at \notin {"update_next_task", "get_psp_value"} /\ pc.at # "get_psp_value"
  BY <1>1, <1>5, AcknowledgeFacts, Steps
     DEF Booting, InHandler, ThreadSteps, HandlerSteps, BootSteps
<1>7. Types'
  <2>1. HardwareFrame(current_task, pc.at, r3) \in Cells
    BY <1>1, Frames DEF Types
  <2>2. mem' \in [Addresses -> Cells]
    BY <1>3, <1>4, <2>1 DEF Types
  <2>3. psp' \in 0 .. SRAM_END
    BY <1>3, <1>4, Stacks
  <2> QED BY <1>4, <1>5, <2>2, <2>3, AcknowledgeFacts DEF Types, data
<1>8. /\ \A u \in Tasks \ {current_task} : \A a \in Stack(u) : mem'[a] = mem[a]
      /\ mem'[b] = HardwareFrame(current_task, pc.at, r3)
      /\ \A a \in Stack(current_task) \ {b} : mem'[a] = mem[a]
  BY <1>1, <1>3, <1>4, OthersKept
<1>9. InterruptedInv'
  <2>1. mem'[b].code = current_task /\ mem'[b].at = pc.at
    BY <1>8 DEF HardwareFrame
  <2>2. b = Top(current_task, pc.at) - 1
    BY <1>2
  <2>3. pc.at # "body" => mem'[Base(current_task) - 1].r7 = 0
    BY <1>2, <1>3, <1>8 DEF Called
  <2>4. UNCHANGED <<current_task, r7>> /\ psp' = b
    BY <1>4 DEF data
  <2>5. HardwareAt(current_task, psp)'
    BY <1>1, <2>1, <2>2, <2>3, <2>4 DEF HardwareAt, Called, Top
  <2>6. r7' = Frame(current_task', mem'[psp'].at)
    BY <1>2, <2>1, <2>4
  <2> QED BY <1>6, <2>5, <2>6 DEF InterruptedInv, Frame
<1>10. HandlerInv'
  BY <1>2, <1>4, <1>5, <1>6, AcknowledgeFacts DEF HandlerInv
<1>11. SuspendedInv'
  BY <1>1, <1>4, <1>6, <1>8, SuspendedKept DEF SuspendedInv, InMemory, data
<1> QED BY <1>6, <1>7, <1>9, <1>10, <1>11 DEF BootInv, ThreadInv

LEMMA TailChainStep ==
  ASSUME IInv, TailChain
  PROVE  IInv'
<1>1. Types'
  BY AcknowledgeFacts DEF IInv, Types, TailChain, data, stacks
<1> QED BY <1>1, AcknowledgeFacts, HandlerStep DEF IInv, TailChain, data

LEMMA SysTickStep ==
  ASSUME IInv, SysTick_Handler
  PROVE  IInv'
<1> USE DEF IInv
<1>1. pc.at = "SysTick_Handler" /\ Goto("bx_lr")
  BY DEF SysTick_Handler
<1>2. pc'.at = "bx_lr" /\ pc'.code = Kernel
      /\ pc' \in [code : Tasks \cup {Kernel}, at : BootSteps \cup HandlerSteps \cup ThreadSteps]
  BY <1>1, GotoTypes DEF HandlerInv, InHandler, HandlerSteps
<1>3. g_tick_count' \in Ticks
  <2>1. TickMod \in Nat /\ g_tick_count + 1 \in 0 .. 2 * TickMod - 1
    BY ContextSwitchAssumption DEF Types, Ticks
  <2> QED BY <2>1, WrapTypes DEF SysTick_Handler, Ticks
<1>4. current_state' \in [Tasks -> {READY, BLOCKED}]
  BY UnblockTypes DEF SysTick_Handler
<1>5. Types'
  BY <1>2, <1>3, <1>4 DEF SysTick_Handler, Types, stacks
<1> QED BY <1>1, <1>2, <1>5, HandlerStep DEF SysTick_Handler

LEMMA ExceptionReturnStep ==
  ASSUME IInv, ExceptionReturn
  PROVE  IInv'
<1> USE DEF IInv
<1>1. current_task \in Tasks /\ pc.at = "bx_lr" /\ InHandler /\ ~Booting
  BY Steps DEF Types, ExceptionReturn, InHandler, HandlerSteps, Booting
<1>2. /\ HardwareAt(current_task, psp) /\ r7 = Frame(current_task, mem[psp].at)
      /\ control = "PSP" /\ msp = <<>> /\ lr = "EXC_RETURN_PSP"
  BY <1>1 DEF InterruptedInv, HandlerInv
<1>3. /\ pc' = [code |-> mem[psp].code, at |-> mem[psp].at] /\ r3' = mem[psp].r3
      /\ psp' = psp + 1
      /\ UNCHANGED <<data, psp_val, mem, msp, control, r7, nvic>>
  BY <1>2 DEF ExceptionReturn
<1>4. /\ pc'.code = current_task /\ pc'.at = mem[psp].at /\ pc'.at \in ThreadSteps
      /\ psp = Top(current_task, mem[psp].at) - 1 /\ Called(current_task, mem[psp].at)
      /\ psp \in Stack(current_task) /\ psp \in Nat /\ psp + 1 <= SRAM_END
  BY <1>1, <1>2, <1>3, ContextOnStack
<1>5. ~Booting' /\ ~InHandler' /\ pc'.at # "get_psp_value"
  BY <1>4, Steps DEF Booting, InHandler, HandlerSteps
<1>6. Types'
  <2>1. mem[psp].r3 \in Ticks
    BY <1>1, <1>4, OnStack DEF Types, Cells
  <2>2. psp' \in 0 .. SRAM_END
    BY <1>3, <1>4, Stacks
  <2>3. pc' \in [code : Tasks \cup {Kernel}, at : BootSteps \cup HandlerSteps \cup ThreadSteps]
    BY <1>1, <1>3, <1>4
  <2> QED BY <1>3, <2>1, <2>2, <2>3 DEF Types, data, nvic
<1>7. ThreadInv'
  <2>1. Top(current_task, mem[psp].at) \in Int
    BY <1>1, OnStack DEF Top
  <2>2. psp' = Top(current_task, pc'.at)
    BY <1>3, <1>4, <2>1
  <2> QED BY <1>2, <1>3, <1>4, <2>2 DEF ThreadInv, Called, Top, Frame, data
<1>8. SuspendedInv'
  BY <1>1, <1>3, <1>5, SuspendedKept DEF SuspendedInv, InMemory, data
<1> QED BY <1>5, <1>6, <1>7, <1>8 DEF BootInv, InterruptedInv, HandlerInv

\* What PendSV_Handler pushes is what it pops.
LEMMA PushPop ==
  ASSUME NEW x
  PROVE  /\ <<x>> \o <<>> = <<x>>
         /\ Head(<<x>>) = x /\ Tail(<<x>>) = <<>>
<1>1. <<x>> \in Seq({x})
  OBVIOUS
<1>2. <<x>> \o <<>> = <<x>>
  BY <1>1, ConcatEmptySeq
<1> QED BY <1>2

LEMMA SaveContextStep ==
  ASSUME IInv, save_context
  PROVE  IInv'
<1> USE DEF IInv
<1>1. current_task \in Tasks /\ pc.at = "PendSV_Handler" /\ InHandler /\ ~Booting
      /\ pc.at \notin {"update_next_task", "get_psp_value"}
  BY DEF Types, save_context, InHandler, HandlerSteps, Booting, BootSteps
<1>2. /\ HardwareAt(current_task, psp) /\ r7 = Frame(current_task, mem[psp].at)
      /\ control = "PSP" /\ msp = <<>> /\ lr = "EXC_RETURN_PSP" /\ pc.code = Kernel
  BY <1>1 DEF InterruptedInv, HandlerInv
<1> DEFINE b == psp - 1
<1>3. /\ mem' = [mem EXCEPT ![b] = SoftwareFrame(r7)]
      /\ psp_val' = [psp_val EXCEPT ![current_task] = b]
      /\ msp' = <<PushedLR("EXC_RETURN_PSP")>>
      /\ UNCHANGED <<data, control, psp, r3, r7, nvic>>
  BY <1>2, PushPop DEF save_context
<1>4. pc'.at = "update_next_task" /\ pc'.code = Kernel
      /\ pc' \in [code : Tasks \cup {Kernel}, at : BootSteps \cup HandlerSteps \cup ThreadSteps]
  BY <1>2, GotoTypes DEF save_context, HandlerSteps
<1>5. InHandler' /\ ~Booting' /\ pc'.at \notin ThreadSteps
  BY <1>4 DEF InHandler, Booting, HandlerSteps, BootSteps, ThreadSteps
<1>6. /\ psp \in Stack(current_task) /\ b \in Stack(current_task) /\ b \in Addresses /\ psp \in Nat
      /\ mem[psp].at # "body" => b # Base(current_task) - 1
      /\ Base(current_task) - 1 \in Stack(current_task)
      /\ psp = Top(current_task, mem[psp].at) - 1 /\ Called(current_task, mem[psp].at)
  <2>1. /\ psp \in Stack(current_task) /\ b \in Stack(current_task) /\ psp \in Nat
        /\ Base(current_task) - 1 \in Stack(current_task)
        /\ psp = Top(current_task, mem[psp].at) - 1 /\ Called(current_task, mem[psp].at)
    BY <1>1, <1>2, ContextOnStack
  <2>2. b \in Addresses /\ Base(current_task) \in Nat
    BY <1>1, <2>1, OnStack
  <2>3. mem[psp].at # "body" => b # Base(current_task) - 1
    BY <2>1, <2>2 DEF Top
  <2> QED BY <2>1, <2>2, <2>3
<1>7. /\ \A u \in Tasks \ {current_task} : \A a \in Stack(u) : mem'[a] = mem[a]
      /\ mem'[b] = SoftwareFrame(r7)
      /\ \A a \in Stack(current_task) \ {b} : mem'[a] = mem[a]
  BY <1>1, <1>3, <1>6, OthersKept
<1>8. Types'
  <2>1. SoftwareFrame(r7) \in Cells
    BY Frames DEF Types
  <2>2. mem' \in [Addresses -> Cells]
    BY <1>3, <1>6, <2>1 DEF Types
  <2>3. psp_val' \in [Tasks -> Addresses]
    BY <1>3, <1>6 DEF Types
  <2> QED BY <1>3, <1>4, <2>2, <2>3 DEF Types, data, nvic
<1>9. InterruptedInv'
  <2>1. mem'[psp] = mem[psp]
    BY <1>6, <1>7
  <2>2. mem[psp].at # "body" => mem'[Base(current_task) - 1].r7 = 0
    BY <1>6, <1>7 DEF Called
  <2>3. UNCHANGED <<current_task, psp, r7>>
    BY <1>3 DEF data
  <2>4. HardwareAt(current_task, psp)'
    BY <1>2, <2>1, <2>2, <2>3 DEF HardwareAt, Called, Top
  <2>5. r7' = Frame(current_task', mem'[psp'].at)
    BY <1>2, <2>1, <2>3
  <2>6. psp_val'[current_task] = b /\ psp = b + 1
    BY <1>1, <1>3, <1>6 DEF Types
  <2>7. SoftwareFrame(r7).r7 = r7
    BY DEF SoftwareFrame
  <2> QED BY <1>4, <1>7, <2>3, <2>4, <2>5, <2>6, <2>7 DEF InterruptedInv, Frame
<1>10. HandlerInv'
  BY <1>2, <1>3, <1>4 DEF HandlerInv
<1>11. SuspendedInv'
  <2> SUFFICES ASSUME NEW t \in Tasks, InMemory(t)'
               PROVE  Suspended(t)'
    BY DEF SuspendedInv
  <2>1. t # current_task /\ InMemory(t)
    BY <1>3, <1>4 DEF InMemory, data
  <2>2. psp_val'[t] = psp_val[t]
    BY <1>3, <2>1 DEF Types
  <2> QED BY <1>1, <1>7, <2>1, <2>2, SuspendedKept DEF SuspendedInv
<1> QED BY <1>5, <1>8, <1>9, <1>10, <1>11 DEF BootInv, ThreadInv

LEMMA UpdateNextTaskStep ==
  ASSUME IInv, update_next_task
  PROVE  IInv'
<1> USE DEF IInv
<1>1. current_task \in Tasks /\ pc.at = "update_next_task" /\ InHandler /\ ~Booting
      /\ pc.at # "get_psp_value"
  BY DEF Types, update_next_task, InHandler, HandlerSteps, Booting, BootSteps
<1>2. /\ UNCHANGED <<current_state, block_count, g_tick_count, psp_val, mem, stacks, lr, r3, r7, nvic>>
      /\ current_task' = Ops!update_next_task
  BY DEF update_next_task
<1>3. pc'.at = "get_psp_value" /\ pc'.code = pc.code
      /\ pc' \in [code : Tasks \cup {Kernel}, at : BootSteps \cup HandlerSteps \cup ThreadSteps]
  BY GotoTypes DEF update_next_task, HandlerSteps
<1>4. InHandler' /\ ~Booting' /\ pc'.at \notin ThreadSteps
  BY <1>3 DEF InHandler, Booting, HandlerSteps, BootSteps, ThreadSteps
<1>5. Types'
  BY <1>2, <1>3, NextTaskInRange DEF Types, stacks, nvic
<1>6. HandlerInv'
  BY <1>1, <1>2, <1>3 DEF HandlerInv, stacks
<1>7. SuspendedInv'
  <2> SUFFICES ASSUME NEW t \in Tasks
               PROVE  Suspended(t)'
    BY DEF SuspendedInv
  <2>1. Suspended(t)
    <3>1. CASE t = current_task
      <4>1. /\ HardwareAt(current_task, psp) /\ r7 = Frame(current_task, mem[psp].at)
            /\ psp = psp_val[current_task] + 1 /\ mem[psp_val[current_task]].r7 = r7
        BY <1>1 DEF InterruptedInv
      <4> QED BY <3>1, <4>1 DEF Suspended
    <3>2. CASE t # current_task
      BY <1>1, <3>2 DEF SuspendedInv, InMemory
    <3> QED BY <3>1, <3>2
  <2> QED BY <1>2, <2>1 DEF Suspended, HardwareAt, Called
<1> QED BY <1>3, <1>4, <1>5, <1>6, <1>7 DEF BootInv, ThreadInv, InterruptedInv

LEMMA RestoreContextStep ==
  ASSUME IInv, restore_context
  PROVE  IInv'
<1> USE DEF IInv
<1>1. current_task \in Tasks /\ pc.at = "get_psp_value" /\ InHandler /\ ~Booting
  BY DEF Types, restore_context, InHandler, HandlerSteps, Booting, BootSteps
<1>2. /\ Suspended(current_task)
      /\ msp = <<PushedLR("EXC_RETURN_PSP")>> /\ control = "PSP" /\ pc.code = Kernel
  BY <1>1 DEF SuspendedInv, InMemory, HandlerInv
<1>3. /\ r7' = mem[psp_val[current_task]].r7 /\ psp' = psp_val[current_task] + 1
      /\ UNCHANGED <<data, psp_val, mem, control, r3, nvic>>
  BY DEF restore_context
<1>4. lr' = "EXC_RETURN_PSP" /\ msp' = <<>>
  BY <1>2, PushPop DEF restore_context, PushedLR
<1>5. pc'.at = "bx_lr" /\ pc'.code = Kernel
      /\ pc' \in [code : Tasks \cup {Kernel}, at : BootSteps \cup HandlerSteps \cup ThreadSteps]
  BY <1>2, GotoTypes DEF restore_context, HandlerSteps
<1>6. InHandler' /\ ~Booting' /\ pc'.at \notin ThreadSteps
      /\ pc'.at \notin {"update_next_task", "get_psp_value"}
  BY <1>5 DEF InHandler, Booting, HandlerSteps, BootSteps, ThreadSteps
<1>7. Types'
  <2>1. psp_val[current_task] \in Addresses
    BY <1>1 DEF Types
  <2>2. psp' \in 0 .. SRAM_END
    BY <1>3, <2>1, Stacks DEF Addresses
  <2>3. r7' \in Addresses
    BY <1>3, <2>1 DEF Types, Cells
  <2> QED BY <1>3, <1>5, <2>2, <2>3 DEF Types, data, nvic
<1>8. InterruptedInv'
  BY <1>2, <1>3, <1>6, <1>5 DEF InterruptedInv, Suspended, HardwareAt, Called, Frame, Top, data
<1>9. HandlerInv'
  BY <1>2, <1>3, <1>4, <1>5 DEF HandlerInv
<1>10. SuspendedInv'
  BY <1>1, <1>3, <1>6, SuspendedKept DEF SuspendedInv, InMemory, data
<1> QED BY <1>6, <1>7, <1>8, <1>9, <1>10 DEF BootInv, ThreadInv

LEMMA NextInvariant ==
  ASSUME IInv, [Next]_vars
  PROVE  IInv'
<1>1. CASE Boot
  BY <1>1, InitTaskStackStep, BootStep, CallTask1Step DEF Boot
<1>2. CASE TimerExpires
  <2>1. ~Booting /\ Types'
    BY <1>2 DEF IInv, TimerExpires, Types, data, stacks
  <2> QED BY <1>2, <2>1, FlagsStep DEF TimerExpires
<1>3. CASE PendSV_Handler
  BY <1>3, SaveContextStep, UpdateNextTaskStep, RestoreContextStep DEF PendSV_Handler
<1>4. CASE Thread
  BY <1>4, CallStep, StatementsStep, ReturnStep DEF Thread
<1>5. CASE UNCHANGED vars
  <2>1. Types' /\ (Booting => ~pendst' /\ ~pendsv')
    BY <1>5 DEF IInv, BootInv, Types, vars, data, stacks, nvic
  <2> QED BY <1>5, <2>1, FlagsStep DEF vars, nvic
<1> QED BY <1>1, <1>2, <1>3, <1>4, <1>5, TakeExceptionStep, TailChainStep, ExceptionReturnStep,
           SysTickStep DEF Next

\* The inductive invariant holds, for any number of tasks.
THEOREM Invariance == Spec => []IInv
<1>1. Init => IInv
  BY InitInvariant
<1>2. IInv /\ [Next]_vars => IInv'
  BY NextInvariant
<1> QED BY <1>1, <1>2, PTL DEF Spec

-----------------------------------------------------------------------------
(* The properties of the processor.                                        *)

\* The registers, the stacks and the entries of user_tasks keep their types;
\* the main stack never holds more than the LR that PendSV_Handler has pushed.
THEOREM TypeCorrect == Spec => []TypeOK
<1>1. ASSUME IInv
      PROVE  TypeOK
  <2>1. Len(msp) <= 1
    <3>1. CASE msp = <<>>
      BY <3>1
    <3>2. CASE msp = <<PushedLR("EXC_RETURN_PSP")>>
      BY <3>2
    <3> QED BY <1>1, <3>1, <3>2 DEF IInv, Types, BootInv, ThreadInv, HandlerInv, Booting, InHandler
  <2>2. psp_val \in [Tasks -> Addresses \cup {SRAM_END}]
    BY <1>1 DEF IInv, Types
  <2>3. mem \in [Addresses -> [code : Tasks \cup {Kernel}, at : Ops!Labels \cup {"none"},
                              r3 : 0 .. TickMod-1, r7 : Addresses, n : 0 .. TickMod-1]]
    BY <1>1, Steps DEF IInv, Types, Cells, Ticks
  <2> QED BY <1>1, <2>1, <2>2, <2>3 DEF IInv, Types, TypeOK, Ticks
<1> QED BY <1>1, Invariance, PTL

\* Thread code is that of current_task, on its own stack, however exceptions
\* come: the stacks of different tasks have no address in common.
THEOREM RunsItsOwnTaskHolds == Spec => []RunsItsOwnTask
<1>1. ASSUME IInv, pc.code \in Tasks
      PROVE  pc.code = current_task
             /\ psp \in STACK_START(pc.code) - StackSize .. STACK_START(pc.code)
  <2>1. Kernel \notin Tasks
    BY ContextSwitchAssumption DEF Kernel, Tasks
  <2>2. pc.at \in ThreadSteps /\ current_task \in Tasks
    BY <1>1, <2>1 DEF IInv, Types, BootInv, HandlerInv, Booting, InHandler
  <2>3. pc.code = current_task /\ psp = Top(current_task, pc.at)
    BY <1>1, <2>2 DEF IInv, ThreadInv
  <2> QED BY <2>2, <2>3, Stacks, ContextSwitchAssumption DEF Top, Base
<1> QED BY <1>1, Invariance, PTL DEF RunsItsOwnTask

\* A handler ends with EXC_RETURN in LR and nothing on the main stack: what
\* PendSV_Handler pushes is what it pops.
THEOREM ReturnsFromHandlerHolds == Spec => []ReturnsFromHandler
<1>1. ASSUME IInv, pc.at = "bx_lr"
      PROVE  lr = "EXC_RETURN_PSP" /\ msp = <<>>
  BY <1>1 DEF IInv, HandlerInv, InHandler, HandlerSteps
<1> QED BY <1>1, Invariance, PTL DEF ReturnsFromHandler

\* What is pushed next goes on the stack of current_task.
LEMMA NextPush ==
  ASSUME IInv, pc.at \in ThreadSteps \cup {"PendSV_Handler"}
  PROVE  current_task \in Tasks /\ psp - 1 \in Stack(current_task)
<1> USE DEF IInv
<1>1. current_task \in Tasks
  BY DEF Types
<1>2. CASE pc.at \in ThreadSteps
  <2>1. psp = Top(current_task, pc.at)
    BY <1>2 DEF ThreadInv
  <2> QED BY <1>1, <2>1, OnStack DEF Top
<1>3. CASE pc.at = "PendSV_Handler"
  <2>1. HardwareAt(current_task, psp)
    BY <1>3 DEF InterruptedInv, InHandler, HandlerSteps
  <2> QED BY <1>1, <2>1, ContextOnStack
<1> QED BY <1>1, <1>2, <1>3

\* The steps that write memory push on the process stack.
LEMMA OnlyPushes ==
  ASSUME IInv, [Next]_vars, ~Booting
  PROVE  \/ UNCHANGED mem
         \/ /\ pc.at \in ThreadSteps \cup {"PendSV_Handler"}
            /\ \E cell : mem' = [mem EXCEPT ![psp - 1] = cell]
<1> USE DEF IInv
<1>1. CASE Boot
  BY <1>1 DEF Boot, Booting, BootSteps, init_task_stack, init_systick_timer, switch_sp_to_psp,
     msr_control, call_task1_handler
<1>2. CASE TakeException
  <2>1. pc.at \in ThreadSteps
    BY <1>2 DEF TakeException, InHandler, Booting, Types
  <2>2. mem' = [mem EXCEPT ![psp - 1] = HardwareFrame(pc.code, pc.at, r3)]
    BY <1>2, <2>1 DEF TakeException, ThreadInv
  <2> QED BY <2>1, <2>2
<1>3. CASE PendSV_Handler
  <2>1. CASE save_context
    BY <2>1 DEF save_context
  <2> QED BY <1>3, <2>1 DEF PendSV_Handler, update_next_task, restore_context
<1>4. CASE Thread
  <2>1. ASSUME NEW k \in Delays, Call(k)
        PROVE  pc.at \in ThreadSteps /\ mem' = [mem EXCEPT ![psp - 1] = CallFrame(r7, k)]
    BY <2>1 DEF Call, At, ThreadSteps
  <2> QED
    BY <1>4, <2>1 DEF Thread, INTERRUPT_DISABLE, CheckTask, ReadTick, SetBlockCount, SetBlocked,
       schedule, INTERRUPT_ENABLE, Return, stacks
<1>5. CASE TimerExpires \/ TailChain \/ ExceptionReturn \/ SysTick_Handler \/ UNCHANGED vars
  BY <1>5 DEF TimerExpires, TailChain, ExceptionReturn, SysTick_Handler, vars
<1> QED BY <1>1, <1>2, <1>3, <1>4, <1>5 DEF Next

LEMMA OthersNotWritten ==
  ASSUME IInv, [Next]_vars, ~Booting
  PROVE  \A t \in Tasks \ {current_task} : \A a \in Stack(t) : mem'[a] = mem[a]
<1>1. CASE UNCHANGED mem
  BY <1>1
<1>2. CASE /\ pc.at \in ThreadSteps \cup {"PendSV_Handler"}
           /\ \E cell : mem' = [mem EXCEPT ![psp - 1] = cell]
  <2>1. PICK cell : mem' = [mem EXCEPT ![psp - 1] = cell]
    BY <1>2
  <2>2. current_task \in Tasks /\ psp - 1 \in Stack(current_task)
    BY <1>2, NextPush
  <2> QED BY <2>1, <2>2, OthersKept DEF IInv
<1> QED BY <1>1, <1>2, OnlyPushes

\* Once the tasks run, memory is written on the stack of current_task only.
THEOREM StackWrittenByItsTaskHolds == Spec => StackWrittenByItsTask
<1>1. IInv /\ [Next]_vars =>
        [~Booting => \A t \in Tasks \ {current_task} : \A a \in Stack(t) : mem'[a] = mem[a]]_vars
  BY OthersNotWritten
<1> QED BY <1>1, Invariance, PTL DEF Spec, StackWrittenByItsTask

-----------------------------------------------------------------------------
(* What Scheduler sees of the tasks.                                       *)

\* Scheduler's pc, sum and tick_count.
Places == [t \in Tasks |-> hardware(t).at]
Sums == [t \in Tasks |-> hardware(t).r3]
Arguments == [t \in Tasks |-> argument(t)]

\* The argument of a call of task_delay is in its frame.
LEMMA Views ==
  IInv /\ ~Booting =>
    \A t \in Tasks :
       /\ hardware(t).at \in ThreadSteps
       /\ argument(t) = IF hardware(t).at = "body" THEN 0 ELSE mem[Base(t) - 1].n
<1> SUFFICES ASSUME IInv, ~Booting, NEW t \in Tasks
             PROVE  hardware(t).at \in ThreadSteps /\ frame(t) = Frame(t, hardware(t).at)
  BY DEF argument, Frame
<1> USE DEF IInv
<1>1. CASE InMemory(t)
  <2>1. Suspended(t)
    BY <1>1 DEF SuspendedInv
  <2> QED BY <1>1, <2>1 DEF Suspended, HardwareAt, hardware, frame
<1>2. CASE ~InMemory(t) /\ InHandler
  <2>1. t = current_task /\ HardwareAt(t, psp) /\ r7 = Frame(t, mem[psp].at)
    BY <1>2 DEF InMemory, InterruptedInv
  <2> QED BY <1>2, <2>1 DEF HardwareAt, hardware, frame
<1>3. CASE ~InMemory(t) /\ ~InHandler
  <2>1. t = current_task /\ pc.at \in ThreadSteps /\ r7 = Frame(t, pc.at)
    BY <1>3 DEF InMemory, Types, Booting, InHandler, ThreadInv
  <2> QED BY <1>3, <2>1 DEF hardware, frame, HardwareFrame
<1> QED BY <1>1, <1>2, <1>3

LEMMA ViewsNext ==
  (IInv /\ ~Booting =>
    \A t \in Tasks :
       /\ hardware(t).at \in ThreadSteps
       /\ argument(t) = IF hardware(t).at = "body" THEN 0 ELSE mem[Base(t) - 1].n)'
BY Views, PTL

\* A step shows nothing of t to Scheduler.
SameView(t) ==
    /\ hardware(t)'.at = hardware(t).at
    /\ hardware(t)'.r3 = hardware(t).r3
    /\ argument(t)' = argument(t)

LEMMA KeptView ==
  ASSUME IInv, IInv', ~Booting, ~Booting', NEW t \in Tasks,
         hardware(t)'.at = hardware(t).at, hardware(t)'.r3 = hardware(t).r3,
         hardware(t).at # "body" => mem'[Base(t) - 1].n = mem[Base(t) - 1].n
  PROVE  SameView(t)
<1>1. argument(t) = IF hardware(t).at = "body" THEN 0 ELSE mem[Base(t) - 1].n
  BY Views
<1>2. argument(t)' = IF hardware(t)'.at = "body" THEN 0 ELSE mem'[Base(t) - 1].n
  BY ViewsNext DEF Base, STACK_START, SRAM_END
<1> QED BY <1>1, <1>2 DEF SameView

LEMMA SameViews ==
  ASSUME \A t \in Tasks : SameView(t)
  PROVE  UNCHANGED <<Places, Sums, Arguments>>
BY DEF SameView, Places, Sums, Arguments

\* Another task's context stays on its stack.
LEMMA OthersView ==
  ASSUME IInv, IInv', [Next]_vars, ~Booting, ~Booting', UNCHANGED current_task,
         NEW t \in Tasks \ {current_task}, psp_val'[t] = psp_val[t]
  PROVE  SameView(t)
<1>1. \A a \in Stack(t) : mem'[a] = mem[a]
  BY OthersNotWritten
<1>2. InMemory(t) /\ InMemory(t)'
  BY DEF InMemory
<1>3. Suspended(t)
  BY <1>2 DEF IInv, SuspendedInv
<1>4. mem'[psp_val[t] + 1] = mem[psp_val[t] + 1]
  BY <1>1, <1>3, ContextOnStack DEF Suspended
<1>5. mem'[Base(t) - 1] = mem[Base(t) - 1]
  BY <1>1, OnStack
<1>6. hardware(t) = mem[psp_val[t] + 1] /\ hardware(t)' = mem'[psp_val[t] + 1]
  BY <1>2 DEF hardware
<1> QED BY <1>4, <1>5, <1>6, KeptView

\* The running task: Scheduler sees its registers.
LEMMA RunningView ==
  IInv /\ pc.at \in ThreadSteps =>
    /\ ~Booting /\ ~InHandler /\ current_task \in Tasks
    /\ hardware(current_task).at = pc.at /\ hardware(current_task).r3 = r3
    /\ argument(current_task) = IF pc.at = "body" THEN 0 ELSE mem[r7].n
    /\ next_task = current_task /\ states = current_state
    /\ ticked = g_tick_count /\ switch_pending = pendsv
<1> SUFFICES ASSUME IInv, pc.at \in ThreadSteps
             PROVE  /\ ~Booting /\ ~InHandler /\ current_task \in Tasks
                    /\ hardware(current_task).at = pc.at /\ hardware(current_task).r3 = r3
                    /\ argument(current_task) = IF pc.at = "body" THEN 0 ELSE mem[r7].n
                    /\ next_task = current_task /\ states = current_state
                    /\ ticked = g_tick_count /\ switch_pending = pendsv
  OBVIOUS
<1>1. ~Booting /\ ~InHandler /\ current_task \in Tasks
  BY Steps DEF IInv, Types, Booting, InHandler
<1>2. pc.at \notin {"get_psp_value", "PendSV_Handler", "update_next_task", "SysTick_Handler"}
  BY <1>1 DEF InHandler, HandlerSteps
<1>3. /\ hardware(current_task) = HardwareFrame(pc.code, pc.at, r3)
      /\ frame(current_task) = r7
  BY <1>1, <1>2 DEF hardware, frame, InMemory
<1>4. hardware(current_task).at = pc.at /\ hardware(current_task).r3 = r3
  BY <1>3 DEF HardwareFrame
<1>5. argument(current_task) = IF pc.at = "body" THEN 0 ELSE mem[r7].n
  BY <1>3, <1>4 DEF argument
<1>6. /\ next_task = current_task /\ states = current_state
      /\ ticked = g_tick_count
  BY <1>2 DEF next_task, states, ticked
<1>7. switch_pending = pendsv
  BY <1>2 DEF switch_pending, IInv, Types
<1> QED BY <1>1, <1>4, <1>5, <1>6, <1>7

LEMMA RunningViewNext ==
  (IInv /\ pc.at \in ThreadSteps =>
    /\ ~Booting /\ ~InHandler /\ current_task \in Tasks
    /\ hardware(current_task).at = pc.at /\ hardware(current_task).r3 = r3
    /\ argument(current_task) = IF pc.at = "body" THEN 0 ELSE mem[r7].n
    /\ next_task = current_task /\ states = current_state
    /\ ticked = g_tick_count /\ switch_pending = pendsv)'
BY RunningView, PTL

\* A statement of the running task is one of that task in Scheduler.
LEMMA StatementView ==
  ASSUME IInv, IInv', [Next]_vars, pc.at \in ThreadSteps, pc'.at \in ThreadSteps,
         UNCHANGED <<current_task, psp_val>>
  PROVE  /\ Places[current_task] = pc.at /\ Places' = [Places EXCEPT ![current_task] = pc'.at]
         /\ Sums[current_task] = r3 /\ Sums' = [Sums EXCEPT ![current_task] = r3']
         /\ Arguments[current_task] = IF pc.at = "body" THEN 0 ELSE mem[r7].n
         /\ Arguments' = [Arguments EXCEPT ![current_task] =
                              IF pc'.at = "body" THEN 0 ELSE mem'[r7'].n]
<1>1. \A t \in Tasks \ {current_task} : SameView(t)
  BY RunningView, RunningViewNext, OthersView
<1>2. /\ current_task \in Tasks
      /\ hardware(current_task).at = pc.at /\ hardware(current_task).r3 = r3
      /\ argument(current_task) = IF pc.at = "body" THEN 0 ELSE mem[r7].n
  BY RunningView
<1>3. /\ hardware(current_task)'.at = pc'.at /\ hardware(current_task)'.r3 = r3'
      /\ argument(current_task)' = IF pc'.at = "body" THEN 0 ELSE mem'[r7'].n
  BY RunningViewNext
<1> QED BY <1>1, <1>2, <1>3 DEF SameView, Places, Sums, Arguments

-----------------------------------------------------------------------------
(* The steps are steps of Scheduler.                                       *)

\* The operators of Scheduler are the same on equal variables.
NextOf(c, states_) ==
    LET visited(k) == Ops!Wrap(c + k, MAX_TASKS)
        breaks == {k \in 1 .. MAX_TASKS : visited(k) # Idle /\ states_[visited(k)] = READY}
    IN  IF breaks # {}
        THEN visited(CHOOSE k \in breaks : \A j \in breaks : k <= j)
        ELSE IF states_[c] = BLOCKED THEN Idle ELSE c

UnblockOf(states_, counts, tick) ==
    [i \in Tasks |-> IF i # Idle /\ states_[i] # READY /\ counts[i] = tick
                     THEN READY ELSE states_[i]]

LEMMA Operators ==
  /\ Ops!update_next_task = NextOf(current_task, current_state)
  /\ Ops!update_next_task' = NextOf(current_task', current_state')
  /\ S!update_next_task = NextOf(next_task, states)
  /\ \A tick : Ops!unblock_tasks(tick) = UnblockOf(current_state, block_count, tick)
  /\ \A tick : Ops!unblock_tasks(tick)' = UnblockOf(current_state', block_count', tick)
  /\ \A tick : S!unblock_tasks(tick) = UnblockOf(states, block_count, tick)
  /\ \A x, m : S!Wrap(x, m) = Ops!Wrap(x, m)
<1>1. /\ Ops!update_next_task = NextOf(current_task, current_state)
      /\ Ops!update_next_task' = NextOf(current_task', current_state')
      /\ S!update_next_task = NextOf(next_task, states)
  BY DEF NextOf, Ops!update_next_task, Ops!Breaks, Ops!Visited, S!update_next_task, S!Breaks,
     S!Visited, S!Wrap, Ops!Wrap, Ops!Idle, S!Idle, Idle, Ops!READY, S!READY, READY, Ops!BLOCKED,
     S!BLOCKED, BLOCKED
<1>2. /\ \A tick : Ops!unblock_tasks(tick) = UnblockOf(current_state, block_count, tick)
      /\ \A tick : Ops!unblock_tasks(tick)' = UnblockOf(current_state', block_count', tick)
      /\ \A tick : S!unblock_tasks(tick) = UnblockOf(states, block_count, tick)
  BY DEF UnblockOf, Ops!unblock_tasks, S!unblock_tasks, Ops!Tasks, S!Tasks, Tasks, Ops!Idle, S!Idle,
     Idle, Ops!READY, S!READY, READY
<1> QED BY <1>1, <1>2 DEF S!Wrap, Ops!Wrap

\* A step that shows nothing at all to Scheduler.
LEMMA Stutter ==
  ASSUME \A t \in Tasks : SameView(t),
         UNCHANGED <<next_task, states, block_count, ticked, primask, pendst, switch_pending>>
  PROVE  UNCHANGED S!vars
BY SameViews DEF S!vars, S!tasks, S!pending, Places, Sums, Arguments

LEMMA ThreadSimulates ==
  ASSUME IInv, IInv', [Next]_vars, Thread
  PROVE  S!Thread(next_task) /\ next_task \in Tasks
<1> DEFINE c == current_task
<1>1. pc.at \in ThreadSteps /\ pc'.at \in ThreadSteps /\ UNCHANGED <<current_task, psp_val>>
      /\ ~ExceptionTaken
  <2>1. /\ \E to \in ThreadSteps, from \in ThreadSteps : At(from, to)
        /\ UNCHANGED <<current_task, psp_val>>
    BY DEF Thread, Call, INTERRUPT_DISABLE, CheckTask, ReadTick, SetBlockCount, SetBlocked,
       schedule, INTERRUPT_ENABLE, Return, stacks, data, ThreadSteps
  <2> QED BY <2>1, GotoTypes DEF At, IInv
<1>2. /\ Places[c] = pc.at /\ Places' = [Places EXCEPT ![c] = pc'.at]
      /\ Sums[c] = r3 /\ Sums' = [Sums EXCEPT ![c] = r3']
      /\ Arguments[c] = IF pc.at = "body" THEN 0 ELSE mem[r7].n
      /\ Arguments' = [Arguments EXCEPT ![c] = IF pc'.at = "body" THEN 0 ELSE mem'[r7'].n]
  BY <1>1, StatementView
<1>3. /\ c \in Tasks /\ next_task = c /\ next_task' = c
      /\ states = current_state /\ states' = current_state'
      /\ ticked = g_tick_count /\ ticked' = g_tick_count'
      /\ switch_pending = pendsv /\ switch_pending' = pendsv'
  BY <1>1, RunningView, RunningViewNext
<1>4. ~S!ExceptionTaken
  BY <1>1, <1>3 DEF S!ExceptionTaken, ExceptionTaken
<1>5. ASSUME NEW from \in ThreadSteps, NEW to \in ThreadSteps, At(from, to)
      PROVE  S!At(c, from, to) /\ pc.at = from /\ pc'.at = to
  <2>1. pc.at = from /\ pc'.at = to
    BY <1>5, GotoTypes DEF At, IInv
  <2> QED BY <1>2, <1>3, <1>4, <2>1 DEF S!At, Places
<1>6. Sums' = Sums <=> r3' = r3
  BY <1>2, <1>3 DEF Sums
<1>7. Arguments' = Arguments <=>
        (IF pc.at = "body" THEN 0 ELSE mem[r7].n) = (IF pc'.at = "body" THEN 0 ELSE mem'[r7'].n)
  BY <1>2, <1>3 DEF Arguments
<1>8. CASE \E k \in Delays : Call(k)
  <2>1. PICK k \in Delays : Call(k)
    BY <1>8
  <2>2. S!At(c, "body", "disable") /\ pc.at = "body" /\ pc'.at = "disable"
    BY <1>5, <2>1 DEF Call, ThreadSteps
  <2>3. mem'[r7'].n = k /\ pc.code = c
    <3>1. psp - 1 \in Addresses
      BY <1>1, NextPush, OnStack
    <3> QED BY <1>1, <2>1, <3>1 DEF Call, CallFrame, IInv, Types, ThreadInv
  <2>4. S!Call(c, k)
    BY <1>2, <1>3, <1>6, <2>1, <2>2, <2>3
    DEF S!Call, Call, S!tasks, S!pending, data, nvic, Arguments, Sums
  <2> QED BY <1>3, <2>4 DEF S!Thread
<1>9. CASE INTERRUPT_DISABLE
  <2>1. S!At(c, "disable", "check") /\ pc.at = "disable" /\ pc'.at = "check"
    BY <1>5, <1>9 DEF INTERRUPT_DISABLE, ThreadSteps
  <2>2. S!INTERRUPT_DISABLE(c)
    BY <1>2, <1>3, <1>6, <1>7, <1>9, <2>1
    DEF S!INTERRUPT_DISABLE, INTERRUPT_DISABLE, S!tasks, S!pending, Arguments, Sums, data, nvic, stacks
  <2> QED BY <1>3, <2>2 DEF S!Thread
<1>10. CASE CheckTask
  <2>1. S!At(c, "check", IF c = Idle THEN "enable" ELSE "read")
        /\ pc.at = "check" /\ pc'.at \in {"enable", "read"}
    BY <1>5, <1>10 DEF CheckTask, ThreadSteps
  <2>2. S!CheckTask(c)
    BY <1>2, <1>3, <1>6, <1>7, <1>10, <2>1
    DEF S!CheckTask, CheckTask, S!tasks, S!pending, Arguments, Sums, S!Idle, Idle, data, nvic, stacks
  <2> QED BY <1>3, <2>2 DEF S!Thread
<1>11. CASE ReadTick
  <2>1. S!At(c, "read", "block_count") /\ pc.at = "read" /\ pc'.at = "block_count"
    BY <1>5, <1>11 DEF ReadTick, ThreadSteps
  <2>2. S!ReadTick(c)
    BY <1>2, <1>3, <1>6, <1>7, <1>11, <2>1, Operators
    DEF S!ReadTick, ReadTick, S!tasks, S!pending, Arguments, Sums, data, nvic, stacks
  <2> QED BY <1>3, <2>2 DEF S!Thread
<1>12. CASE SetBlockCount
  <2>1. S!At(c, "block_count", "state") /\ pc.at = "block_count" /\ pc'.at = "state"
    BY <1>5, <1>12 DEF SetBlockCount, ThreadSteps
  <2>2. S!SetBlockCount(c)
    BY <1>2, <1>3, <1>6, <1>7, <1>12, <2>1
    DEF S!SetBlockCount, SetBlockCount, S!tasks, S!pending, Arguments, Sums, nvic, stacks
  <2> QED BY <1>3, <2>2 DEF S!Thread
<1>13. CASE SetBlocked
  <2>1. S!At(c, "state", "schedule") /\ pc.at = "state" /\ pc'.at = "schedule"
    BY <1>5, <1>13 DEF SetBlocked, ThreadSteps
  <2>2. S!SetBlocked(c)
    BY <1>2, <1>3, <1>6, <1>7, <1>13, <2>1
    DEF S!SetBlocked, SetBlocked, S!tasks, S!pending, Arguments, Sums, nvic, stacks, S!BLOCKED, BLOCKED
  <2> QED BY <1>3, <2>2 DEF S!Thread
<1>14. CASE schedule
  <2>1. S!At(c, "schedule", "enable") /\ pc.at = "schedule" /\ pc'.at = "enable"
    BY <1>5, <1>14 DEF schedule, ThreadSteps
  <2>2. S!schedule(c)
    BY <1>2, <1>3, <1>6, <1>7, <1>14, <2>1
    DEF S!schedule, schedule, S!tasks, S!pending, Arguments, Sums, data, stacks
  <2> QED BY <1>3, <2>2 DEF S!Thread
<1>15. CASE INTERRUPT_ENABLE
  <2>1. S!At(c, "enable", "return") /\ pc.at = "enable" /\ pc'.at = "return"
    BY <1>5, <1>15 DEF INTERRUPT_ENABLE, ThreadSteps
  <2>2. S!INTERRUPT_ENABLE(c)
    BY <1>2, <1>3, <1>6, <1>7, <1>15, <2>1
    DEF S!INTERRUPT_ENABLE, INTERRUPT_ENABLE, S!tasks, S!pending, Arguments, Sums, data, stacks
  <2> QED BY <1>3, <2>2 DEF S!Thread
<1>16. CASE Return
  <2>1. S!At(c, "return", "body") /\ pc.at = "return" /\ pc'.at = "body"
    BY <1>5, <1>16 DEF Return, ThreadSteps
  <2>2. S!Return(c)
    BY <1>2, <1>3, <1>6, <1>7, <1>16, <2>1
    DEF S!Return, Return, S!tasks, S!pending, Arguments, Sums, data, nvic
  <2> QED BY <1>3, <2>2 DEF S!Thread
<1> QED BY <1>3, <1>8, <1>9, <1>10, <1>11, <1>12, <1>13, <1>14, <1>15, <1>16 DEF Thread

\* The handlers' code between two exceptions: what the processor has stacked
\* stays what Scheduler sees of the interrupted task.
LEMMA HandlerView ==
  IInv /\ InHandler /\ pc.at # "get_psp_value" =>
    hardware(current_task) = mem[psp] /\ ~Booting /\ current_task \in Tasks
BY Steps DEF hardware, InMemory, Booting, InHandler, IInv, Types

LEMMA HandlerViewNext ==
  (IInv /\ InHandler /\ pc.at # "get_psp_value" =>
    hardware(current_task) = mem[psp] /\ ~Booting /\ current_task \in Tasks)'
BY HandlerView, PTL

\* An exception that is taken is the one that Scheduler takes.
LEMMA AcknowledgeSimulates ==
  ASSUME IInv, IInv', ExceptionTaken, Acknowledge, UNCHANGED <<data, primask>>,
         \A t \in Tasks : SameView(t),
         next_task = current_task, states = current_state, ticked = g_tick_count,
         switch_pending = pendsv
  PROVE  S!Next
<1>1. UNCHANGED <<Places, Sums, Arguments>>
  BY SameViews
<1>2. UNCHANGED <<current_task, current_state, block_count, g_tick_count>>
  BY DEF data
<1>3. CASE pendsv
  <2>1. pendsv' = FALSE /\ pc'.at = "PendSV_Handler" /\ UNCHANGED pendst
    BY <1>3 DEF Acknowledge
  <2>2. switch_pending' = FALSE /\ ticked' = ticked /\ states' = states
    BY <1>2, <2>1 DEF switch_pending, ticked, states
  <2>3. next_task' = S!update_next_task
    BY <1>2, <2>1, Operators DEF next_task
  <2>4. S!PendSV_Handler
    BY <1>1, <1>2, <1>3, <2>1, <2>2, <2>3
    DEF S!PendSV_Handler, S!ExceptionTaken, ExceptionTaken, Places, Sums, Arguments
  <2> QED BY <2>4 DEF S!Next
<1>4. CASE ~pendsv
  <2>1. pendst /\ pendst' = FALSE /\ pc'.at = "SysTick_Handler" /\ UNCHANGED pendsv
    BY <1>4 DEF Acknowledge, ExceptionTaken
  <2>2. switch_pending' = TRUE /\ ticked' = S!Wrap(ticked + 1, TickMod) /\ next_task' = next_task
    BY <1>2, <2>1, Operators DEF switch_pending, ticked, next_task
  <2>3. states' = S!unblock_tasks(ticked')
    BY <1>2, <2>1, Operators DEF states
  <2>4. S!SysTick_Handler
    BY <1>1, <1>2, <1>4, <2>1, <2>2, <2>3
    DEF S!SysTick_Handler, S!ExceptionTaken, ExceptionTaken, Places, Sums, Arguments
  <2> QED BY <2>4 DEF S!Next
<1> QED BY <1>3, <1>4

LEMMA TakeExceptionSimulates ==
  ASSUME IInv, IInv', [Next]_vars, TakeException
  PROVE  S!Next
<1>1. pc.at \in ThreadSteps /\ ~Booting
  BY DEF IInv, Types, TakeException, ExceptionTaken, BootInv, Booting, InHandler
<1>2. /\ current_task \in Tasks /\ psp \in Int /\ psp - 1 \in Addresses
      /\ psp = Top(current_task, pc.at) /\ Base(current_task) \in Nat /\ control = "PSP"
  <2>1. current_task \in Tasks /\ psp - 1 \in Stack(current_task)
    BY <1>1, NextPush
  <2>2. psp - 1 \in Addresses /\ Base(current_task) \in Nat
    BY <2>1, OnStack
  <2>3. psp = Top(current_task, pc.at) /\ control = "PSP"
    BY <1>1 DEF IInv, ThreadInv
  <2>4. psp \in Int
    BY <2>2, <2>3 DEF Top
  <2> QED BY <2>1, <2>2, <2>3, <2>4
<1>3. /\ mem' = [mem EXCEPT ![psp - 1] = HardwareFrame(pc.code, pc.at, r3)]
      /\ psp' = psp - 1 /\ Acknowledge /\ ExceptionTaken
      /\ UNCHANGED <<data, psp_val, r3, r7, primask>>
  BY <1>2 DEF TakeException
<1>4. InHandler' /\ pc'.at # "get_psp_value" /\ ~Booting'
  BY <1>3, AcknowledgeFacts, Steps DEF InHandler, Booting, HandlerSteps, IInv
<1>5. /\ hardware(current_task).at = pc.at /\ hardware(current_task).r3 = r3
      /\ next_task = current_task /\ states = current_state
      /\ ticked = g_tick_count /\ switch_pending = pendsv
  BY <1>1, RunningView
<1>6. hardware(current_task)' = mem'[psp'] /\ current_task' = current_task
  BY <1>3, <1>4, HandlerViewNext DEF data
<1>7. mem'[psp'] = HardwareFrame(pc.code, pc.at, r3)
  BY <1>2, <1>3 DEF IInv, Types
<1>8. SameView(current_task)
  <2>1. pc.at # "body" => mem'[Base(current_task) - 1] = mem[Base(current_task) - 1]
    BY <1>2, <1>3, OnStack DEF Top, IInv, Types
  <2>2. hardware(current_task)'.at = pc.at /\ hardware(current_task)'.r3 = r3
    BY <1>6, <1>7 DEF HardwareFrame
  <2> QED BY <1>1, <1>2, <1>4, <1>5, <1>6, <2>1, <2>2, KeptView
<1>9. \A t \in Tasks : SameView(t)
  BY <1>1, <1>3, <1>4, <1>6, <1>8, OthersView
<1> QED BY <1>3, <1>5, <1>9, AcknowledgeSimulates

\* A step in a handler that does not touch the context of the interrupted task.
LEMMA HandlerSameViews ==
  ASSUME IInv, IInv', [Next]_vars, InHandler, pc.at # "get_psp_value", InHandler',
         pc'.at # "get_psp_value", UNCHANGED <<current_task, psp_val, mem, psp>>
  PROVE  \A t \in Tasks : SameView(t)
<1>1. hardware(current_task) = mem[psp] /\ ~Booting /\ current_task \in Tasks
  BY HandlerView
<1>2. hardware(current_task)' = mem'[psp'] /\ ~Booting'
  BY HandlerViewNext
<1>3. SameView(current_task)
  BY <1>1, <1>2, KeptView
<1> QED BY <1>1, <1>2, <1>3, OthersView

LEMMA TailChainSimulates ==
  ASSUME IInv, IInv', [Next]_vars, TailChain
  PROVE  S!Next
<1>1. InHandler /\ pc.at = "bx_lr"
  BY DEF TailChain, InHandler, HandlerSteps
<1>2. InHandler' /\ pc'.at # "get_psp_value"
  BY AcknowledgeFacts DEF TailChain, InHandler, HandlerSteps, IInv
<1>3. UNCHANGED <<data, current_task, psp_val, mem, psp, primask>> /\ Acknowledge /\ ExceptionTaken
  BY DEF TailChain, data, stacks
<1>4. \A t \in Tasks : SameView(t)
  BY <1>1, <1>2, <1>3, HandlerSameViews
<1>5. /\ next_task = current_task /\ states = current_state
      /\ ticked = g_tick_count /\ switch_pending = pendsv
  BY <1>1 DEF next_task, states, ticked, switch_pending, IInv, Types
<1> QED BY <1>3, <1>4, <1>5, AcknowledgeSimulates

\* Scheduler has already counted the tick.
LEMMA SysTickSimulates ==
  ASSUME IInv, IInv', [Next]_vars, SysTick_Handler
  PROVE  UNCHANGED S!vars
<1>1. /\ pc.at = "SysTick_Handler" /\ InHandler
      /\ UNCHANGED <<current_task, block_count, psp_val, mem, psp, primask, pendst>>
      /\ g_tick_count' = Ops!Wrap(g_tick_count + 1, TickMod)
      /\ current_state' = Ops!unblock_tasks(g_tick_count') /\ pendsv'
  BY DEF SysTick_Handler, stacks, InHandler, HandlerSteps
<1>2. pc'.at = "bx_lr" /\ InHandler'
  BY GotoTypes DEF SysTick_Handler, InHandler, HandlerSteps, IInv
<1>3. \A t \in Tasks : SameView(t)
  BY <1>1, <1>2, HandlerSameViews
<1>4. UNCHANGED <<next_task, ticked, switch_pending>>
  BY <1>1, <1>2 DEF next_task, ticked, switch_pending, IInv, Types
<1>5. UNCHANGED states
  BY <1>1, <1>2 DEF states, ticked
<1> QED BY <1>1, <1>3, <1>4, <1>5, Stutter

\* Saving the context does not change it.
LEMMA SaveContextSimulates ==
  ASSUME IInv, IInv', [Next]_vars, save_context
  PROVE  UNCHANGED S!vars
<1>1. pc.at = "PendSV_Handler" /\ InHandler /\ UNCHANGED <<data, psp, primask, pendst, pendsv>>
      /\ mem' = [mem EXCEPT ![psp - 1] = SoftwareFrame(r7)]
      /\ psp_val' = [psp_val EXCEPT ![current_task] = psp - 1]
  BY DEF save_context, InHandler, HandlerSteps, nvic
<1>2. pc'.at = "update_next_task" /\ InHandler'
  BY GotoTypes DEF save_context, InHandler, HandlerSteps, IInv
<1>3. hardware(current_task) = mem[psp] /\ ~Booting /\ current_task \in Tasks
  BY <1>1, HandlerView
<1>4. hardware(current_task)' = mem'[psp'] /\ ~Booting' /\ current_task' = current_task
  BY <1>1, <1>2, HandlerViewNext DEF data
<1>5. /\ psp \in Addresses /\ psp - 1 \in Addresses /\ Base(current_task) - 1 \in Addresses
      /\ psp = Top(current_task, mem[psp].at) - 1 /\ Base(current_task) \in Int
  <2>1. HardwareAt(current_task, psp)
    BY <1>1 DEF IInv, InterruptedInv
  <2> QED BY <1>3, <2>1, ContextOnStack, OnStack
<1>6. mem'[psp] = mem[psp]
  BY <1>1, <1>5, Stacks DEF IInv, Types, Addresses
<1>7. mem[psp].at # "body" => mem'[Base(current_task) - 1] = mem[Base(current_task) - 1]
  BY <1>1, <1>5 DEF IInv, Types, Top
<1>8. SameView(current_task)
  BY <1>1, <1>3, <1>4, <1>6, <1>7, KeptView
<1>9. \A t \in Tasks : SameView(t)
  <2> SUFFICES ASSUME NEW t \in Tasks, t # current_task
               PROVE  SameView(t)
    BY <1>8
  <2>1. psp_val'[t] = psp_val[t]
    BY <1>1 DEF IInv, Types
  <2> QED BY <1>3, <1>4, <2>1, OthersView
<1>10. UNCHANGED <<next_task, states, ticked, switch_pending>>
  BY <1>1, <1>2, Operators DEF next_task, states, ticked, switch_pending, data
<1> QED BY <1>1, <1>9, <1>10, Stutter DEF data

\* Scheduler has already chosen the next task.
LEMMA UpdateNextTaskSimulates ==
  ASSUME IInv, IInv', [Next]_vars, update_next_task
  PROVE  UNCHANGED S!vars
<1>1. pc.at = "update_next_task" /\ InHandler
      /\ UNCHANGED <<current_state, block_count, g_tick_count, psp_val, mem, psp, primask, pendst, pendsv>>
      /\ current_task' = Ops!update_next_task
  BY DEF update_next_task, stacks, nvic, InHandler, HandlerSteps
<1>2. pc'.at = "get_psp_value" /\ ~Booting' /\ ~Booting
  BY <1>1, GotoTypes DEF update_next_task, HandlerSteps, Booting, BootSteps, IInv
<1>3. ASSUME NEW t \in Tasks
      PROVE  SameView(t)
  <2>1. hardware(t)' = mem[psp_val[t] + 1]
    BY <1>1, <1>2 DEF hardware, InMemory
  <2>2. hardware(t) = mem[psp_val[t] + 1]
    <3>1. CASE t = current_task
      BY <1>1, <3>1, HandlerView DEF IInv, InterruptedInv
    <3>2. CASE t # current_task
      BY <1>2, <3>2 DEF hardware, InMemory
    <3> QED BY <3>1, <3>2
  <2> QED BY <1>1, <1>2, <2>1, <2>2, KeptView
<1>4. UNCHANGED <<next_task, states, ticked, switch_pending>>
  BY <1>1, <1>2 DEF next_task, states, ticked, switch_pending
<1> QED BY <1>1, <1>3, <1>4, Stutter

\* What is restored is what was saved.
LEMMA RestoreContextSimulates ==
  ASSUME IInv, IInv', [Next]_vars, restore_context
  PROVE  UNCHANGED S!vars
<1>1. pc.at = "get_psp_value" /\ ~Booting
      /\ UNCHANGED <<data, psp_val, mem, primask, pendst, pendsv>>
      /\ psp' = psp_val[current_task] + 1
  BY DEF restore_context, nvic, Booting, BootSteps
<1>2. pc'.at = "bx_lr" /\ InHandler' /\ ~Booting'
  BY GotoTypes DEF restore_context, InHandler, HandlerSteps, Booting, BootSteps, IInv
<1>3. UNCHANGED current_task /\ current_task \in Tasks
  BY <1>1 DEF data, IInv, Types
<1>4. SameView(current_task)
  <2>1. hardware(current_task) = mem[psp_val[current_task] + 1]
    BY <1>1 DEF hardware, InMemory
  <2>2. hardware(current_task)' = mem[psp_val[current_task] + 1]
    BY <1>1, <1>2, HandlerViewNext
  <2> QED BY <1>1, <1>2, <1>3, <2>1, <2>2, KeptView
<1>5. \A t \in Tasks : SameView(t)
  BY <1>1, <1>2, <1>3, <1>4, OthersView
<1>6. UNCHANGED <<next_task, states, ticked, switch_pending>>
  BY <1>1, <1>2 DEF next_task, states, ticked, switch_pending, data
<1> QED BY <1>1, <1>5, <1>6, Stutter DEF data

LEMMA ExceptionReturnSimulates ==
  ASSUME IInv, IInv', [Next]_vars, ExceptionReturn
  PROVE  UNCHANGED S!vars
<1>1. pc.at = "bx_lr" /\ InHandler /\ lr = "EXC_RETURN_PSP"
      /\ UNCHANGED <<data, psp_val, mem, primask, pendst, pendsv>>
      /\ pc' = [code |-> mem[psp].code, at |-> mem[psp].at] /\ r3' = mem[psp].r3
  BY DEF ExceptionReturn, nvic, InHandler, HandlerSteps, IInv, HandlerInv
<1>2. hardware(current_task) = mem[psp] /\ ~Booting /\ current_task \in Tasks
  BY <1>1, HandlerView
<1>3. pc'.at = mem[psp].at /\ pc'.at \in ThreadSteps
  BY <1>1, <1>2, Views
<1>4. UNCHANGED current_task /\ ~Booting'
      /\ hardware(current_task)'.at = pc'.at /\ hardware(current_task)'.r3 = r3'
  BY <1>1, <1>3, RunningViewNext DEF data
<1>5. SameView(current_task)
  BY <1>1, <1>2, <1>3, <1>4, KeptView
<1>6. \A t \in Tasks : SameView(t)
  BY <1>1, <1>2, <1>4, <1>5, OthersView
<1>7. next_task = current_task /\ states = current_state
      /\ ticked = g_tick_count /\ switch_pending = pendsv
  BY <1>1 DEF next_task, states, ticked, switch_pending, IInv, Types
<1>8. UNCHANGED <<next_task, states, ticked, switch_pending>>
  BY <1>1, <1>3, <1>7, RunningViewNext DEF data
<1> QED BY <1>1, <1>6, <1>8, Stutter DEF data

\* Until task 1 runs, Scheduler sees every task at the start of its handler.
LEMMA BootView ==
  IInv /\ Booting =>
    /\ \A t \in Tasks : hardware(t).at = "body" /\ hardware(t).r3 = 0 /\ argument(t) = 0
    /\ next_task = current_task /\ states = current_state
    /\ ticked = g_tick_count /\ switch_pending = pendsv
<1> SUFFICES ASSUME IInv, Booting
             PROVE  /\ \A t \in Tasks : hardware(t).at = "body" /\ hardware(t).r3 = 0 /\ argument(t) = 0
                    /\ next_task = current_task /\ states = current_state
                    /\ ticked = g_tick_count /\ switch_pending = pendsv
  OBVIOUS
<1>1. \A t \in Tasks : hardware(t).at = "body" /\ hardware(t).r3 = 0
  BY DEF hardware, HardwareFrame
<1>2. pc.at \notin {"PendSV_Handler", "update_next_task", "SysTick_Handler"}
  BY DEF Booting, BootSteps
<1> QED BY <1>1, <1>2 DEF argument, next_task, states, ticked, switch_pending, IInv, Types

LEMMA BootViewNext ==
  (IInv /\ Booting =>
    /\ \A t \in Tasks : hardware(t).at = "body" /\ hardware(t).r3 = 0 /\ argument(t) = 0
    /\ next_task = current_task /\ states = current_state
    /\ ticked = g_tick_count /\ switch_pending = pendsv)'
BY BootView, PTL

LEMMA BootSimulates ==
  ASSUME IInv, IInv', [Next]_vars, Boot
  PROVE  UNCHANGED S!vars
<1>1. Booting
  BY DEF Boot, init_task_stack, init_systick_timer, switch_sp_to_psp, msr_control,
     call_task1_handler, Booting, BootSteps
<1>2. UNCHANGED <<current_task, block_count, g_tick_count, primask, pendst, pendsv>>
  BY DEF Boot, init_task_stack, init_systick_timer, switch_sp_to_psp, msr_control,
     call_task1_handler, data, nvic
<1>3. UNCHANGED current_state
  <2>1. CASE init_task_stack
    BY <1>1, <2>1 DEF init_task_stack, IInv, BootInv
  <2> QED
    BY <2>1 DEF Boot, init_systick_timer, switch_sp_to_psp, msr_control, call_task1_handler, data
<1>4. CASE Booting'
  <2>1. \A t \in Tasks : SameView(t)
    BY <1>1, <1>4, BootView, BootViewNext DEF SameView
  <2>2. UNCHANGED <<next_task, states, ticked, switch_pending>>
    BY <1>1, <1>2, <1>3, <1>4, BootView, BootViewNext
  <2> QED BY <1>2, <2>1, <2>2, Stutter
<1>5. CASE ~Booting'
  <2>1. call_task1_handler
    BY <1>5, GotoTypes DEF Boot, init_task_stack, init_systick_timer, switch_sp_to_psp, msr_control,
       Booting, BootSteps, IInv
  <2>2. pc'.at = "body" /\ r3' = 0 /\ UNCHANGED <<psp_val, mem>> /\ pc.at = "call_task1_handler"
    BY <2>1 DEF call_task1_handler
  <2>3. current_task = 1 /\ \A t \in Tasks : Dummy(t)
    BY <1>1, <2>2 DEF IInv, BootInv
  <2>4. pc'.at \in ThreadSteps
    BY <2>2 DEF ThreadSteps
  <2>5. ASSUME NEW t \in Tasks
        PROVE  hardware(t)'.at = "body" /\ hardware(t)'.r3 = 0
    <3>1. CASE t = current_task
      BY <1>2, <2>2, <2>4, <3>1, RunningViewNext
    <3>2. CASE t # current_task
      <4>1. hardware(t)' = mem[psp_val[t] + 1]
        BY <1>2, <1>5, <2>2, <3>2 DEF hardware, InMemory
      <4>2. psp_val[t] + 1 = STACK_START(t) - 1
        BY <2>3, Stacks DEF Dummy
      <4>3. mem[STACK_START(t) - 1] = HardwareFrame(t, "body", 0)
        BY <2>3 DEF Dummy
      <4> QED BY <4>1, <4>2, <4>3 DEF HardwareFrame
    <3> QED BY <3>1, <3>2
  <2>6. \A t \in Tasks : SameView(t)
    <3> SUFFICES ASSUME NEW t \in Tasks
                 PROVE  SameView(t)
      OBVIOUS
    <3>1. argument(t)' = 0
      BY <1>5, <2>5, ViewsNext
    <3> QED BY <1>1, <2>5, <3>1, BootView DEF SameView
  <2>7. UNCHANGED <<next_task, states, ticked, switch_pending>>
    BY <1>1, <1>2, <1>3, <2>4, BootView, RunningViewNext
  <2> QED BY <1>2, <2>6, <2>7, Stutter
<1> QED BY <1>4, <1>5

\* An expiry, or nothing.
LEMMA TimerSimulates ==
  ASSUME IInv, IInv', [Next]_vars, TimerExpires \/ UNCHANGED vars
  PROVE  [S!Next]_(S!vars)
<1>1. UNCHANGED <<data, psp_val, mem, stacks, pc, lr, r3, r7, primask, pendsv>>
  BY DEF TimerExpires, vars, nvic
<1>2. UNCHANGED <<Places, Sums, Arguments>>
  BY <1>1 DEF Places, Sums, Arguments, argument, frame, hardware, Booting, InMemory, InHandler,
     data, stacks
<1>3. UNCHANGED <<next_task, states, ticked, switch_pending, block_count>>
  BY <1>1, Operators DEF next_task, states, ticked, switch_pending, data
<1>4. CASE TimerExpires
  <2>1. S!TimerExpires
    BY <1>1, <1>2, <1>3, <1>4 DEF S!TimerExpires, TimerExpires, S!tasks, Places, Sums, Arguments
  <2> QED BY <2>1 DEF S!Next
<1>5. CASE UNCHANGED vars
  BY <1>1, <1>2, <1>3, <1>5 DEF S!vars, S!tasks, S!pending, Places, Sums, Arguments, vars, nvic
<1> QED BY <1>4, <1>5

LEMMA InitSimulates ==
  ASSUME Init
  PROVE  S!Init
<1>1. IInv /\ Booting
  BY InitInvariant DEF Init, Booting, BootSteps
<1>2. /\ Places = [t \in Tasks |-> "body"] /\ Sums = [t \in Tasks |-> 0]
      /\ Arguments = [t \in Tasks |-> 0]
      /\ next_task = current_task /\ states = current_state
      /\ ticked = g_tick_count /\ switch_pending = pendsv
  BY <1>1, BootView DEF Places, Sums, Arguments
<1> QED BY <1>2 DEF S!Init, Init, S!Tasks, Tasks, S!READY, READY, Places, Sums, Arguments

\* To the code of the tasks, the machine is the one that Scheduler describes:
\* each task has a program counter, an argument and a register of its own,
\* whatever the number of tasks and the delays.
THEOREM ContextSwitchImplementsScheduler == Spec => ImplementsScheduler
<1>1. Init => S!Init
  BY InitSimulates
<1>2. IInv /\ IInv' /\ [Next]_vars => [S!Next]_(S!vars)
  <2> SUFFICES ASSUME IInv, IInv', [Next]_vars
               PROVE  [S!Next]_(S!vars)
    OBVIOUS
  <2>1. CASE Thread
    <3>1. S!Thread(next_task) /\ next_task \in S!Tasks
      BY <2>1, ThreadSimulates DEF S!Tasks, Tasks
    <3> QED BY <3>1 DEF S!Next
  <2>2. CASE TakeException \/ TailChain
    BY <2>2, TakeExceptionSimulates, TailChainSimulates
  <2>3. CASE Boot \/ ExceptionReturn \/ SysTick_Handler \/ PendSV_Handler
    BY <2>3, BootSimulates, ExceptionReturnSimulates, SysTickSimulates, SaveContextSimulates,
       UpdateNextTaskSimulates, RestoreContextSimulates DEF PendSV_Handler
  <2>4. CASE TimerExpires \/ UNCHANGED vars
    BY <2>4, TimerSimulates
  <2> QED BY <2>1, <2>2, <2>3, <2>4 DEF Next
<1> QED BY <1>1, <1>2, Invariance, PTL DEF Spec, ImplementsScheduler, S!Spec

-----------------------------------------------------------------------------
(* What is proved of Scheduler holds of the processor.                     *)

\* Scheduler with its proofs, under the mapping of S.
K == INSTANCE SchedulerProofs WITH
        current_task <- next_task,
        current_state <- states,
        g_tick_count <- ticked,
        pendsv <- switch_pending,
        pc <- [t \in Tasks |-> hardware(t).at],
        sum <- [t \in Tasks |-> hardware(t).r3],
        tick_count <- [t \in Tasks |-> argument(t)]

\* The two instances have one specification.
LEMMA SameScheduler == S!Spec => K!Spec
<1>1. S!Init <=> K!Init
  BY DEF S!Init, K!Init, S!Tasks, K!Tasks, S!READY, K!READY
<1>2. S!Next <=> K!Next
  BY DEF S!TimerExpires, K!TimerExpires, S!SysTick_Handler, K!SysTick_Handler,
         S!PendSV_Handler, K!PendSV_Handler, S!Thread, K!Thread, S!Call, K!Call,
         S!INTERRUPT_DISABLE, K!INTERRUPT_DISABLE, S!CheckTask, K!CheckTask, S!ReadTick,
         K!ReadTick, S!SetBlockCount, K!SetBlockCount, S!SetBlocked, K!SetBlocked, S!schedule,
         K!schedule, S!INTERRUPT_ENABLE, K!INTERRUPT_ENABLE, S!Return, K!Return, S!At, K!At,
         S!ExceptionTaken, K!ExceptionTaken, S!Wrap, K!Wrap, S!unblock_tasks, K!unblock_tasks,
         S!update_next_task, K!update_next_task, S!Visited, K!Visited, S!Breaks, K!Breaks,
         S!Tasks, K!Tasks, S!Idle, K!Idle, S!READY, K!READY, S!BLOCKED, K!BLOCKED, S!tasks,
         K!tasks, S!pending, K!pending, S!vars, K!vars, S!Init, K!Init, S!Next, K!Next
<1>3. [S!Next]_(S!vars) <=> [K!Next]_(K!vars)
  BY <1>2 DEF S!vars, K!vars, S!tasks, K!tasks, S!pending, K!pending
<1> QED BY <1>1, <1>3, PTL DEF S!Spec, K!Spec

\* They have one Delay to implement.
LEMMA SameDelay == K!ImplementsDelay => S!ImplementsDelay
<1> USE DEF S!remaining, K!remaining, S!Distance, K!Distance, S!Wrap, K!Wrap,
        S!BLOCKED, K!BLOCKED, S!Tasks, K!Tasks, S!Idle, K!Idle
<1>1. S!D!Init <=> K!D!Init
  BY DEF S!D!Init, K!D!Init
<1>2. [S!D!Next]_(S!D!vars) <=> [K!D!Next]_(K!D!vars)
  BY DEF S!D!Next, K!D!Next, S!D!Sleep, K!D!Sleep, S!D!Tick, K!D!Tick, S!D!Dispatch,
         K!D!Dispatch, S!D!Awake, K!D!Awake, S!D!vars, K!D!vars
<1> QED BY <1>1, <1>2, PTL DEF S!ImplementsDelay, K!ImplementsDelay, S!D!Spec, K!D!Spec

LEMMA SchedulerConstants == K!SchedulerAssumption
BY ContextSwitchAssumption DEF K!SchedulerAssumption

\* On the processor with its one set of registers, a task that has blocked
\* executes only the rest of the critical section before it is switched out.
THEOREM BlockedNeverRunsOnProcessor == Spec => []S!BlockedNeverRuns
<1>1. K!Spec => []K!BlockedNeverRuns
  BY SchedulerConstants, K!BlockedNeverRunsHolds
<1>2. K!BlockedNeverRuns <=> S!BlockedNeverRuns
  BY DEF K!BlockedNeverRuns, S!BlockedNeverRuns, K!BLOCKED, S!BLOCKED
<1> QED BY <1>1, <1>2, ContextSwitchImplementsScheduler, SameScheduler, PTL
        DEF ImplementsScheduler

\* On the processor no wake-up is missed, if no task asks for a delay of zero:
\* the context switches lose none of what task_delay computes.
THEOREM NoMissedWakeupOnProcessor ==
  ASSUME 0 \notin Delays
  PROVE  Spec => []S!NoMissedWakeup
<1>1. K!Spec => []K!NoMissedWakeup
  BY SchedulerConstants, K!NoMissedWakeupHolds
<1>2. K!NoMissedWakeup <=> S!NoMissedWakeup
  BY DEF K!NoMissedWakeup, S!NoMissedWakeup, K!Distance, S!Distance, K!Wrap, S!Wrap,
         K!BLOCKED, S!BLOCKED, K!Tasks, S!Tasks
<1> QED BY <1>1, <1>2, ContextSwitchImplementsScheduler, SameScheduler, PTL
        DEF ImplementsScheduler

\* From the instructions of PendSV_Handler to the promise of task_delay: on the
\* processor every task sleeps for exactly the number of ticks it asked for,
\* and the processor idles only while all of them sleep.
THEOREM ContextSwitchImplementsDelay ==
  ASSUME 0 \notin Delays
  PROVE  Spec => S!ImplementsDelay
<1>1. K!Spec => K!ImplementsDelay
  BY SchedulerConstants, K!SchedulerImplementsDelay
<1> QED BY <1>1, ContextSwitchImplementsScheduler, SameScheduler, SameDelay
        DEF ImplementsScheduler

=============================================================================
