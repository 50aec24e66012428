--------------------------- MODULE SchedulerProofs ---------------------------
(***************************************************************************)
(* Proofs about Scheduler, for every number of tasks, every width of the   *)
(* tick counter and every set of delays that SchedulerAssumption allows.   *)
(***************************************************************************)
EXTENDS Scheduler, WellFoundedInduction, TLAPS

-----------------------------------------------------------------------------
(* Arithmetic and the choice of the next task.                             *)

\* Every non-empty set of naturals has a least element.
LEMMA LeastNat ==
  ASSUME NEW S, S \subseteq Nat, S # {}
  PROVE  \E n \in S : \A m \in S : n <= m
<1> DEFINE R == {p \in Nat \X Nat : p[1] < p[2]}
<1>1. IsWellFoundedOn(R, Nat)
  BY NatLessThanWellFounded DEF OpToRel
<1>2. PICK n \in S : \A m \in S : ~ (<<m, n>> \in R)
  <2> HIDE DEF R
  <2> QED BY <1>1, WFMin
<1>3. ASSUME NEW m \in S
      PROVE  n <= m
  <2>1. n \in Nat /\ m \in Nat /\ ~ (m < n)
    BY <1>2
  <2> QED BY <2>1
<1> QED BY <1>3

\* Wrap reduces a number below 2 * m modulo m.
LEMMA WrapRange ==
  ASSUME NEW m \in Nat, NEW x \in 0 .. 2*m-1
  PROVE  Wrap(x, m) \in 0 .. m-1
BY DEF Wrap

\* The loop of update_next_task leaves the index of a task.
LEMMA NextTaskInRange ==
  ASSUME TypeOK
  PROVE  update_next_task \in Tasks
<1> USE SchedulerAssumption
<1>1. \A k \in 1 .. MAX_TASKS : Visited(k) \in Tasks
  BY DEF TypeOK, Visited, Wrap, Tasks
<1>2. CASE Breaks # {}
  <2>1. \E k \in Breaks : \A j \in Breaks : k <= j
    <3>1. Breaks \subseteq Nat
      BY DEF Breaks
    <3> QED BY <1>2, <3>1, LeastNat
  <2>2. PICK k \in Breaks : update_next_task = Visited(k)
    BY <2>1, <1>2 DEF update_next_task
  <2> QED
    BY <1>1, <2>2 DEF Breaks
<1>3. CASE Breaks = {}
  BY <1>3 DEF update_next_task, TypeOK, Tasks, Idle
<1> QED BY <1>2, <1>3

\* update_next_task returns the index of a task; the task is ready; and it is
\* idle_task only when no other task is ready.
LEMMA NextTask ==
  ASSUME TypeOK, IdleNeverBlocks
  PROVE  /\ update_next_task \in Tasks
         /\ current_state[update_next_task] = READY
         /\ update_next_task = Idle =>
               \A t \in Tasks \ {Idle} : current_state[t] # READY
<1> USE SchedulerAssumption
<1>1. \A k \in 1 .. MAX_TASKS : Visited(k) \in Tasks
  BY DEF TypeOK, Visited, Wrap, Tasks
<1>2. CASE Breaks # {}
  <2>1. \E k \in Breaks : \A j \in Breaks : k <= j
    <3>1. Breaks \subseteq Nat
      BY DEF Breaks
    <3> QED BY <1>2, <3>1, LeastNat
  <2>2. PICK k \in Breaks : update_next_task = Visited(k)
    BY <2>1, <1>2 DEF update_next_task
  <2>3. k \in 1 .. MAX_TASKS /\ Visited(k) # Idle /\ current_state[Visited(k)] = READY
    BY DEF Breaks
  <2> QED
    BY <1>1, <2>2, <2>3
<1>3. CASE Breaks = {}
  <2>1. ASSUME NEW t \in Tasks, t # Idle
        PROVE  current_state[t] # READY
    <3> DEFINE k == IF t > current_task THEN t - current_task
                    ELSE t + MAX_TASKS - current_task
    <3>1. k \in 1 .. MAX_TASKS /\ Visited(k) = t
      BY <2>1 DEF TypeOK, Visited, Wrap, Tasks
    <3> HIDE DEF k
    <3> QED BY <3>1, <2>1, <1>3 DEF Breaks
  <2>2. update_next_task = Idle
    BY <1>3, <2>1 DEF update_next_task, TypeOK, BLOCKED, READY
  <2>3. Idle \in Tasks
    BY DEF Idle, Tasks
  <2> QED
    BY <2>1, <2>2, <2>3 DEF IdleNeverBlocks
<1> QED BY <1>2, <1>3

-----------------------------------------------------------------------------
(* Type correctness.                                                       *)

LEMMA InitTypeOK == Init => TypeOK
<1> SUFFICES ASSUME Init
             PROVE  TypeOK
  OBVIOUS
<1>1. 1 \in Tasks /\ 0 \in Ticks
  BY SchedulerAssumption DEF Tasks, Ticks
<1>2. "body" \in Labels
  BY DEF Labels
<1> QED
  BY <1>1, <1>2 DEF Init, TypeOK

\* What a statement of the running thread does to the program counters.
LEMMA AtFacts ==
  ASSUME NEW t \in Tasks, NEW from \in Labels, NEW to \in Labels,
         TypeOK, At(t, from, to)
  PROVE  /\ t = current_task
         /\ ~primask => ~pendst /\ ~pendsv
         /\ pc[t] = from
         /\ pc' \in [Tasks -> Labels]
         /\ pc'[t] = to
         /\ \A u \in Tasks \ {t} : pc'[u] = pc[u]
BY DEF At, TypeOK, ExceptionTaken

LEMMA TypingStep == TypeOK /\ [Next]_vars => TypeOK'
<1> SUFFICES ASSUME TypeOK, [Next]_vars
             PROVE  TypeOK'
  OBVIOUS
<1> USE SchedulerAssumption
<1>t. \A l \in {"check", "read", "block_count", "state", "schedule", "enable",
                "body", "disable", "return"} : l \in Labels
  BY DEF Labels, CriticalSection
<1>1. CASE TimerExpires
  BY <1>1 DEF TimerExpires, TypeOK, tasks
<1>2. CASE SysTick_Handler
  <2>1. Wrap(g_tick_count + 1, TickMod) \in Ticks
    BY DEF TypeOK, Wrap, Ticks
  <2>2. current_state' \in [Tasks -> {READY, BLOCKED}]
    BY <1>2 DEF SysTick_Handler, unblock_tasks, TypeOK
  <2> QED
    BY <1>2, <2>1, <2>2 DEF SysTick_Handler, TypeOK
<1>3. CASE PendSV_Handler
  BY <1>3, NextTaskInRange DEF PendSV_Handler, TypeOK
<1>4. ASSUME NEW t \in Tasks, Thread(t)
      PROVE  TypeOK'
  <2>1. ASSUME NEW n \in Delays, Call(t, n)
        PROVE  TypeOK'
    <3>1. pc' \in [Tasks -> Labels]
      BY <2>1, <1>t, AtFacts DEF Call
    <3> QED BY <2>1, <3>1 DEF Call, TypeOK, Ticks, tasks, pending
  <2>2. CASE INTERRUPT_DISABLE(t)
    <3>1. pc' \in [Tasks -> Labels]
      BY <2>2, <1>t, AtFacts DEF INTERRUPT_DISABLE
    <3> QED BY <2>2, <3>1 DEF INTERRUPT_DISABLE, TypeOK, tasks, pending
  <2>3. CASE CheckTask(t)
    <3>1. pc' \in [Tasks -> Labels]
      BY <2>3, <1>t, AtFacts DEF CheckTask
    <3> QED BY <2>3, <3>1 DEF CheckTask, TypeOK, tasks, pending
  <2>4. CASE ReadTick(t)
    <3>1. pc' \in [Tasks -> Labels]
      BY <2>4, <1>t, AtFacts DEF ReadTick
    <3>2. Wrap(g_tick_count + tick_count[t], TickMod) \in Ticks
      BY DEF TypeOK, Wrap, Ticks
    <3> QED BY <2>4, <3>1, <3>2 DEF ReadTick, TypeOK, tasks, pending
  <2>5. CASE SetBlockCount(t)
    <3>1. pc' \in [Tasks -> Labels]
      BY <2>5, <1>t, AtFacts DEF SetBlockCount
    <3>2. 0 \in Ticks
      BY DEF Ticks
    <3> QED BY <2>5, <3>1, <3>2 DEF SetBlockCount, TypeOK, pending
  <2>6. CASE SetBlocked(t)
    <3>1. pc' \in [Tasks -> Labels]
      BY <2>6, <1>t, AtFacts DEF SetBlocked
    <3> QED BY <2>6, <3>1 DEF SetBlocked, TypeOK, pending
  <2>7. CASE schedule(t)
    <3>1. pc' \in [Tasks -> Labels]
      BY <2>7, <1>t, AtFacts DEF schedule
    <3> QED BY <2>7, <3>1 DEF schedule, TypeOK, tasks
  <2>8. CASE INTERRUPT_ENABLE(t)
    <3>1. pc' \in [Tasks -> Labels]
      BY <2>8, <1>t, AtFacts DEF INTERRUPT_ENABLE
    <3> QED BY <2>8, <3>1 DEF INTERRUPT_ENABLE, TypeOK, tasks, pending
  <2>9. CASE Return(t)
    <3>1. pc' \in [Tasks -> Labels]
      BY <2>9, <1>t, AtFacts DEF Return
    <3>2. 0 \in Ticks
      BY DEF Ticks
    <3> QED BY <2>9, <3>1, <3>2 DEF Return, TypeOK, tasks, pending
  <2> QED
    BY <1>4, <2>1, <2>2, <2>3, <2>4, <2>5, <2>6, <2>7, <2>8, <2>9 DEF Thread
<1>5. CASE UNCHANGED vars
  BY <1>5 DEF vars, tasks, pending, TypeOK
<1> QED
  BY <1>1, <1>2, <1>3, <1>4, <1>5 DEF Next

\* The state of scheduler.c stays within its types; in particular
\* current_task always indexes user_tasks.
THEOREM TypeCorrect == Spec => []TypeOK
<1>1. Init => TypeOK
  BY InitTypeOK
<1>2. TypeOK /\ [Next]_vars => TypeOK'
  BY TypingStep
<1> QED BY <1>1, <1>2, PTL DEF Spec
-----------------------------------------------------------------------------
(* The inductive invariant.                                                *)

LEMMA InitIInv == Init => IInv
<1> SUFFICES ASSUME Init
             PROVE  IInv
  OBVIOUS
<1>1. TypeOK
  BY InitTypeOK
<1>2. 1 \in Tasks /\ 0 \in Tasks
  BY SchedulerAssumption DEF Tasks
<1> QED
  BY <1>1, <1>2 DEF Init, IInv, IdleNeverBlocks, CriticalSectionMasked,
     CallInProgress, SwitchPending, CriticalSection, Idle, READY, BLOCKED

\* SysTick_Handler is not taken inside the critical section, so no sum or
\* block_count in the making can become stale; what it changes of a task's
\* state is to make it READY.
LEMMA SysTickPreservesIInv ==
  ASSUME IInv, SysTick_Handler, TypeOK'
  PROVE  IInv'
<1>1. \A t \in Tasks : current_state'[t] = current_state[t] \/ current_state'[t] = READY
  BY DEF SysTick_Handler, unblock_tasks
<1>2. IdleNeverBlocks'
  BY SchedulerAssumption, <1>1 DEF IInv, IdleNeverBlocks, Idle, Tasks
<1>3. CriticalSectionMasked'
  BY DEF IInv, SysTick_Handler, CriticalSectionMasked
<1>4. CallInProgress'
  <2>1. \A t \in Tasks : pc[t] \notin CriticalSection
    BY DEF IInv, CriticalSectionMasked, SysTick_Handler, ExceptionTaken
  <2> QED
    BY <1>1, <2>1 DEF IInv, CallInProgress, SysTick_Handler, CriticalSection,
       READY, BLOCKED
<1>5. SwitchPending'
  BY DEF SysTick_Handler, SwitchPending
<1> QED
  BY <1>2, <1>3, <1>4, <1>5 DEF IInv

\* PendSV_Handler is not taken inside the critical section either, and the
\* task it switches to is READY.
LEMMA PendSVPreservesIInv ==
  ASSUME IInv, PendSV_Handler, TypeOK'
  PROVE  IInv'
<1>1. current_task' \in Tasks /\ current_state[current_task'] = READY
  BY NextTask DEF IInv, PendSV_Handler
<1>2. IdleNeverBlocks'
  BY DEF IInv, IdleNeverBlocks, PendSV_Handler
<1>3. CriticalSectionMasked'
  BY DEF IInv, CriticalSectionMasked, PendSV_Handler, ExceptionTaken
<1>4. CallInProgress'
  BY DEF IInv, CallInProgress, PendSV_Handler
<1>5. SwitchPending'
  BY <1>1 DEF PendSV_Handler, SwitchPending, READY, BLOCKED
<1> QED
  BY <1>2, <1>3, <1>4, <1>5 DEF IInv

\* A statement of the running thread.
LEMMA ThreadPreservesIInv ==
  ASSUME IInv, NEW t \in Tasks, Thread(t), TypeOK'
  PROVE  IInv'
<1> USE DEF IInv
<1>l. \A l \in {"check", "read", "block_count", "state", "schedule", "enable",
                "body", "disable", "return"} : l \in Labels
  BY DEF Labels, CriticalSection
<1>d. TypeOK /\ Idle \in Tasks
  BY SchedulerAssumption DEF Idle, Tasks
<1>1. ASSUME NEW n \in Delays, Call(t, n)
      PROVE  IInv'
  <2>1. At(t, "body", "disable")
    BY <1>1 DEF Call
  <2>2. /\ t = current_task
        /\ ~primask => ~pendst /\ ~pendsv
        /\ pc[t] = "body" /\ pc'[t] = "disable"
        /\ \A u \in Tasks \ {t} : pc'[u] = pc[u]
    BY <2>1, <1>l, <1>d, AtFacts
  <2>3. IdleNeverBlocks'
    BY <1>1, <2>2, <1>d DEF Call, IdleNeverBlocks, CallInProgress, TypeOK, tasks, pending
  <2>4. CriticalSectionMasked'
    BY <1>1, <2>2, <1>d DEF Call, CriticalSectionMasked, CriticalSection, tasks, pending
  <2>5. CallInProgress'
    BY <1>1, <2>2, <1>d DEF Call, CallInProgress, TypeOK, READY, BLOCKED, tasks, pending
  <2>6. SwitchPending'
    BY <1>1, <2>2, <1>d DEF Call, SwitchPending, CallInProgress, BLOCKED, tasks, pending
  <2> QED
    BY <2>3, <2>4, <2>5, <2>6
<1>2. CASE INTERRUPT_DISABLE(t)
  <2>1. At(t, "disable", "check")
    BY <1>2 DEF INTERRUPT_DISABLE
  <2>2. /\ t = current_task
        /\ ~primask => ~pendst /\ ~pendsv
        /\ pc[t] = "disable" /\ pc'[t] = "check"
        /\ \A u \in Tasks \ {t} : pc'[u] = pc[u]
    BY <2>1, <1>l, <1>d, AtFacts
  <2>3. IdleNeverBlocks'
    BY <1>2, <2>2, <1>d DEF INTERRUPT_DISABLE, IdleNeverBlocks, CallInProgress, TypeOK, tasks, pending
  <2>4. CriticalSectionMasked'
    BY <1>2, <2>2, <1>d DEF INTERRUPT_DISABLE, CriticalSectionMasked, CriticalSection, tasks, pending
  <2>5. CallInProgress'
    BY <1>2, <2>2, <1>d DEF INTERRUPT_DISABLE, CallInProgress, TypeOK, READY, BLOCKED, tasks, pending
  <2>6. SwitchPending'
    BY <1>2, <2>2, <1>d DEF INTERRUPT_DISABLE, SwitchPending, CallInProgress, BLOCKED, tasks, pending
  <2> QED
    BY <2>3, <2>4, <2>5, <2>6
<1>3. CASE CheckTask(t)
  <2>1. At(t, "check", (IF t = Idle THEN "enable" ELSE "read"))
    BY <1>3 DEF CheckTask
  <2>2. /\ t = current_task
        /\ ~primask => ~pendst /\ ~pendsv
        /\ pc[t] = "check" /\ pc'[t] = (IF t = Idle THEN "enable" ELSE "read")
        /\ \A u \in Tasks \ {t} : pc'[u] = pc[u]
    BY <2>1, <1>l, <1>d, AtFacts
  <2>3. IdleNeverBlocks'
    BY <1>3, <2>2, <1>d DEF CheckTask, IdleNeverBlocks, CallInProgress, TypeOK, tasks, pending
  <2>4. CriticalSectionMasked'
    BY <1>3, <2>2, <1>d DEF CheckTask, CriticalSectionMasked, CriticalSection, tasks, pending
  <2>5. CallInProgress'
    BY <1>3, <2>2, <1>d DEF CheckTask, CallInProgress, TypeOK, READY, BLOCKED, tasks, pending
  <2>6. SwitchPending'
    BY <1>3, <2>2, <1>d DEF CheckTask, SwitchPending, CallInProgress, BLOCKED, tasks, pending
  <2> QED
    BY <2>3, <2>4, <2>5, <2>6
<1>4. CASE ReadTick(t)
  <2>1. At(t, "read", "block_count")
    BY <1>4 DEF ReadTick
  <2>2. /\ t = current_task
        /\ ~primask => ~pendst /\ ~pendsv
        /\ pc[t] = "read" /\ pc'[t] = "block_count"
        /\ \A u \in Tasks \ {t} : pc'[u] = pc[u]
    BY <2>1, <1>l, <1>d, AtFacts
  <2>3. IdleNeverBlocks'
    BY <1>4, <2>2, <1>d DEF ReadTick, IdleNeverBlocks, CallInProgress, TypeOK, tasks, pending
  <2>4. CriticalSectionMasked'
    BY <1>4, <2>2, <1>d DEF ReadTick, CriticalSectionMasked, CriticalSection, tasks, pending
  <2>5. CallInProgress'
    BY <1>4, <2>2, <1>d DEF ReadTick, CallInProgress, TypeOK, READY, BLOCKED, tasks, pending
  <2>6. SwitchPending'
    BY <1>4, <2>2, <1>d DEF ReadTick, SwitchPending, CallInProgress, BLOCKED, tasks, pending
  <2> QED
    BY <2>3, <2>4, <2>5, <2>6
<1>5. CASE SetBlockCount(t)
  <2>1. At(t, "block_count", "state")
    BY <1>5 DEF SetBlockCount
  <2>2. /\ t = current_task
        /\ ~primask => ~pendst /\ ~pendsv
        /\ pc[t] = "block_count" /\ pc'[t] = "state"
        /\ \A u \in Tasks \ {t} : pc'[u] = pc[u]
    BY <2>1, <1>l, <1>d, AtFacts
  <2>3. IdleNeverBlocks'
    BY <1>5, <2>2, <1>d DEF SetBlockCount, IdleNeverBlocks, CallInProgress, TypeOK, pending
  <2>4. CriticalSectionMasked'
    BY <1>5, <2>2, <1>d DEF SetBlockCount, CriticalSectionMasked, CriticalSection, pending
  <2>5. CallInProgress'
    BY <1>5, <2>2, <1>d DEF SetBlockCount, CallInProgress, TypeOK, READY, BLOCKED, pending
  <2>6. SwitchPending'
    BY <1>5, <2>2, <1>d DEF SetBlockCount, SwitchPending, CallInProgress, BLOCKED, pending
  <2> QED
    BY <2>3, <2>4, <2>5, <2>6
<1>6. CASE SetBlocked(t)
  <2>1. At(t, "state", "schedule")
    BY <1>6 DEF SetBlocked
  <2>2. /\ t = current_task
        /\ ~primask => ~pendst /\ ~pendsv
        /\ pc[t] = "state" /\ pc'[t] = "schedule"
        /\ \A u \in Tasks \ {t} : pc'[u] = pc[u]
    BY <2>1, <1>l, <1>d, AtFacts
  <2>3. IdleNeverBlocks'
    BY <1>6, <2>2, <1>d DEF SetBlocked, IdleNeverBlocks, CallInProgress, TypeOK, pending
  <2>4. CriticalSectionMasked'
    BY <1>6, <2>2, <1>d DEF SetBlocked, CriticalSectionMasked, CriticalSection, pending
  <2>5. CallInProgress'
    BY <1>6, <2>2, <1>d DEF SetBlocked, CallInProgress, TypeOK, READY, BLOCKED, pending
  <2>6. SwitchPending'
    BY <1>6, <2>2, <1>d DEF SetBlocked, SwitchPending, CallInProgress, BLOCKED, pending
  <2> QED
    BY <2>3, <2>4, <2>5, <2>6
<1>7. CASE schedule(t)
  <2>1. At(t, "schedule", "enable")
    BY <1>7 DEF schedule
  <2>2. /\ t = current_task
        /\ ~primask => ~pendst /\ ~pendsv
        /\ pc[t] = "schedule" /\ pc'[t] = "enable"
        /\ \A u \in Tasks \ {t} : pc'[u] = pc[u]
    BY <2>1, <1>l, <1>d, AtFacts
  <2>3. IdleNeverBlocks'
    BY <1>7, <2>2, <1>d DEF schedule, IdleNeverBlocks, CallInProgress, TypeOK, tasks
  <2>4. CriticalSectionMasked'
    BY <1>7, <2>2, <1>d DEF schedule, CriticalSectionMasked, CriticalSection, tasks
  <2>5. CallInProgress'
    BY <1>7, <2>2, <1>d DEF schedule, CallInProgress, TypeOK, READY, BLOCKED, tasks
  <2>6. SwitchPending'
    BY <1>7, <2>2, <1>d DEF schedule, SwitchPending, CallInProgress, BLOCKED, tasks
  <2> QED
    BY <2>3, <2>4, <2>5, <2>6
<1>8. CASE INTERRUPT_ENABLE(t)
  <2>1. At(t, "enable", "return")
    BY <1>8 DEF INTERRUPT_ENABLE
  <2>2. /\ t = current_task
        /\ ~primask => ~pendst /\ ~pendsv
        /\ pc[t] = "enable" /\ pc'[t] = "return"
        /\ \A u \in Tasks \ {t} : pc'[u] = pc[u]
    BY <2>1, <1>l, <1>d, AtFacts
  <2>3. IdleNeverBlocks'
    BY <1>8, <2>2, <1>d DEF INTERRUPT_ENABLE, IdleNeverBlocks, CallInProgress, TypeOK, tasks, pending
  <2>4. CriticalSectionMasked'
    BY <1>8, <2>2, <1>d DEF INTERRUPT_ENABLE, CriticalSectionMasked, CriticalSection, tasks, pending
  <2>5. CallInProgress'
    BY <1>8, <2>2, <1>d DEF INTERRUPT_ENABLE, CallInProgress, TypeOK, READY, BLOCKED, tasks, pending
  <2>6. SwitchPending'
    BY <1>8, <2>2, <1>d DEF INTERRUPT_ENABLE, SwitchPending, CallInProgress, BLOCKED, tasks, pending
  <2> QED
    BY <2>3, <2>4, <2>5, <2>6
<1>9. CASE Return(t)
  <2>1. At(t, "return", "body")
    BY <1>9 DEF Return
  <2>2. /\ t = current_task
        /\ ~primask => ~pendst /\ ~pendsv
        /\ pc[t] = "return" /\ pc'[t] = "body"
        /\ \A u \in Tasks \ {t} : pc'[u] = pc[u]
    BY <2>1, <1>l, <1>d, AtFacts
  <2>3. IdleNeverBlocks'
    BY <1>9, <2>2, <1>d DEF Return, IdleNeverBlocks, CallInProgress, TypeOK, tasks, pending
  <2>4. CriticalSectionMasked'
    BY <1>9, <2>2, <1>d DEF Return, CriticalSectionMasked, CriticalSection, tasks, pending
  <2>5. CallInProgress'
    <3>1. current_state[t] # BLOCKED
      BY <2>2 DEF SwitchPending, CriticalSectionMasked, CriticalSection
    <3> QED
      BY <1>9, <2>2, <3>1, <1>d DEF Return, CallInProgress, TypeOK, tasks, pending
  <2>6. SwitchPending'
    BY <1>9, <2>2, <1>d DEF Return, SwitchPending, CallInProgress, BLOCKED, tasks, pending
  <2> QED
    BY <2>3, <2>4, <2>5, <2>6
<1> QED
  BY <1>1, <1>2, <1>3, <1>4, <1>5, <1>6, <1>7, <1>8, <1>9 DEF Thread

LEMMA IInvStep == IInv /\ [Next]_vars => IInv'
<1> SUFFICES ASSUME IInv, [Next]_vars
             PROVE  IInv'
  OBVIOUS
<1>1. TypeOK'
  BY TypingStep DEF IInv
<1>2. CASE TimerExpires
  BY <1>1, <1>2 DEF TimerExpires, IInv, IdleNeverBlocks, CriticalSectionMasked,
     CallInProgress, SwitchPending, tasks
<1>3. CASE SysTick_Handler
  BY <1>1, <1>3, SysTickPreservesIInv
<1>4. CASE PendSV_Handler
  BY <1>1, <1>4, PendSVPreservesIInv
<1>5. ASSUME NEW t \in Tasks, Thread(t)
      PROVE  IInv'
  BY <1>1, <1>5, ThreadPreservesIInv
<1>6. CASE UNCHANGED vars
  BY <1>1, <1>6 DEF vars, tasks, pending, IInv, IdleNeverBlocks,
     CriticalSectionMasked, CallInProgress, SwitchPending
<1> QED
  BY <1>2, <1>3, <1>4, <1>5, <1>6 DEF Next

THEOREM Invariance == Spec => []IInv
<1>1. Init => IInv
  BY InitIInv
<1>2. IInv /\ [Next]_vars => IInv'
  BY IInvStep
<1> QED BY <1>1, <1>2, PTL DEF Spec

-----------------------------------------------------------------------------
(* Safety.                                                                 *)

\* A task that has blocked executes nothing outside the critical section.
THEOREM BlockedNeverRunsHolds == Spec => []BlockedNeverRuns
<1>1. IInv => BlockedNeverRuns
  BY DEF IInv, TypeOK, CriticalSectionMasked, SwitchPending, BlockedNeverRuns,
     CriticalSection
<1> QED BY <1>1, Invariance, PTL

\* task_delay leaves PRIMASK as it found it on every path, and no task is
\* switched out with interrupts disabled.
THEOREM CriticalSectionMaskedHolds == Spec => []CriticalSectionMasked
<1>1. IInv => CriticalSectionMasked
  BY DEF IInv
<1> QED BY <1>1, Invariance, PTL

\* idle_task is READY in every state.
THEOREM IdleNeverBlocksHolds == Spec => []IdleNeverBlocks
<1>1. IInv => IdleNeverBlocks
  BY DEF IInv
<1> QED BY <1>1, Invariance, PTL

\* One tick brings a sleeper one tick closer to its block_count.
LEMMA DistanceTick ==
  ASSUME TypeOK, NEW t \in Tasks, g_tick_count' = Wrap(g_tick_count + 1, TickMod),
         block_count' = block_count, block_count[t] # g_tick_count
  PROVE  /\ Distance(t) \in 1 .. TickMod-1
         /\ Distance(t)' = Distance(t) - 1
BY SchedulerAssumption DEF TypeOK, Ticks, Distance, Wrap

\* The sum of the tick and a delay is as many ticks away as the delay says.
LEMMA DistanceSum ==
  ASSUME NEW g \in Ticks, NEW n \in Ticks
  PROVE  Wrap(TickMod - g + Wrap(g + n, TickMod), TickMod) = n
BY SchedulerAssumption DEF Ticks, Wrap

LEMMA NoMissedWakeupStep ==
  ASSUME 0 \notin Delays, IInv, NoMissedWakeup, [Next]_vars
  PROVE  NoMissedWakeup'
<1> USE DEF IInv
<1>1. CASE TimerExpires
  BY <1>1 DEF TimerExpires, NoMissedWakeup, Distance, tasks
<1>2. CASE SysTick_Handler
  <2> SUFFICES ASSUME NEW t \in Tasks, current_state'[t] = BLOCKED
               PROVE  Distance(t)' \in 1 .. tick_count'[t]
    BY DEF NoMissedWakeup
  <2>1. /\ g_tick_count' = Wrap(g_tick_count + 1, TickMod)
        /\ block_count' = block_count
        /\ tick_count' = tick_count
    BY <1>2 DEF SysTick_Handler
  <2>2. t # Idle /\ current_state[t] = BLOCKED /\ block_count[t] # g_tick_count'
    BY <1>2, <2>1 DEF SysTick_Handler, unblock_tasks, TypeOK, IdleNeverBlocks,
       READY, BLOCKED
  <2>3. Distance(t) \in 1 .. tick_count[t]
    BY <2>2 DEF NoMissedWakeup
  <2>4. Distance(t)' = Distance(t) - 1
    <3>1. block_count[t] # g_tick_count
      BY <2>3, SchedulerAssumption DEF TypeOK, Ticks, Distance, Wrap
    <3> QED BY <2>1, <3>1, DistanceTick
  <2>5. Distance(t)' # 0
    BY <2>1, <2>2, SchedulerAssumption DEF TypeOK, Ticks, Distance, Wrap
  <2>6. tick_count[t] \in Nat
    BY DEF TypeOK, Ticks
  <2> QED
    BY <2>1, <2>3, <2>4, <2>5, <2>6
<1>3. CASE PendSV_Handler
  BY <1>3 DEF PendSV_Handler, NoMissedWakeup, Distance
<1>4. ASSUME NEW t \in Tasks, Thread(t)
      PROVE  NoMissedWakeup'
  <2>1. ASSUME NEW n \in Delays, Call(t, n)
        PROVE  NoMissedWakeup'
    <3>1. current_state[t] # BLOCKED
      BY <2>1 DEF Call, At, CallInProgress
    <3> QED
      BY <2>1, <3>1 DEF Call, NoMissedWakeup, Distance, TypeOK, tasks
  <2>2. CASE SetBlockCount(t)
    <3>1. current_state[t] # BLOCKED
      BY <2>2 DEF SetBlockCount, At, CallInProgress
    <3> QED
      BY <2>2, <3>1 DEF SetBlockCount, NoMissedWakeup, Distance, TypeOK
  <2>3. CASE SetBlocked(t)
    <3>1. pc[t] = "state"
      BY <2>3 DEF SetBlocked, At
    <3>2. tick_count[t] \in Delays /\ tick_count[t] \in Ticks
      BY <3>1 DEF CallInProgress, TypeOK
    <3>3. Distance(t) = tick_count[t]
      BY <3>1, <3>2, DistanceSum DEF CallInProgress, Distance, TypeOK
    <3>4. tick_count[t] \in 1 .. tick_count[t]
      BY <3>2 DEF Ticks
    <3> QED
      BY <2>3, <3>3, <3>4 DEF SetBlocked, NoMissedWakeup, Distance, TypeOK
  <2>4. CASE Return(t)
    <3>1. current_state[t] # BLOCKED
      BY <2>4 DEF Return, At, ExceptionTaken, SwitchPending,
         CriticalSectionMasked, CriticalSection
    <3> QED
      BY <2>4, <3>1 DEF Return, NoMissedWakeup, Distance, TypeOK, tasks
  <2>5. CASE \/ INTERRUPT_DISABLE(t)
             \/ CheckTask(t)
             \/ ReadTick(t)
             \/ schedule(t)
             \/ INTERRUPT_ENABLE(t)
    BY <2>5 DEF INTERRUPT_DISABLE, CheckTask, ReadTick, schedule,
       INTERRUPT_ENABLE, NoMissedWakeup, Distance, tasks
  <2> QED
    BY <1>4, <2>1, <2>2, <2>3, <2>4, <2>5 DEF Thread
<1>5. CASE UNCHANGED vars
  BY <1>5 DEF vars, tasks, NoMissedWakeup, Distance
<1> QED
  BY <1>1, <1>2, <1>3, <1>4, <1>5 DEF Next

\* If no task asks for a delay of zero, no wake-up is ever missed: a blocked
\* task has between one tick and its whole delay left to wait.
THEOREM NoMissedWakeupHolds ==
  ASSUME 0 \notin Delays
  PROVE  Spec => []NoMissedWakeup
<1>1. Init => NoMissedWakeup
  BY DEF Init, NoMissedWakeup, READY, BLOCKED
<1>2. IInv /\ NoMissedWakeup /\ [Next]_vars => NoMissedWakeup'
  BY NoMissedWakeupStep
<1> QED BY <1>1, <1>2, Invariance, PTL DEF Spec

-----------------------------------------------------------------------------
(* Refinement of Delay.                                                    *)

LEMMA InitRefinement == Init => D!Init
<1> SUFFICES ASSUME Init
             PROVE  D!Init
  OBVIOUS
<1>1. 1 \in Tasks \ {Idle}
  BY SchedulerAssumption DEF Tasks, Idle
<1> QED
  BY <1>1 DEF Init, D!Init, remaining, READY, BLOCKED

\* SysTick_Handler is a tick of Delay: it makes READY exactly the sleepers
\* that have one tick left.
LEMMA SysTickRefinement ==
  ASSUME IInv, NoMissedWakeup, SysTick_Handler
  PROVE  D!Tick
<1> USE DEF IInv
<1>1. /\ g_tick_count' = Wrap(g_tick_count + 1, TickMod)
      /\ block_count' = block_count
      /\ current_task' = current_task
  BY DEF SysTick_Handler
<1>2. ASSUME NEW t \in Tasks
      PROVE  remaining'[t] = IF remaining[t] > 0 THEN remaining[t] - 1 ELSE 0
  <2>1. CASE current_state[t] # BLOCKED
    <3>1. current_state[t] = READY /\ current_state'[t] = READY
      BY <2>1 DEF TypeOK, SysTick_Handler, unblock_tasks
    <3> QED
      BY <3>1 DEF remaining, READY, BLOCKED
  <2>2. CASE current_state[t] = BLOCKED
    <3>1. t # Idle /\ tick_count[t] \in Nat /\ Distance(t) \in 1 .. tick_count[t]
      BY <2>2 DEF TypeOK, Ticks, IdleNeverBlocks, NoMissedWakeup, READY, BLOCKED
    <3>2. block_count[t] # g_tick_count
      BY <3>1, SchedulerAssumption DEF TypeOK, Ticks, Distance, Wrap
    <3>3. Distance(t)' = Distance(t) - 1
      BY <1>1, <3>2, DistanceTick
    <3>4. block_count[t] = g_tick_count' <=> Distance(t)' = 0
      BY <1>1, SchedulerAssumption DEF TypeOK, Ticks, Distance, Wrap
    <3>5. current_state'[t] = IF block_count[t] = g_tick_count' THEN READY ELSE BLOCKED
      BY <2>2, <3>1 DEF SysTick_Handler, unblock_tasks, READY, BLOCKED
    <3>6. remaining[t] = Distance(t) /\ remaining[t] > 0
      BY <2>2, <3>1 DEF remaining
    <3>7. remaining'[t] = IF current_state'[t] = BLOCKED THEN Distance(t)' ELSE 0
      BY DEF remaining
    <3> QED
      BY <3>1, <3>3, <3>4, <3>5, <3>6, <3>7 DEF READY, BLOCKED
  <2> QED
    BY <2>1, <2>2
<1>3. remaining' = [t \in Tasks |-> IF remaining[t] > 0 THEN remaining[t] - 1 ELSE 0]
  <2>1. remaining' = [t \in Tasks |-> remaining'[t]]
    BY DEF remaining
  <2> QED
    BY <1>2, <2>1
<1> QED
  BY <1>1, <1>3 DEF D!Tick

\* PendSV_Handler is a dispatch of Delay: awake and READY are the same.
LEMMA PendSVRefinement ==
  ASSUME IInv, NoMissedWakeup, PendSV_Handler
  PROVE  D!Dispatch
<1> USE DEF IInv
<1>1. \A t \in Tasks : remaining[t] = 0 <=> current_state[t] = READY
  <2> SUFFICES ASSUME NEW t \in Tasks
               PROVE  remaining[t] = 0 <=> current_state[t] = READY
    OBVIOUS
  <2>1. CASE current_state[t] = BLOCKED
    <3>1. tick_count[t] \in Nat /\ Distance(t) \in 1 .. tick_count[t]
      BY <2>1 DEF TypeOK, Ticks, NoMissedWakeup
    <3> QED
      BY <2>1, <3>1 DEF remaining, READY, BLOCKED
  <2>2. CASE current_state[t] # BLOCKED
    BY <2>2 DEF TypeOK, remaining
  <2> QED
    BY <2>1, <2>2
<1>2. /\ current_task' \in Tasks
      /\ current_state[current_task'] = READY
      /\ current_task' = Idle =>
            \A t \in Tasks \ {Idle} : current_state[t] # READY
  BY NextTask DEF PendSV_Handler
<1>3. D!Awake = {t \in Tasks : current_state[t] = READY}
  BY <1>1 DEF D!Awake
<1>4. remaining' = remaining
  BY DEF PendSV_Handler, remaining, Distance
<1> QED
  BY <1>2, <1>3, <1>4 DEF D!Dispatch

\* Blocking is the moment at which the task falls asleep.
LEMMA SetBlockedRefinement ==
  ASSUME IInv, NEW t \in Tasks, SetBlocked(t)
  PROVE  D!Sleep(tick_count[t]) /\ tick_count[t] \in Delays
<1> USE DEF IInv
<1>1. t = current_task /\ pc[t] = "state"
  BY DEF SetBlocked, At
<1>2. t # Idle /\ tick_count[t] \in Delays /\ current_state[t] # BLOCKED
  BY <1>1 DEF CallInProgress
<1>3. Distance(t) = tick_count[t]
  BY <1>1, DistanceSum DEF CallInProgress, Distance, TypeOK
<1>4. current_state' = [current_state EXCEPT ![t] = BLOCKED]
  BY DEF SetBlocked
<1>5. \A u \in Tasks : Distance(u)' = Distance(u)
  BY DEF SetBlocked, Distance
<1>6. remaining' = [remaining EXCEPT ![t] = tick_count[t]]
  BY <1>3, <1>4, <1>5 DEF remaining, TypeOK
<1>7. t \in D!Awake
  BY <1>2 DEF D!Awake, remaining
<1> QED
  BY <1>1, <1>2, <1>6, <1>7 DEF SetBlocked, D!Sleep

LEMMA StepRefinement ==
  ASSUME IInv, NoMissedWakeup, [Next]_vars
  PROVE  [D!Next]_(D!vars)
<1> USE DEF IInv
<1>1. CASE TimerExpires
  BY <1>1 DEF TimerExpires, D!vars, remaining, Distance, tasks
<1>2. CASE SysTick_Handler
  BY <1>2, SysTickRefinement DEF D!Next
<1>3. CASE PendSV_Handler
  BY <1>3, PendSVRefinement DEF D!Next
<1>4. ASSUME NEW t \in Tasks, Thread(t)
      PROVE  [D!Next]_(D!vars)
  <2>1. CASE SetBlocked(t)
    BY <2>1, SetBlockedRefinement DEF D!Next
  <2>2. CASE SetBlockCount(t)
    <3>1. t \in Tasks /\ current_state[t] # BLOCKED
      BY <2>2 DEF SetBlockCount, At, CallInProgress
    <3>2. /\ current_state' = current_state /\ current_task' = current_task
          /\ \A u \in Tasks \ {t} : Distance(u)' = Distance(u)
      BY <2>2 DEF SetBlockCount, Distance, TypeOK
    <3> QED
      BY <3>1, <3>2 DEF D!vars, remaining
  <2>3. CASE \/ \E n \in Delays : Call(t, n)
             \/ INTERRUPT_DISABLE(t)
             \/ CheckTask(t)
             \/ ReadTick(t)
             \/ schedule(t)
             \/ INTERRUPT_ENABLE(t)
             \/ Return(t)
    BY <2>3 DEF Call, INTERRUPT_DISABLE, CheckTask, ReadTick, schedule,
       INTERRUPT_ENABLE, Return, D!vars, remaining, Distance, tasks
  <2> QED
    BY <1>4, <2>1, <2>2, <2>3 DEF Thread
<1>5. CASE UNCHANGED vars
  BY <1>5 DEF vars, tasks, D!vars, remaining, Distance
<1> QED
  BY <1>1, <1>2, <1>3, <1>4, <1>5 DEF Next

\* If no task asks for a delay of zero, the scheduler implements Delay: every
\* task sleeps for exactly the number of ticks it asked for, and the processor
\* is idle only while all of them sleep.
THEOREM SchedulerImplementsDelay ==
  ASSUME 0 \notin Delays
  PROVE  Spec => ImplementsDelay
<1>1. Init => D!Init
  BY InitRefinement
<1>2. IInv /\ NoMissedWakeup /\ [Next]_vars => [D!Next]_(D!vars)
  BY StepRefinement
<1> QED
  BY <1>1, <1>2, Invariance, NoMissedWakeupHolds, PTL
     DEF Spec, ImplementsDelay, D!Spec
==============================================================================
