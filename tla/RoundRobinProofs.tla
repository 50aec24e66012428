-------------------------- MODULE RoundRobinProofs ---------------------------
(***************************************************************************)
(* Proof that the round robin bounds the wait of a ready task, for every   *)
(* number of tasks.                                                        *)
(***************************************************************************)
EXTENDS RoundRobin, SchedulerProofs

\* A history variable changes nothing: RRSpec has the behaviours of Spec.
LEMMA StepIsSchedulerStep == [RRNext]_rrvars => [Next]_vars
BY DEF RRNext, Switch, NoSwitch, Next, rrvars

LEMMA RRInvariance == RRSpec => []IInv
<1>1. RRInit => IInv
  BY InitIInv DEF RRInit
<1>2. IInv /\ [RRNext]_rrvars => IInv'
  BY StepIsSchedulerStep, IInvStep
<1> QED BY <1>1, <1>2, PTL DEF RRSpec

\* The task that the loop of update_next_task stops at is not beyond t, for
\* any ready task t: either it is t, or it is closer to t than before.
LEMMA NextIsBetween ==
  ASSUME TypeOK, NEW t \in Waiters, current_state[t] = READY
  PROVE  LET next == update_next_task IN
         /\ next \in Waiters
         /\ \/ next = t
            \/ next > current_task /\ (t > next \/ t <= current_task)
            \/ next <= current_task /\ next < t /\ t <= current_task
<1> USE SchedulerAssumption
<1> DEFINE kt == IF t > current_task THEN t - current_task
                 ELSE t + MAX_TASKS - current_task
<1>1. kt \in 1 .. MAX_TASKS /\ Visited(kt) = t
  BY DEF TypeOK, Visited, Wrap, Tasks, Waiters, Idle
<1>2. kt \in Breaks
  BY <1>1 DEF Breaks, Waiters
<1>3. \E k \in Breaks : \A j \in Breaks : k <= j
  <2>1. Breaks \subseteq Nat
    BY DEF Breaks
  <2> QED BY <1>2, <2>1, LeastNat
<1>4. PICK k \in Breaks : /\ update_next_task = Visited(k)
                          /\ \A j \in Breaks : k <= j
  BY <1>2, <1>3 DEF update_next_task
<1>5. k <= kt /\ k \in 1 .. MAX_TASKS /\ Visited(k) # Idle
  BY <1>2, <1>4 DEF Breaks
<1>6. current_task \in 0 .. MAX_TASKS-1 /\ t \in 1 .. MAX_TASKS-1
  BY DEF TypeOK, Tasks, Waiters, Idle
<1>7. Visited(k) = IF current_task + k < MAX_TASKS THEN current_task + k
                   ELSE current_task + k - MAX_TASKS
  BY <1>5, <1>6 DEF Visited, Wrap
<1>8. Visited(k) \in Waiters
  BY <1>5, <1>6, <1>7 DEF Tasks, Waiters, Idle
<1> QED
  BY <1>4, <1>5, <1>6, <1>7, <1>8

LEMMA RRInitInv == RRInit => BypassInv
<1> SUFFICES ASSUME RRInit
             PROVE  BypassInv
  OBVIOUS
<1>1. \A t \in Waiters : Between(t) <= MAX_TASKS - 2
  BY SchedulerAssumption DEF RRInit, Init, Between, Waiters, Tasks, Idle
<1>2. \A t \in Waiters : Between(t) \in Int
  BY SchedulerAssumption DEF RRInit, Init, Between, Waiters, Tasks, Idle
<1>3. 1 \in Waiters
  BY SchedulerAssumption DEF Waiters, Tasks, Idle
<1> QED
  BY <1>1, <1>2, <1>3, SchedulerAssumption DEF RRInit, Init, BypassInv

LEMMA SwitchPreservesBypassInv ==
  ASSUME IInv, BypassInv, Switch, IInv'
  PROVE  BypassInv'
<1> USE SchedulerAssumption
<1>1. /\ current_task \in 0 .. MAX_TASKS-1
      /\ current_task' = update_next_task
      /\ current_task' \in 0 .. MAX_TASKS-1
  BY DEF IInv, TypeOK, Switch, PendSV_Handler, Tasks
<1>2. bypassed' \in [Waiters -> Nat]
  BY DEF BypassInv, Switch
<1>3. ASSUME NEW t \in Waiters
      PROVE  bypassed'[t] + Between(t)' <= MAX_TASKS - 2
  <2>1. t \in 1 .. MAX_TASKS-1 /\ bypassed[t] \in Nat
    BY DEF Waiters, Tasks, Idle, BypassInv
  <2>2. Between(t)' = IF t > current_task' THEN t - current_task' - 1
                      ELSE (MAX_TASKS - 1 - current_task') + (t - 1)
    BY DEF Between
  <2>3. CASE t = current_task' \/ current_state[t] # READY
    <3>1. bypassed'[t] = 0
      BY <2>3 DEF Switch
    <3> QED BY <1>1, <2>1, <2>2, <3>1
  <2>4. CASE t # current_task' /\ current_state[t] = READY
    <3>1. bypassed'[t] = bypassed[t] + 1
      BY <2>4 DEF Switch
    <3>2. /\ current_task' # 0
          /\ \/ current_task' > current_task /\ (t > current_task' \/ t <= current_task)
             \/ current_task' <= current_task /\ current_task' < t /\ t <= current_task
      BY <1>1, <2>4, NextIsBetween DEF IInv, Waiters, Idle
    <3>3. bypassed[t] + Between(t) <= MAX_TASKS - 2
      BY DEF BypassInv
    <3>4. t = current_task => bypassed[t] = 0
      BY <2>1 DEF BypassInv, Idle
    <3>5. Between(t) = IF t > current_task THEN t - current_task - 1
                       ELSE (MAX_TASKS - 1 - current_task) + (t - 1)
      BY DEF Between
    <3> QED BY <1>1, <2>1, <2>2, <3>1, <3>2, <3>3, <3>4, <3>5
  <2> QED BY <2>3, <2>4
<1>4. current_task' # Idle => bypassed'[current_task'] = 0
  BY <1>1 DEF Switch, Waiters, Tasks
<1> QED BY <1>2, <1>3, <1>4 DEF BypassInv

LEMMA NoSwitchPreservesBypassInv ==
  ASSUME IInv, BypassInv, NoSwitch
  PROVE  BypassInv'
<1>1. current_task' = current_task
  BY DEF NoSwitch, TimerExpires, SysTick_Handler, Thread, Call,
     INTERRUPT_DISABLE, CheckTask, ReadTick, SetBlockCount, SetBlocked,
     schedule, INTERRUPT_ENABLE, Return, tasks
<1>2. \A t \in Waiters : Between(t)' = Between(t) /\ Between(t) \in Int
  BY <1>1, SchedulerAssumption DEF Between, IInv, TypeOK, Tasks, Waiters
<1>3. \A t \in Waiters : bypassed'[t] = 0 \/ bypassed'[t] = bypassed[t]
  BY DEF NoSwitch
<1>4. bypassed' \in [Waiters -> Nat]
  BY DEF BypassInv, NoSwitch
<1>5. current_task # Idle => current_task \in Waiters
  BY DEF IInv, TypeOK, Waiters
<1>6. \A t \in Waiters : bypassed[t] \in Nat
  BY DEF BypassInv
<1> QED
  BY <1>1, <1>2, <1>3, <1>4, <1>5, <1>6, SchedulerAssumption DEF BypassInv

LEMMA BypassInvStep == IInv /\ IInv' /\ BypassInv /\ [RRNext]_rrvars => BypassInv'
<1>1. ASSUME IInv, BypassInv, UNCHANGED rrvars
      PROVE  BypassInv'
  BY <1>1 DEF rrvars, vars, tasks, BypassInv, Between
<1> QED
  BY <1>1, SwitchPreservesBypassInv, NoSwitchPreservesBypassInv DEF RRNext

\* Bounded waiting: at most MAX_TASKS - 2 context switches go to other tasks
\* before a ready task becomes the current one.
THEOREM BoundedBypassHolds == RRSpec => []BoundedBypass
<1>1. RRInit => BypassInv
  BY RRInitInv
<1>2. IInv /\ IInv' /\ BypassInv /\ [RRNext]_rrvars => BypassInv'
  BY BypassInvStep
<1>3. BypassInv /\ IInv => BoundedBypass
  BY SchedulerAssumption
     DEF BypassInv, BoundedBypass, Between, IInv, TypeOK, Waiters, Tasks, Idle
<1> QED BY <1>1, <1>2, <1>3, RRInvariance, PTL DEF RRSpec
==============================================================================
