------------------------ MODULE UpdateNextTaskProofs -------------------------
(***************************************************************************)
(* Proof that the loop of update_next_task computes what Scheduler says it *)
(* does, for every number of tasks and every combination of their states.  *)
(***************************************************************************)
EXTENDS UpdateNextTask, TLAPS

LEMMA VisitedInTasks ==
  ASSUME TypeOK, NEW k \in 0 .. MAX_TASKS
  PROVE  S!Wrap(start + k, MAX_TASKS) \in Tasks
BY MaxTasksAssumption DEF TypeOK, Tasks, S!Wrap

\* k breaks the loop: what S!Breaks says, in this module's names.
LEMMA BreaksMember ==
  ASSUME NEW k
  PROVE  k \in S!Breaks <=> /\ k \in 1 .. MAX_TASKS
                            /\ S!Wrap(start + k, MAX_TASKS) # 0
                            /\ current_state[S!Wrap(start + k, MAX_TASKS)] = READY
BY DEF S!Breaks, S!Visited, S!Idle, S!READY, READY

LEMMA InitLoopInv == Init => LoopInv
<1> SUFFICES ASSUME Init
             PROVE  LoopInv
  OBVIOUS
<1>1. TypeOK
  BY MaxTasksAssumption DEF Init, TypeOK, BLOCKED
<1>2. current_task = S!Wrap(start + i, MAX_TASKS)
  BY <1>1, MaxTasksAssumption DEF Init, Tasks, S!Wrap
<1> QED
  BY <1>1, <1>2 DEF Init, LoopInv, LoopFindsNextTask

LEMMA IterateStep == LoopInv /\ Iterate => LoopInv'
<1> SUFFICES ASSUME LoopInv, Iterate
             PROVE  LoopInv'
  OBVIOUS
<1> USE MaxTasksAssumption
<1> DEFINE next == S!Wrap(current_task + 1, MAX_TASKS)
<1>1. /\ TypeOK /\ pc = "loop" /\ i \in 0 .. MAX_TASKS-1
      /\ current_task = S!Wrap(start + i, MAX_TASKS)
      /\ \A k \in 1 .. i : k \notin S!Breaks
  BY DEF LoopInv, Iterate, TypeOK
<1>2. /\ current_task' = next /\ state' = current_state[next]
      /\ current_state' = current_state /\ start' = start
  BY DEF Iterate
<1>3. next = S!Wrap(start + (i + 1), MAX_TASKS) /\ next \in Tasks
  BY <1>1 DEF TypeOK, Tasks, S!Wrap
<1>4. i + 1 \in S!Breaks <=> next # 0 /\ current_state[next] = READY
  BY <1>1, <1>3, BreaksMember
<1>5. S!Breaks' = S!Breaks
  BY <1>2 DEF S!Breaks, S!Visited
<1>6. state' \in {READY, BLOCKED}
  BY <1>1, <1>2, <1>3 DEF TypeOK
<1> HIDE DEF next
<1>7. CASE i + 1 \in S!Breaks
  <2>1. pc' = "exit" /\ i' = i
    BY <1>2, <1>4, <1>7 DEF Iterate
  <2>2. TypeOK'
    BY <1>1, <1>2, <1>3, <1>6, <2>1 DEF TypeOK
  <2>3. \A j \in S!Breaks : i + 1 <= j
    <3>1. \A j \in S!Breaks : j \in 1 .. MAX_TASKS
      BY BreaksMember
    <3> QED BY <1>1, <3>1
  <2>4. \E k \in S!Breaks' :
           current_task' = S!Visited(k)' /\ \A j \in S!Breaks' : k <= j
    <3>1. current_task' = S!Wrap(start' + (i + 1), MAX_TASKS)
      BY <1>2, <1>3
    <3> QED BY <1>5, <1>7, <2>3, <3>1 DEF S!Visited
  <2> QED
    BY <1>2, <2>1, <2>2, <2>4 DEF LoopInv, LoopFindsNextTask
<1>8. CASE i + 1 \notin S!Breaks
  <2>1. pc' = "loop" /\ i' = i + 1
    BY <1>1, <1>2, <1>4, <1>8 DEF Iterate
  <2>2. TypeOK'
    BY <1>1, <1>2, <1>3, <1>6, <2>1 DEF TypeOK
  <2>3. \A k \in 1 .. i + 1 : k \notin S!Breaks
    BY <1>1, <1>8
  <2> QED
    BY <1>2, <1>3, <1>5, <2>1, <2>2, <2>3 DEF LoopInv, LoopFindsNextTask
<1> QED BY <1>7, <1>8

LEMMA LoopEndsStep == LoopInv /\ LoopEnds => LoopInv'
<1> SUFFICES ASSUME LoopInv, LoopEnds
             PROVE  LoopInv'
  OBVIOUS
<1> USE MaxTasksAssumption
<1>1. /\ TypeOK /\ i = MAX_TASKS
      /\ current_task = S!Wrap(start + i, MAX_TASKS)
      /\ state = current_state[current_task]
      /\ \A k \in 1 .. i : k \notin S!Breaks
  BY DEF LoopInv, LoopEnds
<1>2. S!Breaks = {}
  BY <1>1, BreaksMember
<1>3. current_task = start
  BY <1>1 DEF TypeOK, Tasks, S!Wrap
<1>4. S!Breaks' = S!Breaks
  BY DEF LoopEnds, S!Breaks, S!Visited
<1>5. TypeOK'
  BY <1>1 DEF LoopEnds, TypeOK
<1> QED
  BY <1>1, <1>2, <1>3, <1>4, <1>5 DEF LoopEnds, LoopInv, LoopFindsNextTask

LEMMA FallBackStep == LoopInv /\ FallBack => LoopInv'
<1> SUFFICES ASSUME LoopInv, FallBack
             PROVE  LoopInv'
  OBVIOUS
<1>1. /\ TypeOK /\ state = current_state[current_task]
      /\ current_task' = IF state = BLOCKED THEN 0 ELSE current_task
      /\ pc' = "done"
  BY DEF LoopInv, FallBack
<1>2. S!update_next_task' = S!update_next_task
  BY DEF FallBack, S!update_next_task, S!Breaks, S!Visited
<1>3. current_task' = S!update_next_task
  <2>1. CASE S!Breaks = {} /\ current_task = start
    BY <1>1, <2>1 DEF S!update_next_task, S!BLOCKED, BLOCKED, S!Idle
  <2>2. CASE \E k \in S!Breaks :
                current_task = S!Visited(k) /\ \A j \in S!Breaks : k <= j
    <3>1. PICK k \in S!Breaks :
                current_task = S!Visited(k) /\ \A j \in S!Breaks : k <= j
      BY <2>2
    <3>2. (CHOOSE n \in S!Breaks : \A j \in S!Breaks : n <= j) = k
      <4>1. \A n \in S!Breaks : n \in Nat
        BY BreaksMember
      <4> QED BY <3>1, <4>1
    <3>3. S!update_next_task = S!Visited(k)
      BY <3>1, <3>2 DEF S!update_next_task
    <3>4. current_state[current_task] = READY
      BY <3>1, BreaksMember DEF S!Visited
    <3> QED
      BY <1>1, <3>1, <3>3, <3>4 DEF READY, BLOCKED
  <2> QED
    BY <2>1, <2>2 DEF LoopInv, FallBack
<1>4. TypeOK'
  BY <1>1, MaxTasksAssumption DEF FallBack, TypeOK, Tasks
<1> QED
  BY <1>1, <1>2, <1>3, <1>4 DEF LoopInv, LoopFindsNextTask

\* Whatever task was running and whichever tasks are ready, update_next_task
\* returns with current_task at the first ready task after it, that task
\* itself last, and at idle_task if no task is ready.
THEOREM LoopCorrect == Spec => []LoopFindsNextTask
<1>1. Init => LoopInv
  BY InitLoopInv
<1>2. LoopInv /\ [Next]_vars => LoopInv'
  <2>1. LoopInv /\ UNCHANGED vars => LoopInv'
    BY DEF vars, LoopInv, LoopFindsNextTask, TypeOK, S!Breaks, S!Visited,
       S!update_next_task
  <2> QED
    BY <2>1, IterateStep, LoopEndsStep, FallBackStep DEF Next
<1>3. LoopInv => LoopFindsNextTask
  BY DEF LoopInv
<1> QED BY <1>1, <1>2, <1>3, PTL DEF Spec
==============================================================================
