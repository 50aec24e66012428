\* Two tasks and idle_task, on stacks of the least size that holds the dummy
\* frames, a frame of task_delay and a whole context.
CONSTANTS
    MAX_TASKS = 3
    TickMod = 3
    Delays = {1, 2}
    Callers = {0, 1, 2}
    StackSize = 5
SPECIFICATION FairSpec
INVARIANTS TypeOK RunsItsOwnTask ReturnsFromHandler
PROPERTIES StackWrittenByItsTask ImplementsScheduler
    ReadyEventuallyDispatched ImplementsFairDelay
