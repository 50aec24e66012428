\* Three tasks and idle_task, which calls task_delay too; a tick counter of
\* three values, so that it wraps while tasks sleep; the shortest delay and the
\* longest the counter allows, so that tasks block and wake up in every order
\* relative to the round robin.
CONSTANTS
    MAX_TASKS = 4
    TickMod = 3
    Delays = {1, 2}
    Callers = {0, 1, 2, 3}
SPECIFICATION RRSpec
INVARIANTS TypeOK NoMissedWakeup BlockedNeverRuns CriticalSectionMasked BoundedBypass
PROPERTY ImplementsDelay
