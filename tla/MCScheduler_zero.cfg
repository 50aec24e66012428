\* A task that asks for a delay of no ticks.
CONSTANTS
    MAX_TASKS = 3
    TickMod = 4
    Delays = {0, 2}
    Callers = {1, 2}
SPECIFICATION Spec
INVARIANT NeverOversleeps
