\* All 5 * 2^5 inputs.  The function returns: the run ends.
CONSTANT MAX_TASKS = 5
SPECIFICATION Spec
INVARIANTS LoopFindsNextTask
CHECK_DEADLOCK FALSE
