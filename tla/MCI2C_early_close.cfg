\* Without faults: only the timing goes wrong.
CONSTANTS
    Lengths = {1, 3}
    Faults = {}
SPECIFICATION Spec
CHECK_DEADLOCK FALSE
INVARIANT EveryByteSentWhenReported
