CONSTANTS
    Procs = {1, 2}
    Starts = 3
SPECIFICATION Spec
CHECK_DEADLOCK FALSE
INVARIANT FindsInstalled
