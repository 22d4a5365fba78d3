SPECIFICATION Spec
CONSTANTS
    N = 5
INVARIANT Minimal
CHECK_DEADLOCK FALSE
