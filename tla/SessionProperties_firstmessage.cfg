SPECIFICATION Spec
INVARIANTS
    FirstMessageAwaited
CHECK_DEADLOCK FALSE
