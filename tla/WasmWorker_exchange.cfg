SPECIFICATION Spec
CONSTANTS
    MaxCalls = 11
INVARIANTS
    OneExchangeAtATime
CHECK_DEADLOCK FALSE
