SPECIFICATION FairSpec
CONSTANTS
    MaxCalls = 11
INVARIANTS
    TypeOK
    OwnKeyUnlessOverlapped
PROPERTIES
    ImplementsCalls
    CallsEnd
    ExchangeKept
CHECK_DEADLOCK FALSE
