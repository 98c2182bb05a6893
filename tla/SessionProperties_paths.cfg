SPECIFICATION FairSpec
INVARIANTS
    TypeOK
    SplitByOwnFallback
    PayloadFindsKey
PROPERTIES
    ImplementsChoice
    RelayPayloadDelivered
    DirectWithoutTrouble
    SessionEnds
CHECK_DEADLOCK FALSE
