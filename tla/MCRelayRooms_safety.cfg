SPECIFICATION Spec
CONSTANTS
    c1 = c1
    c2 = c2
    c3 = c3
    n1 = n1
    n2 = n2
    None = None
    Conns <- ThreeConns
    Names <- TwoNames
    MaxRooms = 1
CONSTRAINT FewHangUps
SYMMETRY Symmetry
INVARIANTS
    TypeOK
    NoDataBeforePaired
    ReadyMeansPaired
    SingleReader
    DoneMeansClosed
    NobodyAbandoned
    RoomLimit
PROPERTIES
    ImplementsContract
CHECK_DEADLOCK FALSE
