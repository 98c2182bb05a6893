SPECIFICATION Spec
CONSTANTS
    c1 = c1
    c2 = c2
    c3 = c3
    n1 = n1
    n2 = n2
    None = None
    Conns <- ThreeConns
    Names <- OneName
    MaxRooms = 1
INVARIANTS
    WaiterReachable
CHECK_DEADLOCK FALSE
