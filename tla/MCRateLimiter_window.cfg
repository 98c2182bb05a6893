SPECIFICATION Spec
CONSTANTS
    a1 = a1
    a2 = a2
    g1 = g1
    g2 = g2
    None = None
    Addrs <- TwoAddrs
    Callers <- TwoCallers
    Limit = 2
    Window = 1
    MaxLag = 1
    MaxTime = 4
SYMMETRY Symmetry
INVARIANTS
    TypeOK
    BurstBound
PROPERTIES
    RefusalsDeserved
    WindowsDisjoint
