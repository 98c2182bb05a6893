SPECIFICATION FairSpec
CONSTANTS
    c1 = c1
    c2 = c2
    c3 = c3
    n1 = n1
    n2 = n2
    None = None
    Conns <- TwoConns
    Names <- OneName
    MaxRooms = 1
PROPERTIES
    HangupReachesPeer
    IdleWaiterReleased
    SweepEnds
    HangupEndsRoom
CHECK_DEADLOCK FALSE
