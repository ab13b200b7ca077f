CONSTANTS
    a = a
    b = b
    Node <- MCNode
    Clients <- OneClient
    Servers <- OneServer
    IssOf <- ClientServerIss
    MaxData <- NoData
    RcvMaxDefault = 4
    MaxTout = 2
    Dup = FALSE
SPECIFICATION ConnFairSpec
CHECK_DEADLOCK FALSE
PROPERTIES
    HandshakeEnds
    ClosedIsReleased
