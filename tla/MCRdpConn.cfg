CONSTANTS
    a = a
    b = b
    Node <- MCNode
    Clients <- OneClient
    Servers <- OneServer
    IssOf <- HalfOpenIss
    MaxData <- BothData
    RcvMaxDefault = 4
    MaxTout = 1
    Dup = TRUE
SPECIFICATION ConnSpec
CHECK_DEADLOCK FALSE
INVARIANTS
    OpenInv
PROPERTIES
    EndsOnce
    NoSpuriousReset
CONSTRAINT FewDatagrams
