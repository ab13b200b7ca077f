CONSTANTS
    d1 = d1
    a1 = a1
    a2 = a2
    Nodes <- OneNode
    Addrs <- TwoAddrs
    NoAddr = NoAddr
    Retry = 2
    MaxMsg = 3
    MaxReq = 2
    Dup = TRUE
SPECIFICATION FairSpec
CHECK_DEADLOCK FALSE
INVARIANTS
    AwaitInv
    InOrder
PROPERTIES
    QueueEmptied
