CONSTANTS
    a1 = a1
    a2 = a2
    Addrs <- MCAddrs
    Ttl = 1
    MaxSession = 2
    MaxMove = 1
    Dup = FALSE
    MaxLooking = 2
    MaxLoss = 1
    MaxOld = 1
SPECIFICATION ProxyFairSpec
INVARIANTS
    ClientInv
PROPERTIES
    OwnerKept
    ServerFollows
    ProxyFollows
