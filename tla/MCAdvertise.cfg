CONSTANTS
    n1 = n1
    n2 = n2
    a1 = a1
    a2 = a2
    a3 = a3
    b1 = b1
    Nodes <- MCNodes
    Inet <- MCInet
    Inet6 <- MCInet6
    Sessions <- MCSessions
    MapTtl = 1
    TimeoutTtl = 1
    Interval = 1
    Here = n1
    There = n2
    Home = a3
    MaxNonce = 1
    MaxMove = 1
    MaxDups = 1
SPECIFICATION AdvertiseFairSpec
INVARIANTS
    AgeIsHonest
PROPERTIES
    PeerFollows
