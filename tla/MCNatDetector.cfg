CONSTANTS
    p = p
    q = q
    Peers <- MCPeers
    PortOf <- MCPortOf
    ConePort = 1
    MaxNonce = 5
    Dup = FALSE
    Stray <- AnyStray
SPECIFICATION FairSpec
INVARIANTS
    Sound
PROPERTIES
    FinalStays
    WaitEnds
