CONSTANTS
    v1 = v1
    v2 = v2
    cut = cut
    Bits = 3
    m_id <- Me
    Peers <- MCPeers
    MyTables <- FarOrNone
    PeerTable <- ChainTable
    Dst <- Target
    Stored <- OfKey
    HasId <- OfId
    Kinds <- AllKinds
    NumFindNode = 3
    MaxQuery = 2
    Nonces <- OneNonce
    MaxDups = 1
    Long <- LongValues
    Cut = cut
SPECIFICATION ProxyFairSpec
CHECK_DEADLOCK FALSE
INVARIANTS
    QueryInv
    GetExact
    GetInv
PROPERTIES
    QueryEnds
    GetEnds
