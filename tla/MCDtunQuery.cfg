CONSTANTS
    Bits = 3
    m_id <- Me
    Peers <- MCPeers
    MyTables <- FarOrNone
    PeerTable <- ChainTable
    Dst <- Target
    Holders <- Nearest
    Kinds <- AllKinds
    NumFindNode = 4
    MaxQuery = 2
    Nonces <- OneNonce
    Global = TRUE
    Dup = TRUE
SPECIFICATION DtunFairSpec
CHECK_DEADLOCK FALSE
INVARIANTS
    DtunQueryInv
    ResultExact
PROPERTIES
    DtunQueryEnds
