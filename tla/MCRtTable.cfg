CONSTANTS
    Bits = 3
    m_id <- MyId
    MaxEntry = 2
    MaxNum = 4
    Domain = "inet"
SPECIFICATION RtSpec
CHECK_DEADLOCK FALSE
INVARIANTS
    TableInv
    LookupExact
