CONSTANTS
    n1 = n1
    n2 = n2
    n3 = n3
    c = c
    v1 = v1
    v2 = v2
    Order <- ByDistance
    Values <- TwoValues
    Clients = {c}
    Puts <- SomePuts
    MaxTtl = 4
    NumFindNode = 2
    OriginalPutNum = 2
    Late <- Closest1
    MaxEvent = 4
SPECIFICATION FairSpec
CHECK_DEADLOCK FALSE
INVARIANTS
    StoreInv
    Replicated
    RemovalSafe
PROPERTIES
    SrcKept
    Forgotten
