CONSTANTS
    Payload <- MCPayload
    Input <- MCInput
    NoData = NoData
    MaxMsgs = 5
    RcvMax = 3
    MaxEack = 1
    MaxRetrans = 1
    SeqMod = 32
    Iss = 29
SPECIFICATION FairSpec
INVARIANTS
    NothingAckedIsLost
    RingsExact
PROPERTIES
    NoRegress
    ImplementsChannel
