SPECIFICATION FairSpec
CONSTANTS
    t1 = t1
    t2 = t2
    t3 = t3
    a = a
    b = b
    Byte <- Bytes
    ZeroByte = a
    MaxPayloadSize = 2
    Threads <- ThreeThreads
    Capacity = 2
    Payloads <- OneByte
    Destinations <- SmallOnly
    StaleReads = FALSE
    MaxPositions = 3
INVARIANTS
    AtMostOnePop
PROPERTIES
    EmptyIsHonest
    FullIsHonest
    CallsOfOneThreadReturn
