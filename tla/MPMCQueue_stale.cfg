SPECIFICATION Spec
CONSTANTS
    t1 = t1
    t2 = t2
    t3 = t3
    a = a
    b = b
    Byte <- Bytes
    ZeroByte = a
    MaxPayloadSize = 2
    Threads <- TwoThreads
    Capacity = 2
    Payloads <- ShortLongAndOversized
    Destinations <- SmallAndLarge
    StaleReads = TRUE
    MaxPositions = 3
SYMMETRY Symmetry
INVARIANTS
    QueueInv
    ExclusiveOwnership
    UnreadRetained
    PopReturnsItsPush
PROPERTIES
    GenerationsGrow
    ImplementsExclusiveQueue
