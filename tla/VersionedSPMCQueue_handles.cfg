SPECIFICATION FairSpec
CONSTANTS
    h1 = h1
    h2 = h2
    a = a
    c = c
    z = z
    Byte <- Bytes
    ZeroByte = z
    MaxPayloadSize = 1
    Capacity = 2
    ReadAttempts = 2
    Handles <- TwoHandles
    Payloads <- ShortOnly
    Destinations <- LargeOnly
    StaleReads = FALSE
    MaxPublications = 3
    MaxRegistrations = 2
INVARIANTS
    DeliveredInOrder
    NoSilentLoss
PROPERTIES
    ReadsReturn
    ConsumerCatchesUp
