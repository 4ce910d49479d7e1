SPECIFICATION FairSpec
CONSTANTS
    h1 = h1
    h2 = h2
    a = a
    b = b
    z = z
    Byte <- Bytes
    ZeroByte = z
    MaxPayloadSize = 2
    Capacity = 2
    Handles <- TwoHandles
    Payloads <- LongShortAndOversized
    Destinations <- SmallAndLarge
    MaxPublications = 4
    MaxRegistrations = 2
INVARIANTS
    SPMCInv
    NoSilentLoss
PROPERTIES
    ImplementsContract
    ConsumerCatchesUp
