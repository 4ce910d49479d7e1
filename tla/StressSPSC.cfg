SPECIFICATION StressFairSpec
CONSTANTS
    a = a
    b = b
    z = z
    Byte <- Bytes
    ZeroByte = z
    MaxPayloadSize = 2
    Capacity = 3
    Payloads <- LongShortAndOversized
    Destinations <- SmallAndLarge
    MaxPushes = 6
    Iterations = 6
    PayloadOf <- Alternating
INVARIANTS
    SPSCInv
    NoDataRace
PROPERTIES
    ImplementsFifo
    StressPasses
