SPECIFICATION Spec
CONSTANTS
    h1 = h1
    h2 = h2
    a = a
    c = c
    z = z
    Byte <- Bytes
    ZeroByte = z
    MaxPayloadSize = 2
    Capacity = 1
    ReadAttempts = 2
    Handles <- OneHandle
    Payloads <- LongAndShort
    Destinations <- LargeOnly
    StaleReads = FALSE
    MaxPublications = 3
    MaxRegistrations = 1
PROPERTIES
    OverwrittenResumesAtRetained
