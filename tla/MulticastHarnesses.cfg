SPECIFICATION CountFairSpec
CONSTANTS
    h1 = h1
    h2 = h2
    Handles <- TwoHandles
    Capacity = 1
    Payloads <- Numbers
    Iterations = 3
    MaxSequence = 3
INVARIANTS
    StressPasses
    TrackersAreExact
PROPERTIES
    HarnessEnds
