SPECIFICATION FairSpec
CONSTANTS
    p1 = p1
    p2 = p2
    c1 = c1
    c2 = c2
    Producers <- TwoProducers
    Consumers <- TwoConsumers
    Capacity = 2
    Iterations = 2
INVARIANTS
    StressPasses
    DrainedAtExit
PROPERTIES
    StressTerminates
