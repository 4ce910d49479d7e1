SPECIFICATION TrialFairSpec
CONSTANTS
    p1 = p1
    p2 = p2
    c1 = c1
    c2 = c2
    Producers <- TwoProducers
    Consumers <- TwoConsumers
    Capacity = 2
    MaxIds = 4
INVARIANTS
    TrialIsSound
PROPERTIES
    TrialEnds
