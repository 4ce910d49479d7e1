SPECIFICATION StressFairSpec
CONSTANTS
    t1 = t1
    t2 = t2
    t3 = t3
    a = a
    b = b
    Threads <- ThreeThreads
    Capacities = {1, 2}
    Items <- TwoItems
    MaxAccepted = 4
    Main = t1
    Async = t2
    Seven = a
    Eight = b
INVARIANTS
    ConsumersAreWoken
    ProducersAreWoken
PROPERTIES
    ImplementsClosableFifo
    ItemsReachConsumers
    CloseReleasesAll
    CloseSmokePasses
