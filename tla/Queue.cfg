SPECIFICATION FairSpec
CONSTANTS
    p1 = p1
    p2 = p2
    p3 = p3
    c1 = c1
    c2 = c2
    Producers <- ThreeProducers
    Consumers <- TwoConsumers
    QueueCapacity = 2
    PerProducer = 2
INVARIANTS
    FirstInFirstOut
    WakeupsSuffice
PROPERTIES
    CloseReleasesAll
CHECK_DEADLOCK FALSE
