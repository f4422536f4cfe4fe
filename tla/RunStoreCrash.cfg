SPECIFICATION FairSpec
CONSTANTS
    p1 = p1
    p2 = p2
    b1 = b1
    b2 = b2
    b3 = b3
    None = None
    Procs <- TwoProcs
    Blocks <- ThreeBlocks
    PoisonBlocks <- NoBlocks
    Interval = 2
    U64Max = 20
    MaxFaults = 3
    MaxPowerFailures = 0
    MaxRots = 0
INVARIANTS
    TempOwned
PROPERTIES
    ImplementsCommitLog
    RunReported
