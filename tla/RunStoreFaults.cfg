SPECIFICATION Spec
CONSTANTS
    p1 = p1
    p2 = p2
    b1 = b1
    b2 = b2
    b3 = b3
    None = None
    Procs <- OneProc
    Blocks <- TwoBlocks
    PoisonBlocks <- LastBlock
    Interval = 1
    U64Max = 4
    MaxFaults = 2
    MaxPowerFailures = 1
    MaxRots = 2
INVARIANTS
    TypeOK
    EvidenceBeforeManifest
    FreshNames
    CommitsMonotone
    AckedSurvives
PROPERTIES
    ValidNeverShrinks
    DurableTerminalStays
