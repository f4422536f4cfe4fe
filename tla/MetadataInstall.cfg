SPECIFICATION Spec
CONSTANTS
    p1 = p1
    p2 = p2
    b1 = b1
    b2 = b2
    b3 = b3
    None = None
    Procs <- OneProc
    Blocks <- TwoBlocks
    PoisonBlocks <- NoBlocks
    Interval = 1
    U64Max = 8
    MaxFaults = 1
    MaxPowerFailures = 0
    MaxRots = 0
INVARIANT MetadataFullyInstalled
