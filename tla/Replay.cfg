SPECIFICATION Spec
CONSTANTS
    origin = origin
    home = home
    target = target
    None = None
    t1 = t1
    t2 = t2
    Replays <- TwoReplays
    Tools <- AllTools
    Dirs <- Places
    Paths <- Places
    Configs <- AllSchedules
    Contested <- SomeSchedules
    MaxBlocks = 3
    MinAutomatic = 3
    MaxErrors = 1
SYMMETRY ReplaySymmetry
INVARIANTS
    AloneReproduces
    VerdictSound
PROPERTIES
    EvidenceImmutable
CHECK_DEADLOCK FALSE
