SPECIFICATION ResultsSpec
CONSTANTS
    b1 = b1
    b2 = b2
    x = x
    y = y
    None = None
    Blocks <- TwoBlocks
    Payloads <- TwoPayloads
    Answer = x
    MaxIncarnations = 3
    MaxDamaged = 2
SYMMETRY BlockSymmetry
INVARIANTS
    FailsOnlyForCause
    OneAnswer
    ResultIsFixedTree
    SnapshotReproducible
PROPERTIES
    SnapshotStable
CHECK_DEADLOCK FALSE
