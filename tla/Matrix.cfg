SPECIFICATION Spec
CONSTANTS
    matrix = matrix
    None = None
    Tools <- OneTool
    Dirs <- TwoCases
    Paths <- TwoCases
    PointSets <- PairsOfPoints
    Iterations = 2
    MaxBlocks = 5
    MinAutomatic = 4
    MaxErrors = 1
INVARIANTS
    InjectionReached
    EvidenceBeforeDeath
    RecoveryExact
    NoChildLeft
    PassMeansCovered
PROPERTIES
    MatrixReturns
CHECK_DEADLOCK FALSE
