SPECIFICATION FairSpec
CONSTANTS
    b1 = b1
    b2 = b2
    b3 = b3
    b4 = b4
    None = None
    Pending <- FourPending
    WorkerCount = 3
    AssignmentCapacity = 1
    CompletionCapacity = 2
    CanThrow = TRUE
INVARIANTS
    CleanReturn
    ExactlyOnce
PROPERTIES
    Terminates
CHECK_DEADLOCK FALSE
