SPECIFICATION Spec
CONSTANTS
    N = 5
    Configs <- LimitConfigs
    MetadataBytes = 400
    ReasonBytes = 147
    Capacity = 20000
    U64Max = 16000
    MinAutoInterval = 3
    MaxAutoManifests = 4
    MaxStops = 2
    ForeignBytes <- ForeignAmounts
INVARIANTS
    NeverRefusedMidway
    WithinLimits
    RestartsAdmitted
