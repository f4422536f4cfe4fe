SPECIFICATION RandomSpec
CONSTANTS
    Word = 64
    MaxScenarios = 16
    Word32 = 8
    Byte = 2
    Specs <- SmallSpecs
    Configs <- SmallConfigs
    Requests <- SmallRequests
INVARIANTS
    StreamsApart
    SamplesExact
    ExportCovers
    GeneratorSound
CHECK_DEADLOCK FALSE
