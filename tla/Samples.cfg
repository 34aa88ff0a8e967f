SPECIFICATION Spec
CONSTANTS
    Registers <- SomeRegisters
    Negatives <- SomeNegatives
    Ranges = {"10", "0.1", "5"}
    MaxMappings = 2
    Mappings <- SharedChannel
    ScansPerRead = 2
    Target = 1
    Latency = 2
    Pause = 3
    IntBits = 16
    MaxClock = 14
    MaxPeriod = 2
INVARIANTS
    SamplesInv
    StampsIncrease
    StampsAccurate
    RefusedIffInvalid
    EveryMappingApplied
CHECK_DEADLOCK FALSE
