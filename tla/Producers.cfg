SPECIFICATION FairSpec
CONSTANTS
    Ids = {i1, i2}
    Home <- SameHome
    MaxLive = 2
    Tokens = {o1, o2}
    MaxTokens = 1
    InitialSize = 4
    MaxTables = 2
    MaxProducers = 2
    Factors = {2, 4, 8}
    Empty = Empty
    Reusable = Reusable
    Nobody = Nobody
INVARIANTS
    ProducersInv
    OneOwner
    FoundAgain
PROPERTY CallReturns
CHECK_DEADLOCK FALSE
