SPECIFICATION MCSpec
CONSTANTS
    MaxBlocks = 2
    MaxTxs = 3
    MaxVertices = 4
    BlockWorks = {1}
    TxWorks = {1, 4}
    GenesisOutputs = 1
    f1 = f1
    f2 = f2
    Features = {f1, f2}
    Interval = 2
    MaxSignalBits = 2
    Configurations <- SmallConfigurations
    MaxEpoch = 7
INVARIANTS
    NoDoubleSpend
    VoidednessPropagates
    ExecutedBlocksAreAChain
    FirstBlockIsFirst
    LoserIsOutweighed
    ChainCanGrow
    TimeoutDecides
    ForcedFeatureIsActive
    VotesAreUnambiguous
PROPERTIES
    LockInIsEarned
    EveryFeatureSettles
CHECK_DEADLOCK FALSE
