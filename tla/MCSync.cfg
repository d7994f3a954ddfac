SPECIFICATION MCSpec
CONSTANTS
    TxLimit = 2
    MaxStartFrom = 1
    Fanout = 2
    BlockLimit = 4
    MaxRepeated = 2
    MaxTips = 2
    MaxStack = 1
    MaxScore = 2
INVARIANTS
    StorageIsClosed HonestPeerIsKept OnlyLateRelaysClose SyncedMeansStored
PROPERTIES SyncEnds Converges
CHECK_DEADLOCK FALSE
