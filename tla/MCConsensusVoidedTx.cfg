SPECIFICATION Spec
CONSTANTS
    MaxBlocks = 2
    MaxTxs = 2
    MaxVertices = 4
    BlockWorks = {1}
    TxWorks = {1, 4}
    GenesisOutputs = 1
INVARIANT ExecutedBlocksConfirmExecutedTxs
CHECK_DEADLOCK FALSE
