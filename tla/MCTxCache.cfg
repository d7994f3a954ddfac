SPECIFICATION Spec
CONSTANTS
    Txs = {1, 2}
    Capacities = {1}
    MaxVersion = 2
INVARIANT NoUpdateIsLost
CHECK_DEADLOCK FALSE
