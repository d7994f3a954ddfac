SPECIFICATION Spec
CONSTANTS
    Signers = {1, 2}
    StartHeight <- MCStartHeight
    EndHeight <- MCEndHeight
    MaxHeight = 2
    MaxOutages = 2
    MaxStops = 0
INVARIANT NetworkNeverStalls
CHECK_DEADLOCK FALSE
