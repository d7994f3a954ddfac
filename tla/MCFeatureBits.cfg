SPECIFICATION Spec
CONSTANTS
    f1 = f1
    f2 = f2
    Features = {f1, f2}
    Interval = 2
    MaxSignalBits = 1
    Configurations <- SmallConfigurations
    MaxEpoch = 7
INVARIANT SignalingFitsTheBits
CHECK_DEADLOCK FALSE
