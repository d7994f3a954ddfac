SPECIFICATION MCSpec
CONSTANTS
    BatchSize = 2
    MaxVertices = 3
    MaxBoots = 4
    Conns = {c1}
    MaxEvents = 3
    MaxWindow = 2
    MaxStarts = 2
INVARIANTS
    NoLostWakeup
    WindowRespected
    StreamHasNoGap
    GroupsBracketed
    GroupIdsNeverReused
    NoAssertionFails
    ResumableIsConsistent
    NoGapExceptLost
PROPERTIES
    DeliveryProgress
    ImplementsEventLog
CHECK_DEADLOCK FALSE
