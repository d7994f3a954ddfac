SPECIFICATION Spec
CONSTANTS
    BatchSize = 2
    MaxVertices = 3
    MaxBoots = 4
INVARIANT EveryVertexHasItsEvent
CHECK_DEADLOCK FALSE
