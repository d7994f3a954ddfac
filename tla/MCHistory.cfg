SPECIFICATION Spec
CONSTANTS
    Vertices <- MCVertices
    Lists <- MCLists
    XpubList <- MCXpubList
    GapLimit = 2
    WindowSizes = {0, 1, 2}
    MaxPending = 2
    MaxSeq = 6
INVARIANT BeginComesFirst
CHECK_DEADLOCK FALSE
