SPECIFICATION FairSpec
CONSTANTS
    s1 = s1
    s2 = s2
    Slots = {s1}
    Shapes <- MCShapes
    Retries = 2
    MaxFailures = 4
    MaxMoves = 3
INVARIANT TypeOK
PROPERTY RefreshComes
CHECK_DEADLOCK FALSE
