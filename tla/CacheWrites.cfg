SPECIFICATION Spec
CONSTANTS
    s1 = s1
    s2 = s2
    Slots = {s1, s2}
    Shapes <- MCShapes
    Retries = 1
    MaxFailures = 1
    MaxMoves = 3
INVARIANT NoGhosts
INVARIANT PromisesKept
INVARIANT OwnWritesShown
INVARIANT NeverStranded
SYMMETRY Alike
CHECK_DEADLOCK FALSE
