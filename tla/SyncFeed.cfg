SPECIFICATION Spec
CONSTANTS
    t1 = t1
    t2 = t2
    p1 = p1
    Tasks = {t1}
    Projects = {p1}
    Owners <- NoOwners
    Order <- ById
    Txns = {x1, x2}
    Clients = {c1}
    Overlap = 1
    Limit = 3
    Retention = 2
    MaxLag = 1
    MaxPoll = 1
    MaxClock = 5
    MaxVersion <- DeletedAndRestored
INVARIANT TypeOK
INVARIANT NothingMissed
PROPERTY DropsOnlyTheDead
SYMMETRY Alike
