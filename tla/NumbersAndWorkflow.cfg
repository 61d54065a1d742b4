SPECIFICATION BothSpec
CONSTANTS
    l1 = l1
    l2 = l2
    r1 = r1
    d1 = d1
    t1 = t1
    a1 = a1
    q1 = q1
    q2 = q2
    Lockers = {l1, l2}
    Relockers = {d1}
    Readers = {r1}
    MaxNumber = 3
    MaxBatch = 2
    Tasks = {t1}
    Statuses = {"todo", "in_progress", "in_review"}
    STATUS_TO_CATEGORY <- CategoryOfStatus
    CATEGORY_CANONICAL <- Canonical
    Rows = {"w1", "w2", "w3"}
    Category <- CategoryOfRow
    Seeded = {"w1", "w2"}
    SeedName <- FirstNames
    NoRow = NoRow
    Approvals = {a1}
    Requests = {q1, q2}
    MaxEdits = 2
INVARIANT Types
INVARIANT CounterCoversNumbers
INVARIANT NeverRefused
INVARIANT NumberedUnderLock
INVARIANT StatusWired
INVARIANT VerdictsHold
SYMMETRY Alike
