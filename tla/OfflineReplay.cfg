SPECIFICATION DeviceSpec
CONSTANTS
    m1 = m1
    m2 = m2
    m3 = m3
    f1 = f1
    f2 = f2
    Mutations = {m1, m2, m3}
    Flushes = {f1, f2}
    Outcomes = {"applied", "rejected", "broken"}
    MaxFailures = 2
    MaxLate = 1
    MaxEvents = 1
    u1 = u1
    u2 = u2
    Users = {u1, u2}
    Nobody = Nobody
    MaxWrites = 1
INVARIANT TypeOK
INVARIANT NothingLost
INVARIANT ReplayedInOrder
INVARIANT SessionIsWhole
PROPERTY ReconnectDrains
CHECK_DEADLOCK FALSE
