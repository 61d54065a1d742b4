SPECIFICATION Spec
CONSTANTS
    o1 = o1
    o2 = o2
    ep1 = ep1
    ep2 = ep2
    ep3 = ep3
    Endpoints = {ep1, ep2, ep3}
    Events = {1, 2}
    Orgs = {o1, o2}
    OrgOf <- TwoOrgs
    Matching <- Shared
    Raising = {ep3}
    Initially = {ep1, ep3}
    Pollers = {p1}
    Requests = {q1}
    Admins = {a1}
    MaxAttempts = 2
    BatchLimit = 2
    MaxRequeues = 1
    MaxCrashes = 1
INVARIANT TypeOK
INVARIANT ClaimedRowsArePending
INVARIANT DeliveredToSubscribers
PROPERTY ImplementsPromise
CHECK_DEADLOCK FALSE
