SPECIFICATION FairSpec
CONSTANTS
    o1 = o1
    o2 = o2
    ep1 = ep1
    ep2 = ep2
    ep3 = ep3
    Endpoints = {ep1, ep2}
    Events = {1, 2}
    Orgs = {o1}
    OrgOf <- OneOrg
    Matching <- Overlapping
    Raising = {}
    Initially = {ep1, ep2}
    Pollers = {p1}
    Requests = {q1}
    Admins = {a1}
    MaxAttempts = 2
    BatchLimit = 1
    MaxRequeues = 0
    MaxCrashes = 1
PROPERTY HealthyOrgsAreServed
