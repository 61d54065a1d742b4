SPECIFICATION FairSpec
CONSTANTS
    r1 = r1
    r2 = r2
    p1 = p1
    p2 = p2
    Rules = {r1, r2}
    Projects = {p1, p2}
    ProjectOf <- OneEach
    Interval <- Daily
    Jobs = {"j1", "j2"}
    Runs = {"q1"}
    MaxClock = 2
    MaxOthers = 1
    MaxEdits <- FirstEditedOnce
    MaxFailures = 1
INVARIANT TypeOK
INVARIANT OncePerOccurrence
PROPERTY DueIsServed
CHECK_DEADLOCK FALSE
