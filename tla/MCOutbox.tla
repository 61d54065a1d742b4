------------------------------ MODULE MCOutbox ------------------------------
\* Small instances of the outbox: two events, up to three endpoints.
EXTENDS Outbox

CONSTANTS o1, o2, ep1, ep2, ep3

\* Both events in one organisation, or one in each.
OneOrg == [e \in Events |-> o1]
TwoOrgs == [e \in Events |-> IF e = 1 THEN o1 ELSE o2]

\* ep1 subscribes to everything, ep2 to the second event only.
Overlapping == [ep \in Endpoints |-> IF ep = ep1 THEN Events ELSE Events \cap {2}]

\* ep1 and ep2 subscribe to the first event, ep3 to the second.
Shared == [ep \in Endpoints |-> IF ep = ep3 THEN Events \cap {2} ELSE Events \cap {1}]

\* Each organisation has its own endpoint.
Separate == [ep \in Endpoints |-> IF ep = ep1 THEN Events \cap {1} ELSE Events \cap {2}]
=============================================================================
