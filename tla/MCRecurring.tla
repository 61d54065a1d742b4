---------------------------- MODULE MCRecurring ----------------------------
\* Small instances of recurring work items.
EXTENDS Recurring

CONSTANTS r1, r2, p1, p2

OneEach == [r \in Rules |-> IF r = r1 THEN p1 ELSE p2]
Daily == [r \in Rules |-> IF r = r1 THEN 1 ELSE 2]
\* One rule is edited or deleted, once.
FirstEditedOnce == [r \in Rules |-> IF r = r1 THEN 1 ELSE 0]
=============================================================================
