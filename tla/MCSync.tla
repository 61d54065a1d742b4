------------------------------- MODULE MCSync -------------------------------
\* Small instances of the delta-sync feed.
EXTENDS Sync, TLC

CONSTANTS t1, t2, p1

NoOwners == [i \in Tasks |-> {}]
SubtaskOfFirst == [i \in Tasks |-> IF i = t2 THEN {t1} ELSE {}]
ById == [i \in Items |-> IF i = t1 THEN 1 ELSE IF i = t2 THEN 2 ELSE 3]
\* A task is created, a project created, deleted and restored.
DeletedAndRestored == [i \in Items |-> IF i \in Projects THEN 3 ELSE 1]
Alike == Permutations(Txns)
=============================================================================
