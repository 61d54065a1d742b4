--------------------------- MODULE MCTaskNumbers ---------------------------
\* Small instances of the per-project task counter and of the workflow of a project's tasks.
\* The two share no column, so they are walked through one after the other, and part says which.
EXTENDS TaskNumbers, TaskWorkflow, TLC

CONSTANTS l1, l2, r1, d1, t1, a1, q1, q2
VARIABLE part

\* Two of the statuses share a category and, until a row is added, the row of it.
CategoryOfStatus == [todo |-> "unstarted", in_progress |-> "started", in_review |-> "started"]
Canonical == [unstarted |-> "todo", started |-> "in_progress"]
CategoryOfRow == [w1 |-> "unstarted", w2 |-> "started", w3 |-> "started"]
FirstNames == [w1 |-> "todo", w2 |-> "in_progress"]

BothInit ==
    /\ Init /\ FlowInit /\ part \in {"numbers", "workflow"}
    /\ part = "numbers" => \A t \in Tasks : task[t] = [status |-> Idle.status, flow |-> NoRow]

BothNext ==
    /\ part' = part
    /\ \/ part = "numbers" /\ Next /\ UNCHANGED flowVars
       \/ part = "workflow" /\ FlowNext /\ UNCHANGED vars

BothSpec == BothInit /\ [][BothNext]_<<vars, flowVars, part>>

Types == TypeOK /\ FlowTypeOK

Alike == Permutations(Lockers) \cup Permutations(Requests)
=============================================================================
