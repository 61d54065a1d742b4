----------------------------- MODULE TaskWorkflow -----------------------------
(***************************************************************************)
(* The status of a task (tasks/service.py), the rows of the workflow it    *)
(* is wired to (workflow/service.py), and the approvals that move it       *)
(* (approvals/service.py).                                                 *)
(*                                                                         *)
(* A task has a fixed TaskStatus and the id of a workflow status of the    *)
(* same category; the two columns are written by one UPDATE, which names   *)
(* only those that differ from what the session has loaded.  A request     *)
(* reads without locks (autoflush is off), and writes at its end.          *)
(*                                                                         *)
(* Abstractions: one project that is not archived, in the scope of the     *)
(* organisation; tasks exist from the start.  What a transition may be     *)
(* refused for (rules, roles, conditions, a backward move) is Refused, and *)
(* where rows stand in their category is left open.                        *)
(***************************************************************************)
EXTENDS Naturals

CONSTANTS
    Tasks,
    Statuses,            \* TaskStatus
    STATUS_TO_CATEGORY,  \* of each TaskStatus
    CATEGORY_CANONICAL,  \* a TaskStatus of each category
    Rows,                \* workflow statuses, of now and of later
    Category,            \* of each row; it never changes
    Seeded,              \* the rows an organisation starts with
    SeedName,            \* and the TaskStatus each has the default name of
    NoRow,               \* workflow_status_id is NULL
    Approvals,
    Requests,
    MaxEdits             \* bound: changes of the workflow

Categories == {STATUS_TO_CATEGORY[s] : s \in Statuses}

ASSUME WorkflowAssumption ==
    /\ \A c \in Categories : CATEGORY_CANONICAL[c] \in Statuses /\ STATUS_TO_CATEGORY[CATEGORY_CANONICAL[c]] = c
    /\ \A w \in Rows : Category[w] \in Categories
    /\ Seeded \subseteq Rows /\ SeedName \in [Seeded -> Statuses]
    /\ \A w \in Seeded : Category[w] = STATUS_TO_CATEGORY[SeedName[w]]
    /\ NoRow \notin Rows
    /\ Tasks # {} /\ Statuses # {}
    /\ MaxEdits \in Nat

VARIABLES
    task,      \* the committed columns of each task
    row,       \* the committed rows of the workflow
    approval,  \* the committed approvals
    job,       \* what each request has read and is about to write
    astray,    \* history: tasks whose status was last written without a look at the row
    moved,     \* history: approvals that have moved their task
    disputed,  \* history: approvals that two deciders had in hand at once
    edits      \* changes of the workflow so far

flowVars == <<task, row, approval, job, astray, moved, disputed, edits>>

TaskRow == [status : Statuses, flow : Rows \cup {NoRow}]
WorkflowRow == [state : {"new", "live", "deleted"}, name : Statuses \cup {"custom"}]
ApprovalRow == [state : {"none", "pending", "approved", "rejected"}, task : Tasks, target : Statuses]

Job ==
    [at : {"idle", "asking", "deciding", "loaded", "checked", "counted", "transferred"},
     task : Tasks, status : Statuses,    \* the task, and the status it is to have
     seen : Rows \cup {NoRow},           \* the row the task was read with
     flow : Rows \cup {NoRow},           \* the row that status stands for, or that goes
     into : Rows \cup {NoRow},           \* where its items are to go
     items : SUBSET Tasks,               \* those that have gone there
     by : SUBSET Approvals,              \* the approval that is decided
     overtaken : BOOLEAN]                \* the task's row was changed after it was read

LiveRows == {w \in Rows : row[w].state = "live"}

\* Every task whose row another request has locked by an UPDATE.
Locked(r) == UNION {job[q].items : q \in Requests \ {r}}

Idle ==
    LET t == CHOOSE t \in Tasks : TRUE
        s == CHOOSE s \in Statuses : TRUE
    IN [at |-> "idle", task |-> t, status |-> s, seen |-> NoRow,
        flow |-> NoRow, into |-> NoRow, items |-> {}, by |-> {}, overtaken |-> FALSE]

\* The requests that have read a task of ts which a commit gives another row.
Overtaken(q, ts) ==
    [job[q] EXCEPT !.overtaken = @ \/ (job[q].at \in {"loaded", "checked"} /\ job[q].task \in ts)]

\* resolve_workflow_status_id: the row with the default name, or one of the category.
Resolved(status) ==
    LET candidates == {w \in LiveRows : Category[w] = STATUS_TO_CATEGORY[status]}
        named == {w \in candidates : row[w].name = status}
    IN IF named # {} THEN named ELSE IF candidates # {} THEN candidates ELSE {NoRow}

(***************************************************************************)
(* transition_status, alone or called by approve.                          *)
(***************************************************************************)
Load(r, t, status, by) ==
    job' = [job EXCEPT ![r] = [@ EXCEPT !.at = "loaded", !.task = t, !.status = status,
                                         !.seen = task[t].flow, !.by = by, !.overtaken = FALSE]]

Move(r) ==
    /\ job[r].at = "idle"
    /\ \E t \in Tasks, status \in Statuses : status # task[t].status /\ Load(r, t, status, {})
    /\ UNCHANGED <<task, row, approval, astray, moved, disputed, edits>>

Check(r) ==
    /\ job[r].at = "loaded"
    /\ \E w \in Resolved(job[r].status) : job' = [job EXCEPT ![r] = [@ EXCEPT !.at = "checked", !.flow = w]]
    /\ UNCHANGED <<task, row, approval, astray, moved, disputed, edits>>

\* What the UPDATE of a request makes of the task as it is by then.
Written(r) ==
    [status |-> job[r].status,
     flow |-> IF job[r].flow = job[r].seen THEN task[job[r].task].flow ELSE job[r].flow]

\* The flush and the commit: task and approval together.  A row that was deleted meanwhile
\* violates the foreign key.
Save(r) ==
    LET t == job[r].task IN
    /\ job[r].at = "checked" /\ t \notin Locked(r)
    /\ job[r].flow \in LiveRows \cup {NoRow, job[r].seen}
    /\ task' = [task EXCEPT ![t] = Written(r)]
    /\ approval' = [a \in Approvals |->
                      IF a \in job[r].by THEN [approval[a] EXCEPT !.state = "approved"] ELSE approval[a]]
    /\ moved' = moved \cup job[r].by
    /\ astray' = IF job[r].overtaken /\ job[r].flow = job[r].seen THEN astray \cup {t} ELSE astray \ {t}
    /\ job' = [q \in Requests |->
                 IF q = r THEN Idle ELSE Overtaken(q, IF Written(r).flow # task[t].flow THEN {t} ELSE {})]
    /\ UNCHANGED <<row, disputed, edits>>

\* A check says no, the foreign key does, or the client or the process goes away: rollback.
Refused(r) ==
    /\ job[r].at # "idle"
    /\ job' = [job EXCEPT ![r] = Idle]
    /\ UNCHANGED <<task, row, approval, astray, moved, disputed, edits>>

\* _link_and_close of a merged pull request, and the upsert of an external task: they write the
\* status and not the row.
WriteStatusAlone(t) ==
    /\ t \notin UNION {job[q].items : q \in Requests}
    /\ \E status \in Statuses \ {task[t].status} : task' = [task EXCEPT ![t].status = status]
    /\ astray' = astray \cup {t}
    /\ UNCHANGED <<row, approval, job, moved, disputed, edits>>

(***************************************************************************)
(* Approvals.                                                              *)
(***************************************************************************)
Pending(a) == approval[a].state = "pending"

\* request_approval reads the task and its open requests,
Ask(r) ==
    /\ job[r].at = "idle"
    /\ \E t \in Tasks, status \in Statuses :
        /\ status # task[t].status
        /\ \A a \in Approvals : Pending(a) => approval[a].task # t
        /\ job' = [job EXCEPT ![r] = [@ EXCEPT !.at = "asking", !.task = t, !.status = status]]
    /\ UNCHANGED <<task, row, approval, astray, moved, disputed, edits>>

\* and opens one.
Open(r) ==
    /\ job[r].at = "asking"
    /\ \E a \in Approvals :
        /\ approval[a].state = "none"
        /\ approval' = [approval EXCEPT ![a] = [state |-> "pending", task |-> job[r].task, target |-> job[r].status]]
    /\ job' = [job EXCEPT ![r] = Idle]
    /\ UNCHANGED <<task, row, astray, moved, disputed, edits>>

\* Mutant: a decided approval can be decided again.
MayDecide_Decided(a) == approval[a].state # "none"

\* _get_pending
MayDecide(a) == Pending(a)

\* approve or reject reads the approval.
Decide(r) ==
    /\ job[r].at = "idle"
    /\ \E a \in Approvals :
        /\ MayDecide(a)
        /\ job' = [job EXCEPT ![r] = [@ EXCEPT !.at = "deciding", !.by = {a}]]
        /\ disputed' = IF \E q \in Requests : a \in job[q].by THEN disputed \cup {a} ELSE disputed
    /\ UNCHANGED <<task, row, approval, astray, moved, edits>>

\* approve: "Task is already in this status" is an error.
Approve(r) ==
    /\ job[r].at = "deciding"
    /\ \E a \in job[r].by :
        /\ task[approval[a].task].status # approval[a].target
        /\ Load(r, approval[a].task, approval[a].target, {a})
    /\ UNCHANGED <<task, row, approval, astray, moved, disputed, edits>>

Reject(r) ==
    /\ job[r].at = "deciding"
    /\ approval' = [a \in Approvals |->
                      IF a \in job[r].by THEN [approval[a] EXCEPT !.state = "rejected"] ELSE approval[a]]
    /\ job' = [job EXCEPT ![r] = Idle]
    /\ UNCHANGED <<task, row, astray, moved, disputed, edits>>

(***************************************************************************)
(* The workflow.                                                           *)
(***************************************************************************)
Edit == edits < MaxEdits /\ edits' = edits + 1

\* create_status
CreateStatus(w) ==
    /\ Edit /\ row[w].state = "new"
    /\ row' = [row EXCEPT ![w].state = "live"]
    /\ UNCHANGED <<task, approval, job, astray, moved, disputed>>

\* update_status
RenameStatus(w) ==
    /\ Edit /\ w \in LiveRows
    /\ \E name \in Statuses \cup {"custom"} : row' = [row EXCEPT ![w].name = name]
    /\ UNCHANGED <<task, approval, job, astray, moved, disputed>>

ItemsOf(w) == {t \in Tasks : task[t].flow = w}

\* delete_status counts the items; if there are any, they need a row to go to.
CountItems(r) ==
    /\ job[r].at = "idle" /\ Edit
    /\ \E w \in LiveRows, x \in LiveRows \cup {NoRow} :
        /\ IF ItemsOf(w) = {} THEN x = NoRow ELSE x \notin {w, NoRow}
        /\ job' = [job EXCEPT ![r] = [@ EXCEPT !.at = "counted", !.flow = w, !.into = x]]
    /\ UNCHANGED <<task, row, approval, astray, moved, disputed>>

\* The UPDATE of the items there are now locks their rows.
TransferItems(r) ==
    LET items == ItemsOf(job[r].flow) IN
    /\ job[r].at = "counted"
    /\ IF job[r].into = NoRow THEN job' = [job EXCEPT ![r] = [@ EXCEPT !.at = "transferred"]]
       ELSE /\ items \cap Locked(r) = {} /\ (items # {} => job[r].into \in LiveRows)
            /\ job' = [job EXCEPT ![r] = [@ EXCEPT !.at = "transferred", !.items = items]]
    /\ UNCHANGED <<task, row, approval, astray, moved, disputed, edits>>

\* Mutant: the status the items had is kept.
Transferred_KeepsStatus(r, t) == [task[t] EXCEPT !.flow = job[r].into]
Transferred(r, t) == [status |-> CATEGORY_CANONICAL[Category[job[r].into]], flow |-> job[r].into]

\* The DELETE and the commit.  It waits for those who have just put their items there; the
\* foreign key of an item that was moved there since the UPDATE is set to NULL.
DeleteStatus(r) ==
    LET w == job[r].flow IN
    /\ job[r].at = "transferred"
    /\ \A q \in Requests \ {r} : job[q].items # {} => job[q].into # w
    /\ (ItemsOf(w) \ job[r].items) \cap Locked(r) = {}
    /\ row' = [row EXCEPT ![w].state = "deleted"]
    /\ task' = [t \in Tasks |-> CASE t \in job[r].items -> Transferred(r, t)
                                  [] t \in ItemsOf(w) \ job[r].items -> [task[t] EXCEPT !.flow = NoRow]
                                  [] OTHER -> task[t]]
    /\ astray' = astray \ job[r].items
    /\ job' = [q \in Requests |-> IF q = r THEN Idle ELSE Overtaken(q, job[r].items \cup ItemsOf(w))]
    /\ UNCHANGED <<approval, moved, disputed, edits>>

-----------------------------------------------------------------------------
\* Some tasks come from an intake that sets no row.
FlowInit ==
    /\ row = [w \in Rows |-> [state |-> IF w \in Seeded THEN "live" ELSE "new",
                              name |-> IF w \in Seeded THEN SeedName[w] ELSE "custom"]]
    /\ task \in [Tasks -> {c \in TaskRow : c.flow = NoRow \/ c.flow \in Resolved(c.status)}]
    /\ approval = [a \in Approvals |-> [state |-> "none", task |-> Idle.task, target |-> Idle.status]]
    /\ job = [r \in Requests |-> Idle]
    /\ astray = {} /\ moved = {} /\ disputed = {} /\ edits = 0

FlowNext ==
    \/ \E r \in Requests :
        \/ Move(r) \/ Check(r) \/ Save(r) \/ Refused(r)
        \/ Ask(r) \/ Open(r) \/ Decide(r) \/ Approve(r) \/ Reject(r)
        \/ CountItems(r) \/ TransferItems(r) \/ DeleteStatus(r)
    \/ \E t \in Tasks : WriteStatusAlone(t)
    \/ \E w \in Rows : CreateStatus(w) \/ RenameStatus(w)

FlowSpec == FlowInit /\ [][FlowNext]_flowVars

(***************************************************************************)
(* Properties.                                                             *)
(***************************************************************************)

\* Every variable has its type.
FlowTypeOK ==
    /\ task \in [Tasks -> TaskRow]
    /\ row \in [Rows -> WorkflowRow]
    /\ approval \in [Approvals -> ApprovalRow]
    /\ job \in [Requests -> Job]
    /\ astray \subseteq Tasks /\ moved \subseteq Approvals /\ disputed \subseteq Approvals
    /\ edits \in 0..MaxEdits

\* A task stands in a row of the workflow that its status belongs to, whatever transitions,
\* approvals and deletions of rows overlap: "categories stay stable for analytics and AI" only if
\* the two agree.  Not so after a write of the status alone, or after a transition between
\* two statuses of one row while somebody else gave the task another row; the next transition
\* puts it right.
StatusWired ==
    \A t \in Tasks \ astray :
        task[t].flow = NoRow \/ Category[task[t].flow] = STATUS_TO_CATEGORY[task[t].status]

\* "Approve a request and apply the status change", "Reject a request; the task stays where it
\* is": an approved request has moved its task, and a rejected one has not, unless two deciders
\* had it in hand at once.  A transition that is refused takes the approval back with it.
VerdictsHold ==
    \A a \in Approvals :
        /\ approval[a].state = "approved" => a \in moved
        /\ approval[a].state = "rejected" /\ a \notin disputed => a \notin moved
=============================================================================
