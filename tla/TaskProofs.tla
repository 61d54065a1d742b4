---------------------------- MODULE TaskProofs -----------------------------
(***************************************************************************)
(* Proofs about the task counter and about the status of a task, for any   *)
(* number of transactions and with no use of the bounds.                   *)
(*                                                                         *)
(* The counter: NumberedUnderLock holds for every mix of callers; that the *)
(* counter covers every number, and that no allocation is refused, as long *)
(* as all of them have locked before they read.                            *)
(***************************************************************************)
EXTENDS MCTaskNumbers, TLAPS

LEMMA TypeInit == Init => TypeOK
<1> SUFFICES ASSUME Init PROVE TypeOK
  OBVIOUS
<1>1. counter \in Nat /\ object \in [Procs -> Nat]
  BY DEF Init
<1>2. reused \in BOOLEAN /\ plain \in BOOLEAN /\ pc \in [Procs -> {"idle", "locking", "numbering"}]
  BY DEF Init
<1>3. /\ numbers \subseteq Nat /\ issued \subseteq Nat
      /\ holder \subseteq Procs /\ refused \subseteq Procs
  BY DEF Init
<1>4. fresh \in [Procs -> SUBSET Nat]
  BY DEF Init
<1> QED
  BY <1>1, <1>2, <1>3, <1>4 DEF TypeOK

LEMMA TypeNext == TypeOK /\ [Next]_vars => TypeOK'
<1> SUFFICES ASSUME TypeOK, [Next]_vars PROVE TypeOK'
  OBVIOUS
<1> USE DEF TypeOK, tableVars
<1>1. ASSUME NEW p \in Procs, LockFirst(p) PROVE TypeOK'
  BY <1>1 DEF LockFirst
<1>2. ASSUME NEW p \in Procs, Read(p) PROVE TypeOK'
  BY <1>2 DEF Read
<1>3. ASSUME NEW p \in Procs, Relock(p) PROVE TypeOK'
  BY <1>3 DEF Relock
<1>4. ASSUME NEW p \in Procs, Insert(p) PROVE TypeOK'
  BY <1>4 DEF Insert, NextNumber
<1>5. ASSUME NEW p \in Procs, SkipRow(p) PROVE TypeOK'
  BY <1>5 DEF SkipRow, NextNumber
<1>6. ASSUME NEW p \in Procs, Refuse(p) PROVE TypeOK'
  BY <1>6 DEF Refuse, End
<1>7. ASSUME NEW p \in Procs, Commit(p) PROVE TypeOK'
  BY <1>7 DEF Commit, End
<1>8. ASSUME NEW p \in Procs, Abort(p) PROVE TypeOK'
  BY <1>8 DEF Abort, End
<1>9. ASSUME NEW n \in numbers, Leave(n) PROVE TypeOK'
  BY <1>9 DEF Leave
<1>10. CASE UNCHANGED vars
  BY <1>10 DEF vars
<1> QED
  BY <1>1, <1>2, <1>3, <1>4, <1>5, <1>6, <1>7, <1>8, <1>9, <1>10 DEF Next

\* Every variable of the task counter keeps its type.
THEOREM NumbersTypeOK == Spec => []TypeOK
<1>1. Init => TypeOK
  BY TypeInit
<1>2. TypeOK /\ [Next]_vars => TypeOK'
  BY TypeNext
<1> QED
  BY <1>1, <1>2, PTL DEF Spec

-----------------------------------------------------------------------------
(***************************************************************************)
(* NumberedUnderLock is inductive given the types: a transaction with new  *)
(* tasks holds the lock, so no other can take it, insert or commit.        *)
(***************************************************************************)
LEMMA UnderLockInit == Init => NumberedUnderLock
  BY DEF Init, NumberedUnderLock

LEMMA UnderLockNext == TypeOK /\ NumberedUnderLock /\ [Next]_vars => NumberedUnderLock'
<1> SUFFICES ASSUME TypeOK, NumberedUnderLock, [Next]_vars PROVE NumberedUnderLock'
  OBVIOUS
<1> USE DEF TypeOK, NumberedUnderLock, tableVars
<1>1. ASSUME NEW p \in Procs, LockFirst(p) PROVE NumberedUnderLock'
  BY <1>1 DEF LockFirst, CanLock
<1>2. ASSUME NEW p \in Procs, Read(p) PROVE NumberedUnderLock'
  BY <1>2 DEF Read
<1>3. ASSUME NEW p \in Procs, Relock(p) PROVE NumberedUnderLock'
  BY <1>3 DEF Relock, CanLock
<1>4. ASSUME NEW p \in Procs, Insert(p) PROVE NumberedUnderLock'
  <2> SUFFICES ASSUME NEW q \in Procs, fresh'[q] # {}
               PROVE  holder' = {q} /\ fresh'[q] \cap numbers' = {}
    OBVIOUS
  <2>1. CASE q = p
    BY <1>4, <2>1 DEF Insert, CanLock
  <2>2. CASE q # p
    BY <1>4, <2>2 DEF Insert, CanLock
  <2> QED
    BY <2>1, <2>2
<1>5. ASSUME NEW p \in Procs, SkipRow(p) PROVE NumberedUnderLock'
  BY <1>5 DEF SkipRow, CanLock
<1>6. ASSUME NEW p \in Procs, Refuse(p) PROVE NumberedUnderLock'
  BY <1>6 DEF Refuse, End
<1>7. ASSUME NEW p \in Procs, Commit(p) PROVE NumberedUnderLock'
  <2> SUFFICES ASSUME NEW q \in Procs, fresh'[q] # {}
               PROVE  FALSE
    OBVIOUS
  <2>1. q # p /\ fresh[q] # {}
    BY <1>7 DEF Commit, End
  <2>2. holder = {q} /\ p \in holder
    BY <1>7, <2>1 DEF Commit
  <2> QED
    BY <2>1, <2>2
<1>8. ASSUME NEW p \in Procs, Abort(p) PROVE NumberedUnderLock'
  BY <1>8 DEF Abort, End
<1>9. ASSUME NEW n \in numbers, Leave(n) PROVE NumberedUnderLock'
  BY <1>9 DEF Leave
<1>10. CASE UNCHANGED vars
  BY <1>10 DEF vars
<1> QED
  BY <1>1, <1>2, <1>3, <1>4, <1>5, <1>6, <1>7, <1>8, <1>9, <1>10 DEF Next

\* Whatever mix of callers allocates numbers, what one of them has numbered is
\* under the row lock and in conflict with no committed task.
THEOREM NumbersUnderLock == Spec => []NumberedUnderLock
<1>1. Init => NumberedUnderLock
  BY UnderLockInit
<1>2. TypeOK /\ NumberedUnderLock /\ [Next]_vars => NumberedUnderLock'
  BY UnderLockNext
<1> QED
  BY <1>1, <1>2, NumbersTypeOK, PTL DEF Spec

-----------------------------------------------------------------------------
\* A transaction that numbers has the lock, read the counter under it, and has
\* numbered above the committed counter.
ObjectsAreCurrent ==
    \A p \in Procs :
        /\ pc[p] # "locking"
        /\ pc[p] = "idle" => fresh[p] = {}
        /\ pc[p] = "numbering" =>
            /\ holder = {p}
            /\ counter <= object[p]
            /\ \A n \in fresh[p] : counter < n /\ n <= object[p]

\* All of it is lost with the first read of a project that is not locked.
CounterInv ==
    ~plain =>
        /\ ObjectsAreCurrent
        /\ ~reused /\ \A n \in issued : n <= counter
        /\ numbers \subseteq issued
        /\ refused = {}

LEMMA CounterInit == Init => CounterInv
  BY DEF Init, CounterInv, ObjectsAreCurrent

LEMMA CounterNext == TypeOK /\ CounterInv /\ [Next]_vars => CounterInv'
<1> SUFFICES ASSUME TypeOK, CounterInv, [Next]_vars, ~plain' PROVE CounterInv'
  BY DEF CounterInv
<1> USE DEF TypeOK, CounterInv, ObjectsAreCurrent, tableVars
<1>1. ASSUME NEW p \in Procs, LockFirst(p) PROVE CounterInv'
  <2>1. ASSUME NEW q \in Procs, q # p PROVE pc[q] # "numbering"
    BY <1>1, <2>1 DEF LockFirst, CanLock
  <2>2. fresh[p] = {}
    BY <1>1 DEF LockFirst
  <2>3. ObjectsAreCurrent'
    BY <1>1, <2>1, <2>2 DEF LockFirst
  <2> QED
    BY <1>1, <2>3 DEF LockFirst
<1>2. ASSUME NEW p \in Procs, Read(p) PROVE CounterInv'
  BY <1>2 DEF Read
<1>3. ASSUME NEW p \in Procs, Relock(p) PROVE CounterInv'
  BY <1>3 DEF Relock
<1>4. ASSUME NEW p \in Procs, Insert(p) PROVE CounterInv'
  BY <1>4 DEF Insert, NextNumber
<1>5. ASSUME NEW p \in Procs, SkipRow(p) PROVE CounterInv'
  BY <1>5 DEF SkipRow, NextNumber
<1>6. ASSUME NEW p \in Procs, Refuse(p) PROVE CounterInv'
  <2>1. \A n \in numbers \cup fresh[p] : n <= object[p]
    BY <1>6 DEF Refuse
  <2> QED
    BY <1>6, <2>1 DEF Refuse, NextNumber
<1>7. ASSUME NEW p \in Procs, Commit(p) PROVE CounterInv'
  <2>1. /\ ~plain
        /\ holder = {p} /\ counter <= object[p]
        /\ \A n \in fresh[p] : counter < n /\ n <= object[p]
    BY <1>7 DEF Commit
  <2>2. fresh[p] \cap issued = {}
    BY <2>1
  <2>3. ~reused' /\ refused' = {} /\ (numbers \subseteq issued)'
    BY <1>7, <2>1, <2>2 DEF Commit
  <2>4. \A n \in issued' : n <= counter'
    BY <1>7, <2>1 DEF Commit
  <2>5. ASSUME NEW q \in Procs, q # p PROVE pc[q] # "numbering"
    BY <2>1, <2>5
  <2>6. ObjectsAreCurrent'
    BY <1>7, <2>1, <2>5 DEF Commit, End
  <2> QED
    BY <2>3, <2>4, <2>6
<1>8. ASSUME NEW p \in Procs, Abort(p) PROVE CounterInv'
  BY <1>8 DEF Abort, End
<1>9. ASSUME NEW n \in numbers, Leave(n) PROVE CounterInv'
  BY <1>9 DEF Leave
<1>10. CASE UNCHANGED vars
  BY <1>10 DEF vars
<1> QED
  BY <1>1, <1>2, <1>3, <1>4, <1>5, <1>6, <1>7, <1>8, <1>9, <1>10 DEF Next

\* Until a caller reads without the lock, the counter covers every number ever
\* handed out and no number is handed out twice.
THEOREM LockedCounterCovers == Spec => []CounterCoversNumbers
<1>1. Init => CounterInv
  BY CounterInit
<1>2. TypeOK /\ CounterInv /\ [Next]_vars => CounterInv'
  BY CounterNext
<1>3. CounterInv => CounterCoversNumbers
  BY DEF CounterInv, CounterCoversNumbers
<1> QED
  BY <1>1, <1>2, <1>3, NumbersTypeOK, PTL DEF Spec

\* Until a caller reads without the lock, no allocation is refused by the unique
\* constraint.
THEOREM LockedNeverRefused == Spec => []NeverRefused
<1>1. Init => CounterInv
  BY CounterInit
<1>2. TypeOK /\ CounterInv /\ [Next]_vars => CounterInv'
  BY CounterNext
<1>3. CounterInv => NeverRefused
  BY DEF CounterInv, NeverRefused
<1> QED
  BY <1>1, <1>2, <1>3, NumbersTypeOK, PTL DEF Spec

-----------------------------------------------------------------------------
(***************************************************************************)
(* The status of a task.  What a request carries while it works:           *)
(*   a row that the status it is about to write belongs to;                *)
(*   the row the task still has, unless it was overtaken;                  *)
(*   items only with a row they have gone to.                              *)
(***************************************************************************)
CarriesItsRow(r) ==
    job[r].at = "checked" =>
        job[r].flow = NoRow \/ Category[job[r].flow] = STATUS_TO_CATEGORY[job[r].status]
SeenIsCurrent(r) ==
    job[r].at \in {"loaded", "checked"} /\ ~job[r].overtaken => job[r].seen = task[job[r].task].flow
ItemsHaveGone(r) ==
    /\ job[r].at # "transferred" => job[r].items = {}
    /\ job[r].items # {} => job[r].into # NoRow
Carried == \A r \in Requests : CarriesItsRow(r) /\ SeenIsCurrent(r) /\ ItemsHaveGone(r)

LEMMA IdleIsJob == Idle \in Job
<1> DEFINE t == CHOOSE t \in Tasks : TRUE
           s == CHOOSE s \in Statuses : TRUE
<1>1. t \in Tasks /\ s \in Statuses
  BY WorkflowAssumption
<1>2. Idle = [at |-> "idle", task |-> t, status |-> s, seen |-> NoRow,
              flow |-> NoRow, into |-> NoRow, items |-> {}, by |-> {}, overtaken |-> FALSE]
  BY DEF Idle
<1> HIDE DEF t, s
<1> QED
  BY <1>1, <1>2 DEF Job

LEMMA IdleIs == Idle.at = "idle" /\ Idle.items = {} /\ Idle.by = {} /\ ~Idle.overtaken
  BY DEF Idle

\* Being overtaken changes nothing else of a request.
LEMMA OvertakenIs ==
  ASSUME FlowTypeOK, NEW q \in Requests, NEW ts
  PROVE  /\ Overtaken(q, ts) \in Job
         /\ Overtaken(q, ts).at = job[q].at /\ Overtaken(q, ts).task = job[q].task
         /\ Overtaken(q, ts).status = job[q].status /\ Overtaken(q, ts).seen = job[q].seen
         /\ Overtaken(q, ts).flow = job[q].flow /\ Overtaken(q, ts).into = job[q].into
         /\ Overtaken(q, ts).items = job[q].items /\ Overtaken(q, ts).by = job[q].by
         /\ Overtaken(q, ts).overtaken =
              (job[q].overtaken \/ (job[q].at \in {"loaded", "checked"} /\ job[q].task \in ts))
<1>1. job[q] \in Job
  BY DEF FlowTypeOK
<1>2. (job[q].overtaken \/ (job[q].at \in {"loaded", "checked"} /\ job[q].task \in ts)) \in BOOLEAN
  OBVIOUS
<1> QED
  BY <1>1, <1>2 DEF Overtaken, Job

LEMMA ResolvedIs ==
  ASSUME NEW s, NEW w \in Resolved(s)
  PROVE  w \in Rows \cup {NoRow} /\ (w = NoRow \/ Category[w] = STATUS_TO_CATEGORY[s])
<1> DEFINE candidates == {v \in LiveRows : Category[v] = STATUS_TO_CATEGORY[s]}
           named == {v \in candidates : row[v].name = s}
<1>1. w \in candidates \cup {NoRow}
  <2>1. Resolved(s) = IF named # {} THEN named ELSE IF candidates # {} THEN candidates ELSE {NoRow}
    BY DEF Resolved
  <2> QED
    BY <2>1
<1> QED
  BY <1>1 DEF LiveRows

LEMMA FlowTypeInit == FlowInit => FlowTypeOK
<1> SUFFICES ASSUME FlowInit PROVE FlowTypeOK
  OBVIOUS
<1>1. task \in [Tasks -> TaskRow]
  BY DEF FlowInit
<1>2. row \in [Rows -> WorkflowRow]
  BY WorkflowAssumption DEF FlowInit, WorkflowRow
<1>3. approval \in [Approvals -> ApprovalRow]
  BY IdleIsJob DEF FlowInit, ApprovalRow, Job
<1>4. job \in [Requests -> Job]
  BY IdleIsJob DEF FlowInit
<1> QED
  BY <1>1, <1>2, <1>3, <1>4, WorkflowAssumption DEF FlowInit, FlowTypeOK

\* What a transaction writes into a task row is one.
LEMMA WrittenIsRow ==
  ASSUME FlowTypeOK, NEW r \in Requests
  PROVE  Written(r) \in TaskRow
<1>1. job[r] \in Job /\ task[job[r].task] \in TaskRow
  BY DEF FlowTypeOK, Job
<1> QED
  BY <1>1 DEF Written, TaskRow, Job

LEMMA TransferredIsRow ==
  ASSUME FlowTypeOK, NEW r \in Requests, NEW t, job[r].into # NoRow
  PROVE  /\ Transferred(r, t) \in TaskRow
         /\ Category[Transferred(r, t).flow] = STATUS_TO_CATEGORY[Transferred(r, t).status]
<1>1. job[r].into \in Rows
  BY DEF FlowTypeOK, Job
<1>2. Category[job[r].into] \in Categories
  BY <1>1, WorkflowAssumption
<1> QED
  BY <1>1, <1>2, WorkflowAssumption DEF Transferred, TaskRow

\* Each variable keeps its type; only a deletion needs to know what its request carries.
LEMMA FlowTypeNext == FlowTypeOK /\ Carried /\ [FlowNext]_flowVars => FlowTypeOK'
<1> SUFFICES ASSUME FlowTypeOK, Carried, [FlowNext]_flowVars PROVE FlowTypeOK'
  OBVIOUS
<1>t. /\ task \in [Tasks -> TaskRow] /\ row \in [Rows -> WorkflowRow]
      /\ approval \in [Approvals -> ApprovalRow] /\ job \in [Requests -> Job]
      /\ astray \subseteq Tasks /\ moved \subseteq Approvals /\ disputed \subseteq Approvals
      /\ edits \in 0..MaxEdits /\ MaxEdits \in Nat
  BY WorkflowAssumption DEF FlowTypeOK
<1>1. ASSUME NEW r \in Requests, Move(r) PROVE FlowTypeOK'
  <2>1. PICK t \in Tasks, s \in Statuses : Load(r, t, s, {})
    BY <1>1 DEF Move
  <2>2. task[t].flow \in Rows \cup {NoRow}
    BY <1>t DEF TaskRow
  <2>3. job' \in [Requests -> Job]
    BY <1>t, <2>1, <2>2 DEF Load, Job
  <2> QED
    BY <1>t, <1>1, <2>3 DEF Move, FlowTypeOK
<1>2. ASSUME NEW r \in Requests, Check(r) PROVE FlowTypeOK'
  <2>1. PICK w \in Resolved(job[r].status) : job' = [job EXCEPT ![r] = [@ EXCEPT !.at = "checked", !.flow = w]]
    BY <1>2 DEF Check
  <2>2. w \in Rows \cup {NoRow}
    BY ResolvedIs
  <2>3. job' \in [Requests -> Job]
    BY <1>t, <2>1, <2>2 DEF Job
  <2> QED
    BY <1>t, <1>2, <2>3 DEF Check, FlowTypeOK
<1>3. ASSUME NEW r \in Requests, Save(r) PROVE FlowTypeOK'
  <2>1. job[r].task \in Tasks /\ job[r].by \subseteq Approvals
    BY <1>t DEF Job
  <2>2. task' \in [Tasks -> TaskRow]
    BY <1>t, <1>3, WrittenIsRow DEF Save
  <2>3. approval' \in [Approvals -> ApprovalRow]
    BY <1>t, <1>3 DEF Save, ApprovalRow
  <2>4. job' \in [Requests -> Job]
    BY <1>3, IdleIsJob, OvertakenIs DEF Save
  <2>5. astray' \subseteq Tasks /\ moved' \subseteq Approvals
    BY <1>t, <1>3, <2>1 DEF Save
  <2> QED
    BY <1>t, <1>3, <2>2, <2>3, <2>4, <2>5 DEF Save, FlowTypeOK
<1>4. ASSUME NEW r \in Requests, Refused(r) PROVE FlowTypeOK'
  BY <1>t, <1>4, IdleIsJob DEF Refused, FlowTypeOK
<1>5. ASSUME NEW r \in Requests, Ask(r) PROVE FlowTypeOK'
  <2>0. PICK t \in Tasks, s \in Statuses :
          job' = [job EXCEPT ![r] = [@ EXCEPT !.at = "asking", !.task = t, !.status = s]]
    BY <1>5 DEF Ask
  <2>1. job' \in [Requests -> Job]
    BY <1>t, <2>0 DEF Job
  <2> QED
    BY <1>t, <1>5, <2>1 DEF Ask, FlowTypeOK
<1>6. ASSUME NEW r \in Requests, Open(r) PROVE FlowTypeOK'
  <2>1. job[r].task \in Tasks /\ job[r].status \in Statuses
    BY <1>t DEF Job
  <2>2. approval' \in [Approvals -> ApprovalRow]
    BY <1>t, <1>6, <2>1 DEF Open, ApprovalRow
  <2> QED
    BY <1>t, <1>6, <2>2, IdleIsJob DEF Open, FlowTypeOK
<1>7. ASSUME NEW r \in Requests, Decide(r) PROVE FlowTypeOK'
  <2>0. PICK a \in Approvals :
          /\ job' = [job EXCEPT ![r] = [@ EXCEPT !.at = "deciding", !.by = {a}]]
          /\ disputed' \in {disputed, disputed \cup {a}}
    BY <1>7 DEF Decide
  <2>1. job' \in [Requests -> Job] /\ disputed' \subseteq Approvals
    <3>1. {a} \in SUBSET Approvals
      OBVIOUS
    <3> QED
      BY <1>t, <2>0, <3>1 DEF Job
  <2> QED
    BY <1>t, <1>7, <2>1 DEF Decide, FlowTypeOK
<1>8. ASSUME NEW r \in Requests, Approve(r) PROVE FlowTypeOK'
  <2>1. PICK a \in job[r].by : Load(r, approval[a].task, approval[a].target, {a})
    BY <1>8 DEF Approve
  <2>2. a \in Approvals /\ approval[a].task \in Tasks /\ approval[a].target \in Statuses
    BY <1>t DEF Job, ApprovalRow
  <2>3. task[approval[a].task].flow \in Rows \cup {NoRow}
    BY <1>t, <2>2 DEF TaskRow
  <2>4. job' \in [Requests -> Job]
    <3> DEFINE t == approval[a].task
               s == approval[a].target
               by == {a}
    <3>1. t \in Tasks /\ s \in Statuses /\ by \in SUBSET Approvals /\ task[t].flow \in Rows \cup {NoRow}
      BY <2>2, <2>3
    <3>2. Load(r, t, s, by)
      BY <2>1
    <3> HIDE DEF t, s, by
    <3> QED
      BY <1>t, <3>1, <3>2 DEF Load, Job
  <2> QED
    BY <1>t, <1>8, <2>4 DEF Approve, FlowTypeOK
<1>9. ASSUME NEW r \in Requests, Reject(r) PROVE FlowTypeOK'
  <2>1. approval' \in [Approvals -> ApprovalRow]
    BY <1>t, <1>9 DEF Reject, ApprovalRow
  <2> QED
    BY <1>t, <1>9, <2>1, IdleIsJob DEF Reject, FlowTypeOK
<1>10. ASSUME NEW r \in Requests, CountItems(r) PROVE FlowTypeOK'
  <2>1. PICK w \in Rows, x \in Rows \cup {NoRow} :
          job' = [job EXCEPT ![r] = [@ EXCEPT !.at = "counted", !.flow = w, !.into = x]]
    BY <1>10 DEF CountItems, LiveRows
  <2>2. job' \in [Requests -> Job]
    BY <1>t, <2>1 DEF Job
  <2> QED
    BY <1>t, <1>10, <2>2 DEF CountItems, Edit, FlowTypeOK
<1>11. ASSUME NEW r \in Requests, TransferItems(r) PROVE FlowTypeOK'
  <2>1. job' \in [Requests -> Job]
    <3> DEFINE items == ItemsOf(job[r].flow)
    <3>1. items \in SUBSET Tasks
      BY DEF ItemsOf
    <3>2. \/ job' = [job EXCEPT ![r] = [@ EXCEPT !.at = "transferred"]]
          \/ job' = [job EXCEPT ![r] = [@ EXCEPT !.at = "transferred", !.items = items]]
      BY <1>11 DEF TransferItems
    <3> HIDE DEF items
    <3>3. CASE job' = [job EXCEPT ![r] = [@ EXCEPT !.at = "transferred"]]
      BY <1>t, <3>3 DEF Job
    <3>4. CASE job' = [job EXCEPT ![r] = [@ EXCEPT !.at = "transferred", !.items = items]]
      BY <1>t, <3>1, <3>4 DEF Job
    <3> QED
      BY <3>2, <3>3, <3>4
  <2> QED
    BY <1>t, <1>11, <2>1 DEF TransferItems, FlowTypeOK
<1>12. ASSUME NEW r \in Requests, DeleteStatus(r) PROVE FlowTypeOK'
  <2>1. row' \in [Rows -> WorkflowRow]
    BY <1>t, <1>12 DEF DeleteStatus, WorkflowRow
  <2>2. ASSUME NEW t \in Tasks PROVE task'[t] \in TaskRow
    <3>1. CASE t \in job[r].items
      <4>1. job[r].into # NoRow
        BY <3>1 DEF Carried, ItemsHaveGone
      <4> QED
        BY <1>12, <3>1, <4>1, TransferredIsRow DEF DeleteStatus
    <3>2. CASE t \in ItemsOf(job[r].flow) \ job[r].items
      <4>1. task'[t] = [task[t] EXCEPT !.flow = NoRow]
        BY <1>12, <3>2 DEF DeleteStatus
      <4> QED
        BY <1>t, <4>1 DEF TaskRow
    <3>3. CASE t \notin job[r].items /\ t \notin ItemsOf(job[r].flow) \ job[r].items
      BY <1>t, <1>12, <3>3 DEF DeleteStatus
    <3> QED
      BY <3>1, <3>2, <3>3
  <2>3. task' \in [Tasks -> TaskRow]
    BY <1>12, <2>2 DEF DeleteStatus
  <2>4. job' \in [Requests -> Job]
    BY <1>12, IdleIsJob, OvertakenIs DEF DeleteStatus
  <2> QED
    BY <1>t, <1>12, <2>1, <2>3, <2>4 DEF DeleteStatus, FlowTypeOK
<1>13. ASSUME NEW t \in Tasks, WriteStatusAlone(t) PROVE FlowTypeOK'
  <2>1. task' \in [Tasks -> TaskRow]
    BY <1>t, <1>13 DEF WriteStatusAlone, TaskRow
  <2> QED
    BY <1>t, <1>13, <2>1 DEF WriteStatusAlone, FlowTypeOK
<1>14. ASSUME NEW w \in Rows, CreateStatus(w) \/ RenameStatus(w) PROVE FlowTypeOK'
  <2>1. row' \in [Rows -> WorkflowRow]
    BY <1>t, <1>14 DEF CreateStatus, RenameStatus, WorkflowRow
  <2>2. edits' \in 0..MaxEdits
    BY <1>t, <1>14 DEF CreateStatus, RenameStatus, Edit
  <2> QED
    BY <1>t, <1>14, <2>1, <2>2 DEF CreateStatus, RenameStatus, FlowTypeOK
<1>15. CASE UNCHANGED flowVars
  BY <1>15 DEF flowVars, FlowTypeOK
<1> QED
  BY <1>1, <1>2, <1>3, <1>4, <1>5, <1>6, <1>7, <1>8, <1>9, <1>10, <1>11, <1>12, <1>13, <1>14, <1>15 DEF FlowNext

-----------------------------------------------------------------------------
(***************************************************************************)
(* StatusWired.  A request that holds no row of a task stays in order when *)
(* its own record and the row of its task stay, or when it is overtaken.   *)
(***************************************************************************)
InOrder(r) == CarriesItsRow(r) /\ SeenIsCurrent(r) /\ ItemsHaveGone(r)

LEMMA OvertakenInOrder ==
  ASSUME FlowTypeOK, NEW q \in Requests, InOrder(q), NEW ts,
         job'[q] = Overtaken(q, ts), \A t \in Tasks \ ts : task'[t].flow = task[t].flow
  PROVE  InOrder(q)'
<1>1. job[q].task \in Tasks
  BY DEF FlowTypeOK, Job
<1>2. SeenIsCurrent(q)'
  <2> SUFFICES ASSUME job'[q].at \in {"loaded", "checked"}, ~job'[q].overtaken
               PROVE  job'[q].seen = task'[job'[q].task].flow
    BY DEF SeenIsCurrent
  <2>0. /\ job'[q].at = job[q].at
        /\ ~(job[q].overtaken \/ (job[q].at \in {"loaded", "checked"} /\ job[q].task \in ts))
    <3>1. job'[q].at = job[q].at
      BY OvertakenIs
    <3>2. Overtaken(q, ts).overtaken =
            (job[q].overtaken \/ (job[q].at \in {"loaded", "checked"} /\ job[q].task \in ts))
      BY OvertakenIs, Zenon
    <3>3. ~Overtaken(q, ts).overtaken
      OBVIOUS
    <3> QED
      BY <3>1, <3>2, <3>3, Zenon
  <2>1. job[q].at \in {"loaded", "checked"} /\ ~job[q].overtaken /\ job[q].task \notin ts
    BY <2>0
  <2> QED
    BY <1>1, <2>1, OvertakenIs DEF InOrder, SeenIsCurrent
<1> QED
  BY <1>2, OvertakenIs DEF InOrder, CarriesItsRow, ItemsHaveGone

LEMMA KeptInOrder ==
  ASSUME FlowTypeOK, NEW q \in Requests, InOrder(q), job'[q] = job[q],
         \A t \in Tasks : task'[t].flow = task[t].flow
  PROVE  InOrder(q)'
<1>1. job[q].task \in Tasks
  BY DEF FlowTypeOK, Job
<1> QED
  BY <1>1 DEF InOrder, CarriesItsRow, SeenIsCurrent, ItemsHaveGone

LEMMA IdleInOrder == ASSUME NEW q \in Requests, job'[q] = Idle PROVE InOrder(q)'
  BY IdleIs DEF InOrder, CarriesItsRow, SeenIsCurrent, ItemsHaveGone

LEMMA CarriedNext == FlowTypeOK /\ Carried /\ [FlowNext]_flowVars => Carried'
<1> SUFFICES ASSUME FlowTypeOK, Carried, [FlowNext]_flowVars, NEW q \in Requests PROVE InOrder(q)'
  BY DEF Carried, InOrder
<1>t. job \in [Requests -> Job] /\ task \in [Tasks -> TaskRow]
  BY DEF FlowTypeOK
<1>i. InOrder(q)
  BY DEF Carried, InOrder
<1>1. ASSUME NEW r \in Requests, NEW t \in Tasks, NEW s, NEW by, Load(r, t, s, by), task' = task,
             job[r].at \in {"idle", "deciding"}
      PROVE  InOrder(q)'
  <2>1. CASE q # r
    BY <1>t, <1>i, <1>1, <2>1, KeptInOrder DEF Load
  <2>2. CASE q = r
    <3>1. /\ job'[q].at = "loaded" /\ job'[q].task = t /\ job'[q].seen = task[t].flow
          /\ job'[q].items = job[q].items
      BY <1>t, <1>1, <2>2 DEF Load, Job
    <3>2. job[q].items = {}
      BY <1>i, <1>1, <2>2 DEF InOrder, ItemsHaveGone
    <3> QED
      BY <1>1, <3>1, <3>2 DEF InOrder, CarriesItsRow, SeenIsCurrent, ItemsHaveGone
  <2> QED
    BY <2>1, <2>2
<1>2. ASSUME NEW r \in Requests, Move(r) PROVE InOrder(q)'
  BY <1>1, <1>2 DEF Move
<1>3. ASSUME NEW r \in Requests, Approve(r) PROVE InOrder(q)'
  <2>1. PICK a \in job[r].by : Load(r, approval[a].task, approval[a].target, {a})
    BY <1>3 DEF Approve
  <2>2. approval[a].task \in Tasks
    BY DEF FlowTypeOK, Job, ApprovalRow
  <2> QED
    BY <1>1, <1>3, <2>1, <2>2 DEF Approve
<1>4. ASSUME NEW r \in Requests, Check(r) PROVE InOrder(q)'
  <2>1. PICK w \in Resolved(job[r].status) : job' = [job EXCEPT ![r] = [@ EXCEPT !.at = "checked", !.flow = w]]
    BY <1>4 DEF Check
  <2>2. task' = task
    BY <1>4 DEF Check
  <2>3. CASE q # r
    BY <1>t, <1>i, <2>1, <2>2, <2>3, KeptInOrder
  <2>4. CASE q = r
    <3>1. /\ job'[q].at = "checked" /\ job'[q].flow = w /\ job'[q].status = job[q].status
          /\ job'[q].task = job[q].task /\ job'[q].seen = job[q].seen
          /\ job'[q].overtaken = job[q].overtaken /\ job'[q].items = job[q].items
          /\ job'[q].into = job[q].into
      BY <1>t, <2>1, <2>4 DEF Job
    <3>2. w = NoRow \/ Category[w] = STATUS_TO_CATEGORY[job[q].status]
      BY <2>4, ResolvedIs
    <3>3. job[q].at = "loaded"
      BY <1>4, <2>4 DEF Check
    <3> QED
      BY <1>i, <2>2, <3>1, <3>2, <3>3 DEF InOrder, CarriesItsRow, SeenIsCurrent, ItemsHaveGone
  <2> QED
    BY <2>3, <2>4
<1>5. ASSUME NEW r \in Requests, Save(r) PROVE InOrder(q)'
  <2> DEFINE t == job[r].task
             ts == IF Written(r).flow # task[t].flow THEN {t} ELSE {}
  <2>1. CASE q = r
    BY <1>5, <2>1, IdleInOrder DEF Save
  <2>2. CASE q # r
    <3>1. job'[q] = Overtaken(q, ts) /\ task' = [task EXCEPT ![t] = Written(r)]
      BY <1>5, <2>2 DEF Save
    <3>2. \A u \in Tasks \ ts : task'[u].flow = task[u].flow
      BY <1>t, <3>1
    <3> HIDE DEF ts
    <3> QED
      BY <1>i, <3>1, <3>2, OvertakenInOrder
  <2> QED
    BY <2>1, <2>2
<1>6. ASSUME NEW r \in Requests, Refused(r) \/ Open(r) \/ Reject(r) PROVE InOrder(q)'
  <2>1. job' = [job EXCEPT ![r] = Idle] /\ task' = task
    BY <1>6 DEF Refused, Open, Reject
  <2> QED
    BY <1>t, <1>i, <2>1, KeptInOrder, IdleInOrder
<1>7. ASSUME NEW r \in Requests, Ask(r) \/ Decide(r) \/ CountItems(r) PROVE InOrder(q)'
  <2>1. task' = task /\ job[r].at = "idle"
    BY <1>7 DEF Ask, Decide, CountItems
  <2>2. CASE q # r
    <3>1. job'[q] = job[q]
      BY <1>t, <1>7, <2>2 DEF Ask, Decide, CountItems
    <3> QED
      BY <1>i, <2>1, <3>1, KeptInOrder
  <2>3. CASE q = r
    <3>1. CASE Ask(r)
      <4>1. job'[q].at = "asking" /\ job'[q].items = job[q].items
        BY <1>t, <2>3, <3>1 DEF Ask, Job
      <4> QED
        BY <1>i, <2>1, <2>3, <4>1 DEF InOrder, CarriesItsRow, SeenIsCurrent, ItemsHaveGone
    <3>2. CASE Decide(r)
      <4>1. job'[q].at = "deciding" /\ job'[q].items = job[q].items
        BY <1>t, <2>3, <3>2 DEF Decide, Job
      <4> QED
        BY <1>i, <2>1, <2>3, <4>1 DEF InOrder, CarriesItsRow, SeenIsCurrent, ItemsHaveGone
    <3>3. CASE CountItems(r)
      <4>1. job'[q].at = "counted" /\ job'[q].items = job[q].items
        BY <1>t, <2>3, <3>3 DEF CountItems, Job
      <4> QED
        BY <1>i, <2>1, <2>3, <4>1 DEF InOrder, CarriesItsRow, SeenIsCurrent, ItemsHaveGone
    <3> QED
      BY <1>7, <3>1, <3>2, <3>3
  <2> QED
    BY <2>2, <2>3
<1>8. ASSUME NEW r \in Requests, TransferItems(r) PROVE InOrder(q)'
  <2>1. task' = task /\ job[r].at = "counted"
    BY <1>8 DEF TransferItems
  <2>2. CASE q # r
    <3>1. job'[q] = job[q]
      BY <1>t, <1>8, <2>2 DEF TransferItems
    <3> QED
      BY <1>i, <2>1, <3>1, KeptInOrder
  <2>3. CASE q = r /\ job[r].into = NoRow
    <3>1. job'[q].at = "transferred" /\ job'[q].items = job[q].items
      BY <1>t, <1>8, <2>3 DEF TransferItems, Job
    <3> QED
      BY <1>i, <2>1, <2>3, <3>1 DEF InOrder, CarriesItsRow, SeenIsCurrent, ItemsHaveGone
  <2>4. CASE q = r /\ job[r].into # NoRow
    <3>1. job'[q].at = "transferred" /\ job'[q].into = job[q].into
      BY <1>t, <1>8, <2>4 DEF TransferItems, Job
    <3> QED
      BY <2>4, <3>1 DEF InOrder, CarriesItsRow, SeenIsCurrent, ItemsHaveGone
  <2> QED
    BY <2>2, <2>3, <2>4
<1>9. ASSUME NEW r \in Requests, DeleteStatus(r) PROVE InOrder(q)'
  <2> DEFINE ts == job[r].items \cup ItemsOf(job[r].flow)
  <2>1. CASE q = r
    BY <1>9, <2>1, IdleInOrder DEF DeleteStatus
  <2>2. CASE q # r
    <3>1. job'[q] = Overtaken(q, ts)
      BY <1>9, <2>2 DEF DeleteStatus
    <3>2. \A u \in Tasks \ ts : task'[u].flow = task[u].flow
      BY <1>t, <1>9 DEF DeleteStatus
    <3> HIDE DEF ts
    <3> QED
      BY <1>i, <3>1, <3>2, OvertakenInOrder
  <2> QED
    BY <2>1, <2>2
<1>10. ASSUME NEW t \in Tasks, WriteStatusAlone(t) PROVE InOrder(q)'
  <2>1. job' = job /\ \A u \in Tasks : task'[u].flow = task[u].flow
    BY <1>t, <1>10 DEF WriteStatusAlone, TaskRow
  <2> QED
    BY <1>i, <2>1, KeptInOrder
<1>11. ASSUME NEW w \in Rows, CreateStatus(w) \/ RenameStatus(w) PROVE InOrder(q)'
  BY <1>i, <1>11, KeptInOrder DEF CreateStatus, RenameStatus
<1>12. CASE UNCHANGED flowVars
  BY <1>i, <1>12, KeptInOrder DEF flowVars
<1> QED
  BY <1>2, <1>3, <1>4, <1>5, <1>6, <1>7, <1>8, <1>9, <1>10, <1>11, <1>12 DEF FlowNext

LEMMA StatusWiredNext == FlowTypeOK /\ Carried /\ StatusWired /\ [FlowNext]_flowVars => StatusWired'
<1> SUFFICES ASSUME FlowTypeOK, Carried, StatusWired, [FlowNext]_flowVars,
                    NEW t \in Tasks, t \notin astray'
             PROVE  task'[t].flow = NoRow \/ Category[task'[t].flow] = STATUS_TO_CATEGORY[task'[t].status]
  BY DEF StatusWired
<1>t. task \in [Tasks -> TaskRow] /\ job \in [Requests -> Job]
  BY DEF FlowTypeOK
<1>1. ASSUME NEW r \in Requests, Save(r)
      PROVE  task'[t].flow = NoRow \/ Category[task'[t].flow] = STATUS_TO_CATEGORY[task'[t].status]
  <2>0. task' = [task EXCEPT ![job[r].task] = Written(r)]
    BY <1>1 DEF Save
  <2>1. CASE t # job[r].task
    <3>1. t \notin astray
      BY <1>1, <2>1 DEF Save
    <3> QED
      BY <1>t, <2>0, <2>1, <3>1 DEF StatusWired
  <2>2. CASE t = job[r].task
    <3>1. task'[t].status = job[r].status
      BY <1>t, <2>0, <2>2 DEF Written
    <3>2. CASE job[r].flow # job[r].seen
      <4>1. task'[t].flow = job[r].flow
        BY <1>t, <2>0, <2>2, <3>2 DEF Written
      <4> QED
        BY <1>1, <3>1, <4>1 DEF Save, Carried, CarriesItsRow
    <3>3. CASE job[r].flow = job[r].seen
      <4>1. ~job[r].overtaken
        BY <1>1, <2>2, <3>3 DEF Save
      <4>2. task[t].flow = job[r].flow
        BY <1>1, <2>2, <3>3, <4>1 DEF Save, Carried, SeenIsCurrent
      <4>3. task'[t].flow = job[r].flow
        BY <1>t, <2>0, <2>2, <3>3, <4>2 DEF Written
      <4> QED
        BY <1>1, <3>1, <4>3 DEF Save, Carried, CarriesItsRow
    <3> QED
      BY <3>2, <3>3
  <2> QED
    BY <2>1, <2>2
<1>2. ASSUME NEW r \in Requests, DeleteStatus(r)
      PROVE  task'[t].flow = NoRow \/ Category[task'[t].flow] = STATUS_TO_CATEGORY[task'[t].status]
  <2>1. CASE t \in job[r].items
    <3>1. job[r].into # NoRow
      BY <2>1 DEF Carried, ItemsHaveGone
    <3>2. task'[t] = Transferred(r, t)
      BY <1>2, <2>1 DEF DeleteStatus
    <3> QED
      BY <3>1, <3>2, TransferredIsRow
  <2>2. CASE t \in ItemsOf(job[r].flow) \ job[r].items
    <3>1. task'[t] = [task[t] EXCEPT !.flow = NoRow]
      BY <1>2, <2>2 DEF DeleteStatus
    <3> QED
      BY <1>t, <3>1 DEF TaskRow
  <2>3. CASE t \notin job[r].items /\ t \notin ItemsOf(job[r].flow) \ job[r].items
    <3>1. task'[t] = task[t] /\ t \notin astray
      BY <1>2, <2>3 DEF DeleteStatus
    <3> QED
      BY <3>1 DEF StatusWired
  <2> QED
    BY <2>1, <2>2, <2>3
<1>3. ASSUME NEW u \in Tasks, WriteStatusAlone(u)
      PROVE  task'[t].flow = NoRow \/ Category[task'[t].flow] = STATUS_TO_CATEGORY[task'[t].status]
  BY <1>t, <1>3 DEF WriteStatusAlone, StatusWired
<1>4. ASSUME task' = task, astray' = astray
      PROVE  task'[t].flow = NoRow \/ Category[task'[t].flow] = STATUS_TO_CATEGORY[task'[t].status]
  BY <1>4 DEF StatusWired
<1>5. ASSUME NEW r \in Requests,
             \/ Move(r) \/ Check(r) \/ Refused(r) \/ Ask(r) \/ Open(r) \/ Decide(r)
             \/ Approve(r) \/ Reject(r) \/ CountItems(r) \/ TransferItems(r)
      PROVE  task' = task /\ astray' = astray
  BY <1>5 DEF Move, Check, Refused, Ask, Open, Decide, Approve, Reject, CountItems, TransferItems
<1>6. ASSUME NEW w \in Rows, CreateStatus(w) \/ RenameStatus(w) PROVE task' = task /\ astray' = astray
  BY <1>6 DEF CreateStatus, RenameStatus
<1>7. CASE UNCHANGED flowVars
  BY <1>4, <1>7 DEF flowVars
<1> QED
  BY <1>1, <1>2, <1>3, <1>4, <1>5, <1>6, <1>7 DEF FlowNext

LEMMA WiredInit == FlowInit => Carried /\ StatusWired
<1> SUFFICES ASSUME FlowInit PROVE Carried /\ StatusWired
  OBVIOUS
<1>1. Carried
  <2>1. \A r \in Requests : job[r] = Idle
    BY DEF FlowInit
  <2> QED
    BY <2>1, IdleIs DEF Carried, CarriesItsRow, SeenIsCurrent, ItemsHaveGone
<1>2. StatusWired
  BY ResolvedIs DEF FlowInit, StatusWired
<1> QED
  BY <1>1, <1>2

\* Every variable of the workflow keeps its type.
THEOREM WorkflowTypeOK == FlowSpec => []FlowTypeOK
<1>1. FlowInit => FlowTypeOK /\ Carried
  BY FlowTypeInit, WiredInit
<1>2. FlowTypeOK /\ Carried /\ [FlowNext]_flowVars => (FlowTypeOK /\ Carried)'
  BY FlowTypeNext, CarriedNext
<1> QED
  BY <1>1, <1>2, PTL DEF FlowSpec

\* A task stands in a row its status belongs to, for any number of requests, tasks and rows,
\* but for the tasks whose status was written without a look at the row.
THEOREM TasksStayWired == FlowSpec => []StatusWired
<1>1. FlowInit => FlowTypeOK /\ Carried /\ StatusWired
  BY FlowTypeInit, WiredInit
<1>2. FlowTypeOK /\ Carried /\ StatusWired /\ [FlowNext]_flowVars => (FlowTypeOK /\ Carried /\ StatusWired)'
  BY FlowTypeNext, CarriedNext, StatusWiredNext
<1> QED
  BY <1>1, <1>2, PTL DEF FlowSpec

-----------------------------------------------------------------------------
(***************************************************************************)
(* VerdictsHold.  An approval that has not been decided has moved nothing; *)
(* and one that nobody disputes is pending while somebody has it in hand,  *)
(* in one hand only.                                                       *)
(***************************************************************************)
Untouched == \A a \in Approvals : approval[a].state \in {"none", "pending"} => a \notin moved
InHand ==
    \A r \in Requests : \A a \in job[r].by :
        /\ approval[a].state # "none"
        /\ a \notin disputed => Pending(a) /\ \A q \in Requests \ {r} : a \notin job[q].by
VerdictInv == Untouched /\ InHand /\ VerdictsHold

\* A step that leaves the approvals, and gives no request a new one.
LEMMA NothingInHandChanges ==
  ASSUME VerdictInv, approval' = approval, moved' = moved, disputed' = disputed,
         \A q \in Requests : job'[q].by \subseteq job[q].by
  PROVE  VerdictInv'
<1>1. Untouched' /\ VerdictsHold'
  BY DEF VerdictInv, Untouched, VerdictsHold
<1>2. InHand'
  BY DEF VerdictInv, InHand, Pending
<1> QED
  BY <1>1, <1>2 DEF VerdictInv

LEMMA VerdictNext == FlowTypeOK /\ VerdictInv /\ [FlowNext]_flowVars => VerdictInv'
<1> SUFFICES ASSUME FlowTypeOK, VerdictInv, [FlowNext]_flowVars PROVE VerdictInv'
  OBVIOUS
<1>t. /\ job \in [Requests -> Job] /\ approval \in [Approvals -> ApprovalRow]
      /\ \A r \in Requests : job[r].by \subseteq Approvals
  BY DEF FlowTypeOK, Job
<1>i. Untouched /\ InHand /\ VerdictsHold
  BY DEF VerdictInv
\* A request that has decided lets go of the approval, and its verdict is the last.
<1>d. ASSUME NEW r \in Requests, NEW verdict \in {"approved", "rejected"},
             approval' = [a \in Approvals |->
                            IF a \in job[r].by THEN [approval[a] EXCEPT !.state = verdict] ELSE approval[a]],
             moved' = IF verdict = "approved" THEN moved \cup job[r].by ELSE moved,
             disputed' = disputed, job'[r].by = {},
             \A q \in Requests \ {r} : job'[q].by = job[q].by
      PROVE  VerdictInv'
  <2>1. \A a \in Approvals : approval'[a].state = IF a \in job[r].by THEN verdict ELSE approval[a].state
    BY <1>t, <1>d DEF ApprovalRow
  <2>2. Untouched'
    BY <1>i, <1>d, <2>1 DEF Untouched
  <2>3. InHand'
    <3> SUFFICES ASSUME NEW q \in Requests, NEW a \in job'[q].by
                 PROVE  /\ approval'[a].state # "none"
                        /\ a \notin disputed' =>
                             Pending(a)' /\ \A p \in Requests \ {q} : a \notin job'[p].by
      BY DEF InHand
    <3>1. q # r /\ a \in job[q].by /\ a \in Approvals
      BY <1>t, <1>d
    <3>2. a \notin disputed => a \notin job[r].by
      BY <1>i, <3>1 DEF InHand
    <3>3. approval'[a].state # "none"
      BY <1>i, <2>1, <3>1 DEF InHand
    <3>4. ASSUME a \notin disputed PROVE Pending(a)' /\ \A p \in Requests \ {q} : a \notin job'[p].by
      BY <1>i, <1>d, <2>1, <3>1, <3>2, <3>4 DEF InHand, Pending
    <3> QED
      BY <1>d, <3>3, <3>4
  <2>4. VerdictsHold'
    <3> SUFFICES ASSUME NEW a \in Approvals
                 PROVE  /\ approval'[a].state = "approved" => a \in moved'
                        /\ approval'[a].state = "rejected" /\ a \notin disputed' => a \notin moved'
      BY DEF VerdictsHold
    <3>1. CASE a \in job[r].by
      <4>1. a \notin disputed => a \notin moved
        BY <1>i, <3>1 DEF InHand, Untouched, Pending
      <4> QED
        BY <1>d, <2>1, <3>1, <4>1
    <3>2. CASE a \notin job[r].by
      BY <1>i, <1>d, <2>1, <3>2 DEF VerdictsHold
    <3> QED
      BY <3>1, <3>2
  <2> QED
    BY <2>2, <2>3, <2>4 DEF VerdictInv
<1>1. ASSUME NEW r \in Requests, Save(r) PROVE VerdictInv'
  <2>1. job'[r].by = {} /\ \A q \in Requests \ {r} : job'[q].by = job[q].by
    BY <1>1, IdleIs, OvertakenIs DEF Save
  <2> QED
    BY <1>1, <1>d, <2>1 DEF Save
<1>2. ASSUME NEW r \in Requests, Reject(r) PROVE VerdictInv'
  <2>1. job'[r].by = {} /\ \A q \in Requests \ {r} : job'[q].by = job[q].by
    BY <1>t, <1>2, IdleIs DEF Reject
  <2> QED
    BY <1>2, <1>d, <2>1 DEF Reject
<1>3. ASSUME NEW r \in Requests, Decide(r) PROVE VerdictInv'
  <2>1. PICK a \in Approvals :
          /\ Pending(a)
          /\ job' = [job EXCEPT ![r] = [@ EXCEPT !.at = "deciding", !.by = {a}]]
          /\ disputed' = IF \E q \in Requests : a \in job[q].by THEN disputed \cup {a} ELSE disputed
    BY <1>3 DEF Decide, MayDecide
  <2>2. job'[r].by = {a} /\ \A q \in Requests \ {r} : job'[q].by = job[q].by
    BY <1>t, <2>1 DEF Job
  <2>3. approval' = approval /\ moved' = moved
    BY <1>3 DEF Decide
  <2>4. Untouched' /\ VerdictsHold'
    BY <1>i, <2>1, <2>3 DEF Untouched, VerdictsHold
  <2>5. InHand'
    BY <1>i, <2>1, <2>2, <2>3 DEF InHand, Pending
  <2> QED
    BY <2>4, <2>5 DEF VerdictInv
<1>4. ASSUME NEW r \in Requests, Approve(r) PROVE VerdictInv'
  <2>1. PICK a \in job[r].by : Load(r, approval[a].task, approval[a].target, {a})
    BY <1>4 DEF Approve
  <2>2. \A q \in Requests : job'[q].by \subseteq job[q].by
    BY <1>t, <2>1 DEF Load, Job
  <2> QED
    BY <1>4, <2>2, NothingInHandChanges DEF Approve
<1>5. ASSUME NEW r \in Requests, Move(r) PROVE VerdictInv'
  <2>1. PICK t \in Tasks, s \in Statuses : Load(r, t, s, {})
    BY <1>5 DEF Move
  <2>2. \A q \in Requests : job'[q].by \subseteq job[q].by
    BY <1>t, <2>1 DEF Load, Job
  <2> QED
    BY <1>5, <2>2, NothingInHandChanges DEF Move
<1>6. ASSUME NEW r \in Requests, Open(r) PROVE VerdictInv'
  <2>1. PICK a \in Approvals :
          /\ approval[a].state = "none"
          /\ approval' = [approval EXCEPT ![a] = [state |-> "pending", task |-> job[r].task, target |-> job[r].status]]
    BY <1>6 DEF Open
  <2>2. approval'[a].state = "pending" /\ \A b \in Approvals \ {a} : approval'[b] = approval[b]
    BY <1>t, <2>1
  <2>3. moved' = moved /\ disputed' = disputed
    BY <1>6 DEF Open
  <2>4. \A q \in Requests : job'[q].by \subseteq job[q].by
    BY <1>t, <1>6, IdleIs DEF Open
  <2>5. \A q \in Requests : a \notin job[q].by
    BY <1>i, <2>1 DEF InHand
  <2>6. Untouched' /\ VerdictsHold'
    BY <1>i, <2>1, <2>2, <2>3 DEF Untouched, VerdictsHold
  <2>7. InHand'
    BY <1>t, <1>i, <2>2, <2>3, <2>4, <2>5 DEF InHand, Pending
  <2> QED
    BY <2>6, <2>7 DEF VerdictInv
<1>7. ASSUME NEW r \in Requests, Check(r) \/ Refused(r) \/ Ask(r) \/ CountItems(r) \/ TransferItems(r)
      PROVE  VerdictInv'
  <2>1. approval' = approval /\ moved' = moved /\ disputed' = disputed
    BY <1>7 DEF Check, Refused, Ask, CountItems, TransferItems
  <2>2. \A q \in Requests : job'[q].by \subseteq job[q].by
    <3>1. CASE Refused(r)
      BY <1>t, <3>1, IdleIs DEF Refused
    <3>2. CASE Check(r)
      BY <1>t, <3>2 DEF Check, Job
    <3>3. CASE Ask(r)
      BY <1>t, <3>3 DEF Ask, Job
    <3>4. CASE CountItems(r)
      BY <1>t, <3>4 DEF CountItems, Job
    <3>5. CASE TransferItems(r)
      <4>1. CASE job[r].into = NoRow
        BY <1>t, <3>5, <4>1 DEF TransferItems, Job
      <4>2. CASE job[r].into # NoRow
        <5> DEFINE items == ItemsOf(job[r].flow)
        <5>1. job' = [job EXCEPT ![r] = [@ EXCEPT !.at = "transferred", !.items = items]]
          BY <3>5, <4>2 DEF TransferItems
        <5> HIDE DEF items
        <5> QED
          BY <1>t, <5>1 DEF Job
      <4> QED
        BY <4>1, <4>2
    <3> QED
      BY <1>7, <3>1, <3>2, <3>3, <3>4, <3>5
  <2> QED
    BY <2>1, <2>2, NothingInHandChanges
<1>8. ASSUME NEW r \in Requests, DeleteStatus(r) PROVE VerdictInv'
  <2>1. \A q \in Requests : job'[q].by \subseteq job[q].by
    BY <1>8, IdleIs, OvertakenIs DEF DeleteStatus
  <2> QED
    BY <1>8, <2>1, NothingInHandChanges DEF DeleteStatus
<1>9. ASSUME NEW t \in Tasks, WriteStatusAlone(t) PROVE VerdictInv'
  BY <1>9, NothingInHandChanges DEF WriteStatusAlone
<1>10. ASSUME NEW w \in Rows, CreateStatus(w) \/ RenameStatus(w) PROVE VerdictInv'
  BY <1>10, NothingInHandChanges DEF CreateStatus, RenameStatus
<1>11. CASE UNCHANGED flowVars
  BY <1>11, NothingInHandChanges DEF flowVars
<1> QED
  BY <1>1, <1>2, <1>3, <1>4, <1>5, <1>6, <1>7, <1>8, <1>9, <1>10, <1>11 DEF FlowNext

LEMMA VerdictInit == FlowInit => VerdictInv
<1> SUFFICES ASSUME FlowInit PROVE VerdictInv
  OBVIOUS
<1>1. \A r \in Requests : job[r].by = {}
  BY IdleIs DEF FlowInit
<1>2. \A a \in Approvals : approval[a].state = "none"
  BY DEF FlowInit
<1> QED
  BY <1>1, <1>2 DEF FlowInit, VerdictInv, Untouched, InHand, VerdictsHold

\* For any number of deciders: an approval that was approved has moved its task, and one that was
\* rejected has not, unless two had it in hand at once.
THEOREM VerdictsAlwaysHold == FlowSpec => []VerdictsHold
<1>1. FlowInit => FlowTypeOK /\ Carried /\ VerdictInv
  BY FlowTypeInit, WiredInit, VerdictInit
<1>2. FlowTypeOK /\ Carried /\ VerdictInv /\ [FlowNext]_flowVars => (FlowTypeOK /\ Carried /\ VerdictInv)'
  BY FlowTypeNext, CarriedNext, VerdictNext
<1>3. VerdictInv => VerdictsHold
  BY DEF VerdictInv
<1> QED
  BY <1>1, <1>2, <1>3, PTL DEF FlowSpec

-----------------------------------------------------------------------------
(***************************************************************************)
(* The two parts as the run walks through them.                            *)
(***************************************************************************)

\* A behaviour of the run is one of the counter and one of the workflow, so the
\* theorems about either hold of it.
THEOREM NumbersAndWorkflow == BothSpec => Spec /\ FlowSpec
<1>1. BothInit => Init /\ FlowInit
  BY DEF BothInit
<1>2. [BothNext]_<<vars, flowVars, part>> => [Next]_vars /\ [FlowNext]_flowVars
  BY DEF BothNext
<1> QED
  BY <1>1, <1>2, PTL DEF BothSpec, Spec, FlowSpec

\* Every variable of the counter and of the workflow keeps its type.
THEOREM BothTypes == BothSpec => []Types
<1>1. TypeOK /\ FlowTypeOK => Types
  BY DEF Types
<1> QED
  BY <1>1, NumbersAndWorkflow, NumbersTypeOK, WorkflowTypeOK, PTL
============================================================================
