---------------------------- MODULE TaskNumbers ----------------------------
(***************************************************************************)
(* The per-project task counter (apps/api/src/elliptic/modules/projects,   *)
(* tasks, recurring, automation, integrations), for one project.           *)
(*                                                                         *)
(* next_task_number adds one to the task_counter of the Project object it  *)
(* is given and flushes it; the number goes to a new task, and the unique  *)
(* constraint (project_id, number) refuses a number that is in use.  What  *)
(* differs is how the caller came by the object:                           *)
(*   locker    create_task, import_csv: SELECT ... FOR UPDATE, first read; *)
(*   relocker  duplicate_task inside a project: a plain read, then a       *)
(*             SELECT ... FOR UPDATE of the same row, which locks it but   *)
(*             leaves the loaded attributes of the object as they were;    *)
(*   reader    recurring rules, automation routing, e-mail, GitHub, Sentry *)
(*             and Slack intake: a plain read and no lock.                 *)
(*                                                                         *)
(* The UPDATE of the counter takes the row lock in every case and keeps it *)
(* until the transaction ends.  Abstractions: a task is its number and a   *)
(* serial that tells two tasks with one number apart.                      *)
(***************************************************************************)
EXTENDS Integers, FiniteSets

CONSTANTS
    Lockers, Relockers, Readers,    \* transactions that number tasks
    MaxNumber,      \* bound: numbers handed out
    MaxBatch        \* bound: tasks of one transaction

Procs == Lockers \cup Relockers \cup Readers

ASSUME KindsDiffer ==
    /\ Lockers \cap Relockers = {} /\ Lockers \cap Readers = {} /\ Relockers \cap Readers = {}
ASSUME BoundsArePositive == MaxNumber \in Nat /\ MaxBatch \in Nat \ {0}

VARIABLES
    counter,    \* task_counter of the committed row
    numbers,    \* numbers of the project's committed tasks
    issued,     \* history: numbers that some committed task has had
    reused,     \* history: a number went to a second task
    holder,     \* the transaction that has the row lock, as a set
    pc,         \* [Procs -> ...]
    object,     \* [Procs -> Nat]: task_counter of the object in the session
    fresh,      \* [Procs -> SUBSET Nat]: numbers of the transaction's own tasks
    refused,    \* history: transactions that failed on the unique constraint
    plain       \* history: a transaction has read the counter before it had the lock

vars == <<counter, numbers, issued, reused, holder, pc, object, fresh, refused, plain>>
tableVars == <<counter, numbers, issued, reused>>

Init ==
    /\ counter = 0
    /\ numbers = {}
    /\ issued = {}
    /\ reused = FALSE
    /\ holder = {}
    /\ pc = [p \in Procs |-> "idle"]
    /\ object = [p \in Procs |-> 0]
    /\ fresh = [p \in Procs |-> {}]
    /\ refused = {}
    /\ plain = FALSE

\* Mutant: the UPDATE does not wait for the row lock.
CanLock_Always(p) == TRUE
CanLock(p) == holder \subseteq {p}

\* Mutant: lock_project without FOR UPDATE.
LockFirst_PlainRead(p) ==
    /\ pc[p] = "idle" /\ p \in Lockers
    /\ object' = [object EXCEPT ![p] = counter]
    /\ pc' = [pc EXCEPT ![p] = "numbering"]
    /\ UNCHANGED <<tableVars, holder, fresh, refused, plain>>

\* lock_project as the first read: the newest committed row.
LockFirst(p) ==
    /\ pc[p] = "idle" /\ p \in Lockers
    /\ CanLock(p)
    /\ holder' = {p}
    /\ object' = [object EXCEPT ![p] = counter]
    /\ pc' = [pc EXCEPT ![p] = "numbering"]
    /\ UNCHANGED <<tableVars, fresh, refused, plain>>

\* A plain read: session.get, or select without FOR UPDATE.
Read(p) ==
    /\ pc[p] = "idle" /\ p \in Relockers \cup Readers
    /\ object' = [object EXCEPT ![p] = counter]
    /\ pc' = [pc EXCEPT ![p] = IF p \in Readers THEN "numbering" ELSE "locking"]
    /\ plain' = TRUE
    /\ UNCHANGED <<tableVars, holder, fresh, refused>>

\* lock_project on an object the session has loaded already.
Relock(p) ==
    /\ pc[p] = "locking"
    /\ CanLock(p)
    /\ holder' = {p}
    /\ pc' = [pc EXCEPT ![p] = "numbering"]
    /\ UNCHANGED <<tableVars, object, fresh, refused, plain>>

\* Mutant: the counter runs the other way.
NextNumber_Down(p) == object[p] - 1
\* next_task_number
NextNumber(p) == object[p] + 1

\* A number is allocated and its task inserted in the open transaction.
Insert(p) ==
    /\ pc[p] = "numbering"
    /\ CanLock(p)
    /\ object[p] < MaxNumber /\ Cardinality(fresh[p]) < MaxBatch
    /\ p \in Relockers => fresh[p] = {}
    /\ NextNumber(p) \notin numbers \cup fresh[p]
    /\ holder' = {p}
    /\ object' = [object EXCEPT ![p] = NextNumber(p)]
    /\ fresh' = [fresh EXCEPT ![p] = @ \cup {NextNumber(p)}]
    /\ UNCHANGED <<tableVars, pc, refused, plain>>

\* A row of an import fails after its number was allocated, and is skipped.
SkipRow(p) ==
    /\ pc[p] = "numbering" /\ p \in Lockers
    /\ CanLock(p)
    /\ object[p] < MaxNumber
    /\ holder' = {p}
    /\ object' = [object EXCEPT ![p] = NextNumber(p)]
    /\ UNCHANGED <<tableVars, pc, fresh, refused, plain>>

End(p) ==
    /\ holder' = holder \ {p}
    /\ pc' = [pc EXCEPT ![p] = "idle"]
    /\ object' = [object EXCEPT ![p] = 0]
    /\ fresh' = [fresh EXCEPT ![p] = {}]

\* The number is in use: IntegrityError, the transaction rolls back.
Refuse(p) ==
    /\ pc[p] = "numbering"
    /\ CanLock(p)
    /\ object[p] < MaxNumber
    /\ NextNumber(p) \in numbers \cup fresh[p]
    /\ refused' = refused \cup {p}
    /\ End(p)
    /\ UNCHANGED <<tableVars, plain>>

\* Mutant: only the tasks are written, the counter keeps its committed value.
Commit_LosesCounter(p) ==
    /\ pc[p] = "numbering" /\ p \in holder
    /\ numbers' = numbers \cup fresh[p]
    /\ issued' = issued \cup fresh[p]
    /\ reused' = (reused \/ fresh[p] \cap issued # {})
    /\ End(p)
    /\ UNCHANGED <<counter, refused, plain>>

Commit(p) ==
    /\ pc[p] = "numbering" /\ p \in holder
    /\ counter' = object[p]
    /\ numbers' = numbers \cup fresh[p]
    /\ issued' = issued \cup fresh[p]
    /\ reused' = (reused \/ fresh[p] \cap issued # {})
    /\ End(p)
    /\ UNCHANGED <<refused, plain>>

\* A validation fails, the client goes away or the process dies: rollback.
Abort(p) ==
    /\ pc[p] # "idle"
    /\ End(p)
    /\ UNCHANGED <<tableVars, refused, plain>>

\* delete_task, or routing the task into another project.
Leave(n) ==
    /\ n \in numbers
    /\ numbers' = numbers \ {n}
    /\ UNCHANGED <<counter, issued, reused, holder, pc, object, fresh, refused, plain>>

Next ==
    \/ \E p \in Procs : \/ LockFirst(p) \/ Read(p) \/ Relock(p)
                        \/ Insert(p) \/ SkipRow(p) \/ Refuse(p)
                        \/ Commit(p) \/ Abort(p)
    \/ \E n \in numbers : Leave(n)

Spec == Init /\ [][Next]_vars

(***************************************************************************)
(* Properties.                                                             *)
(***************************************************************************)

\* Every variable has its type.
TypeOK ==
    /\ counter \in Nat
    /\ numbers \subseteq Nat /\ issued \subseteq Nat
    /\ reused \in BOOLEAN
    /\ holder \subseteq Procs
    /\ pc \in [Procs -> {"idle", "locking", "numbering"}]
    /\ object \in [Procs -> Nat]
    /\ fresh \in [Procs -> SUBSET Nat]
    /\ refused \subseteq Procs
    /\ plain \in BOOLEAN

\* What a transaction has numbered is known to no other: new tasks exist only
\* under the row lock, and their numbers are in use nowhere else.
NumberedUnderLock ==
    \A p \in Procs : fresh[p] # {} => holder = {p} /\ fresh[p] \cap numbers = {}

\* While every caller locks the project before it reads it, the counter never
\* falls behind a number that has been handed out, so that the next allocation
\* can succeed and KEY-n keeps naming one task for ever.
CounterCoversNumbers == ~plain => ~reused /\ \A n \in issued : n <= counter

\* "Allocate the next per-project task number under the row lock": as long as
\* that is what the callers do, no allocation meets a number that is in use.
NeverRefused == ~plain => refused = {}
=============================================================================
