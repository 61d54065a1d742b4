-------------------------------- MODULE Sync --------------------------------
(***************************************************************************)
(* The delta-sync feed (apps/api/src/elliptic/modules/sync) against the    *)
(* transactions that change tasks and projects, the jobs that purge, and a *)
(* client that keeps a copy.                                               *)
(*                                                                         *)
(* updated_at and a tombstone's created_at are stamped when the statement  *)
(* is flushed; the row is visible from the commit on (READ COMMITTED), so  *)
(* a poll may run between the two.  changes_since takes its cursor before  *)
(* reading and reads each collection with a statement of its own.          *)
(*                                                                         *)
(* Abstractions: notes are handled as tasks are and are not kept apart; a  *)
(* row's contents are its version; all processes share one clock, in       *)
(* seconds.  The client is not in the repository: it is what sync's        *)
(* docstrings say of it (keys by id, keeps the cursor of the last reply,   *)
(* may start over).                                                        *)
(*                                                                         *)
(* The feed does not report everything.  What it leaves a client unsure of *)
(* is kept in a history variable, unsure, which no action reads.           *)
(***************************************************************************)
EXTENDS Integers, FiniteSets

CONSTANTS
    Tasks,          \* task ids
    Projects,       \* project ids
    Owners,         \* [Tasks -> SUBSET (Tasks \cup Projects)]: what ON DELETE CASCADE
                    \* removes the task with (parent task, project)
    Order,          \* [Tasks \cup Projects -> Nat]: the order of ids
    Txns,           \* writing requests and jobs that may run at once
    Clients,
    Overlap,        \* CURSOR_OVERLAP in seconds
    Limit,          \* limit of a request
    Retention,      \* retention of a tombstone and of a deleted project, in seconds
    MaxLag,         \* bound: seconds between the flush of a write and its commit
    MaxPoll,        \* bound: seconds a request may take, from started_at to the reply
    MaxClock,       \* bound
    MaxVersion      \* [Items -> Nat]: bound on the changes of an item

Items == Tasks \cup Projects

ASSUME CollectionsDiffer == Tasks \cap Projects = {}
ASSUME OrderIsGiven == Order \in [Items -> Nat]
ASSUME OwnersAreItems == Owners \in [Tasks -> SUBSET Items]
ASSUME VersionsAreBounded == MaxVersion \in [Items -> Nat]
ASSUME TimesAreNumbers ==
    /\ {Overlap, Retention, MaxLag, MaxPoll} \subseteq Nat
    /\ {Limit, MaxClock} \subseteq Nat \ {0}

VARIABLES
    now,
    db,         \* [Items -> Row]: committed rows; version 0 before creation
    gone,       \* items removed by a committed DELETE or its cascade
    tombs,      \* committed rows of deleted_entities
    txn,        \* [Txns -> SUBSET Write]: the flushed write of an open transaction
    doomed,     \* the projects a run of purge_deleted_projects has selected
    changedAt,  \* history: when the last change of an item committed
    cursor,     \* [Clients -> Nat]: 0 when the client has no copy
    copy,       \* [Clients -> [Items -> Version]]: the client's rows
    phase,      \* [Clients -> ...]: where the client's request is
    started,    \* started_at of that request
    page,       \* the rows it has read so far
    drops,      \* the deletions it has read
    cut,        \* history: what the limit cut off its pages
    unsure      \* history, [Clients -> SUBSET Items]: items whose last change the feed
                \* may never report to the client

feedVars == <<cursor, copy, phase, started, page, drops, cut>>
serverVars == <<db, gone, tombs, txn, doomed, changedAt>>
vars == <<now, serverVars, feedVars, unsure>>

Version == [version : Nat, soft : BOOLEAN]      \* soft: deleted_at is not null
Row == [version : Nat, soft : BOOLEAN, stamp : Nat]
Absent == [version |-> 0, soft |-> FALSE]

Ops == {"save", "soft_delete", "restore", "delete"}

Exists(i) == db[i].version > 0 /\ i \notin gone

\* The row and what ON DELETE CASCADE removes with it: what a DELETE of it locks.
Family(i) == {i} \cup {j \in Tasks : i \in Owners[j]}
Locks(w) == IF w.op = "delete" THEN Family(w.item) ELSE {w.item}
Open(i) == \E t \in Txns : \E w \in txn[t] : i \in Locks(w)

\* What a DELETE of i removes.
Removed(i) == {i} \cup {j \in Family(i) : Exists(j)}

Init ==
    /\ now = 1
    /\ db = [i \in Items |-> [version |-> 0, soft |-> FALSE, stamp |-> 0]]
    /\ gone = {}
    /\ tombs = {}
    /\ txn = [t \in Txns |-> {}]
    /\ doomed = {}
    /\ changedAt = [i \in Items |-> 0]
    /\ cursor = [c \in Clients |-> 0]
    /\ copy = [c \in Clients |-> [i \in Items |-> Absent]]
    /\ phase = [c \in Clients |-> "idle"]
    /\ started = [c \in Clients |-> 0]
    /\ page = [c \in Clients |-> {}]
    /\ drops = [c \in Clients |-> {}]
    /\ cut = [c \in Clients |-> {}]
    /\ unsure = [c \in Clients |-> {}]

(***************************************************************************)
(* Time.  No open transaction outlives MaxLag, no request MaxPoll.         *)
(***************************************************************************)
Tick ==
    /\ now < MaxClock
    /\ \A t \in Txns : \A w \in txn[t] : now - w.stamp < MaxLag
    /\ \A c \in Clients : phase[c] # "idle" => now - started[c] < MaxPoll
    /\ now' = now + 1
    /\ UNCHANGED <<serverVars, feedVars, unsure>>

(***************************************************************************)
(* Writing transactions: a flush stamps and locks the row, then the        *)
(* transaction commits or rolls back.  The stamp is taken when the         *)
(* statement is built, before it waited for another transaction's lock;    *)
(* a restore has checked the retention before that.                        *)
(***************************************************************************)
Flush(t, i, op) ==
    /\ txn[t] = {}
    /\ \E stamp \in (IF now > MaxLag THEN now - MaxLag ELSE 1) .. now :
        /\ CASE op = "save" -> /\ i \notin gone /\ ~db[i].soft /\ db[i].version < MaxVersion[i]
                               /\ i \in Tasks => Owners[i] \cap gone = {}
             [] op = "soft_delete" -> i \in Projects /\ Exists(i) /\ ~db[i].soft /\ db[i].version < MaxVersion[i]
             [] op = "restore" -> i \in Projects /\ Exists(i) /\ db[i].soft /\ db[i].version < MaxVersion[i]
                                  /\ now - MaxLag - db[i].stamp <= Retention
             [] op = "delete" -> i \in Tasks /\ Exists(i)
        /\ \E w \in {[item |-> i, op |-> op, stamp |-> stamp]} :
            /\ \A j \in Locks(w) : ~Open(j)
            /\ txn' = [txn EXCEPT ![t] = {w}]
    /\ UNCHANGED <<now, db, gone, tombs, doomed, changedAt, feedVars, unsure>>

\* History: the feed will report the last change of the items of told, and may not
\* report that of the items of untold.
Report(told, untold) == unsure' = [c \in Clients |-> (unsure[c] \ told) \cup untold]

\* A write that commits Overlap or more after its stamp.
Late(w) == IF now - w.stamp >= Overlap THEN {w.item} ELSE {}

\* A create, an update, a soft delete or a restore of a project commits.
CommitSave(t) ==
    \E w \in txn[t] :
        /\ w.op \in {"save", "soft_delete", "restore"}
        /\ db' = [db EXCEPT ![w.item] = [version |-> @.version + 1,
                                         soft |-> w.op = "soft_delete",
                                         stamp |-> w.stamp]]
        /\ changedAt' = [changedAt EXCEPT ![w.item] = now]
        /\ txn' = [txn EXCEPT ![t] = {}]
        /\ Report({w.item}, Late(w))
        /\ UNCHANGED <<now, gone, tombs, doomed, feedVars>>

\* Mutant: the tombstone repeats the whole write.
TombsOf_Write(w) == IF w.op = "delete" THEN {w} ELSE {}
\* delete_task leaves a tombstone for the task it was called on.
TombsOf(w) == IF w.op = "delete" THEN {[item |-> w.item, stamp |-> w.stamp]} ELSE {}

\* History: the tasks that go with it have no tombstone.
CommitDelete(t) ==
    \E w \in txn[t] :
        /\ w.op = "delete"
        /\ gone' = gone \cup Removed(w.item)
        /\ tombs' = tombs \cup TombsOf(w)
        /\ changedAt' = [i \in Items |-> IF i \in Removed(w.item) THEN now ELSE changedAt[i]]
        /\ txn' = [txn EXCEPT ![t] = {}]
        /\ Report({w.item}, Late(w) \cup (Removed(w.item) \ {w.item}))
        /\ UNCHANGED <<now, db, doomed, feedVars>>

\* Mutant: record_deletion commits the tombstone on its own.
Rollback_KeepsTombstone(t) ==
    /\ txn[t] # {}
    /\ txn' = [txn EXCEPT ![t] = {}]
    /\ tombs' = tombs \cup UNION {TombsOf(w) : w \in txn[t]}
    /\ UNCHANGED <<now, db, gone, doomed, changedAt, feedVars, unsure>>

Rollback(t) ==
    /\ txn[t] # {}
    /\ txn' = [txn EXCEPT ![t] = {}]
    /\ UNCHANGED <<now, db, gone, tombs, doomed, changedAt, feedVars, unsure>>

(***************************************************************************)
(* The daily jobs.  purge_deleted_projects selects without a lock and      *)
(* deletes by primary key when it commits: a restore may come between.     *)
(***************************************************************************)
Expired(i) == Exists(i) /\ db[i].soft /\ now - db[i].stamp > Retention

SelectExpired ==
    /\ doomed = {}
    /\ doomed' = {i \in Projects : Expired(i)}
    /\ UNCHANGED <<now, db, gone, tombs, txn, changedAt, feedVars, unsure>>

\* No tombstone is left: who has heard of a soft deletion needs none, and nobody is
\* told of a project that had come back, or of the tasks.
DeleteDoomed ==
    /\ doomed # {}
    /\ \A i \in doomed : \A j \in Family(i) : ~Open(j)
    /\ \E dead \in {UNION {Removed(i) : i \in doomed}} :
        /\ gone' = gone \cup dead
        /\ changedAt' = [i \in Items |-> IF i \in dead THEN now ELSE changedAt[i]]
        /\ Report({}, {i \in dead : ~(i \in Projects /\ Expired(i))})
    /\ doomed' = {}
    /\ UNCHANGED <<now, db, tombs, txn, feedVars>>

\* The job fails before it commits.
PurgeFails ==
    /\ doomed # {}
    /\ doomed' = {}
    /\ UNCHANGED <<now, db, gone, tombs, txn, changedAt, feedVars, unsure>>

\* purge_tombstones
PurgeTombstones ==
    /\ \E d \in tombs : d.stamp < now - Retention
    /\ tombs' = {d \in tombs : d.stamp >= now - Retention}
    /\ UNCHANGED <<now, db, gone, txn, doomed, changedAt, feedVars, unsure>>

(***************************************************************************)
(* A client's request.                                                     *)
(***************************************************************************)
\* Mutant: no overlap.
Floor_AtCursor(c) == cursor[c]
Floor(c) == cursor[c] - Overlap

\* The rows of a collection the request selects, and its first page of them.
Selected(c, items) ==
    {i \in items : Exists(i) /\ (IF cursor[c] = 0 THEN ~db[i].soft ELSE db[i].stamp > Floor(c))}
Before(i, j) == db[i].stamp < db[j].stamp \/ (db[i].stamp = db[j].stamp /\ Order[i] < Order[j])
FirstPage(S) == {i \in S : Cardinality({j \in S : Before(j, i)}) < Limit}

ReadRows(c, items) ==
    /\ page' = [page EXCEPT ![c] = @ \cup
        {[item |-> i, version |-> db[i].version, soft |-> db[i].soft] : i \in FirstPage(Selected(c, items))}]
    /\ cut' = [cut EXCEPT ![c] = @ \cup (Selected(c, items) \ FirstPage(Selected(c, items)))]

\* A client that has been away may drop its copy first.
BeginPoll(c) ==
    /\ phase[c] = "idle"
    /\ phase' = [phase EXCEPT ![c] = "tasks"]
    /\ started' = [started EXCEPT ![c] = now]
    /\ \/ UNCHANGED <<cursor, copy>>
       \/ /\ cursor[c] # 0
          /\ cursor' = [cursor EXCEPT ![c] = 0]
          /\ copy' = [copy EXCEPT ![c] = [i \in Items |-> Absent]]
    /\ UNCHANGED <<now, serverVars, page, drops, cut, unsure>>

ReadTasks(c) ==
    /\ phase[c] = "tasks"
    /\ phase' = [phase EXCEPT ![c] = "projects"]
    /\ ReadRows(c, Tasks)
    /\ UNCHANGED <<now, serverVars, cursor, copy, started, drops, unsure>>

ReadProjects(c) ==
    /\ phase[c] = "projects"
    /\ phase' = [phase EXCEPT ![c] = "deletions"]
    /\ ReadRows(c, Projects)
    /\ UNCHANGED <<now, serverVars, cursor, copy, started, drops, unsure>>

\* A bootstrapping client holds nothing, so it has nothing to forget.
SelectedTombs(c) == IF cursor[c] = 0 THEN {} ELSE {d \in tombs : d.stamp > Floor(c)}
FirstTombs(S) ==
    {d \in S : Cardinality({x \in S : x.stamp < d.stamp \/ (x.stamp = d.stamp /\ Order[x.item] < Order[d.item])})
               < Limit}

ReadDeletions(c) ==
    /\ phase[c] = "deletions"
    /\ phase' = [phase EXCEPT ![c] = "reply"]
    /\ drops' = [drops EXCEPT ![c] = {d.item : d \in FirstTombs(SelectedTombs(c))}]
    /\ cut' = [cut EXCEPT ![c] = @ \cup {d.item : d \in SelectedTombs(c) \ FirstTombs(SelectedTombs(c))}]
    /\ UNCHANGED <<now, serverVars, cursor, copy, started, page, unsure>>

Merged(c, i) ==
    IF i \in drops[c] THEN Absent
    ELSE IF \E r \in page[c] : r.item = i
         THEN LET r == CHOOSE r \in page[c] : r.item = i IN [version |-> r.version, soft |-> r.soft]
         ELSE copy[c][i]

EndPoll(c) ==
    /\ phase' = [phase EXCEPT ![c] = "idle"]
    /\ page' = [page EXCEPT ![c] = {}]
    /\ drops' = [drops EXCEPT ![c] = {}]
    /\ cut' = [cut EXCEPT ![c] = {}]
    /\ started' = [started EXCEPT ![c] = 0]

\* History: the request asked for changes older than the tombstones that are kept.
Overdue(c) == cursor[c] # 0 /\ Floor(c) < now - Retention

\* History: what the reply settles, whatever the client was unsure of.
Settled(c) ==
    {i \in Items : /\ changedAt[i] < started[c]
                   /\ cursor[c] = 0 \/ i \in drops[c] \/ \E r \in page[c] : r.item = i}

\* The reply arrives: rows, then deletions, then the cursor.
Apply(c) ==
    /\ phase[c] = "reply"
    /\ copy' = [copy EXCEPT ![c] = [i \in Items |-> Merged(c, i)]]
    /\ cursor' = [cursor EXCEPT ![c] = started[c]]
    /\ unsure' = [unsure EXCEPT ![c] =
                    ((IF Overdue(c) THEN Items ELSE @) \ Settled(c)) \cup cut[c]]
    /\ EndPoll(c)
    /\ UNCHANGED <<now, serverVars>>

\* The request fails or its reply is lost; the client keeps its old cursor.
LoseReply(c) ==
    /\ phase[c] # "idle"
    /\ EndPoll(c)
    /\ UNCHANGED <<now, serverVars, cursor, copy, unsure>>

Next ==
    \/ Tick
    \/ \E t \in Txns, i \in Items, op \in Ops : Flush(t, i, op)
    \/ \E t \in Txns : CommitSave(t) \/ CommitDelete(t) \/ Rollback(t)
    \/ SelectExpired \/ DeleteDoomed \/ PurgeFails
    \/ PurgeTombstones
    \/ \E c \in Clients : \/ BeginPoll(c) \/ ReadTasks(c) \/ ReadProjects(c)
                          \/ ReadDeletions(c) \/ Apply(c) \/ LoseReply(c)

Spec == Init /\ [][Next]_vars

(***************************************************************************)
(* Properties.                                                             *)
(***************************************************************************)

\* Every variable has its type.
TypeOK ==
    /\ now \in 1..MaxClock
    /\ db \in [Items -> Row]
    /\ gone \subseteq Items
    /\ tombs \subseteq [item : Items, stamp : Nat]
    /\ txn \in [Txns -> SUBSET [item : Items, op : Ops, stamp : Nat]]
    /\ doomed \subseteq Projects
    /\ changedAt \in [Items -> Nat]
    /\ cursor \in [Clients -> Nat]
    /\ copy \in [Clients -> [Items -> Version]]
    /\ phase \in [Clients -> {"idle", "tasks", "projects", "deletions", "reply"}]
    /\ started \in [Clients -> Nat]
    /\ page \in [Clients -> SUBSET [item : Items, version : Nat, soft : BOOLEAN]]
    /\ drops \in [Clients -> SUBSET Items]
    /\ cut \in [Clients -> SUBSET Items]
    /\ unsure \in [Clients -> SUBSET Items]

\* A deleted item is absent from the copy, or flagged in it.
InSync(c, i) ==
    IF ~Exists(i) \/ db[i].soft
    THEN copy[c][i].version = 0 \/ copy[c][i].soft
    ELSE copy[c][i] = [version |-> db[i].version, soft |-> FALSE]

\* "A feed that misses a change looks exactly like a feed with nothing to
\* report": a change that committed before the request that produced the
\* client's cursor is in the client's copy, and so is a deletion.  The client
\* is unsure of, and these are all: a write that committed Overlap or more
\* after its stamp, a task deleted with its parent or its project, a project
\* purged though it had been restored, what a limit cut off a page, and, when
\* its cursor was older than the retention, what the reply did not hold.
NothingMissed ==
    \A c \in Clients, i \in Items :
        cursor[c] # 0 /\ changedAt[i] < cursor[c] /\ i \notin unsure[c] => InSync(c, i)

\* A client forgets a row only when the row is really gone, or when it starts
\* over: a tombstone is written with the delete or not at all.
DropsOnlyTheDead ==
    [][\A c \in Clients, i \in Items :
        (copy[c][i].version > 0 /\ copy'[c][i].version = 0 /\ cursor'[c] # 0) => i \in gone]_vars
=============================================================================
