----------------------------- MODULE SyncProofs -----------------------------
(***************************************************************************)
(* Theorems about the delta-sync feed.                                     *)
(*                                                                         *)
(* They hold for every value of the constants: for every overlap, lag,     *)
(* limit, retention and cascade, for requests and absences of any length.  *)
(* That nothing is missed rests on what the feed owes a client for each    *)
(* item it is sure of: the stamp of a row or of a tombstone lies less than *)
(* the overlap before the commit, or the tombstone is older than the       *)
(* retention, and then so is the cursor of who has not read it.            *)
(***************************************************************************)
EXTENDS Sync, TLAPS

(***************************************************************************)
(* The invariant: first what the server's tables and transactions are.     *)
(***************************************************************************)

\* A transaction has flushed one write, and holds its rows alone.
RowLocks ==
    /\ \A t \in Txns : \A w, v \in txn[t] : w = v
    /\ \A t, u \in Txns : \A w \in txn[t], v \in txn[u] : t # u => Locks(w) \cap Locks(v) = {}

\* What a flush has checked is so until the commit.
OpenWrites ==
    \A t \in Txns : \A w \in txn[t] :
        /\ w.item \notin gone /\ w.stamp <= now
        /\ w.op = "delete" => w.item \in Tasks /\ Exists(w.item)

Stamps ==
    \A i \in Items : changedAt[i] <= now /\ (db[i].version = 0 => changedAt[i] = 0 /\ i \notin gone)

\* A project that purge_deleted_projects has selected is there until it deletes it.
Listed == (\A d \in tombs : d.item \in gone) /\ \A i \in doomed : Exists(i)

Tables == TypeOK /\ RowLocks /\ OpenWrites /\ Stamps /\ Listed

(***************************************************************************)
(* Then what a client and its request hold.                                *)
(***************************************************************************)
RequestInTime(c) ==
    /\ cursor[c] <= now
    /\ cursor[c] = 0 => \A i \in Items : copy[c][i] = Absent
    /\ phase[c] \in {"idle", "tasks"} => page[c] = {}
    /\ phase[c] # "reply" => drops[c] = {}
    /\ phase[c] # "idle" => started[c] > 0 /\ started[c] <= now /\ cursor[c] <= started[c]

\* What the client has not been told of yet committed at this time or later.
Since(c) == IF cursor[c] # 0 THEN cursor[c] ELSE IF phase[c] # "idle" THEN started[c] ELSE now
Heard(c, i) == i \in unsure[c] \/ changedAt[i] < Since(c)

\* The stamp of a row the client has to be told of is less than the overlap old.
RowsTold(c) ==
    \A i \in Items : Exists(i) => Heard(c, i) \/ changedAt[i] - db[i].stamp < Overlap

\* A deleted task has such a tombstone, until it is older than the retention.
DeletesTold(c) ==
    \A i \in Tasks : i \in gone =>
        \/ Heard(c, i)
        \/ \E d \in tombs : d.item = i /\ changedAt[i] - d.stamp < Overlap
        \/ changedAt[i] - Overlap < now - Retention

\* A row in the page is the committed one, unless it has changed since the request began.
PageTrue(c) ==
    \A r \in page[c] :
        changedAt[r.item] < started[c] =>
            Exists(r.item) /\ r.version = db[r.item].version /\ r.soft = db[r.item].soft

\* What has been read is all that had changed when the request began.
HasRead(c, i) ==
    \/ i \in Tasks /\ phase[c] \in {"projects", "deletions", "reply"}
    \/ phase[c] \in {"deletions", "reply"}
Due(c, i) == IF cursor[c] = 0 THEN ~db[i].soft ELSE changedAt[i] >= cursor[c] /\ i \notin unsure[c]
PageFull(c) ==
    \A i \in Items :
        HasRead(c, i) /\ Exists(i) /\ changedAt[i] < started[c] /\ Due(c, i) /\ i \notin cut[c]
        => \E r \in page[c] : r.item = i

DropsFull(c) ==
    /\ drops[c] \subseteq gone
    /\ \A i \in Tasks :
        /\ phase[c] = "reply" /\ cursor[c] # 0 /\ i \notin unsure[c] \cup cut[c]
        /\ i \in gone /\ cursor[c] <= changedAt[i] /\ changedAt[i] < started[c]
        => i \in drops[c] \/ Overdue(c)

\* A client whose cursor is not overdue has seen a purged project go: the purge leaves no
\* tombstone, but comes long after the soft deletion.
Forgotten(c, i) == copy[c][i].version = 0 \/ copy[c][i].soft
PurgesSeen(c) ==
    \A i \in Projects : i \in gone /\ i \notin unsure[c] =>
        /\ Forgotten(c, i) \/ Overdue(c)
        /\ \A r \in page[c] : r.item = i => r.soft \/ started[c] - Overlap < now - Retention

UpToDate(c) ==
    \A i \in Items : cursor[c] # 0 /\ changedAt[i] < cursor[c] /\ i \notin unsure[c] => InSync(c, i)

FeedOf(c) ==
    /\ RequestInTime(c) /\ RowsTold(c) /\ DeletesTold(c)
    /\ PageTrue(c) /\ PageFull(c) /\ DropsFull(c) /\ PurgesSeen(c) /\ UpToDate(c)
Feed == \A c \in Clients : FeedOf(c)

Inv == Tables /\ Feed

(***************************************************************************)
(* Types.                                                                  *)
(***************************************************************************)
LEMMA RowsTyped ==
    ASSUME TypeOK, NEW c \in Clients, NEW S \in SUBSET Items, ReadRows(c, S)
    PROVE  /\ page' \in [Clients -> SUBSET [item : Items, version : Nat, soft : BOOLEAN]]
           /\ cut' \in [Clients -> SUBSET Items]
<1> DEFINE rows == {[item |-> i, version |-> db[i].version, soft |-> db[i].soft] : i \in FirstPage(Selected(c, S))}
<1>1. \A i \in FirstPage(Selected(c, S)) : i \in Items /\ db[i].version \in Nat /\ db[i].soft \in BOOLEAN
  BY DEF FirstPage, Selected, TypeOK, Row
<1>2. rows \subseteq [item : Items, version : Nat, soft : BOOLEAN]
  BY <1>1
<1>3. page' = [page EXCEPT ![c] = @ \cup rows]
  BY DEF ReadRows
<1>4. cut' \in [Clients -> SUBSET Items]
  <2>1. Selected(c, S) \ FirstPage(Selected(c, S)) \subseteq Items
    BY DEF Selected
  <2>2. QED  BY <2>1 DEF ReadRows, TypeOK
<1>5. QED  BY <1>2, <1>3, <1>4 DEF TypeOK

LEMMA ReportTyped ==
    ASSUME TypeOK, NEW told, NEW untold \in SUBSET Items, Report(told, untold)
    PROVE  unsure' \in [Clients -> SUBSET Items]
BY DEF Report, TypeOK

LEMMA MergedTyped ==
    ASSUME TypeOK, NEW c \in Clients, NEW i \in Items
    PROVE  Merged(c, i) \in Version
<1>1. CASE i \in drops[c]
  BY <1>1 DEF Merged, Absent, Version
<1>2. CASE i \notin drops[c] /\ \E r \in page[c] : r.item = i
  <2>1. (CHOOSE r \in page[c] : r.item = i) \in page[c]
    BY <1>2
  <2>2. QED  BY <1>2, <2>1 DEF Merged, Version, TypeOK
<1>3. CASE i \notin drops[c] /\ ~\E r \in page[c] : r.item = i
  BY <1>3 DEF Merged, TypeOK
<1>4. QED  BY <1>1, <1>2, <1>3

LEMMA EndTyped ==
    ASSUME TypeOK, NEW c \in Clients, EndPoll(c)
    PROVE  /\ phase' \in [Clients -> {"idle", "tasks", "projects", "deletions", "reply"}]
           /\ started' \in [Clients -> Nat]
           /\ page' \in [Clients -> SUBSET [item : Items, version : Nat, soft : BOOLEAN]]
           /\ drops' \in [Clients -> SUBSET Items]
           /\ cut' \in [Clients -> SUBSET Items]
BY DEF EndPoll, TypeOK

\* Every step keeps the types of the variables.
LEMMA TypeStep == TypeOK /\ [Next]_vars => TypeOK'
<1> SUFFICES ASSUME TypeOK, [Next]_vars
             PROVE  TypeOK'
  OBVIOUS
<1> USE TimesAreNumbers
<1>1. CASE Tick
  BY <1>1 DEF Tick, serverVars, feedVars, TypeOK
<1>2. ASSUME NEW t \in Txns, NEW i \in Items, NEW op \in Ops, Flush(t, i, op)
      PROVE  TypeOK'
  <2>1. PICK stamp \in (IF now > MaxLag THEN now - MaxLag ELSE 1) .. now :
          txn' = [txn EXCEPT ![t] = {[item |-> i, op |-> op, stamp |-> stamp]}]
    BY <1>2 DEF Flush
  <2>2. stamp \in Nat
    BY <2>1 DEF TypeOK
  <2>3. txn' \in [Txns -> SUBSET [item : Items, op : Ops, stamp : Nat]]
    BY <2>1, <2>2 DEF TypeOK
  <2>4. UNCHANGED <<now, db, gone, tombs, doomed, changedAt, feedVars, unsure>>
    BY <1>2 DEF Flush
  <2>5. QED  BY <2>3, <2>4 DEF feedVars, TypeOK
<1>3. ASSUME NEW t \in Txns, CommitSave(t)
      PROVE  TypeOK'
  <2>1. PICK w \in txn[t] :
          /\ db' = [db EXCEPT ![w.item] = [version |-> @.version + 1, soft |-> w.op = "soft_delete", stamp |-> w.stamp]]
          /\ changedAt' = [changedAt EXCEPT ![w.item] = now]
          /\ txn' = [txn EXCEPT ![t] = {}]
          /\ Report({w.item}, Late(w))
          /\ UNCHANGED <<now, gone, tombs, doomed, feedVars>>
    BY <1>3 DEF CommitSave
  <2>2. w.item \in Items /\ w.stamp \in Nat /\ db[w.item].version + 1 \in Nat
    BY DEF TypeOK, Row
  <2>3. db' \in [Items -> Row]
    BY <2>1, <2>2 DEF TypeOK, Row
  <2>4. changedAt' \in [Items -> Nat] /\ txn' \in [Txns -> SUBSET [item : Items, op : Ops, stamp : Nat]]
    BY <2>1 DEF TypeOK
  <2>5. unsure' \in [Clients -> SUBSET Items]
    BY <2>1, <2>2, ReportTyped DEF Late
  <2>6. QED  BY <2>1, <2>3, <2>4, <2>5 DEF feedVars, TypeOK
<1>4. ASSUME NEW t \in Txns, CommitDelete(t)
      PROVE  TypeOK'
  <2>1. PICK w \in txn[t] :
          /\ gone' = gone \cup Removed(w.item)
          /\ tombs' = tombs \cup TombsOf(w)
          /\ changedAt' = [i \in Items |-> IF i \in Removed(w.item) THEN now ELSE changedAt[i]]
          /\ txn' = [txn EXCEPT ![t] = {}]
          /\ Report({w.item}, Late(w) \cup (Removed(w.item) \ {w.item}))
          /\ UNCHANGED <<now, db, doomed, feedVars>>
    BY <1>4 DEF CommitDelete
  <2>2. w.item \in Items /\ w.stamp \in Nat
    BY DEF TypeOK
  <2>3. Removed(w.item) \subseteq Items /\ gone' \subseteq Items /\ tombs' \subseteq [item : Items, stamp : Nat]
    BY <2>1, <2>2 DEF Removed, Family, TombsOf, Items, TypeOK
  <2>4. changedAt' \in [Items -> Nat] /\ txn' \in [Txns -> SUBSET [item : Items, op : Ops, stamp : Nat]]
    BY <2>1 DEF TypeOK
  <2>5. unsure' \in [Clients -> SUBSET Items]
    BY <2>1, <2>2, <2>3, ReportTyped DEF Late
  <2>6. QED  BY <2>1, <2>3, <2>4, <2>5 DEF feedVars, TypeOK
<1>5. ASSUME NEW t \in Txns, Rollback(t)
      PROVE  TypeOK'
  BY <1>5 DEF Rollback, feedVars, TypeOK
<1>6. CASE PurgeTombstones
  BY <1>6 DEF PurgeTombstones, feedVars, TypeOK
<1>a. CASE DeleteDoomed
  <2>1. PICK dead \in {UNION {Removed(i) : i \in doomed}} :
          /\ gone' = gone \cup dead
          /\ changedAt' = [i \in Items |-> IF i \in dead THEN now ELSE changedAt[i]]
          /\ Report({}, {i \in dead : ~(i \in Projects /\ Expired(i))})
    BY <1>a DEF DeleteDoomed
  <2>2. dead \subseteq Items
    BY DEF Removed, Family, Items, TypeOK
  <2>3. gone' \subseteq Items /\ changedAt' \in [Items -> Nat]
    BY <2>1, <2>2 DEF TypeOK
  <2>4. unsure' \in [Clients -> SUBSET Items]
    BY <2>1, <2>2, ReportTyped
  <2>5. QED  BY <1>a, <2>3, <2>4 DEF DeleteDoomed, feedVars, TypeOK
<1>b. CASE SelectExpired \/ PurgeFails
  BY <1>b DEF SelectExpired, PurgeFails, feedVars, TypeOK
<1>7. ASSUME NEW c \in Clients, BeginPoll(c)
      PROVE  TypeOK'
  <2>1. cursor' \in [Clients -> Nat] /\ copy' \in [Clients -> [Items -> Version]]
    <3> DEFINE nothing == [i \in Items |-> Absent]
    <3>1. nothing \in [Items -> Version]
      BY DEF Absent, Version
    <3>2. \/ UNCHANGED <<cursor, copy>>
          \/ cursor' = [cursor EXCEPT ![c] = 0] /\ copy' = [copy EXCEPT ![c] = nothing]
      BY <1>7 DEF BeginPoll
    <3> HIDE DEF nothing
    <3>3. CASE UNCHANGED <<cursor, copy>>
      BY <3>3 DEF TypeOK
    <3>4. CASE cursor' = [cursor EXCEPT ![c] = 0] /\ copy' = [copy EXCEPT ![c] = nothing]
      BY <3>1, <3>4 DEF TypeOK
    <3>5. QED  BY <3>2, <3>3, <3>4
  <2>2. phase' \in [Clients -> {"idle", "tasks", "projects", "deletions", "reply"}] /\ started' \in [Clients -> Nat]
    BY <1>7 DEF BeginPoll, TypeOK
  <2>3. UNCHANGED <<now, db, gone, tombs, txn, doomed, changedAt, page, drops, cut, unsure>>
    BY <1>7 DEF BeginPoll, serverVars
  <2>4. QED  BY <2>1, <2>2, <2>3 DEF TypeOK
<1>8. ASSUME NEW c \in Clients, ReadTasks(c)
      PROVE  TypeOK'
  <2>1. /\ page' \in [Clients -> SUBSET [item : Items, version : Nat, soft : BOOLEAN]]
        /\ cut' \in [Clients -> SUBSET Items]
    BY <1>8, RowsTyped DEF ReadTasks, Items
  <2>2. QED  BY <1>8, <2>1 DEF ReadTasks, serverVars, TypeOK
<1>9. ASSUME NEW c \in Clients, ReadProjects(c)
      PROVE  TypeOK'
  <2>1. /\ page' \in [Clients -> SUBSET [item : Items, version : Nat, soft : BOOLEAN]]
        /\ cut' \in [Clients -> SUBSET Items]
    BY <1>9, RowsTyped DEF ReadProjects, Items
  <2>2. QED  BY <1>9, <2>1 DEF ReadProjects, serverVars, TypeOK
<1>10. ASSUME NEW c \in Clients, ReadDeletions(c)
       PROVE  TypeOK'
  <2>1. SelectedTombs(c) \subseteq tombs /\ FirstTombs(SelectedTombs(c)) \subseteq tombs
    BY DEF FirstTombs, SelectedTombs
  <2> DEFINE named == {d.item : d \in FirstTombs(SelectedTombs(c))}
             others == {d.item : d \in SelectedTombs(c) \ FirstTombs(SelectedTombs(c))}
  <2>a. named \subseteq Items /\ others \subseteq Items
    BY <2>1 DEF TypeOK
  <2>b. drops' = [drops EXCEPT ![c] = named] /\ cut' = [cut EXCEPT ![c] = @ \cup others]
    BY <1>10 DEF ReadDeletions
  <2> HIDE DEF named, others
  <2>2. drops' \in [Clients -> SUBSET Items] /\ cut' \in [Clients -> SUBSET Items]
    BY <2>a, <2>b DEF TypeOK
  <2>3. QED  BY <1>10, <2>2 DEF ReadDeletions, serverVars, TypeOK
<1>11. ASSUME NEW c \in Clients, Apply(c)
       PROVE  TypeOK'
  <2>1. [i \in Items |-> Merged(c, i)] \in [Items -> Version]
    BY MergedTyped
  <2>2. copy' \in [Clients -> [Items -> Version]] /\ cursor' \in [Clients -> Nat]
    BY <1>11, <2>1 DEF Apply, TypeOK
  <2>a. unsure' \in [Clients -> SUBSET Items]
    <3>1. cut[c] \subseteq Items
      BY DEF TypeOK
    <3>2. QED  BY <1>11, <3>1 DEF Apply, TypeOK
  <2>3. QED  BY <1>11, <2>2, <2>a, EndTyped DEF Apply, serverVars, TypeOK
<1>12. ASSUME NEW c \in Clients, LoseReply(c)
       PROVE  TypeOK'
  BY <1>12, EndTyped DEF LoseReply, serverVars, TypeOK
<1>13. CASE UNCHANGED vars
  BY <1>13 DEF vars, serverVars, feedVars, TypeOK
<1>14. QED
  BY <1>1, <1>2, <1>3, <1>4, <1>5, <1>6, <1>a, <1>b, <1>7, <1>8, <1>9, <1>10, <1>11, <1>12, <1>13 DEF Next

LEMMA TypeInit == Init => TypeOK
  BY TimesAreNumbers DEF Init, TypeOK, Row, Version, Absent

\* Every variable keeps its type.
THEOREM SyncTypeOK == Spec => []TypeOK
  BY TypeInit, TypeStep, PTL DEF Spec

(***************************************************************************)
(* A client forgets only what is gone.                                     *)
(***************************************************************************)
Truthful ==
    /\ TypeOK
    /\ \A d \in tombs : d.item \in gone
    /\ \A c \in Clients : drops[c] \subseteq gone /\ \A r \in page[c] : r.version > 0

LEMMA RowsExist ==
    ASSUME TypeOK, NEW c \in Clients, NEW S \in SUBSET Items, ReadRows(c, S),
           \A r \in page[c] : r.version > 0
    PROVE  \A e \in Clients : IF e = c THEN \A r \in page'[e] : r.version > 0 ELSE page'[e] = page[e]
<1> DEFINE rows == {[item |-> i, version |-> db[i].version, soft |-> db[i].soft] : i \in FirstPage(Selected(c, S))}
<1>1. \A i \in FirstPage(Selected(c, S)) : db[i].version > 0
  BY DEF FirstPage, Selected, Exists
<1>2. \A r \in rows : r.version > 0
  BY <1>1
<1>3. page' = [page EXCEPT ![c] = @ \cup rows]
  BY DEF ReadRows
<1>4. QED  BY <1>2, <1>3 DEF TypeOK

LEMMA TruthfulStep == Truthful /\ [Next]_vars => Truthful'
<1> SUFFICES ASSUME Truthful, [Next]_vars
             PROVE  Truthful'
  OBVIOUS
<1>t. TypeOK /\ TypeOK'
  BY TypeStep DEF Truthful
<1>1. CASE Tick
  BY <1>1, <1>t DEF Tick, serverVars, feedVars, Truthful
<1>2. ASSUME NEW t \in Txns, NEW i \in Items, NEW op \in Ops, Flush(t, i, op)
      PROVE  Truthful'
  <2>1. UNCHANGED <<gone, tombs, feedVars>>
    BY <1>2 DEF Flush
  <2>2. QED  BY <1>t, <2>1 DEF feedVars, Truthful
<1>3. ASSUME NEW t \in Txns, CommitSave(t)
      PROVE  Truthful'
  BY <1>3, <1>t DEF CommitSave, feedVars, Truthful
<1>4. ASSUME NEW t \in Txns, CommitDelete(t)
      PROVE  Truthful'
  <2>1. PICK w \in txn[t] : gone' = gone \cup Removed(w.item) /\ tombs' = tombs \cup TombsOf(w) /\ UNCHANGED feedVars
    BY <1>4 DEF CommitDelete
  <2>2. QED  BY <1>t, <2>1 DEF Removed, TombsOf, feedVars, Truthful
<1>5. ASSUME NEW t \in Txns, Rollback(t)
      PROVE  Truthful'
  BY <1>5, <1>t DEF Rollback, feedVars, Truthful
<1>6. CASE PurgeTombstones
  BY <1>6, <1>t DEF PurgeTombstones, feedVars, Truthful
<1>a. CASE SelectExpired \/ DeleteDoomed \/ PurgeFails
  <2>1. gone \subseteq gone' /\ UNCHANGED <<tombs, feedVars>>
    BY <1>a DEF SelectExpired, DeleteDoomed, PurgeFails
  <2>2. QED  BY <1>t, <2>1 DEF feedVars, Truthful
<1>7. ASSUME NEW c \in Clients, BeginPoll(c)
      PROVE  Truthful'
  BY <1>7, <1>t DEF BeginPoll, serverVars, Truthful
<1>8. ASSUME NEW c \in Clients, ReadTasks(c)
      PROVE  Truthful'
  <2>1. \A e \in Clients : IF e = c THEN \A r \in page'[e] : r.version > 0 ELSE page'[e] = page[e]
    BY <1>8, <1>t, RowsExist DEF ReadTasks, Items, Truthful
  <2>2. QED  BY <1>8, <1>t, <2>1 DEF ReadTasks, serverVars, Truthful
<1>9. ASSUME NEW c \in Clients, ReadProjects(c)
      PROVE  Truthful'
  <2>1. \A e \in Clients : IF e = c THEN \A r \in page'[e] : r.version > 0 ELSE page'[e] = page[e]
    BY <1>9, <1>t, RowsExist DEF ReadProjects, Items, Truthful
  <2>2. QED  BY <1>9, <1>t, <2>1 DEF ReadProjects, serverVars, Truthful
<1>10. ASSUME NEW c \in Clients, ReadDeletions(c)
       PROVE  Truthful'
  <2>1. FirstTombs(SelectedTombs(c)) \subseteq tombs
    BY DEF FirstTombs, SelectedTombs
  <2>2. {d.item : d \in FirstTombs(SelectedTombs(c))} \subseteq gone
    BY <2>1 DEF Truthful
  <2>3. QED  BY <1>10, <1>t, <2>2 DEF ReadDeletions, serverVars, TypeOK, Truthful
<1>11. ASSUME NEW c \in Clients, EndPoll(c), UNCHANGED <<gone, tombs>>
       PROVE  Truthful'
  BY <1>11, <1>t DEF EndPoll, TypeOK, Truthful
<1>12. CASE UNCHANGED vars
  BY <1>12, <1>t DEF vars, serverVars, feedVars, Truthful
<1>13. QED
  BY <1>1, <1>2, <1>3, <1>4, <1>5, <1>6, <1>a, <1>7, <1>8, <1>9, <1>10, <1>11, <1>12
  DEF Next, Apply, LoseReply, serverVars

\* Only a reply with a tombstone, or a new start, takes a row out of a copy.
LEMMA DropStep ==
    ASSUME Truthful, [Next]_vars, NEW c \in Clients, NEW i \in Items,
           copy[c][i].version > 0, copy'[c][i].version = 0, cursor'[c] # 0
    PROVE  i \in gone
<1>1. ASSUME NEW e \in Clients, Apply(e)
      PROVE  i \in gone
  <2>1. e = c /\ copy'[c][i] = Merged(c, i)
    BY <1>1 DEF Apply, Truthful, TypeOK
  <2>2. ASSUME i \notin drops[c], \E r \in page[c] : r.item = i
        PROVE  FALSE
    <3>1. (CHOOSE r \in page[c] : r.item = i) \in page[c]
      BY <2>2
    <3>2. QED  BY <2>1, <2>2, <3>1 DEF Merged, Truthful
  <2>3. i \in drops[c]
    BY <2>1, <2>2 DEF Merged
  <2>4. QED  BY <2>3 DEF Truthful
<1>2. ASSUME NEW e \in Clients, BeginPoll(e)
      PROVE  i \in gone
  <2> DEFINE nothing == [x \in Items |-> Absent]
  <2>1. \/ UNCHANGED <<cursor, copy>>
        \/ cursor' = [cursor EXCEPT ![e] = 0] /\ copy' = [copy EXCEPT ![e] = nothing]
    BY <1>2 DEF BeginPoll
  <2> HIDE DEF nothing
  <2>2. CASE UNCHANGED <<cursor, copy>>
    BY <2>2
  <2>3. CASE cursor' = [cursor EXCEPT ![e] = 0] /\ copy' = [copy EXCEPT ![e] = nothing]
    BY <2>3 DEF Truthful, TypeOK
  <2>4. QED  BY <2>1, <2>2, <2>3
<1>3. CASE UNCHANGED copy
  BY <1>3
<1>4. QED
  BY <1>1, <1>2, <1>3
  DEF Next, Tick, Flush, CommitSave, CommitDelete, Rollback, SelectExpired, DeleteDoomed, PurgeFails, PurgeTombstones, ReadTasks, ReadProjects,
      ReadDeletions, LoseReply, vars, serverVars, feedVars

\* For every clock, lag, retention, limit and cascade: what a client forgets is gone, or the
\* client starts over.
THEOREM SyncDropsOnlyTheDead == Spec => DropsOnlyTheDead
<1>1. Init => Truthful
  BY TypeInit DEF Init, Truthful
<1>2. Truthful /\ [Next]_vars => Truthful'
  BY TruthfulStep
<1>3. Truthful /\ [Next]_vars =>
        [\A c \in Clients, i \in Items :
            (copy[c][i].version > 0 /\ copy'[c][i].version = 0 /\ cursor'[c] # 0) => i \in gone]_vars
  BY DropStep
<1>4. QED  BY <1>1, <1>2, <1>3, PTL DEF Spec, DropsOnlyTheDead
(***************************************************************************)
(* Nothing is missed: the tables.                                          *)
(***************************************************************************)
LEMMA FlushTables ==
    ASSUME Tables, NEW t \in Txns, NEW i \in Items, NEW op \in Ops, Flush(t, i, op)
    PROVE  RowLocks' /\ OpenWrites' /\ Stamps'
<1>1. PICK stamp \in (IF now > MaxLag THEN now - MaxLag ELSE 1) .. now :
        /\ CASE op = "save" -> i \notin gone
             [] op \in {"soft_delete", "restore"} -> Exists(i)
             [] op = "delete" -> i \in Tasks /\ Exists(i)
        /\ \E w \in {[item |-> i, op |-> op, stamp |-> stamp]} :
            /\ \A j \in Locks(w) : ~Open(j)
            /\ txn' = [txn EXCEPT ![t] = {w}]
  BY DEF Flush, Ops
<1>2. UNCHANGED <<now, db, gone, tombs, changedAt>> /\ txn[t] = {}
  BY DEF Flush
<1>3. stamp <= now
  BY <1>1
<1>4. PICK w \in {[item |-> i, op |-> op, stamp |-> stamp]} :
        (\A j \in Locks(w) : ~Open(j)) /\ txn' = [txn EXCEPT ![t] = {w}]
  BY <1>1
<1>5. txn'[t] = {w} /\ \A u \in Txns : u # t => txn'[u] = txn[u]
  BY <1>4 DEF Tables, TypeOK
<1>6. w.item = i /\ w.op = op /\ w.stamp = stamp
  OBVIOUS
<1>7. RowLocks'
  <2>1. \A u \in Txns : \A v \in txn[u] : Locks(w) \cap Locks(v) = {}
    BY <1>4 DEF Open
  <2>2. QED  BY <1>5, <2>1 DEF Tables, RowLocks
<1>8. OpenWrites'
  <2>1. i \notin gone /\ (op = "delete" => i \in Tasks /\ Exists(i))
    BY <1>1 DEF Exists, Ops
  <2>2. QED  BY <1>2, <1>3, <1>5, <1>6, <2>1 DEF Tables, OpenWrites, Exists
<1>9. Stamps'
  BY <1>2 DEF Tables, Stamps
<1>10. QED  BY <1>7, <1>8, <1>9

\* The locks of another transaction's write do not reach what t's write changes.
LEMMA Apart ==
    ASSUME TypeOK, RowLocks, NEW t \in Txns, NEW w \in txn[t], txn' = [txn EXCEPT ![t] = {}]
    PROVE  \A u \in Txns : \A v \in txn'[u] :
             u # t /\ v \in txn[u] /\ v.item \in Items /\ v.item \notin Locks(w)
<1>1. \A u \in Txns : \A v \in txn'[u] : u # t /\ v \in txn[u] /\ v.item \in Items
  BY DEF TypeOK
<1>2. \A v : v.item \in Locks(v)
  BY DEF Locks, Family
<1>3. QED  BY <1>1, <1>2 DEF RowLocks

LEMMA SaveTables ==
    ASSUME Tables, NEW t \in Txns, NEW w \in txn[t],
           db' = [db EXCEPT ![w.item] = [version |-> @.version + 1, soft |-> w.op = "soft_delete", stamp |-> w.stamp]],
           changedAt' = [changedAt EXCEPT ![w.item] = now],
           txn' = [txn EXCEPT ![t] = {}],
           UNCHANGED <<now, gone, tombs>>
    PROVE  RowLocks' /\ OpenWrites' /\ Stamps'
<1>1. w.item \in Items /\ w.item \notin gone
  BY DEF Tables, TypeOK, OpenWrites
<1>2. /\ db'[w.item].version = db[w.item].version + 1 /\ changedAt'[w.item] = now
      /\ \A i \in Items : i # w.item => db'[i] = db[i] /\ changedAt'[i] = changedAt[i]
  BY <1>1 DEF Tables, TypeOK
<1>3. \A u \in Txns : \A v \in txn'[u] : u # t /\ v \in txn[u] /\ v.item \in Items /\ v.item # w.item
  BY Apart DEF Tables, Locks, Family
<1>4. RowLocks'
  BY <1>3 DEF Tables, RowLocks
<1>5. OpenWrites'
  BY <1>2, <1>3 DEF Tables, OpenWrites, Exists
<1>6. Stamps'
  <2>1. ASSUME NEW i \in Items
        PROVE  changedAt'[i] <= now /\ (db'[i].version = 0 => changedAt'[i] = 0 /\ i \notin gone)
    <3>1. db[w.item].version \in Nat /\ now \in Nat
      BY <1>1 DEF Tables, TypeOK, Row
    <3>2. CASE i = w.item
      BY <1>2, <3>1, <3>2
    <3>3. CASE i # w.item
      BY <1>2, <3>3 DEF Tables, Stamps
    <3>4. QED  BY <3>2, <3>3
  <2>2. QED  BY <2>1 DEF Stamps
<1>7. QED  BY <1>4, <1>5, <1>6

\* Rows that exist and that no other transaction holds are deleted.
LEMMA DeleteTables ==
    ASSUME Tables, NEW dead \in SUBSET Items, \A i \in dead : Exists(i),
           gone' = gone \cup dead,
           changedAt' = [i \in Items |-> IF i \in dead THEN now ELSE changedAt[i]],
           \A u \in Txns : txn'[u] \subseteq txn[u],
           \A u \in Txns : \A v \in txn'[u] : v.item \notin dead,
           UNCHANGED <<now, db>>
    PROVE  RowLocks' /\ OpenWrites' /\ Stamps'
<1>1. RowLocks'
  BY DEF Tables, RowLocks
<1>2. OpenWrites'
  BY DEF Tables, OpenWrites, Exists
<1>3. Stamps'
  <2>1. now \in Nat
    BY DEF Tables, TypeOK
  <2>2. QED  BY <2>1 DEF Tables, Stamps, Exists
<1>4. QED  BY <1>1, <1>2, <1>3

\* What CommitDelete removes.
LEMMA DeleteIsHeld ==
    ASSUME Tables, NEW t \in Txns, NEW w \in txn[t], w.op = "delete", txn' = [txn EXCEPT ![t] = {}]
    PROVE  /\ w.item \in Tasks /\ w.item \in Removed(w.item)
           /\ Removed(w.item) \subseteq Tasks
           /\ \A i \in Removed(w.item) : Exists(i)
           /\ \A u \in Txns : txn'[u] \subseteq txn[u]
           /\ \A u \in Txns : \A v \in txn'[u] : v.item \notin Removed(w.item)
<1>1. w.item \in Tasks /\ Exists(w.item)
  BY DEF Tables, OpenWrites
<1>2. Removed(w.item) \subseteq Locks(w)
  BY DEF Removed, Locks, Family
<1>3. QED  BY <1>1, <1>2, Apart DEF Removed, Family, Tables, TypeOK

\* What DeleteDoomed removes: selected projects, which only this job removes, and tasks.
LEMMA DoomedAreHeld ==
    ASSUME Tables,
           \A i \in doomed : \A j \in Family(i) : ~Open(j)
    PROVE  LET dead == UNION {Removed(i) : i \in doomed} IN
             /\ dead \subseteq Items /\ dead \cap Projects = doomed
             /\ \A i \in dead : Exists(i)
             /\ \A u \in Txns : \A v \in txn[u] : v.item \notin dead
<1> DEFINE dead == UNION {Removed(i) : i \in doomed}
<1>0. \A i \in doomed : \A j \in Removed(i) : j \in Family(i) /\ Exists(j) /\ (j = i \/ j \in Tasks)
  BY DEF Removed, Family, Tables, Listed
<1>1. \A j \in dead : \E i \in doomed : j \in Family(i) /\ Exists(j) /\ (j = i \/ j \in Tasks)
  BY <1>0
<1>2. doomed \subseteq dead
  BY DEF Removed
<1>3. \A u \in Txns : \A v \in txn[u] : v.item \in Locks(v)
  BY DEF Locks, Family
<1>4. dead \subseteq Items /\ dead \cap Projects = doomed /\ \A i \in dead : Exists(i)
  BY <1>1, <1>2, CollectionsDiffer DEF Tables, Listed, TypeOK, Items
<1>5. \A u \in Txns : \A v \in txn[u] : v.item \notin dead
  BY <1>1, <1>3 DEF Open
<1>6. QED  BY <1>4, <1>5
LEMMA TablesStep == Tables /\ [Next]_vars => Tables'
<1> SUFFICES ASSUME Tables, [Next]_vars
             PROVE  Tables'
  OBVIOUS
<1> USE CollectionsDiffer
<1>t. TypeOK /\ TypeOK'
  BY TypeStep DEF Tables
<1> DEFINE Rest == RowLocks /\ OpenWrites /\ Stamps /\ Listed
<1> SUFFICES Rest'
  BY <1>t DEF Tables
<1>1. CASE Tick
  BY <1>1, <1>t DEF Tick, serverVars, Tables, RowLocks, OpenWrites, Stamps, Listed, Exists, TypeOK
<1>2. ASSUME NEW t \in Txns, NEW i \in Items, NEW op \in Ops, Flush(t, i, op)
      PROVE  Rest'
  <2>1. UNCHANGED <<db, gone, tombs, doomed>>
    BY <1>2 DEF Flush
  <2>2. QED  BY <1>2, <2>1, FlushTables DEF Tables, Listed, Exists
<1>3. ASSUME NEW t \in Txns, CommitSave(t)
      PROVE  Rest'
  <2>1. PICK w \in txn[t] :
          /\ db' = [db EXCEPT ![w.item] = [version |-> @.version + 1, soft |-> w.op = "soft_delete", stamp |-> w.stamp]]
          /\ changedAt' = [changedAt EXCEPT ![w.item] = now]
          /\ txn' = [txn EXCEPT ![t] = {}]
          /\ UNCHANGED <<now, gone, tombs, doomed>>
    BY <1>3 DEF CommitSave
  <2>2. \A i \in Items : Exists(i) => Exists(i)'
    BY <1>t, <2>1 DEF Exists, TypeOK, Row
  <2>3. Listed'
    BY <1>t, <2>1, <2>2 DEF Tables, Listed, TypeOK, Items
  <2>4. QED  BY <2>1, <2>3, SaveTables
<1>4. ASSUME NEW t \in Txns, CommitDelete(t)
      PROVE  Rest'
  <2>1. PICK w \in txn[t] :
          /\ w.op = "delete"
          /\ gone' = gone \cup Removed(w.item)
          /\ tombs' = tombs \cup TombsOf(w)
          /\ changedAt' = [i \in Items |-> IF i \in Removed(w.item) THEN now ELSE changedAt[i]]
          /\ txn' = [txn EXCEPT ![t] = {}]
          /\ UNCHANGED <<now, db, doomed>>
    BY <1>4 DEF CommitDelete
  <2>2. /\ w.item \in Removed(w.item) /\ Removed(w.item) \subseteq Tasks
        /\ \A i \in Removed(w.item) : Exists(i)
        /\ \A u \in Txns : txn'[u] \subseteq txn[u]
        /\ \A u \in Txns : \A v \in txn'[u] : v.item \notin Removed(w.item)
    BY <2>1, DeleteIsHeld
  <2>3. RowLocks' /\ OpenWrites' /\ Stamps'
    BY <2>1, <2>2, DeleteTables DEF Items
  <2>4. \A d \in TombsOf(w) : d.item = w.item
    BY DEF TombsOf
  <2>5. Listed'
    BY <1>t, <2>1, <2>2, <2>4 DEF Tables, Listed, Exists, TypeOK
  <2>6. QED  BY <2>3, <2>5
<1>5. ASSUME NEW t \in Txns, Rollback(t)
      PROVE  Rest'
  <2>1. \A u \in Txns : txn'[u] \subseteq txn[u]
    BY <1>5, <1>t DEF Rollback, TypeOK
  <2>2. UNCHANGED <<now, db, gone, tombs, doomed, changedAt>>
    BY <1>5 DEF Rollback
  <2>3. QED  BY <2>1, <2>2 DEF Tables, RowLocks, OpenWrites, Stamps, Listed, Exists
<1>6. CASE SelectExpired \/ PurgeFails \/ PurgeTombstones
  <2>1. UNCHANGED <<now, db, gone, txn, changedAt>> /\ tombs' \subseteq tombs
    BY <1>6 DEF SelectExpired, PurgeFails, PurgeTombstones
  <2>2. doomed' \subseteq doomed \/ doomed' = {i \in Projects : Expired(i)}
    BY <1>6 DEF SelectExpired, PurgeFails, PurgeTombstones
  <2>3. QED  BY <2>1, <2>2 DEF Tables, RowLocks, OpenWrites, Stamps, Listed, Expired, Exists
<1>7. CASE DeleteDoomed
  <2> DEFINE dead == UNION {Removed(i) : i \in doomed}
  <2>1. /\ gone' = gone \cup dead
        /\ changedAt' = [i \in Items |-> IF i \in dead THEN now ELSE changedAt[i]]
        /\ \A i \in doomed : \A j \in Family(i) : ~Open(j)
        /\ doomed' = {} /\ UNCHANGED <<now, db, tombs, txn>>
    BY <1>7 DEF DeleteDoomed
  <2>2. /\ dead \subseteq Items /\ \A i \in dead : Exists(i)
        /\ \A u \in Txns : \A v \in txn[u] : v.item \notin dead
    BY <2>1, DoomedAreHeld
  <2> HIDE DEF dead
  <2>3. RowLocks' /\ OpenWrites' /\ Stamps'
    BY <2>1, <2>2, DeleteTables
  <2>4. Listed'
    BY <2>1 DEF Tables, Listed
  <2>5. QED  BY <2>3, <2>4
<1>8. CASE UNCHANGED <<now, serverVars>>
  BY <1>8 DEF serverVars, Tables, RowLocks, OpenWrites, Stamps, Listed, Exists
<1>9. QED
  BY <1>1, <1>2, <1>3, <1>4, <1>5, <1>6, <1>7, <1>8
  DEF Next, BeginPoll, ReadTasks, ReadProjects, ReadDeletions, Apply, LoseReply, vars

(***************************************************************************)
(* Nothing is missed: what the tables' changes do to the clients.          *)
(***************************************************************************)

\* When a project may be purged, a client that is sure of it and whose cursor is not
\* overdue knows that it is deleted.
LEMMA PurgeIsKnown ==
    ASSUME Tables, NEW c \in Clients, FeedOf(c), NEW i \in Projects, Expired(i), i \notin unsure[c]
    PROVE  /\ Forgotten(c, i) \/ Overdue(c)
           /\ \A r \in page[c] : r.item = i => r.soft \/ started[c] - Overlap < now - Retention
<1> USE TimesAreNumbers
<1>1. /\ i \in Items /\ changedAt[i] \in Nat /\ db[i].stamp \in Nat /\ now \in Nat
      /\ cursor[c] \in Nat /\ started[c] \in Nat /\ now - db[i].stamp > Retention
      /\ Exists(i) /\ db[i].soft
  BY DEF Tables, TypeOK, Items, Row, Expired
<1>2. changedAt[i] < Since(c) \/ changedAt[i] - db[i].stamp < Overlap
  BY <1>1 DEF FeedOf, RowsTold, Heard
<1>3. Forgotten(c, i) \/ Overdue(c)
  <2>1. CASE cursor[c] = 0
    BY <1>1, <2>1 DEF FeedOf, RequestInTime, Forgotten, Absent
  <2>2. CASE cursor[c] # 0 /\ changedAt[i] < cursor[c]
    BY <1>1, <2>2 DEF FeedOf, UpToDate, InSync, Forgotten
  <2>3. CASE cursor[c] # 0 /\ ~(changedAt[i] < cursor[c])
    BY <1>1, <1>2, <2>3 DEF Since, Overdue, Floor
  <2>4. QED  BY <2>1, <2>2, <2>3
<1>4. ASSUME NEW r \in page[c], r.item = i
      PROVE  r.soft \/ started[c] - Overlap < now - Retention
  <2>1. phase[c] # "idle" /\ cursor[c] <= started[c]
    BY <1>4 DEF FeedOf, RequestInTime
  <2>2. CASE changedAt[i] < started[c]
    BY <1>1, <1>4, <2>2 DEF FeedOf, PageTrue
  <2>3. CASE ~(changedAt[i] < started[c])
    BY <1>1, <1>2, <2>1, <2>3 DEF Since
  <2>4. QED  BY <2>2, <2>3
<1>5. QED  BY <1>3, <1>4

\* A commit at this moment asks nothing of the clients yet.  C is what it changes; it is
\* told of, or the clients become unsure of it.
LEMMA ChangesKeepFeed ==
    ASSUME Inv, TypeOK', UNCHANGED <<feedVars, now>>, gone \subseteq gone', tombs \subseteq tombs', NEW C \in SUBSET Items,
           \A i \in Items \ C : db'[i] = db[i] /\ changedAt'[i] = changedAt[i] /\ (i \in gone' => i \in gone),
           \A e \in Clients : \A i \in Items \ C : i \in unsure[e] => i \in unsure'[e],
           \A i \in C : changedAt'[i] = now,
           \A e \in Clients : \A i \in C :
               \/ i \in unsure'[e]
               \/ i \notin gone' /\ now - db'[i].stamp < Overlap
               \/ i \in Tasks /\ i \in gone' /\ \E d \in tombs' : d.item = i /\ now - d.stamp < Overlap
               \/ i \in Projects /\ i \in gone' /\ i \notin unsure[e] /\ Expired(i)
    PROVE  Feed'
<1> USE TimesAreNumbers
<1> SUFFICES ASSUME NEW c \in Clients
             PROVE  FeedOf(c)'
  BY DEF Feed
<1>1. FeedOf(c) /\ TypeOK /\ Tables
  BY DEF Inv, Feed, Tables
<1>2. cursor[c] <= now /\ (phase[c] # "idle" => started[c] <= now) /\ cursor[c] \in Nat /\ started[c] \in Nat /\ now \in Nat
  BY <1>1 DEF FeedOf, RequestInTime, TypeOK
<1>3. \A i \in C : ~(changedAt'[i] < cursor[c]) /\ (phase[c] # "idle" => ~(changedAt'[i] < started[c]))
  BY <1>2
<1>4. \A r \in page[c] : r.item \in Items /\ phase[c] # "idle"
  BY <1>1 DEF FeedOf, RequestInTime, TypeOK
<1>5. \A i \in Items \ C : (Exists(i))' <=> Exists(i)
  BY DEF Exists
<1>6. RequestInTime(c)'
  BY <1>1 DEF FeedOf, RequestInTime, feedVars
<1>a. Since(c)' = Since(c) /\ \A i \in Items \ C : Heard(c, i) => Heard(c, i)'
  BY DEF Since, Heard, feedVars
<1>b. RowsTold(c)'
  <2>1. \A i \in Items \ C : Exists(i)' => Heard(c, i)' \/ changedAt'[i] - db'[i].stamp < Overlap
    BY <1>1, <1>5, <1>a DEF FeedOf, RowsTold
  <2>2. \A i \in C : Exists(i)' => Heard(c, i)' \/ changedAt'[i] - db'[i].stamp < Overlap
    BY DEF Heard, Exists
  <2>3. QED  BY <2>1, <2>2 DEF RowsTold
<1>c. DeletesTold(c)'
  <2>1. SUFFICES ASSUME NEW i \in Tasks, i \in gone'
                 PROVE  \/ Heard(c, i)'
                        \/ \E d \in tombs' : d.item = i /\ changedAt'[i] - d.stamp < Overlap
                        \/ changedAt'[i] - Overlap < now - Retention
    BY DEF DeletesTold, feedVars
  <2>2. CASE i \in C
    BY <2>1, <2>2, CollectionsDiffer DEF Heard
  <2>3. CASE i \in Items \ C
    BY <1>1, <1>a, <2>1, <2>3 DEF FeedOf, DeletesTold
  <2>4. QED  BY <2>2, <2>3 DEF Items
<1>7. PageTrue(c)'
  <2>1. \A r \in page[c] : changedAt'[r.item] < started[c] => r.item \in Items \ C
    BY <1>3, <1>4
  <2>2. QED  BY <1>1, <2>1 DEF FeedOf, PageTrue, Exists, feedVars
<1>8. PageFull(c)'
  <2>1. \A i \in Items : HasRead(c, i)' /\ changedAt'[i] < started[c] => i \in Items \ C
    BY <1>3 DEF HasRead, feedVars
  <2>2. QED  BY <1>1, <2>1 DEF FeedOf, PageFull, HasRead, Due, Exists, feedVars
<1>9. DropsFull(c)'
  <2>1. \A i \in Tasks : phase[c] = "reply" /\ changedAt'[i] < started[c] => i \in Items \ C
    BY <1>3 DEF Items
  <2>2. QED  BY <1>1, <2>1 DEF FeedOf, DropsFull, Overdue, Floor, feedVars
<1>10. PurgesSeen(c)'
  <2>1. SUFFICES ASSUME NEW i \in Projects, i \in gone', i \notin unsure'[c]
                 PROVE  /\ Forgotten(c, i) \/ Overdue(c)
                        /\ \A r \in page[c] : r.item = i => r.soft \/ started[c] - Overlap < now - Retention
    BY DEF PurgesSeen, Forgotten, Overdue, Floor, feedVars
  <2>2. CASE i \in Items \ C
    BY <1>1, <2>1, <2>2 DEF FeedOf, PurgesSeen
  <2>3. CASE i \in C
    <3>1. Expired(i) /\ i \notin unsure[c]
      BY <2>1, <2>3, CollectionsDiffer
    <3>2. QED  BY <1>1, <3>1, PurgeIsKnown
  <2>4. QED  BY <2>2, <2>3 DEF Items
<1>11. UpToDate(c)'
  <2>1. \A i \in Items : changedAt'[i] < cursor[c] => i \in Items \ C
    BY <1>3
  <2>2. QED  BY <1>1, <2>1 DEF FeedOf, UpToDate, InSync, Exists, feedVars
<1>12. QED  BY <1>6, <1>b, <1>c, <1>7, <1>8, <1>9, <1>10, <1>11 DEF FeedOf

\* A second passes.
LEMMA TickKeepsFeed ==
    ASSUME Inv, Tick
    PROVE  Feed'
<1> USE TimesAreNumbers
<1> SUFFICES ASSUME NEW c \in Clients
             PROVE  FeedOf(c)'
  BY DEF Feed
<1>1. FeedOf(c) /\ TypeOK
  BY DEF Inv, Feed, Tables
<1>2. now' = now + 1 /\ UNCHANGED <<serverVars, feedVars, unsure>>
  BY DEF Tick
<1>3. now \in Nat /\ cursor[c] \in Nat /\ started[c] \in Nat /\ \A i \in Items : changedAt[i] \in Nat
  BY <1>1 DEF TypeOK
<1>4. RequestInTime(c)'
  BY <1>1, <1>2, <1>3 DEF FeedOf, RequestInTime, feedVars
<1>5. \A i \in Items : Heard(c, i) => Heard(c, i)'
  BY <1>2, <1>3 DEF Heard, Since, feedVars, serverVars
<1>6. RowsTold(c)' /\ DeletesTold(c)'
  <2>1. \A i \in Items : changedAt[i] - Overlap < now - Retention => changedAt[i] - Overlap < (now + 1) - Retention
    BY <1>3
  <2>2. QED  BY <1>1, <1>2, <1>5, <2>1 DEF FeedOf, RowsTold, DeletesTold, Exists, serverVars, Items
<1>7. Overdue(c) => Overdue(c)'
  BY <1>2, <1>3 DEF Overdue, Floor, feedVars
<1>8. PurgesSeen(c)'
  <2>1. started[c] - Overlap < now - Retention => started[c] - Overlap < (now + 1) - Retention
    BY <1>3
  <2>2. QED  BY <1>1, <1>2, <1>7, <2>1 DEF FeedOf, PurgesSeen, Forgotten, feedVars, serverVars
<1>9. QED
  BY <1>1, <1>2, <1>4, <1>6, <1>7, <1>8
  DEF FeedOf, PageTrue, PageFull, HasRead, Due, DropsFull, UpToDate, InSync, Exists, feedVars, serverVars
\* Every step of the server's transactions and jobs keeps what the clients hold.
LEMMA ServerKeepsFeed ==
    ASSUME Inv, TypeOK',
           \/ \E t \in Txns, i \in Items, op \in Ops : Flush(t, i, op)
           \/ \E t \in Txns : CommitSave(t) \/ CommitDelete(t) \/ Rollback(t)
           \/ SelectExpired \/ DeleteDoomed \/ PurgeFails
    PROVE  Feed'
<1> USE CollectionsDiffer
<1>t. TypeOK /\ Tables
  BY DEF Inv, Tables
<1>1. CASE UNCHANGED <<now, db, gone, tombs, changedAt, feedVars, unsure>>
  BY <1>1 DEF Inv, Feed, FeedOf, RequestInTime, RowsTold, DeletesTold, Heard, Since, PageTrue, PageFull, HasRead, Due,
              DropsFull, Overdue, Floor, PurgesSeen, Forgotten, UpToDate, InSync, Exists, feedVars
<1>2. ASSUME NEW t \in Txns, CommitSave(t)
      PROVE  Feed'
  <2>1. PICK w \in txn[t] :
          /\ db' = [db EXCEPT ![w.item] = [version |-> @.version + 1, soft |-> w.op = "soft_delete", stamp |-> w.stamp]]
          /\ changedAt' = [changedAt EXCEPT ![w.item] = now]
          /\ Report({w.item}, Late(w))
          /\ UNCHANGED <<now, gone, tombs, feedVars>>
    BY <1>2 DEF CommitSave
  <2>2. w.item \in Items /\ w.item \notin gone
    BY <1>t DEF Tables, OpenWrites, TypeOK
  <2>3. /\ changedAt'[w.item] = now /\ db'[w.item].stamp = w.stamp
        /\ \A i \in Items \ {w.item} : db'[i] = db[i] /\ changedAt'[i] = changedAt[i]
    BY <1>t, <2>1, <2>2 DEF TypeOK
  <2> DEFINE C == {w.item}
  <2>4. \A e \in Clients : unsure'[e] = (unsure[e] \ C) \cup Late(w)
    BY <2>1 DEF Report
  <2>5. \A i \in C : i \in Late(w) \/ (i \notin gone' /\ now - db'[i].stamp < Overlap)
    <3>1. now \in Nat /\ w.stamp \in Nat /\ Overlap \in Nat
      BY <1>t, TimesAreNumbers DEF TypeOK
    <3>2. QED  BY <2>1, <2>2, <2>3, <3>1 DEF Late
  <2>6. /\ C \in SUBSET Items /\ gone \subseteq gone' /\ tombs \subseteq tombs' /\ UNCHANGED <<feedVars, now>>
        /\ \A i \in Items \ C : db'[i] = db[i] /\ changedAt'[i] = changedAt[i] /\ (i \in gone' => i \in gone)
        /\ \A i \in C : changedAt'[i] = now
        /\ \A e \in Clients : \A i \in Items \ C : i \in unsure[e] => i \in unsure'[e]
        /\ \A e \in Clients : \A i \in C : i \in unsure'[e] \/ (i \notin gone' /\ now - db'[i].stamp < Overlap)
    BY <2>1, <2>2, <2>3, <2>4, <2>5
  <2> HIDE DEF C
  <2>7. QED  BY <2>6, ChangesKeepFeed
<1>3. ASSUME NEW t \in Txns, CommitDelete(t)
      PROVE  Feed'
  <2>1. PICK w \in txn[t] :
          /\ w.op = "delete"
          /\ gone' = gone \cup Removed(w.item)
          /\ tombs' = tombs \cup TombsOf(w)
          /\ changedAt' = [i \in Items |-> IF i \in Removed(w.item) THEN now ELSE changedAt[i]]
          /\ txn' = [txn EXCEPT ![t] = {}]
          /\ Report({w.item}, Late(w) \cup (Removed(w.item) \ {w.item}))
          /\ UNCHANGED <<now, db, feedVars>>
    BY <1>3 DEF CommitDelete
  <2> DEFINE C == Removed(w.item)
  <2>2. w.item \in C /\ C \subseteq Tasks
    BY <1>t, <2>1, DeleteIsHeld
  <2>3. \A e \in Clients : unsure'[e] = (unsure[e] \ {w.item}) \cup (Late(w) \cup (C \ {w.item}))
    BY <2>1 DEF Report
  <2>4. w.item \in Late(w) \/ \E d \in tombs' : d.item = w.item /\ now - d.stamp < Overlap
    <3>1. now \in Nat /\ w.stamp \in Nat /\ Overlap \in Nat
      BY <1>t, TimesAreNumbers DEF TypeOK
    <3> DEFINE d == [item |-> w.item, stamp |-> w.stamp]
    <3>2. d \in tombs' /\ d.item = w.item /\ d.stamp = w.stamp
      BY <2>1 DEF TombsOf
    <3> HIDE DEF d
    <3>3. QED  BY <3>1, <3>2 DEF Late
  <2> HIDE DEF C
  <2>5. C \in SUBSET Items /\ gone' = gone \cup C
    BY <2>1, <2>2 DEF C, Items
  <2>6. /\ gone \subseteq gone' /\ tombs \subseteq tombs' /\ UNCHANGED <<feedVars, now>>
        /\ \A i \in Items \ C : db'[i] = db[i] /\ changedAt'[i] = changedAt[i] /\ (i \in gone' => i \in gone)
        /\ \A i \in C : changedAt'[i] = now
    BY <2>1, <2>5 DEF C
  <2>7. /\ \A e \in Clients : \A i \in Items \ C : i \in unsure[e] => i \in unsure'[e]
        /\ \A e \in Clients : \A i \in C :
               \/ i \in unsure'[e]
               \/ i \in Tasks /\ i \in gone' /\ \E d \in tombs' : d.item = i /\ now - d.stamp < Overlap
    BY <2>2, <2>3, <2>4, <2>5
  <2>8. QED  BY <2>5, <2>6, <2>7, ChangesKeepFeed
<1>4. CASE DeleteDoomed
  <2> DEFINE C == UNION {Removed(i) : i \in doomed}
  <2>1. /\ gone' = gone \cup C
        /\ changedAt' = [i \in Items |-> IF i \in C THEN now ELSE changedAt[i]]
        /\ Report({}, {i \in C : ~(i \in Projects /\ Expired(i))})
        /\ \A i \in doomed : \A j \in Family(i) : ~Open(j)
        /\ UNCHANGED <<now, db, tombs, feedVars>>
    BY <1>4 DEF DeleteDoomed
  <2>2. C \in SUBSET Items
    BY <1>t, <2>1, DoomedAreHeld
  <2> HIDE DEF C
  <2>3. \A e \in Clients : unsure'[e] = unsure[e] \cup {i \in C : ~(i \in Projects /\ Expired(i))}
    BY <2>1 DEF Report
  <2>4. /\ gone \subseteq gone' /\ tombs \subseteq tombs' /\ UNCHANGED <<feedVars, now>>
        /\ \A i \in Items \ C : db'[i] = db[i] /\ changedAt'[i] = changedAt[i] /\ (i \in gone' => i \in gone)
        /\ \A i \in C : changedAt'[i] = now
    BY <2>1, <2>2
  <2>5. /\ \A e \in Clients : \A i \in Items \ C : i \in unsure[e] => i \in unsure'[e]
        /\ \A e \in Clients : \A i \in C :
               \/ i \in unsure'[e]
               \/ i \in Projects /\ i \in gone' /\ i \notin unsure[e] /\ Expired(i)
    BY <2>1, <2>3
  <2>6. QED  BY <2>2, <2>4, <2>5, ChangesKeepFeed
<1>5. QED  BY <1>1, <1>2, <1>3, <1>4 DEF Flush, Rollback, SelectExpired, PurgeFails

\* A tombstone that is purged is older than the retention.
LEMMA PurgeKeepsFeed ==
    ASSUME Inv, PurgeTombstones
    PROVE  Feed'
<1> USE TimesAreNumbers
<1> SUFFICES ASSUME NEW c \in Clients
             PROVE  FeedOf(c)'
  BY DEF Feed
<1>1. FeedOf(c) /\ TypeOK
  BY DEF Inv, Feed, Tables
<1>2. tombs' = {d \in tombs : d.stamp >= now - Retention} /\ UNCHANGED <<now, db, gone, changedAt, feedVars, unsure>>
  BY DEF PurgeTombstones
<1>3. DeletesTold(c)'
  <2>1. SUFFICES ASSUME NEW i \in Tasks, i \in gone, ~Heard(c, i), ~(changedAt[i] - Overlap < now - Retention)
                 PROVE  \E d \in tombs' : d.item = i /\ changedAt[i] - d.stamp < Overlap
    BY <1>2 DEF DeletesTold, Heard, Since, feedVars
  <2>2. PICK d \in tombs : d.item = i /\ changedAt[i] - d.stamp < Overlap
    BY <1>1, <2>1 DEF FeedOf, DeletesTold
  <2>3. changedAt[i] \in Nat /\ d.stamp \in Nat /\ now \in Nat
    BY <1>1 DEF TypeOK, Items
  <2>4. d \in tombs'
    BY <1>2, <2>1, <2>2, <2>3
  <2>5. QED  BY <2>2, <2>4
<1>4. QED
  BY <1>1, <1>2, <1>3
  DEF FeedOf, RequestInTime, RowsTold, Heard, Since, PageTrue, PageFull, HasRead, Due,
      DropsFull, Overdue, Floor, PurgesSeen, Forgotten, UpToDate, InSync, Exists, feedVars

(***************************************************************************)
(* Nothing is missed: the steps of a request.                              *)
(***************************************************************************)

\* A step of one client leaves another one's feed alone.
LEMMA Bystander ==
    ASSUME NEW e \in Clients, FeedOf(e), UNCHANGED <<now, serverVars>>,
           UNCHANGED <<cursor[e], copy[e], phase[e], started[e], page[e], drops[e], cut[e], unsure[e]>>
    PROVE  FeedOf(e)'
BY DEF FeedOf, RequestInTime, RowsTold, DeletesTold, Heard, Since, PageTrue, PageFull, HasRead, Due, DropsFull,
       Overdue, Floor, PurgesSeen, Forgotten, UpToDate, InSync, Exists, serverVars

\* What the client has heard of it does not forget.
LEMMA HeardKeepsTold ==
    ASSUME NEW c \in Clients, FeedOf(c), UNCHANGED <<now, serverVars>>,
           \A i \in Items : Heard(c, i) => Heard(c, i)'
    PROVE  RowsTold(c)' /\ DeletesTold(c)'
BY DEF FeedOf, RowsTold, DeletesTold, Exists, Items, serverVars

LEMMA BeginKeepsFeed ==
    ASSUME Inv, NEW c \in Clients, BeginPoll(c)
    PROVE  FeedOf(c)'
<1> USE TimesAreNumbers
<1>1. FeedOf(c) /\ TypeOK
  BY DEF Inv, Feed, Tables
<1>2. /\ phase[c] = "idle" /\ phase'[c] = "tasks" /\ started'[c] = now
      /\ UNCHANGED <<now, serverVars, page, drops, cut, unsure>>
  BY <1>1 DEF BeginPoll, TypeOK
<1>3. page[c] = {} /\ drops[c] = {}
  BY <1>1, <1>2 DEF FeedOf, RequestInTime
<1>4. now \in Nat /\ now > 0 /\ cursor[c] \in Nat /\ cursor[c] <= now
  BY <1>1 DEF TypeOK, FeedOf, RequestInTime
<1>5. \/ cursor'[c] = 0 /\ \A i \in Items : copy'[c][i] = Absent
      \/ cursor'[c] = cursor[c] /\ copy'[c] = copy[c]
  <2> DEFINE nothing == [i \in Items |-> Absent]
  <2>1. \A i \in Items : nothing[i] = Absent
    OBVIOUS
  <2>2. \/ UNCHANGED <<cursor, copy>>
        \/ cursor' = [cursor EXCEPT ![c] = 0] /\ copy' = [copy EXCEPT ![c] = nothing]
    BY DEF BeginPoll
  <2> HIDE DEF nothing
  <2>3. CASE UNCHANGED <<cursor, copy>>
    BY <2>3
  <2>4. CASE cursor' = [cursor EXCEPT ![c] = 0] /\ copy' = [copy EXCEPT ![c] = nothing]
    BY <1>1, <2>1, <2>4 DEF TypeOK
  <2>5. QED  BY <2>2, <2>3, <2>4
<1>6. RequestInTime(c)'
  BY <1>1, <1>2, <1>3, <1>4, <1>5 DEF FeedOf, RequestInTime
<1>7. RowsTold(c)' /\ DeletesTold(c)'
  <2>1. Since(c) <= Since(c)' /\ Since(c) \in Nat /\ Since(c)' \in Nat
    BY <1>2, <1>4, <1>5 DEF Since
  <2>2. \A i \in Items : changedAt[i] \in Nat
    BY <1>1 DEF TypeOK
  <2>3. \A i \in Items : Heard(c, i) => Heard(c, i)'
    BY <1>2, <2>1, <2>2 DEF Heard, serverVars
  <2>4. QED  BY <1>1, <1>2, <2>3, HeardKeepsTold
<1>8. PageTrue(c)' /\ PageFull(c)'
  BY <1>2, <1>3 DEF PageTrue, PageFull, HasRead
<1>9. DropsFull(c)'
  BY <1>2, <1>3 DEF DropsFull
<1>10. PurgesSeen(c)'
  <2>1. (\A i \in Items : copy'[c][i] = Absent) => \A i \in Projects : Forgotten(c, i)'
    BY DEF Forgotten, Absent, Items
  <2>2. cursor'[c] = cursor[c] => (Overdue(c)' <=> Overdue(c))
    BY <1>2 DEF Overdue, Floor
  <2>3. QED  BY <1>1, <1>2, <1>3, <1>5, <2>1, <2>2 DEF FeedOf, PurgesSeen, Forgotten, serverVars
<1>11. UpToDate(c)'
  BY <1>1, <1>2, <1>5 DEF FeedOf, UpToDate, InSync, Exists, serverVars
<1>12. QED  BY <1>6, <1>7, <1>8, <1>9, <1>10, <1>11 DEF FeedOf
\* What ReadTasks and ReadProjects have in common.
LEMMA PageRead ==
    ASSUME Inv, NEW c \in Clients, NEW S \in SUBSET Items, ReadRows(c, S),
           phase[c] # "idle", phase'[c] \in {"projects", "deletions"},
           UNCHANGED <<now, serverVars, cursor, copy, started, drops, unsure>>, drops[c] = {},
           \A i \in Items : HasRead(c, i)' => HasRead(c, i) \/ i \in S
    PROVE  FeedOf(c)'
<1> USE TimesAreNumbers
<1> DEFINE first == FirstPage(Selected(c, S))
           rows == {[item |-> i, version |-> db[i].version, soft |-> db[i].soft] : i \in first}
<1>1. FeedOf(c) /\ TypeOK /\ Tables
  BY DEF Inv, Feed, Tables
<1>2. first \subseteq Selected(c, S)
  BY DEF FirstPage
<1>3. page'[c] = page[c] \cup rows /\ cut'[c] = cut[c] \cup (Selected(c, S) \ first)
  BY <1>1 DEF ReadRows, TypeOK
<1>4. \A r \in rows : /\ r.item \in S /\ Exists(r.item)
                      /\ r.version = db[r.item].version /\ r.soft = db[r.item].soft
  <2>1. \A i \in first : i \in S /\ Exists(i)
    BY <1>2 DEF Selected
  <2> HIDE DEF first
  <2>2. QED  BY <2>1
<1>5. ASSUME NEW i \in first
      PROVE  \E r \in rows : r.item = i
  <2> DEFINE row == [item |-> i, version |-> db[i].version, soft |-> db[i].soft]
  <2>1. row \in rows
    OBVIOUS
  <2>2. row.item = i
    OBVIOUS
  <2>3. QED  BY <2>1, <2>2
<1> HIDE DEF rows, first
<1>6. ASSUME NEW i \in S, Exists(i), Due(c, i)
      PROVE  i \in Selected(c, S)
  <2>1. changedAt[i] \in Nat /\ db[i].stamp \in Nat /\ cursor[c] \in Nat
    BY <1>1 DEF TypeOK, Row
  <2>2. cursor[c] # 0 => changedAt[i] - db[i].stamp < Overlap
    BY <1>1, <1>6, <2>1 DEF FeedOf, RowsTold, Heard, Since, Due
  <2>3. cursor[c] # 0 => db[i].stamp > Floor(c)
    BY <1>6, <2>1, <2>2 DEF Due, Floor
  <2>4. QED  BY <1>6, <2>3 DEF Selected, Due
<1>7. RequestInTime(c)'
  BY <1>1 DEF FeedOf, RequestInTime, serverVars
<1>a. RowsTold(c)' /\ DeletesTold(c)'
  <2>1. \A i \in Items : Heard(c, i) => Heard(c, i)'
    BY DEF Heard, Since, serverVars
  <2>2. QED  BY <1>1, <2>1, HeardKeepsTold
<1>8. PageTrue(c)'
  BY <1>1, <1>3, <1>4 DEF FeedOf, PageTrue, Exists, serverVars
<1>9. PageFull(c)'
  <2>1. SUFFICES ASSUME NEW i \in Items, HasRead(c, i)', Exists(i), changedAt[i] < started[c], Due(c, i), i \notin cut'[c]
                 PROVE  \E r \in page'[c] : r.item = i
    BY DEF PageFull, Exists, Due, serverVars
  <2>2. CASE i \in S
    BY <1>3, <1>5, <1>6, <2>1, <2>2
  <2>3. CASE i \notin S
    <3>1. HasRead(c, i) /\ i \notin cut[c]
      BY <1>3, <2>1, <2>3
    <3>2. \E r \in page[c] : r.item = i
      BY <1>1, <2>1, <3>1 DEF FeedOf, PageFull
    <3>3. QED  BY <1>3, <3>2
  <2>4. QED  BY <2>2, <2>3
<1>10. DropsFull(c)'
  BY <1>1 DEF FeedOf, DropsFull, serverVars
<1>11. PurgesSeen(c)'
  <2>1. \A r \in rows : r.item \notin gone
    BY <1>4 DEF Exists
  <2>2. QED  BY <1>1, <1>3, <2>1 DEF FeedOf, PurgesSeen, Overdue, Floor, Forgotten, serverVars
<1>12. UpToDate(c)'
  BY <1>1 DEF FeedOf, UpToDate, InSync, Exists, serverVars
<1>13. QED  BY <1>7, <1>a, <1>8, <1>9, <1>10, <1>11, <1>12 DEF FeedOf

LEMMA DeletionsKeepFeed ==
    ASSUME Inv, NEW c \in Clients, ReadDeletions(c)
    PROVE  FeedOf(c)'
<1> USE TimesAreNumbers
<1> DEFINE first == FirstTombs(SelectedTombs(c))
           others == {d.item : d \in SelectedTombs(c) \ first}
<1>1. FeedOf(c) /\ TypeOK /\ Tables
  BY DEF Inv, Feed, Tables
<1>2. /\ phase[c] = "deletions" /\ phase'[c] = "reply"
      /\ UNCHANGED <<now, serverVars, cursor, copy, started, page, unsure>>
  BY <1>1 DEF ReadDeletions, TypeOK
<1>3. first \subseteq SelectedTombs(c) /\ SelectedTombs(c) \subseteq tombs
  BY DEF FirstTombs, SelectedTombs
<1>4. drops'[c] = {d.item : d \in first} /\ cut'[c] = cut[c] \cup others
  BY <1>1 DEF ReadDeletions, TypeOK
<1> HIDE DEF first
<1>5. drops'[c] \subseteq gone
  BY <1>1, <1>3, <1>4 DEF Tables, Listed
<1>6. ASSUME NEW i \in Tasks, cursor[c] # 0, i \in gone, cursor[c] <= changedAt[i],
             i \notin unsure[c], i \notin cut'[c], ~Overdue(c)
      PROVE  i \in drops'[c]
  <2>1. changedAt[i] \in Nat /\ cursor[c] \in Nat /\ now \in Nat
    BY <1>1 DEF TypeOK, Items
  <2>2. ~Heard(c, i)
    BY <1>6, <2>1 DEF Heard, Since
  <2>3. ~(changedAt[i] - Overlap < now - Retention)
    BY <1>6, <2>1 DEF Overdue, Floor
  <2>4. PICK d \in tombs : d.item = i /\ changedAt[i] - d.stamp < Overlap
    BY <1>1, <1>6, <2>2, <2>3 DEF FeedOf, DeletesTold
  <2>5. d.stamp \in Nat
    BY <1>1 DEF TypeOK
  <2>6. d.stamp > Floor(c)
    BY <1>6, <2>1, <2>4, <2>5 DEF Floor
  <2>7. d \in SelectedTombs(c)
    BY <1>6, <2>6 DEF SelectedTombs
  <2>8. d \in first
    BY <1>4, <1>6, <2>4, <2>7
  <2>9. QED  BY <1>4, <2>4, <2>8
<1>7. DropsFull(c)'
  BY <1>2, <1>5, <1>6 DEF DropsFull, Overdue, Floor, serverVars
<1>8. RequestInTime(c)'
  BY <1>1, <1>2 DEF FeedOf, RequestInTime
<1>9. RowsTold(c)' /\ DeletesTold(c)'
  <2>1. \A i \in Items : Heard(c, i) => Heard(c, i)'
    BY <1>2 DEF Heard, Since, serverVars
  <2>2. QED  BY <1>1, <1>2, <2>1, HeardKeepsTold
<1>10. PageTrue(c)' /\ PurgesSeen(c)' /\ UpToDate(c)'
  BY <1>1, <1>2 DEF FeedOf, PageTrue, PurgesSeen, Overdue, Floor, Forgotten, UpToDate, InSync, Exists, serverVars
<1>11. PageFull(c)'
  BY <1>1, <1>2, <1>4 DEF FeedOf, PageFull, HasRead, Due, Exists, serverVars
<1>12. QED  BY <1>7, <1>8, <1>9, <1>10, <1>11 DEF FeedOf

\* What is merged is in step with the tables, but for what changed after the request began
\* and what the client stays unsure of.
LEMMA MergeIsUpToDate ==
    ASSUME Inv, NEW c \in Clients, phase[c] = "reply", NEW i \in Items, changedAt[i] < started[c],
           i \notin cut[c],
           i \in Settled(c) \/ (i \notin unsure[c] /\ ~Overdue(c))
    PROVE  IF ~Exists(i) \/ db[i].soft
           THEN Merged(c, i).version = 0 \/ Merged(c, i).soft
           ELSE Merged(c, i) = [version |-> db[i].version, soft |-> FALSE]
<1>1. FeedOf(c) /\ TypeOK /\ Tables
  BY DEF Inv, Feed, Tables
<1>2. CASE i \in drops[c]
  <2>1. ~Exists(i)
    BY <1>1, <1>2 DEF FeedOf, DropsFull, Exists
  <2>2. QED  BY <1>2, <2>1 DEF Merged, Absent
<1>3. CASE i \notin drops[c] /\ \E r \in page[c] : r.item = i
  <2> DEFINE r == CHOOSE x \in page[c] : x.item = i
  <2>1. r \in page[c] /\ r.item = i
    BY <1>3
  <2>2. Merged(c, i) = [version |-> r.version, soft |-> r.soft]
    BY <1>3 DEF Merged
  <2> HIDE DEF r
  <2>3. Exists(i) /\ r.version = db[i].version /\ r.soft = db[i].soft
    BY <1>1, <2>1 DEF FeedOf, PageTrue
  <2>4. db[i].soft \in BOOLEAN
    BY <1>1 DEF TypeOK, Row
  <2>5. Merged(c, i) = [version |-> db[i].version, soft |-> db[i].soft]
    BY <2>2, <2>3
  <2>6. CASE db[i].soft
    BY <2>5, <2>6
  <2>7. CASE ~db[i].soft
    <3>1. db[i].soft = FALSE
      BY <2>4, <2>7
    <3>2. QED  BY <2>3, <2>5, <3>1
  <2>8. QED  BY <2>6, <2>7
<1>4. CASE i \notin drops[c] /\ ~\E r \in page[c] : r.item = i
  <2>1. Merged(c, i) = copy[c][i]
    BY <1>4 DEF Merged
  <2>2. ~(Exists(i) /\ Due(c, i))
    BY <1>1, <1>4 DEF FeedOf, PageFull, HasRead
  <2>3. changedAt[i] \in Nat /\ cursor[c] \in Nat /\ db[i].version \in Nat
    BY <1>1 DEF TypeOK, Row
  <2>4. CASE cursor[c] = 0
    <3>1. copy[c][i] = Absent /\ (~Exists(i) \/ db[i].soft)
      BY <1>1, <2>2, <2>4 DEF FeedOf, RequestInTime, Due
    <3>2. QED  BY <2>1, <3>1 DEF Absent
  <2>a. cursor[c] # 0 => i \notin unsure[c] /\ ~Overdue(c)
    BY <1>4 DEF Settled
  <2>5. CASE cursor[c] # 0 /\ changedAt[i] < cursor[c]
    BY <1>1, <2>1, <2>a, <2>5 DEF FeedOf, UpToDate, InSync
  <2>6. CASE cursor[c] # 0 /\ ~(changedAt[i] < cursor[c])
    <3>1. ~Exists(i)
      BY <2>2, <2>3, <2>a, <2>6 DEF Due
    <3>2. i \in gone
      BY <1>1, <2>3, <2>6, <3>1 DEF Tables, Stamps, Exists
    <3>3. i \notin Tasks
      BY <1>1, <1>4, <2>3, <2>a, <2>6, <3>2 DEF FeedOf, DropsFull
    <3>4. Forgotten(c, i)
      BY <1>1, <2>a, <2>6, <3>2, <3>3 DEF FeedOf, PurgesSeen, Items
    <3>5. QED  BY <2>1, <3>1, <3>4 DEF Forgotten
  <2>7. QED  BY <2>4, <2>5, <2>6
<1>5. QED  BY <1>2, <1>3, <1>4

LEMMA ApplyKeepsFeed ==
    ASSUME Inv, NEW c \in Clients, Apply(c)
    PROVE  FeedOf(c)'
<1> USE TimesAreNumbers
<1>1. FeedOf(c) /\ TypeOK
  BY DEF Inv, Feed, Tables
<1>2. phase[c] = "reply" /\ UNCHANGED <<now, serverVars>>
  BY DEF Apply
<1>3. phase'[c] = "idle" /\ page'[c] = {} /\ drops'[c] = {} /\ cut'[c] = {}
  BY <1>1 DEF Apply, EndPoll, TypeOK
<1>4. cursor'[c] = started[c] /\ \A i \in Items : copy'[c][i] = Merged(c, i)
  <2> DEFINE merged == [i \in Items |-> Merged(c, i)]
  <2>1. \A i \in Items : merged[i] = Merged(c, i)
    OBVIOUS
  <2>2. copy' = [copy EXCEPT ![c] = merged] /\ cursor' = [cursor EXCEPT ![c] = started[c]]
    BY DEF Apply
  <2> HIDE DEF merged
  <2>3. QED  BY <1>1, <2>1, <2>2 DEF TypeOK
<1>5. started[c] > 0 /\ started[c] <= now /\ started[c] \in Nat /\ cursor[c] <= started[c] /\ cursor[c] \in Nat
  BY <1>1, <1>2 DEF FeedOf, RequestInTime, TypeOK
<1>6. unsure'[c] = ((IF Overdue(c) THEN Items ELSE unsure[c]) \ Settled(c)) \cup cut[c]
  BY <1>1 DEF Apply, TypeOK
<1>7. \A i \in Items : i \notin unsure'[c] => i \notin cut[c] /\ (i \in Settled(c) \/ (i \notin unsure[c] /\ ~Overdue(c)))
  BY <1>6
<1>8. RequestInTime(c)'
  BY <1>2, <1>3, <1>4, <1>5 DEF RequestInTime
<1>9. RowsTold(c)' /\ DeletesTold(c)'
  <2>1. Since(c) <= Since(c)' /\ Since(c)' = started[c]
    BY <1>2, <1>4, <1>5 DEF Since
  <2>2. ASSUME NEW i \in Items, Heard(c, i)
        PROVE  Heard(c, i)'
    <3>1. changedAt[i] \in Nat
      BY <1>1 DEF TypeOK
    <3>2. CASE changedAt[i] < Since(c)
      <4>1. changedAt[i] < Since(c)'
        BY <1>2, <1>5, <2>1, <3>1, <3>2 DEF Since
      <4>2. QED  BY <1>2, <4>1 DEF Heard, serverVars
    <3>3. CASE i \in unsure[c] /\ i \in Settled(c)
      BY <1>2, <2>1, <3>3 DEF Heard, Settled, serverVars
    <3>4. CASE i \in unsure[c] /\ i \notin Settled(c)
      BY <1>6, <3>4 DEF Heard
    <3>5. QED  BY <2>2, <3>2, <3>3, <3>4 DEF Heard
  <2>3. QED  BY <1>1, <1>2, <2>2, HeardKeepsTold
<1>10. PageTrue(c)' /\ PageFull(c)' /\ DropsFull(c)'
  BY <1>3 DEF PageTrue, PageFull, HasRead, DropsFull
<1>11. UpToDate(c)'
  <2>1. SUFFICES ASSUME NEW i \in Items, changedAt[i] < started[c], i \notin unsure'[c]
                 PROVE  InSync(c, i)'
    BY <1>2, <1>4 DEF UpToDate, serverVars
  <2>2. QED  BY <1>2, <1>4, <1>7, <2>1, MergeIsUpToDate DEF InSync, Exists, serverVars
<1>12. PurgesSeen(c)'
  <2>1. SUFFICES ASSUME NEW i \in Projects, i \in gone, i \notin unsure'[c]
                 PROVE  Merged(c, i).version = 0 \/ Merged(c, i).soft \/ Overdue(c)'
    BY <1>2, <1>3, <1>4 DEF PurgesSeen, Forgotten, Items, serverVars
  <2>2. i \in Items /\ ~Exists(i)
    BY <2>1 DEF Items, Exists
  <2>3. CASE i \in Settled(c)
    BY <1>2, <1>7, <2>1, <2>2, <2>3, MergeIsUpToDate DEF Settled
  <2>4. CASE i \notin Settled(c)
    <3>1. /\ Forgotten(c, i)
          /\ \A r \in page[c] : r.item = i => r.soft \/ started[c] - Overlap < now - Retention
      BY <1>1, <1>7, <2>1, <2>2, <2>4 DEF FeedOf, PurgesSeen
    <3>2. Overdue(c)' <=> started[c] - Overlap < now - Retention
      BY <1>2, <1>4, <1>5 DEF Overdue, Floor
    <3>3. CASE i \in drops[c]
      BY <3>3 DEF Merged, Absent
    <3>4. CASE i \notin drops[c] /\ \E r \in page[c] : r.item = i
      <4> DEFINE r == CHOOSE x \in page[c] : x.item = i
      <4>1. r \in page[c] /\ r.item = i
        BY <3>4
      <4>2. Merged(c, i) = [version |-> r.version, soft |-> r.soft]
        BY <3>4 DEF Merged
      <4> HIDE DEF r
      <4>3. QED  BY <3>1, <3>2, <4>1, <4>2
    <3>5. CASE i \notin drops[c] /\ ~\E r \in page[c] : r.item = i
      BY <3>1, <3>5 DEF Merged, Forgotten
    <3>6. QED  BY <3>3, <3>4, <3>5
  <2>5. QED  BY <2>3, <2>4
<1>13. QED  BY <1>8, <1>9, <1>10, <1>11, <1>12 DEF FeedOf

LEMMA LossKeepsFeed ==
    ASSUME Inv, NEW c \in Clients, LoseReply(c)
    PROVE  FeedOf(c)'
<1>1. FeedOf(c) /\ TypeOK
  BY DEF Inv, Feed, Tables
<1>2. phase[c] # "idle" /\ UNCHANGED <<now, serverVars, cursor, copy, unsure>>
  BY DEF LoseReply
<1>3. phase'[c] = "idle" /\ page'[c] = {} /\ drops'[c] = {} /\ cut'[c] = {}
  BY <1>1 DEF LoseReply, EndPoll, TypeOK
<1>4. RequestInTime(c)'
  BY <1>1, <1>2, <1>3 DEF FeedOf, RequestInTime
<1>5. RowsTold(c)' /\ DeletesTold(c)'
  <2>1. started[c] <= now /\ started[c] \in Nat /\ now \in Nat /\ cursor[c] \in Nat
    BY <1>1, <1>2 DEF FeedOf, RequestInTime, TypeOK
  <2>2. \A i \in Items : changedAt[i] \in Nat
    BY <1>1 DEF TypeOK
  <2>3. \A i \in Items : Heard(c, i) => Heard(c, i)'
    BY <1>2, <1>3, <2>1, <2>2 DEF Heard, Since, serverVars
  <2>4. QED  BY <1>1, <1>2, <2>3, HeardKeepsTold
<1>6. PageTrue(c)' /\ PageFull(c)' /\ DropsFull(c)'
  BY <1>3 DEF PageTrue, PageFull, HasRead, DropsFull
<1>7. PurgesSeen(c)' /\ UpToDate(c)'
  BY <1>1, <1>2, <1>3 DEF FeedOf, PurgesSeen, Overdue, Floor, Forgotten, UpToDate, InSync, Exists, serverVars
<1>8. QED  BY <1>4, <1>5, <1>6, <1>7 DEF FeedOf

\* A step of a request keeps the feed of every client.
LEMMA RequestKeepsFeed ==
    ASSUME Inv, NEW c \in Clients,
           BeginPoll(c) \/ ReadTasks(c) \/ ReadProjects(c) \/ ReadDeletions(c) \/ Apply(c) \/ LoseReply(c)
    PROVE  Feed'
<1>1. FeedOf(c) /\ TypeOK
  BY DEF Inv, Feed, Tables
<1>2. FeedOf(c)'
  <2>1. CASE ReadTasks(c)
    <3>1. phase[c] = "tasks" /\ phase'[c] = "projects" /\ drops[c] = {}
      BY <1>1, <2>1 DEF ReadTasks, TypeOK, FeedOf, RequestInTime
    <3>2. \A i \in Items : HasRead(c, i)' => i \in Tasks
      BY <3>1 DEF HasRead
    <3>3. QED  BY <2>1, <3>1, <3>2, PageRead DEF ReadTasks, Items
  <2>2. CASE ReadProjects(c)
    <3>1. phase[c] = "projects" /\ phase'[c] = "deletions" /\ drops[c] = {}
      BY <1>1, <2>2 DEF ReadProjects, TypeOK, FeedOf, RequestInTime
    <3>2. \A i \in Items : HasRead(c, i) \/ i \in Projects
      BY <3>1 DEF HasRead, Items
    <3>3. QED  BY <2>2, <3>1, <3>2, PageRead DEF ReadProjects, Items
  <2>3. QED
    BY <2>1, <2>2, BeginKeepsFeed, DeletionsKeepFeed, ApplyKeepsFeed, LossKeepsFeed
<1>3. ASSUME NEW e \in Clients, e # c
      PROVE  FeedOf(e)'
  <2>1. FeedOf(e)
    BY DEF Inv, Feed
  <2>2. UNCHANGED <<now, serverVars>>
    BY DEF BeginPoll, ReadTasks, ReadProjects, ReadDeletions, Apply, LoseReply
  <2>3. UNCHANGED <<phase[e], started[e], page[e], drops[e], cut[e]>>
    BY <1>1, <1>3
    DEF BeginPoll, ReadTasks, ReadProjects, ReadRows, ReadDeletions, Apply, LoseReply, EndPoll, TypeOK
  <2>4. UNCHANGED <<cursor[e], copy[e], unsure[e]>>
    BY <1>1, <1>3
    DEF BeginPoll, ReadTasks, ReadProjects, ReadDeletions, Apply, LoseReply, TypeOK
  <2>5. QED  BY <2>1, <2>2, <2>3, <2>4, Bystander
<1>4. QED  BY <1>2, <1>3 DEF Feed

LEMMA InvStep ==
    ASSUME Inv, [Next]_vars
    PROVE  Inv'
<1>1. Tables' /\ TypeOK'
  BY TablesStep DEF Inv, Tables
<1>2. Feed'
  <2>1. CASE UNCHANGED vars
    BY <2>1 DEF vars, serverVars, feedVars, Inv, Feed, FeedOf, RequestInTime, RowsTold, DeletesTold, Heard, Since,
                PageTrue, PageFull, HasRead, Due, DropsFull, Overdue, Floor, PurgesSeen, Forgotten, UpToDate, InSync, Exists
  <2>2. CASE Next
    BY <1>1, <2>2, TickKeepsFeed, ServerKeepsFeed, PurgeKeepsFeed, RequestKeepsFeed DEF Next
  <2>3. QED  BY <2>1, <2>2
<1>3. QED  BY <1>1, <1>2 DEF Inv

LEMMA InvInit == Init => Inv
<1> SUFFICES ASSUME Init
             PROVE  Inv
  OBVIOUS
<1>1. Tables
  BY TypeInit DEF Init, Tables, RowLocks, OpenWrites, Stamps, Listed, Exists, Items
<1>2. Feed
  BY DEF Init, Feed, FeedOf, RequestInTime, RowsTold, DeletesTold, PageTrue, PageFull, HasRead, Due, DropsFull, PurgesSeen,
         Forgotten, UpToDate, Absent, Exists, Items
<1>3. QED  BY <1>1, <1>2 DEF Inv

\* The feed misses nothing but what the client is marked unsure of: with any number of
\* clients, writers and items, for every overlap, lag, limit, retention and cascade.
THEOREM SyncNothingMissed == Spec => []NothingMissed
<1>1. Init => Inv
  BY InvInit
<1>2. Inv /\ [Next]_vars => Inv'
  BY InvStep
<1>3. Inv => NothingMissed
  BY DEF Inv, Feed, FeedOf, UpToDate, NothingMissed
<1>4. QED  BY <1>1, <1>2, <1>3, PTL DEF Spec
=============================================================================
