------------------------------- MODULE Outbox -------------------------------
(***************************************************************************)
(* The event outbox and its webhook delivery                               *)
(* (apps/api/src/elliptic/modules/outbox/service.py, core/jobs.py).        *)
(*                                                                         *)
(* A writer appends an event row in its own transaction.  Pollers (the     *)
(* drain_outbox job of every API process) and admin requests (POST         *)
(* .../events/dispatch) drain due rows: one database transaction locks a   *)
(* batch with FOR UPDATE SKIP LOCKED, posts every row of it to every       *)
(* matching endpoint, writes the outcomes and commits.  An admin may       *)
(* requeue an event, register an endpoint or delete one at any moment.     *)
(* A process may die between any two steps; PostgreSQL then releases its   *)
(* row locks and forgets its uncommitted writes.                           *)
(*                                                                         *)
(* Abstractions: events are numbered in the order of created_at; an        *)
(* endpoint's organisation and event_types filter are the relation         *)
(* Matching; next_attempt_at is null, in the future or in the past.        *)
(***************************************************************************)
EXTENDS Naturals, FiniteSets

CONSTANTS
    Events,        \* event ids; their order is the order of created_at
    Orgs,          \* organisations
    OrgOf,         \* [Events -> Orgs]
    Endpoints,     \* webhook endpoint ids, each registered at most once
    Matching,      \* [Endpoints -> SUBSET Events]: org and event_types filter
    Raising,       \* endpoints whose POST raises something other than HTTPError
    Initially,     \* endpoints registered before the first event
    Pollers,       \* drain_outbox jobs, one per API process
    Requests,      \* admin dispatch requests
    Admins,        \* admins that requeue events
    MaxAttempts,   \* _MAX_ATTEMPTS
    BatchLimit,    \* limit of dispatch_pending
    MaxRequeues,   \* bound: requeue calls in a behaviour
    MaxCrashes     \* bound: process deaths in a behaviour

Workers == Pollers \cup Requests

ASSUME EventsAreNumbers == Events \subseteq Nat
ASSUME OrgsOfEvents == OrgOf \in [Events -> Orgs]
ASSUME MatchingIsARelation == Matching \in [Endpoints -> SUBSET Events]
ASSUME EndpointSubsets == Raising \subseteq Endpoints /\ Initially \subseteq Endpoints
ASSUME PollersAreNotRequests == Pollers \cap Requests = {}
ASSUME BoundsAreNumbers ==
    /\ MaxAttempts \in Nat \ {0} /\ BatchLimit \in Nat \ {0}
    /\ MaxRequeues \in Nat /\ MaxCrashes \in Nat

VARIABLES
    captured,   \* committed rows of event_outbox
    row,        \* [Events -> Row]: the committed columns of a row
    endpoints,  \* committed rows of webhook_endpoints
    removed,    \* endpoints that were deleted (an id is never reused)
    got,        \* [Endpoints -> SUBSET Events]: what each receiver accepted
    owed,       \* history: endpoints registered ever since e was captured
    pc,         \* [Workers -> ...]: where a worker is
    todo,       \* organisations a worker still has to drain
    batch,      \* rows a worker has locked
    eps,        \* the endpoints it read for this batch
    queue,      \* rows of the batch it has not settled
    ok,         \* rows of the batch that met no error
    cur,        \* the row being posted
    left,       \* targets of that row not yet posted to
    err,        \* error of that row is not None
    req,        \* [Admins -> SUBSET (Events \X Row)]: what a requeue has read
    requeues, crashes

rowVars == <<captured, row>>
endpointVars == <<endpoints, removed>>
workerVars == <<pc, todo, batch, eps, queue, ok, cur, left, err>>
postVars == <<cur, left, err>>
adminVars == <<req, requeues>>
vars == <<captured, row, endpoints, removed, got, owed, workerVars, adminVars, crashes>>

Row == [delivered : BOOLEAN,    \* delivered_at is not null
        failed    : BOOLEAN,
        attempts  : Nat,
        next      : {"null", "future", "past"},   \* next_attempt_at
        error     : BOOLEAN]    \* delivery_error is not null

\* The columns of a row that has just been captured.
Fresh == [delivered |-> FALSE, failed |-> FALSE, attempts |-> 0,
          next |-> "null", error |-> FALSE]

Pending(e) == e \in captured /\ ~row[e].delivered /\ ~row[e].failed
\* Mutant: a row that has been delivered is still selected.
Due_IgnoresDelivered(e) == e \in captured /\ ~row[e].failed /\ row[e].next # "future"
\* Mutant: only rows without a retry time are selected.
Due_NeverRetried(e) == Pending(e) /\ row[e].next = "null"
Due(e) == Pending(e) /\ row[e].next # "future"
\* Mutant: the batch is selected without FOR UPDATE.
Locked_Ignored == {}
Locked == UNION {batch[w] : w \in Workers}

\* The first rows of S in created_at order, at most BatchLimit of them.
FirstRows(S) == {e \in S : Cardinality({f \in S : f < e}) < BatchLimit}

\* What became of a POST: answered below 400; accepted, but the answer was lost
\* or late (httpx.HTTPError); not accepted (a status from 400 up, or no connection).
Outcomes == {"accepted", "unanswered", "refused"}

\* Mutant: a later success clears the error of an earlier target.
RowError_LastWins(before, outcome) == outcome # "accepted"
\* The error variable of the row after one more post.
RowError(before, outcome) == before \/ outcome # "accepted"

Targets(w, e) == {ep \in eps[w] : e \in Matching[ep]}

\* The columns after one processed attempt.
Settled(r, noError) ==
    LET n == r.attempts + 1
        exhausted == ~noError /\ n >= MaxAttempts
    IN [delivered |-> r.delivered \/ noError,
        failed    |-> r.failed \/ exhausted,
        attempts  |-> n,
        next      |-> IF noError \/ exhausted THEN "null" ELSE "future",
        error     |-> ~noError]

(***************************************************************************)
(* requeue_event assigns four columns of the object it read; the flush     *)
(* writes only the columns whose value differs from the one read, onto     *)
(* whatever the row holds by then.                                         *)
(***************************************************************************)
\* Mutant: a requeue gives one attempt back instead of all.
Requeued_OneBack(r, read) == [r EXCEPT !.attempts = @ - 1]

Requeued(r, read) ==
    [delivered |-> r.delivered,
     failed    |-> r.failed /\ ~read.failed,
     attempts  |-> IF read.attempts = 0 THEN r.attempts ELSE 0,
     next      |-> IF read.next = "null" THEN r.next ELSE "null",
     error     |-> r.error /\ ~read.error]

ChangesNothing(read) == Requeued(read, read) = read

Init ==
    /\ captured = {}
    /\ row = [e \in Events |-> Fresh]
    /\ endpoints = Initially
    /\ removed = {}
    /\ got = [ep \in Endpoints |-> {}]
    /\ owed = [e \in Events |-> {}]
    /\ pc = [w \in Workers |-> "idle"]
    /\ todo = [w \in Workers |-> {}]
    /\ batch = [w \in Workers |-> {}]
    /\ eps = [w \in Workers |-> {}]
    /\ queue = [w \in Workers |-> {}]
    /\ ok = [w \in Workers |-> {}]
    /\ cur = [w \in Workers |-> {}]
    /\ left = [w \in Workers |-> {}]
    /\ err = [w \in Workers |-> FALSE]
    /\ req = [a \in Admins |-> {}]
    /\ requeues = 0
    /\ crashes = 0

(***************************************************************************)
(* Writers and admins.                                                     *)
(***************************************************************************)

\* The transaction that captured e commits.
Capture(e) ==
    /\ e \notin captured
    /\ captured' = captured \cup {e}
    /\ owed' = [owed EXCEPT ![e] = {ep \in endpoints : e \in Matching[ep]}]
    /\ UNCHANGED <<row, endpointVars, got, workerVars, adminVars, crashes>>

CreateEndpoint(ep) ==
    /\ ep \notin endpoints \cup removed
    /\ endpoints' = endpoints \cup {ep}
    /\ UNCHANGED <<rowVars, removed, got, owed, workerVars, adminVars, crashes>>

DeleteEndpoint(ep) ==
    /\ ep \in endpoints
    /\ endpoints' = endpoints \ {ep}
    /\ removed' = removed \cup {ep}
    /\ owed' = [e \in Events |-> owed[e] \ {ep}]
    /\ UNCHANGED <<rowVars, got, workerVars, adminVars, crashes>>

\* requeue_event reads the row, without a lock and whatever its status.
RequeueRead(a, e) ==
    /\ req[a] = {}
    /\ requeues < MaxRequeues
    /\ e \in captured
    /\ req' = [req EXCEPT ![a] = {<<e, row[e]>>}]
    /\ requeues' = requeues + 1
    /\ UNCHANGED <<rowVars, endpointVars, got, owed, workerVars, crashes>>

\* Its UPDATE waits for the row lock, then writes and commits.
RequeueWrite(a) ==
    /\ \E rd \in req[a] :
        LET e == rd[1] IN
        /\ ChangesNothing(rd[2]) \/ e \notin Locked
        /\ row' = [row EXCEPT ![e] = Requeued(@, rd[2])]
    /\ req' = [req EXCEPT ![a] = {}]
    /\ UNCHANGED <<captured, endpointVars, got, owed, workerVars, requeues, crashes>>

\* The retry time of a backed-off row arrives.
BackoffElapses(e) ==
    /\ row[e].next = "future"
    /\ row' = [row EXCEPT ![e].next = "past"]
    /\ UNCHANGED <<captured, endpointVars, got, owed, workerVars, adminVars, crashes>>

(***************************************************************************)
(* A worker.                                                               *)
(***************************************************************************)

\* drain_outbox: orgs_with_due_events.
DrainOrgs(w) ==
    /\ pc[w] = "idle"
    /\ todo' = [todo EXCEPT ![w] = {OrgOf[e] : e \in {f \in Events : Due(f)}}]
    /\ todo'[w] # {}
    /\ pc' = [pc EXCEPT ![w] = "claim"]
    /\ UNCHANGED <<rowVars, endpointVars, got, owed, batch, eps, queue, ok, postVars, adminVars, crashes>>

\* dispatch_events: an admin asks for one organisation.
DispatchRequest(w, o) ==
    /\ pc[w] = "idle"
    /\ todo' = [todo EXCEPT ![w] = {o}]
    /\ pc' = [pc EXCEPT ![w] = "claim"]
    /\ UNCHANGED <<rowVars, endpointVars, got, owed, batch, eps, queue, ok, postVars, adminVars, crashes>>

\* dispatch_pending: lock the batch, then read the endpoints.
Claim(w, o) ==
    /\ pc[w] = "claim"
    /\ o \in todo[w]
    /\ LET rows == FirstRows({e \in Events : OrgOf[e] = o /\ Due(e) /\ e \notin Locked}) IN
        /\ batch' = [batch EXCEPT ![w] = rows]
        /\ queue' = [queue EXCEPT ![w] = rows]
    /\ eps' = [eps EXCEPT ![w] = endpoints]
    /\ todo' = [todo EXCEPT ![w] = @ \ {o}]
    /\ ok' = [ok EXCEPT ![w] = {}]
    /\ pc' = [pc EXCEPT ![w] = "rows"]
    /\ UNCHANGED <<rowVars, endpointVars, got, owed, postVars, adminVars, crashes>>

\* The next row in created_at order has no targets: settled without a post.
SettleUntargeted(w, e) ==
    /\ pc[w] = "rows"
    /\ e \in queue[w] /\ \A f \in queue[w] : e <= f
    /\ Targets(w, e) = {}
    /\ queue' = [queue EXCEPT ![w] = @ \ {e}]
    /\ ok' = [ok EXCEPT ![w] = @ \cup {e}]
    /\ UNCHANGED <<rowVars, endpointVars, got, owed, pc, todo, batch, eps, postVars, adminVars, crashes>>

StartRow(w, e) ==
    /\ pc[w] = "rows"
    /\ e \in queue[w] /\ \A f \in queue[w] : e <= f
    /\ Targets(w, e) # {}
    /\ cur' = [cur EXCEPT ![w] = {e}]
    /\ left' = [left EXCEPT ![w] = Targets(w, e)]
    /\ err' = [err EXCEPT ![w] = FALSE]
    /\ pc' = [pc EXCEPT ![w] = "post"]
    /\ UNCHANGED <<rowVars, endpointVars, got, owed, todo, batch, eps, queue, ok, adminVars, crashes>>

\* One POST to one target of the current row.
Post(w, ep, outcome) ==
    /\ pc[w] = "post"
    /\ ep \in left[w] \ Raising
    /\ got' = IF outcome = "refused" THEN got ELSE [got EXCEPT ![ep] = @ \cup cur[w]]
    /\ err' = [err EXCEPT ![w] = RowError(@, outcome)]
    /\ left' = [left EXCEPT ![w] = @ \ {ep}]
    /\ UNCHANGED <<rowVars, endpointVars, owed, pc, todo, batch, eps, queue, ok, cur, adminVars, crashes>>

FinishRow(w) ==
    /\ pc[w] = "post"
    /\ left[w] = {}
    /\ queue' = [queue EXCEPT ![w] = @ \ cur[w]]
    /\ ok' = [ok EXCEPT ![w] = IF err[w] THEN @ ELSE @ \cup cur[w]]
    /\ cur' = [cur EXCEPT ![w] = {}]
    /\ err' = [err EXCEPT ![w] = FALSE]
    /\ pc' = [pc EXCEPT ![w] = "rows"]
    /\ UNCHANGED <<rowVars, endpointVars, got, owed, todo, batch, eps, left, adminVars, crashes>>

\* Every row of the batch is settled: flush, commit, release the locks.
Commit(w) ==
    /\ pc[w] = "rows"
    /\ queue[w] = {}
    /\ row' = [e \in Events |-> IF e \in batch[w] THEN Settled(row[e], e \in ok[w]) ELSE row[e]]
    /\ batch' = [batch EXCEPT ![w] = {}]
    /\ eps' = [eps EXCEPT ![w] = {}]
    /\ ok' = [ok EXCEPT ![w] = {}]
    /\ pc' = [pc EXCEPT ![w] = IF todo[w] = {} THEN "idle" ELSE "claim"]
    /\ UNCHANGED <<captured, endpointVars, got, owed, todo, queue, postVars, adminVars, crashes>>

\* The transaction rolls back and the pass over the organisations ends.
Abandon(w) ==
    /\ pc' = [pc EXCEPT ![w] = "idle"]
    /\ todo' = [todo EXCEPT ![w] = {}]
    /\ batch' = [batch EXCEPT ![w] = {}]
    /\ eps' = [eps EXCEPT ![w] = {}]
    /\ queue' = [queue EXCEPT ![w] = {}]
    /\ ok' = [ok EXCEPT ![w] = {}]
    /\ cur' = [cur EXCEPT ![w] = {}]
    /\ left' = [left EXCEPT ![w] = {}]
    /\ err' = [err EXCEPT ![w] = FALSE]

\* post_to_endpoint raises past the except clause (an unparsable URL).
PostRaises(w, ep) ==
    /\ pc[w] = "post"
    /\ ep \in left[w] \cap Raising
    /\ Abandon(w)
    /\ UNCHANGED <<rowVars, endpointVars, got, owed, adminVars, crashes>>

\* The process dies, or the database connection is lost.
Crash(w) ==
    /\ pc[w] # "idle"
    /\ crashes < MaxCrashes
    /\ crashes' = crashes + 1
    /\ Abandon(w)
    /\ UNCHANGED <<rowVars, endpointVars, got, owed, adminVars>>

\* The steps of a worker that the event loop schedules once it has begun.
WorkerStep(w) ==
    \/ \E o \in Orgs : Claim(w, o)
    \/ \E e \in Events : SettleUntargeted(w, e) \/ StartRow(w, e)
    \/ \E ep \in Endpoints : PostRaises(w, ep) \/ \E outcome \in Outcomes : Post(w, ep, outcome)
    \/ FinishRow(w)
    \/ Commit(w)

Next ==
    \/ \E e \in Events : Capture(e) \/ BackoffElapses(e)
    \/ \E ep \in Endpoints : CreateEndpoint(ep) \/ DeleteEndpoint(ep)
    \/ \E a \in Admins : RequeueWrite(a) \/ \E e \in Events : RequeueRead(a, e)
    \/ \E w \in Pollers : DrainOrgs(w)
    \/ \E w \in Requests, o \in Orgs : DispatchRequest(w, o)
    \/ \E w \in Workers : WorkerStep(w) \/ Crash(w)

Spec == Init /\ [][Next]_vars

(***************************************************************************)
(* The scheduler wakes every minute, a started transaction runs on, every  *)
(* POST has an 8 s timeout, and retry times arrive.  Captures, admin       *)
(* requests and crashes are not fair.                                      *)
(***************************************************************************)
Fairness ==
    /\ \A w \in Pollers : WF_vars(DrainOrgs(w))
    /\ \A w \in Workers : WF_vars(WorkerStep(w))
    /\ \A e \in Events : WF_vars(BackoffElapses(e))

FairSpec == Spec /\ Fairness

(***************************************************************************)
(* Properties.                                                             *)
(***************************************************************************)

\* Every variable has its type.
TypeOK ==
    /\ captured \subseteq Events
    /\ row \in [Events -> Row]
    /\ endpoints \subseteq Endpoints /\ removed \subseteq Endpoints
    /\ got \in [Endpoints -> SUBSET Events]
    /\ owed \in [Events -> SUBSET Endpoints]
    /\ pc \in [Workers -> {"idle", "claim", "rows", "post"}]
    /\ todo \in [Workers -> SUBSET Orgs]
    /\ batch \in [Workers -> SUBSET Events]
    /\ eps \in [Workers -> SUBSET Endpoints]
    /\ queue \in [Workers -> SUBSET Events]
    /\ ok \in [Workers -> SUBSET Events]
    /\ cur \in [Workers -> SUBSET Events]
    /\ left \in [Workers -> SUBSET Endpoints]
    /\ err \in [Workers -> BOOLEAN]
    /\ req \in [Admins -> SUBSET (Events \X Row)]
    /\ requeues \in Nat /\ crashes \in Nat

\* Two workers never hold the same row, and a row that is held is neither
\* delivered nor dead: whatever requeues, retries and rival pollers do, nobody
\* posts an event whose fate is already committed (FOR UPDATE SKIP LOCKED and
\* the WHERE clause of dispatch_pending).
ClaimedRowsArePending ==
    \A w \in Workers : \A e \in batch[w] :
        /\ Pending(e)
        /\ \A v \in Workers \ {w} : e \notin batch[v]

\* A row marked delivered was accepted by every matching endpoint that has been
\* registered ever since the event was captured: neither an error overlooked in
\* the fan-out, nor a stale endpoint list, nor an attempt split over two
\* workers lets delivered_at be set too early.
DeliveredToSubscribers ==
    \A e \in captured : row[e].delivered => \A ep \in owed[e] : e \in got[ep]

\* An organisation none of whose events goes to a raising endpoint.
HealthyOrg(o) == \A e \in Events, ep \in Raising : OrgOf[e] = o => e \notin Matching[ep]

\* "Auto-dispatch due outbox events for every org with a backlog": an event of
\* a healthy organisation does not stay pending; it is delivered or becomes a
\* dead letter, whatever the other organisations have registered.
HealthyOrgsAreServed ==
    \A e \in Events : HealthyOrg(OrgOf[e]) => (Pending(e) ~> ~Pending(e))

\* retry_event: once a requeue has answered, the event is not a dead letter.
RequeuedIsNotDead ==
    [][\A a \in Admins : \A rd \in req[a] : req'[a] = {} => ~row'[rd[1]].failed]_vars

-----------------------------------------------------------------------------
(***************************************************************************)
(* The promise this implements.                                            *)
(***************************************************************************)
Stage(e) ==
    IF e \notin captured THEN "absent"
    ELSE IF row[e].delivered THEN "delivered"
    ELSE IF row[e].failed THEN "dead" ELSE "pending"

Promise == INSTANCE OutboxPromise
    WITH stage <- [e \in Events |-> Stage(e)],
         received <- got

\* The outbox implements at-least-once delivery with dead letters.
ImplementsPromise == Promise!Spec
=============================================================================
