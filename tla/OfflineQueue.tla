---------------------------- MODULE OfflineQueue ----------------------------
(***************************************************************************)
(* The offline queue of the mobile client (apps/mobile/app/services/       *)
(* offlineQueue.ts, api/index.ts, components/OfflineSync.tsx).             *)
(*                                                                         *)
(* A write that meets a network problem is appended to a durable queue and *)
(* reported as done.  flushQueue replays the queue, one request at a time; *)
(* it is started when the app is mounted and by every NetInfo event of a   *)
(* connected device.  The code is single-threaded and gives up control     *)
(* only while a request is under way, where other writes, other flushes or *)
(* the end of the process may come in.                                     *)
(*                                                                         *)
(* Abstractions: a mutation is a name and is written once; a request that  *)
(* the client has given up may still reach the server (late).              *)
(***************************************************************************)
EXTENDS Naturals, Sequences, FiniteSets

CONSTANTS
    Mutations,
    Flushes,        \* bound: runs of flushQueue at once
    Outcomes,       \* answers of the server, of AllOutcomes
    MaxFailures,    \* bound: requests of a connected device that fail
    MaxLate,        \* bound: given up requests that are under way at once
    MaxEvents       \* bound: losses of the connection and of the process

\* 2xx, 4xx (the server rejects the mutation) and 5xx (the server fails).
AllOutcomes == {"applied", "rejected", "broken"}

ASSUME CallersDiffer == Mutations \cap Flushes = {}
ASSUME NoneIsNoMutation == "none" \notin Mutations
ASSUME OutcomesAreKnown == Outcomes \subseteq AllOutcomes
ASSUME BoundsAreNumbers == {MaxFailures, MaxLate, MaxEvents} \subseteq Nat

VARIABLES
    queue,      \* the durable queue
    online,     \* NetInfo's isConnected
    sending,    \* [Callers -> Mutations \cup {"none"}]: the request a caller waits for
    answer,     \* [Callers -> {"open"} \cup Outcomes]: and what the server did with it
    late,       \* requests given up by the client that the server may still receive
    issued,     \* mutations written by the user
    entered,    \* history: mutations in the order in which they were queued
    settled,    \* history: mutations the server has applied or rejected
    replayed,   \* history: mutations of which the server has applied a replay
    crowded,    \* history: a flush is under way that has not been alone all the time
    excused,    \* history: items taken off while crowded, or for a 5xx answer
    calm,       \* history: nothing has failed since the connection came back
    failures, events

\* A write of the user calls the server by itself; a flush calls it for the queue.
Callers == Mutations \cup Flushes

clientVars == <<queue, sending, answer, issued, entered, crowded, excused>>
serverVars == <<settled, replayed>>
vars == <<clientVars, serverVars, calm, online, late, failures, events>>

Init ==
    /\ queue = <<>>
    /\ online = TRUE
    /\ sending = [c \in Callers |-> "none"]
    /\ answer = [c \in Callers |-> "open"]
    /\ late = {}
    /\ issued = {}
    /\ entered = <<>>
    /\ settled = {}
    /\ replayed = {}
    /\ crowded = FALSE /\ excused = {} /\ calm = FALSE
    /\ failures = 0 /\ events = 0

Waits(c) == sending[c] # "none"
Answered(c) == Waits(c) /\ answer[c] # "open"

\* History: two flushes are under way, or one that another one has met.
Meeting(s) == \E f, g \in Flushes : f # g /\ s[f] # "none" /\ s[g] # "none"
Crowding(s) == Meeting(s) \/ (crowded /\ \E f \in Flushes : s[f] # "none")

Call(c, m) ==
    /\ sending' = [sending EXCEPT ![c] = m]
    /\ answer' = [answer EXCEPT ![c] = "open"]
    /\ crowded' = Crowding([sending EXCEPT ![c] = m])
Hang(c) == Call(c, "none")

(***************************************************************************)
(* The server and the network.                                             *)
(***************************************************************************)
Process(m, replay, outcome) ==
    /\ settled' = IF outcome = "broken" THEN settled ELSE settled \cup {m}
    /\ replayed' = IF replay /\ outcome = "applied" THEN replayed \cup {m} ELSE replayed

Serve(c) ==
    /\ Waits(c) /\ answer[c] = "open" /\ online
    /\ \E outcome \in Outcomes :
        /\ answer' = [answer EXCEPT ![c] = outcome]
        /\ Process(sending[c], c \in Flushes, outcome)
    /\ UNCHANGED <<queue, sending, issued, entered, crowded, excused, calm, online, late, failures, events>>

ServeLate ==
    \E r \in late, outcome \in Outcomes :
        /\ late' = late \ {r}
        /\ Process(r.item, r.replay, outcome)
        /\ UNCHANGED <<clientVars, calm, online, failures, events>>

\* The requests of these callers are given up: each is lost, unless it is late.
GiveUp(callers) ==
    \E stray \in SUBSET {c \in callers : Waits(c) /\ answer[c] = "open"} :
        /\ stray # {} => Cardinality(late) < MaxLate
        /\ late' = late \cup {[item |-> sending[c], replay |-> c \in Flushes] : c \in stray}

\* A network problem of c: no connection, or a timeout although there is one.
NetworkProblem(c) ==
    /\ Waits(c)
    /\ IF online THEN failures < MaxFailures /\ failures' = failures + 1 ELSE UNCHANGED failures
    /\ GiveUp({c})
    /\ calm' = FALSE

(***************************************************************************)
(* Writes.                                                                 *)
(***************************************************************************)
Write(m) ==
    /\ m \notin issued
    /\ issued' = issued \cup {m}
    /\ Call(m, m)
    /\ UNCHANGED <<queue, entered, excused, serverVars, calm, online, late, failures, events>>

WriteAnswered(m) ==
    /\ Answered(m)
    /\ Hang(m)
    /\ UNCHANGED <<queue, issued, entered, excused, serverVars, calm, online, late, failures, events>>

\* enqueue
WriteQueued(m) ==
    /\ NetworkProblem(m)
    /\ queue' = Append(queue, m)
    /\ entered' = Append(entered, m)
    /\ Hang(m)
    /\ UNCHANGED <<issued, excused, serverVars, online, events>>

(***************************************************************************)
(* flushQueue.                                                             *)
(***************************************************************************)
Rest(q) == IF q = <<>> THEN <<>> ELSE Tail(q)

StartFlush(f) ==
    /\ ~Waits(f)
    /\ queue # <<>>
    /\ Call(f, Head(queue))

\* History: an answer that need not be the answer to the first item, or is a 5xx.
Excuse(f) ==
    excused' = excused \cup
        {m \in Mutations : queue # <<>> /\ m = Head(queue) /\ (crowded \/ answer[f] = "broken")}

\* Mutant: an item that the server rejects stays where it is.
FlushAnswered_KeepsPoison(f) ==
    /\ Answered(f)
    /\ LET rest == IF answer[f] = "rejected" THEN queue ELSE Rest(queue) IN
        /\ queue' = rest
        /\ IF rest = <<>> \/ answer[f] = "rejected" THEN Hang(f) ELSE Call(f, Head(rest))
    /\ Excuse(f)
    /\ UNCHANGED <<issued, entered, serverVars, calm, online, late, failures, events>>

\* Mutant: the loop goes on with an empty queue.
FlushAnswered_PastTheEnd(f) ==
    /\ Answered(f)
    /\ queue' = Rest(queue)
    /\ Call(f, IF Rest(queue) = <<>> THEN "undefined" ELSE Head(Rest(queue)))
    /\ Excuse(f)
    /\ UNCHANGED <<issued, entered, serverVars, calm, online, late, failures, events>>

\* Any answer of the server takes the first item off the queue as it is now.
FlushAnswered(f) ==
    /\ Answered(f)
    /\ queue' = Rest(queue)
    /\ IF Rest(queue) = <<>> THEN Hang(f) ELSE Call(f, Head(Rest(queue)))
    /\ Excuse(f)
    /\ UNCHANGED <<issued, entered, serverVars, calm, online, late, failures, events>>

\* Mutant: the flush goes on with the next item.
FlushFails_Skips(f) ==
    /\ NetworkProblem(f)
    /\ queue' = IF Rest(queue) = <<>> THEN queue ELSE Append(Rest(queue), Head(queue))
    /\ Hang(f)
    /\ UNCHANGED <<issued, entered, excused, serverVars, online, events>>

FlushFails(f) ==
    /\ NetworkProblem(f)
    /\ Hang(f)
    /\ UNCHANGED <<queue, issued, entered, excused, serverVars, online, events>>

(***************************************************************************)
(* The device.                                                             *)
(***************************************************************************)

\* A NetInfo event of a connected device; the first comes with the subscription.
Connected(f) ==
    /\ online
    /\ StartFlush(f)
    /\ UNCHANGED <<queue, issued, entered, excused, serverVars, calm, online, late, failures, events>>

GoOffline ==
    /\ online
    /\ events < MaxEvents
    /\ online' = FALSE
    /\ calm' = FALSE
    /\ events' = events + 1
    /\ UNCHANGED <<clientVars, serverVars, late, failures>>

\* The listener of OfflineSync flushes the queue.
GoOnline ==
    /\ ~online
    /\ online' = TRUE
    /\ calm' = TRUE
    /\ \/ queue = <<>> /\ UNCHANGED <<sending, answer, crowded>>
       \/ \E f \in Flushes : StartFlush(f)
    /\ UNCHANGED <<queue, issued, entered, excused, serverVars, late, failures, events>>

\* Mutant: the queue is kept in memory only.
Relaunch_LosesQueue ==
    /\ events < MaxEvents
    /\ events' = events + 1
    /\ GiveUp(Callers)
    /\ queue' = <<>>
    /\ sending' = [c \in Callers |-> "none"]
    /\ answer' = [c \in Callers |-> "open"]
    /\ crowded' = FALSE /\ calm' = FALSE
    /\ UNCHANGED <<issued, entered, excused, serverVars, online, failures>>

\* The process ends and starts again; what it waited for is forgotten, the queue
\* is not.  The mount flushes it.
Relaunch ==
    /\ events < MaxEvents
    /\ events' = events + 1
    /\ GiveUp(Callers)
    /\ \E f \in Flushes :
        sending' = [c \in Callers |-> IF c = f /\ queue # <<>> THEN Head(queue) ELSE "none"]
    /\ answer' = [c \in Callers |-> "open"]
    /\ crowded' = FALSE /\ calm' = FALSE
    /\ UNCHANGED <<queue, issued, entered, excused, serverVars, online, failures>>

WriteStep(m) == WriteAnswered(m) \/ WriteQueued(m)
FlushStep(f) == FlushAnswered(f) \/ FlushFails(f)

Next ==
    \/ \E c \in Callers : Serve(c)
    \/ ServeLate
    \/ \E m \in Mutations : Write(m) \/ WriteStep(m)
    \/ \E f \in Flushes : FlushStep(f) \/ Connected(f)
    \/ GoOffline \/ GoOnline \/ Relaunch

Spec == Init /\ [][Next]_vars

(***************************************************************************)
(* A request of a connected device is answered or fails: it has a timeout. *)
(* Nothing says that the device comes back, or that NetInfo reports one    *)
(* that stayed connected.                                                  *)
(***************************************************************************)
Fairness ==
    /\ \A c \in Callers : WF_vars(Serve(c))
    /\ \A m \in Mutations : WF_vars(WriteStep(m))
    /\ \A f \in Flushes : WF_vars(FlushStep(f))

FairSpec == Spec /\ Fairness

(***************************************************************************)
(* Properties.                                                             *)
(***************************************************************************)
InSeq(m, s) == \E i \in DOMAIN s : s[i] = m

\* Every variable has its type.
TypeOK ==
    /\ queue \in Seq(Mutations)
    /\ online \in BOOLEAN
    /\ sending \in [Callers -> Mutations \cup {"none"}]
    /\ answer \in [Callers -> {"open"} \cup AllOutcomes]
    /\ late \subseteq [item : Mutations, replay : BOOLEAN]
    /\ issued \subseteq Mutations
    /\ entered \in Seq(Mutations)
    /\ settled \subseteq Mutations
    /\ replayed \subseteq Mutations
    /\ crowded \in BOOLEAN /\ excused \subseteq Mutations /\ calm \in BOOLEAN
    /\ failures \in Nat /\ events \in Nat

\* "Append a mutation to the durable queue", "drops a mutation the server
\* rejects": what was reported as done stays in the queue until the server has
\* applied or rejected it, over lost answers, relaunches, new writes and flushes
\* that follow each other.  Two kinds of items leave it otherwise, and are excused:
\* one whose replay the server answered with a 5xx, and one that was first in the
\* queue when a flush was answered that had met another flush.
NothingLost ==
    \A i \in DOMAIN entered : entered[i] \in settled \cup excused \/ InSeq(entered[i], queue)

Earlier(m, n) == \E i, j \in DOMAIN entered : i < j /\ entered[i] = m /\ entered[j] = n

\* "Replay queued mutations in order ... so order is preserved": when a replay
\* takes effect, everything that was queued before it has been applied or
\* rejected, or is excused, also when two flushes replay the queue at once.
\* (A second copy of a replay that timed out may still come late.)
ReplayedInOrder ==
    \A n \in replayed, m \in Mutations : Earlier(m, n) => m \in settled \cup excused

Promise == INSTANCE ReplayPromise WITH
    queued <- {entered[i] : i \in DOMAIN entered},
    disturbed <- crowded \/ \E f \in Flushes : answer[f] = "broken"

\* The two together, as a specification of what the queue does and nothing else: a
\* mutation leaves the queue only from its front, and settled unless the flush is
\* disturbed; and no replay overtakes one that waits.
ImplementsReplayPromise == Promise!Spec

\* "Flushes the offline mutation queue ... whenever connectivity returns", "a poison
\* item blocking the queue forever": once the connection is back the queue empties,
\* past an item the server rejects as well, unless the connection, a request or the
\* process fails again.
ReconnectDrains == (calm /\ queue # <<>>) ~> (queue = <<>> \/ ~calm)
=============================================================================
