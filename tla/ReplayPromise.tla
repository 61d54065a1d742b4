---------------------------- MODULE ReplayPromise ----------------------------
(***************************************************************************)
(* What the offline queue promises a user who was told "saved": a mutation *)
(* that has been queued stays queued until the server has applied or       *)
(* rejected it, unless a flush is disturbed (by another flush, or by a     *)
(* server that fails), and its replays take effect when no mutation queued *)
(* before it is waiting, disturbed or not.  A replay may take effect more  *)
(* than once, also after the mutation has left the queue; one that the     *)
(* server has settled by another request may be replayed all the same.     *)
(***************************************************************************)
EXTENDS Sequences

CONSTANT Mutations

VARIABLES
    queue,      \* the mutations that wait, in the order in which they were queued
    queued,     \* every mutation that has ever been queued
    settled,    \* the mutations the server has applied or rejected
    replayed,   \* the mutations of which the server has applied a replay
    disturbed   \* an answer may be taken for another one, or is a failure

vars == <<queue, queued, settled, replayed, disturbed>>

Init ==
    /\ queue = <<>> /\ queued = {}
    /\ settled = {} /\ replayed = {}
    /\ disturbed = FALSE

Enqueue(m) ==
    /\ m \notin queued
    /\ queue' = Append(queue, m)
    /\ queued' = queued \cup {m}
    /\ UNCHANGED <<settled, replayed>>

\* The request of the write itself.
Settle(m) ==
    /\ settled' = settled \cup {m}
    /\ UNCHANGED <<queue, queued, replayed>>

Behind(m) == \E i \in DOMAIN queue \ {1} : queue[i] = m

Replay(m) ==
    /\ m \in queued /\ ~Behind(m)
    /\ settled' = settled \cup {m}
    /\ replayed' \in {replayed, replayed \cup {m}}
    /\ UNCHANGED <<queue, queued>>

Leave ==
    /\ queue # <<>>
    /\ Head(queue) \in settled \/ disturbed
    /\ queue' = Tail(queue)
    /\ UNCHANGED <<queued, settled, replayed>>

Disturb == UNCHANGED <<queue, queued, settled, replayed>>

Next ==
    /\ disturbed' \in BOOLEAN
    /\ Leave \/ Disturb \/ \E m \in Mutations : Enqueue(m) \/ Settle(m) \/ Replay(m)

Spec == Init /\ [][Next]_vars
=============================================================================
