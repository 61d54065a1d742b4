---------------------------- MODULE OutboxPromise ----------------------------
(***************************************************************************)
(* What the event outbox promises its subscribers: an appended event is    *)
(* offered to receivers any number of times while it is pending, and it    *)
(* leaves that stage in one of two ways.  Delivered is final and means     *)
(* that everyone the event is owed to has received it; a dead letter       *)
(* comes back to pending when an admin requeues it.                        *)
(***************************************************************************)
CONSTANTS Events, Endpoints, Matching

VARIABLES
    stage,      \* [Events -> {"absent", "pending", "delivered", "dead"}]
    received,   \* [Endpoints -> SUBSET Events]
    owed        \* [Events -> SUBSET Endpoints]

vars == <<stage, received, owed>>

Receivers(e) == {ep \in Endpoints : e \in received[ep]}
At(s) == {e \in Events : stage[e] = s}

Init ==
    /\ stage = [e \in Events |-> "absent"]
    /\ received = [ep \in Endpoints |-> {}]
    /\ owed = [e \in Events |-> {}]

Append(e) ==
    /\ stage[e] = "absent"
    /\ stage' = [stage EXCEPT ![e] = "pending"]
    /\ \E subscribers \in SUBSET {ep \in Endpoints : e \in Matching[ep]} :
        owed' = [owed EXCEPT ![e] = subscribers]
    /\ UNCHANGED received

Unsubscribe(ep) ==
    /\ owed' = [e \in Events |-> owed[e] \ {ep}]
    /\ UNCHANGED <<stage, received>>

Receive(ep, e) ==
    /\ stage[e] = "pending"
    /\ e \in Matching[ep]
    /\ received' = [received EXCEPT ![ep] = @ \cup {e}]
    /\ UNCHANGED <<stage, owed>>

\* One transaction settles several events: some delivered, some dead.
Settle(done, dead) ==
    /\ done \subseteq At("pending") /\ dead \subseteq At("pending") \ done
    /\ \A e \in done : owed[e] \subseteq Receivers(e)
    /\ stage' = [e \in Events |-> IF e \in done THEN "delivered"
                                  ELSE IF e \in dead THEN "dead" ELSE stage[e]]
    /\ UNCHANGED <<received, owed>>

Requeue(e) ==
    /\ stage[e] = "dead"
    /\ stage' = [stage EXCEPT ![e] = "pending"]
    /\ UNCHANGED <<received, owed>>

Next ==
    \/ \E e \in Events : Append(e) \/ Requeue(e)
    \/ \E ep \in Endpoints : Unsubscribe(ep) \/ \E e \in Events : Receive(ep, e)
    \/ \E done, dead \in SUBSET Events : Settle(done, dead)

Spec == Init /\ [][Next]_vars
=============================================================================
