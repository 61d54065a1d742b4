---------------------------- MODULE MCOfflineQueue ----------------------------
(* The parts of the mobile client that outlive its process.  The queue does not look at the
   session, nor the session at the queue; so the two are walked through one after the other, and
   part says which. *)
EXTENDS OfflineQueue, MobileSession

CONSTANTS m1, m2, m3, f1, f2, u1, u2
VARIABLE part

DeviceInit == Init /\ SessionInit /\ part \in {"queue", "session"}

DeviceNext ==
    /\ part' = part
    /\ \/ part = "queue" /\ Next /\ UNCHANGED sessionVars
       \/ part = "session" /\ SessionNext /\ UNCHANGED vars

DeviceSpec == DeviceInit /\ [][DeviceNext]_<<vars, sessionVars, part>> /\ Fairness
=============================================================================
