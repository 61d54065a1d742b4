---------------------------- MODULE OutboxProofs ----------------------------
(***************************************************************************)
(* Theorems about the outbox, for any number of events, organisations,     *)
(* endpoints and workers.  The inductive invariant IInv relates what a     *)
(* worker holds in memory (its batch, its endpoint list, the rows it has   *)
(* settled, the targets still to post) to the committed rows and to what   *)
(* the receivers have accepted.                                            *)
(***************************************************************************)
EXTENDS Outbox, TLAPS

\* A row that is not captured is untouched, and a requeue has read a captured one.
RowsInv ==
    /\ \A e \in Events \ captured : row[e] = Fresh
    /\ \A a \in Admins : \A rd \in req[a] : rd[1] \in captured

\* How the parts of a worker's batch are related at each control point.
BatchInv ==
    \A w \in Workers :
        /\ queue[w] \subseteq batch[w]
        /\ ok[w] \subseteq batch[w] \ queue[w]
        /\ pc[w] \in {"idle", "claim"} => batch[w] = {}
        /\ pc[w] # "post" => cur[w] = {} /\ left[w] = {}
        /\ pc[w] = "post" => \E e \in queue[w] : cur[w] = {e}

\* Whoever an event is owed to is registered, subscribed, and on the endpoint
\* list of the worker that holds the event.
OwedInv ==
    /\ \A e \in Events : \A ep \in owed[e] : ep \in endpoints /\ e \in Matching[ep]
    /\ \A w \in Workers : \A e \in batch[w] : owed[e] \subseteq eps[w]

\* What is settled without error has been received by everyone it is owed to,
\* and the row being posted by those who are not left.
ReceivedInv ==
    /\ DeliveredToSubscribers
    /\ \A w \in Workers : \A e \in ok[w] : \A ep \in owed[e] : e \in got[ep]
    /\ \A w \in Workers : \A e \in cur[w] :
        /\ \A ep \in left[w] : e \in Matching[ep]
        /\ ~err[w] => \A ep \in owed[e] : ep \in left[w] \/ e \in got[ep]

IInv == TypeOK /\ RowsInv /\ ClaimedRowsArePending /\ BatchInv /\ OwedInv /\ ReceivedInv

-----------------------------------------------------------------------------
\* The columns after an attempt and after a requeue are columns of a row.
LEMMA SettledType ==
    ASSUME NEW r \in Row, NEW noError \in BOOLEAN
    PROVE  Settled(r, noError) \in Row
  BY BoundsAreNumbers DEF Settled, Row

LEMMA RequeuedType ==
    ASSUME NEW r \in Row, NEW read \in Row
    PROVE  /\ Requeued(r, read) \in Row
           /\ Requeued(r, read).delivered = r.delivered
           /\ Requeued(r, read).failed => r.failed
  BY DEF Requeued, Row

LEMMA FreshType == Fresh \in Row
  BY DEF Fresh, Row

LEMMA TypeInit == Init => TypeOK
  BY FreshType, EndpointSubsets DEF Init, TypeOK

LEMMA TypeNext == TypeOK /\ [Next]_vars => TypeOK'
  <1> SUFFICES ASSUME TypeOK, [Next]_vars PROVE TypeOK'
    OBVIOUS
  <1> USE DEF TypeOK, rowVars, endpointVars, workerVars, postVars, adminVars
  <1>1. ASSUME NEW e \in Events, Capture(e) PROVE TypeOK'
    BY <1>1 DEF Capture
  <1>2. ASSUME NEW e \in Events, BackoffElapses(e) PROVE TypeOK'
    <2>1. [row[e] EXCEPT !.next = "past"] \in Row
      BY DEF Row
    <2>2. row' = [row EXCEPT ![e] = [row[e] EXCEPT !.next = "past"]]
      BY <1>2 DEF BackoffElapses
    <2> QED
      BY <1>2, <2>1, <2>2 DEF BackoffElapses
  <1>3. ASSUME NEW ep \in Endpoints, CreateEndpoint(ep) \/ DeleteEndpoint(ep) PROVE TypeOK'
    BY <1>3 DEF CreateEndpoint, DeleteEndpoint
  <1>4. ASSUME NEW a \in Admins, NEW e \in Events, RequeueRead(a, e) PROVE TypeOK'
    BY <1>4 DEF RequeueRead
  <1>5. ASSUME NEW a \in Admins, RequeueWrite(a) PROVE TypeOK'
    <2>1. PICK rd \in req[a] : row' = [row EXCEPT ![rd[1]] = Requeued(@, rd[2])]
      BY <1>5 DEF RequeueWrite
    <2>2. rd[1] \in Events /\ rd[2] \in Row
      OBVIOUS
    <2>3. row' \in [Events -> Row]
      BY <2>1, <2>2, RequeuedType
    <2> QED
      BY <1>5, <2>3 DEF RequeueWrite
  <1>6. ASSUME NEW w \in Workers, DrainOrgs(w) PROVE TypeOK'
    BY <1>6, OrgsOfEvents DEF DrainOrgs
  <1>7. ASSUME NEW w \in Workers, NEW o \in Orgs, DispatchRequest(w, o) PROVE TypeOK'
    BY <1>7 DEF DispatchRequest
  <1>8. ASSUME NEW w \in Workers, NEW o \in Orgs, Claim(w, o) PROVE TypeOK'
    BY <1>8 DEF Claim, FirstRows
  <1>9. ASSUME NEW w \in Workers, NEW e \in Events, SettleUntargeted(w, e) \/ StartRow(w, e)
        PROVE TypeOK'
    <2>1. CASE SettleUntargeted(w, e)
      BY <2>1 DEF SettleUntargeted
    <2>2. CASE StartRow(w, e)
      BY <2>2 DEF StartRow, Targets
    <2> QED
      BY <1>9, <2>1, <2>2
  <1>10. ASSUME NEW w \in Workers, NEW ep \in Endpoints, NEW outcome \in Outcomes,
                Post(w, ep, outcome)
         PROVE TypeOK'
    BY <1>10 DEF Post, RowError
  <1>11. ASSUME NEW w \in Workers, NEW ep \in Endpoints, PostRaises(w, ep) PROVE TypeOK'
    BY <1>11 DEF PostRaises, Abandon
  <1>12. ASSUME NEW w \in Workers, FinishRow(w) PROVE TypeOK'
    BY <1>12 DEF FinishRow
  <1>13. ASSUME NEW w \in Workers, Commit(w) PROVE TypeOK'
    <2>1. ASSUME NEW e \in Events PROVE Settled(row[e], e \in ok[w]) \in Row
      <3>1. row[e] \in Row /\ (e \in ok[w]) \in BOOLEAN
        OBVIOUS
      <3> QED
        BY <3>1, SettledType
    <2>2. row' \in [Events -> Row]
      BY <1>13, <2>1 DEF Commit
    <2> QED
      BY <1>13, <2>2 DEF Commit
  <1>14. ASSUME NEW w \in Workers, Crash(w) PROVE TypeOK'
    BY <1>14 DEF Crash, Abandon
  <1>15. CASE UNCHANGED vars
    BY <1>15 DEF vars
  <1> QED
    BY <1>1, <1>2, <1>3, <1>4, <1>5, <1>6, <1>7, <1>8, <1>9, <1>10, <1>11, <1>12, <1>13,
       <1>14, <1>15 DEF Next, WorkerStep, Workers

\* Every reachable state is well typed.
THEOREM OutboxTypeOK == Spec => []TypeOK
  BY TypeInit, TypeNext, PTL DEF Spec
-----------------------------------------------------------------------------
LEMMA IInvInit == Init => IInv
  BY TypeInit DEF Init, IInv, RowsInv, ClaimedRowsArePending, BatchInv, OwedInv, ReceivedInv,
                  DeliveredToSubscribers

LEMMA IInvNext == IInv /\ [Next]_vars => IInv'
  <1> SUFFICES ASSUME IInv, [Next]_vars PROVE IInv'
    OBVIOUS
  <1>0. TypeOK' /\ TypeOK
    BY TypeNext DEF IInv
  <1> USE <1>0 DEF TypeOK, IInv, rowVars, endpointVars, workerVars, postVars, adminVars
  <1>1. ASSUME NEW e \in Events, Capture(e) PROVE IInv'
    <2>1. RowsInv'
      BY <1>1 DEF Capture, RowsInv, Fresh
    <2>2. ClaimedRowsArePending'
      BY <1>1 DEF Capture, ClaimedRowsArePending, RowsInv, Pending
    <2>3. BatchInv'
      BY <1>1 DEF Capture, BatchInv
    <2>4. OwedInv'
      BY <1>1 DEF Capture, OwedInv, ClaimedRowsArePending, Pending, BatchInv
    <2>5. ReceivedInv'
      BY <1>1 DEF Capture, ReceivedInv, DeliveredToSubscribers, OwedInv, BatchInv, ClaimedRowsArePending, Pending, RowsInv, Fresh
    <2> QED
      BY <2>1, <2>2, <2>3, <2>4, <2>5
  <1>2. ASSUME NEW e \in Events, BackoffElapses(e) PROVE IInv'
    <2>0. e \in captured
      BY <1>2 DEF BackoffElapses, RowsInv, Fresh
    <2>1. RowsInv'
      BY <1>2, <2>0 DEF BackoffElapses, RowsInv
    <2>2. ClaimedRowsArePending'
      BY <1>2 DEF BackoffElapses, ClaimedRowsArePending, RowsInv, Pending
    <2>3. BatchInv'
      BY <1>2 DEF BackoffElapses, BatchInv
    <2>4. OwedInv'
      BY <1>2 DEF BackoffElapses, OwedInv, ClaimedRowsArePending, Pending, BatchInv
    <2>5. ReceivedInv'
      BY <1>2 DEF BackoffElapses, ReceivedInv, DeliveredToSubscribers, OwedInv, BatchInv, ClaimedRowsArePending, Pending, RowsInv, Fresh
    <2> QED
      BY <2>1, <2>2, <2>3, <2>4, <2>5
  <1>3. ASSUME NEW ep \in Endpoints, CreateEndpoint(ep) PROVE IInv'
    <2>1. RowsInv'
      BY <1>3 DEF CreateEndpoint, RowsInv, Fresh
    <2>2. ClaimedRowsArePending'
      BY <1>3 DEF CreateEndpoint, ClaimedRowsArePending, RowsInv, Pending
    <2>3. BatchInv'
      BY <1>3 DEF CreateEndpoint, BatchInv
    <2>4. OwedInv'
      BY <1>3 DEF CreateEndpoint, OwedInv, ClaimedRowsArePending, Pending, BatchInv
    <2>5. ReceivedInv'
      BY <1>3 DEF CreateEndpoint, ReceivedInv, DeliveredToSubscribers, OwedInv, BatchInv, ClaimedRowsArePending, Pending, RowsInv, Fresh
    <2> QED
      BY <2>1, <2>2, <2>3, <2>4, <2>5
  <1>4. ASSUME NEW ep \in Endpoints, DeleteEndpoint(ep) PROVE IInv'
    <2>1. RowsInv'
      BY <1>4 DEF DeleteEndpoint, RowsInv, Fresh
    <2>2. ClaimedRowsArePending'
      BY <1>4 DEF DeleteEndpoint, ClaimedRowsArePending, RowsInv, Pending
    <2>3. BatchInv'
      BY <1>4 DEF DeleteEndpoint, BatchInv
    <2>4. OwedInv'
      BY <1>4 DEF DeleteEndpoint, OwedInv, ClaimedRowsArePending, Pending, BatchInv
    <2>5. ReceivedInv'
      BY <1>4 DEF DeleteEndpoint, ReceivedInv, DeliveredToSubscribers, OwedInv, BatchInv, ClaimedRowsArePending, Pending, RowsInv, Fresh
    <2> QED
      BY <2>1, <2>2, <2>3, <2>4, <2>5
  <1>5. ASSUME NEW a \in Admins, NEW e \in Events, RequeueRead(a, e) PROVE IInv'
    <2>1. RowsInv'
      BY <1>5 DEF RequeueRead, RowsInv, Fresh
    <2>2. ClaimedRowsArePending'
      BY <1>5 DEF RequeueRead, ClaimedRowsArePending, RowsInv, Pending
    <2>3. BatchInv'
      BY <1>5 DEF RequeueRead, BatchInv
    <2>4. OwedInv'
      BY <1>5 DEF RequeueRead, OwedInv, ClaimedRowsArePending, Pending, BatchInv
    <2>5. ReceivedInv'
      BY <1>5 DEF RequeueRead, ReceivedInv, DeliveredToSubscribers, OwedInv, BatchInv, ClaimedRowsArePending, Pending, RowsInv, Fresh
    <2> QED
      BY <2>1, <2>2, <2>3, <2>4, <2>5
  <1>6. ASSUME NEW a \in Admins, RequeueWrite(a) PROVE IInv'
    <2>0. PICK rd \in req[a] : row' = [row EXCEPT ![rd[1]] = Requeued(@, rd[2])]
      BY <1>6 DEF RequeueWrite
    <2>a. rd[1] \in captured /\ rd[1] \in Events /\ row[rd[1]] \in Row /\ rd[2] \in Row
      BY DEF RowsInv
    <2>b. ASSUME NEW e \in Events
          PROVE  /\ row'[e].delivered = row[e].delivered
                 /\ row'[e].failed => row[e].failed
                 /\ e \notin captured => row'[e] = row[e]
      BY <2>0, <2>a, RequeuedType
    <2>c. /\ captured' = captured /\ endpoints' = endpoints /\ got' = got /\ owed' = owed
          /\ UNCHANGED workerVars
          /\ req' = [req EXCEPT ![a] = {}]
      BY <1>6 DEF RequeueWrite
    <2>1. RowsInv'
      <3>1. \A e \in Events \ captured' : row'[e] = Fresh
        BY <2>b, <2>c DEF RowsInv
      <3>2. \A c \in Admins : \A q \in req'[c] : q[1] \in captured'
        BY <2>c DEF RowsInv
      <3> QED
        BY <3>1, <3>2 DEF RowsInv
    <2>2. ClaimedRowsArePending'
      <3>1. ASSUME NEW e \in Events, Pending(e) PROVE Pending(e)'
        BY <2>b, <2>c, <3>1 DEF Pending
      <3> QED
        BY <2>c, <3>1 DEF ClaimedRowsArePending
    <2>3. BatchInv'
      BY <2>c DEF BatchInv
    <2>4. OwedInv'
      BY <2>c DEF OwedInv
    <2>5. ReceivedInv'
      <3>1. DeliveredToSubscribers'
        BY <2>b, <2>c DEF ReceivedInv, DeliveredToSubscribers
      <3> QED
        BY <2>c, <3>1 DEF ReceivedInv
    <2> QED
      BY <2>1, <2>2, <2>3, <2>4, <2>5
  <1>7. ASSUME NEW w \in Workers, DrainOrgs(w) PROVE IInv'
    <2>1. RowsInv'
      BY <1>7 DEF DrainOrgs, RowsInv, Fresh
    <2>2. ClaimedRowsArePending'
      BY <1>7 DEF DrainOrgs, ClaimedRowsArePending, RowsInv, Pending
    <2>3. BatchInv'
      BY <1>7 DEF DrainOrgs, BatchInv
    <2>4. OwedInv'
      BY <1>7 DEF DrainOrgs, OwedInv, ClaimedRowsArePending, Pending, BatchInv
    <2>5. ReceivedInv'
      BY <1>7 DEF DrainOrgs, ReceivedInv, DeliveredToSubscribers, OwedInv, BatchInv, ClaimedRowsArePending, Pending, RowsInv, Fresh
    <2> QED
      BY <2>1, <2>2, <2>3, <2>4, <2>5
  <1>8. ASSUME NEW w \in Workers, NEW o \in Orgs, DispatchRequest(w, o) PROVE IInv'
    <2>1. RowsInv'
      BY <1>8 DEF DispatchRequest, RowsInv, Fresh
    <2>2. ClaimedRowsArePending'
      BY <1>8 DEF DispatchRequest, ClaimedRowsArePending, RowsInv, Pending
    <2>3. BatchInv'
      BY <1>8 DEF DispatchRequest, BatchInv
    <2>4. OwedInv'
      BY <1>8 DEF DispatchRequest, OwedInv, ClaimedRowsArePending, Pending, BatchInv
    <2>5. ReceivedInv'
      BY <1>8 DEF DispatchRequest, ReceivedInv, DeliveredToSubscribers, OwedInv, BatchInv, ClaimedRowsArePending, Pending, RowsInv, Fresh
    <2> QED
      BY <2>1, <2>2, <2>3, <2>4, <2>5
  <1>9. ASSUME NEW w \in Workers, NEW o \in Orgs, Claim(w, o) PROVE IInv'
    <2>1. RowsInv'
      BY <1>9 DEF Claim, FirstRows, Due, Locked, RowsInv, Fresh
    <2>2. ClaimedRowsArePending'
      BY <1>9 DEF Claim, FirstRows, Due, Locked, ClaimedRowsArePending, RowsInv, Pending
    <2>3. BatchInv'
      BY <1>9 DEF Claim, FirstRows, Due, Locked, BatchInv
    <2>4. OwedInv'
      BY <1>9 DEF Claim, FirstRows, Due, Locked, OwedInv, ClaimedRowsArePending, Pending, BatchInv
    <2>5. ReceivedInv'
      BY <1>9 DEF Claim, FirstRows, Due, Locked, ReceivedInv, DeliveredToSubscribers, OwedInv, BatchInv, ClaimedRowsArePending, Pending, RowsInv, Fresh
    <2> QED
      BY <2>1, <2>2, <2>3, <2>4, <2>5
  <1>10. ASSUME NEW w \in Workers, NEW e \in Events, SettleUntargeted(w, e) PROVE IInv'
    <2>1. RowsInv'
      BY <1>10 DEF SettleUntargeted, Targets, RowsInv, Fresh
    <2>2. ClaimedRowsArePending'
      BY <1>10 DEF SettleUntargeted, Targets, ClaimedRowsArePending, RowsInv, Pending
    <2>3. BatchInv'
      BY <1>10 DEF SettleUntargeted, Targets, BatchInv
    <2>4. OwedInv'
      BY <1>10 DEF SettleUntargeted, Targets, OwedInv, ClaimedRowsArePending, Pending, BatchInv
    <2>5. ReceivedInv'
      BY <1>10 DEF SettleUntargeted, Targets, ReceivedInv, DeliveredToSubscribers, OwedInv, BatchInv, ClaimedRowsArePending, Pending, RowsInv, Fresh
    <2> QED
      BY <2>1, <2>2, <2>3, <2>4, <2>5
  <1>11. ASSUME NEW w \in Workers, NEW e \in Events, StartRow(w, e) PROVE IInv'
    <2>1. RowsInv'
      BY <1>11 DEF StartRow, Targets, RowsInv, Fresh
    <2>2. ClaimedRowsArePending'
      BY <1>11 DEF StartRow, Targets, ClaimedRowsArePending, RowsInv, Pending
    <2>3. BatchInv'
      BY <1>11 DEF StartRow, Targets, BatchInv
    <2>4. OwedInv'
      BY <1>11 DEF StartRow, Targets, OwedInv, ClaimedRowsArePending, Pending, BatchInv
    <2>5. ReceivedInv'
      BY <1>11 DEF StartRow, Targets, ReceivedInv, DeliveredToSubscribers, OwedInv, BatchInv, ClaimedRowsArePending, Pending, RowsInv, Fresh
    <2> QED
      BY <2>1, <2>2, <2>3, <2>4, <2>5
  <1>12. ASSUME NEW w \in Workers, NEW ep \in Endpoints, NEW outcome \in Outcomes, Post(w, ep, outcome) PROVE IInv'
    <2>1. RowsInv'
      BY <1>12 DEF Post, RowError, Outcomes, RowsInv, Fresh
    <2>2. ClaimedRowsArePending'
      BY <1>12 DEF Post, RowError, Outcomes, ClaimedRowsArePending, RowsInv, Pending
    <2>3. BatchInv'
      BY <1>12 DEF Post, RowError, Outcomes, BatchInv
    <2>4. OwedInv'
      BY <1>12 DEF Post, RowError, Outcomes, OwedInv, ClaimedRowsArePending, Pending, BatchInv
    <2>5. ReceivedInv'
      <3>1. \A q \in Endpoints : got[q] \subseteq got'[q]
        BY <1>12 DEF Post
      <3>2. DeliveredToSubscribers' /\ \A v \in Workers : \A e \in ok'[v] : \A q \in owed'[e] : e \in got'[q]
        BY <1>12, <3>1 DEF Post, ReceivedInv, DeliveredToSubscribers
      <3>3. ASSUME NEW v \in Workers, NEW e \in cur'[v]
            PROVE  /\ \A q \in left'[v] : e \in Matching[q]
                   /\ ~err'[v] => \A q \in owed'[e] : q \in left'[v] \/ e \in got'[q]
        <4>1. cur' = cur /\ owed' = owed /\ e \in Events
          BY <1>12 DEF Post
        <4>2. CASE v # w
          BY <1>12, <4>1, <4>2, <3>1 DEF Post, ReceivedInv
        <4>3. CASE v = w
          <5>1. left'[w] = left[w] \ {ep}
            BY <1>12 DEF Post
          <5>2. ~err'[w] => ~err[w] /\ outcome = "accepted"
            BY <1>12 DEF Post, RowError
          <5>3. outcome = "accepted" => got'[ep] = got[ep] \cup cur[w]
            BY <1>12 DEF Post
          <5> QED
            BY <4>1, <4>3, <5>1, <5>2, <5>3, <3>1 DEF ReceivedInv
        <4> QED
          BY <4>2, <4>3
      <3> QED
        BY <3>2, <3>3 DEF ReceivedInv
    <2> QED
      BY <2>1, <2>2, <2>3, <2>4, <2>5
  <1>13. ASSUME NEW w \in Workers, NEW ep \in Endpoints, PostRaises(w, ep) PROVE IInv'
    <2>1. RowsInv'
      BY <1>13 DEF PostRaises, Abandon, RowsInv, Fresh
    <2>2. ClaimedRowsArePending'
      BY <1>13 DEF PostRaises, Abandon, ClaimedRowsArePending, RowsInv, Pending
    <2>3. BatchInv'
      BY <1>13 DEF PostRaises, Abandon, BatchInv
    <2>4. OwedInv'
      BY <1>13 DEF PostRaises, Abandon, OwedInv, ClaimedRowsArePending, Pending, BatchInv
    <2>5. ReceivedInv'
      BY <1>13 DEF PostRaises, Abandon, ReceivedInv, DeliveredToSubscribers, OwedInv, BatchInv, ClaimedRowsArePending, Pending, RowsInv, Fresh
    <2> QED
      BY <2>1, <2>2, <2>3, <2>4, <2>5
  <1>14. ASSUME NEW w \in Workers, FinishRow(w) PROVE IInv'
    <2>1. RowsInv'
      BY <1>14 DEF FinishRow, RowsInv, Fresh
    <2>2. ClaimedRowsArePending'
      BY <1>14 DEF FinishRow, ClaimedRowsArePending, RowsInv, Pending
    <2>3. BatchInv'
      BY <1>14 DEF FinishRow, BatchInv
    <2>4. OwedInv'
      BY <1>14 DEF FinishRow, OwedInv, ClaimedRowsArePending, Pending, BatchInv
    <2>5. ReceivedInv'
      BY <1>14 DEF FinishRow, ReceivedInv, DeliveredToSubscribers, OwedInv, BatchInv, ClaimedRowsArePending, Pending, RowsInv, Fresh
    <2> QED
      BY <2>1, <2>2, <2>3, <2>4, <2>5
  <1>15. ASSUME NEW w \in Workers, Commit(w) PROVE IInv'
    <2>0. \A e \in Events : e \notin batch[w] => row'[e] = row[e]
      BY <1>15 DEF Commit
    <2>a. \A e \in Events : row'[e].delivered => row[e].delivered \/ e \in ok[w]
      BY <1>15 DEF Commit, Settled
    <2>1. RowsInv'
      BY <1>15, <2>0 DEF Commit, RowsInv, ClaimedRowsArePending, Pending
    <2>2. ClaimedRowsArePending'
      BY <1>15 DEF Commit, Settled, ClaimedRowsArePending, RowsInv, Pending
    <2>3. BatchInv'
      BY <1>15 DEF Commit, Settled, BatchInv
    <2>4. OwedInv'
      BY <1>15 DEF Commit, Settled, OwedInv, ClaimedRowsArePending, Pending, BatchInv
    <2>5. ReceivedInv'
      BY <1>15, <2>a DEF Commit, ReceivedInv, DeliveredToSubscribers
    <2> QED
      BY <2>1, <2>2, <2>3, <2>4, <2>5
  <1>16. ASSUME NEW w \in Workers, Crash(w) PROVE IInv'
    <2>1. RowsInv'
      BY <1>16 DEF Crash, Abandon, RowsInv, Fresh
    <2>2. ClaimedRowsArePending'
      BY <1>16 DEF Crash, Abandon, ClaimedRowsArePending, RowsInv, Pending
    <2>3. BatchInv'
      BY <1>16 DEF Crash, Abandon, BatchInv
    <2>4. OwedInv'
      BY <1>16 DEF Crash, Abandon, OwedInv, ClaimedRowsArePending, Pending, BatchInv
    <2>5. ReceivedInv'
      BY <1>16 DEF Crash, Abandon, ReceivedInv, DeliveredToSubscribers, OwedInv, BatchInv, ClaimedRowsArePending, Pending, RowsInv, Fresh
    <2> QED
      BY <2>1, <2>2, <2>3, <2>4, <2>5
  <1>17. CASE UNCHANGED vars
    BY <1>17 DEF vars, RowsInv, ClaimedRowsArePending, Pending, BatchInv, OwedInv, ReceivedInv,
                 DeliveredToSubscribers
  <1> QED
    BY <1>1, <1>2, <1>3, <1>4, <1>5, <1>6, <1>7, <1>8, <1>9, <1>10, <1>11, <1>12, <1>13,
       <1>14, <1>15, <1>16, <1>17 DEF Next, WorkerStep, Workers

LEMMA OutboxInvariant == Spec => []IInv
  BY IInvInit, IInvNext, PTL DEF Spec

\* Nobody holds a row another worker holds, or one whose fate is committed.
THEOREM OutboxClaims == Spec => []ClaimedRowsArePending
  <1>1. IInv => ClaimedRowsArePending
    BY DEF IInv
  <1> QED
    BY <1>1, OutboxInvariant, PTL

\* A delivered event has reached every standing subscriber.
THEOREM OutboxDelivery == Spec => []DeliveredToSubscribers
  <1>1. IInv => DeliveredToSubscribers
    BY DEF IInv, ReceivedInv
  <1> QED
    BY <1>1, OutboxInvariant, PTL

-----------------------------------------------------------------------------
(***************************************************************************)
(* Refinement.                                                             *)
(***************************************************************************)
stageBar == [e \in Events |-> Stage(e)]

LEMMA InitRefines == Init => Promise!Init
  BY DEF Init, Promise!Init, Stage

LEMMA NextRefines == IInv /\ [Next]_vars => [Promise!Next]_(Promise!vars)
  <1> SUFFICES ASSUME IInv, [Next]_vars
               PROVE  Promise!Next \/ UNCHANGED <<stageBar, got, owed>>
    BY DEF Promise!vars, stageBar
  <1> USE DEF rowVars, endpointVars, workerVars, postVars, adminVars
  <1>0. TypeOK
    BY DEF IInv
  <1>a. ASSUME UNCHANGED rowVars, UNCHANGED <<got, owed>> PROVE UNCHANGED <<stageBar, got, owed>>
    BY <1>a DEF stageBar, Stage
  <1>1. ASSUME NEW e \in Events, Capture(e) PROVE Promise!Append(e)
    <2>1. Stage(e) = "absent" /\ Stage(e)' = "pending"
      BY <1>1 DEF Capture, Stage, IInv, RowsInv, Fresh
    <2>2. ASSUME NEW f \in Events, f # e PROVE Stage(f)' = Stage(f)
      BY <1>1, <2>2 DEF Capture, Stage
    <2>3. stageBar' = [stageBar EXCEPT ![e] = "pending"]
      BY <2>1, <2>2 DEF stageBar
    <2>4. owed' = [owed EXCEPT ![e] = {ep \in endpoints : e \in Matching[ep]}]
      BY <1>1 DEF Capture
    <2>5. {ep \in endpoints : e \in Matching[ep]} \in SUBSET {ep \in Endpoints : e \in Matching[ep]}
      BY <1>0 DEF TypeOK
    <2>6. UNCHANGED got
      BY <1>1 DEF Capture
    <2>7. stageBar[e] = "absent"
      BY <2>1 DEF stageBar
    <2> QED
      BY <2>3, <2>4, <2>5, <2>6, <2>7 DEF Promise!Append, stageBar
  <1>2. ASSUME NEW e \in Events, BackoffElapses(e) PROVE UNCHANGED <<stageBar, got, owed>>
    <2>1. ASSUME NEW f \in Events PROVE Stage(f)' = Stage(f)
      BY <1>0, <1>2 DEF BackoffElapses, Stage, TypeOK, Row
    <2> QED
      BY <1>2, <2>1 DEF BackoffElapses, stageBar
  <1>3. ASSUME NEW ep \in Endpoints, DeleteEndpoint(ep) PROVE Promise!Unsubscribe(ep)
    BY <1>3 DEF DeleteEndpoint, Promise!Unsubscribe, Stage
  <1>4. ASSUME NEW a \in Admins, RequeueWrite(a)
        PROVE  (\E e \in Events : Promise!Requeue(e)) \/ UNCHANGED <<stageBar, got, owed>>
    <2>1. PICK rd \in req[a] : row' = [row EXCEPT ![rd[1]] = Requeued(@, rd[2])]
      BY <1>4 DEF RequeueWrite
    <2> DEFINE e == rd[1]
    <2>2. e \in captured /\ e \in Events /\ row[e] \in Row /\ rd[2] \in Row
      BY <1>0 DEF IInv, RowsInv, TypeOK
    <2>3. UNCHANGED <<captured, got, owed>>
      BY <1>4 DEF RequeueWrite
    <2>4. row'[e].delivered = row[e].delivered /\ (row'[e].failed => row[e].failed)
      BY <1>0, <2>1, <2>2, RequeuedType DEF TypeOK
    <2>5. ASSUME NEW f \in Events, f # e PROVE Stage(f)' = Stage(f)
      <3>1. row'[f] = row[f]
        BY <1>0, <2>1, <2>2, <2>5 DEF TypeOK
      <3> QED
        BY <3>1, <2>3 DEF Stage
    <2>6. Stage(e)' = Stage(e) \/ (Stage(e) = "dead" /\ Stage(e)' = "pending")
      BY <2>2, <2>3, <2>4 DEF Stage
    <2>7. CASE Stage(e)' = Stage(e)
      BY <2>3, <2>5, <2>7 DEF stageBar
    <2>8. CASE Stage(e) = "dead" /\ Stage(e)' = "pending"
      <3>1. stageBar' = [stageBar EXCEPT ![e] = "pending"] /\ stageBar[e] = "dead"
        BY <2>2, <2>5, <2>8 DEF stageBar
      <3>2. Promise!Requeue(e)
        BY <2>3, <3>1 DEF Promise!Requeue, stageBar
      <3> QED
        BY <2>2, <3>2
    <2> QED
      BY <2>6, <2>7, <2>8
  <1>5. ASSUME NEW w \in Workers, NEW ep \in Endpoints, NEW outcome \in Outcomes,
               Post(w, ep, outcome)
        PROVE  (\E e \in Events : Promise!Receive(ep, e)) \/ UNCHANGED <<stageBar, got, owed>>
    <2>1. UNCHANGED rowVars /\ UNCHANGED owed /\ pc[w] = "post" /\ ep \in left[w]
      BY <1>5 DEF Post
    <2>2. stageBar' = stageBar
      BY <2>1 DEF stageBar, Stage
    <2>3. PICK e \in queue[w] : cur[w] = {e}
      BY <2>1 DEF IInv, BatchInv
    <2>4. e \in batch[w] /\ e \in Events
      BY <1>0 DEF IInv, BatchInv, TypeOK
    <2>5. Pending(e)
      BY <2>4 DEF IInv, ClaimedRowsArePending
    <2>6. stageBar[e] = "pending"
      BY <2>4, <2>5 DEF stageBar, Stage, Pending
    <2>7. e \in Matching[ep]
      BY <2>1, <2>3 DEF IInv, ReceivedInv
    <2>8. CASE outcome = "refused"
      BY <1>5, <2>1, <2>2, <2>8 DEF Post
    <2>9. CASE outcome # "refused"
      <3>1. got' = [got EXCEPT ![ep] = @ \cup {e}]
        BY <1>5, <2>3, <2>9 DEF Post
      <3>2. Promise!Receive(ep, e)
        BY <2>1, <2>2, <2>6, <2>7, <3>1 DEF Promise!Receive, stageBar
      <3> QED
        BY <2>4, <3>2
    <2> QED
      BY <2>8, <2>9
  <1>6. ASSUME NEW w \in Workers, Commit(w)
        PROVE  \E done, dead \in SUBSET Events : Promise!Settle(done, dead)
    <2> DEFINE done == ok[w]
               dead == {e \in batch[w] \ ok[w] : row'[e].failed}
    <2>1. /\ UNCHANGED <<captured, got, owed>>
          /\ row' = [e \in Events |-> IF e \in batch[w] THEN Settled(row[e], e \in ok[w]) ELSE row[e]]
      BY <1>6 DEF Commit
    <2>2. done \in SUBSET Events /\ dead \in SUBSET Events /\ done \subseteq batch[w]
      BY <1>0 DEF IInv, BatchInv, TypeOK
    <2>3. ASSUME NEW e \in batch[w] PROVE stageBar[e] = "pending" /\ Pending(e) /\ e \in Events
      BY <1>0 DEF IInv, ClaimedRowsArePending, Pending, stageBar, Stage, TypeOK
    <2>4. ASSUME NEW e \in done PROVE \A ep \in owed[e] : ep \in Endpoints /\ e \in got[ep]
      BY <1>0, <2>2 DEF IInv, ReceivedInv, TypeOK
    <2>5. ASSUME NEW e \in Events
          PROVE  Stage(e)' = IF e \in done THEN "delivered"
                             ELSE IF e \in dead THEN "dead" ELSE stageBar[e]
      <3>1. CASE e \notin batch[w]
        BY <2>1, <2>2, <3>1 DEF Stage, stageBar
      <3>2. CASE e \in done
        <4>1. row'[e].delivered /\ e \in captured'
          BY <2>1, <2>2, <2>3, <3>2 DEF Settled, Pending
        <4> QED
          BY <3>2, <4>1 DEF Stage
      <3>3. CASE e \in batch[w] \ done
        <4>1. ~row'[e].delivered /\ e \in captured' /\ stageBar[e] = "pending"
          BY <2>1, <2>3, <3>3 DEF Settled, Pending
        <4> QED
          BY <3>3, <4>1 DEF Stage
      <3> QED
        BY <3>1, <3>2, <3>3
    <2>6. Promise!Settle(done, dead)
      BY <2>1, <2>2, <2>3, <2>4, <2>5
         DEF Promise!Settle, Promise!At, Promise!Receivers, stageBar
    <2> QED
      BY <2>2, <2>6
  <1>7. ASSUME NEW w \in Workers, DrainOrgs(w) \/ FinishRow(w) \/ Crash(w)
        PROVE  UNCHANGED <<stageBar, got, owed>>
    BY <1>7, <1>a DEF DrainOrgs, FinishRow, Crash
  <1>8. ASSUME NEW w \in Workers, NEW o \in Orgs, DispatchRequest(w, o) \/ Claim(w, o)
        PROVE  UNCHANGED <<stageBar, got, owed>>
    BY <1>8, <1>a DEF DispatchRequest, Claim
  <1>9. ASSUME NEW w \in Workers, NEW e \in Events, SettleUntargeted(w, e) \/ StartRow(w, e)
        PROVE  UNCHANGED <<stageBar, got, owed>>
    BY <1>9, <1>a DEF SettleUntargeted, StartRow
  <1>10. ASSUME NEW w \in Workers, NEW ep \in Endpoints, PostRaises(w, ep)
         PROVE  UNCHANGED <<stageBar, got, owed>>
    BY <1>10, <1>a DEF PostRaises
  <1>11. ASSUME NEW ep \in Endpoints, CreateEndpoint(ep) PROVE UNCHANGED <<stageBar, got, owed>>
    BY <1>11, <1>a DEF CreateEndpoint
  <1>12. ASSUME NEW a \in Admins, NEW e \in Events, RequeueRead(a, e)
         PROVE  UNCHANGED <<stageBar, got, owed>>
    BY <1>12, <1>a DEF RequeueRead
  <1>13. CASE UNCHANGED vars
    BY <1>13, <1>a DEF vars
  <1> QED
    BY <1>1, <1>2, <1>3, <1>4, <1>5, <1>6, <1>7, <1>8, <1>9, <1>10, <1>11, <1>12, <1>13
       DEF Next, WorkerStep, Workers, Promise!Next

\* The outbox implements its promise: every step of every worker, admin and
\* writer is a step of OutboxPromise or changes nothing a subscriber sees.
THEOREM OutboxImplementsPromise == Spec => ImplementsPromise
  BY InitRefines, NextRefines, OutboxInvariant, PTL DEF Spec, ImplementsPromise, Promise!Spec
=============================================================================
