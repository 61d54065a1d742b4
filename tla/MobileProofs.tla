----------------------------- MODULE MobileProofs -----------------------------
(***************************************************************************)
(* Theorems about what outlives the process of the mobile client.          *)
(*                                                                         *)
(* The offline queue, for any number of flushes and every answer of the    *)
(* server.  A flush that has met no other one waits for the answer to the  *)
(* first item of the queue, which is what lets an answer take the first    *)
(* item off; and every flush has asked for what stood first then, which is *)
(* what keeps the replays in the order of the queue.                       *)
(*                                                                         *)
(* The session, for any users and any number of Keychain writes under way. *)
(* SessionIsWhole speaks of a process that runs; what carries it over a    *)
(* relaunch is Placeable, and over a refresh WholeTokens.                  *)
(***************************************************************************)
EXTENDS MCOfflineQueue, SequenceTheorems, TLAPS

LEMMA RestOfMutations ==
    ASSUME NEW q \in Seq(Mutations)
    PROVE  Rest(q) \in Seq(Mutations)
BY DEF Rest

LEMMA HeadIsMutation ==
    ASSUME NEW q \in Seq(Mutations), q # <<>>
    PROVE  Head(q) \in Mutations
OBVIOUS

\* Giving requests up adds well-formed requests to those that are late.
LEMMA GiveUpType ==
    ASSUME TypeOK, NEW C \in SUBSET Callers, GiveUp(C)
    PROVE  late' \subseteq [item : Mutations, replay : BOOLEAN]
<1>1. PICK stray \in SUBSET {c \in C : Waits(c) /\ answer[c] = "open"} :
        late' = late \cup {[item |-> sending[c], replay |-> c \in Flushes] : c \in stray}
  BY DEF GiveUp
<1>2. ASSUME NEW c \in stray
      PROVE  sending[c] \in Mutations
  BY <1>2 DEF Waits, TypeOK
<1>3. ASSUME NEW r \in late'
      PROVE  r \in [item : Mutations, replay : BOOLEAN]
  <2>1. CASE r \in late
    BY <2>1 DEF TypeOK
  <2>2. CASE \E c \in stray : r = [item |-> sending[c], replay |-> c \in Flushes]
    <3>1. PICK c \in stray : r = [item |-> sending[c], replay |-> c \in Flushes]
      BY <2>2
    <3>2. sending[c] \in Mutations /\ (c \in Flushes) \in BOOLEAN
      BY <1>2
    <3>3. QED  BY <3>1, <3>2
  <2>3. QED  BY <1>1, <2>1, <2>2
<1>4. QED  BY <1>3

\* A flush that starts asks for an item of the queue.
LEMMA StartType ==
    ASSUME TypeOK, NEW f \in Flushes, StartFlush(f)
    PROVE  /\ sending' \in [Callers -> Mutations \cup {"none"}]
           /\ answer' \in [Callers -> {"open"} \cup AllOutcomes]
<1>1. Head(queue) \in Mutations
  BY HeadIsMutation DEF StartFlush, TypeOK
<1>2. QED  BY <1>1 DEF StartFlush, Call, TypeOK

\* The history variables keep their types.
LEMMA CallHistory ==
    ASSUME NEW c, NEW m, Call(c, m)
    PROVE  crowded' \in BOOLEAN
BY Zenon DEF Call, Crowding, Meeting

LEMMA HistoryStep ==
    ASSUME TypeOK, [Next]_vars
    PROVE  crowded' \in BOOLEAN /\ calm' \in BOOLEAN /\ excused' \subseteq Mutations
<1>t. crowded \in BOOLEAN /\ calm \in BOOLEAN /\ excused \subseteq Mutations
  BY DEF TypeOK
<1>1. CASE UNCHANGED <<crowded, calm, excused>>
  BY <1>t, <1>1
<1>2. ASSUME NEW c, NEW m, Call(c, m), calm' \in {calm, FALSE, TRUE}, excused' = excused
      PROVE  crowded' \in BOOLEAN /\ calm' \in BOOLEAN /\ excused' \subseteq Mutations
  BY <1>t, <1>2, CallHistory
<1>3. CASE (\E c \in Callers : Serve(c)) \/ ServeLate
  BY <1>1, <1>3 DEF Serve, ServeLate, clientVars
<1>4. CASE \E m \in Mutations : Write(m) \/ WriteAnswered(m) \/ WriteQueued(m)
  BY <1>2, <1>4 DEF Write, WriteAnswered, WriteQueued, NetworkProblem, Hang
<1>5. ASSUME NEW f \in Flushes, FlushAnswered(f)
      PROVE  crowded' \in BOOLEAN /\ calm' \in BOOLEAN /\ excused' \subseteq Mutations
  <2>1. excused' \subseteq Mutations /\ calm' = calm
    BY <1>t, <1>5 DEF FlushAnswered, Excuse
  <2>2. \E m : Call(f, m)
    BY <1>5 DEF FlushAnswered, Hang
  <2>3. QED  BY <1>t, <2>1, <2>2, CallHistory
<1>6. CASE \E f \in Flushes : FlushFails(f) \/ Connected(f)
  BY <1>2, <1>6 DEF FlushFails, Connected, StartFlush, NetworkProblem, Hang
<1>7. CASE GoOffline
  BY <1>t, <1>7 DEF GoOffline, clientVars
<1>8. CASE GoOnline
  <2>1. calm' = TRUE /\ excused' = excused
    BY <1>8 DEF GoOnline
  <2>2. crowded' = crowded \/ \E f \in Flushes : Call(f, Head(queue))
    BY <1>8 DEF GoOnline, StartFlush
  <2>3. QED  BY <1>t, <2>1, <2>2, CallHistory
<1>9. CASE Relaunch
  BY <1>t, <1>9 DEF Relaunch
<1>10. CASE UNCHANGED vars
  BY <1>1, <1>10 DEF vars, clientVars
<1>11. QED
  BY <1>3, <1>4, <1>5, <1>6, <1>7, <1>8, <1>9, <1>10 DEF Next, WriteStep, FlushStep

\* Every step keeps the types of the variables.
LEMMA TypeStep == TypeOK /\ [Next]_vars => TypeOK'
<1> SUFFICES ASSUME TypeOK, [Next]_vars
             PROVE  TypeOK'
  OBVIOUS
<1>h. crowded' \in BOOLEAN /\ calm' \in BOOLEAN /\ excused' \subseteq Mutations
  BY HistoryStep
<1> USE <1>h, NoneIsNoMutation, OutcomesAreKnown
<1>1. ASSUME NEW c \in Callers, Serve(c)
      PROVE  TypeOK'
  <2>1. PICK outcome \in Outcomes :
          /\ answer' = [answer EXCEPT ![c] = outcome]
          /\ Process(sending[c], c \in Flushes, outcome)
    BY <1>1 DEF Serve
  <2>2. sending[c] \in Mutations
    BY <1>1 DEF Serve, Waits, TypeOK
  <2>3. answer' \in [Callers -> {"open"} \cup AllOutcomes]
    BY <2>1 DEF TypeOK
  <2>4. settled' \subseteq Mutations /\ replayed' \subseteq Mutations
    BY <2>1, <2>2 DEF Process, TypeOK
  <2>5. QED  BY <1>1, <2>3, <2>4 DEF Serve, TypeOK
<1>2. ASSUME ServeLate
      PROVE  TypeOK'
  <2>1. PICK r \in late, outcome \in Outcomes :
          /\ late' = late \ {r}
          /\ Process(r.item, r.replay, outcome)
          /\ UNCHANGED <<clientVars, online, failures, events>>
    BY <1>2 DEF ServeLate
  <2>2. settled' \subseteq Mutations /\ replayed' \subseteq Mutations
    BY <2>1 DEF Process, TypeOK
  <2>3. QED  BY <2>1, <2>2 DEF clientVars, TypeOK
<1>3. ASSUME NEW m \in Mutations, Write(m)
      PROVE  TypeOK'
  BY <1>3 DEF Write, Call, Callers, serverVars, TypeOK
<1>4. ASSUME NEW m \in Mutations, WriteAnswered(m)
      PROVE  TypeOK'
  BY <1>4 DEF WriteAnswered, Hang, Call, Callers, serverVars, TypeOK
<1>5. ASSUME NEW m \in Mutations, WriteQueued(m)
      PROVE  TypeOK'
  <2>1. late' \subseteq [item : Mutations, replay : BOOLEAN]
    BY <1>5, GiveUpType DEF WriteQueued, NetworkProblem, Callers
  <2>2. failures' \in Nat
    BY <1>5 DEF WriteQueued, NetworkProblem, TypeOK
  <2>3. queue' \in Seq(Mutations) /\ entered' \in Seq(Mutations)
    BY <1>5 DEF WriteQueued, TypeOK
  <2>4. sending' \in [Callers -> Mutations \cup {"none"}] /\ answer' \in [Callers -> {"open"} \cup AllOutcomes]
    BY <1>5 DEF WriteQueued, Hang, Call, TypeOK
  <2>5. QED  BY <1>5, <2>1, <2>2, <2>3, <2>4 DEF WriteQueued, serverVars, TypeOK
<1>6. ASSUME NEW f \in Flushes, FlushAnswered(f)
      PROVE  TypeOK'
  <2>1. Rest(queue) \in Seq(Mutations)
    BY RestOfMutations DEF TypeOK
  <2>2. sending' \in [Callers -> Mutations \cup {"none"}] /\ answer' \in [Callers -> {"open"} \cup AllOutcomes]
    <3>1. CASE Rest(queue) = <<>>
      BY <1>6, <3>1 DEF FlushAnswered, Hang, Call, TypeOK
    <3>2. CASE Rest(queue) # <<>>
      <4>1. Head(Rest(queue)) \in Mutations
        BY <2>1, <3>2, HeadIsMutation
      <4>2. QED  BY <1>6, <3>2, <4>1 DEF FlushAnswered, Call, TypeOK
    <3>3. QED  BY <3>1, <3>2
  <2>3. QED  BY <1>6, <2>1, <2>2 DEF FlushAnswered, serverVars, TypeOK
<1>7. ASSUME NEW f \in Flushes, FlushFails(f)
      PROVE  TypeOK'
  <2>1. late' \subseteq [item : Mutations, replay : BOOLEAN]
    BY <1>7, GiveUpType DEF FlushFails, NetworkProblem, Callers
  <2>2. failures' \in Nat
    BY <1>7 DEF FlushFails, NetworkProblem, TypeOK
  <2>3. QED  BY <1>7, <2>1, <2>2 DEF FlushFails, Hang, Call, serverVars, TypeOK
<1>8. ASSUME NEW f \in Flushes, Connected(f)
      PROVE  TypeOK'
  BY <1>8, StartType DEF Connected, serverVars, TypeOK
<1>9. CASE GoOffline
  <2>1. online' \in BOOLEAN
    BY <1>9, Zenon DEF GoOffline
  <2>2. events' \in Nat
    BY <1>9 DEF GoOffline, TypeOK
  <2>3. QED  BY <1>9, <2>1, <2>2 DEF GoOffline, clientVars, serverVars, TypeOK
<1>10. CASE GoOnline
  <2>1. sending' \in [Callers -> Mutations \cup {"none"}] /\ answer' \in [Callers -> {"open"} \cup AllOutcomes]
    BY <1>10, StartType DEF GoOnline, TypeOK
  <2>2. QED  BY <1>10, <2>1 DEF GoOnline, serverVars, TypeOK
<1>11. CASE Relaunch
  <2>1. late' \subseteq [item : Mutations, replay : BOOLEAN]
    BY <1>11, GiveUpType DEF Relaunch
  <2>2. sending' \in [Callers -> Mutations \cup {"none"}]
    BY <1>11 DEF Relaunch, TypeOK
  <2>3. QED  BY <1>11, <2>1, <2>2 DEF Relaunch, serverVars, TypeOK
<1>12. CASE UNCHANGED vars
  BY <1>12 DEF vars, clientVars, serverVars, TypeOK
<1>13. QED
  BY <1>1, <1>2, <1>3, <1>4, <1>5, <1>6, <1>7, <1>8, <1>9, <1>10, <1>11, <1>12
  DEF Next, WriteStep, FlushStep

LEMMA TypeInit == Init => TypeOK
<1> SUFFICES ASSUME Init
             PROVE  TypeOK
  OBVIOUS
<1>1. online \in BOOLEAN /\ crowded \in BOOLEAN /\ calm \in BOOLEAN
  BY Zenon DEF Init
<1>2. queue \in Seq(Mutations) /\ entered \in Seq(Mutations)
  BY DEF Init
<1>3. QED  BY <1>1, <1>2 DEF Init, TypeOK

\* Every variable keeps its type, for any number of flushes.
THEOREM OfflineTypeOK == Spec => []TypeOK
<1>1. Init => TypeOK
  BY TypeInit
<1>2. QED  BY <1>1, TypeStep, PTL DEF Spec

(***************************************************************************)
(* Nothing is lost.                                                        *)
(***************************************************************************)
Over == settled \cup excused

\* A flush that has met no other one waits for the first item of the queue, which an
\* answer settles unless it is a 5xx.
AsksForHead ==
    ~crowded =>
        /\ \A f, g \in Flushes : Waits(f) /\ Waits(g) => f = g
        /\ \A f \in Flushes :
            Waits(f) => /\ queue # <<>>
                        /\ sending[f] = Head(queue)
                        /\ answer[f] \in {"applied", "rejected"} => sending[f] \in settled

Durable == TypeOK /\ NothingLost /\ AsksForHead

\* Nothing is lost by a step that leaves what is queued alone.
LEMMA SameQueue ==
    ASSUME NothingLost, queue' = queue, entered' = entered, Over \subseteq Over'
    PROVE  NothingLost'
BY DEF NothingLost, InSeq, Over

LEMMA ServerSettles ==
    ASSUME NEW m, NEW replay, NEW outcome, Process(m, replay, outcome)
    PROVE  settled \subseteq settled' /\ (outcome # "broken" => m \in settled')
BY DEF Process

\* A call keeps what the others wait for, if it leaves the first item where it is or takes
\* up an answer; and it asks for the first item itself, if it is a flush's.
LEMMA CallAsks ==
    ASSUME TypeOK, AsksForHead, NEW c \in Callers, NEW m, Call(c, m), settled' = settled,
           c \in Flushes /\ m # "none" => queue' # <<>> /\ m = Head(queue'),
           \/ c \in Flushes /\ Waits(c)
           \/ queue # <<>> => queue' # <<>> /\ Head(queue') = Head(queue)
    PROVE  AsksForHead'
<1> SUFFICES ASSUME ~crowded'
             PROVE  /\ \A f, g \in Flushes : Waits(f)' /\ Waits(g)' => f = g
                    /\ \A f \in Flushes :
                        Waits(f)' => /\ queue' # <<>>
                                     /\ sending'[f] = Head(queue')
                                     /\ answer'[f] \in {"applied", "rejected"} => sending'[f] \in settled'
  BY Zenon DEF AsksForHead
<1>1. ~Meeting(sending') /\ ~(crowded /\ \E f \in Flushes : sending'[f] # "none")
  BY Zenon DEF Call, Crowding
<1>2. \A f, g \in Flushes : Waits(f)' /\ Waits(g)' => f = g
  BY <1>1, Zenon DEF Meeting, Waits
<1>3. ASSUME NEW f \in Flushes, Waits(f)'
      PROVE  /\ queue' # <<>>
             /\ sending'[f] = Head(queue')
             /\ answer'[f] \in {"applied", "rejected"} => sending'[f] \in settled'
  <2>1. ~crowded
    BY <1>1, <1>3 DEF Waits
  <2>2. sending' = [sending EXCEPT ![c] = m] /\ answer' = [answer EXCEPT ![c] = "open"]
    BY DEF Call
  <2>3. CASE f = c
    BY <1>3, <2>2, <2>3 DEF TypeOK, Waits
  <2>4. CASE f # c
    <3>1. sending'[f] = sending[f] /\ answer'[f] = answer[f] /\ Waits(f)
      BY <1>3, <2>2, <2>4 DEF TypeOK, Waits, Callers
    <3>2. ~(c \in Flushes /\ Waits(c))
      BY <2>1, <2>4, <3>1 DEF AsksForHead
    <3>3. queue # <<>> /\ sending[f] = Head(queue) /\ (answer[f] \in {"applied", "rejected"} => sending[f] \in settled)
      BY <2>1, <3>1 DEF AsksForHead
    <3>4. QED  BY <3>1, <3>2, <3>3
  <2>5. QED  BY <2>3, <2>4
<1>4. QED  BY <1>2, <1>3

\* Taking the first item off keeps the others.
LEMMA RestKeeps ==
    ASSUME NEW q \in Seq(Mutations), q # <<>>, NEW m, InSeq(m, q), m # Head(q)
    PROVE  InSeq(m, Rest(q))
<1>1. PICK i \in DOMAIN q : q[i] = m
  BY DEF InSeq
<1>2. i \in 1..Len(q) /\ i # 1
  BY <1>1
<1>3. i - 1 \in 1..Len(Tail(q)) /\ Tail(q)[i - 1] = m
  BY <1>1, <1>2
<1>4. QED  BY <1>3 DEF InSeq, Rest

LEMMA AppendKeeps ==
    ASSUME NEW q \in Seq(Mutations), NEW m \in Mutations, NEW n, InSeq(n, q) \/ n = m
    PROVE  InSeq(n, Append(q, m))
<1>1. CASE InSeq(n, q)
  <2>1. PICK i \in DOMAIN q : q[i] = n
    BY <1>1 DEF InSeq
  <2>2. i \in DOMAIN Append(q, m) /\ Append(q, m)[i] = n
    BY <2>1
  <2>3. QED  BY <2>2 DEF InSeq
<1>2. CASE n = m
  <2>1. Len(q) + 1 \in DOMAIN Append(q, m) /\ Append(q, m)[Len(q) + 1] = n
    BY <1>2
  <2>2. QED  BY <2>1 DEF InSeq
<1>3. QED  BY <1>1, <1>2

\* An answer takes an item off that the server has settled, or that is excused.
LEMMA AnswerTakesHead ==
    ASSUME Durable, NEW f \in Flushes, FlushAnswered(f), queue # <<>>
    PROVE  Head(queue) \in settled \cup excused'
<1>1. Waits(f) /\ answer[f] \in AllOutcomes /\ Head(queue) \in Mutations
  BY HeadIsMutation DEF FlushAnswered, Answered, Durable, TypeOK, Callers
<1>2. CASE crowded \/ answer[f] = "broken"
  BY <1>1, <1>2 DEF FlushAnswered, Excuse
<1>3. CASE ~crowded /\ answer[f] # "broken"
  BY <1>1, <1>3 DEF AllOutcomes, Durable, AsksForHead
<1>4. QED  BY <1>2, <1>3

LEMMA AnswerLosesNothing ==
    ASSUME Durable, NEW f \in Flushes, FlushAnswered(f)
    PROVE  NothingLost' /\ Over \subseteq Over'
<1>1. queue' = Rest(queue) /\ entered' = entered /\ settled' = settled /\ excused \subseteq excused'
  BY DEF FlushAnswered, serverVars, Excuse
<1>2. CASE queue = <<>>
  BY <1>1, <1>2, SameQueue DEF Durable, Over, Rest
<1>3. CASE queue # <<>>
  <2>1. ASSUME NEW i \in DOMAIN entered
        PROVE  entered[i] \in settled \cup excused' \/ InSeq(entered[i], Rest(queue))
    <3>1. entered[i] \in settled \cup excused \/ InSeq(entered[i], queue)
      BY DEF Durable, NothingLost
    <3>2. QED  BY <1>1, <1>3, <3>1, AnswerTakesHead, RestKeeps DEF Durable, TypeOK
  <2>2. QED  BY <1>1, <2>1 DEF NothingLost, Over
<1>4. QED  BY <1>2, <1>3

\* The mutation that is queued is in the queue, and the others stay there.
LEMMA EnqueueLosesNothing ==
    ASSUME Durable, NEW m \in Mutations, WriteQueued(m)
    PROVE  NothingLost'
<1>1. queue' = Append(queue, m) /\ entered' = Append(entered, m) /\ Over' = Over
  BY DEF WriteQueued, serverVars, Over
<1>2. SUFFICES ASSUME NEW i \in DOMAIN Append(entered, m)
               PROVE  Append(entered, m)[i] \in Over \/ InSeq(Append(entered, m)[i], Append(queue, m))
  BY <1>1 DEF NothingLost, Over
<1>3. queue \in Seq(Mutations) /\ entered \in Seq(Mutations)
  BY DEF Durable, TypeOK
<1>4. CASE i \in DOMAIN entered
  <2>1. Append(entered, m)[i] = entered[i]
    BY <1>3, <1>4
  <2>2. entered[i] \in Over \/ InSeq(entered[i], queue)
    BY <1>4 DEF Durable, NothingLost, Over
  <2>3. QED  BY <1>3, <2>1, <2>2, AppendKeeps
<1>5. CASE i \notin DOMAIN entered
  <2>1. Append(entered, m)[i] = m
    BY <1>2, <1>3, <1>5
  <2>2. QED  BY <1>3, <2>1, AppendKeeps
<1>6. QED  BY <1>4, <1>5

LEMMA DurableStep ==
    ASSUME Durable, [Next]_vars
    PROVE  Durable'
<1> USE NoneIsNoMutation, CallersDiffer
<1>t. TypeOK /\ TypeOK'
  BY TypeStep DEF Durable
<1>1. ASSUME NEW c \in Callers, Serve(c)
      PROVE  Durable'
  <2>1. PICK outcome \in Outcomes :
          /\ answer' = [answer EXCEPT ![c] = outcome]
          /\ Process(sending[c], c \in Flushes, outcome)
    BY <1>1 DEF Serve
  <2>2. settled \subseteq settled' /\ (outcome # "broken" => sending[c] \in settled')
    BY <2>1, ServerSettles
  <2>3. UNCHANGED <<queue, entered, sending, crowded, excused>>
    BY <1>1 DEF Serve
  <2>4. AsksForHead'
    BY <1>t, <2>1, <2>2, <2>3, OutcomesAreKnown DEF Durable, AsksForHead, Waits, TypeOK, Callers, AllOutcomes
  <2>5. QED  BY <1>t, <2>2, <2>3, <2>4, SameQueue DEF Durable, Over
<1>2. ASSUME ServeLate
      PROVE  Durable'
  <2>1. settled \subseteq settled'
    BY <1>2, ServerSettles DEF ServeLate
  <2>2. UNCHANGED clientVars
    BY <1>2 DEF ServeLate
  <2>3. Over \subseteq Over'
    BY <2>1, <2>2 DEF Over, clientVars
  <2>4. AsksForHead'
    BY <2>1, <2>2 DEF clientVars, Durable, AsksForHead, Waits
  <2>5. QED  BY <1>t, <2>2, <2>3, <2>4, SameQueue DEF clientVars, Durable
<1>3. ASSUME NEW m \in Mutations, Write(m)
      PROVE  Durable'
  <2>1. UNCHANGED <<queue, entered, settled, excused>> /\ Call(m, m) /\ m \in Callers \ Flushes
    BY <1>3 DEF Write, serverVars, Callers
  <2>2. AsksForHead'
    BY <1>t, <2>1, CallAsks DEF Durable
  <2>3. QED  BY <1>t, <2>1, <2>2, SameQueue DEF Durable, Over
<1>4. ASSUME NEW m \in Mutations, WriteAnswered(m)
      PROVE  Durable'
  <2>1. UNCHANGED <<queue, entered, settled, excused>> /\ Call(m, "none") /\ m \in Callers
    BY <1>4 DEF WriteAnswered, Hang, serverVars, Callers
  <2>2. AsksForHead'
    BY <1>t, <2>1, CallAsks DEF Durable
  <2>3. QED  BY <1>t, <2>1, <2>2, SameQueue DEF Durable, Over
<1>5. ASSUME NEW m \in Mutations, WriteQueued(m)
      PROVE  Durable'
  <2>1. queue # <<>> => queue' # <<>> /\ Head(queue') = Head(queue)
    BY <1>5, <1>t DEF WriteQueued, TypeOK
  <2>2. settled' = settled /\ Call(m, "none") /\ m \in Callers
    BY <1>5 DEF WriteQueued, Hang, serverVars, Callers
  <2>3. AsksForHead'
    BY <1>t, <2>1, <2>2, CallAsks DEF Durable
  <2>4. QED  BY <1>5, <1>t, <2>3, EnqueueLosesNothing DEF Durable
<1>6. ASSUME NEW f \in Flushes, FlushAnswered(f)
      PROVE  Durable'
  <2>1. settled' = settled /\ f \in Callers /\ Waits(f) /\ queue' = Rest(queue)
    BY <1>6 DEF FlushAnswered, Answered, serverVars, Callers
  <2>2. PICK m : Call(f, m) /\ (m # "none" => queue' # <<>> /\ m = Head(queue'))
    BY <1>6 DEF FlushAnswered, Hang
  <2>3. AsksForHead'
    BY <1>t, <2>1, <2>2, CallAsks DEF Durable
  <2>4. QED  BY <1>6, <1>t, <2>3, AnswerLosesNothing DEF Durable
<1>7. ASSUME NEW f \in Flushes, FlushFails(f)
      PROVE  Durable'
  <2>1. UNCHANGED <<queue, entered, settled, excused>> /\ Call(f, "none") /\ f \in Callers
    BY <1>7 DEF FlushFails, Hang, serverVars, Callers
  <2>2. AsksForHead'
    BY <1>t, <2>1, CallAsks DEF Durable
  <2>3. QED  BY <1>t, <2>1, <2>2, SameQueue DEF Durable, Over
<1>8. ASSUME NEW f \in Flushes, StartFlush(f), UNCHANGED <<queue, entered, settled, excused>>
      PROVE  Durable'
  <2>1. Call(f, Head(queue)) /\ queue # <<>> /\ f \in Callers
    BY <1>8 DEF StartFlush, Callers
  <2>2. AsksForHead'
    BY <1>8, <1>t, <2>1, CallAsks DEF Durable
  <2>3. QED  BY <1>8, <1>t, <2>2, SameQueue DEF Durable, Over
<1>9. CASE \E f \in Flushes : Connected(f)
  BY <1>8, <1>9 DEF Connected, serverVars
<1>10. CASE UNCHANGED <<clientVars, serverVars>>
  <2>1. AsksForHead'
    BY <1>10 DEF clientVars, serverVars, Durable, AsksForHead, Waits
  <2>2. QED  BY <1>10, <1>t, <2>1, SameQueue DEF clientVars, serverVars, Durable, Over
<1>11. CASE GoOnline
  <2>1. CASE UNCHANGED <<sending, answer, crowded>>
    BY <1>10, <1>11, <2>1 DEF GoOnline, clientVars
  <2>2. CASE \E f \in Flushes : StartFlush(f)
    BY <1>8, <1>11, <2>2 DEF GoOnline, serverVars
  <2>3. QED  BY <1>11, <2>1, <2>2 DEF GoOnline
<1>12. CASE Relaunch
  <2>1. UNCHANGED <<queue, entered, settled, excused>>
    BY <1>12 DEF Relaunch, serverVars
  <2>2. AsksForHead'
    BY <1>12, <1>t DEF Relaunch, AsksForHead, Waits, TypeOK, Callers
  <2>3. QED  BY <1>t, <2>1, <2>2, SameQueue DEF Durable, Over
<1>13. CASE GoOffline \/ UNCHANGED vars
  BY <1>10, <1>13 DEF GoOffline, vars
<1>14. QED
  BY <1>1, <1>2, <1>3, <1>4, <1>5, <1>6, <1>7, <1>9, <1>11, <1>12, <1>13
  DEF Next, WriteStep, FlushStep

\* Whatever the flushes, the answers and the relaunches: an item leaves the queue settled, or
\* excused by a 5xx or by a flush that had met another one.
THEOREM NothingIsLost == Spec => []NothingLost
<1>1. Init => Durable
  <2>1. Init => TypeOK
    BY TypeInit
  <2>2. Init => NothingLost /\ AsksForHead
    BY DEF Init, NothingLost, AsksForHead, Waits, Callers
  <2>3. QED  BY <2>1, <2>2 DEF Durable
<1>2. Durable /\ [Next]_vars => Durable'
  BY DurableStep
<1>3. Durable => NothingLost
  BY DEF Durable
<1>4. QED  BY <1>1, <1>2, <1>3, PTL DEF Spec

(***************************************************************************)
(* Replays take effect in order.                                           *)
(***************************************************************************)

\* m has been queued, and all that was queued before it is settled or excused.
Placed(m) == InSeq(m, entered) /\ \A x \in Mutations : Earlier(x, m) => x \in Over

\* The queue is what was entered, without a beginning that is settled or excused.
QueueIsSuffix ==
    /\ Len(queue) <= Len(entered)
    /\ \A i \in 1..Len(queue) : queue[i] = entered[i + (Len(entered) - Len(queue))]
    /\ \A i \in 1..Len(entered) - Len(queue) : entered[i] \in Over

\* A mutation is written once, and queued when its own request has failed.
EnteredOnce ==
    /\ \A i, j \in DOMAIN entered : entered[i] = entered[j] => i = j
    /\ \A i \in DOMAIN entered : entered[i] \in issued /\ ~Waits(entered[i])
    /\ \A m \in Mutations : Waits(m) => m \in issued

\* So are the replays that wait, that may still come, and that have taken effect.
AskedPlaced == \A f \in Flushes : Waits(f) => Placed(sending[f])
LatePlaced == \A r \in late : r.replay => Placed(r.item)
ReplaysPlaced == \A n \in replayed : Placed(n)
AllPlaced == AskedPlaced /\ LatePlaced /\ ReplaysPlaced

Ordered == Durable /\ QueueIsSuffix /\ EnteredOnce /\ AllPlaced

\* What stands first in the queue has nothing before it that is not over.
LEMMA HeadPlaced ==
    ASSUME TypeOK, QueueIsSuffix, EnteredOnce, queue # <<>>
    PROVE  Placed(Head(queue))
<1> DEFINE k == 1 + (Len(entered) - Len(queue))
<1>1. queue \in Seq(Mutations) /\ entered \in Seq(Mutations)
  BY DEF TypeOK
<1>2. k \in DOMAIN entered /\ entered[k] = Head(queue)
  BY <1>1 DEF QueueIsSuffix
<1>3. InSeq(Head(queue), entered)
  BY <1>2 DEF InSeq
<1>4. ASSUME NEW x \in Mutations, Earlier(x, Head(queue))
      PROVE  x \in Over
  <2>1. PICK i \in DOMAIN entered, j \in DOMAIN entered :
            i < j /\ entered[i] = x /\ entered[j] = Head(queue)
    BY <1>4 DEF Earlier
  <2>2. j = k
    BY <1>2, <2>1 DEF EnteredOnce
  <2>3. i \in 1..Len(entered) - Len(queue)
    BY <1>1, <2>1, <2>2
  <2>4. QED  BY <2>1, <2>3 DEF QueueIsSuffix
<1>5. QED  BY <1>3, <1>4 DEF Placed

\* And so it is of the queue that a step leaves behind.
LEMMA HeadPlacedNext ==
    (TypeOK /\ QueueIsSuffix /\ EnteredOnce /\ queue # <<>> => Placed(Head(queue)))'
<1>1. TypeOK /\ QueueIsSuffix /\ EnteredOnce /\ queue # <<>> => Placed(Head(queue))
  BY HeadPlaced
<1>2. QED  BY <1>1, PTL

\* What is placed stays so while the server settles more, and when a new one is queued.
LEMMA PlacedStays ==
    ASSUME NEW m, Placed(m), entered' = entered, Over \subseteq Over'
    PROVE  Placed(m)'
BY DEF Placed, Earlier, InSeq

LEMMA PlacedAtAppend ==
    ASSUME NEW m, NEW n \in Mutations, Placed(m), entered \in Seq(Mutations), ~InSeq(n, entered),
           entered' = Append(entered, n), Over' = Over
    PROVE  Placed(m)'
<1>1. m # n
  BY DEF Placed
<1>2. InSeq(m, entered)'
  <2>1. PICK i \in DOMAIN entered : entered[i] = m
    BY DEF Placed, InSeq
  <2>2. i \in DOMAIN entered' /\ entered'[i] = m
    BY <2>1
  <2>3. QED  BY <2>2 DEF InSeq
<1>3. ASSUME NEW x \in Mutations, Earlier(x, m)'
      PROVE  x \in Over'
  <2>1. PICK i \in DOMAIN entered', j \in DOMAIN entered' :
            i < j /\ entered'[i] = x /\ entered'[j] = m
    BY <1>3 DEF Earlier
  <2>2. j \in DOMAIN entered /\ entered[j] = m
    BY <1>1, <2>1
  <2>3. i \in DOMAIN entered /\ entered[i] = x
    BY <2>1, <2>2
  <2>4. Earlier(x, m)
    BY <2>1, <2>2, <2>3 DEF Earlier
  <2>5. QED  BY <2>4 DEF Placed
<1>4. QED  BY <1>2, <1>3 DEF Placed

\* A replay that is given up was placed when it was asked for.
LEMMA GiveUpPlaced ==
    ASSUME AllPlaced, NEW C \in SUBSET Callers, GiveUp(C)
    PROVE  \A r \in late' : r.replay => Placed(r.item)
<1>1. PICK stray \in SUBSET {c \in C : Waits(c) /\ answer[c] = "open"} :
        late' = late \cup {[item |-> sending[c], replay |-> c \in Flushes] : c \in stray}
  BY DEF GiveUp
<1>2. ASSUME NEW r \in late', r.replay
      PROVE  Placed(r.item)
  <2>1. CASE r \in late
    BY <1>2, <2>1 DEF AllPlaced, LatePlaced
  <2>2. CASE \E c \in stray : r = [item |-> sending[c], replay |-> c \in Flushes]
    <3>1. PICK c \in stray : r = [item |-> sending[c], replay |-> c \in Flushes]
      BY <2>2
    <3>2. c \in Flushes /\ Waits(c)
      BY <1>2, <3>1
    <3>3. QED  BY <3>1, <3>2 DEF AllPlaced, AskedPlaced
  <2>3. QED  BY <1>1, <1>2, <2>1, <2>2
<1>3. QED  BY <1>2

\* What the server takes up is placed, if it is a replay.
LEMMA ProcessPlaced ==
    ASSUME AllPlaced, NEW m \in Mutations, NEW replay, NEW outcome, Process(m, replay, outcome),
           replay => Placed(m), entered' = entered, excused' = excused
    PROVE  ReplaysPlaced' /\ Over \subseteq Over'
<1>1. Over \subseteq Over'
  BY DEF Process, Over
<1>2. \A n \in replayed' : Placed(n)
  BY DEF Process, AllPlaced, ReplaysPlaced
<1>3. QED  BY <1>1, <1>2, PlacedStays DEF ReplaysPlaced

\* What the flushes ask for after a call of c for m.
LEMMA CallPlaced ==
    ASSUME TypeOK, AllPlaced, NEW c \in Callers, NEW m, Call(c, m),
           c \in Flushes /\ m # "none" => Placed(m)
    PROVE  \A f \in Flushes : Waits(f)' => Placed(sending'[f])
<1>1. ASSUME NEW f \in Flushes, Waits(f)'
      PROVE  Placed(sending'[f])
  <2>1. sending' = [sending EXCEPT ![c] = m] /\ f \in Callers
    BY DEF Call, Callers
  <2>2. CASE f = c
    BY <1>1, <2>1, <2>2 DEF TypeOK, Waits
  <2>3. CASE f # c
    BY <1>1, <2>1, <2>3 DEF TypeOK, Waits, AllPlaced, AskedPlaced
  <2>4. QED  BY <2>2, <2>3
<1>2. QED  BY <1>1

\* A step that queues nothing and takes nothing off keeps the order, if what it asks for and
\* what it gives up are placed and it does not make a queued mutation wait again.
LEMMA OrderKept ==
    ASSUME Ordered, queue' = queue, entered' = entered, replayed' = replayed,
           Over \subseteq Over', issued \subseteq issued',
           \A m \in Mutations : Waits(m)' => Waits(m) \/ (m \notin issued /\ m \in issued'),
           \A f \in Flushes : Waits(f)' => Placed(sending'[f]),
           \A r \in late' : r.replay => Placed(r.item)
    PROVE  QueueIsSuffix' /\ EnteredOnce' /\ AllPlaced'
<1>1. QueueIsSuffix'
  BY DEF Ordered, QueueIsSuffix
<1>2. EnteredOnce'
  <2>1. entered \in Seq(Mutations)
    BY DEF Ordered, Durable, TypeOK
  <2>2. \A i \in DOMAIN entered : entered[i] \in Mutations
    BY <2>1
  <2>3. QED  BY <2>2 DEF Ordered, EnteredOnce
<1>3. AskedPlaced' /\ LatePlaced'
  BY PlacedStays DEF AskedPlaced, LatePlaced
<1>4. ReplaysPlaced'
  BY PlacedStays DEF Ordered, AllPlaced, ReplaysPlaced
<1>5. QED  BY <1>1, <1>2, <1>3, <1>4 DEF AllPlaced

\* The mutation that is queued comes last.
LEMMA OrderAtEnqueue ==
    ASSUME Ordered, NEW m \in Mutations, WriteQueued(m)
    PROVE  QueueIsSuffix' /\ EnteredOnce' /\ AllPlaced'
<1>1. queue \in Seq(Mutations) /\ entered \in Seq(Mutations) /\ sending \in [Callers -> Mutations \cup {"none"}]
  BY DEF Ordered, Durable, TypeOK
<1>2. queue' = Append(queue, m) /\ entered' = Append(entered, m) /\ UNCHANGED <<issued, replayed>> /\ Over' = Over
  BY DEF WriteQueued, serverVars, Over
<1>3. Waits(m) /\ m \in issued /\ ~InSeq(m, entered)
  <2>1. Waits(m)
    BY DEF WriteQueued, NetworkProblem
  <2>2. QED  BY <2>1 DEF Ordered, EnteredOnce, InSeq
<1>4. sending'[m] = "none" /\ \A n \in Mutations : sending'[n] # "none" => Waits(n)
  BY <1>1 DEF WriteQueued, Hang, Call, Waits, Callers
<1>5. QueueIsSuffix'
  <2>1. Len(queue') = Len(queue) + 1 /\ Len(entered') = Len(entered) + 1
    BY <1>1, <1>2
  <2>2. ASSUME NEW i \in 1..Len(queue')
        PROVE  queue'[i] = entered'[i + (Len(entered') - Len(queue'))]
    <3>1. CASE i = Len(queue) + 1
      BY <1>1, <1>2, <2>1, <3>1 DEF Ordered, QueueIsSuffix
    <3>2. CASE i \in 1..Len(queue)
      <4>1. queue'[i] = queue[i]
        BY <1>1, <1>2, <3>2
      <4>2. i + (Len(entered) - Len(queue)) \in 1..Len(entered)
        BY <1>1, <3>2 DEF Ordered, QueueIsSuffix
      <4>3. entered'[i + (Len(entered) - Len(queue))] = entered[i + (Len(entered) - Len(queue))]
        BY <1>1, <1>2, <4>2
      <4>4. Len(entered') - Len(queue') = Len(entered) - Len(queue)
        BY <1>1, <2>1
      <4>5. QED  BY <3>2, <4>1, <4>3, <4>4 DEF Ordered, QueueIsSuffix
    <3>3. QED  BY <1>1, <2>1, <2>2, <3>1, <3>2
  <2>3. ASSUME NEW i \in 1..Len(entered') - Len(queue')
        PROVE  entered'[i] \in Over'
    <3>1. i \in 1..Len(entered) - Len(queue) /\ i \in 1..Len(entered)
      BY <1>1, <2>1, <2>3
    <3>2. entered'[i] = entered[i]
      BY <1>1, <1>2, <3>1
    <3>3. QED  BY <1>2, <3>1, <3>2 DEF Ordered, QueueIsSuffix
  <2>4. Len(queue') <= Len(entered')
    BY <1>1, <2>1 DEF Ordered, QueueIsSuffix
  <2>5. QED  BY <2>2, <2>3, <2>4 DEF QueueIsSuffix
<1>6. EnteredOnce'
  <2>1. ASSUME NEW i \in DOMAIN entered'
        PROVE  \/ i \in DOMAIN entered /\ entered'[i] = entered[i] /\ entered[i] # m /\ entered[i] \in Mutations
               \/ i = Len(entered) + 1 /\ entered'[i] = m
    <3>1. CASE i \in DOMAIN entered
      BY <1>1, <1>2, <1>3, <3>1 DEF InSeq
    <3>2. CASE i \notin DOMAIN entered
      BY <1>1, <1>2, <2>1, <3>2
    <3>3. QED  BY <3>1, <3>2
  <2>2. \A i, j \in DOMAIN entered' : entered'[i] = entered'[j] => i = j
    BY <2>1 DEF Ordered, EnteredOnce
  <2>3. \A i \in DOMAIN entered' : entered'[i] \in issued' /\ sending'[entered'[i]] = "none"
    <3>1. SUFFICES ASSUME NEW i \in DOMAIN entered'
                   PROVE  entered'[i] \in issued' /\ sending'[entered'[i]] = "none"
      OBVIOUS
    <3>2. CASE i \in DOMAIN entered /\ entered'[i] = entered[i] /\ entered[i] \in Mutations
      BY <1>2, <1>4, <3>2 DEF Ordered, EnteredOnce, Waits
    <3>3. CASE entered'[i] = m
      BY <1>2, <1>3, <1>4, <3>3
    <3>4. QED  BY <2>1, <3>2, <3>3
  <2>4. \A n \in Mutations : sending'[n] # "none" => n \in issued'
    BY <1>2, <1>4 DEF Ordered, EnteredOnce
  <2>5. QED  BY <2>2, <2>3, <2>4 DEF EnteredOnce, Waits
<1>7. AskedPlaced'
  <2>1. Call(m, "none") /\ m \in Callers
    BY DEF WriteQueued, Hang, Callers
  <2>2. \A f \in Flushes : Waits(f)' => Placed(sending'[f])
    BY <2>1, CallPlaced DEF Ordered, Durable
  <2>3. QED  BY <1>1, <1>2, <1>3, <2>2, PlacedAtAppend DEF AskedPlaced
<1>8. LatePlaced'
  <2>1. \A r \in late' : r.replay => Placed(r.item)
    BY GiveUpPlaced DEF WriteQueued, NetworkProblem, Callers, Ordered
  <2>2. QED  BY <1>1, <1>2, <1>3, <2>1, PlacedAtAppend DEF LatePlaced
<1>9. ReplaysPlaced'
  BY <1>1, <1>2, <1>3, PlacedAtAppend DEF Ordered, AllPlaced, ReplaysPlaced
<1>10. QED  BY <1>5, <1>6, <1>7, <1>8, <1>9 DEF AllPlaced

\* What an answer takes off is over, and the beginning grows by it; an empty queue stays so.
LEMMA OrderAtAnswer ==
    ASSUME Ordered, Durable', NEW f \in Flushes, FlushAnswered(f)
    PROVE  QueueIsSuffix' /\ EnteredOnce' /\ AllPlaced'
<1>1. queue \in Seq(Mutations) /\ entered \in Seq(Mutations)
  BY DEF Ordered, Durable, TypeOK
<1>2. queue # <<>> => Head(queue) \in Over'
  BY AnswerTakesHead DEF FlushAnswered, serverVars, Ordered, Over
<1>3. /\ queue' = Rest(queue) /\ UNCHANGED <<entered, issued, settled, replayed, late>>
      /\ Over \subseteq Over'
  BY AnswerLosesNothing DEF FlushAnswered, serverVars, Ordered
<1>4. \A m \in Mutations : Waits(m)' <=> Waits(m)
  BY CallersDiffer DEF FlushAnswered, Hang, Call, Waits, Callers, Ordered, Durable, TypeOK
<1>5. QueueIsSuffix'
  <2>1. CASE queue # <<>>
    <3>0. queue' = Tail(queue)
      BY <1>3, <2>1 DEF Rest
    <3>1. Len(queue') = Len(queue) - 1 /\ Len(queue) \in Nat \ {0} /\ Len(entered) \in Nat
      BY <1>1, <2>1, <3>0
    <3>2. ASSUME NEW i \in 1..Len(queue')
          PROVE  queue'[i] = entered'[i + (Len(entered') - Len(queue'))]
      <4>1. queue'[i] = queue[i + 1] /\ i + 1 \in 1..Len(queue)
        BY <1>1, <2>1, <3>0, <3>1
      <4>2. (i + 1) + (Len(entered) - Len(queue)) = i + (Len(entered') - Len(queue'))
        BY <1>3, <3>1
      <4>3. QED  BY <1>3, <4>1, <4>2 DEF Ordered, QueueIsSuffix
    <3>3. ASSUME NEW i \in 1..Len(entered') - Len(queue')
          PROVE  entered'[i] \in Over'
      <4>1. CASE i \in 1..Len(entered) - Len(queue)
        BY <1>3, <4>1 DEF Ordered, QueueIsSuffix
      <4>2. CASE i = 1 + (Len(entered) - Len(queue))
        <5>1. entered[i] = queue[1]
          BY <3>1, <4>2 DEF Ordered, QueueIsSuffix
        <5>2. QED  BY <1>1, <1>2, <1>3, <2>1, <5>1
      <4>3. i \in 1..(Len(entered) - Len(queue)) + 1
        BY <1>3, <3>1, <3>3
      <4>4. QED  BY <3>1, <4>1, <4>2, <4>3
    <3>4. Len(queue') <= Len(entered')
      BY <1>3, <3>1 DEF Ordered, QueueIsSuffix
    <3>5. QED  BY <3>2, <3>3, <3>4 DEF QueueIsSuffix
  <2>2. CASE queue = <<>>
    <3>1. queue' = queue
      BY <1>3, <2>2 DEF Rest
    <3>2. QED  BY <1>3, <3>1 DEF Ordered, QueueIsSuffix
  <2>3. QED  BY <2>1, <2>2
<1>6. EnteredOnce'
  <2>1. \A i \in DOMAIN entered : entered[i] \in Mutations
    BY <1>1
  <2>2. QED  BY <1>3, <1>4, <2>1 DEF Ordered, EnteredOnce
<1>7. LatePlaced' /\ ReplaysPlaced'
  BY <1>3, PlacedStays DEF Ordered, AllPlaced, LatePlaced, ReplaysPlaced
<1>8. AskedPlaced'
  <2>1. PICK m : Call(f, m) /\ (m # "none" => queue' # <<>> /\ m = Head(queue'))
    BY <1>3 DEF FlushAnswered, Hang
  <2>2. ASSUME NEW g \in Flushes, Waits(g)'
        PROVE  Placed(sending[g])' 
    <3>1. sending' = [sending EXCEPT ![f] = m] /\ {f, g} \subseteq Callers
      BY <2>1 DEF Call, Callers
    <3>2. CASE g = f
      <4>1. queue' # <<>> /\ sending'[g] = Head(queue')
        BY <2>1, <2>2, <3>1, <3>2 DEF Waits, Ordered, Durable, TypeOK
      <4>2. Placed(Head(queue))'
        BY <4>1, <1>5, <1>6, HeadPlacedNext DEF Durable
      <4>3. QED  BY <4>1, <4>2
    <3>3. CASE g # f
      <4>1. sending'[g] = sending[g] /\ Waits(g)
        BY <2>2, <3>1, <3>3 DEF Waits, Ordered, Durable, TypeOK
      <4>2. QED  BY <1>3, <4>1, PlacedStays DEF Ordered, AllPlaced, AskedPlaced
    <3>4. QED  BY <3>2, <3>3
  <2>3. QED  BY <2>2 DEF AskedPlaced
<1>9. QED  BY <1>5, <1>6, <1>7, <1>8 DEF AllPlaced

LEMMA OrderedStep ==
    ASSUME Ordered, [Next]_vars
    PROVE  Ordered'
<1> USE NoneIsNoMutation, CallersDiffer
<1>d. Durable'
  BY DurableStep DEF Ordered
<1>t. TypeOK /\ AllPlaced
  BY DEF Ordered, Durable
<1>l. \A r \in late : r.replay => Placed(r.item)
  BY <1>t DEF AllPlaced, LatePlaced
<1>a. \A f \in Flushes : Waits(f) => Placed(sending[f])
  BY <1>t DEF AllPlaced, AskedPlaced
<1> SUFFICES QueueIsSuffix' /\ EnteredOnce' /\ AllPlaced'
  BY <1>d DEF Ordered
<1>0. ASSUME NEW m \in Mutations, NEW replay, NEW outcome, Process(m, replay, outcome),
             replay => Placed(m), UNCHANGED <<queue, sending, issued, entered, excused>>, late' \subseteq late
      PROVE  QueueIsSuffix' /\ EnteredOnce' /\ AllPlaced'
  <2>1. ReplaysPlaced' /\ Over \subseteq Over'
    BY <1>0, <1>t, ProcessPlaced
  <2>2. LatePlaced' /\ AskedPlaced'
    BY <1>0, <1>l, <1>a, <2>1, PlacedStays DEF LatePlaced, AskedPlaced, Waits
  <2>3. QED  BY <1>0, <2>1, <2>2 DEF Ordered, QueueIsSuffix, EnteredOnce, Waits, AllPlaced
<1>1. ASSUME NEW c \in Callers, Serve(c)
      PROVE  QueueIsSuffix' /\ EnteredOnce' /\ AllPlaced'
  <2>1. PICK outcome \in Outcomes : Process(sending[c], c \in Flushes, outcome)
    BY <1>1 DEF Serve
  <2>2. UNCHANGED <<queue, sending, issued, entered, excused, late>>
    BY <1>1 DEF Serve
  <2>3. sending[c] \in Mutations /\ (c \in Flushes => Placed(sending[c]))
    BY <1>1, <1>t, <1>a DEF Serve, Waits, TypeOK
  <2>4. QED  BY <1>0, <2>1, <2>2, <2>3
<1>2. ASSUME ServeLate
      PROVE  QueueIsSuffix' /\ EnteredOnce' /\ AllPlaced'
  <2>1. PICK r \in late, outcome \in Outcomes :
          late' = late \ {r} /\ Process(r.item, r.replay, outcome) /\ UNCHANGED clientVars
    BY <1>2 DEF ServeLate
  <2>2. r.item \in Mutations /\ (r.replay => Placed(r.item)) /\ late' \subseteq late
    BY <1>t, <1>l, <2>1 DEF TypeOK
  <2>3. QED  BY <1>0, <2>1, <2>2 DEF clientVars
<1>3. ASSUME NEW m \in Mutations, Write(m)
      PROVE  QueueIsSuffix' /\ EnteredOnce' /\ AllPlaced'
  <2>1. \A n \in Mutations : Waits(n)' => Waits(n) \/ (n \notin issued /\ n \in issued')
    BY <1>3, <1>t DEF Write, Call, Waits, Callers, TypeOK
  <2>2. \A f \in Flushes : Waits(f)' => Placed(sending'[f])
    BY <1>3, <1>t, CallPlaced DEF Write, Callers
  <2>3. QED  BY <1>3, <1>l, <2>1, <2>2, OrderKept DEF Write, serverVars, Over
<1>4. ASSUME NEW m \in Mutations, WriteAnswered(m)
      PROVE  QueueIsSuffix' /\ EnteredOnce' /\ AllPlaced'
  <2>1. \A n \in Mutations : Waits(n)' => Waits(n)
    BY <1>4, <1>t DEF WriteAnswered, Hang, Call, Waits, Callers, TypeOK
  <2>2. \A f \in Flushes : Waits(f)' => Placed(sending'[f])
    BY <1>4, <1>t, CallPlaced DEF WriteAnswered, Hang, Callers
  <2>3. QED  BY <1>4, <1>l, <2>1, <2>2, OrderKept DEF WriteAnswered, serverVars, Over
<1>5. ASSUME NEW m \in Mutations, WriteQueued(m)
      PROVE  QueueIsSuffix' /\ EnteredOnce' /\ AllPlaced'
  BY <1>5, OrderAtEnqueue
<1>6. ASSUME NEW f \in Flushes, FlushAnswered(f)
      PROVE  QueueIsSuffix' /\ EnteredOnce' /\ AllPlaced'
  BY <1>6, <1>d, OrderAtAnswer
<1>7. ASSUME NEW f \in Flushes, FlushFails(f)
      PROVE  QueueIsSuffix' /\ EnteredOnce' /\ AllPlaced'
  <2>1. \A n \in Mutations : Waits(n)' => Waits(n)
    BY <1>7, <1>t DEF FlushFails, Hang, Call, Waits, Callers, TypeOK
  <2>2. \A r \in late' : r.replay => Placed(r.item)
    BY <1>7, <1>t, GiveUpPlaced DEF FlushFails, NetworkProblem, Callers
  <2>3. \A g \in Flushes : Waits(g)' => Placed(sending'[g])
    BY <1>7, <1>t, CallPlaced DEF FlushFails, Hang, Callers
  <2>4. QED  BY <1>7, <2>1, <2>2, <2>3, OrderKept DEF FlushFails, serverVars, Over
<1>8. ASSUME NEW f \in Flushes, StartFlush(f),
             UNCHANGED <<queue, entered, issued, replayed, settled, excused, late>>
      PROVE  QueueIsSuffix' /\ EnteredOnce' /\ AllPlaced'
  <2>1. \A n \in Mutations : Waits(n)' => Waits(n)
    BY <1>8, <1>t DEF StartFlush, Call, Waits, Callers, TypeOK
  <2>2. Placed(Head(queue))
    BY <1>8, HeadPlaced DEF StartFlush, Ordered, Durable
  <2>3. \A g \in Flushes : Waits(g)' => Placed(sending'[g])
    BY <1>8, <1>t, <2>2, CallPlaced DEF StartFlush, Callers
  <2>4. QED  BY <1>8, <1>l, <2>1, <2>3, OrderKept DEF Over
<1>9. CASE \E f \in Flushes : Connected(f)
  BY <1>8, <1>9 DEF Connected, serverVars
<1>10. CASE UNCHANGED <<clientVars, serverVars, late>>
  BY <1>10, <1>l, <1>a, OrderKept DEF clientVars, serverVars, Waits, Over
<1>11. CASE GoOnline
  <2>1. CASE UNCHANGED <<sending, answer, crowded>>
    BY <1>10, <1>11, <2>1 DEF GoOnline, clientVars
  <2>2. CASE \E f \in Flushes : StartFlush(f)
    BY <1>8, <1>11, <2>2 DEF GoOnline, serverVars
  <2>3. QED  BY <1>11, <2>1, <2>2 DEF GoOnline
<1>12. CASE Relaunch
  <2>1. \A n \in Mutations : ~Waits(n)'
    BY <1>12 DEF Relaunch, Waits, Callers
  <2>2. \A r \in late' : r.replay => Placed(r.item)
    BY <1>12, <1>t, GiveUpPlaced DEF Relaunch
  <2>3. \A f \in Flushes : Waits(f)' => queue # <<>> /\ sending'[f] = Head(queue)
    BY <1>12 DEF Relaunch, Waits, Callers
  <2>4. \A f \in Flushes : Waits(f)' => Placed(sending'[f])
    BY <2>3, HeadPlaced DEF Ordered, Durable
  <2>5. QED  BY <1>12, <2>1, <2>2, <2>4, OrderKept DEF Relaunch, serverVars, Over
<1>13. CASE GoOffline \/ UNCHANGED vars
  BY <1>10, <1>13 DEF GoOffline, vars
<1>14. QED
  BY <1>1, <1>2, <1>3, <1>4, <1>5, <1>6, <1>7, <1>9, <1>11, <1>12, <1>13
  DEF Next, WriteStep, FlushStep

LEMMA OrderedAlways == Spec => []Ordered
<1>1. Init => Ordered
  <2>1. Init => TypeOK
    BY TypeInit
  <2>2. Init => NothingLost /\ AsksForHead
    BY DEF Init, NothingLost, AsksForHead, Waits, Callers
  <2>3. Init => QueueIsSuffix /\ EnteredOnce /\ AllPlaced
    BY DEF Init, QueueIsSuffix, EnteredOnce, AllPlaced, AskedPlaced, LatePlaced, ReplaysPlaced, Waits, Callers
  <2>4. QED  BY <2>1, <2>2, <2>3 DEF Ordered, Durable
<1>2. Ordered /\ [Next]_vars => Ordered'
  BY OrderedStep
<1>3. QED  BY <1>1, <1>2, PTL DEF Spec

\* A replay takes effect when everything queued before it is settled or excused, over lost
\* answers, relaunches, late requests and flushes that meet.
THEOREM ReplaysKeepOrder == Spec => []ReplayedInOrder
<1>1. Ordered => ReplayedInOrder
  BY DEF Ordered, AllPlaced, ReplaysPlaced, Placed, ReplayedInOrder, Over
<1>2. QED  BY <1>1, OrderedAlways, PTL

(***************************************************************************)
(* The queue implements ReplayPromise.  An answer takes the head off, and  *)
(* is the abstract Leave; the server's answer to a replay is Replay, for   *)
(* the replays that wait, or may still come, are of a mutation that is the *)
(* first of the queue or has left it; a flush that meets another one, and  *)
(* a 5xx, are Disturb.                                                     *)
(***************************************************************************)
InFront(m) == InSeq(m, entered) /\ ~Promise!Behind(m)

AskedInFront == \A f \in Flushes : Waits(f) => InFront(sending[f])
LateInFront == \A r \in late : r.replay => InFront(r.item)
AllInFront == AskedInFront /\ LateInFront

Disturbed == crowded \/ \E f \in Flushes : answer[f] = "broken"

\* The first item of the queue has been queued, and nothing behind it is the same.
LEMMA HeadInFront ==
    ASSUME Ordered, queue # <<>>
    PROVE  InFront(Head(queue))
<1>1. queue \in Seq(Mutations) /\ entered \in Seq(Mutations)
  BY DEF Ordered, Durable, TypeOK
<1>2. InSeq(Head(queue), entered)
  BY HeadPlaced DEF Ordered, Durable, Placed
<1>3. ASSUME NEW i \in DOMAIN queue \ {1}, queue[i] = Head(queue)
      PROVE  FALSE
  <2> DEFINE gone == Len(entered) - Len(queue)
  <2>1. gone \in Nat /\ i \in 1..Len(queue) /\ 1 \in 1..Len(queue)
    BY <1>1, <1>3 DEF Ordered, QueueIsSuffix
  <2>2. queue[i] = entered[i + gone] /\ queue[1] = entered[1 + gone]
    BY <2>1 DEF Ordered, QueueIsSuffix
  <2>3. i + gone \in DOMAIN entered /\ 1 + gone \in DOMAIN entered
    BY <1>1, <2>1
  <2>4. queue[1] = Head(queue)
    BY <1>1, <2>1
  <2> HIDE DEF gone
  <2>5. i + gone = 1 + gone
    BY <1>3, <2>2, <2>3, <2>4, Zenon DEF Ordered, EnteredOnce
  <2>6. QED  BY <1>3, <2>1, <2>5
<1>4. QED  BY <1>2, <1>3 DEF InFront, Promise!Behind

LEMMA HeadInFrontNext ==
    (Ordered /\ queue # <<>> => InFront(Head(queue)))'
<1>1. Ordered /\ queue # <<>> => InFront(Head(queue))
  BY HeadInFront
<1>2. QED  BY <1>1, PTL

\* What is in front stays there while nothing is queued, or another mutation is.
LEMMA InFrontStays ==
    ASSUME NEW m, InFront(m), entered' = entered, queue' = queue
    PROVE  InFront(m)'
BY DEF InFront, InSeq, Promise!Behind

LEMMA InFrontAtAppend ==
    ASSUME TypeOK, NEW m, NEW n \in Mutations, InFront(m), ~InSeq(n, entered),
           entered' = Append(entered, n), queue' = Append(queue, n)
    PROVE  InFront(m)'
<1>1. queue \in Seq(Mutations) /\ entered \in Seq(Mutations)
  BY DEF TypeOK
<1>2. m # n
  BY DEF InFront
<1>3. PICK i \in DOMAIN entered : entered[i] = m
  BY DEF InFront, InSeq
<1>4. i \in DOMAIN entered' /\ entered'[i] = m
  BY <1>1, <1>3
<1>5. ASSUME NEW j \in DOMAIN queue' \ {1}, queue'[j] = m
      PROVE  FALSE
  <2>1. j \in DOMAIN queue /\ queue[j] = m
    BY <1>1, <1>2, <1>5
  <2>2. QED  BY <1>5, <2>1 DEF InFront, Promise!Behind
<1>6. QED  BY <1>4, <1>5 DEF InFront, InSeq, Promise!Behind

LEMMA InFrontAtLeave ==
    ASSUME TypeOK, NEW m, InFront(m), queue # <<>>, entered' = entered, queue' = Tail(queue)
    PROVE  InFront(m)'
<1>1. ASSUME NEW j \in DOMAIN queue' \ {1}, queue'[j] = m
      PROVE  FALSE
  <2>1. j + 1 \in DOMAIN queue \ {1} /\ queue[j + 1] = m
    BY <1>1 DEF TypeOK
  <2>2. QED  BY <2>1 DEF InFront, Promise!Behind
<1>2. QED  BY <1>1 DEF InFront, InSeq, Promise!Behind

\* A replay that is given up is in front.
LEMMA GiveUpInFront ==
    ASSUME AllInFront, NEW C \in SUBSET Callers, GiveUp(C)
    PROVE  \A r \in late' : r.replay => InFront(r.item)
<1>1. PICK stray \in SUBSET {c \in C : Waits(c) /\ answer[c] = "open"} :
        late' = late \cup {[item |-> sending[c], replay |-> c \in Flushes] : c \in stray}
  BY DEF GiveUp
<1>2. ASSUME NEW r \in late', r.replay
      PROVE  InFront(r.item)
  <2>1. CASE r \in late
    BY <1>2, <2>1 DEF AllInFront, LateInFront
  <2>2. CASE \E c \in stray : r = [item |-> sending[c], replay |-> c \in Flushes]
    <3>1. PICK c \in stray : r = [item |-> sending[c], replay |-> c \in Flushes]
      BY <2>2
    <3>2. c \in Flushes /\ Waits(c) /\ r.item = sending[c]
      BY <1>2, <3>1
    <3>3. QED  BY <3>2 DEF AllInFront, AskedInFront
  <2>3. QED  BY <1>1, <1>2, <2>1, <2>2
<1>3. QED  BY <1>2

\* What the flushes ask for after a call of c for m.
LEMMA CallInFront ==
    ASSUME TypeOK, AllInFront, NEW c \in Callers, NEW m, Call(c, m),
           c \in Flushes /\ m # "none" => InFront(m)
    PROVE  \A f \in Flushes : Waits(f)' => InFront(sending'[f])
<1>1. ASSUME NEW f \in Flushes, Waits(f)'
      PROVE  InFront(sending'[f])
  <2>1. sending' = [sending EXCEPT ![c] = m] /\ f \in Callers
    BY DEF Call, Callers
  <2>2. CASE f = c
    BY <1>1, <2>1, <2>2 DEF TypeOK, Waits
  <2>3. CASE f # c
    BY <1>1, <2>1, <2>3 DEF TypeOK, Waits, AllInFront, AskedInFront
  <2>4. QED  BY <2>2, <2>3
<1>2. QED  BY <1>1

\* What the server does with a mutation is a step of the promise.
LEMMA ServerKeepsPromise ==
    ASSUME NEW m \in Mutations, NEW replay \in BOOLEAN, NEW outcome \in Outcomes,
           Process(m, replay, outcome), replay => InFront(m), UNCHANGED <<queue, entered>>
    PROVE  Promise!Next
<1>d. Disturbed' \in BOOLEAN
  BY Zenon DEF Disturbed
<1>1. CASE outcome = "broken"
  <2>1. Promise!Disturb
    BY <1>1 DEF Process, Promise!Disturb
  <2>2. QED  BY <1>d, <2>1 DEF Promise!Next, Disturbed
<1>2. CASE outcome # "broken" /\ replay
  <2>1. m \in {entered[i] : i \in DOMAIN entered}
    BY <1>2 DEF InFront, InSeq
  <2>2. Promise!Replay(m)
    BY <1>2, <2>1 DEF InFront, Process, Promise!Replay
  <2>3. QED  BY <1>d, <2>2 DEF Promise!Next, Disturbed
<1>3. CASE outcome # "broken" /\ ~replay
  <2>1. Promise!Settle(m)
    BY <1>3 DEF Process, Promise!Settle
  <2>2. QED  BY <1>d, <2>1 DEF Promise!Next, Disturbed
<1>4. QED  BY <1>1, <1>2, <1>3

LEMMA EnqueueKeepsPromise ==
    ASSUME Ordered, AllInFront, NEW m \in Mutations, WriteQueued(m)
    PROVE  AllInFront' /\ Promise!Next
<1>1. queue' = Append(queue, m) /\ entered' = Append(entered, m) /\ UNCHANGED <<settled, replayed>>
  BY DEF WriteQueued, serverVars
<1>2. ~InSeq(m, entered)
  BY DEF WriteQueued, NetworkProblem, Ordered, EnteredOnce, InSeq
<1>3. TypeOK /\ entered \in Seq(Mutations)
  BY DEF Ordered, Durable, TypeOK
<1>4. {entered'[i] : i \in DOMAIN entered'} = {entered[i] : i \in DOMAIN entered} \cup {m}
  BY <1>1, <1>3
<1>5. Promise!Enqueue(m)
  BY <1>1, <1>2, <1>4 DEF InSeq, Promise!Enqueue
<1>6. \A r \in late' : r.replay => InFront(r.item)
  BY GiveUpInFront DEF WriteQueued, NetworkProblem, Callers
<1>7. \A f \in Flushes : Waits(f)' => InFront(sending'[f])
  <2>1. Call(m, "none") /\ m \in Callers
    BY DEF WriteQueued, Hang, Callers
  <2>2. QED  BY <1>3, <2>1, CallInFront
<1>8. AllInFront'
  BY <1>1, <1>2, <1>3, <1>6, <1>7, InFrontAtAppend DEF AllInFront, AskedInFront, LateInFront
<1>9. Disturbed' \in BOOLEAN
  BY Zenon DEF Disturbed
<1>10. QED  BY <1>5, <1>8, <1>9 DEF Promise!Next, Disturbed

LEMMA AnswerKeepsPromise ==
    ASSUME Ordered, Ordered', AllInFront, NEW f \in Flushes, FlushAnswered(f)
    PROVE  AllInFront' /\ Promise!Next
<1>1. queue' = Rest(queue) /\ UNCHANGED <<entered, settled, replayed, late>> /\ TypeOK
  BY DEF FlushAnswered, serverVars, Ordered, Durable
<1>2. Disturbed' \in BOOLEAN
  BY Zenon DEF Disturbed
<1>3. ASSUME NEW m, InFront(m)
      PROVE  InFront(m)'
  BY <1>1, <1>3, InFrontStays, InFrontAtLeave DEF Rest
<1>4. AllInFront'
  <2>1. PICK m : Call(f, m) /\ (m # "none" => queue' # <<>> /\ m = Head(queue'))
    BY <1>1 DEF FlushAnswered, Hang
  <2>2. ASSUME NEW g \in Flushes, Waits(g)'
        PROVE  InFront(sending[g])'
    <3>1. sending' = [sending EXCEPT ![f] = m] /\ {f, g} \subseteq Callers
      BY <2>1 DEF Call, Callers
    <3>2. CASE g = f
      <4>1. queue' # <<>> /\ sending'[g] = Head(queue')
        BY <1>1, <2>1, <2>2, <3>1, <3>2 DEF Waits, TypeOK
      <4>2. InFront(Head(queue))'
        BY <4>1, HeadInFrontNext
      <4>3. QED  BY <4>1, <4>2
    <3>3. CASE g # f
      <4>1. sending'[g] = sending[g] /\ Waits(g)
        BY <1>1, <2>2, <3>1, <3>3 DEF Waits, TypeOK
      <4>2. QED  BY <1>3, <4>1 DEF AllInFront, AskedInFront
    <3>4. QED  BY <3>2, <3>3
  <2>3. LateInFront'
    BY <1>1, <1>3 DEF AllInFront, LateInFront
  <2>4. QED  BY <2>2, <2>3 DEF AllInFront, AskedInFront
<1>5. CASE queue = <<>>
  <2>1. Promise!Disturb
    BY <1>1, <1>5 DEF Rest, Promise!Disturb
  <2>2. QED  BY <1>2, <1>4, <2>1 DEF Promise!Next, Disturbed
<1>6. CASE queue # <<>>
  <2>1. Waits(f) /\ answer[f] \in AllOutcomes
    BY <1>1 DEF FlushAnswered, Answered, TypeOK, Callers
  <2>2. Head(queue) \in settled \/ Disturbed
    <3>1. CASE Disturbed
      BY <3>1
    <3>2. CASE ~Disturbed
      <4>1. ~crowded /\ answer[f] \in {"applied", "rejected"}
        BY <2>1, <3>2 DEF Disturbed, AllOutcomes
      <4>2. QED  BY <2>1, <4>1 DEF Ordered, Durable, AsksForHead
    <3>3. QED  BY <3>1, <3>2
  <2>3. Promise!Leave
    BY <1>1, <1>6, <2>2 DEF Rest, Promise!Leave, Disturbed
  <2>4. QED  BY <1>2, <1>4, <2>3 DEF Promise!Next, Disturbed
<1>7. QED  BY <1>5, <1>6

\* Every other step of the client and the network is no more than a disturbance.
LEMMA PromiseStep ==
    ASSUME Ordered, Ordered', AllInFront, [Next]_vars
    PROVE  AllInFront' /\ [Promise!Next]_(Promise!vars)
<1>t. TypeOK
  BY DEF Ordered, Durable
<1>1. ASSUME NEW c \in Callers, Serve(c)
      PROVE  AllInFront' /\ Promise!Next
  <2>1. PICK outcome \in Outcomes : Process(sending[c], c \in Flushes, outcome)
    BY <1>1 DEF Serve
  <2>2. UNCHANGED <<queue, entered, late, sending>>
    BY <1>1 DEF Serve
  <2>3. sending[c] \in Mutations /\ (c \in Flushes => InFront(sending[c]))
    BY <1>1, <1>t, NoneIsNoMutation DEF Serve, Waits, TypeOK, AllInFront, AskedInFront
  <2>4. (c \in Flushes) \in BOOLEAN
    OBVIOUS
  <2>5. Promise!Next
    BY <2>1, <2>2, <2>3, <2>4, ServerKeepsPromise
  <2>6. QED  BY <2>2, <2>5, InFrontStays DEF AllInFront, AskedInFront, LateInFront, Waits
<1>2. ASSUME ServeLate
      PROVE  AllInFront' /\ Promise!Next
  <2>1. PICK r \in late, outcome \in Outcomes :
          late' = late \ {r} /\ Process(r.item, r.replay, outcome) /\ UNCHANGED <<queue, entered, sending>>
    BY <1>2 DEF ServeLate, clientVars
  <2>2. r.item \in Mutations /\ r.replay \in BOOLEAN /\ (r.replay => InFront(r.item))
    BY <1>t DEF TypeOK, AllInFront, LateInFront
  <2>3. Promise!Next
    BY <2>1, <2>2, ServerKeepsPromise
  <2>4. QED  BY <2>1, <2>3, InFrontStays DEF AllInFront, AskedInFront, LateInFront, Waits
<1>3. ASSUME NEW m \in Mutations, WriteQueued(m)
      PROVE  AllInFront' /\ Promise!Next
  BY <1>3, EnqueueKeepsPromise
<1>4. ASSUME NEW f \in Flushes, FlushAnswered(f)
      PROVE  AllInFront' /\ Promise!Next
  BY <1>4, AnswerKeepsPromise
<1>5. ASSUME UNCHANGED <<queue, entered, settled, replayed>>,
             \A f \in Flushes : Waits(f)' => InFront(sending'[f]),
             \A r \in late' : r.replay => InFront(r.item)
      PROVE  AllInFront' /\ Promise!Next
  <2>1. AllInFront'
    BY <1>5, InFrontStays DEF AllInFront, AskedInFront, LateInFront
  <2>2. Disturbed' \in BOOLEAN
    BY Zenon DEF Disturbed
  <2>3. Promise!Disturb
    BY <1>5 DEF Promise!Disturb
  <2>4. QED  BY <2>1, <2>2, <2>3 DEF Promise!Next, Disturbed
<1>a. \A f \in Flushes : Waits(f) => InFront(sending[f])
  BY DEF AllInFront, AskedInFront
<1>l. \A r \in late : r.replay => InFront(r.item)
  BY DEF AllInFront, LateInFront
<1>6. ASSUME NEW m \in Mutations, Write(m) \/ WriteAnswered(m)
      PROVE  AllInFront' /\ Promise!Next
  <2>1. (\E n : Call(m, n)) /\ m \in Callers \ Flushes
    BY <1>6, CallersDiffer DEF Write, WriteAnswered, Hang, Callers
  <2>2. \A f \in Flushes : Waits(f)' => InFront(sending'[f])
    BY <1>t, <2>1, CallInFront
  <2>3. QED  BY <1>5, <1>6, <1>l, <2>2 DEF Write, WriteAnswered, serverVars
<1>7. ASSUME NEW f \in Flushes, FlushFails(f)
      PROVE  AllInFront' /\ Promise!Next
  <2>1. \A r \in late' : r.replay => InFront(r.item)
    BY <1>7, GiveUpInFront DEF FlushFails, NetworkProblem, Callers
  <2>2. \A g \in Flushes : Waits(g)' => InFront(sending'[g])
    BY <1>7, <1>t, CallInFront DEF FlushFails, Hang, Callers
  <2>3. QED  BY <1>5, <1>7, <2>1, <2>2 DEF FlushFails, serverVars
<1>8. ASSUME NEW f \in Flushes, StartFlush(f), UNCHANGED <<queue, entered, settled, replayed, late>>
      PROVE  AllInFront' /\ Promise!Next
  <2>1. Call(f, Head(queue)) /\ f \in Callers /\ InFront(Head(queue))
    BY <1>8, HeadInFront DEF StartFlush, Callers
  <2>2. \A g \in Flushes : Waits(g)' => InFront(sending'[g])
    BY <1>t, <2>1, CallInFront
  <2>3. QED  BY <1>5, <1>8, <1>l, <2>2
<1>9. CASE \E f \in Flushes : Connected(f)
  BY <1>8, <1>9 DEF Connected, serverVars
<1>10. CASE GoOffline
  BY <1>5, <1>10, <1>a, <1>l DEF GoOffline, clientVars, serverVars, Waits
<1>11. CASE GoOnline
  <2>1. CASE UNCHANGED <<sending, answer, crowded>>
    BY <1>5, <1>11, <1>a, <1>l, <2>1 DEF GoOnline, serverVars, Waits
  <2>2. CASE \E f \in Flushes : StartFlush(f)
    BY <1>8, <1>11, <2>2 DEF GoOnline, serverVars
  <2>3. QED  BY <1>11, <2>1, <2>2 DEF GoOnline
<1>12. CASE Relaunch
  <2>1. \A r \in late' : r.replay => InFront(r.item)
    BY <1>12, GiveUpInFront DEF Relaunch
  <2>2. \A f \in Flushes : Waits(f)' => queue # <<>> /\ sending'[f] = Head(queue)
    BY <1>12 DEF Relaunch, Waits, Callers
  <2>3. \A f \in Flushes : Waits(f)' => InFront(sending'[f])
    BY <2>2, HeadInFront
  <2>4. QED  BY <1>5, <1>12, <2>1, <2>3 DEF Relaunch, serverVars
<1>13. CASE UNCHANGED vars
  <2>1. AllInFront'
    BY <1>13, <1>a, <1>l, InFrontStays DEF vars, clientVars, AllInFront, AskedInFront, LateInFront, Waits
  <2>2. UNCHANGED Promise!vars
    BY <1>13 DEF vars, clientVars, serverVars, Promise!vars
  <2>3. QED  BY <2>1, <2>2
<1>14. QED
  BY <1>1, <1>2, <1>3, <1>4, <1>6, <1>7, <1>9, <1>10, <1>11, <1>12, <1>13 DEF Next, WriteStep, FlushStep

\* Every behaviour of the queue is one in which mutations leave the queue from its front,
\* settled unless the flush is disturbed, and no replay overtakes one that waits.
THEOREM QueueKeepsPromise == Spec => ImplementsReplayPromise
<1>1. Init => AllInFront /\ Promise!Init
  <2>1. Init => AllInFront
    BY DEF Init, AllInFront, AskedInFront, LateInFront, Waits, Callers
  <2>2. Init => ~Disturbed
    BY DEF Init, Disturbed, Callers
  <2>3. QED  BY <2>1, <2>2 DEF Init, Promise!Init, Disturbed
<1>2. Ordered /\ Ordered' /\ AllInFront /\ [Next]_vars => AllInFront' /\ [Promise!Next]_(Promise!vars)
  BY PromiseStep
<1>3. QED  BY <1>1, <1>2, OrderedAlways, PTL DEF Spec, ImplementsReplayPromise, Promise!Spec

-------------------------------------------------------------------------------
(* The session. *)

\* The process that has not hydrated has no state of its own.
Asleep ==
    ~hydrated =>
        /\ {access, mirror, signing, refreshing} \subseteq {Nobody}
        /\ writes = NoWrites
        /\ ~crossed

\* Unless it is torn, the Keychain of a process that starts can be placed.
Placeable == ~hydrated /\ ~torn => ~Misplaced

\* Every token in memory, and the refresh under way, belong to the profile.
WholeTokens ==
    ~crossed /\ ~torn => {access, mirror, refreshing} \subseteq {Nobody, profile}

SessionInv == SessionTypeOK /\ Asleep /\ Placeable /\ WholeTokens

\* Two more writes of a known holder keep the writes well typed.
LEMMA SetTokensTypeOK ==
    ASSUME SessionTypeOK, NEW holder \in Holders, SetTokens(holder)
    PROVE  mirror' \in Holders /\ writes' \in [KeychainWrites -> Nat]
  BY DEF SessionTypeOK, SetTokens

\* Every step keeps the type invariant.
LEMMA SessionTypeStep == SessionTypeOK /\ [SessionNext]_sessionVars => SessionTypeOK'
  <1> SUFFICES ASSUME SessionTypeOK, [SessionNext]_sessionVars PROVE SessionTypeOK'
    OBVIOUS
  <1> USE DEF SessionTypeOK, Holders, Keys
  <1>1. CASE Hydrate
    <2>1. CASE keychain["access"] # Nobody /\ profile = Nobody /\ SetTokens(Nobody) /\ UNCHANGED access
      BY <1>1, <2>1, SetTokensTypeOK DEF Hydrate, diskVars
    <2>2. CASE /\ UNCHANGED writes
               /\ \/ mirror' = keychain["refresh"] /\ access' = keychain["access"]
                  \/ UNCHANGED <<mirror, access>>
      BY <1>1, <2>2 DEF Hydrate, diskVars
    <2> QED BY <1>1, <2>1, <2>2 DEF Hydrate
  <1>2. CASE \E user \in Users : SignIn(user)
    BY <1>2 DEF SignIn, diskVars
  <1>3. CASE SignInFails
    BY <1>3 DEF SignInFails, diskVars
  <1>4. CASE SignInSucceeds
    BY <1>4, SetTokensTypeOK DEF SignInSucceeds, StartSession
  <1>5. CASE SignOut
    BY <1>5, SetTokensTypeOK DEF SignOut, ClearSession
  <1>6. CASE Unauthorized
    <2>1. CASE ClearSession /\ UNCHANGED refreshing
      BY <1>6, <2>1, SetTokensTypeOK DEF Unauthorized, ClearSession
    <2>2. CASE refreshing' = mirror /\ UNCHANGED <<profile, mirror, access, writes>>
      BY <1>6, <2>2 DEF Unauthorized
    <2> QED BY <1>6, <2>1, <2>2 DEF Unauthorized
  <1>7. CASE RefreshAnswered
    BY <1>7, SetTokensTypeOK DEF RefreshAnswered, diskVars
  <1>8. CASE RefreshFails
    BY <1>8, SetTokensTypeOK DEF RefreshFails, ClearSession
  <1>9. CASE KeychainWrite
    <2>1. PICK w \in KeychainWrites :
            /\ writes[w] > 0
            /\ writes' = [writes EXCEPT ![w] = @ - 1]
            /\ keychain' \in {keychain, [keychain EXCEPT ![w.key] = w.of]}
      BY <1>9 DEF KeychainWrite
    <2>2. w.key \in Keys /\ w.of \in Holders
      BY <2>1 DEF KeychainWrites
    <2>3. keychain' \in [Keys -> Holders]
      BY <2>1, <2>2
    <2>4. writes' \in [KeychainWrites -> Nat]
      BY <2>1
    <2> QED BY <1>9, <2>3, <2>4 DEF KeychainWrite
  <1>10. CASE Kill
    <2>1. writes' \in [KeychainWrites -> Nat]
      BY <1>10 DEF Kill, NoWrites
    <2>2. torn' \in BOOLEAN
      BY <1>10, Zenon DEF Kill
    <2> QED BY <1>10, <2>1, <2>2 DEF Kill
  <1>11. CASE UNCHANGED sessionVars
    BY <1>11 DEF sessionVars, diskVars, memoryVars
  <1> QED
    BY <1>1, <1>2, <1>3, <1>4, <1>5, <1>6, <1>7, <1>8, <1>9, <1>10, <1>11 DEF SessionNext

\* Every step keeps what it needs to know of a process that starts.
LEMMA SessionStep == SessionInv /\ [SessionNext]_sessionVars => (Asleep /\ Placeable /\ WholeTokens)'
  <1> SUFFICES ASSUME SessionInv, [SessionNext]_sessionVars
               PROVE  (Asleep /\ Placeable /\ WholeTokens)'
    OBVIOUS
  <1>0. SessionTypeOK /\ Asleep /\ Placeable /\ WholeTokens BY DEF SessionInv
  <1> USE <1>0 DEF Asleep, Placeable, WholeTokens, Misplaced, SetTokens
  <1>1. CASE Hydrate
    BY <1>1 DEF Hydrate, diskVars, Keys
  <1>2. CASE \E user \in Users : SignIn(user)
    BY <1>2 DEF SignIn, diskVars
  <1>3. CASE SignInFails
    BY <1>3 DEF SignInFails, diskVars
  <1>4. CASE SignInSucceeds
    BY <1>4 DEF SignInSucceeds, StartSession
  <1>5. CASE SignOut
    BY <1>5 DEF SignOut, ClearSession
  <1>6. CASE Unauthorized
    BY <1>6 DEF Unauthorized, ClearSession
  <1>7. CASE RefreshAnswered
    BY <1>7 DEF RefreshAnswered, diskVars
  <1>8. CASE RefreshFails
    BY <1>8 DEF RefreshFails, ClearSession
  <1>9. CASE KeychainWrite
    <2>1. hydrated
      BY <1>9 DEF KeychainWrite, NoWrites
    <2> QED BY <1>9, <2>1 DEF KeychainWrite
  <1>10. CASE Kill
    BY <1>10 DEF Kill
  <1>11. CASE UNCHANGED sessionVars
    BY <1>11 DEF sessionVars, diskVars, memoryVars
  <1> QED
    BY <1>1, <1>2, <1>3, <1>4, <1>5, <1>6, <1>7, <1>8, <1>9, <1>10, <1>11 DEF SessionNext

\* The invariant holds throughout every session.
LEMMA SessionInvariant == SessionSpec => []SessionInv
  <1>1. SessionInit => SessionInv
    <2>1. SessionInit => SessionTypeOK
      <3>1. NoWrites \in [KeychainWrites -> Nat]
        BY DEF NoWrites
      <3>2. SessionInit => {hydrated, crossed, torn} \subseteq BOOLEAN
        BY Zenon DEF SessionInit
      <3> QED BY <3>1, <3>2 DEF SessionInit, SessionTypeOK, Keys, Holders
    <2>2. SessionInit => Asleep /\ Placeable /\ WholeTokens
      BY DEF SessionInit, Asleep, Placeable, Misplaced, WholeTokens, Keys
    <2> QED BY <2>1, <2>2 DEF SessionInv
  <1>2. SessionInv /\ [SessionNext]_sessionVars => SessionInv'
    BY SessionTypeStep, SessionStep DEF SessionInv
  <1> QED BY <1>1, <1>2, PTL DEF SessionSpec

\* Every variable of the mobile session keeps its type.
THEOREM SessionTypes == SessionSpec => []SessionTypeOK
  <1>1. SessionInv => SessionTypeOK BY DEF SessionInv
  <1> QED BY <1>1, SessionInvariant, PTL

\* Who is signed in is who the profile says, over refreshes, sign-outs that the end
\* of the process cuts short, and Keychain writes that fail (AuthContext.tsx).
THEOREM SessionStaysWhole == SessionSpec => []SessionIsWhole
  <1>1. SessionInv => SessionIsWhole
    BY DEF SessionInv, WholeTokens, SessionIsWhole
  <1> QED BY <1>1, SessionInvariant, PTL

-------------------------------------------------------------------------------
\* The run walks through the queue and the session one after the other: each of its
\* behaviours is one of the queue and one of the session, so the theorems about
\* either hold of it.
THEOREM DeviceRunsBoth == DeviceSpec => Spec /\ SessionSpec
  <1>1. DeviceInit => Init /\ SessionInit
    BY DEF DeviceInit
  <1>2. [DeviceNext]_<<vars, sessionVars, part>> => [Next]_vars /\ [SessionNext]_sessionVars
    BY DEF DeviceNext
  <1> QED BY <1>1, <1>2, PTL DEF DeviceSpec, Spec, SessionSpec
===============================================================================
