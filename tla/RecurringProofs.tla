-------------------------- MODULE RecurringProofs --------------------------
(***************************************************************************)
(* Theorems about recurring work items, for any number of rules, projects, *)
(* jobs and run-now requests, with every failure of the module.            *)
(*                                                                         *)
(* A rule that only one run has in hand (Handed) is read with a date that  *)
(* lies after every date it has had a task for, those apart that an edit   *)
(* has set it back to (Ahead); the date it is left with does so too,       *)
(* because it lies after the moment of the run.                            *)
(***************************************************************************)
EXTENDS Recurring, TLAPS

\* The next date of the cadence lies after the moment of the run.
LEMMA AfterIsLater ==
    ASSUME NEW next \in Nat, NEW step \in Nat \ {0}, NEW moment \in Nat
    PROVE  After(next, step, moment) \in Nat /\ After(next, step, moment) > moment
<1>1. CASE next > moment
  BY <1>1 DEF After
<1>2. CASE ~(next > moment)
  <2> DEFINE late == moment - next
             q == late \div step
  <2>1. late \in Nat
    BY <1>2
  <2>2. q \in Nat /\ late < step * (q + 1)
    BY <2>1
  <2> HIDE DEF q
  <2>3. step * (q + 1) \in Nat
    BY <2>2
  <2>4. After(next, step, moment) = next + step * (q + 1)
    BY <1>2 DEF After, q
  <2>5. QED  BY <2>1, <2>2, <2>3, <2>4
<1>3. QED  BY <1>1, <1>2

(***************************************************************************)
(* The invariant.                                                          *)
(***************************************************************************)

\* A worker is at one rule, and a number that is about to be written counts from one.
Counted ==
    \A w \in Workers :
        /\ \A r, q \in cur[w] : r = q
        /\ pc[w] = "write" => \A r \in cur[w] : object[w][ProjectOf[r]] > 0
        /\ \A t \in made[w] : t.number > 0

Types == TypeOK /\ Counted

\* A worker makes one task of a rule, in the date it has read, and holds the rule.
Making(w) ==
    /\ pc[w] = "idle" => todo[w] = {} /\ cur[w] = {} /\ made[w] = {} /\ held[w] = {}
    /\ pc[w] = "next" => cur[w] = {}
    /\ at[w] <= now
    /\ todo[w] \cap cur[w] = {}
    /\ \A t \in made[w] :
        /\ t.rule \in held[w] /\ t.rule \notin todo[w] \cup cur[w]
        /\ t.due = seen[w][t.rule] /\ t.manual = (seen[w][t.rule] > at[w])
    /\ \A t, u \in made[w] : t.rule = u.rule => t = u

\* Whoever has a rule in hand has it alone, unless it is contested.
Handed ==
    \A v, w \in Workers : \A r \in InHand(v) \cap InHand(w) : r \notin contested => v = w

\* Nothing excuses a second task for the date of this one.
Single(t) == t.rule \notin contested /\ [rule |-> t.rule, due |-> t.due] \notin again

\* The dates of a rule move forward, unless an edit sets it back.
Ahead ==
    \A t \in tasks : ~t.manual =>
        /\ t.due <= now
        /\ Single(t) =>
            /\ t.due < rule[t.rule].next
            /\ \A w \in Workers : t.rule \in InHand(w) => t.due < seen[w][t.rule]

(***************************************************************************)
(* Types.                                                                  *)
(***************************************************************************)
workerVars == <<pc, at, seen, todo, cur, object, made>>

\* What a transaction has done is forgotten when it ends.
LEMMA ForgetTypes ==
    ASSUME TypeOK, NEW w \in Workers, Forget(w)
    PROVE  /\ pc' \in [Workers -> {"idle", "next", "number", "write"}]
           /\ at' \in [Workers -> Nat]
           /\ seen' \in [Workers -> [Rules -> Nat]]
           /\ todo' \in [Workers -> SUBSET Rules]
           /\ cur' \in [Workers -> SUBSET Rules]
           /\ object' \in [Workers -> [Projects -> Nat]]
           /\ made' \in [Workers -> SUBSET Made]
           /\ \A v \in Workers \ {w} : UNCHANGED <<pc[v], at[v], seen[v], todo[v], cur[v], object[v], made[v]>>
           /\ pc'[w] = "idle" /\ at'[w] = 0 /\ todo'[w] = {} /\ cur'[w] = {} /\ made'[w] = {}
<1> DEFINE never == [r \in Rules |-> 0]
           nothing == [p \in Projects |-> 0]
<1>1. never \in [Rules -> Nat] /\ nothing \in [Projects -> Nat]
  OBVIOUS
<1>2. seen' = [seen EXCEPT ![w] = never] /\ object' = [object EXCEPT ![w] = nothing]
  BY DEF Forget
<1> HIDE DEF never, nothing
<1>3. QED  BY <1>1, <1>2 DEF Forget, TypeOK

LEMMA ForgetCounts ==
    ASSUME Types, NEW w \in Workers, Forget(w)
    PROVE  Counted'
<1> SUFFICES ASSUME NEW v \in Workers
             PROVE  /\ \A r, q \in cur'[v] : r = q
                    /\ pc'[v] = "write" => \A r \in cur'[v] : object'[v][ProjectOf[r]] > 0
                    /\ \A t \in made'[v] : t.number > 0
  BY DEF Counted
<1>1. TypeOK /\ Counted
  BY DEF Types
<1>2. CASE v = w
  BY <1>1, <1>2, ForgetTypes
<1>3. CASE v # w
  <2>1. UNCHANGED <<pc[v], cur[v], object[v], made[v]>>
    BY <1>1, <1>3, ForgetTypes
  <2>2. QED  BY <1>1, <2>1 DEF Counted
<1>4. QED  BY <1>2, <1>3

LEMMA ForgetKeepsTypes ==
    ASSUME Types, NEW w \in Workers, Forget(w), UNCHANGED <<now, ruleVars, tableVars, contested>>,
           failures' \in Nat, held' \in [Workers -> SUBSET (Projects \cup Rules)]
    PROVE  Types'
<1>1. TypeOK'
  BY ForgetTypes DEF Types, TypeOK, ruleVars, tableVars
<1>2. Counted'
  BY ForgetCounts
<1>3. QED  BY <1>1, <1>2 DEF Types

LEMMA BeginTypes ==
    ASSUME Types, NEW w \in Workers, NEW rules \in SUBSET Rules, Begin(w, rules), others' \in Nat
    PROVE  Types'
<1> DEFINE dates == [r \in Rules |-> IF r \in rules THEN rule[r].next ELSE 0]
<1>1. dates \in [Rules -> Nat]
  BY DEF Types, TypeOK
<1>2. seen' = [seen EXCEPT ![w] = dates]
  BY DEF Begin
<1> HIDE DEF dates
<1>3. TypeOK'
  BY <1>1, <1>2 DEF Begin, ruleVars, Types, TypeOK
<1>4. Counted'
  BY DEF Begin, Types, TypeOK, Counted
<1>5. QED  BY <1>3, <1>4 DEF Types

LEMMA LoadTypes ==
    ASSUME Types, NEW w \in Workers, NEW r \in Rules, LoadProject(w, r)
    PROVE  Types'
<1>1. object' \in [Workers -> [Projects -> Nat]]
  BY RulesHaveProjects DEF LoadProject, Types, TypeOK
<1>2. TypeOK'
  BY <1>1 DEF LoadProject, ruleVars, tableVars, Types, TypeOK
<1>3. pc'[w] = "number" /\ \A v \in Workers \ {w} : pc'[v] = pc[v] /\ cur'[v] = cur[v] /\ object'[v] = object[v]
  BY DEF LoadProject, Types, TypeOK
<1>4. Counted'
  BY <1>3 DEF LoadProject, Types, Counted
<1>5. QED  BY <1>2, <1>4 DEF Types

LEMMA NumberTypes ==
    ASSUME Types, NEW w \in Workers, Number(w)
    PROVE  Types'
<1>1. PICK r \in cur[w] :
        /\ held' = [held EXCEPT ![w] = @ \cup {ProjectOf[r]}]
        /\ object' = [object EXCEPT ![w][ProjectOf[r]] = @ + 1]
  BY DEF Number
<1>2. ProjectOf[r] \in Projects
  BY RulesHaveProjects DEF Types, TypeOK
<1>3. TypeOK'
  <2>1. object' \in [Workers -> [Projects -> Nat]]
    BY <1>1, <1>2 DEF Types, TypeOK
  <2>2. held' \in [Workers -> SUBSET (Projects \cup Rules)]
    BY <1>1, <1>2 DEF Types, TypeOK
  <2>3. pc' \in [Workers -> {"idle", "next", "number", "write"}]
    BY DEF Number, Types, TypeOK
  <2>4. QED  BY <2>1, <2>2, <2>3 DEF Number, ruleVars, tableVars, Types, TypeOK
<1>4. object'[w][ProjectOf[r]] > 0 /\ \A v \in Workers \ {w} : pc'[v] = pc[v] /\ object'[v] = object[v]
  BY <1>1, <1>2 DEF Number, Types, TypeOK
<1>5. Counted'
  BY <1>1, <1>4 DEF Number, Types, Counted
<1>6. QED  BY <1>3, <1>5 DEF Types

LEMMA WriteTypes ==
    ASSUME Types, NEW w \in Workers, WriteTask(w)
    PROVE  Types'
<1>1. PICK r \in cur[w] :
        /\ held' = [held EXCEPT ![w] = @ \cup {r}]
        /\ made' = [made EXCEPT ![w] = @ \cup
            {[project |-> ProjectOf[r], number |-> object[w][ProjectOf[r]], rule |-> r, due |-> seen[w][r],
              manual |-> seen[w][r] > at[w]]}]
  BY DEF WriteTask
<1> DEFINE task == [project |-> ProjectOf[r], number |-> object[w][ProjectOf[r]], rule |-> r, due |-> seen[w][r],
                    manual |-> seen[w][r] > at[w]]
<1>2. r \in Rules /\ ProjectOf[r] \in Projects /\ object[w][ProjectOf[r]] > 0
  BY RulesHaveProjects DEF WriteTask, Types, TypeOK, Counted
<1>3. task \in Made /\ task.number > 0
  BY <1>2 DEF Types, TypeOK, Made
<1>4. made' = [made EXCEPT ![w] = @ \cup {task}]
  BY <1>1
<1> HIDE DEF task
<1>5. TypeOK'
  BY <1>1, <1>2, <1>3, <1>4 DEF WriteTask, ruleVars, tableVars, Types, TypeOK
<1>6. pc'[w] = "next" /\ \A v \in Workers \ {w} : pc'[v] = pc[v] /\ cur'[v] = cur[v] /\ made'[v] = made[v]
  BY <1>4 DEF WriteTask, Types, TypeOK
<1>7. Counted'
  BY <1>3, <1>4, <1>6 DEF WriteTask, Types, TypeOK, Counted
<1>8. QED  BY <1>5, <1>7 DEF Types

LEMMA CommitTypes ==
    ASSUME Types, NEW w \in Workers, Commit(w)
    PROVE  Types'
<1> DEFINE numbersOf(p) == {t.number : t \in {t \in made[w] : t.project = p}}
           written == [r \in Rules |-> IF r \in Written(w) THEN RuleAfterRun(w, r) ELSE rule[r]]
<1>1. Forget(w) /\ held' = [held EXCEPT ![w] = {}] /\ rule' = written
      /\ UNCHANGED <<now, edits, again, others, failures, contested>>
  BY DEF Commit, End
<1>2. counter' \in [Projects -> Nat]
  BY DEF Commit, Types, TypeOK
<1>3. numbers' \in [Projects -> SUBSET (Nat \ {0})]
  <2>1. \A p \in Projects : numbersOf(p) \subseteq Nat \ {0}
    BY DEF Types, TypeOK, Counted, Made
  <2>2. numbers' = [p \in Projects |-> numbers[p] \cup numbersOf(p)]
    BY DEF Commit
  <2> HIDE DEF numbersOf
  <2>3. QED  BY <2>1, <2>2 DEF Types, TypeOK
<1>4. tasks' \subseteq Made
  BY DEF Commit, Types, TypeOK
<1>5. rule' \in [Rules -> [next : Nat, active : BOOLEAN, alive : BOOLEAN]]
  <2>1. ASSUME NEW r \in Rules
        PROVE  RuleAfterRun(w, r) \in [next : Nat, active : BOOLEAN, alive : BOOLEAN]
    <3>1. seen[w][r] \in Nat /\ Interval[r] \in Nat \ {0} /\ at[w] \in Nat
      BY IntervalsArePositive DEF Types, TypeOK
    <3>2. After(seen[w][r], Interval[r], at[w]) \in Nat
      BY <3>1, AfterIsLater
    <3>3. rule[r] \in [next : Nat, active : BOOLEAN, alive : BOOLEAN]
      BY DEF Types, TypeOK
    <3>4. QED  BY <3>2, <3>3 DEF RuleAfterRun
  <2>2. \A r \in Rules : written[r] \in [next : Nat, active : BOOLEAN, alive : BOOLEAN]
    BY <2>1 DEF Types, TypeOK
  <2>3. written = [r \in Rules |-> written[r]]
    OBVIOUS
  <2> HIDE DEF written
  <2>4. QED  BY <1>1, <2>2, <2>3
<1>6. held' \in [Workers -> SUBSET (Projects \cup Rules)]
  BY <1>1 DEF Types, TypeOK
<1>7. TypeOK'
  BY <1>1, <1>2, <1>3, <1>4, <1>5, <1>6, ForgetTypes DEF Types, TypeOK
<1>8. Counted'
  BY <1>1, ForgetCounts
<1>9. QED  BY <1>7, <1>8 DEF Types

\* An edited or deleted rule is still one.
LEMMA EditTyped ==
    ASSUME rule \in [Rules -> [next : Nat, active : BOOLEAN, alive : BOOLEAN]], NEW r \in Rules,
           \/ \E next \in Nat, active \in BOOLEAN : rule' = [rule EXCEPT ![r].next = next, ![r].active = active]
           \/ rule' = [rule EXCEPT ![r].alive = FALSE]
    PROVE  rule' \in [Rules -> [next : Nat, active : BOOLEAN, alive : BOOLEAN]]
<1> DEFINE R == [next : Nat, active : BOOLEAN, alive : BOOLEAN]
<1>1. ASSUME NEW next \in Nat, NEW active \in BOOLEAN, rule' = [rule EXCEPT ![r].next = next, ![r].active = active]
      PROVE  rule' \in [Rules -> R]
  <2> DEFINE moved == [rule[r] EXCEPT !.next = next, !.active = active]
  <2>1. rule[r] \in R
    OBVIOUS
  <2>2. moved \in R
    BY <2>1
  <2>3. rule' = [rule EXCEPT ![r] = moved]
    BY <1>1
  <2> HIDE DEF moved, R
  <2>4. QED  BY <2>2, <2>3 DEF R
<1>2. ASSUME rule' = [rule EXCEPT ![r].alive = FALSE]
      PROVE  rule' \in [Rules -> R]
  <2> DEFINE dead == [rule[r] EXCEPT !.alive = FALSE]
  <2>1. rule[r] \in R
    OBVIOUS
  <2>2. dead \in R
    BY <2>1
  <2>3. rule' = [rule EXCEPT ![r] = dead]
    BY <1>2
  <2> HIDE DEF dead, R
  <2>4. QED  BY <2>2, <2>3 DEF R
<1>3. QED  BY <1>1, <1>2

\* Every step keeps the types of the variables.
LEMMA TypesStep == Types /\ [Next]_vars => Types'
<1> SUFFICES ASSUME Types, [Next]_vars
             PROVE  Types'
  OBVIOUS
<1> USE BoundsAreNumbers
<1>1. CASE Tick
  BY <1>1 DEF Tick, ruleVars, tableVars, Types, TypeOK, Counted
<1>2. ASSUME NEW p \in Projects, OtherTask(p)
      PROVE  Types'
  <2>1. counter' \in [Projects -> Nat] /\ others' \in Nat
    BY <1>2 DEF OtherTask, Types, TypeOK
  <2>2. numbers' \in [Projects -> SUBSET (Nat \ {0})]
    <3>1. counter[p] + 1 \in Nat \ {0}
      BY DEF Types, TypeOK
    <3>2. QED  BY <1>2, <3>1 DEF OtherTask, Types, TypeOK
  <2>3. QED  BY <1>2, <2>1, <2>2 DEF OtherTask, ruleVars, Types, TypeOK, Counted
<1>3. ASSUME NEW r \in Rules, NEW next \in (1 .. MaxClock) \cup {rule[r].next}, NEW active \in BOOLEAN, UpdateRule(r, next, active)
      PROVE  Types'
  <2>1. next \in Nat
    BY DEF Types, TypeOK
  <2>2. rule' \in [Rules -> [next : Nat, active : BOOLEAN, alive : BOOLEAN]] /\ edits' \in [Rules -> Nat]
    <3>1. rule' = [rule EXCEPT ![r].next = next, ![r].active = active] /\ edits' = [edits EXCEPT ![r] = @ + 1]
      BY <1>3 DEF UpdateRule
    <3>2. rule \in [Rules -> [next : Nat, active : BOOLEAN, alive : BOOLEAN]] /\ edits \in [Rules -> Nat]
      BY DEF Types, TypeOK
    <3>3. \E n \in Nat, a \in BOOLEAN : rule' = [rule EXCEPT ![r].next = n, ![r].active = a]
      BY <2>1, <3>1, Zenon
    <3>4. rule' \in [Rules -> [next : Nat, active : BOOLEAN, alive : BOOLEAN]]
      BY <3>2, <3>3, EditTyped, Zenon
    <3>5. QED  BY <3>1, <3>2, <3>4
  <2>3. again' \subseteq [rule : Rules, due : Nat]
    BY <1>3 DEF UpdateRule, Repeated, Types, TypeOK, Made
  <2>4. QED  BY <1>3, <2>2, <2>3 DEF UpdateRule, tableVars, Types, TypeOK, Counted
<1>4. ASSUME NEW r \in Rules, DeleteRule(r)
      PROVE  Types'
  <2>1. rule' \in [Rules -> [next : Nat, active : BOOLEAN, alive : BOOLEAN]] /\ edits' \in [Rules -> Nat]
    <3>1. rule' = [rule EXCEPT ![r].alive = FALSE] /\ edits' = [edits EXCEPT ![r] = @ + 1]
      BY <1>4 DEF DeleteRule
    <3>2. rule \in [Rules -> [next : Nat, active : BOOLEAN, alive : BOOLEAN]] /\ edits \in [Rules -> Nat]
      BY DEF Types, TypeOK
    <3>3. rule' \in [Rules -> [next : Nat, active : BOOLEAN, alive : BOOLEAN]]
      BY <3>1, <3>2, EditTyped, Zenon
    <3>4. QED  BY <3>1, <3>2, <3>3
  <2>2. QED  BY <1>4, <2>1 DEF DeleteRule, tableVars, Types, TypeOK, Counted
<1>5. ASSUME NEW w \in Jobs, SelectDue(w)
      PROVE  Types'
  <2>1. w \in Workers /\ others' \in Nat
    BY <1>5 DEF SelectDue, Workers, Types, TypeOK
  <2>2. PICK rules \in SUBSET Rules : Begin(w, rules)
    BY <1>5 DEF SelectDue
  <2>3. QED  BY <2>1, <2>2, BeginTypes
<1>6. ASSUME NEW w \in Runs, NEW r \in Rules, RunNow(w, r)
      PROVE  Types'
  <2>1. w \in Workers /\ others' \in Nat
    BY <1>6 DEF RunNow, Workers, Types, TypeOK
  <2>2. Begin(w, {r})
    BY <1>6 DEF RunNow
  <2>3. QED  BY <2>1, <2>2, BeginTypes
<1>7. ASSUME NEW w \in Workers, WriteFails(w) \/ Fail(w)
      PROVE  Types'
  <2>1. /\ Forget(w) /\ held' = [held EXCEPT ![w] = {}]
        /\ UNCHANGED <<now, ruleVars, tableVars, contested>>
        /\ failures' = failures \/ failures' = failures + 1
    BY <1>7 DEF WriteFails, Fail, End
  <2>2. held' \in [Workers -> SUBSET (Projects \cup Rules)] /\ failures' \in Nat
    BY <2>1 DEF Types, TypeOK
  <2>3. QED  BY <2>1, <2>2, ForgetKeepsTypes
<1>8. ASSUME NEW w \in Workers, DeadlockVictim(w)
      PROVE  Types'
  <2>1. PICK v \in Workers \ {w} : held' = [held EXCEPT ![w] = {}, ![v] = @ \cup Wanted(v)]
    BY <1>8 DEF DeadlockVictim
  <2>2. Wanted(v) \subseteq Projects \cup Rules
    BY RulesHaveProjects DEF Wanted, Types, TypeOK
  <2>3. held' \in [Workers -> SUBSET (Projects \cup Rules)]
    BY <2>1, <2>2 DEF Types, TypeOK
  <2>4. failures' \in Nat /\ Forget(w) /\ UNCHANGED <<now, ruleVars, tableVars, contested>>
    BY <1>8 DEF DeadlockVictim, Types, TypeOK
  <2>5. QED  BY <2>3, <2>4, ForgetKeepsTypes
<1>9. ASSUME NEW w \in Workers, Step(w)
      PROVE  Types'
  BY <1>7, <1>8, <1>9, LoadTypes, NumberTypes, WriteTypes, CommitTypes DEF Step
<1>10. CASE UNCHANGED vars
  BY <1>10 DEF vars, ruleVars, tableVars, Types, TypeOK, Counted
<1>11. QED
  BY <1>1, <1>2, <1>3, <1>4, <1>5, <1>6, <1>7, <1>9, <1>10 DEF Next

LEMMA TypesInit == Init => Types
  BY DEF Init, Types, TypeOK, Counted

\* Every variable keeps its type.
THEOREM RecurringTypeOK == Spec => []TypeOK
<1>1. Types => TypeOK
  BY DEF Types
<1>2. QED  BY <1>1, TypesInit, TypesStep, PTL DEF Spec

(***************************************************************************)
(* What a worker does on its own.                                          *)
(***************************************************************************)
LEMMA ForgetMaking ==
    ASSUME TypeOK, \A v \in Workers : Making(v), NEW w \in Workers, Forget(w), now' = now,
           held'[w] = {}, \A v \in Workers \ {w} : held[v] \subseteq held'[v] /\ (pc[v] = "idle" => held'[v] = {})
    PROVE  \A v \in Workers : Making(v)'
<1> SUFFICES ASSUME NEW v \in Workers
             PROVE  Making(v)'
  OBVIOUS
<1>1. CASE v = w
  <2>1. pc'[w] = "idle" /\ at'[w] = 0 /\ todo'[w] = {} /\ cur'[w] = {} /\ made'[w] = {} /\ held'[w] = {}
    BY ForgetTypes
  <2>2. now \in Nat
    BY DEF TypeOK
  <2>3. QED  BY <1>1, <2>1, <2>2 DEF Making
<1>2. CASE v # w
  <2>1. UNCHANGED <<pc[v], at[v], seen[v], todo[v], cur[v], made[v]>>
    BY <1>2, ForgetTypes
  <2>2. QED  BY <1>2, <2>1 DEF Making
<1>3. QED  BY <1>1, <1>2

LEMMA MakingStep ==
    ASSUME Types, \A v \in Workers : Making(v), [Next]_vars
    PROVE  \A v \in Workers : Making(v)'
<1> USE BoundsAreNumbers
<1>t. TypeOK /\ Counted
  BY DEF Types
<1>1. CASE now' \in Nat /\ now <= now' /\ UNCHANGED <<workerVars, held>>
  <2>1. \A v \in Workers : at[v] \in Nat /\ now \in Nat
    BY <1>t DEF TypeOK
  <2>2. QED  BY <1>1, <2>1 DEF workerVars, Making
<1>2. CASE Tick \/ (\E p \in Projects : OtherTask(p))
  BY <1>1, <1>2, <1>t DEF Tick, OtherTask, workerVars, TypeOK
<1>3. CASE \E r \in Rules :
             \/ DeleteRule(r)
             \/ \E next \in (1 .. MaxClock) \cup {rule[r].next}, active \in BOOLEAN : UpdateRule(r, next, active)
  <2>1. UNCHANGED <<now, workerVars, held>>
    BY <1>3 DEF DeleteRule, UpdateRule, workerVars
  <2>2. now \in Nat
    BY <1>t DEF TypeOK
  <2>3. QED  BY <1>1, <2>1, <2>2
<1>4. ASSUME NEW w \in Workers, NEW rules \in SUBSET Rules, Begin(w, rules)
      PROVE  \A v \in Workers : Making(v)'
  <2>1. /\ pc[w] = "idle" /\ pc'[w] = "next" /\ at'[w] = now /\ todo'[w] = rules
        /\ UNCHANGED <<now, cur, made, held>>
        /\ \A v \in Workers \ {w} : UNCHANGED <<pc[v], at[v], seen[v], todo[v]>>
    BY <1>4, <1>t DEF Begin, TypeOK
  <2>2. cur[w] = {} /\ made[w] = {} /\ now \in Nat
    BY <1>t, <2>1 DEF Making, TypeOK
  <2>3. QED  BY <2>1, <2>2 DEF Making
<1>5. ASSUME NEW w \in Workers, NEW r \in Rules, LoadProject(w, r)
      PROVE  \A v \in Workers : Making(v)'
  <2>1. /\ pc[w] = "next" /\ r \in todo[w] /\ pc'[w] = "number" /\ todo'[w] = todo[w] \ {r} /\ cur'[w] = {r}
        /\ UNCHANGED <<now, at, seen, made, held>>
        /\ \A v \in Workers \ {w} : UNCHANGED <<pc[v], todo[v], cur[v]>>
    BY <1>5, <1>t DEF LoadProject, TypeOK
  <2>2. QED  BY <2>1 DEF Making
<1>6. ASSUME NEW w \in Workers, Number(w)
      PROVE  \A v \in Workers : Making(v)'
  <2>1. /\ pc[w] = "number" /\ pc'[w] = "write" /\ held[w] \subseteq held'[w]
        /\ UNCHANGED <<now, at, seen, todo, cur, made>>
        /\ \A v \in Workers \ {w} : UNCHANGED <<pc[v], held[v]>>
    BY <1>6, <1>t DEF Number, TypeOK
  <2>2. QED  BY <2>1 DEF Making
<1>7. ASSUME NEW w \in Workers, WriteTask(w)
      PROVE  \A v \in Workers : Making(v)'
  <2>1. PICK r \in cur[w] :
          /\ held' = [held EXCEPT ![w] = @ \cup {r}]
          /\ made' = [made EXCEPT ![w] = @ \cup
              {[project |-> ProjectOf[r], number |-> object[w][ProjectOf[r]], rule |-> r, due |-> seen[w][r],
                manual |-> seen[w][r] > at[w]]}]
    BY <1>7 DEF WriteTask
  <2> DEFINE task == [project |-> ProjectOf[r], number |-> object[w][ProjectOf[r]], rule |-> r, due |-> seen[w][r],
                      manual |-> seen[w][r] > at[w]]
  <2>2. task.rule = r /\ task.due = seen[w][r] /\ task.manual = (seen[w][r] > at[w])
    OBVIOUS
  <2>3. made'[w] = made[w] \cup {task} /\ held'[w] = held[w] \cup {r}
    BY <1>t, <2>1 DEF TypeOK
  <2>4. /\ pc[w] = "write" /\ pc'[w] = "next" /\ cur'[w] = {} /\ UNCHANGED <<now, at, seen, todo>>
        /\ \A v \in Workers \ {w} : UNCHANGED <<pc[v], cur[v], made[v], held[v]>>
    BY <1>7, <1>t, <2>1 DEF WriteTask, TypeOK
  <2> HIDE DEF task
  <2>5. \A t \in made[w] : t.rule # r
    BY DEF Making
  <2>6. Making(w)'
    BY <2>2, <2>3, <2>4, <2>5 DEF Making
  <2>7. \A v \in Workers \ {w} : Making(v)'
    BY <2>4 DEF Making
  <2>8. QED  BY <2>6, <2>7
<1>8. ASSUME NEW w \in Workers, WriteFails(w) \/ Fail(w) \/ Commit(w)
      PROVE  \A v \in Workers : Making(v)'
  <2>1. Forget(w) /\ held' = [held EXCEPT ![w] = {}] /\ now' = now
    BY <1>8 DEF WriteFails, Fail, Commit, End
  <2>2. held'[w] = {} /\ \A v \in Workers \ {w} : held'[v] = held[v]
    BY <1>t, <2>1 DEF TypeOK
  <2>3. QED  BY <1>t, <2>1, <2>2, ForgetMaking DEF Making
<1>9. ASSUME NEW w \in Workers, DeadlockVictim(w)
      PROVE  \A v \in Workers : Making(v)'
  <2>1. PICK v \in Workers \ {w} : held' = [held EXCEPT ![w] = {}, ![v] = @ \cup Wanted(v)]
    BY <1>9 DEF DeadlockVictim
  <2>2. /\ held'[w] = {} /\ held'[v] = held[v] \cup Wanted(v)
        /\ \A u \in Workers \ {w, v} : held'[u] = held[u]
    BY <1>t, <2>1 DEF TypeOK
  <2>3. pc[v] = "idle" => Wanted(v) = {}
    BY DEF Wanted
  <2>4. \A u \in Workers \ {w} : held[u] \subseteq held'[u] /\ (pc[u] = "idle" => held'[u] = {})
    BY <2>2, <2>3 DEF Making
  <2>5. Forget(w) /\ now' = now
    BY <1>9 DEF DeadlockVictim
  <2>6. QED  BY <1>t, <2>2, <2>4, <2>5, ForgetMaking
<1>10. ASSUME NEW w \in Jobs, SelectDue(w)
       PROVE  \A v \in Workers : Making(v)'
  BY <1>4, <1>10 DEF SelectDue, Workers
<1>11. ASSUME NEW w \in Runs, NEW r \in Rules, RunNow(w, r)
       PROVE  \A v \in Workers : Making(v)'
  BY <1>4, <1>11 DEF RunNow, Workers
<1>12. CASE UNCHANGED vars
  BY <1>12, <1>1, <1>t DEF vars, workerVars, TypeOK
<1>13. QED
  BY <1>2, <1>3, <1>5, <1>6, <1>7, <1>8, <1>9, <1>10, <1>11, <1>12 DEF Next, Step

(***************************************************************************)
(* What the workers do to each other.                                      *)
(***************************************************************************)
Working == Types /\ \A w \in Workers : Making(w)
Kept(v) == InHand(v)' \subseteq InHand(v) /\ \A r \in InHand(v)' : seen'[v][r] = seen[v][r]

\* A run only ever lets go of rules once it has begun; ending, it lets go of all.
LEMMA HandsShrink ==
    ASSUME Working, NEW w \in Workers, Step(w) \/ Fail(w)
    PROVE  contested' = contested /\ \A v \in Workers : Kept(v)
<1> USE RulesAreNotProjects, RulesHaveProjects
<1>t. TypeOK /\ \A v \in Workers : Making(v)
  BY DEF Working, Types
<1>1. ASSUME NEW r \in Rules, LoadProject(w, r)
      PROVE  contested' = contested /\ \A v \in Workers : Kept(v)
  <2>1. /\ r \in todo[w] /\ todo'[w] = todo[w] \ {r} /\ cur'[w] = {r}
        /\ UNCHANGED <<seen, held, contested>>
        /\ \A v \in Workers \ {w} : UNCHANGED <<todo[v], cur[v]>>
    BY <1>1, <1>t DEF LoadProject, TypeOK
  <2>2. QED  BY <2>1 DEF Kept, InHand
<1>2. CASE Number(w)
  <2>1. PICK r \in cur[w] : held' = [held EXCEPT ![w] = @ \cup {ProjectOf[r]}]
    BY <1>2 DEF Number
  <2>2. ProjectOf[r] \notin Rules
    BY <1>t DEF TypeOK
  <2>3. held'[w] \cap Rules = held[w] \cap Rules /\ \A v \in Workers \ {w} : held'[v] = held[v]
    BY <1>t, <2>1, <2>2 DEF TypeOK
  <2>4. UNCHANGED <<seen, todo, cur, contested>>
    BY <1>2 DEF Number
  <2>5. QED  BY <2>3, <2>4 DEF Kept, InHand
<1>3. CASE WriteTask(w)
  <2>1. PICK r \in cur[w] : held' = [held EXCEPT ![w] = @ \cup {r}]
    BY <1>3 DEF WriteTask
  <2>2. /\ held'[w] = held[w] \cup {r} /\ cur'[w] = {} /\ UNCHANGED <<seen, todo, contested>>
        /\ \A v \in Workers \ {w} : UNCHANGED <<held[v], cur[v]>>
    BY <1>3, <1>t, <2>1 DEF WriteTask, TypeOK
  <2>3. QED  BY <2>1, <2>2 DEF Kept, InHand
<1>4. CASE WriteFails(w) \/ Fail(w) \/ Commit(w)
  <2>1. Forget(w) /\ held' = [held EXCEPT ![w] = {}] /\ contested' = contested
    BY <1>4 DEF WriteFails, Fail, Commit, End
  <2>2. held'[w] = {} /\ \A v \in Workers \ {w} : held'[v] = held[v]
    BY <1>t, <2>1 DEF TypeOK
  <2>3. /\ todo'[w] = {} /\ cur'[w] = {}
        /\ \A v \in Workers \ {w} : UNCHANGED <<todo[v], cur[v], seen[v]>>
    BY <1>t, <2>1, ForgetTypes
  <2>4. InHand(w)' = {}
    BY <2>2, <2>3 DEF InHand
  <2>5. QED  BY <2>1, <2>2, <2>3, <2>4 DEF Kept, InHand
<1>5. CASE DeadlockVictim(w)
  <2>1. PICK v \in Workers \ {w} : held' = [held EXCEPT ![w] = {}, ![v] = @ \cup Wanted(v)]
    BY <1>5 DEF DeadlockVictim
  <2>2. Wanted(v) \cap Rules \subseteq cur[v]
    BY <1>t DEF Wanted, TypeOK
  <2>3. /\ held'[w] = {} /\ held'[v] = held[v] \cup Wanted(v)
        /\ \A u \in Workers \ {w, v} : held'[u] = held[u]
    BY <1>t, <2>1 DEF TypeOK
  <2>4. Forget(w) /\ contested' = contested
    BY <1>5 DEF DeadlockVictim
  <2>5. /\ todo'[w] = {} /\ cur'[w] = {}
        /\ \A u \in Workers \ {w} : UNCHANGED <<todo[u], cur[u], seen[u]>>
    BY <1>t, <2>4, ForgetTypes
  <2>6. InHand(w)' = {}
    BY <2>3, <2>5 DEF InHand
  <2>7. \A u \in Workers \ {w} : Kept(u)
    BY <2>2, <2>3, <2>5 DEF Kept, InHand
  <2>8. QED  BY <2>4, <2>6, <2>7 DEF Kept
<1>6. QED  BY <1>1, <1>2, <1>3, <1>4, <1>5 DEF Step

\* A run that begins has in hand what it selected, read as it is now.
LEMMA BeginHands ==
    ASSUME Working, NEW w \in Workers, NEW rules \in SUBSET Rules, Begin(w, rules)
    PROVE  /\ InHand(w)' = rules /\ \A r \in rules : seen'[w][r] = rule[r].next
           /\ \A v \in Workers \ {w} : Kept(v)
           /\ contested' = contested \cup (rules \cap UNION {InHand(v) : v \in Workers})
<1> DEFINE dates == [r \in Rules |-> IF r \in rules THEN rule[r].next ELSE 0]
<1>t. TypeOK /\ \A v \in Workers : Making(v)
  BY DEF Working, Types
<1>1. /\ pc[w] = "idle" /\ todo'[w] = rules /\ UNCHANGED <<cur, held>>
      /\ \A v \in Workers \ {w} : todo'[v] = todo[v] /\ seen'[v] = seen[v]
  BY <1>t DEF Begin, TypeOK
<1>2. cur[w] = {} /\ held[w] = {}
  BY <1>t, <1>1 DEF Making
<1>3. \A r \in rules : dates[r] = rule[r].next
  OBVIOUS
<1>4. seen' = [seen EXCEPT ![w] = dates]
  BY DEF Begin
<1> HIDE DEF dates
<1>5. seen'[w] = dates
  BY <1>t, <1>4 DEF TypeOK
<1>6. InHand(w)' = rules
  BY <1>1, <1>2 DEF InHand
<1>7. \A v \in Workers \ {w} : Kept(v)
  BY <1>1 DEF Kept, InHand
<1>8. contested' = contested \cup (rules \cap UNION {InHand(v) : v \in Workers})
  BY DEF Begin
<1>9. QED  BY <1>3, <1>5, <1>6, <1>7, <1>8

(***************************************************************************)
(* The dates of a rule.                                                    *)
(***************************************************************************)
Dated == Working /\ Handed /\ Ahead /\ OncePerOccurrence

\* A step that makes no task, moves no date back and takes no rule in hand.
LEMMA QuietStep ==
    ASSUME Dated, tasks' = tasks, now' \in Nat, now <= now',
           contested \subseteq contested', again \subseteq again',
           \A v \in Workers : Kept(v),
           \A r \in Rules : rule[r].next <= rule'[r].next \/ Repeated(r, rule'[r].next) \subseteq again',
           \A r \in Rules : rule'[r].next \in Nat
    PROVE  Handed' /\ Ahead' /\ OncePerOccurrence'
<1>1. Handed'
  BY DEF Dated, Handed, Kept
<1>2. Ahead'
  <2>1. SUFFICES ASSUME NEW t \in tasks, ~t.manual
                 PROVE  /\ t.due <= now'
                        /\ Single(t)' =>
                            /\ t.due < rule'[t.rule].next
                            /\ \A v \in Workers : t.rule \in InHand(v)' => t.due < seen'[v][t.rule]
    BY DEF Ahead
  <2>2. /\ t.due <= now
        /\ Single(t) =>
            /\ t.due < rule[t.rule].next
            /\ \A v \in Workers : t.rule \in InHand(v) => t.due < seen[v][t.rule]
    BY <2>1 DEF Dated, Ahead
  <2>3. t.rule \in Rules /\ t.due \in Nat /\ now \in Nat /\ rule[t.rule].next \in Nat
    BY DEF Dated, Working, Types, TypeOK, Made
  <2>4. t.due <= now'
    BY <2>2, <2>3
  <2>s. Single(t)' => Single(t)
    BY DEF Single
  <2>5. Single(t)' => t.due < rule'[t.rule].next
    <3>1. CASE rule[t.rule].next <= rule'[t.rule].next
      BY <2>2, <2>3, <2>s, <3>1
    <3>2. CASE ~(rule'[t.rule].next <= t.due)
      BY <2>3, <3>2
    <3>3. CASE Repeated(t.rule, rule'[t.rule].next) \subseteq again' /\ rule'[t.rule].next <= t.due
      BY <2>1, <3>3 DEF Repeated, Single
    <3>4. QED  BY <2>3, <3>1, <3>2, <3>3
  <2>6. Single(t)' => \A v \in Workers : t.rule \in InHand(v)' => t.due < seen'[v][t.rule]
    BY <2>2, <2>s DEF Kept
  <2>7. QED  BY <2>4, <2>5, <2>6
<1>3. OncePerOccurrence'
  BY DEF Dated, OncePerOccurrence, Single
<1>4. QED  BY <1>1, <1>2, <1>3

LEMMA BeginDated ==
    ASSUME Dated, NEW w \in Workers, NEW rules \in SUBSET Rules, Begin(w, rules)
    PROVE  Handed' /\ Ahead' /\ OncePerOccurrence'
<1>1. UNCHANGED <<now, tasks, rule, again>>
  BY DEF Begin, ruleVars
<1>2. /\ InHand(w)' = rules /\ \A r \in rules : seen'[w][r] = rule[r].next
      /\ \A v \in Workers \ {w} : Kept(v)
      /\ contested' = contested \cup (rules \cap UNION {InHand(v) : v \in Workers})
  BY BeginHands DEF Dated
<1>3. \A r \in rules : r \notin contested' => \A v \in Workers : r \notin InHand(v)
  BY <1>2
<1>4. Handed'
  BY <1>2, <1>3 DEF Dated, Handed, Kept
<1>5. Ahead'
  <2>1. \A t \in tasks : Single(t)' => Single(t)
    BY <1>1, <1>2 DEF Single
  <2>2. ASSUME NEW t \in tasks, ~t.manual
        PROVE  /\ t.due <= now
               /\ Single(t)' =>
                   /\ t.due < rule[t.rule].next
                   /\ \A v \in Workers : t.rule \in InHand(v)' => t.due < seen'[v][t.rule]
    BY <1>2, <2>1, <2>2 DEF Dated, Ahead, Kept
  <2>3. QED  BY <1>1, <2>2 DEF Ahead
<1>6. OncePerOccurrence'
  BY <1>1, <1>2 DEF Dated, OncePerOccurrence, Single
<1>7. QED  BY <1>4, <1>5, <1>6

\* A commit adds the tasks of the dates it has read, and moves those dates past now.
LEMMA CommitDated ==
    ASSUME Dated, NEW w \in Workers, Commit(w)
    PROVE  Handed' /\ Ahead' /\ OncePerOccurrence'
<1>t. TypeOK /\ \A v \in Workers : Making(v)
  BY DEF Dated, Working, Types
<1>1. /\ tasks' = tasks \cup made[w] /\ now' = now /\ contested' = contested /\ again' = again
      /\ rule' = [r \in Rules |-> IF r \in Written(w) THEN RuleAfterRun(w, r) ELSE rule[r]]
  BY DEF Commit, End
<1>2. \A v \in Workers : Kept(v)
  BY HandsShrink DEF Dated, Working, Step
<1>3. InHand(w)' = {}
  <2>1. Forget(w) /\ held' = [held EXCEPT ![w] = {}]
    BY DEF Commit, End
  <2>2. todo'[w] = {} /\ cur'[w] = {} /\ held'[w] = {}
    BY <1>t, <2>1, ForgetTypes DEF TypeOK
  <2>3. QED  BY <2>2 DEF InHand
<1>4. at[w] \in Nat /\ at[w] <= now /\ now \in Nat
  BY <1>t DEF TypeOK, Making
<1>5. ASSUME NEW r \in Written(w)
      PROVE  r \in Rules /\ r \in InHand(w) /\ seen[w][r] \in Nat /\ seen[w][r] <= at[w] /\ rule'[r].next > at[w] /\ rule'[r].next \in Nat
  <2>1. r \in Rules /\ r \in held[w] /\ seen[w][r] <= at[w]
    BY DEF Written
  <2>2. seen[w][r] \in Nat /\ Interval[r] \in Nat \ {0}
    BY <1>t, <2>1, IntervalsArePositive DEF TypeOK
  <2>3. After(seen[w][r], Interval[r], at[w]) \in Nat /\ After(seen[w][r], Interval[r], at[w]) > at[w]
    BY <1>4, <2>2, AfterIsLater
  <2>4. rule[r] \in [next : Nat, active : BOOLEAN, alive : BOOLEAN]
    BY <1>t, <2>1 DEF TypeOK
  <2>5. rule'[r].next = After(seen[w][r], Interval[r], at[w])
    BY <1>1, <2>1, <2>4 DEF RuleAfterRun
  <2>6. QED  BY <2>1, <2>2, <2>3, <2>5 DEF InHand
<1>6. \A r \in Rules \ Written(w) : rule'[r] = rule[r]
  BY <1>1
<1>7. ASSUME NEW t \in made[w]
      PROVE  /\ t.rule \in Rules /\ t.due \in Nat /\ t.rule \in InHand(w) /\ t.due = seen[w][t.rule]
             /\ ~t.manual => t.rule \in Written(w) /\ t.due <= at[w]
  <2>1. t.rule \in held[w] /\ t.due = seen[w][t.rule] /\ t.manual = (seen[w][t.rule] > at[w])
    BY <1>t DEF Making
  <2>2. t.rule \in Rules /\ t.due \in Nat
    BY <1>t DEF TypeOK, Made
  <2>3. ~t.manual => seen[w][t.rule] <= at[w]
    <3>1. ~t.manual => ~(seen[w][t.rule] > at[w])
      BY <2>1, Zenon
    <3>2. QED  BY <1>4, <2>1, <2>2, <3>1
  <2>4. QED  BY <2>1, <2>2, <2>3 DEF InHand, Written
<1>8. ASSUME NEW t \in tasks
      PROVE  t.rule \in Rules /\ t.due \in Nat
  BY <1>t DEF TypeOK, Made
<1>9. Handed'
  BY <1>1, <1>2 DEF Dated, Handed, Kept
<1>10. Ahead'
  <2>1. ASSUME NEW t \in tasks, ~t.manual
        PROVE  /\ t.due <= now
               /\ Single(t) =>
                   /\ t.due < rule'[t.rule].next
                   /\ \A v \in Workers : t.rule \in InHand(v)' => t.due < seen'[v][t.rule]
    <3>1. /\ t.due <= now
          /\ Single(t) =>
              /\ t.due < rule[t.rule].next
              /\ \A v \in Workers : t.rule \in InHand(v) => t.due < seen[v][t.rule]
      BY <2>1 DEF Dated, Ahead
    <3>2. Single(t) => t.due < rule'[t.rule].next
      <4>1. CASE t.rule \in Written(w)
        <5>1. Single(t) => t.due < seen[w][t.rule]
          BY <1>5, <3>1, <4>1
        <5>2. QED  BY <1>4, <1>5, <1>8, <4>1, <5>1
      <4>2. CASE t.rule \notin Written(w)
        BY <1>6, <1>8, <3>1, <4>2
      <4>3. QED  BY <4>1, <4>2
    <3>3. QED  BY <1>2, <3>1, <3>2 DEF Kept
  <2>2. ASSUME NEW t \in made[w], ~t.manual
        PROVE  /\ t.due <= now
               /\ Single(t) =>
                   /\ t.due < rule'[t.rule].next
                   /\ \A v \in Workers : t.rule \notin InHand(v)'
    <3>1. t.rule \in Written(w) /\ t.due <= at[w] /\ t.due \in Nat /\ t.rule \in InHand(w)
      BY <1>7, <2>2
    <3>2. t.due <= now /\ t.due < rule'[t.rule].next
      BY <1>4, <1>5, <3>1
    <3>3. ASSUME Single(t), NEW v \in Workers
          PROVE  t.rule \notin InHand(v)'
      <4>1. v # w => t.rule \notin InHand(v)
        BY <3>1, <3>3 DEF Dated, Handed, Single
      <4>2. QED  BY <1>2, <1>3, <4>1 DEF Kept
    <3>4. QED  BY <3>2, <3>3
  <2>3. \A t \in tasks' : Single(t)' => Single(t)
    BY <1>1 DEF Single
  <2>4. QED  BY <1>1, <2>1, <2>2, <2>3 DEF Ahead
<1>11. OncePerOccurrence'
  <2>1. ASSUME NEW t \in tasks, NEW u \in made[w], t.rule = u.rule, t.due = u.due, ~t.manual, Single(t)
        PROVE  FALSE
    <3>1. t.due < seen[w][t.rule]
      BY <1>7, <2>1 DEF Dated, Ahead
    <3>2. QED  BY <1>7, <1>8, <2>1, <3>1
  <2>2. \A t, u \in made[w] : t.rule = u.rule => t = u
    BY <1>t DEF Making
  <2>3. QED  BY <1>1, <2>1, <2>2 DEF Dated, OncePerOccurrence, Single
<1>12. QED  BY <1>9, <1>10, <1>11

LEMMA DatedStep == Dated /\ [Next]_vars => Dated'
<1> SUFFICES ASSUME Dated, [Next]_vars
             PROVE  Dated'
  OBVIOUS
<1> USE BoundsAreNumbers
<1>t. TypeOK /\ TypeOK' /\ Types' /\ \A v \in Workers : Making(v)'
  BY TypesStep, MakingStep DEF Dated, Working, Types
<1>w. Working'
  BY <1>t DEF Working
<1>n. /\ now \in Nat /\ now' \in Nat /\ now <= now
      /\ \A r \in Rules : rule[r].next \in Nat /\ rule'[r].next \in Nat /\ rule[r].next <= rule[r].next
  BY <1>t DEF TypeOK
<1> SUFFICES Handed' /\ Ahead' /\ OncePerOccurrence'
  BY <1>w DEF Dated
<1>k. ASSUME UNCHANGED <<seen, todo, cur, held>>
      PROVE  \A v \in Workers : Kept(v)
  BY <1>k DEF Kept, InHand
<1>1. CASE Tick
  <2>1. now <= now' /\ UNCHANGED <<rule, tasks, seen, todo, cur, held, contested, again>>
    BY <1>1, <1>n DEF Tick, ruleVars, tableVars
  <2>2. QED  BY <1>k, <1>n, <2>1, QuietStep
<1>2. ASSUME NEW p \in Projects, OtherTask(p)
      PROVE  Handed' /\ Ahead' /\ OncePerOccurrence'
  <2>1. UNCHANGED <<now, rule, tasks, seen, todo, cur, held, contested, again>>
    BY <1>2 DEF OtherTask, ruleVars
  <2>2. QED  BY <1>k, <1>n, <2>1, QuietStep
<1>3. ASSUME NEW r \in Rules, NEW next \in (1 .. MaxClock) \cup {rule[r].next}, NEW active \in BOOLEAN, UpdateRule(r, next, active)
      PROVE  Handed' /\ Ahead' /\ OncePerOccurrence'
  <2>1. UNCHANGED <<now, tasks, seen, todo, cur, held, contested>>
    BY <1>3 DEF UpdateRule, tableVars
  <2>2. rule' = [rule EXCEPT ![r].next = next, ![r].active = active] /\ again' = again \cup Repeated(r, next)
    BY <1>3 DEF UpdateRule
  <2>3. \A q \in Rules : q # r => rule'[q] = rule[q]
    BY <1>t, <2>2 DEF TypeOK
  <2>4. rule'[r].next = next
    <3> DEFINE moved == [rule[r] EXCEPT !.next = next, !.active = active]
    <3>1. rule[r] \in [next : Nat, active : BOOLEAN, alive : BOOLEAN]
      BY <1>t DEF TypeOK
    <3>2. moved.next = next
      BY <3>1
    <3>3. rule' = [rule EXCEPT ![r] = moved]
      BY <2>2
    <3> HIDE DEF moved
    <3>4. QED  BY <1>t, <3>2, <3>3 DEF TypeOK
  <2>5. \A q \in Rules : rule[q].next <= rule'[q].next \/ Repeated(q, rule'[q].next) \subseteq again'
    BY <1>n, <2>2, <2>3, <2>4
  <2>6. again \subseteq again' /\ contested \subseteq contested' /\ tasks' = tasks /\ now' = now
    BY <2>1, <2>2
  <2>7. \A v \in Workers : Kept(v)
    BY <1>k, <2>1
  <2>8. QED  BY <1>n, <2>5, <2>6, <2>7, QuietStep
<1>4. ASSUME NEW r \in Rules, DeleteRule(r)
      PROVE  Handed' /\ Ahead' /\ OncePerOccurrence'
  <2>1. UNCHANGED <<now, tasks, seen, todo, cur, held, contested, again>>
    BY <1>4 DEF DeleteRule, tableVars
  <2>2. \A q \in Rules : rule'[q].next = rule[q].next
    <3> DEFINE dead == [rule[r] EXCEPT !.alive = FALSE]
    <3>1. rule[r] \in [next : Nat, active : BOOLEAN, alive : BOOLEAN]
      BY <1>t DEF TypeOK
    <3>2. dead.next = rule[r].next
      BY <3>1
    <3>3. rule' = [rule EXCEPT ![r] = dead]
      BY <1>4 DEF DeleteRule
    <3> HIDE DEF dead
    <3>4. QED  BY <1>t, <3>2, <3>3 DEF TypeOK
  <2>3. QED  BY <1>k, <1>n, <2>1, <2>2, QuietStep
<1>5. ASSUME NEW w \in Jobs, SelectDue(w)
      PROVE  Handed' /\ Ahead' /\ OncePerOccurrence'
  BY <1>5, BeginDated DEF SelectDue, Workers
<1>6. ASSUME NEW w \in Runs, NEW r \in Rules, RunNow(w, r)
      PROVE  Handed' /\ Ahead' /\ OncePerOccurrence'
  BY <1>6, BeginDated DEF RunNow, Workers
<1>7. ASSUME NEW w \in Workers, Step(w) \/ Fail(w), ~Commit(w)
      PROVE  Handed' /\ Ahead' /\ OncePerOccurrence'
  <2>1. UNCHANGED <<now, rule, tasks, again>>
    BY <1>7
    DEF Step, LoadProject, Number, WriteTask, WriteFails, DeadlockVictim, Fail, ruleVars, tableVars
  <2>2. contested' = contested /\ \A v \in Workers : Kept(v)
    BY <1>7, HandsShrink DEF Dated
  <2>3. QED  BY <1>n, <2>1, <2>2, QuietStep
<1>8. CASE UNCHANGED vars
  <2>1. UNCHANGED <<now, rule, tasks, seen, todo, cur, held, contested, again>>
    BY <1>8 DEF vars, ruleVars, tableVars
  <2>2. QED  BY <1>k, <1>n, <2>1, QuietStep
<1>9. QED
  BY <1>1, <1>2, <1>3, <1>4, <1>5, <1>6, <1>7, <1>8, CommitDated DEF Next

LEMMA DatedInit == Init => Dated
<1> SUFFICES ASSUME Init
             PROVE  Dated
  OBVIOUS
<1>1. \A w \in Workers : Making(w)
  BY DEF Init, Making
<1>2. Handed
  BY DEF Init, Handed, InHand
<1>3. Ahead /\ OncePerOccurrence
  BY DEF Init, Ahead, OncePerOccurrence
<1>4. QED  BY <1>1, <1>2, <1>3, TypesInit DEF Dated, Working

\* One date of a cadence gives one task, whatever fails, deadlocks or is edited meanwhile,
\* unless two runs had the rule in hand at once or an edit set it back to the date.
THEOREM RecurringOncePerOccurrence == Spec => []OncePerOccurrence
<1>1. Dated => OncePerOccurrence
  BY DEF Dated
<1>2. QED  BY <1>1, DatedInit, DatedStep, PTL DEF Spec
=============================================================================
