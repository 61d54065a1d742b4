----------------------------- MODULE Recurring -----------------------------
(***************************************************************************)
(* Recurring work items (apps/api/src/elliptic/modules/recurring and the   *)
(* materialize_recurring_tasks job).                                       *)
(*                                                                         *)
(* The job of every API process selects the due rules without a lock and   *)
(* makes one task per rule, all in one transaction; an admin may run one   *)
(* rule now.  Making a task reads the project, advances its counter, and   *)
(* then writes the task and the rule.  Both UPDATEs keep their row lock    *)
(* until the transaction ends.  Two jobs can wait for each other's project *)
(* row; PostgreSQL then aborts one of them.                                *)
(*                                                                         *)
(* Abstractions: a task is its project, number, rule and the occurrence it *)
(* stands for (the next_run_at the rule had been read with); a rule keeps  *)
(* its interval_days.                                                      *)
(***************************************************************************)
EXTENDS Integers, FiniteSets

CONSTANTS
    Rules,
    Projects,
    ProjectOf,      \* [Rules -> Projects]
    Interval,       \* [Rules -> Nat \ {0}]: interval_days
    Jobs,           \* materialize_recurring_tasks, one per API process
    Runs,           \* run_rule_now requests
    MaxClock,       \* bound
    MaxOthers,      \* bound: tasks created and runs asked for by others
    MaxEdits,       \* bound: [Rules -> Nat], edits and the deletion of a rule
    MaxFailures     \* bound: lost connections

Workers == Jobs \cup Runs

ASSUME RulesHaveProjects == ProjectOf \in [Rules -> Projects]
ASSUME IntervalsArePositive == Interval \in [Rules -> Nat \ {0}]
ASSUME RulesAreNotProjects == Rules \cap Projects = {}
ASSUME JobsAreNotRuns == Jobs \cap Runs = {}
ASSUME BoundsAreNumbers == {MaxClock, MaxOthers, MaxFailures} \subseteq Nat /\ MaxEdits \in [Rules -> Nat]

VARIABLES
    now,
    rule,       \* [Rules -> [next, active, alive]]: committed rows
    counter,    \* [Projects -> Nat]: committed task_counter
    tasks,      \* committed tasks made from rules
    numbers,    \* [Projects -> SUBSET Nat]: all numbers in use
    pc,         \* [Workers -> ...]
    at,         \* [Workers -> Nat]: utcnow() of the run
    seen,       \* [Workers -> [Rules -> Nat]]: next_run_at as selected
    todo,       \* rules a worker still has to materialise
    cur,        \* the rule it is at
    object,     \* task_counter of the project objects it has loaded
    made,       \* tasks of the open transaction
    held,       \* rows it has locked
    others, edits, failures,
    contested,  \* history: rules that two workers have had in hand at once
    again       \* history: [rule, due]: dates served before an edit set the rule back to them

ruleVars == <<rule, edits, again>>
tableVars == <<counter, tasks, numbers, others>>
vars == <<now, ruleVars, tableVars, pc, at, seen, todo, cur, object, made, held, failures, contested>>

Init ==
    /\ now = 1
    /\ rule = [r \in Rules |-> [next |-> 1, active |-> TRUE, alive |-> TRUE]]
    /\ counter = [p \in Projects |-> 0]
    /\ tasks = {}
    /\ numbers = [p \in Projects |-> {}]
    /\ pc = [w \in Workers |-> "idle"]
    /\ at = [w \in Workers |-> 0]
    /\ seen = [w \in Workers |-> [r \in Rules |-> 0]]
    /\ todo = [w \in Workers |-> {}]
    /\ cur = [w \in Workers |-> {}]
    /\ object = [w \in Workers |-> [p \in Projects |-> 0]]
    /\ made = [w \in Workers |-> {}]
    /\ held = [w \in Workers |-> {}]
    /\ others = 0 /\ failures = 0
    /\ edits = [r \in Rules |-> 0]
    /\ contested = {} /\ again = {}

Due(r) == rule[r].alive /\ rule[r].active /\ rule[r].next <= now
Free(w, x) == \A v \in Workers \ {w} : x \notin held[v]

Tick ==
    /\ now < MaxClock
    /\ now' = now + 1
    /\ UNCHANGED <<ruleVars, tableVars, pc, at, seen, todo, cur, object, made, held, failures, contested>>

\* create_task and the rest: somebody else's task.
OtherTask(p) ==
    /\ others < MaxOthers
    /\ \A w \in Workers : p \notin held[w]
    /\ others' = others + 1
    /\ counter' = [counter EXCEPT ![p] = @ + 1]
    /\ numbers' = [numbers EXCEPT ![p] = @ \cup {counter[p] + 1}]
    /\ UNCHANGED <<now, ruleVars, tasks, pc, at, seen, todo, cur, object, made, held, failures, contested>>

\* The dates a rule has had its task for and will come to again from a date.
Repeated(r, next) ==
    {[rule |-> r, due |-> t.due] : t \in {t \in tasks : t.rule = r /\ ~t.manual /\ next <= t.due}}

\* update_rule sets next_run_at or active; any date will do, one in the past as well.
UpdateRule(r, next, active) ==
    /\ edits[r] < MaxEdits[r]
    /\ rule[r].alive
    /\ \A w \in Workers : r \notin held[w]
    /\ edits' = [edits EXCEPT ![r] = @ + 1]
    /\ rule' = [rule EXCEPT ![r].next = next, ![r].active = active]
    /\ again' = again \cup Repeated(r, next)
    /\ UNCHANGED <<now, tableVars, pc, at, seen, todo, cur, object, made, held, failures, contested>>

DeleteRule(r) ==
    /\ edits[r] < MaxEdits[r]
    /\ rule[r].alive
    /\ \A w \in Workers : r \notin held[w]
    /\ edits' = [edits EXCEPT ![r] = @ + 1]
    /\ rule' = [rule EXCEPT ![r].alive = FALSE]
    /\ UNCHANGED <<now, again, tableVars, pc, at, seen, todo, cur, object, made, held, failures, contested>>

\* The rules a run has selected and not yet let go of.
InHand(w) == todo[w] \cup cur[w] \cup (held[w] \cap Rules)

Begin(w, rules) ==
    /\ pc[w] = "idle"
    /\ pc' = [pc EXCEPT ![w] = "next"]
    /\ at' = [at EXCEPT ![w] = now]
    /\ seen' = [seen EXCEPT ![w] = [r \in Rules |-> IF r \in rules THEN rule[r].next ELSE 0]]
    /\ todo' = [todo EXCEPT ![w] = rules]
    /\ contested' = contested \cup (rules \cap UNION {InHand(v) : v \in Workers})
    /\ UNCHANGED <<now, ruleVars, counter, tasks, numbers, cur, object, made, held, failures>>

\* Mutant: a rule is due on its date only.
SelectDue_Exact(w) ==
    LET due == {r \in Rules : Due(r) /\ rule[r].next = now} IN
        due # {} /\ Begin(w, due) /\ UNCHANGED others

\* materialize_due
SelectDue(w) ==
    LET due == {r \in Rules : Due(r)} IN due # {} /\ Begin(w, due) /\ UNCHANGED others

\* run_rule_now: due or not, active or not.
RunNow(w, r) ==
    /\ rule[r].alive
    /\ others < MaxOthers
    /\ others' = others + 1
    /\ Begin(w, {r})

\* _materialize loads the project; the transaction sees its own UPDATE.
LoadProject(w, r) ==
    /\ pc[w] = "next" /\ r \in todo[w]
    /\ LET p == ProjectOf[r] IN
        object' = IF p \in held[w] THEN object ELSE [object EXCEPT ![w][p] = counter[p]]
    /\ todo' = [todo EXCEPT ![w] = @ \ {r}]
    /\ cur' = [cur EXCEPT ![w] = {r}]
    /\ pc' = [pc EXCEPT ![w] = "number"]
    /\ UNCHANGED <<now, ruleVars, tableVars, at, seen, made, held, failures, contested>>

\* next_task_number: the UPDATE waits for the project row.
Number(w) ==
    /\ pc[w] = "number"
    /\ \E r \in cur[w] :
        /\ Free(w, ProjectOf[r])
        /\ held' = [held EXCEPT ![w] = @ \cup {ProjectOf[r]}]
        /\ object' = [object EXCEPT ![w][ProjectOf[r]] = @ + 1]
    /\ pc' = [pc EXCEPT ![w] = "write"]
    /\ UNCHANGED <<now, ruleVars, tableVars, at, seen, todo, cur, made, failures, contested>>

\* The last flush of _materialize inserts the task and updates the rule.
WriteTask(w) ==
    /\ pc[w] = "write"
    /\ \E r \in cur[w] :
        /\ Free(w, r)
        /\ rule[r].alive
        /\ object[w][ProjectOf[r]] \notin numbers[ProjectOf[r]]
        /\ held' = [held EXCEPT ![w] = @ \cup {r}]
        /\ made' = [made EXCEPT ![w] = @ \cup
            {[project |-> ProjectOf[r], number |-> object[w][ProjectOf[r]], rule |-> r, due |-> seen[w][r],
              manual |-> seen[w][r] > at[w]]}]
    /\ cur' = [cur EXCEPT ![w] = {}]
    /\ pc' = [pc EXCEPT ![w] = "next"]
    /\ UNCHANGED <<now, ruleVars, tableVars, at, seen, todo, object, failures, contested>>

\* Mutant: the date moves the other way.
After_Back(next, step, moment) == IF next > moment THEN next ELSE next - step
\* The loop of _materialize: the first date of the cadence after a moment.
After(next, step, moment) ==
    IF next > moment THEN next ELSE next + step * ((moment - next) \div step + 1)

Forget(w) ==
    /\ pc' = [pc EXCEPT ![w] = "idle"]
    /\ at' = [at EXCEPT ![w] = 0]
    /\ seen' = [seen EXCEPT ![w] = [r \in Rules |-> 0]]
    /\ todo' = [todo EXCEPT ![w] = {}]
    /\ cur' = [cur EXCEPT ![w] = {}]
    /\ object' = [object EXCEPT ![w] = [p \in Projects |-> 0]]
    /\ made' = [made EXCEPT ![w] = {}]

End(w) == Forget(w) /\ held' = [held EXCEPT ![w] = {}]

RuleAfterRun(w, r) == [rule[r] EXCEPT !.next = After(seen[w][r], Interval[r], at[w])]
\* A date that did not change is not written.
Written(w) == {r \in held[w] \cap Rules : seen[w][r] <= at[w]}

\* Mutant: the advanced dates are lost, the tasks are not.
Commit_TasksOnly(w) ==
    /\ pc[w] = "next" /\ todo[w] = {}
    /\ counter' = [p \in Projects |-> IF p \in held[w] THEN object[w][p] ELSE counter[p]]
    /\ numbers' = [p \in Projects |-> numbers[p] \cup {t.number : t \in {t \in made[w] : t.project = p}}]
    /\ tasks' = tasks \cup made[w]
    /\ End(w)
    /\ UNCHANGED <<now, ruleVars, others, failures, contested>>

Commit(w) ==
    /\ pc[w] = "next" /\ todo[w] = {}
    /\ counter' = [p \in Projects |-> IF p \in held[w] THEN object[w][p] ELSE counter[p]]
    /\ numbers' = [p \in Projects |-> numbers[p] \cup {t.number : t \in {t \in made[w] : t.project = p}}]
    /\ tasks' = tasks \cup made[w]
    /\ rule' = [r \in Rules |-> IF r \in Written(w) THEN RuleAfterRun(w, r) ELSE rule[r]]
    /\ End(w)
    /\ UNCHANGED <<now, edits, again, others, failures, contested>>

\* The number is in use, or the rule has been deleted under the worker: the
\* flush raises and every task of the run is rolled back.
WriteFails(w) ==
    /\ pc[w] = "write"
    /\ \E r \in cur[w] :
        /\ Free(w, r)
        /\ ~rule[r].alive \/ object[w][ProjectOf[r]] \in numbers[ProjectOf[r]]
    /\ End(w)
    /\ UNCHANGED <<now, ruleVars, tableVars, failures, contested>>

\* What a worker is about to lock.
Wanted(w) == IF pc[w] = "number" THEN {ProjectOf[r] : r \in cur[w]}
             ELSE IF pc[w] = "write" THEN cur[w] ELSE {}
WaitsFor(w, v) == Wanted(w) \cap held[v] # {}

\* Two transactions wait for each other: PostgreSQL aborts one of them and hands
\* the row to the other.
DeadlockVictim(w) ==
    /\ \E v \in Workers \ {w} :
        /\ WaitsFor(w, v) /\ WaitsFor(v, w)
        /\ held' = [held EXCEPT ![w] = {}, ![v] = @ \cup Wanted(v)]
    /\ Forget(w)
    /\ UNCHANGED <<now, ruleVars, tableVars, failures, contested>>

\* The process dies or loses its connection.
Fail(w) ==
    /\ pc[w] # "idle"
    /\ failures < MaxFailures
    /\ failures' = failures + 1
    /\ End(w)
    /\ UNCHANGED <<now, ruleVars, tableVars, contested>>

Step(w) ==
    \/ \E r \in Rules : LoadProject(w, r)
    \/ Number(w) \/ WriteTask(w) \/ WriteFails(w) \/ DeadlockVictim(w)
    \/ Commit(w)

Next ==
    \/ Tick
    \/ \E p \in Projects : OtherTask(p)
    \/ \E r \in Rules :
        \/ DeleteRule(r)
        \/ \E next \in (1 .. MaxClock) \cup {rule[r].next}, active \in BOOLEAN : UpdateRule(r, next, active)
    \/ \E w \in Jobs : SelectDue(w)
    \/ \E w \in Runs, r \in Rules : RunNow(w, r)
    \/ \E w \in Workers : Step(w) \/ Fail(w)

Spec == Init /\ [][Next]_vars

(***************************************************************************)
(* The scheduler runs the job again and again; a transaction that has      *)
(* begun goes on.                                                          *)
(***************************************************************************)
Fairness ==
    /\ \A w \in Jobs : WF_vars(SelectDue(w))
    /\ \A w \in Workers : WF_vars(Step(w))

FairSpec == Spec /\ Fairness

(***************************************************************************)
(* Properties.                                                             *)
(***************************************************************************)
Made == [project : Projects, number : Nat, rule : Rules, due : Nat, manual : BOOLEAN]

\* Every variable has its type.
TypeOK ==
    /\ now \in Nat
    /\ rule \in [Rules -> [next : Nat, active : BOOLEAN, alive : BOOLEAN]]
    /\ counter \in [Projects -> Nat]
    /\ tasks \subseteq Made
    /\ numbers \in [Projects -> SUBSET (Nat \ {0})]
    /\ pc \in [Workers -> {"idle", "next", "number", "write"}]
    /\ at \in [Workers -> Nat]
    /\ seen \in [Workers -> [Rules -> Nat]]
    /\ todo \in [Workers -> SUBSET Rules]
    /\ cur \in [Workers -> SUBSET Rules]
    /\ object \in [Workers -> [Projects -> Nat]]
    /\ made \in [Workers -> SUBSET Made]
    /\ held \in [Workers -> SUBSET (Projects \cup Rules)]
    /\ {others, failures} \subseteq Nat
    /\ edits \in [Rules -> Nat]
    /\ contested \subseteq Rules
    /\ again \subseteq [rule : Rules, due : Nat]

\* "A template that auto-creates a task on a fixed day-interval cadence": a date
\* of the cadence gives one task, however often jobs and an admin run the rule,
\* fail, or meet an edit of it.  Nothing locks a rule while it is selected: two
\* runs that have one in hand at the same time may both make its task (contested),
\* and an edit may set a rule back to a date it has had its task for (again).
OncePerOccurrence ==
    \A t, u \in tasks :
        /\ t.rule = u.rule /\ t.due = u.due /\ ~t.manual /\ ~u.manual
        /\ t.rule \notin contested
        /\ [rule |-> t.rule, due |-> t.due] \notin again
        => t = u

\* A due rule does not stay due: two jobs that refuse each other's numbers, wait
\* for each other's projects or die half-way still get every rule served.
DueIsServed == \A r \in Rules : Due(r) ~> ~Due(r)
=============================================================================
