---- MODULE CacheShapes ----
(***************************************************************************)
(* The pages of the web client, and the mobile app, as shapes of           *)
(* QueryCache: for every query of every page, what any two writes can do   *)
(* to it - a press on the page, a press on another page of that client, or *)
(* somebody else's write.  Pages whose writes do the same to a query give  *)
(* one shape.                                                              *)
(***************************************************************************)
EXTENDS WebPages, MobileScreens, SequencesExt

(* A filter { queryKey } of the library names every key it is a prefix of. *)
Names(filters, key) == \E f \in filters : IsPrefix(f, key)

(* What one press of a control does to a query; setQueryData names one key. *)
Effect(m, q, here, touches) ==
  [mine |-> TRUE, here |-> here, streamed |-> FALSE,
   cancels |-> Names(m.cancels, q.key), guesses |-> q.key \in m.guesses, seeds |-> q.key \in m.seeds,
   reply |-> CASE q.key \in m.replies -> "whole" [] q.key \in m.merges -> "part" [] OTHER -> "none",
   onSuccess |-> Names(m.onSuccess, q.key), onSettled |-> Names(m.onSettled, q.key),
   removes |-> Names(m.removes, q.key), queues |-> m.queues, touches |-> touches]

(* useActivityStream: the segments of the query keys an activity event invalidates. *)
Streamed == {"tasks", "notes", "meetings", "projects", "events", "ai", "activity"}

(* A client: its pages, and whether it listens to that stream. *)
Web == [pages |-> Pages, listens |-> TRUE]
Mobile == [pages |-> {MobileApp}, listens |-> FALSE]

Theirs(app, q) ==
  [Effect(Writes("server"), q, FALSE, FALSE)
    EXCEPT !.mine = FALSE, !.streamed = app.listens /\ Len(q.key) > 2 /\ q.key[3] \in Streamed]

Leaves(e) == [e EXCEPT !.here = FALSE] = Effect(Writes("nothing"), [key |-> <<"nothing">>], FALSE, FALSE)

Controls(app) == UNION {p.does : p \in app.pages}
Queries(app) == UNION {p.shows : p \in app.pages}

(* Pairs of a mutation and a query of one page that reads what it writes, where the hook asks
   for no refresh of the query; the activity stream, a later mount or staleTime brings it. *)
Unrefreshed ==
  \* a new task is on no list but the project's: the sub-tasks of its parent (AddSubtask) and
  \* the views of a team stay as they are, and so do those of a deleted or duplicated task
  ({useCreateTask, useDuplicateTask, useDeleteTask} \X {useTask, useSubtasks, useTeamViewTasks})
  \* a row of the sub-tasks panel refreshes the child, not the list it is a row of
  \cup ({OfChild(useUpdateTask)} \X {useTask, useSubtasks})
  \* the task that is archived, not its sub-tasks
  \cup {<<useArchiveTask, useSubtasks>>}
  \* the list of the user's organisations, not the one that is open
  \cup ({useCreateOrg, useDeleteOrg, useAcceptInvite} \X {useOrg})
  \* the worklogs of the task, or those that wait for approval in the project, never both
  \cup {<<useCreateWorklog, useProjectPendingWorklogs>>, <<useDeleteWorklog, useProjectPendingWorklogs>>,
        <<useDecideWorklog, useWorklogs>>}
  \* the mobile app's task screen adds the sub-task to its own state alone
  \cup ({addSubtask} \X {listTasks("all"), Pulled(listTasks("all")), listTasks("assigned"),
                          Pulled(listTasks("assigned")), listProjectTasks})
  \* an object's bytes never change
  \cup {<<useUploadFile, useObjectUrl>>}

(* What each press can do to query q of page p: pairs of an effect and the control it is from. *)
Touching(app, p, q) ==
  {e \in {[effect |-> Effect(c.mutation, q, TRUE,
                             c.mutation.writes = q.reads /\ <<c.mutation, q>> \notin Unrefreshed),
           by |-> c] : c \in p.does}
         \cup {[effect |-> Effect(c.mutation, q, FALSE, FALSE), by |-> c] : c \in Controls(app)} :
     ~Leaves(e.effect)}

(* prefetchTask fetches the task and its comments before a dialog shows them. *)
Prefetched == {useTask, useTaskComments}

(* The slots take any writes; two presses of one control that refuses them are alone. *)
ShapesOf(slots, app, p, q) ==
  LET presses == Touching(app, p, q)
      effects == {e.effect : e \in presses} \cup {Theirs(app, q)}
      closed == {e.effect : e \in {x \in presses : x.by.refuses}}
      Of(alone, uses) ==
        [polls |-> q.polls, pulls |-> q.pulls, retries |-> q.retries, signals |-> q.signals,
         swallows |-> q.swallows, warms |-> q \in Prefetched,
         narrow |-> \E r \in Queries(app) : r.key = q.key /\ r.narrow, alone |-> alone, uses |-> uses]
  IN
  {Of(FALSE, u) : u \in [slots -> effects]} \cup {Of(TRUE, [s \in slots |-> e]) : e \in closed}

AppShapes(slots, app) ==
  UNION {ShapesOf(slots, app, p, q) : <<p, q>> \in {x \in app.pages \X Queries(app) : x[2] \in x[1].shows}}
====
