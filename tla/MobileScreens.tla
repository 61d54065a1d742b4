---- MODULE MobileScreens ----
(***************************************************************************)
(* The mobile app (src/apps/mobile/app) in the words of CacheTerms: what   *)
(* its API client does with a request that fails, which lists its screens  *)
(* cache, and what their handlers do to those lists.                       *)
(*                                                                         *)
(* A handler awaits one call of the API client and then invalidates by     *)
(* hand.  It counts as a mutation whose success is what the call returns,  *)
(* which for a queued write is before the server has it.                   *)
(***************************************************************************)
EXTENDS CacheTerms

(* services/query.ts: every key starts with its org; invalidate("o", "tasks") names all the
   task lists, a project's with them. *)
OfOrg(kind) == {<<"o", kind>>}
queryKeys ==
  [tasks |-> [all |-> <<"o", "tasks", "all">>, assigned |-> <<"o", "tasks", "assigned">>],
   projectTasks |-> <<"o", "tasks", "project", "p">>,
   notifications |-> [all |-> <<"o", "notifications", "all">>, unread |-> <<"o", "notifications", "unread">>],
   notes |-> <<"o", "notes">>, drive |-> <<"o", "drive">>,
   projects |-> <<"o", "projects">>, labels |-> <<"o", "labels">>]

(* utils/useListQuery.ts: the fetcher takes no signal and, like every list of the API client,
   answers a request that failed with what it has so far.  services/query.ts retries any error. *)
useListQuery(resource, key) ==
  [Query(resource, key) EXCEPT !.signals = FALSE, !.swallows = TRUE, !.retries = "always"]
Pulled(query) == [query EXCEPT !.pulls = TRUE]

(* fetchAllPages: a page that fails ends the list. *)
fetchAllPages(resource, key) == useListQuery(resource, key)
listTasks(scope) == fetchAllPages("tasks", queryKeys.tasks[scope])
listProjectTasks == fetchAllPages("tasks", queryKeys.projectTasks)
listNotes == fetchAllPages("notes", queryKeys.notes)
listDriveFiles == fetchAllPages("drive", queryKeys.drive)
listNotifications(filter) == useListQuery("notifications", queryKeys.notifications[filter])
listProjects == useListQuery("projects", queryKeys.projects)
listLabels == useListQuery("labels", queryKeys.labels)

(* A write that goes to the offline queue when there is no network. *)
writeOrQueue(resource) == [Writes(resource) EXCEPT !.queues = TRUE]
createTask == writeOrQueue("tasks")
updateTask == writeOrQueue("tasks")
transitionTaskStatus == writeOrQueue("tasks")
createComment == writeOrQueue("comments")
markNotificationRead == writeOrQueue("notifications")
archiveNotification == writeOrQueue("notifications")
snoozeNotification == writeOrQueue("notifications")
(* And those that fail there and then. *)
markAllNotificationsRead == Writes("notifications")
createNote == Writes("notes")
updateNote == Writes("notes")
moveNote == Writes("notes")
deleteNote == Writes("notes")

(* invalidate(...) when the call has come back with a result, and whatever it has come back with. *)
IfDone(write, kind) == [write EXCEPT !.onSuccess = OfOrg(kind)]
Always(write, kind) == [write EXCEPT !.onSettled = OfOrg(kind)]

(* patchCachedEntity: the row is changed in every cached list that has it, with no fetch
   cancelled; its rollback puts those lists back. *)
patchCachedEntity(write, keys) == [write EXCEPT !.guesses = keys]
TaskLists == {queryKeys.tasks.all, queryKeys.tasks.assigned, queryKeys.projectTasks}

\* screens/TaskDetailScreen.tsx
changeStatus == IfDone(patchCachedEntity(transitionTaskStatus, TaskLists), "tasks")
patch == IfDone(patchCachedEntity(updateTask, TaskLists), "tasks")
closeLabels == Always(updateTask, "tasks")
commitTitle == Always(updateTask, "tasks")
commitDescription == Always(updateTask, "tasks")
addSubtask == createTask
toggleSubtask == Always(transitionTaskStatus, "tasks")
postComment == createComment

LabelPickerSheet == Part({listLabels}, {}, {})
TaskText == Part({}, {Free(commitTitle), Free(commitDescription)}, {})
TaskSubtasks == Part({}, {Free(toggleSubtask), Once(addSubtask)}, {})
TaskComments == Part({}, {Once(postComment)}, {})
TaskPickers == Part({}, {Free(changeStatus), Free(patch), Free(closeLabels)}, {LabelPickerSheet})
TaskDetailScreen == Part({}, {}, {TaskText, TaskSubtasks, TaskComments, TaskPickers})

\* components/CreateTaskSheet.tsx
submit == IfDone(createTask, "tasks")
CreateTaskSheet == Part({}, {Once(submit)}, {})

\* screens/TasksScreen.tsx
transition == Always(transitionTaskStatus, "tasks")
TasksScreen == Part({Pulled(listTasks("all"))}, {Free(transition)}, {CreateTaskSheet})

\* screens/HomeScreen.tsx
HomeScreen == Part({Pulled(listTasks("assigned")), Pulled(listProjects)}, {}, {})

\* screens/ProjectsScreen.tsx and ProjectDetailScreen.tsx
ProjectsScreen == Part({Pulled(listProjects)}, {}, {})
ProjectDetailScreen == Part({listProjectTasks}, {}, {})

\* screens/NotesScreen.tsx
create == IfDone(createNote, "notes")
move == IfDone(moveNote, "notes")
NotesScreen == Part({Pulled(listNotes)}, {Once(create), Free(move)}, {})

\* screens/NoteDetailScreen.tsx
save == Always(updateNote, "notes")
remove == Always(deleteNote, "notes")
NoteDetailScreen == Part({}, {Once(save), Free(remove)}, {})

\* screens/DriveScreen.tsx
DriveScreen == Part({Pulled(listDriveFiles)}, {}, {})

\* screens/NotificationsScreen.tsx
open == Always(markNotificationRead, "notifications")
markRead == Always(markNotificationRead, "notifications")
snooze == Always(snoozeNotification, "notifications")
archive == Always(archiveNotification, "notifications")
markAll == Always(markAllNotificationsRead, "notifications")
NotificationsScreen ==
  Part({Pulled(listNotifications("all")), Pulled(listNotifications("unread"))},
       {Free(open), Free(markRead), Free(snooze), Free(archive), Free(markAll)},
       {})

(* A tab stays mounted under the others, and a screen under those pushed on it: the whole app is
   one page. *)
MobileApp ==
  Part({}, {}, {HomeScreen, ProjectsScreen, ProjectDetailScreen, TasksScreen, TaskDetailScreen,
                NotesScreen, NoteDetailScreen, DriveScreen, NotificationsScreen})
====
