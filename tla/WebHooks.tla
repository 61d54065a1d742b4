---- MODULE WebHooks ----
(***************************************************************************)
(* The web client's data hooks (src/apps/web/apps/web/src/hooks), one row  *)
(* each, in the words of CacheTerms: those of the work, its projects,      *)
(* tasks, notes, meetings, files and what is said about them.  The names   *)
(* of the hooks are the source's.                                          *)
(*                                                                         *)
(* Views the server derives from several resources (analytics, activity,   *)
(* onboarding) are resources of their own, which no mutation writes.  The  *)
(* toasts, the bodies of the requests and `enabled` are left out: a query  *)
(* that is not enabled is one that is not on screen.                       *)
(***************************************************************************)
EXTENDS WebKeys

\* use-activity-queries.ts
useActivity == Query("activity", activityKeys.list)

\* use-analytics-queries.ts
useThroughput == Query("analytics", ProjectKey(<<"throughput", "days">>))
useAnalyticsOverview == Query("analytics", OrgKey(<<"analytics", "overview", "p">>))
useFlowAnalytics == Query("analytics", OrgKey(<<"analytics", "flow", "p">>))
useCustomChart == Query("analytics", OrgKey(<<"analytics", "custom", "params">>))
usePivotTable == Query("analytics", OrgKey(<<"analytics", "pivot", "params">>))
useMemberWorkload == Query("analytics", OrgKey(<<"analytics", "workload", "p">>))
useThroughputForecast == Query("analytics", OrgKey(<<"analytics", "forecast", "p", "weeks">>))

\* use-approval-queries.ts
useTaskApprovals == Query("approvals", approvalKey)
useRequestApproval == Refreshing("approvals", {approvalKey})
useDecision == Refreshing("approvals", {approvalKey, taskKeys.detail})
useApproveApproval == useDecision
useRejectApproval == useDecision

\* use-automation-queries.ts
useTriageRules == [Query("triageRules", automationKeys.all) EXCEPT !.retries = "never"]
useCreateTriageRule == Refreshing("triageRules", {automationKeys.all})
useUpdateTriageRule == Refreshing("triageRules", {automationKeys.all})
useDeleteTriageRule == Refreshing("triageRules", {automationKeys.all})
useRunTriageSkill == Writes("none")

\* use-board-publish.ts
usePublishBoard == Refreshing("boardPublish", {projectKeys.detail})
useUpdateBoardPrivacy == Writes("boardPublish")
useUnpublishBoard == Refreshing("boardPublish", {projectKeys.detail})

\* use-drive-queries.ts
useDriveFiles == Query("drive", driveKeys.files)
useDriveFolders == Query("drive", driveKeys.folders)
useDriveFile == Query("drive", driveKeys.detail)
useUploadToDrive == Refreshing("drive", {driveKeys.all})
useUpdateDriveFile == Refreshing("drive", {driveKeys.all})
useDeleteDriveFile == Refreshing("drive", {driveKeys.all})
useRenameDriveFolder == Refreshing("drive", {driveKeys.all})
useDriveFileUrl == Query("objects", driveKeys.detail \o <<"url">>)
useDriveFileText == Query("objects", driveKeys.detail \o <<"text">>)

\* use-duplicate-check.ts
useDuplicateCheck == Query("duplicates", ProjectKey(<<"dup-check", "q">>))

\* use-favorite-queries.ts
useFavorites == Query("favorites", favoriteKeys.all)
useAddFavorite == Refreshing("favorites", {favoriteKeys.all})
useRemoveFavorite == Refreshing("favorites", {favoriteKeys.all})

\* use-meeting-queries.ts
useMeetings == Query("meetings", meetingKeys.list)
useMeeting == Query("meetings", meetingKeys.detail)
useDeleteMeeting == Refreshing("meetings", {meetingKeys.all})
useTranscript == Query("transcripts", meetingKeys.transcript)
useUpdateMeeting ==
  [Writes("meetings") EXCEPT !.replies = {meetingKeys.detail}, !.onSuccess = {meetingKeys.all}]
useImportMeeting == Refreshing("meetings", {meetingKeys.all})
useMeetingChapters ==
  [Query("transcripts", meetingKeys.detail \o <<"chapters">>) EXCEPT !.retries = "never"]
useMeetingShare ==
  [Query("meetingShare", meetingKeys.detail \o <<"share">>) EXCEPT !.retries = "never"]
useCreateMeetingShare == [Writes("meetingShare") EXCEPT !.replies = {meetingKeys.share}]
useUpdateMeetingShare == [Writes("meetingShare") EXCEPT !.replies = {meetingKeys.share}]
useCreateMeeting == Refreshing("meetings", {meetingKeys.all})

\* use-note-queries.ts
useNotes == Query("notes", noteKeys.list)
useTeamNotes == Query("notes", OrgKey(<<"teams", "team", "notes">>))
useNote == Query("notes", noteKeys.detail)
useCreateNote == [Writes("notes") EXCEPT
  !.cancels = {noteKeys.list, noteKeys.orgList}, !.guesses = {noteKeys.list, noteKeys.orgList},
  !.seeds = {noteKeys.list, noteKeys.orgList}, !.onSuccess = {OrgKey(<<"teams", "team", "notes">>)},
  !.onSettled = {noteKeys.all}]
useUpdateNote == [Optimistic("notes", {noteKeys.detail, noteKeys.orgList}, {noteKeys.all, noteKeys.detail})
                   EXCEPT !.replies = {noteKeys.detail}]
useDeleteNote == Optimistic("notes", {noteKeys.orgList}, {noteKeys.all})

\* use-notification-pref-queries.ts
useNotificationPrefs == Query("notificationPrefs", prefsKey)
useSetNotificationPrefs == Refreshing("notificationPrefs", {prefsKey})

\* use-notification-queries.ts
useNotifications == Query("notifications", notificationKeys.list)
useUnreadCount == [Query("notifications", notificationKeys.unreadCount) EXCEPT !.polls = TRUE]
useMarkNotificationRead == Settling("notifications", {notificationKeys.all})
useMarkAllNotificationsRead == Settling("notifications", {notificationKeys.all})
useArchiveNotification == Settling("notifications", {notificationKeys.all})
useSnoozeNotification == Settling("notifications", {notificationKeys.all})
useCatchUp == Query("notifications", OrgKey(<<"notifications", "catch-up">>))
useCatchUpMarkSeen ==
  Refreshing("notifications", {OrgKey(<<"notifications", "catch-up">>), OrgKey(<<"notifications">>)})
useCatchUpSummary == Writes("none")

\* use-onboarding-queries.ts
useOnboarding == Query("onboarding", OrgKey(<<"onboarding">>))

\* use-project-queries.ts
useProjects == Query("projects", projectKeys.lists)
useBrowseProjects == Query("projects", projectKeys.browse)
useJoinProject == Refreshing("projects", {projectKeys.browse, projectKeys.lists})
useProject == Query("projects", projectKeys.detail)
useCreateProject == Refreshing("projects", {projectKeys.lists})
useUpdateProject ==
  [Refreshing("projects", {projectKeys.lists}) EXCEPT !.replies = {projectKeys.detail}]
useProjectMembers == Query("projectMembers", projectKeys.members)
useAddProjectMember == [Optimistic("projectMembers", {projectKeys.members}, {projectKeys.members})
                         EXCEPT !.seeds = {projectKeys.members}]
useSetProjectMemberRole == Refreshing("projectMembers", {projectKeys.members})
useRemoveProjectMember == Optimistic("projectMembers", {projectKeys.members}, {projectKeys.members})
useDeletedProjects == Query("projects", projectKeys.deleted)
useRestoreProject == Refreshing("projects", {projectKeys.lists, projectKeys.deleted})
useDeleteProject == [Refreshing("projects", {projectKeys.lists, projectKeys.deleted})
                      EXCEPT !.removes = {projectKeys.detail}]
useProjectSubscription == Query("projectSubscription", projectKeys.subscription)
useSetProjectSubscription == [Refreshing("projectSubscription", {projectKeys.subscription})
                               EXCEPT !.replies = {projectKeys.subscription}]

\* use-project-state-queries.ts
useProjectStates == Query("projectStates", statesKey)
useCreateProjectState == Refreshing("projectStates", {statesKey})
useDeleteProjectState == Refreshing("projectStates", {statesKey})

\* use-project-template-queries.ts
useProjectTemplates == Query("projectTemplates", projectTemplatesKey)
useSaveProjectTemplate == Refreshing("projectTemplates", {projectTemplatesKey})
useInstantiateProjectTemplate == Refreshing("projects", {projectKeys.lists})
useDeleteProjectTemplate == Refreshing("projectTemplates", {projectTemplatesKey})

\* use-property-queries.ts
useCustomProperties == Query("properties", propertyKeys.all)
useCreateProperty == Refreshing("properties", {propertyKeys.all})
useDeleteProperty == Refreshing("properties", {propertyKeys.all})
usePropertyTemplates == Query("propertyTemplates", propertyTemplatesKey)
useCreatePropertyTemplate == Refreshing("propertyTemplates", {propertyTemplatesKey})
useDeletePropertyTemplate == Refreshing("propertyTemplates", {propertyTemplatesKey})
useImportPropertyTemplate == Refreshing("properties", {propertyKeys.all})

\* use-public-share-queries.ts
usePublicMeetingShare ==
  [Query("meetingShare", <<"share", "meetings", "tok">>) EXCEPT !.retries = "never"]

\* use-recurring-task-queries.ts
useRecurringTasks == Query("recurringTasks", recurringKey)
useCreateRecurringTask == Refreshing("recurringTasks", {recurringKey})
useUpdateRecurringTask == Refreshing("recurringTasks", {recurringKey})
useDeleteRecurringTask == Refreshing("recurringTasks", {recurringKey})
useRunRecurringTask == Refreshing("recurringTasks", {recurringKey})

\* use-relation-type-queries.ts
useRelationTypes == Query("relationTypes", relationTypeKey)
useCreateRelationType == Refreshing("relationTypes", {relationTypeKey})
useDeleteRelationType == Refreshing("relationTypes", {relationTypeKey})

\* use-retrospective-queries.ts
useRetrospectives == Query("retrospectives", retrospectiveKey)
useCreateRetrospective == Refreshing("retrospectives", {retrospectiveKey})
useUpdateRetrospective == Refreshing("retrospectives", {retrospectiveKey})
useDeleteRetrospective == Refreshing("retrospectives", {retrospectiveKey})

\* use-search-queries.ts
useGlobalSearch == Query("search", OrgKey(<<"search", "q">>))

\* use-storage-queries.ts
useUploadFile == Writes("objects")
useResolveDownload == Writes("none")
useObjectUrl == Query("objects", OrgKey(<<"storage", "obj", "url">>))

\* use-task-queries.ts
useTasks == Query("tasks", taskKeys.byProject)
useTask == Query("tasks", taskKeys.detail)
useCreateTask == [Optimistic("tasks", {taskKeys.byProject}, {taskKeys.byProject})
                   EXCEPT !.seeds = {taskKeys.byProject}]
useUpdateTask_ListOnly == [Optimistic("tasks", {taskKeys.byProject, taskKeys.detail},
                                     {taskKeys.byProject, taskKeys.activity})
                            EXCEPT !.replies = {taskKeys.detail}]
useUpdateTask == [Optimistic("tasks", {taskKeys.byProject, taskKeys.detail},
                            {taskKeys.byProject, taskKeys.detail, taskKeys.activity})
                   EXCEPT !.replies = {taskKeys.detail}]
useConvertTask ==
  [Refreshing("tasks", {taskKeys.byProject, taskKeys.detail}) EXCEPT !.replies = {taskKeys.detail}]
useDuplicateTask == Refreshing("tasks", {taskKeys.byProject})
useDeleteTask == Refreshing("tasks", {taskKeys.byProject})
useTaskComments == Query("comments", taskKeys.comments)
useCommentVersions == Query("commentVersions", OrgKey(<<"comments", "c", "versions">>))
useAddTaskComment == [Optimistic("comments", {taskKeys.comments}, {taskKeys.comments, taskKeys.activity})
                       EXCEPT !.seeds = {taskKeys.comments}]
useReactToComment ==
  [Settling("comments", {taskKeys.comments}) EXCEPT !.merges = {taskKeys.comments}]
useResolveComment ==
  [Settling("comments", {taskKeys.comments}) EXCEPT !.merges = {taskKeys.comments}]
useTaskSubscribers == Query("subscribers", taskKeys.subscribers)
useTaskNoteLinks == Query("noteLinks", taskKeys.noteLinks)
useLinkNote == Refreshing("noteLinks", {taskKeys.noteLinks})
useUnlinkNote == Refreshing("noteLinks", {taskKeys.noteLinks})
useArchiveTask == [Refreshing("tasks", {taskKeys.byProject}) EXCEPT !.replies = {taskKeys.detail}]
useTaskLinks == Query("taskLinks", taskKeys.links)
useAddTaskLink == [Settling("taskLinks", {taskKeys.links}) EXCEPT
                    !.merges = {taskKeys.links}, !.seeds = {taskKeys.links}]
useDeleteTaskLink == [Settling("taskLinks", {taskKeys.links}) EXCEPT !.merges = {taskKeys.links}]
useTaskActivity == Query("taskActivity", taskKeys.activity)
useSubtasks == Query("tasks", taskKeys.subtasks)
useTaskRelations == Query("relations", taskKeys.relations)
useCreateRelation == Settling("relations", {taskKeys.relations, taskKeys.byProject})
useDeleteRelation == Settling("relations", {taskKeys.relations, taskKeys.byProject})
useSetTaskSubscription == Settling("subscribers", {taskKeys.detail})
useTaskDescriptionVersions ==
  Query("descriptionVersions", taskKeys.detail \o <<"description-versions">>)
useRestoreTaskDescription == Refreshing("tasks", {taskKeys.all})
useTaskTransitions == Query("transitions", taskKeys.detail \o <<"transitions">>)

\* use-team-view-queries.ts
useTeamspaceViews == Query("teamViews", viewsKey \o <<"team", "team">>)
useCreateTeamspaceView == Refreshing("teamViews", {viewsKey \o <<"team", "team">>})
useDeleteServerView == Refreshing("teamViews", {viewsKey \o <<"team", "team">>})
useTeamViewTasks == Query("tasks", OrgKey(<<"server-views", "v", "tasks">>))
usePublishView == Refreshing("teamViews", {OrgKey(<<"server-views", "team", "team">>)})
useUnpublishView == Refreshing("teamViews", {OrgKey(<<"server-views", "team", "team">>)})

\* use-template-queries.ts
useTemplates == Query("templates", templateKeys.all)
useCreateTemplate == Refreshing("templates", {templateKeys.all})
useDeleteTemplate == Refreshing("templates", {templateKeys.all})

\* use-vocabulary-queries.ts
useVocabulary == Query("vocabulary", vocabularyKeys.all)
useCreateTerm_Silent == Writes("vocabulary")
useCreateTerm == Refreshing("vocabulary", {vocabularyKeys.all})
useUpdateTerm == Refreshing("vocabulary", {vocabularyKeys.all})
useDeleteTerm == Refreshing("vocabulary", {vocabularyKeys.all})

\* use-work-item-update-queries.ts
useWorkItemUpdates == Query("workItemUpdates", workItemUpdateKeys.all)
usePostWorkItemUpdate == Refreshing("workItemUpdates", {workItemUpdateKeys.all})

\* use-worklog-queries.ts
useWorklogs == Query("worklogs", worklogKeys.all)
useCreateWorklog == Refreshing("worklogs", {worklogKeys.all})
useDeleteWorklog == Refreshing("worklogs", {worklogKeys.all})
useProjectPendingWorklogs == Query("worklogs", ProjectKey(<<"worklogs", "pending">>))
useDecideWorklog == Refreshing("worklogs", {ProjectKey(<<"worklogs", "pending">>)})

=============================================================================
