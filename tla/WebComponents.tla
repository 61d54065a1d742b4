---- MODULE WebComponents ----
(***************************************************************************)
(* What the components of the web client (src/apps/web/apps/web/src/       *)
(* components) do to the cached data: one row per component that reads or  *)
(* writes, with the hooks it mounts and the components it holds.           *)
(*                                                                         *)
(* A part that is drawn only for a role, a feature, an open dialog or a   *)
(* chosen tab is held all the same: a page without it is a page whose user *)
(* does not touch it.  What a control asks of the form around it (a name,  *)
(* a choice, a confirmation) only delays the press, and is left out like   *)
(* the layout; what it does while its own write is under way is not.       *)
(***************************************************************************)
EXTENDS WebHooks, WebAdminHooks

(* A second queryFn for the key of a hook that pages through a whole list: it asks for the
   first page, which the API cuts at 50 rows. *)
FirstPageOf(query) == [query EXCEPT !.narrow = TRUE]

(* The mutation of a row of TaskSubtasksPanel: its keys are those of the child, not of the task
   whose page it is on. *)
OfChild(mutation) ==
  LET renamed(keys) ==
        {IF SubSeq(k, 1, 4) = TaskKey(<<>>) THEN [k EXCEPT ![4] = "child"] ELSE k : k \in keys}
  IN [mutation EXCEPT !.cancels = renamed(@), !.guesses = renamed(@), !.seeds = renamed(@),
                      !.replies = renamed(@), !.merges = renamed(@), !.onSuccess = renamed(@),
                      !.onSettled = renamed(@), !.removes = renamed(@)]

\* components/account/oauth-apps-settings.tsx
OAuthAppsSettings == Part({useOAuthApps}, {Busy(useCreateOAuthApp), Free(useRevokeOAuthApp)}, {})

\* components/account/two-factor-settings.tsx
TwoFactorSettings ==
  Part({useMe},
       {Loading(useSetup2fa), Busy(useEnable2fa), Busy(useDisable2fa)},
       {})

\* components/admin/instance-general-settings.tsx
InstanceGeneralSettings == Part({}, {Free(useUpdateInstanceSettings)}, {})

\* components/admin/instance-license.tsx
InstanceLicensePanel ==
  Part({useInstanceLicense},
       {Busy(useActivateLicense), Loading(useDelinkLicense)},
       {})

\* components/admin/instance-users.tsx
InstanceUsers == Part({useInstanceUsers}, {}, {})

\* components/auth/oauth-sign-in.tsx
OAuthSignIn == Part({usePublicProviders}, {}, {})

\* components/command/entity-picker.tsx
EntityPicker == Part({useProjects, useTeams}, {}, {})

\* components/command/navigation-chords.tsx
NavigationChords == Part({}, {}, {EntityPicker})

\* components/command/command-palette.tsx
CommandPalette == Part({useGlobalSearch}, {}, {})

\* components/command/command-menu-provider.tsx
CommandMenuProvider == Part({}, {}, {NavigationChords, CommandPalette})

\* components/command/use-host-commands.ts
useTaskDetailCommands == Part({useMe, useOrgMembers}, {Free(useUpdateTask)}, {})

\* components/dashboard/org-switcher.tsx
OrgSwitcher == Part({useOrgs}, {Once(useCreateOrg), Loading(useDeleteOrg)}, {})

\* components/dashboard/sidebar-favorites.tsx
SidebarFavorites == Part({useFavorites}, {}, {})

\* components/dashboard/sidebar-projects.tsx
SidebarProjects == Part({useProjects}, {}, {})

\* components/dashboard/user-menu.tsx
UserMenu == Part({useMe}, {Free(useLogout)}, {})

\* components/dashboard/sidebar.tsx
Sidebar == Part({}, {}, {SidebarProjects, OrgSwitcher, SidebarFavorites, UserMenu})

\* components/tasks/global-quick-add.tsx
GlobalQuickAdd == Part({useProjects}, {Busy(useCreateTask)}, {})

\* components/notifications/inbox-content.tsx
InboxContent ==
  Part({useNotifications},
       {Free(useMarkNotificationRead), Once(useMarkAllNotificationsRead),
        Free(useArchiveNotification), Free(useSnoozeNotification)},
       {})

\* components/notifications/notification-bell.tsx
NotificationBell == Part({useUnreadCount}, {}, {InboxContent})

\* components/dashboard/topbar.tsx
Topbar == Part({}, {}, {GlobalQuickAdd, NotificationBell})

\* components/drive/drive-browser.tsx
DriveFileMenu == Part({}, {Free(useUpdateDriveFile), Free(useDeleteDriveFile)}, {})
DriveFileRows == Part({useOrgMembers}, {}, {DriveFileMenu})
DriveToolbar == Part({useDriveFolders}, {Once(useUploadToDrive), Free(useRenameDriveFolder)}, {})
(* The upload button waits for the last file; a drop, and each file of one pick, does not. *)
DriveDropZone == Part({useDriveFiles}, {Free(useUploadToDrive)}, {DriveFileRows})
DriveBrowser ==
  Part({useDriveFiles, useDriveFolders, useOrgMembers}, {}, {DriveToolbar, DriveDropZone})

\* components/drive/drive-file-dialog.tsx
TextPreview == Part({useDriveFileText}, {}, {})
Preview == Part({}, {}, {TextPreview})
DriveFileDialog == Part({useDriveFile, useDriveFileUrl}, {Once(useDeleteDriveFile)}, {Preview})

\* components/favorites/favorite-toggle.tsx
FavoriteToggle == Part({useFavorites}, {Once(useAddFavorite), Once(useRemoveFavorite)}, {})

\* components/inbox/catch-up-panel.tsx
CatchUpPanel == Part({useCatchUp}, {Free(useCatchUpMarkSeen), Free(useCatchUpSummary)}, {})

\* components/meetings/import-meeting-dialog.tsx
ImportMeetingDialog == Part({}, {Busy(useImportMeeting)}, {})

\* components/meetings/meeting-list.tsx
MeetingList == Part({useMeetings}, {}, {})

\* components/meetings/new-meeting-dialog.tsx
NewMeetingDialog == Part({}, {Busy(useCreateMeeting)}, {})

\* components/meetings/share-meeting-dialog.tsx
ShareMeetingDialog ==
  Part({useMeetingShare},
       {Loading(useCreateMeetingShare), Once(useUpdateMeetingShare)},
       {})

\* components/meetings/transcript-viewer.tsx
TranscriptViewer == Part({useTranscript, useMeetingChapters}, {}, {})

\* components/notes/create-note-dialog.tsx
CreateNoteDialog == Part({}, {Busy(useCreateNote)}, {})

\* components/notes/note-task-actions.tsx
useNoteTaskActions == Part({useProjects, useNote}, {Free(useCreateTask)}, {})

\* components/notes/note-editor.tsx
NoteEditor == Part({}, {}, {useNoteTaskActions})

\* components/notes/markdown-body.tsx
MarkdownBody == Part({}, {}, {NoteEditor})

\* components/notes/note-list.tsx
NoteRowMenu == Part({}, {Free(useUpdateNote)}, {})
NoteLibrary == Part({}, {Free(useCreateNote)}, {NoteRowMenu})
NoteList == Part({useNotes}, {}, {NoteLibrary})

\* components/onboarding/get-started-checklist.tsx
GetStartedChecklist == Part({useOnboarding}, {}, {})

\* components/projects/chart-builder.tsx
ChartBuilder == Part({useCustomChart}, {}, {})

\* components/projects/create-project-dialog.tsx
CreateProjectDialog ==
  Part({useProjectTemplates},
       {Loading(useCreateProject), Loading(useInstantiateProjectTemplate)},
       {})

\* components/projects/delete-project-dialog.tsx
DeleteProjectDialog == Part({}, {Busy(useDeleteProject)}, {})

\* components/projects/forecast-card.tsx
ForecastCard == Part({useThroughputForecast}, {}, {})

\* components/projects/pivot-table.tsx
PivotTable == Part({usePivotTable}, {}, {})

\* components/projects/project-analytics.tsx
FlowCard == Part({useFlowAnalytics}, {}, {})

\* components/projects/workload-table.tsx
WorkloadTable == Part({useMemberWorkload, useOrgMembers}, {}, {})

\* components/projects/project-analytics.tsx
ProjectAnalytics ==
  Part({useAnalyticsOverview},
       {},
       {FlowCard, ChartBuilder, PivotTable, WorkloadTable, ForecastCard})

\* components/projects/project-board-publish.tsx
ProjectBoardPublish == Part({}, {Loading(usePublishBoard), Loading(useUnpublishBoard)}, {})

\* components/projects/project-brief.tsx
ProjectBrief ==
  Part({useProject, useProjectMembers, useOrgMembers, useTasks, useNotes},
       {Free(useUpdateProject)},
       {MarkdownBody})

\* components/projects/project-custom-properties.tsx
ProjectCustomProperties ==
  Part({useCustomProperties, usePropertyTemplates},
       {Busy(useCreateProperty), Free(useDeleteProperty), Free(useImportPropertyTemplate),
        Free(useCreatePropertyTemplate)},
       {})

\* components/projects/project-default-assignee.tsx
ProjectDefaultAssignee == Part({useOrgMembers, useProjectMembers}, {Free(useUpdateProject)}, {})

\* components/projects/project-email-intake.tsx
ProjectEmailIntake ==
  Part({useEmailIntakes},
       {Loading(useCreateEmailIntake), Free(useDeleteEmailIntake)},
       {})

\* components/projects/project-estimate-settings.tsx
ProjectEstimateSettings == Part({}, {Loading(useUpdateProject)}, {})

\* components/projects/project-git-connection.tsx
ProjectGitConnection ==
  Part({useGitConnections},
       {Busy(useCreateGitConnection), Free(useDeleteGitConnection)},
       {})

\* components/projects/project-identity-settings.tsx
ProjectIdentitySettings == Part({}, {Loading(useUpdateProject)}, {})

\* components/projects/project-import.tsx
ProjectImport == Part({}, {Busy(useImportTasks)}, {})

\* components/projects/project-lifecycle-settings.tsx
ProjectLifecycleSettings == Part({}, {Free(useUpdateProject)}, {})

\* components/projects/project-members.tsx
ProjectMembers ==
  Part({useMe, useOrgMembers, useProjectMembers},
       {Busy(useAddProjectMember), Free(useRemoveProjectMember), Free(useSetProjectMemberRole)},
       {})

\* components/projects/project-overview-stats.tsx
ProjectOverviewStats == Part({useTasks}, {}, {})

\* components/projects/project-recurring-tasks.tsx
ProjectRecurringTasks ==
  Part({useRecurringTasks},
       {Busy(useCreateRecurringTask), Free(useUpdateRecurringTask),
        Free(useDeleteRecurringTask), Free(useRunRecurringTask)},
       {})

\* components/projects/project-retrospectives.tsx
RetroCard == Part({}, {Free(useUpdateRetrospective), Free(useDeleteRetrospective)}, {})
ProjectRetrospectives ==
  Part({useRetrospectives},
       {Busy(useCreateRetrospective)},
       {Each(RetroCard)})

\* components/projects/project-save-template.tsx
ProjectSaveTemplate ==
  Part({useProjectTemplates},
       {Once(useSaveProjectTemplate), Free(useDeleteProjectTemplate)},
       {})

\* components/projects/project-sentry-intake.tsx
ProjectSentryIntake ==
  Part({useSentryIntakes},
       {Loading(useCreateSentryIntake), Free(useDeleteSentryIntake)},
       {})

\* components/projects/project-visibility.tsx
ProjectVisibility == Part({}, {Free(useUpdateProject)}, {})

\* components/projects/project-state-picker.tsx
ProjectStatePicker == Part({useProjectStates}, {Free(useUpdateProject)}, {})

\* components/projects/project-worklog-approvals.tsx
ProjectWorklogApprovals ==
  Part({useProjectPendingWorklogs},
       {Once(useUpdateProject), Free(useDecideWorklog)},
       {})

\* components/projects/project-templates-settings.tsx
ProjectTemplatesSettings ==
  Part({useTemplates},
       {Busy(useCreateTemplate), Free(useDeleteTemplate)},
       {})

\* components/projects/webhook-dialog.tsx
WebhookDialog ==
  Part({useWebhookCatalog},
       {Loading(useCreateWebhook), Loading(useUpdateWebhook)},
       {})

\* components/projects/webhooks-settings.tsx
WebhookRow ==
  Part({},
       {Free(useUpdateWebhook), Loading(useTestWebhook), Loading(useDeleteWebhook)},
       {WebhookDialog})
WebhooksSettings == Part({useProjectWebhooks}, {}, {WebhookDialog, Each(WebhookRow)})

\* components/projects/project-settings.tsx
ProjectSettings ==
  Part({useProject, useOrgMembers, useMe},
       {Once(useUpdateProject)},
       {ProjectIdentitySettings, ProjectVisibility, ProjectDefaultAssignee,
        ProjectRecurringTasks, ProjectRetrospectives, ProjectSentryIntake,
        ProjectEmailIntake, ProjectGitConnection, ProjectImport, ProjectBoardPublish,
        ProjectEstimateSettings, ProjectStatePicker, ProjectWorklogApprovals,
        ProjectLifecycleSettings, ProjectSaveTemplate, ProjectCustomProperties,
        ProjectTemplatesSettings, WebhooksSettings, DeleteProjectDialog})

\* components/projects/throughput-chart.tsx
ThroughputChart == Part({useThroughput}, {}, {})

\* components/settings/access-tokens-settings.tsx
AccessTokensSettings ==
  Part({usePersonalTokens},
       {Busy(useCreatePersonalToken), Free(useRevokePersonalToken),
        Free(useRegeneratePersonalToken)},
       {})

\* components/settings/appearance-settings.tsx
AppearanceSettings == Part({useMe}, {Free(useUpdateProfile)}, {})

\* components/settings/audit-log-settings.tsx
AuditLogSettings == Part({useAuditLog}, {}, {})

\* components/settings/auth-providers-settings.tsx
AuthProvidersSettings == Part({useAuthProviderConfig}, {Free(useUpdateAuthProviders)}, {})

\* components/settings/automations-settings.tsx
RuleBuilder == Part({}, {Once(useCreateTriageRule)}, {})
RuleRow == Part({}, {Once(useUpdateTriageRule), Once(useDeleteTriageRule)}, {})
AutomationsSettings == Part({useTriageRules}, {}, {RuleBuilder, Each(RuleRow)})

\* components/settings/compliance-settings.tsx
ComplianceSettings ==
  Part({useOrg, useOrgMembers},
       {Free(useUpdateOrg), Busy(useDataSubjectExport), Busy(useRequestErasure)},
       {})

\* components/settings/deleted-projects.tsx
DeletedProjects == Part({useDeletedProjects}, {Free(useRestoreProject)}, {})

\* components/settings/domains-settings.tsx
DomainRow == Part({}, {Loading(useVerifyDomain), Free(useDeleteDomain)}, {})
DomainsSettings == Part({useDomains}, {Busy(useAddDomain)}, {Each(DomainRow)})

\* components/settings/edition-card.tsx
EditionCard == Part({useEdition}, {Free(useSetPlan)}, {})

\* components/settings/general-settings.tsx
OrganizationCard == Part({useOrg}, {Busy(useUpdateOrg)}, {})

\* components/settings/project-notifications.tsx
ProjectNotificationRow == Part({useProjectSubscription}, {Once(useSetProjectSubscription)}, {})
ProjectNotifications == Part({useProjects}, {}, {Each(ProjectNotificationRow)})

\* components/settings/general-settings.tsx
GeneralSettings == Part({}, {}, {OrganizationCard, DeletedProjects, ProjectNotifications})

\* components/settings/group-mappings.tsx
GroupMappings ==
  Part({useGroupMappings, useProjects},
       {Busy(useCreateMapping), Free(useDeleteMapping)},
       {})

\* components/settings/ldap-settings.tsx
LdapSettings ==
  Part({useLDAPConnection},
       {Busy(useUpsertLDAP), Loading(useDeleteLDAP), Loading(useTestLDAP)},
       {})

\* components/settings/marketplace-settings.tsx
MarketplaceSettings == Part({useMarketplaceCatalog, useMarketplaceInstalled}, {}, {})

\* components/settings/mcp-connectors-settings.tsx
AddForm == Part({}, {Busy(useAddConnector)}, {})
McpConnectorsSettings ==
  Part({useConnectorCatalog, useConnectors},
       {Free(useSetConnectorEnabled), Free(useDeleteConnector), Free(useTestConnector)},
       {AddForm})

\* components/settings/members-settings.tsx
InviteForm == Part({useProjects}, {Loading(useCreateInvite)}, {})
PendingInvites == Part({useInvites}, {Free(useRevokeInvite)}, {})

\* components/settings/seat-usage-card.tsx
SeatUsageCard == Part({useSeatUsage}, {}, {})

\* components/settings/members-settings.tsx
MembersSettings ==
  Part({useOrgMembers, useMe},
       {Free(useUpdateMemberRole), Free(useRemoveMember)},
       {EditionCard, SeatUsageCard, InviteForm, PendingInvites})

\* components/settings/notification-settings.tsx
NotificationSettings == Part({useNotificationPrefs}, {Once(useSetNotificationPrefs)}, {})

\* components/settings/profile-settings.tsx
ProfileSettings == Part({useMe}, {Busy(useUpdateProfile)}, {})

\* components/settings/rbac-audit-settings.tsx
RbacAuditSettings == Part({useRbacAuditLog}, {}, {})

\* components/settings/relation-types-settings.tsx
RelationTypesSettings ==
  Part({useRelationTypes},
       {Loading(useCreateRelationType), Free(useDeleteRelationType)},
       {})

\* components/settings/roles-settings.tsx
RolesSettings ==
  Part({usePermissionCatalog, useCustomRoles},
       {Busy(useCreateRole), Free(useDeleteRole)},
       {})

\* components/settings/runner-settings.tsx
ScriptRow == Part({useRunnerExecutions}, {Free(useRunScript), Free(useDeleteScript)}, {})
RunnerSettings == Part({useRunnerScripts}, {Busy(useCreateScript)}, {Each(ScriptRow)})

\* components/settings/scim-settings.tsx
ScimSettings ==
  Part({useScimStatus},
       {Loading(useMintScimToken), Loading(useRevokeScimToken)},
       {})

\* components/settings/sso-settings.tsx
SSOSettings ==
  Part({useSSOConnection},
       {Busy(useUpsertSSO), Loading(useDeleteSSO)},
       {GroupMappings})

\* components/settings/teams-settings.tsx
TeamStatsInline == Part({useTeamStats}, {}, {})
TeamRow == Part({}, {Free(useUpdateTeam), Loading(useDeleteTeam)}, {TeamStatsInline})
TeamsSettings == Part({useTeams, useOrgMembers, useMe}, {Busy(useCreateTeam)}, {Each(TeamRow)})

\* components/settings/vocabulary-settings.tsx
AddTerm == Part({}, {Once(useCreateTerm)}, {})
TermRow == Part({}, {Once(useUpdateTerm), Once(useDeleteTerm)}, {})
VocabularySettings == Part({useVocabulary}, {}, {AddTerm, Each(TermRow)})

\* components/settings/webhooks-settings.tsx
OrgWebhooksSettings ==
  Part({useOrgWebhooks, useOutboxEvents},
       {Busy(useCreateOrgWebhook), Free(useDeleteOrgWebhook), Loading(useDispatchEvents),
        Free(useRetryEvent)},
       {})

\* components/settings/work-types-settings.tsx
WorkTypesSettings == Part({useTypeLevels}, {Loading(useSetTypeLevels)}, {})

\* components/settings/workflow-settings.tsx
StatusDeleteControl == Part({useStatusItemCount}, {Busy(useDeleteWorkflowStatus)}, {})
StatusRow == Part({}, {Free(useUpdateWorkflowStatus)}, {StatusDeleteControl})
AddStatus == Part({}, {Once(useCreateWorkflowStatus)}, {})
WorkflowTransitionsEditor ==
  Part({useWorkflowTransitions},
       {Once(useCreateWorkflowTransition), Once(useDeleteWorkflowTransition)},
       {})
TransitionConditionsEditor ==
  Part({useTransitionConditions},
       {Once(useCreateTransitionCondition), Free(useDeleteTransitionCondition)},
       {})
BackwardTransitionToggle == Part({useOrg}, {Once(useUpdateOrg)}, {})
WorkflowSettings ==
  Part({useTeams, useWorkflowStatuses},
       {Free(useUpdateWorkflowStatus)},
       {Each(StatusRow), AddStatus, WorkflowTransitionsEditor, TransitionConditionsEditor,
        BackwardTransitionToggle})

\* components/storage/attachment-list.tsx
ImageAttachment == Part({useObjectUrl}, {}, {})
AttachmentList == Part({}, {}, {Each(ImageAttachment)})

\* components/storage/file-upload.tsx
FileUpload == Part({}, {Loading(useUploadFile)}, {})

\* components/tasks/inline-task-composer.tsx
InlineTaskComposer == Part({}, {Once(useCreateTask)}, {})

\* components/tasks/board.tsx
BoardColumn == Part({}, {}, {InlineTaskComposer})

\* components/tasks/create-task-dialog.tsx
CreateTaskDialog ==
  Part({useMe, useOrgMembers, useProjectMembers, useTemplates, useDuplicateCheck},
       {Loading(useCreateTask)},
       {})

\* components/tasks/task-subscribers.tsx
TaskSubscribers == Part({useTaskSubscribers, useOrgMembers}, {}, {})

\* components/tasks/task-detail-dialog.tsx
SubscriptionToggle == Part({}, {Once(useSetTaskSubscription)}, {})

\* components/tasks/task-description-history.tsx
TaskDescriptionHistory ==
  Part({useTaskDescriptionVersions},
       {Loading(useRestoreTaskDescription)},
       {})

\* components/tasks/task-subtasks-panel.tsx
SubtaskRow == Part({}, {Free(OfChild(useUpdateTask))}, {})
AddSubtask == Part({}, {Once(useCreateTask)}, {})
TaskSubtasksPanel == Part({useSubtasks}, {}, {Each(SubtaskRow), AddSubtask})

\* components/tasks/task-transitions.tsx
TaskTransitions == Part({useTaskTransitions}, {}, {})

\* components/tasks/task-worklog-section.tsx
TaskWorklogSection == Part({useWorklogs}, {Busy(useCreateWorklog), Once(useDeleteWorklog)}, {})

\* components/tasks/task-detail-dialog.tsx
CommentEditedHistory == Part({useCommentVersions}, {}, {})
CommentItem ==
  Part({},
       {Free(useResolveComment), Free(useReactToComment), Busy(useAddTaskComment)},
       {CommentEditedHistory, AttachmentList})
CommentComposer == Part({}, {Busy(useAddTaskComment)}, {FileUpload})
ActivityFeed ==
  Part({useTaskActivity, useTaskComments},
       {},
       {TaskTransitions, TaskWorklogSection, CommentItem, CommentComposer})

\* components/tasks/task-custom-fields.tsx
TaskCustomFields == Part({useCustomProperties}, {Free(useUpdateTask)}, {})

\* components/tasks/task-relations-panel.tsx
RelationRow == Part({}, {Once(useDeleteRelation)}, {})
AddRelation == Part({useTasks, useRelationTypes}, {Once(useCreateRelation)}, {})
TaskRelationsPanel == Part({useTaskRelations}, {}, {Each(RelationRow), AddRelation})

\* components/tasks/task-note-links-section.tsx
TaskNoteLinksSection ==
  Part({useTaskNoteLinks, useNotes},
       {Free(useLinkNote), Free(useUnlinkNote)},
       {})

\* components/tasks/task-links-section.tsx
TaskLinksSection == Part({useTaskLinks}, {Busy(useAddTaskLink), Free(useDeleteTaskLink)}, {})

\* components/tasks/task-dod-section.tsx
TaskDodSection == Part({}, {Free(useUpdateTask)}, {})

\* components/tasks/task-updates-section.tsx
TaskUpdatesSection == Part({useWorkItemUpdates}, {Busy(usePostWorkItemUpdate)}, {})

\* components/tasks/task-approvals-section.tsx
TaskApprovalsSection ==
  Part({useTaskApprovals},
       {Once(useRequestApproval), Once(useApproveApproval), Once(useRejectApproval)},
       {})

\* components/tasks/task-detail-dialog.tsx
TaskDetailHeader ==
  Part({useMe}, {Once(useDuplicateTask), Once(useArchiveTask)}, {TaskSubscribers, SubscriptionToggle})
TaskDetailSidebar ==
  Part({useOrgMembers, useProjectMembers},
       {Free(useUpdateTask), Free(useConvertTask)},
       {TaskCustomFields, TaskRelationsPanel, TaskNoteLinksSection, TaskLinksSection,
        TaskDodSection, TaskUpdatesSection, TaskWorklogSection, TaskApprovalsSection})
TaskDetailBody ==
  Part({useTasks, useNotes, useDriveFiles},
       {Free(useUpdateTask)},
       {TaskDetailHeader, TaskDescriptionHistory, TaskSubtasksPanel, ActivityFeed,
        TaskDetailSidebar, useTaskDetailCommands})
TaskDetailDialog == Part({useTask}, {}, {TaskDetailBody})

\* components/tasks/bulk-action-bar.tsx
BulkActionBar == Part({}, {Free(useUpdateTask), Free(useDeleteTask)}, {})

\* components/tasks/task-peek.tsx
TaskPeek == Part({useTask, useTaskComments, useOrgMembers}, {}, {})

\* components/tasks/task-surface-overlays.tsx
TaskSurfaceOverlays == Part({}, {}, {BulkActionBar, TaskPeek})

\* components/tasks/use-task-surface.ts
useTaskSurface == Part({useMe}, {Free(useUpdateTask)}, {})

\* components/tasks/board.tsx
Board ==
  Part({useTasks, useOrgMembers},
       {Free(useUpdateTask)},
       {Each(BoardColumn), CreateTaskDialog, TaskDetailDialog, TaskSurfaceOverlays,
        useTaskSurface})

\* components/tasks/my-tasks.tsx
MyTasks == Part({useMe, useProjects, useOrgMembers, FirstPageOf(useTasks)}, {}, {})

\* components/tasks/project-epics.tsx
ProjectEpics == Part({useTasks}, {}, {TaskDetailDialog})

\* components/tasks/tasks-table.tsx
GroupComposer == Part({}, {Once(useCreateTask)}, {})
TasksTable ==
  Part({useTasks, useOrgMembers},
       {},
       {GroupComposer, CreateTaskDialog, TaskDetailDialog, TaskSurfaceOverlays, useTaskSurface})

\* components/teams/team-pages.tsx
TeamPages == Part({useTeamNotes}, {Free(useCreateNote)}, {})
====
