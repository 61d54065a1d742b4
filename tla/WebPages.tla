---- MODULE WebPages ----
(***************************************************************************)
(* The pages of the web client (src/apps/web/apps/web/src/app), in the     *)
(* terms of WebComponents.                                                 *)
(***************************************************************************)
EXTENDS WebComponents

(* NoteList and its kin without a project: the list of the whole organisation. *)
OrgWide(part) ==
  [part EXCEPT !.shows = {IF q = useNotes THEN [q EXCEPT !.key = noteKeys.orgList] ELSE q : q \in @}]

\* app/(auth)/invite/[token]/page.tsx
InvitePage == Part({useMe, useInvitePreview}, {Once(useAcceptInvite)}, {})

\* app/(auth)/login/page.tsx
LoginForm == Part({}, {Loading(m) : m \in useLogin} \cup {Free(useResendVerification)}, {OAuthSignIn})
LoginPage == Part({}, {}, {LoginForm})

\* app/(auth)/signup/page.tsx
SignupForm == Part({}, {Loading(useSignup)}, {OAuthSignIn})
SignupPage == Part({}, {}, {SignupForm})

\* app/(auth)/verify-email/page.tsx
VerifyEmailForm == Part({}, {Loading(useVerifyEmail), Once(useResendVerification)}, {})
VerifyEmailPage == Part({}, {}, {VerifyEmailForm})

\* app/(oauth)/authorize/page.tsx
ConsentView == Part({}, {Once(useConsentDecision)}, {})
AuthorizeInner == Part({useConsentContext}, {}, {ConsentView})
AuthorizePage == Part({}, {}, {AuthorizeInner})

\* app/admin/page.tsx
InstanceAdminPage ==
  Part({useInstanceSettings},
       {},
       {InstanceGeneralSettings, InstanceUsers, InstanceLicensePanel})

\* app/app/[orgId]/account/page.tsx
AccountPage ==
  Part({},
       {},
       {ProfileSettings, AppearanceSettings, TwoFactorSettings, AccessTokensSettings,
        OAuthAppsSettings})

\* app/app/[orgId]/activity/page.tsx
ActivityPage == Part({useActivity, useOrgMembers}, {}, {})

\* app/app/[orgId]/browse/[identifier]/page.tsx
BrowsePage == Part({[Query("resolve", <<"resolve", "o">>) EXCEPT !.retries = "never"]}, {}, {})

\* app/app/[orgId]/drive/page.tsx
DrivePage == Part({}, {}, {DriveBrowser, DriveFileDialog})

\* app/app/[orgId]/inbox/page.tsx
InboxPage == Part({}, {}, {CatchUpPanel, InboxContent})

\* app/app/[orgId]/layout.tsx
OrgLayout == Part({useOrgs}, {}, {CommandMenuProvider, Sidebar, Topbar})

\* app/app/[orgId]/meetings/[meetingId]/page.tsx
MeetingDetailPage ==
  Part({useMeeting},
       {Once(useDeleteMeeting)},
       {ShareMeetingDialog, TranscriptViewer})

\* app/app/[orgId]/meetings/page.tsx
MeetingsPage == Part({}, {}, {NewMeetingDialog, ImportMeetingDialog, MeetingList})

\* app/app/[orgId]/my-tasks/page.tsx
MyTasksPage == Part({}, {}, {MyTasks})

\* app/app/[orgId]/new/page.tsx
NewWorkItemPage == Part({useMe, useProjects}, {}, {CreateTaskDialog})

\* app/app/[orgId]/notes/[noteId]/page.tsx
NoteEditorPage == Part({useNote}, {Free(useUpdateNote), Free(useDeleteNote)}, {MarkdownBody})

\* app/app/[orgId]/notes/page.tsx
NotesPage == Part({}, {}, {CreateNoteDialog, OrgWide(NoteList)})

\* app/app/[orgId]/page.tsx
HomePage == Part({useMe, useProjects, useFavorites, useActivity}, {}, {GetStartedChecklist})

\* app/app/[orgId]/projects/[projectId]/page.tsx
ProjectDetailContent ==
  Part({useProject},
       {},
       {FavoriteToggle, ProjectOverviewStats, ThroughputChart, ProjectBrief, Board, TasksTable,
        ProjectEpics, ProjectAnalytics, ImportMeetingDialog, MeetingList,
        CreateNoteDialog, NoteList, ProjectMembers, ProjectSettings})
ProjectDetailPage == Part({}, {}, {ProjectDetailContent})

\* app/app/[orgId]/projects/browse/page.tsx
BrowseProjectsPage == Part({useBrowseProjects}, {Once(useJoinProject)}, {})

\* app/app/[orgId]/projects/page.tsx
ProjectsPage == Part({useProjects, useProjectStates}, {}, {CreateProjectDialog})

\* app/app/[orgId]/search/page.tsx
SearchPage == Part({useProjects, FirstPageOf(useTasks)}, {}, {})

\* app/app/[orgId]/settings/page.tsx
SettingsPage ==
  Part({},
       {},
       {GeneralSettings, AppearanceSettings, AccessTokensSettings, MembersSettings,
        TeamsSettings, DomainsSettings, SSOSettings, AuthProvidersSettings,
        LdapSettings, ScimSettings, McpConnectorsSettings, MarketplaceSettings,
        OrgWebhooksSettings, ComplianceSettings, VocabularySettings, WorkflowSettings,
        WorkTypesSettings, RelationTypesSettings, AutomationsSettings, RunnerSettings,
        NotificationSettings, AuditLogSettings, RolesSettings, RbacAuditSettings})

\* app/app/[orgId]/teams/[teamId]/page.tsx
OverviewTab == Part({useTeam, useOrgMembers}, {Once(useUpdateTeam)}, {})
MembersTab ==
  Part({useTeamMembers, useOrgMembers},
       {Once(useAddTeamMember), Free(useRemoveTeamMember)},
       {})
ProjectsTab ==
  Part({useTeamProjects, useProjects},
       {Once(useLinkTeamProjects), Free(useUnlinkTeamProject)},
       {})
ViewsTab ==
  Part({useTeamspaceViews, useTeamViewTasks},
       {Once(useCreateTeamspaceView), Free(useDeleteServerView), Free(usePublishView),
        Free(useUnpublishView)},
       {})
TeamDetailPage == Part({useTeam}, {}, {OverviewTab, MembersTab, ProjectsTab, ViewsTab, TeamPages})

\* app/app/[orgId]/wiki/page.tsx
WikiPage == Part({}, {}, {CreateNoteDialog, OrgWide(NoteList)})

\* app/app/page.tsx
CreateOrgDialog == Part({}, {Loading(useCreateOrg)}, {})
OrgPickerPage == Part({useOrgs}, {}, {CreateOrgDialog})

\* app/public/boards/[token]/page.tsx
PublicBoardPage ==
  Part({[Query("public board", <<"public-board", "b">>) EXCEPT !.retries = "never"]},
       {},
       {})

\* app/public/views/[token]/page.tsx
PublicViewPage ==
  Part({[Query("public view", <<"public-view", "v">>) EXCEPT !.retries = "never"]},
       {},
       {})

\* app/share/meetings/[token]/page.tsx
PublicMeetingSharePage == Part({usePublicMeetingShare}, {}, {})

(* Under app/app/[orgId] a page lives inside the layout. *)
InOrg(page) == Part({}, {}, {OrgLayout, page})
Pages ==
  {InOrg(AccountPage), InOrg(ActivityPage), AuthorizePage, InOrg(BrowsePage),
   InOrg(BrowseProjectsPage), InOrg(DrivePage), InOrg(HomePage), InOrg(InboxPage),
   InstanceAdminPage, InvitePage, LoginPage, InOrg(MeetingDetailPage), InOrg(MeetingsPage),
   InOrg(MyTasksPage), InOrg(NewWorkItemPage), InOrg(NoteEditorPage), InOrg(NotesPage),
   OrgPickerPage, InOrg(ProjectDetailPage), InOrg(ProjectsPage), PublicBoardPage,
   PublicMeetingSharePage, PublicViewPage, InOrg(SearchPage), InOrg(SettingsPage), SignupPage,
   InOrg(TeamDetailPage), VerifyEmailPage, InOrg(WikiPage)}
====
