---- MODULE WebAdminHooks ----
(***************************************************************************)
(* The data hooks of the web client (see WebHooks) for those who work: the *)
(* session, the members and teams of an organisation, and how it and the   *)
(* instance are set up.                                                    *)
(***************************************************************************)
EXTENDS WebKeys

\* use-access-token-queries.ts
usePersonalTokens == Query("tokens", accessTokenKeys.all)
useCreatePersonalToken == Refreshing("tokens", {accessTokenKeys.all})
useRegeneratePersonalToken == Refreshing("tokens", {accessTokenKeys.all})
useRevokePersonalToken == Refreshing("tokens", {accessTokenKeys.all})

\* use-audit-queries.ts
useAuditLog == Query("audit", OrgKey(<<"audit", "filters">>))

\* use-auth-provider-queries.ts
usePublicProviders == [Query("authProviders", <<"auth", "providers">>) EXCEPT !.retries = "never"]
useAuthProviderConfig == Query("authProviders", OrgKey(<<"auth-providers">>))
useUpdateAuthProviders == Refreshing("authProviders", {OrgKey(<<"auth-providers">>)})

\* use-auth-queries.ts
useMe == [Query("me", authKeys.me) EXCEPT !.retries = "never"]
useUpdateProfile == [Writes("me") EXCEPT !.replies = {authKeys.me}]
useLogin == {Clears, Writes("none")}  \* the second when the server asks for a code
useSignup == Clears
useVerifyEmail == Clears
useResendVerification == Writes("none")
useLogout == Clears
useInvitePreview ==
  [Query("invitePreview", authKeys.all \o <<"invite", "tok">>) EXCEPT !.retries = "never"]
useAcceptInvite == Writes("orgs")
useSetup2fa == Writes("none")
useEnable2fa == Refreshing("me", {authKeys.me})
useDisable2fa == Refreshing("me", {authKeys.me})

\* use-domain-queries.ts
useDomains == Query("domains", domainKey)
useAddDomain == Refreshing("domains", {domainKey})
useVerifyDomain == Refreshing("domains", {domainKey})
useDeleteDomain == Refreshing("domains", {domainKey})

\* use-edition-queries.ts
useEdition == Query("edition", editionKey)
useSetPlan == Refreshing("edition", {editionKey})

\* use-email-intake-queries.ts
useEmailIntakes == Query("emailIntakes", emailIntakeKey)
useCreateEmailIntake == Refreshing("emailIntakes", {emailIntakeKey})
useDeleteEmailIntake == Refreshing("emailIntakes", {emailIntakeKey})

\* use-event-backbone.ts
useOrgWebhooks == Query("orgWebhooks", hooksKey)
useOutboxEvents == Query("outboxEvents", eventsKey)
useCreateOrgWebhook == Refreshing("orgWebhooks", {hooksKey})
useDeleteOrgWebhook == Refreshing("orgWebhooks", {hooksKey})
useRetryEvent == Refreshing("outboxEvents", {OrgKey(<<"outbox-events">>)})
useDispatchEvents == Refreshing("outboxEvents", {eventsKey})

\* use-git-queries.ts
useGitConnections == Query("gitConnections", gitKey)
useCreateGitConnection == Refreshing("gitConnections", {gitKey})
useDeleteGitConnection == Refreshing("gitConnections", {gitKey})

\* use-idp-sync-queries.ts
useGroupMappings == Query("groupMappings", idpSyncKey)
useCreateMapping == Refreshing("groupMappings", {idpSyncKey})
useDeleteMapping == Refreshing("groupMappings", {idpSyncKey})

\* use-import-queries.ts
useImportTasks == Refreshing("tasks", {OrgKey(<<"tasks">>)})

\* use-instance-admin.ts
useInstanceSettings ==
  [Query("instanceSettings", <<"instance", "settings">>) EXCEPT !.retries = "never"]
useUpdateInstanceSettings == Refreshing("instanceSettings", {<<"instance", "settings">>})
useInstanceUsers == Query("instanceUsers", <<"instance", "users">>)
useUserAction == Refreshing("instanceUsers", {<<"instance", "users">>})
useInstanceLicense == Query("license", <<"instance", "license">>)
useActivateLicense == Refreshing("license", {<<"instance", "license">>})
useDelinkLicense == Refreshing("license", {<<"instance", "license">>})

\* use-integration-queries.ts
useSlackConnection == [Query("slack", integrationKeys.slack) EXCEPT !.retries = "never"]
useSlackChannels == [Query("slackChannels", integrationKeys.slackChannels) EXCEPT !.retries = "never"]
useSendMeetingToSlack == Writes("none")

\* use-ldap-queries.ts
useLDAPConnection == Query("ldap", ldapKey)
useUpsertLDAP == Refreshing("ldap", {ldapKey})
useDeleteLDAP == Refreshing("ldap", {ldapKey})
useTestLDAP == Writes("none")

\* use-marketplace-queries.ts
useMarketplaceCatalog == Query("catalog", OrgKey(<<"marketplace", "catalog">>))
useMarketplaceInstalled == Query("marketplace", OrgKey(<<"marketplace", "installed">>))

\* use-mcp-connector-queries.ts
useConnectorCatalog == Query("connectorCatalog", OrgKey(<<"mcp-connectors", "catalog">>))
useConnectors == Query("connectors", connectorKey)
useAddConnector == Refreshing("connectors", {connectorKey})
useSetConnectorEnabled == Refreshing("connectors", {connectorKey})
useDeleteConnector == Refreshing("connectors", {connectorKey})
useTestConnector == Writes("none")

\* use-oauth-app-queries.ts
useOAuthApps == Query("oauthApps", oauthAppsKey)
useCreateOAuthApp == Refreshing("oauthApps", {oauthAppsKey})
useRevokeOAuthApp == Refreshing("oauthApps", {oauthAppsKey})

\* use-oauth-queries.ts
useConsentContext == [Query("consent", oauthKeys.consent) EXCEPT !.retries = "never"]
useConsentDecision == Writes("grants")
useGrants == Query("grants", grantKeys.all)
useRevokeGrant == Refreshing("grants", {grantKeys.all})

\* use-org-queries.ts
useOrgs == Query("orgs", orgKeys.lists)
useOrg == Query("orgs", orgKeys.detail)
useCreateOrg == Refreshing("orgs", {orgKeys.lists})
useUpdateOrg == Refreshing("orgs", {orgKeys.all})
useDeleteOrg == [Refreshing("orgs", {orgKeys.lists}) EXCEPT
                 !.merges = {orgKeys.lists}, !.removes = {orgKeys.detail}]
useOrgMembers == Query("members", orgKeys.members)
useUpdateMemberRole == Refreshing("members", {orgKeys.members})
useRemoveMember == Refreshing("members", {orgKeys.members})
useInvites == Query("invites", orgKeys.invites)
useCreateInvite == Refreshing("invites", {orgKeys.invites})
useRevokeInvite == Refreshing("invites", {orgKeys.invites})
useTeams == Query("teams", orgKeys.teams)
useTeamStats == Query("teamStats", orgKeys.teams \o <<"team", "stats">>)
useCreateTeam == Refreshing("teams", {orgKeys.teams})
useTeam == Query("teams", orgKeys.teams \o <<"team">>)
useUpdateTeam == Refreshing("teams", {orgKeys.teams, orgKeys.teams \o <<"team">>})
useTeamMembers == Query("teamMembers", orgKeys.teams \o <<"team", "members">>)
useAddTeamMember == Refreshing("teamMembers", {orgKeys.teams \o <<"team", "members">>})
useRemoveTeamMember == Refreshing("teamMembers", {orgKeys.teams \o <<"team", "members">>})
useTeamProjects == Query("teamProjects", orgKeys.teams \o <<"team", "projects">>)
useLinkTeamProjects == Refreshing("teamProjects", {orgKeys.teams \o <<"team", "projects">>})
useUnlinkTeamProject == Refreshing("teamProjects", {orgKeys.teams \o <<"team", "projects">>})
useDeleteTeam == Refreshing("teams", {orgKeys.teams})
useSeatUsage == Query("seats", OrgKey(<<"billing", "seats">>))
useDataSubjectExport == Writes("none")
useRequestErasure == Writes("none")

\* use-rbac-audit-queries.ts
useRbacAuditLog == Query("rbacAudit", OrgKey(<<"rbac-audit", "filters">>))

\* use-roles-queries.ts
usePermissionCatalog == Query("permissions", OrgKey(<<"roles", "permissions">>))
useCustomRoles == Query("roles", rolesKey)
useCreateRole == Refreshing("roles", {rolesKey})
useDeleteRole == Refreshing("roles", {rolesKey})

\* use-runner-queries.ts
useRunnerScripts == Query("scripts", runnerKey)
useRunnerExecutions == Query("executions", OrgKey(<<"runner", "scripts", "s", "executions">>))
useCreateScript == Refreshing("scripts", {runnerKey})
useDeleteScript == Refreshing("scripts", {runnerKey})
useRunScript == Refreshing("executions", {OrgKey(<<"runner", "scripts", "s", "executions">>)})

\* use-scim-queries.ts
useScimStatus == Query("scimToken", scimKey)
useMintScimToken == Refreshing("scimToken", {scimKey})
useRevokeScimToken == Refreshing("scimToken", {scimKey})

\* use-sentry-queries.ts
useSentryIntakes == Query("sentryIntakes", sentryKey)
useCreateSentryIntake == Refreshing("sentryIntakes", {sentryKey})
useDeleteSentryIntake == Refreshing("sentryIntakes", {sentryKey})

\* use-sso-queries.ts
useSSOConnection == Query("sso", ssoKey)
useUpsertSSO == Refreshing("sso", {ssoKey})
useDeleteSSO == Refreshing("sso", {ssoKey})

\* use-type-level-queries.ts
useTypeLevels == Query("typeLevels", typeLevelsKey)
useSetTypeLevels == Refreshing("typeLevels", {typeLevelsKey})

\* use-webhook-queries.ts
useProjectWebhooks == Query("webhooks", webhookKeys.all)
useWebhookCatalog == Query("webhookCatalog", webhookKeys.catalog)
useCreateWebhook == Refreshing("webhooks", {webhookKeys.all})
useUpdateWebhook == Refreshing("webhooks", {webhookKeys.all})
useDeleteWebhook == Refreshing("webhooks", {webhookKeys.all})
useTestWebhook == Writes("none")

\* use-workflow-queries.ts
useWorkflowStatuses == [Query("workflow", workflowKeys.list) EXCEPT !.retries = "never"]
useCreateWorkflowStatus == Refreshing("workflow", {workflowKeys.list})
useUpdateWorkflowStatus == Refreshing("workflow", {workflowKeys.list})
useDeleteWorkflowStatus == Refreshing("workflow", {workflowKeys.list, workflowKeys.all})
useStatusItemCount == Query("itemCount", workflowKeys.all \o <<"status", "item-count">>)
useWorkflowTransitions == Query("workflowTransitions", workflowKeys.all \o <<"transitions">>)
useCreateWorkflowTransition ==
  Refreshing("workflowTransitions", {workflowKeys.all \o <<"transitions">>})
useDeleteWorkflowTransition ==
  Refreshing("workflowTransitions", {workflowKeys.all \o <<"transitions">>})
useTransitionConditions == Query("transitionConditions", workflowKeys.all \o <<"conditions">>)
useCreateTransitionCondition ==
  Refreshing("transitionConditions", {workflowKeys.all \o <<"conditions">>})
useDeleteTransitionCondition ==
  Refreshing("transitionConditions", {workflowKeys.all \o <<"conditions">>})

=============================================================================
