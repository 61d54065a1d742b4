---- MODULE WebKeys ----
(***************************************************************************)
(* The keys under which the web client caches its queries, and the two ways *)
(* of writing that its hooks share.  The names are the source's.           *)
(***************************************************************************)
EXTENDS CacheTerms

OrgKey(rest) == <<"orgs", "o">> \o rest
ProjectKey(rest) == OrgKey(<<"projects", "p">> \o rest)
TaskKey(rest) == OrgKey(<<"tasks", "t">> \o rest)

(* queryClient.clear(): the empty key is a prefix of every key. *)
Clears == [Writes("session") EXCEPT !.removes = {<<>>}]

(* lib/optimistic.ts: guess the targets, with their fetches cancelled; roll back on an error. *)
Optimistic_NeverSettles(resource, targets, invalidated) ==
  [Writes(resource) EXCEPT !.cancels = targets, !.guesses = targets]
Optimistic(resource, targets, invalidated) ==
  [Writes(resource) EXCEPT !.cancels = targets, !.guesses = targets, !.onSettled = invalidated]

(* The key of each cached query: one workspace, project, team, task, note, ... stands for all. *)
accessTokenKeys == [all |-> <<"personal-access-tokens">>]
activityKeys == [all |-> OrgKey(<<"activity">>), list |-> OrgKey(<<"activity", "org">>)]
approvalKey == TaskKey(<<"approvals">>)
authKeys == [all |-> <<"auth">>, me |-> <<"auth", "me">>]
automationKeys == [all |-> OrgKey(<<"automations">>)]
domainKey == OrgKey(<<"domains">>)
driveKeys == [all |-> OrgKey(<<"drive">>), files |-> OrgKey(<<"drive", "files">>),
              folders |-> OrgKey(<<"drive", "folders">>), detail |-> OrgKey(<<"drive", "f">>)]
editionKey == OrgKey(<<"edition">>)
emailIntakeKey == ProjectKey(<<"email-intake">>)
hooksKey == OrgKey(<<"org-webhooks">>)
eventsKey == OrgKey(<<"outbox-events">>)
favoriteKeys == [all |-> OrgKey(<<"favorites">>)]
gitKey == ProjectKey(<<"git">>)
idpSyncKey == OrgKey(<<"idp-sync", "mappings">>)
integrationKeys == [slack |-> OrgKey(<<"integrations", "slack">>),
                    slackChannels |-> OrgKey(<<"integrations", "slack", "channels">>)]
ldapKey == OrgKey(<<"ldap">>)
connectorKey == OrgKey(<<"mcp-connectors">>)
meetingKeys == [all |-> OrgKey(<<"meetings">>), list |-> OrgKey(<<"meetings", "list">>),
                detail |-> OrgKey(<<"meetings", "m">>), share |-> OrgKey(<<"meetings", "m", "share">>),
                transcript |-> OrgKey(<<"meetings", "m", "transcript">>)]
noteKeys == [all |-> OrgKey(<<"notes">>), orgList |-> OrgKey(<<"notes", "list", "org">>),
             list |-> OrgKey(<<"notes", "list", "p">>), detail |-> OrgKey(<<"notes", "n">>)]
notificationKeys == [all |-> OrgKey(<<"notifications">>), list |-> OrgKey(<<"notifications", "list">>),
                     unreadCount |-> OrgKey(<<"notifications", "unread-count">>)]
prefsKey == OrgKey(<<"notification-prefs">>)
oauthAppsKey == <<"oauth", "apps">>
oauthKeys == [consent |-> <<"oauth", "consent", "r">>]
grantKeys == [all |-> <<"oauth", "grants">>]
orgKeys == [all |-> <<"orgs">>, lists |-> <<"orgs", "list">>, detail |-> OrgKey(<<>>),
            members |-> OrgKey(<<"members">>), invites |-> OrgKey(<<"invites">>),
            teams |-> OrgKey(<<"teams">>)]
projectKeys == [all |-> OrgKey(<<"projects">>), lists |-> OrgKey(<<"projects", "list">>),
                browse |-> OrgKey(<<"projects", "browse">>), deleted |-> OrgKey(<<"projects", "deleted">>),
                detail |-> ProjectKey(<<>>), members |-> ProjectKey(<<"members">>),
                subscription |-> ProjectKey(<<"subscription">>)]
statesKey == OrgKey(<<"project-states">>)
projectTemplatesKey == OrgKey(<<"project-templates">>)
propertyKeys == [all |-> ProjectKey(<<"properties">>)]
propertyTemplatesKey == OrgKey(<<"property-templates">>)
recurringKey == ProjectKey(<<"recurring-tasks">>)
relationTypeKey == OrgKey(<<"relation-types">>)
retrospectiveKey == ProjectKey(<<"retrospectives">>)
rolesKey == OrgKey(<<"roles">>)
runnerKey == OrgKey(<<"runner", "scripts">>)
scimKey == OrgKey(<<"scim", "token">>)
sentryKey == ProjectKey(<<"sentry">>)
ssoKey == OrgKey(<<"sso">>)
taskKeys == [all |-> OrgKey(<<"tasks">>), byProject |-> OrgKey(<<"tasks", "project", "p">>),
             detail |-> TaskKey(<<>>), subtasks |-> TaskKey(<<"subtasks">>),
             relations |-> TaskKey(<<"relations">>), comments |-> TaskKey(<<"comments">>),
             activity |-> TaskKey(<<"activity">>), links |-> TaskKey(<<"links">>),
             noteLinks |-> TaskKey(<<"note-links">>), subscribers |-> TaskKey(<<"subscribers">>)]
viewsKey == OrgKey(<<"server-views">>)
templateKeys == [all |-> ProjectKey(<<"templates">>)]
typeLevelsKey == OrgKey(<<"work-item-type-levels">>)
vocabularyKeys == [all |-> OrgKey(<<"vocabulary">>)]
webhookKeys == [all |-> ProjectKey(<<"webhooks">>), catalog |-> ProjectKey(<<"webhook-catalog">>)]
workItemUpdateKeys == [all |-> TaskKey(<<"updates">>)]
workflowKeys == [all |-> OrgKey(<<"workflow">>), list |-> OrgKey(<<"workflow", "team">>)]
worklogKeys == [all |-> TaskKey(<<"worklogs">>)]

=============================================================================
