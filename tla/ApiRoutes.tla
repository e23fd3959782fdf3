----------------------------- MODULE ApiRoutes -----------------------------
(***************************************************************************)
(* What the API's handlers promise their callers: which references a       *)
(* request must carry and of which form, which fields it must send, which  *)
(* keys the answer has, and what the handler does to rows of which kind.   *)
(* Conditions on permissions and statuses belong to the other modules; the *)
(* organization is in every path and is left out.                          *)
(***************************************************************************)
EXTENDS Naturals, FiniteSets, TLC

\* A reference to a row of kind k: parsed as a UUID, looked up by slug, or either.
Id(k) == k :> {"id"}
Slug(k) == k :> {"name"}
Either(k) == k :> {"id", "name"}
NoRefs == [k \in {} |-> {}]

(* "may" are references checked only when sent; "takes" are fields read when *)
(* sent, every other field is dropped; "resets" are fields written whether   *)
(* they were sent or not; "rejects" are values validation refuses, "ignores" *)
(* those that are passed over as if they had not been sent; "quiet" are      *)
(* kinds whose row is not looked for when the request names it by UUID;  *)
(* a "paged" list is cut off; a "late" handler can fail after its write.     *)
Endpoint(refs, needs, gives) ==
  [refs |-> refs, may |-> NoRefs, needs |-> needs, takes |-> {}, resets |-> {},
   rejects |-> {}, ignores |-> {}, gives |-> gives, does |-> "read", on |-> "nothing", quiet |-> {},
   paged |-> FALSE, late |-> FALSE]

Lists(k, e) == [e EXCEPT !.does = "list", !.on = k]
Creates(k, e) == [e EXCEPT !.does = "create", !.on = k]
Writes(k, e) == [e EXCEPT !.does = "write", !.on = k]
Deletes(k, e) == [e EXCEPT !.does = "delete", !.on = k]
Optionally(refs, e) == [e EXCEPT !.may = refs]
Rejects(values, e) == [e EXCEPT !.rejects = values]
Takes(fields, e) == [e EXCEPT !.takes = fields]
Quiet(kinds, e) == [e EXCEPT !.quiet = kinds]

Changing == {"create", "write", "delete"}

-----------------------------------------------------------------------------
(* The keys of the rows in answers                                          *)

OrgKeys == {"id", "name", "slug", "plan", "created_at"}
ProjectKeys == {"id", "name", "slug", "description", "repo_url", "created_at"}
AppKeys == {"id", "name", "slug", "description", "repo_url", "created_at"}
EnvKeys == {"id", "name", "slug", "is_production", "sort_order", "created_at"}
FlagKeys == {"id", "key", "name", "flag_type", "category", "default_value",
             "description", "tags", "enabled", "updated_at"}
RuleKeys == {"id", "rule_type", "priority", "value", "percentage", "enabled"}
ResultKeys == {"flag_key", "enabled", "value", "reason"}
DeploymentKeys == {"id", "application_id", "environment_id", "strategy", "status",
                   "version", "traffic_percent", "created_at"}
ReleaseKeys == {"id", "name", "status", "description", "traffic_percent", "created_at"}
WebhookKeys == {"id", "name", "url", "events", "is_active", "retry_attempts",
                "timeout_seconds", "created_at", "updated_at"}
DeliveryKeys == {"id", "event_type", "status", "http_status", "response_body",
                 "attempt_count", "created_at", "sent_at", "error_message"}
SettingKeys == {"id", "key", "value", "updated_by", "updated_at"}
ApiKeyKeys == {"id", "name", "key_prefix", "scopes", "environment_ids", "created_at",
               "last_used_at", "expires_at"}
IntegrationKeys == {"id", "provider", "auth_mode", "enabled", "created_at"}

-----------------------------------------------------------------------------
(* entities/handler.go                                                      *)

createOrg == Creates("org", Endpoint(NoRefs, {"name", "slug"}, OrgKeys))
listOrgs == Lists("org", Endpoint(NoRefs, {}, {"organizations", "hint"} \cup OrgKeys))
listProjects == Lists("project", Endpoint(NoRefs, {}, {"projects"} \cup ProjectKeys))
createProject ==
  Creates("project", Takes({"description", "repo_url"},
    Endpoint(NoRefs, {"name", "slug"}, ProjectKeys)))
getProject == Endpoint(Slug("project"), {}, ProjectKeys)
deleteProject == Deletes("project", Endpoint(Slug("project"), {}, {}))
listApps == Lists("app", Endpoint(Slug("project"), {}, {"applications"} \cup AppKeys))
listAppsByOrg == Lists("app", Endpoint(NoRefs, {}, {"applications", "project"} \cup AppKeys))
createApp ==
  Creates("app", Takes({"description", "repo_url"},
    Endpoint(Slug("project"), {"name", "slug"}, AppKeys)))
getApp == Endpoint(Slug("project") @@ Slug("app"), {}, AppKeys)
deleteApp == Deletes("app", Endpoint(Slug("project") @@ Slug("app"), {}, {}))
listOrgEnvironments == Lists("env", Endpoint(NoRefs, {}, {"environments"} \cup EnvKeys))
updateEnvironment == Writes("env", Endpoint(Slug("env"), {}, EnvKeys))
deleteEnvironment == Deletes("env", Endpoint(Slug("env"), {}, {"deleted"}))

EntityRoutes ==
  "POST /orgs" :> createOrg @@ "GET /orgs" :> listOrgs @@
  "GET /projects" :> listProjects @@ "POST /projects" :> createProject @@
  "GET /projects/:slug" :> getProject @@ "DELETE /projects/:slug" :> deleteProject @@
  "GET /projects/:slug/apps" :> listApps @@ "POST /projects/:slug/apps" :> createApp @@
  "GET /projects/:slug/apps/:slug" :> getApp @@ "GET /apps" :> listAppsByOrg @@
  "DELETE /projects/:slug/apps/:slug" :> deleteApp @@
  "GET /environments" :> listOrgEnvironments @@ "PUT /environments/:slug" :> updateEnvironment @@
  "DELETE /environments/:slug" :> deleteEnvironment

-----------------------------------------------------------------------------
(* flags/handler.go                                                         *)

createFlag ==
  Creates("flag", Rejects({"flag_type number", "category release"},
    Takes({"category", "default_value", "tags"}, Optionally(Id("env") @@ Id("app"),
      Endpoint(Either("project"), {"key", "name", "flag_type"}, FlagKeys)))))
listFlags ==
  [Lists("flag", Quiet({"project"}, Endpoint(Either("project"), {}, {"flags"} \cup FlagKeys)))
   EXCEPT !.paged = TRUE]
getFlag == Endpoint(Id("flag"), {}, FlagKeys)
\* An empty text counts as not sent.
updateFlag ==
  [Writes("flag", Takes({"default_value", "description", "category"},
     Endpoint(Id("flag"), {}, FlagKeys)))
   EXCEPT !.ignores = {"default_value empty", "description empty"}]
archiveFlag == Writes("flag", Endpoint(Id("flag"), {}, {"status"}))
hardDeleteFlag == Deletes("flag", Endpoint(Id("flag"), {}, {}))
toggleFlag == Writes("flag", Takes({"enabled"}, Endpoint(Id("flag"), {}, {"enabled"})))
evaluate ==
  Takes({"context"}, Endpoint(Either("project") @@ Either("env"), {"flag_key"}, ResultKeys))
listRules ==
  Lists("rule", Quiet({"flag"}, Endpoint(Id("flag"), {}, {"rules"} \cup RuleKeys)))
addRule ==
  Creates("rule", Takes({"priority", "value", "percentage"},
    Endpoint(Id("flag"), {"rule_type"}, RuleKeys)))
updateRule ==
  Writes("rule", Takes({"priority", "value", "percentage"},
    Endpoint(Id("flag") @@ Id("rule"), {"rule_type"}, RuleKeys)))
deleteRule ==
  Deletes("rule", Quiet({"flag"}, Endpoint(Id("flag") @@ Id("rule"), {}, {})))
setRuleEnvState ==
  Writes("rule", Quiet({"flag"}, Takes({"enabled"},
    Endpoint(Id("flag") @@ Id("rule") @@ Id("env"), {}, {"enabled"}))))
\* The row is stored whole: what the request left out is FALSE or empty.
setFlagEnvState ==
  [Writes("flag", Takes({"enabled", "value"},
     Endpoint(Id("flag") @@ Id("env"), {}, {"enabled", "value"})))
   EXCEPT !.resets = {"enabled", "value"}]

FlagRoutes ==
  "POST /flags" :> createFlag @@ "GET /flags" :> listFlags @@
  "POST /flags/evaluate" :> evaluate @@ "GET /flags/:id" :> getFlag @@
  "PUT /flags/:id" :> updateFlag @@ "POST /flags/:id/archive" :> archiveFlag @@
  "DELETE /flags/:id" :> hardDeleteFlag @@ "POST /flags/:id/toggle" :> toggleFlag @@ "GET /flags/:id/rules" :> listRules @@
  "POST /flags/:id/rules" :> addRule @@ "PUT /flags/:id/rules/:id" :> updateRule @@
  "DELETE /flags/:id/rules/:id" :> deleteRule @@
  "PUT /flags/:id/rules/:id/environments/:id" :> setRuleEnvState @@
  "PUT /flags/:id/environments/:id" :> setFlagEnvState

-----------------------------------------------------------------------------
(* deploy/handler.go, rollback/handler.go, releases/handler.go              *)

\* A deployment that the platform has already made is recorded: any strategy will
\* do, and no rollout is attached.
recordDeployment ==
  Creates("deployment", Takes({"strategy", "mode", "flag_test_key"},
    Endpoint(Id("app") @@ Id("env"), {"artifact", "version"}, DeploymentKeys)))
\* The strategies are canary, blue_green and rolling (Deployment.Validate).  The
\* rollout is attached after the deployment is stored: a failure to attach is
\* answered as the failure of the whole request.
createDeployment ==
  [Rejects({"strategy blue-green"}, Takes({"rollout", "apply_immediately"} \cup recordDeployment.takes,
     [recordDeployment EXCEPT !.needs = @ \cup {"strategy"}]))
   EXCEPT !.late = TRUE]
listDeployments ==
  Lists("deployment", Quiet({"app", "env"}, Optionally(Id("env"),
    Endpoint(Id("app"), {}, {"deployments"} \cup DeploymentKeys))))
getDeployment == Endpoint(Id("deployment"), {}, DeploymentKeys)
promoteDeployment == Writes("deployment", Endpoint(Id("deployment"), {}, {"status"}))
pauseDeployment == Writes("deployment", Endpoint(Id("deployment"), {}, {"status"}))
resumeDeployment == Writes("deployment", Endpoint(Id("deployment"), {}, {"status"}))
advanceDeployment == Writes("deployment", Endpoint(Id("deployment"), {}, {"status"}))
listPhases ==
  Lists("phase", Quiet({"deployment"}, Endpoint(Id("deployment"), {}, {"phases"})))
triggerRollback ==
  Writes("deployment", Endpoint(Id("deployment"), {"reason"}, {"status", "deployment_id"}))

createRelease ==
  Creates("release", Takes({"description", "session_sticky"},
    Endpoint(Id("app"), {"name"}, ReleaseKeys)))
listReleases ==
  Lists("release", Quiet({"app"}, Endpoint(Id("app"), {}, {"releases"} \cup ReleaseKeys)))
getRelease == Endpoint(Id("release"), {}, ReleaseKeys)
promoteRelease == Writes("release", Endpoint(Id("release"), {"traffic_percent"}, {"status"}))
deleteRelease == Deletes("release", Endpoint(Id("release"), {}, {}))

DeployRoutes ==
  "POST /deployments" :> createDeployment @@
  "POST /deployments (record)" :> recordDeployment @@ "GET /deployments" :> listDeployments @@
  "GET /deployments/:id" :> getDeployment @@
  "POST /deployments/:id/promote" :> promoteDeployment @@
  "POST /deployments/:id/pause" :> pauseDeployment @@
  "POST /deployments/:id/resume" :> resumeDeployment @@
  "POST /deployments/:id/advance" :> advanceDeployment @@
  "GET /deployments/:id/phases" :> listPhases @@
  "POST /deployments/:id/rollback" :> triggerRollback

ReleaseRoutes ==
  "POST /applications/:id/releases" :> createRelease @@
  "GET /applications/:id/releases" :> listReleases @@
  "GET /releases/:id" :> getRelease @@ "POST /releases/:id/promote" :> promoteRelease @@
  "DELETE /releases/:id" :> deleteRelease

-----------------------------------------------------------------------------
(* webhooks, settings, auth/apikey, integrations/deploys                    *)

CreateWebhook ==
  Creates("webhook", Takes({"name", "events", "retry_attempts", "timeout_seconds"}, Optionally(Id("project"),
    Endpoint(NoRefs, {"url"}, {"webhook"} \cup WebhookKeys))))
\* A project that is no UUID is passed over.
ListWebhooks ==
  Lists("webhook", Quiet({"project"}, Takes({"is_active", "events"}, Optionally(Id("project"),
    Endpoint(NoRefs, {}, {"webhooks", "total"} \cup WebhookKeys)))))
GetWebhook == Endpoint(Id("webhook"), {}, {"webhook"} \cup WebhookKeys)
UpdateWebhook ==
  Writes("webhook", Takes({"name", "url", "events", "is_active", "retry_attempts", "timeout_seconds"},
    Endpoint(Id("webhook"), {}, {"webhook"} \cup WebhookKeys)))
DeleteWebhook == Deletes("webhook", Endpoint(Id("webhook"), {}, {"message"}))
TestWebhook ==
  Creates("delivery", Rejects({"event_type unknown"},
    Takes({"payload"}, Endpoint(Id("webhook"), {"event_type"},
      {"delivery", "success", "error"} \cup DeliveryKeys))))
GetWebhookDeliveries ==
  Lists("delivery", Takes({"status"},
    Endpoint(Id("webhook"), {}, {"deliveries", "total"} \cup DeliveryKeys)))

WebhookRoutes ==
  "POST /webhooks" :> CreateWebhook @@ "GET /webhooks" :> ListWebhooks @@
  "GET /webhooks/:id" :> GetWebhook @@ "PUT /webhooks/:id" :> UpdateWebhook @@
  "DELETE /webhooks/:id" :> DeleteWebhook @@ "POST /webhooks/:id/test" :> TestWebhook @@
  "GET /webhooks/:id/deliveries" :> GetWebhookDeliveries

listSettings ==
  Lists("setting", Quiet({"target"},
    Endpoint(Id("target"), {"scope"}, {"settings"} \cup SettingKeys)))
setSetting ==
  Writes("target", Quiet({"target"},
    Endpoint(Id("target"), {"scope", "key", "value"}, SettingKeys)))
deleteSetting == Deletes("setting", Endpoint(Id("setting"), {}, {}))

SettingRoutes ==
  "GET /settings" :> listSettings @@ "PUT /settings" :> setSetting @@
  "DELETE /settings/:id" :> deleteSetting

createAPIKey ==
  Creates("apikey", Optionally(Id("project") @@ Id("app") @@ Id("env"),
    Endpoint(NoRefs, {"name", "scopes"}, {"api_key", "plaintext_key"})))
listAPIKeys == Lists("apikey", Endpoint(NoRefs, {}, {"api_keys"} \cup ApiKeyKeys))
revokeAPIKey == Writes("apikey", Endpoint(Id("apikey"), {}, {"status"}))

ApiKeyRoutes ==
  "POST /api-keys" :> createAPIKey @@ "GET /api-keys" :> listAPIKeys @@
  "DELETE /api-keys/:id" :> revokeAPIKey

createIntegration ==
  Creates("integration", Rejects({"provider_config text"}, Takes({"auth_mode", "provider_config"},
    Endpoint(Id("app") @@ Id("env"), {"provider", "webhook_secret"}, IntegrationKeys))))
listIntegrations ==
  Lists("integration", Quiet({"app"},
    Endpoint(Id("app"), {}, {"integrations"} \cup IntegrationKeys)))
\* The statement is answered alike whether or not it found the row.
deleteIntegration ==
  Deletes("integration", Quiet({"integration"}, Endpoint(Id("integration"), {}, {})))
listIntegrationEvents ==
  Lists("event", Quiet({"integration"}, Endpoint(Id("integration"), {}, {"events"})))

IntegrationRoutes ==
  "POST /integrations/deploys" :> createIntegration @@
  "GET /integrations/deploys" :> listIntegrations @@
  "DELETE /integrations/deploys/:id" :> deleteIntegration @@
  "GET /integrations/deploys/:id/events" :> listIntegrationEvents

-----------------------------------------------------------------------------
(* analytics/handler.go                                                     *)

\* Every figure is counted in a project and an environment nobody looks for.
Figures(gives) ==
  Quiet({"project", "env"}, Takes({"time_range"},
    Endpoint(Id("project") @@ Id("env"), {}, gives \cup {"project_id", "environment_id"})))

getAnalyticsSummary == Figures({"total_flags", "total_evaluations", "time_range"})
getFlagStats == Figures({"flag_stats", "time_range"})
getFlagUsage == Figures({"flag_key", "total_evaluations"})
\* The query selects by a column that deployments no longer have.
getDeploymentStats ==
  Rejects({"anything"}, Takes({"time_range"},
    Endpoint(Id("project"), {}, {"deployment_stats", "time_range"})))
getSystemHealth == Endpoint(NoRefs, {}, {"timestamp", "active_connections"})
exportAnalytics ==
  Quiet({"project"}, Rejects({"format csv"}, Takes({"format"},
    Endpoint(Id("project"), {"start_date", "end_date"}, {"data", "count", "project_id"}))))

AnalyticsRoutes ==
  "GET /analytics/summary" :> getAnalyticsSummary @@
  "GET /analytics/flags/stats" :> getFlagStats @@
  "GET /analytics/flags/:key/usage" :> getFlagUsage @@
  "GET /analytics/deployments/stats" :> getDeploymentStats @@
  "GET /analytics/health" :> getSystemHealth @@
  "GET /analytics/admin/export" :> exportAnalytics

-----------------------------------------------------------------------------
(* rollout/handler.go, registry/, currentstate/                             *)

\* The strategy routes exist under an organization, a project and an application.
resolveLeaf(e) == Optionally(Slug("project") @@ Slug("app"), e)

listStrategies == Lists("strategy", resolveLeaf(Endpoint(NoRefs, {}, {"items"})))
getStrategy == resolveLeaf(Endpoint(Slug("strategy"), {}, {"name", "steps"}))
importStrategy == Writes("nothing", resolveLeaf(Endpoint(NoRefs, {"yaml"}, {"name"})))
exportStrategy == resolveLeaf(Endpoint(Slug("strategy"), {}, {}))
deleteStrategy == Deletes("strategy", resolveLeaf(Endpoint(Slug("strategy"), {}, {})))
listPolicies == Lists("policy", resolveLeaf(Endpoint(NoRefs, {}, {"items"})))
putPolicy ==
  Writes("nothing", Rejects({"policy empty"}, Takes({"enabled", "environment", "target_type"},
    resolveLeaf(Endpoint(NoRefs, {"policy"}, {"policy"})))))
listDefaults == Lists("default", resolveLeaf(Endpoint(NoRefs, {}, {"items"})))
putDefault ==
  Writes("nothing", Takes({"environment", "target_type"},
    resolveLeaf(Endpoint(Slug("strategy"), {}, {"id"}))))

StrategyRoutes ==
  "GET /strategies" :> listStrategies @@ "GET /strategies/:name" :> getStrategy @@
  "POST /strategies/import" :> importStrategy @@
  "GET /strategies/:name/export" :> exportStrategy @@
  "DELETE /strategies/:name" :> deleteStrategy @@ "GET /rollout-policy" :> listPolicies @@
  "PUT /rollout-policy" :> putPolicy @@ "GET /strategy-defaults" :> listDefaults @@
  "PUT /strategy-defaults" :> putDefault

listRollouts == Lists("rollout", Takes({"status"}, Endpoint(NoRefs, {}, {"items"})))
getRollout == Endpoint(Id("rollout"), {}, {"id", "status"})
\* The two controls that end a phase early ask for a reason.
runControl(needs) ==
  Writes("rollout", Takes({"reason"}, Endpoint(Id("rollout"), needs, {"ok"})))
listGroups == Lists("group", Endpoint(NoRefs, {}, {"items"}))
createGroup ==
  Creates("group", Takes({"coordination_policy"}, Endpoint(NoRefs, {"name"}, {"id"})))
getGroup == Endpoint(Id("group"), {}, {"group", "members"})
attachGroup == Writes("rollout", Endpoint(Id("group") @@ Id("rollout"), {}, {"ok"}))

RolloutRoutes ==
  "GET /rollouts" :> listRollouts @@ "GET /rollouts/:id" :> getRollout @@
  "POST /rollouts/:id/pause" :> runControl({}) @@
  "POST /rollouts/:id/resume" :> runControl({}) @@
  "POST /rollouts/:id/promote" :> runControl({}) @@
  "POST /rollouts/:id/approve" :> runControl({}) @@
  "POST /rollouts/:id/rollback" :> runControl({"reason"}) @@
  "POST /rollouts/:id/force-promote" :> runControl({"reason"}) @@
  "GET /rollout-groups" :> listGroups @@ "POST /rollout-groups" :> createGroup @@
  "GET /rollout-groups/:id" :> getGroup @@ "POST /rollout-groups/:id/attach" :> attachGroup

listAgents == Lists("agent", Quiet({"app"}, Endpoint(Id("app"), {}, {"agents"})))
listHeartbeats == Lists("heartbeat", Quiet({"agent"}, Endpoint(Id("agent"), {}, {"heartbeats"})))
getCurrentState ==
  Quiet({"app"}, Endpoint(Id("app") @@ Id("env"), {}, {"current_deployment", "health"}))

AgentRoutes ==
  "GET /applications/:id/agents" :> listAgents @@ "GET /agents/:id/heartbeats" :> listHeartbeats @@
  "GET /applications/:id/environments/:id/current-state" :> getCurrentState

-----------------------------------------------------------------------------
Routes ==
  EntityRoutes @@ FlagRoutes @@ DeployRoutes @@ ReleaseRoutes @@ WebhookRoutes @@
  SettingRoutes @@ ApiKeyRoutes @@ IntegrationRoutes @@ AnalyticsRoutes @@
  StrategyRoutes @@ RolloutRoutes @@ AgentRoutes
=============================================================================
