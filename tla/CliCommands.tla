---------------------------- MODULE CliCommands ----------------------------
(***************************************************************************)
(* The commands of the command line: for each of them, and each choice of  *)
(* its options, the requests it sends, in order. A command named by the    *)
(* user as "n" first looks up the UUIDs the API wants. The organization is *)
(* given, and so is every option cobra marks as required.                  *)
(***************************************************************************)
EXTENDS ApiRoutes, Sequences

\* How a request refers to a row: the name the user typed, the UUID an earlier
\* request of the command found, or a UUID the user typed.
named(k) == k :> "name"
found(k) == k :> "found"
given(k) == k :> "given"

Call(route, refs) ==
  [route |-> route, refs |-> refs, sends |-> {}, says |-> {}, learns |-> {},
   shows |-> {}, forgiven |-> FALSE]
Sends(fields, r) == [r EXCEPT !.sends = fields]
Says(values, r) == [r EXCEPT !.says = values]
Learns(k, r) == [r EXCEPT !.learns = {k}]
Shows(keys, r) == [r EXCEPT !.shows = keys]
\* The command goes on when the request fails.
Forgiven(r) == [r EXCEPT !.forgiven = TRUE]

\* The command stops with a complaint about its own arguments.
Usage == <<Call("usage", NoRefs)>>
When(c, plan) == IF c THEN plan ELSE <<>>
Check(c, plan) == IF c THEN plan ELSE Usage
WithRefs(c, refs) == IF c THEN refs ELSE NoRefs

Command(name, options, plan(_)) ==
  {[name |-> name, opts |-> o, plan |-> plan(o)] : o \in SUBSET options}

-----------------------------------------------------------------------------
(* resolve.go                                                               *)

resolveProjectID == <<Learns("project", Call("GET /projects/:slug", named("project")))>>
resolveEnvID == <<Learns("env", Call("GET /environments", NoRefs))>>
resolveFlagID == <<Learns("flag", Call("GET /flags", found("project")))>>
AppPath == named("project") @@ named("app")
resolveAppID == <<Learns("app", Call("GET /projects/:slug/apps/:slug", AppPath))>>
resolveReleaseID ==
  <<Learns("release", Call("GET /applications/:id/releases", found("app")))>>

\* A slug or a UUID; projects are given by slug here.
resolveProjectInput == resolveProjectID
resolveAppInput(o) == When("app id" \notin o, resolveAppID)
resolveEnvInputs(o) == When("env id" \notin o, resolveEnvID)
Input(k, o, id) == k :> (IF id \in o THEN "given" ELSE "found")

-----------------------------------------------------------------------------
(* flags.go, flags_rules.go, flags_envstate.go                              *)

resolveFlagFromArgs == resolveProjectID \o resolveFlagID

\* Mutant of runFlagsCreate: the environment is sent as it was typed.
X_runFlagsCreate(o) ==
  resolveProjectID \o
  <<Sends({"key", "name", "flag_type", "category"},
      Call("POST /flags", found("project") @@ WithRefs("env" \in o, named("env"))))>>

runFlagsCreate(o) ==
  Check("type number" \notin o, resolveProjectID \o When("env" \in o, resolveEnvID) \o
    <<Sends({"key", "name", "flag_type", "category"} \cup (o \cap {"tags"}),
        Says(o \cap {"category release"},
          Call("POST /flags", found("project") @@ WithRefs("env" \in o, found("env")))))>>)
runFlagsList(o) ==
  resolveProjectID \o
  <<Sends(o, Shows({"flags", "key", "flag_type", "category", "default_value", "tags", "updated_at"},
      Call("GET /flags", found("project"))))>>
runFlagsGet(o) ==
  resolveFlagFromArgs \o
  <<Shows({"flag_type", "default_value", "description"}, Call("GET /flags/:id", found("flag")))>>
InEnv == found("flag") @@ found("env")
runFlagsToggle(o) ==
  Check(Cardinality(o \cap {"on", "off"}) = 1, resolveFlagFromArgs \o
    (IF "env" \in o
     THEN resolveEnvID \o <<Sends({"enabled"}, Call("PUT /flags/:id/environments/:id", InEnv))>>
     ELSE <<Sends({"enabled"}, Call("POST /flags/:id/toggle", found("flag")))>>))
\* A text may be given as empty.
runFlagsUpdate(o) ==
  LET empty == o \cap {"default_value empty", "description empty"}
      texts == (o \ empty) \cup (IF "default_value empty" \in o THEN {"default_value"} ELSE {})
                \cup (IF "description empty" \in o THEN {"description"} ELSE {})
  IN  resolveFlagFromArgs \o
      Check(o # {}, <<Sends(texts, Says(empty, Call("PUT /flags/:id", found("flag"))))>>)
runFlagsEvaluate(o) ==
  resolveProjectID \o When("env" \in o, resolveEnvID) \o
  <<Sends({"flag_key", "context"}, Shows({"value", "reason"},
      Call("POST /flags/evaluate", found("project") @@ WithRefs("env" \in o, found("env")))))>>
runFlagsArchive(o) ==
  resolveFlagFromArgs \o <<Call("POST /flags/:id/archive", found("flag"))>>

FlagCommands ==
  Command("flags create", {"env", "type number", "category release", "tags"}, runFlagsCreate) \cup
  Command("flags list", {"category", "archived"}, runFlagsList) \cup
  Command("flags get", {}, runFlagsGet) \cup
  Command("flags toggle", {"env", "on", "off"}, runFlagsToggle) \cup
  Command("flags update", {"default_value", "default_value empty", "description empty", "category",
                           "tags"}, runFlagsUpdate) \cup
  Command("flags evaluate", {"env"}, runFlagsEvaluate) \cup
  Command("flags archive", {}, runFlagsArchive)

TheRule == found("flag") @@ given("rule")
runFlagsRulesList(o) ==
  resolveFlagFromArgs \o
  <<Shows({"rules", "id", "rule_type", "priority", "value", "enabled"},
      Call("GET /flags/:id/rules", found("flag")))>>
runFlagsRulesAdd(o) ==
  resolveFlagFromArgs \o
  <<Sends({"rule_type", "priority", "value", "enabled"} \cup o,
      Shows({"id"}, Call("POST /flags/:id/rules", found("flag"))))>>
runFlagsRulesUpdate(o) ==
  resolveFlagFromArgs \o
  Check(o # {}, <<Sends(o, Call("PUT /flags/:id/rules/:id", TheRule))>>)
runFlagsRulesDelete(o) ==
  resolveFlagFromArgs \o <<Call("DELETE /flags/:id/rules/:id", TheRule)>>
runFlagsRulesSetEnvState(o) ==
  resolveFlagFromArgs \o
  Check(Cardinality(o \cap {"on", "off"}) = 1 /\ "env" \in o, resolveEnvID \o
    <<Sends({"enabled"},
        Call("PUT /flags/:id/rules/:id/environments/:id", TheRule @@ found("env")))>>)

\* The conflict of --enabled and --disabled is noticed after the look-ups.
runFlagsSetValue(o) ==
  resolveFlagFromArgs \o
  Check("env" \in o, resolveEnvID \o
    LET fields == (o \cap {"value"}) \cup
                  (IF {"enabled", "disabled"} \cap o # {} THEN {"enabled"} ELSE {})
    IN  Check(fields # {} /\ ~({"enabled", "disabled"} \subseteq o),
          <<Sends(fields, Call("PUT /flags/:id/environments/:id", InEnv))>>))

RuleCommands ==
  Command("flags rules list", {}, runFlagsRulesList) \cup
  Command("flags rules add", {"percentage"}, runFlagsRulesAdd) \cup
  Command("flags rules update", {"priority"}, runFlagsRulesUpdate) \cup
  Command("flags rules delete", {}, runFlagsRulesDelete) \cup
  Command("flags rules set-env-state", {"env", "on", "off"}, runFlagsRulesSetEnvState) \cup
  Command("flags set-value", {"env", "value", "enabled", "disabled"}, runFlagsSetValue)

-----------------------------------------------------------------------------
(* deploy.go, releases.go                                                   *)

\* An application given by its UUID is looked up as if that were its slug.
DeployApp(o) ==
  IF "app id" \in o
  THEN <<Learns("app", Call("GET /projects/:slug/apps/:slug", named("project") @@ given("app")))>>
  ELSE resolveAppID

\* A strategy of a name that is not built in goes into the rollout, as does
\* --apply-immediately; a built-in one is sent as it was typed.
runDeployCreate(o) ==
  Check("env" \in o, DeployApp(o) \o resolveEnvID \o
    <<Sends({"version", "artifact", "strategy"} \cup (o \cap {"rollout", "apply_immediately"})
              \cup (IF "record" \in o THEN {"mode"} ELSE {}),
        Says(IF "rollout" \in o THEN {} ELSE o \cap {"strategy blue-green"},
          Shows({"id", "status"},
            Call(IF "record" \in o THEN "POST /deployments (record)" ELSE "POST /deployments",
              found("app") @@ found("env")))))>>)
\* With --watch the request is sent again and again.
runDeployStatus(o) ==
  LET printStatus ==
        Shows({"id", "status", "version", "application_id", "environment_id", "strategy",
               "traffic_percent", "created_at"}, Call("GET /deployments/:id", given("deployment")))
  IN  <<printStatus>> \o When("watch" \in o, <<printStatus>>)
runDeployPromote(o) ==
  <<Shows({"status"}, Call("POST /deployments/:id/promote", given("deployment")))>>
runDeployRollback(o) ==
  <<Sends({"reason"}, Shows({"deployment_id", "status"},
      Call("POST /deployments/:id/rollback", given("deployment"))))>>
runDeployPause(o) == <<Call("POST /deployments/:id/pause", given("deployment"))>>
runDeployResume(o) == <<Call("POST /deployments/:id/resume", given("deployment"))>>
runDeployList(o) ==
  DeployApp(o) \o When("env" \in o, resolveEnvID) \o
  <<Shows({"deployments", "id", "version", "strategy", "status", "traffic_percent", "created_at"},
      Call("GET /deployments", found("app") @@ WithRefs("env" \in o, found("env"))))>>

DeployCommands ==
  Command("deploy create", {"env", "app id", "record", "strategy blue-green", "rollout",
                            "apply_immediately"}, runDeployCreate) \cup
  Command("deploy status", {"watch"}, runDeployStatus) \cup
  Command("deploy promote", {}, runDeployPromote) \cup
  Command("deploy rollback", {}, runDeployRollback) \cup
  Command("deploy pause", {}, runDeployPause) \cup
  Command("deploy resume", {}, runDeployResume) \cup
  Command("deploy list", {"env", "app id"}, runDeployList)

runReleasesCreate(o) ==
  resolveAppID \o
  <<Sends({"name"} \cup o, Shows({"id", "name", "status"},
      Call("POST /applications/:id/releases", found("app"))))>>
runReleasesList(o) ==
  resolveAppID \o
  <<Shows({"releases", "name", "status", "created_at", "traffic_percent"},
      Call("GET /applications/:id/releases", found("app")))>>
runReleasesGet(o) ==
  resolveAppID \o resolveReleaseID \o
  <<Shows({"name", "status", "description", "created_at", "traffic_percent"},
      Call("GET /releases/:id", found("release")))>>
\* Zero percent is no value to the handler's binding.
runReleasesPromote(o) ==
  resolveAppID \o resolveReleaseID \o
  <<Sends(IF "zero percent" \in o THEN {} ELSE {"traffic_percent"},
      Shows({"status"}, Call("POST /releases/:id/promote", found("release"))))>>

ReleaseCommands ==
  Command("releases create", {"description", "session_sticky"}, runReleasesCreate) \cup
  Command("releases list", {}, runReleasesList) \cup
  Command("releases get", {}, runReleasesGet) \cup
  Command("releases promote", {"zero percent"}, runReleasesPromote)

-----------------------------------------------------------------------------
(* webhooks.go                                                              *)

TheWebhook == given("webhook")
\* Whatever the user types as the project is sent as its UUID.
runWebhooksCreate(o) ==
  <<Sends({"name", "url", "events", "retry_attempts", "timeout_seconds"},
      Shows({"webhook", "id", "name", "url"}, Call("POST /webhooks", IF "project" \in o THEN named("project")
                                   ELSE WithRefs("project id" \in o, given("project")))))>>
runWebhooksList(o) ==
  <<Sends((o \cap {"is_active", "events"}) \cup (IF "project" \in o THEN {"project_id"} ELSE {}),
      Shows({"webhooks", "id", "name", "url", "events", "is_active", "created_at"},
        Call("GET /webhooks", WithRefs("project id" \in o, given("project")))))>>
runWebhooksGet(o) ==
  <<Shows({"webhook", "id", "name", "url", "events", "is_active", "retry_attempts",
           "timeout_seconds", "created_at", "updated_at"}, Call("GET /webhooks/:id", TheWebhook))>>
runWebhooksUpdate(o) ==
  Check(o # {}, <<Sends(o, Call("PUT /webhooks/:id", TheWebhook))>>)
runWebhooksDelete(o) ==
  When("confirm" \in o, <<Call("DELETE /webhooks/:id", TheWebhook)>>)
runWebhooksTest(o) ==
  <<Sends({"event_type", "payload"}, Says(o, Shows({"success", "error", "delivery",
      "http_status", "response_body"}, Call("POST /webhooks/:id/test", TheWebhook))))>>
runWebhooksDeliveries(o) ==
  <<Sends(o, Shows({"deliveries", "id", "event_type", "status", "http_status", "attempt_count",
      "created_at", "sent_at", "error_message"}, Call("GET /webhooks/:id/deliveries", TheWebhook)))>>
\* The events are listed from the program itself.
runWebhooksEvents(o) == <<>>

WebhookCommands ==
  Command("webhooks create", {"project", "project id"}, runWebhooksCreate) \cup
  Command("webhooks list", {"project", "project id", "is_active", "events"}, runWebhooksList) \cup
  Command("webhooks get", {}, runWebhooksGet) \cup
  Command("webhooks update", {"name", "events", "is_active"}, runWebhooksUpdate) \cup
  Command("webhooks delete", {"confirm"}, runWebhooksDelete) \cup
  Command("webhooks test", {"event_type unknown"}, runWebhooksTest) \cup
  Command("webhooks deliveries", {"status"}, runWebhooksDeliveries) \cup
  Command("webhooks events", {}, runWebhooksEvents)

-----------------------------------------------------------------------------
(* analytics.go                                                             *)

ProjectAndEnv == found("project") @@ found("env")
Report(o, keys, route) ==
  Check("env" \in o, resolveProjectID \o resolveEnvID \o
    <<Sends({"time_range"}, Shows(keys, Call(route, ProjectAndEnv)))>>)

runAnalyticsSummary(o) == Report(o, {"summary"}, "GET /analytics/summary")
runAnalyticsFlagsStats(o) == Report(o, {"flags"}, "GET /analytics/flags/stats")
runAnalyticsFlagsUsage(o) == Report(o, {"usage"}, "GET /analytics/flags/:key/usage")
runAnalyticsDeploymentsStats(o) ==
  resolveProjectID \o When("env" \in o, resolveEnvID) \o
  <<Sends({"time_range"} \cup (IF "env" \in o THEN {"environment_id"} ELSE {}),
      Shows({"summary", "by_strategy"}, Call("GET /analytics/deployments/stats", found("project"))))>>
runAnalyticsHealth(o) == <<Shows({"health"}, Call("GET /analytics/health", NoRefs))>>
\* Both dates, or else the time range, or else nothing is sent.
runAnalyticsExport(o) ==
  LET dates == {"start_date", "end_date"}
  IN  resolveProjectID \o
      Check(o \cap (dates \cup {"time_range"}) # {},
        <<Sends(IF dates \subseteq o THEN dates ELSE o \cap {"time_range"},
            Says(o \cap {"format csv"}, Shows({"data"},
              Call("GET /analytics/admin/export", found("project")))))>>)

AnalyticsCommands ==
  Command("analytics summary", {"env"}, runAnalyticsSummary) \cup
  Command("analytics flags stats", {"env"}, runAnalyticsFlagsStats) \cup
  Command("analytics flags usage", {"env"}, runAnalyticsFlagsUsage) \cup
  Command("analytics deployments stats", {"env"}, runAnalyticsDeploymentsStats) \cup
  Command("analytics health", {}, runAnalyticsHealth) \cup
  Command("analytics export", {"start_date", "end_date", "time_range", "format csv"},
    runAnalyticsExport)

-----------------------------------------------------------------------------
(* apikeys.go, integrations.go, settings.go                                 *)

Asked(o, option, id) == {option, id} \cap o # {}

runAPIKeysList(o) ==
  <<Shows({"api_keys", "id", "name", "prefix", "scopes", "created_at"},
      Call("GET /api-keys", NoRefs))>>
runAPIKeysCreate(o) ==
  When("project" \in o, resolveProjectInput) \o
  Check(Asked(o, "app", "app id") => "project" \in o,
    When("app" \in o, resolveAppInput(o)) \o When("env" \in o, resolveEnvInputs(o)) \o
    <<Sends({"name", "scopes"}, Shows({"id", "token"}, Call("POST /api-keys",
        WithRefs("project" \in o, found("project")) @@
        WithRefs(Asked(o, "app", "app id"), Input("app", o, "app id")) @@
        WithRefs("env" \in o, Input("env", o, "env id")))))>>)
runAPIKeysRevoke(o) == <<Call("DELETE /api-keys/:id", given("apikey"))>>

ApiKeyCommands ==
  Command("apikeys list", {}, runAPIKeysList) \cup
  Command("apikeys create", {"project", "app", "app id", "env", "env id"}, runAPIKeysCreate) \cup
  Command("apikeys revoke", {}, runAPIKeysRevoke)

runIntegrationsDeployCreate(o) ==
  resolveProjectInput \o resolveAppInput(o) \o
  Check("provider_config text" \notin o, resolveEnvInputs(o) \o
    <<Sends({"provider", "auth_mode", "webhook_secret", "provider_config"}, Shows({"id"},
        Call("POST /integrations/deploys",
          Input("app", o, "app id") @@ Input("env", o, "env id"))))>>)
runIntegrationsDeployList(o) ==
  resolveProjectInput \o resolveAppInput(o) \o
  <<Shows({"integrations", "id", "provider", "auth_mode", "enabled", "created_at"},
      Call("GET /integrations/deploys", Input("app", o, "app id")))>>
runIntegrationsDeployDelete(o) ==
  <<Call("DELETE /integrations/deploys/:id", given("integration"))>>

IntegrationCommands ==
  Command("integrations deploy create", {"app id", "env id", "provider_config text"},
    runIntegrationsDeployCreate) \cup
  Command("integrations deploy list", {"app id"}, runIntegrationsDeployList) \cup
  Command("integrations deploy delete", {}, runIntegrationsDeployDelete)

\* --target is sent as it was typed.
Target(o) == "target" :> (IF "slug" \in o THEN "name" ELSE "given")
runSettingsList(o) ==
  <<Sends({"scope"}, Shows({"settings", "key", "value", "updated_by", "updated_at"},
      Call("GET /settings", Target(o))))>>
runSettingsSet(o) == <<Sends({"scope", "key", "value"}, Call("PUT /settings", Target(o)))>>
runSettingsDelete(o) == <<Call("DELETE /settings/:id", given("setting"))>>

SettingCommands ==
  Command("settings list", {"slug"}, runSettingsList) \cup
  Command("settings set", {"slug"}, runSettingsSet) \cup
  Command("settings delete", {}, runSettingsDelete)

-----------------------------------------------------------------------------
(* orgs.go, projects.go, apps.go, environments.go, auth.go                  *)

runOrgsCreate(o) == <<Sends({"name", "slug"}, Shows({"id", "slug"}, Call("POST /orgs", NoRefs)))>>
runOrgsList(o) ==
  <<Shows({"organizations", "hint", "slug", "name", "plan", "created_at"},
      Call("GET /orgs", NoRefs))>>
runOrgsSet(o) == <<>>

\* Without a slug the name is turned into one.
runProjectsCreate(o) ==
  <<Sends({"name", "slug"} \cup o, Shows({"id", "slug"}, Call("POST /projects", NoRefs)))>>
runProjectsList(o) ==
  <<Shows({"projects", "slug", "name", "description", "created_at", "environments"},
      Call("GET /projects", NoRefs))>>
runProjectsConfig(o) ==
  <<Sends(o, Call(IF o = {} THEN "GET /projects/:slug/config" ELSE "PATCH /projects/:slug/config",
      named("project")))>>

runAppsCreate(o) ==
  <<Sends({"name", "slug"} \cup o, Shows({"id", "slug"},
      Call("POST /projects/:slug/apps", named("project"))))>>
runAppsList(o) ==
  IF "all" \in o
  THEN <<Shows({"applications", "slug", "name", "description", "repo_url", "created_at", "project"},
         Call("GET /apps", NoRefs))>>
  ELSE <<Shows({"applications", "slug", "name", "description", "repo_url", "created_at"},
           Call("GET /projects/:slug/apps", named("project")))>>
runAppsGet(o) ==
  <<Shows({"id", "name", "slug"}, Call("GET /projects/:slug/apps/:slug", AppPath))>>
runEnvironmentsList(o) ==
  <<Shows({"environments", "slug", "name", "is_production", "sort_order"},
      Call("GET /environments", NoRefs))>>
\* The key is tried out before it is stored.
runAuthLogin(o) == <<Call("GET /orgs", NoRefs)>>

EntityCommands ==
  Command("orgs create", {}, runOrgsCreate) \cup Command("orgs list", {}, runOrgsList) \cup
  Command("orgs set", {}, runOrgsSet) \cup
  Command("projects create", {"description", "repo_url"}, runProjectsCreate) \cup
  Command("projects list", {}, runProjectsList) \cup
  Command("projects config", {"repository_url"}, runProjectsConfig) \cup
  Command("apps create", {"description", "repo_url"}, runAppsCreate) \cup
  Command("apps list", {"all"}, runAppsList) \cup Command("apps get", {}, runAppsGet) \cup
  Command("environments list", {}, runEnvironmentsList) \cup
  Command("auth login", {}, runAuthLogin)

-----------------------------------------------------------------------------
(* strategies.go, rolloutpolicy.go, rollouts.go, rolloutgroups.go           *)

\* An application scope needs a project.
strategyScopePath(o) ==
  WithRefs("project" \in o, named("project")) @@ WithRefs("app" \in o, named("app"))
Scoped(o, r) == Check("app" \in o => "project" \in o, <<r>>)
TheStrategy(o) == named("strategy") @@ strategyScopePath(o)
ScopeOptions == {"project", "app"}

strategiesList(o) == Scoped(o, Shows({"items"}, Call("GET /strategies", strategyScopePath(o))))
strategiesGet(o) == Scoped(o, Call("GET /strategies/:name", TheStrategy(o)))
strategiesApply(o) ==
  Check("file" \in o,
    Scoped(o, Sends({"yaml"}, Call("POST /strategies/import", strategyScopePath(o)))))
strategiesDelete(o) == Scoped(o, Call("DELETE /strategies/:name", TheStrategy(o)))
strategiesExport(o) == Scoped(o, Call("GET /strategies/:name/export", TheStrategy(o)))

rolloutPolicyGet(o) == Scoped(o, Shows({"items"}, Call("GET /rollout-policy", strategyScopePath(o))))
rolloutPolicySet(o) ==
  Scoped(o, Sends({"enabled", "policy"} \cup (o \cap {"environment"}),
    Says(IF "policy" \in o THEN {} ELSE {"policy empty"},
      Call("PUT /rollout-policy", strategyScopePath(o)))))
strategyDefaultsList(o) ==
  Scoped(o, Shows({"items"}, Call("GET /strategy-defaults", strategyScopePath(o))))
strategyDefaultsSet(o) ==
  Scoped(o, Sends(o \cap {"environment"}, Call("PUT /strategy-defaults", TheStrategy(o))))

StrategyCommands ==
  Command("strategies list", ScopeOptions, strategiesList) \cup
  Command("strategies get", ScopeOptions, strategiesGet) \cup
  Command("strategies apply", ScopeOptions \cup {"file"}, strategiesApply) \cup
  Command("strategies delete", ScopeOptions, strategiesDelete) \cup
  Command("strategies export", ScopeOptions, strategiesExport) \cup
  Command("rollout-policy get", ScopeOptions, rolloutPolicyGet) \cup
  Command("rollout-policy set", ScopeOptions \cup {"environment", "policy"}, rolloutPolicySet) \cup
  Command("strategy-defaults list", ScopeOptions, strategyDefaultsList) \cup
  Command("strategy-defaults set", ScopeOptions \cup {"environment"}, strategyDefaultsSet)

TheRollout == given("rollout")
rolloutsList(o) == <<Sends(o, Call("GET /rollouts", NoRefs))>>
rolloutsGet(o) == <<Call("GET /rollouts/:id", TheRollout)>>
\* The reason is sent even when it is empty, which counts as none.
Control(o, route) == <<Sends(o \cap {"reason"}, Call(route, TheRollout))>>
rolloutsPause(o) == Control(o, "POST /rollouts/:id/pause")
rolloutsResume(o) == Control(o, "POST /rollouts/:id/resume")
rolloutsPromote(o) == Control(o, "POST /rollouts/:id/promote")
rolloutsApprove(o) == Control(o, "POST /rollouts/:id/approve")
rolloutsRollback(o) == Check("reason" \in o, Control(o, "POST /rollouts/:id/rollback"))
rolloutsForcePromote(o) == Check("reason" \in o, Control(o, "POST /rollouts/:id/force-promote"))

rolloutGroupsList(o) == <<Call("GET /rollout-groups", NoRefs)>>
rolloutGroupsGet(o) == <<Call("GET /rollout-groups/:id", given("group"))>>
rolloutGroupsCreate(o) ==
  Check("name" \in o, <<Sends(o, Call("POST /rollout-groups", NoRefs))>>)
rolloutGroupsAttach(o) ==
  Check("rollout" \in o,
    <<Call("POST /rollout-groups/:id/attach", given("group") @@ TheRollout)>>)

RolloutCommands ==
  Command("rollouts list", {"status"}, rolloutsList) \cup
  Command("rollouts get", {}, rolloutsGet) \cup
  Command("rollouts pause", {"reason"}, rolloutsPause) \cup
  Command("rollouts resume", {"reason"}, rolloutsResume) \cup
  Command("rollouts promote", {"reason"}, rolloutsPromote) \cup
  Command("rollouts approve", {"reason"}, rolloutsApprove) \cup
  Command("rollouts rollback", {"reason"}, rolloutsRollback) \cup
  Command("rollouts force-promote", {"reason"}, rolloutsForcePromote) \cup
  Command("rollout-groups list", {}, rolloutGroupsList) \cup
  Command("rollout-groups get", {}, rolloutGroupsGet) \cup
  Command("rollout-groups create", {"name", "coordination_policy"}, rolloutGroupsCreate) \cup
  Command("rollout-groups attach", {"rollout"}, rolloutGroupsAttach)

-----------------------------------------------------------------------------
CliCommands ==
  FlagCommands \cup RuleCommands \cup DeployCommands \cup ReleaseCommands \cup
  WebhookCommands \cup AnalyticsCommands \cup ApiKeyCommands \cup IntegrationCommands \cup
  SettingCommands \cup EntityCommands \cup StrategyCommands \cup RolloutCommands
=============================================================================
