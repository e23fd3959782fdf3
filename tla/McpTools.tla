------------------------------ MODULE McpTools ------------------------------
(***************************************************************************)
(* The tools of the MCP server: for each of them, and each choice of its   *)
(* optional arguments, the requests it sends to the same API.              *)
(***************************************************************************)
EXTENDS CliCommands

\* Both match their name themselves or leave it to the server.
resolveApp == resolveAppID
resolveEnv == resolveEnvID

-----------------------------------------------------------------------------
(* tools_entities.go, tools_status.go, tools_traffic.go                     *)

handleListOrgs(o) == <<Call("GET /orgs", NoRefs)>>
handleListProjects(o) == <<Call("GET /projects", NoRefs)>>
handleListApps(o) == <<Call("GET /projects/:slug/apps", named("project"))>>
handleListEnvironments(o) == <<Call("GET /environments", NoRefs)>>
\* Configuration is looked at, the server is not.
handleStatus(o) == <<>>
handleSetupLocalDeploy(o) == <<>>

handleListAgents(o) ==
  resolveApp \o <<Call("GET /applications/:id/agents", found("app"))>>
\* The heartbeats of the first agent that is connected.
handleGetTrafficState(o) ==
  resolveApp \o <<Learns("agent", Shows({"agents"}, Call("GET /applications/:id/agents", found("app")))),
    Shows({"heartbeats"}, Call("GET /agents/:id/heartbeats", found("agent")))>>

EntityTools ==
  Command("ds_list_orgs", {}, handleListOrgs) \cup Command("ds_list_projects", {}, handleListProjects) \cup
  Command("ds_list_apps", {}, handleListApps) \cup
  Command("ds_list_environments", {}, handleListEnvironments) \cup
  Command("ds_status", {}, handleStatus) \cup Command("ds_setup_local_deploy", {}, handleSetupLocalDeploy) \cup
  Command("ds_list_agents", {}, handleListAgents) \cup
  Command("ds_get_traffic_state", {}, handleGetTrafficState)

-----------------------------------------------------------------------------
(* tools_flags.go: the project goes to the server as it was typed           *)

handleListFlags(o) == <<Call("GET /flags", named("project"))>>
handleGetFlag(o) == <<Call("GET /flags/:id", given("flag"))>>
handleCreateFlag(o) ==
  <<Sends({"key", "name", "flag_type", "category"} \cup (o \cap {"default_value"}),
      Says(o \cap {"flag_type number", "category release"}, Call("POST /flags", named("project"))))>>
handleToggleFlag(o) == <<Sends({"enabled"}, Call("POST /flags/:id/toggle", given("flag")))>>

FlagTools ==
  Command("ds_list_flags", {}, handleListFlags) \cup Command("ds_get_flag", {}, handleGetFlag) \cup
  Command("ds_create_flag", {"default_value", "flag_type number", "category release"}, handleCreateFlag) \cup
  Command("ds_toggle_flag", {}, handleToggleFlag)

-----------------------------------------------------------------------------
(* tools_deploy.go                                                          *)

handleCreateAPIKey(o) ==
  <<Sends({"name", "scopes"}, Call("POST /api-keys", WithRefs("environment_ids" \in o, given("env"))))>>
handleAppDeployStatus(o) ==
  <<Call("GET /projects/:slug/apps/:slug", AppPath),
    Forgiven(Call("GET /projects/:slug/apps/:slug/deployments", AppPath))>>
handleGenerateWorkflow(o) == <<>>
\* The application goes under a key the handler does not read, and there is no artifact.
handleCreateDeployment(o) ==
  resolveApp \o resolveEnv \o
  <<Sends({"app_id", "version", "strategy"} \cup o, Call("POST /deployments", found("env")))>>
handlePromoteDeployment(o) == <<Call("POST /deployments/:id/promote", given("deployment"))>>
handleRollbackDeployment(o) ==
  <<Sends(o, Call("POST /deployments/:id/rollback", given("deployment")))>>
handleAdvanceDeployment(o) == <<Call("POST /deployments/:id/advance", given("deployment"))>>
handleDeploymentPhases(o) == <<Call("GET /deployments/:id/phases", given("deployment"))>>

DeployTools ==
  Command("ds_create_api_key", {"environment_ids"}, handleCreateAPIKey) \cup
  Command("ds_get_app_deploy_status", {}, handleAppDeployStatus) \cup
  Command("ds_generate_workflow", {}, handleGenerateWorkflow) \cup
  Command("ds_create_deployment", {"flag_test_key"}, handleCreateDeployment) \cup
  Command("ds_promote_deployment", {}, handlePromoteDeployment) \cup
  Command("ds_rollback_deployment", {"reason"}, handleRollbackDeployment) \cup
  Command("ds_advance_deployment", {}, handleAdvanceDeployment) \cup
  Command("ds_deployment_phases", {}, handleDeploymentPhases)

-----------------------------------------------------------------------------
(* tools_reporting.go                                                       *)

\* The provider configuration is passed on as text.
handleSetupDeployIntegration(o) ==
  <<Sends({"provider", "webhook_secret"} \cup (o \cap {"auth_mode"}), Says(o \cap {"provider_config text"},
      Shows({"id"}, Call("POST /integrations/deploys", given("app") @@ given("env")))))>>
handleCheckDeployIntegration(o) ==
  <<Shows({"events"}, Call("GET /integrations/deploys/:id/events", given("integration")))>>
\* The integration is looked at only when it is named.
handleReportingVerify(o) ==
  <<Shows({"current_deployment", "health"},
      Call("GET /applications/:id/environments/:id/current-state", given("app") @@ given("env")))>> \o
  When("integration_id" \in o,
    <<Forgiven(Call("GET /integrations/deploys/:id/events", given("integration")))>>)

ReportingTools ==
  Command("ds_reporting_setup_deploy_integration", {"auth_mode", "provider_config text"},
    handleSetupDeployIntegration) \cup
  Command("ds_reporting_check_deploy_integration", {}, handleCheckDeployIntegration) \cup
  Command("ds_reporting_verify", {"integration_id"}, handleReportingVerify)

McpTools == EntityTools \cup FlagTools \cup DeployTools \cup ReportingTools
=============================================================================
