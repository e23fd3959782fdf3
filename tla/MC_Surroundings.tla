--------------------------- MODULE MC_Surroundings ---------------------------
(***************************************************************************)
(* What surrounds the control plane, one part at a time: the rigid         *)
(* variable "scenario" says which module runs.  Releases has variables of  *)
(* its own; the other modules share the registers v1 to v13, of which      *)
(* those that a module does not use stay None.                             *)
(***************************************************************************)
EXTENDS Releases, Sequences

CONSTANTS Versions, Words, Bodies, MaxRequests,                      \* DeployReports
          Callers, ScopeSets, MaxKeys, MaxTokens, CredentialOps,     \* Credentials
          Fields, Values, HookOps,                                   \* Webhooks
          Processes, Events, Channels, MaxMessages, MaxDeliver, MaxCrashes,  \* Notifications
          Rules, PreferenceOps,                                      \* Preferences
          Replicas, Buffer, MaxBackoff, MaxWrites, MaxDrops, MaxRefreshes,   \* FlagStream
          AgentPercents, Keep, MaxEvents, MaxBeats, MaxInFlight,             \* Agent
          MaxOthers                                                          \* Commands

VARIABLES scenario, v1, v2, v3, v4, v5, v6, v7, v8, v9, v10, v11, v12, v13

shared == <<v1, v2, v3, v4, v5, v6, v7, v8, v9, v10, v11, v12, v13>>
allVars == <<scenario, vars, shared>>

\* What platforms, GitHub and the application itself report.
Reports == INSTANCE DeployReports WITH
    Requests <- Clients,
    rows <- v1, status <- v2, events <- v3, integration <- v4, sent <- v5,
    cl <- v6, begun <- v7, answered <- v8, orderly <- v9

\* Clients with keys, tokens, one session and one account.
Creds == INSTANCE Credentials WITH
    MaxOps <- CredentialOps,
    keys <- v1, tokens <- v2, blocked <- v3, session <- v4, user <- v5,
    cl <- v6, ops <- v7, spent <- v8

\* A webhook, edited, tested and deleted.
Hooks == INSTANCE Webhooks WITH
    MaxOps <- HookOps,
    hook <- v1, deliveries <- v2, received <- v3, cl <- v4, ops <- v5, writes <- v6

\* API processes with their channels.
Notices == INSTANCE Notifications WITH
    msgs <- v1, at <- v2, incidents <- v3, open <- v4, sent <- v5,
    crashes <- v6, astray <- v7

\* The notification rules of one organization.
Prefs == INSTANCE Preferences WITH
    MaxOps <- PreferenceOps,
    store <- v1, object <- v2, cl <- v3, ops <- v4, at <- v5

\* One client of the API's replicas.
Stream == INSTANCE FlagStream WITH
    row <- v1, listed <- v2, writer <- v3, conn <- v4, buf <- v5,
    reader <- v6, warm <- v7, cache <- v8, backoff <- v9, writes <- v10,
    drops <- v11, refreshes <- v12, excused <- v13

\* A sidecar with the two upstreams that the stream's callback names.
Sidecar == INSTANCE Agent WITH
    Upstreams <- {"blue", "green"}, Percents <- AgentPercents,
    version <- v1, snapshot <- v2, callback <- v3, rep <- v4, agentID <- v5,
    row <- v6, beats <- v7, flight <- v8, events <- v9, sent <- v10, unpruned <- v11

\* One command of the command line or tool.
Cli == INSTANCE Commands WITH
    world <- v1, cmd <- v2, bore <- v3, gone <- v4, others <- v5

\* None is no value of the code's: no index, number, status, role, incident, row or request.
ASSUME SurroundAssumption ==
  /\ None \notin Nat \cup {"running", "completed", "failed", "cancelled"}
  /\ None \notin Notices!Failures /\ None \notin [Fields -> Values] /\ None \notin Replicas
  /\ \A r \in Replicas : None # [at |-> r]
  /\ \A role \in {"owner", "admin", "org:owner", "org:admin", "project:admin", "developer",
                  "project:editor"} : None # role
  /\ MaxOps \in Nat /\ MaxRequests \in Nat /\ HookOps \in Nat /\ PreferenceOps \in Nat
  /\ MaxDeliver \in Nat \ {0} /\ Channels \in Seq({"slack", "email", "pagerduty"})
  /\ Values # {} /\ Buffer \in Nat /\ MaxBackoff \in Nat \ {0} /\ MaxWrites \in Nat
  /\ AgentPercents \subseteq 0 .. 100 /\ Keep \in Nat /\ None # "connected"
  /\ None \notin {"n", "m"} /\ MaxOthers \in Nat

\* The tables of the command line and of the tools, row by row: all of them, for
\* they depend on no constant.
ASSUME PlansAssumption == \A c \in Cli!CliCommands \cup Cli!McpTools : Cli!SoundPlan(c.plan)

\* The instance TLC checks: three reports of two callers; two clients with keys,
\* tokens and an account; a webhook of two columns; two processes, two channels and
\* messages of two subjects; two notification rules; two replicas, one client with
\* a buffer of one event; two phase events, three heartbeats of which two are
\* kept; three interventions in a command.
MCWords == {<<"requested", "none">>, <<"completed", "success">>, <<"completed", "startup_failure">>,
            <<"deleted", "none">>}
MCBodies == {
  <<"railway", [word |-> "SUCCESS", deployment |-> "d1", commit |-> "c", environment |-> "mapped"]>>,
  <<"netlify", [word |-> "ready", commit |-> "c", context |-> "mapped"]>>,
  <<"vercel", [word |-> "deployment.error", commit |-> "c", target |-> "unmapped"]>>,
  <<"heroku", [word |-> "failed", number |-> "v2", app |-> "mapped"]>>}
MCEvents == {<<"deployments", "deployment.failed">>, <<"health", "health.alert.resolved">>,
             <<"deployments", "none">>}
MCScopeSets == {{"admin"}, {"flags:write"}}
MCChannels == <<"slack", "pagerduty">>

NoRelease ==
  /\ row = None /\ changes = None /\ told = None /\ cl = None /\ ops = None /\ writes = None
From12 == v12 = None /\ v13 = None
From10 == v10 = None /\ v11 = None /\ From12
From9 == v9 = None /\ From10
From8 == v8 = None /\ From9
From7 == v7 = None /\ From8
From6 == v6 = None /\ From7
From1 == v1 = None /\ v2 = None /\ v3 = None /\ v4 = None /\ v5 = None /\ From6

SurroundInit ==
  \/ scenario = "releases" /\ Init /\ From1
  \/ scenario = "reports" /\ Reports!Init /\ NoRelease /\ From10
  \/ scenario = "credentials" /\ Creds!Init /\ NoRelease /\ From9
  \/ scenario = "webhooks" /\ Hooks!Init /\ NoRelease /\ From7
  \/ scenario = "notifications" /\ Notices!Init /\ NoRelease /\ From8
  \/ scenario = "preferences" /\ Prefs!Init /\ NoRelease /\ From6
  \/ scenario = "stream" /\ Stream!Init /\ NoRelease
  \/ scenario = "agent" /\ Sidecar!Init /\ NoRelease /\ From12
  \/ scenario = "commands" /\ Cli!Init /\ NoRelease /\ From6

SurroundNext ==
  /\ scenario' = scenario
  /\ \/ scenario = "releases" /\ Next /\ UNCHANGED shared
     \/ scenario = "reports" /\ Reports!Next /\ UNCHANGED <<vars, v10, v11, v12, v13>>
     \/ scenario = "credentials" /\ Creds!Next /\ UNCHANGED <<vars, v9, v10, v11, v12, v13>>
     \/ scenario = "webhooks" /\ Hooks!Next /\ UNCHANGED <<vars, v7, v8, v9, v10, v11, v12, v13>>
     \/ scenario = "notifications" /\ Notices!Next
        /\ UNCHANGED <<vars, v8, v9, v10, v11, v12, v13>>
     \/ scenario = "preferences" /\ Prefs!Next
        /\ UNCHANGED <<vars, v6, v7, v8, v9, v10, v11, v12, v13>>
     \/ scenario = "stream" /\ Stream!Next /\ UNCHANGED vars
     \/ scenario = "agent" /\ Sidecar!Next /\ UNCHANGED <<vars, v12, v13>>
     \/ scenario = "commands" /\ Cli!Next
        /\ UNCHANGED <<vars, v6, v7, v8, v9, v10, v11, v12, v13>>

SurroundSpec == SurroundInit /\ [][SurroundNext]_allVars

-----------------------------------------------------------------------------
(* The modules' properties, each in its scenario                            *)

\* DeployReports: a report that was answered is among the deployments, a row is
\* there twice only past an outdated search, and orderly workflow events leave one
\* build with the last status (Report, UpsertBuildDeployment).
ReportsHold ==
  scenario = "reports" =>
    /\ Reports!TypeOK /\ Reports!RowTwiceIsExplained /\ Reports!AnsweredIsRecorded
    /\ Reports!BuildIsCurrent

\* Credentials: keys and refresh tokens that were answered as spent stay spent,
\* are succeeded once except by simultaneous or interrupted requests, and roles
\* allow no more than scopes do (RotateKey, refreshTokenHandler).
CredentialsHold == scenario = "credentials" => Creds!TypeOK /\ Creds!CredentialsHold

\* Releases: however requests overwrite one another, the row's columns agree.
ReleaseIsWhole == scenario = "releases" => TypeOK /\ RowIsWhole

\* Webhooks, Notifications: a delivery is recorded as sent only when it arrived,
\* an acknowledged message has reached every channel, and an open incident is
\* tracked unless it was overtaken (TestWebhook, handleMessage, PagerDuty's map).
DeliveriesHold ==
  /\ scenario = "webhooks" => Hooks!TypeOK /\ Hooks!DeliveriesAreTrue
  /\ scenario = "notifications" =>
       Notices!TypeOK /\ Notices!AckedReachedAll /\ Notices!OpenIsTracked

\* FlagStream: a flag in the SDK's cache is outdated only for a reason, and goes
\* back only when a listing and the stream overtake one another.
StreamHolds ==
  /\ [](scenario = "stream" => Stream!TypeOK /\ Stream!StaleIsExplained)
  /\ [][scenario = "stream" => Stream!ForwardStep]_allVars

\* Agent: the reporter shows what Envoy is served, and the registry keeps the
\* last heartbeats, whole unless one was taken within a callback.
SidecarHolds == scenario = "agent" => Sidecar!TypeOK /\ Sidecar!HeartbeatsHold

\* Commands: client and server agree on every request, except where the module's
\* tables say otherwise (cmd/cli, internal/mcp against the handlers' bindings).
CommandsAreServed == scenario = "commands" => Cli!TypeOK /\ Cli!CommandsAreServed

\* Commands: a command changes rows that bore the name it was given, and what it
\* reports is what happened (resolve.go, createDeployment).
CommandsHitTheNamed == scenario = "commands" => Cli!CommandsHitTheNamed

\* Where a request reads a row and writes all of it back, only a write between
\* the two explains that something is lost or a status moves against the rules:
\* webhooks, notification preferences, accounts and sessions, releases.
LostWritesAreExplained ==
  [][/\ scenario = "webhooks" => Hooks!EditLossStep
     /\ scenario = "preferences" => Prefs!TypeOK /\ Prefs!SaveLossStep
     /\ scenario = "credentials" => Creds!OverwriteStep
     /\ scenario = "releases" => StaleWriteStep]_allVars
=============================================================================
