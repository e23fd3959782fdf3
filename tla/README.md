# A TLA+ model of DeploySentry

DeploySentry is a feature-flag and deployment platform: an API server in Go
(`src/cmd/api`, `src/internal`) over PostgreSQL, Redis and NATS JetStream, with a
sidecar agent, a command line client, an MCP server, SDKs and front ends around it.
This directory holds specifications of the parts that keep state and act beside one
another: the engines that drive deployments and rollouts, the controller and the
coordinator that take them back, the flags with their cache, their targeting and the
end of their life, staged changes, the catalogues and records of the control plane,
and what surrounds it, from reported deployments to the commands that call the API.
TLC checks small instances of each; TLAPS proves the safety properties, and the
refinement of the rollout's promise, for every instance.

Contents: 1 the system, 2 the modules, 3 the runs, 4 bounds and fairness, 5 the
proofs, 6 observed disagreements, 7 what is not modelled, 8 plan.


## 1. The system

### Components, their state and their operations

Sources are under `src/internal` unless said.

| Component | State | Operations |
|---|---|---|
| Deployment state machine (`models/deployment.go`) | a `deployments` row: status, traffic, `started_at`, `completed_at` | `ValidateTransition`, `TransitionTo` |
| Deploy service and handler (`deploy/service.go`, `handler.go`) | the row, `deployment.*` messages | create, promote, rollback, pause, resume, cancel, set traffic: read the row, check, write all of it |
| Deploy phase engine (`deploy/engine/engine.go`) | `deployment_phases` rows; a goroutine per deployment with its own copy of the row | `Start`, `driveDeployment`, `Advance`, `triggerRollback` |
| Rollout engine (`rollout/engine`) | `rollouts` and `rollout_phases` rows, the target's percentage; a driver with its own copy of the status | `DriveRollout`, `runPhase`'s poll loop, gates, `rollback` |
| Rollout service, applicators (`rollout/rollout_service.go`, `rollout/applicator`) | the same rows, `rollout_events`, a deployment's traffic or a rule's percentage | attach, pause, resume, promote, force-promote, approve, rollback; `Apply`, `Revert` |
| Rollout groups and coordinator (`rollout/coordination.go`, `group_service.go`) | `rollout_groups` (policy), `release_id` and `rollback_reason` of the rollouts | `OnRollback`, attach, change policy |
| Strategies, defaults, policies (`rollout/service.go`, `handler.go`, `resolver.go`) | rows by scope and name or key, with versions | create, update, delete, import; resolution of what applies to an application |
| Rollback controller, health monitor (`rollback`, `health`) | per deployment: state, start of the evaluation, last rollback; one mutex; the monitored deployments | `Watch`, `OnHealthUpdate`, `TriggerManualRollback`, `evaluate` |
| Feature flags (`flags`, `platform/cache/flagcache`) | flag, rule, segment and environment rows; three Redis keys per flag; singleflight groups | evaluate, toggle, edit, archive, restore, delete; scheduler and retention sweeper; audit and revert; event stream |
| Staged changes (`staging`, the `staging_commit.go` files) | one row per user and resource | stage, discard, overlay, deploy, sweep |
| Workspace (`entities`, `members`, `groups`, `grants`) | members' roles, groups, grants, projects and applications | demote, remove, grant, list, delete, restore |
| Reported deployments (`integrations`, `appstatus`, `orgstate`, `currentstate`) | `deployments`, `app_status`, dedup rows | webhook of a platform, workflow event, status report, the organization's board |
| Credentials (`auth`) | `api_keys`, `users`; Redis: block list and sessions | mint, rotate, revoke, refresh, sign in and out, edit a profile |
| Releases, webhooks, notifications (`releases`, `webhooks`, `notifications`) | their rows; open incidents in each process; preferences in memory | edit, start, promote, complete; test delivery; dispatch over the channels |
| Sidecar agent (`agent`, `src/cmd/agent`) | weights, snapshot version, registry row and heartbeats | stream callback, reporter's ticker, heartbeat |
| Go SDK (`src/sdk/go`) | the cached flags | warm, stream, refresh, evaluate |
| Command line and MCP server (`src/cmd/cli`, `mcp`) | nothing of their own | look names up, send requests, report answers |
| Event bus (`platform/messaging/nats.go`) | JetStream consumers: explicit ack, AckWait 30 s, MaxDeliver 5 | publish, subscribe |

`PROJECT.json` lists every component with its sources and how far it is modelled.

### How they interact

A client creates a deployment; the handler inserts the row, publishes
`deployment.created` and only then attaches a rollout if the request asks for one.
The phase engine receives the message, starts a goroutine and acknowledges at once.
From there on the goroutine, the HTTP requests of operators and the rollout
engine's deploy applicator all read and write the same row.  `UpdateDeployment`
writes every column and has no condition on what is stored, so the last writer wins
with whatever copy it holds.

A rollout is started by `rollouts.rollout.created`.  Its handler runs the whole
rollout and acknowledges when it returns; since that takes longer than AckWait, the
message is delivered again, possibly to another replica, while the first still
drives.  Operators' controls read, check and write the rollout's row; the engine
reads it once, at its start.  A rollout of a rule is attached by the edit of that
rule, and the engine then writes the rule's whole row back at every step.

A rollback, by the engine or by a control, is published.  The coordinator looks up
the rollout's group and policy, lists the siblings and pauses or rolls back each
through the rollout service, which publishes again.

The health monitor evaluates its deployments in turn and tells the rollback
controller, which takes its mutex for every state change and releases it while the
executor runs.  In `cmd/api/main.go` at this commit both are built and started but
nobody registers the controller as a listener or calls `Watch`; the model composes
them in the way their package comments and `OnHealthUpdate`'s signature intend.

An evaluation reads a flag, its override, its rules and a segment from Redis or, on
a miss, from PostgreSQL, and stores what it read.  A write goes to PostgreSQL first
and invalidates Redis afterwards.  The same handlers write the audit trail, from
which the revert handler later undoes an entry, and tell the clients that stream
from this replica, which then fetch the flag.  Each API process runs a scheduler and
a sweeper over the same flag rows.  A user may stage edits instead and deploy them
as a batch; the deployment dispatches each row to the service that owns it.

Releases, webhooks, preferences, users and members are edited by requests that read
a row in one statement and write all of it in another.  The command line and the MCP
server look a name up with one request and act on the id they got with the next.

### What is hard here, and the properties that make it right

* Copies of a row that go stale between read and write, in nearly every service:
  what is stored must stay consistent, and whatever is lost or moves against the
  rules must have a write in between to blame, and no other cause.
* Checks in one statement and their consequence in another: the last owner, the last
  reference to a strategy, another rollout of the rule, a row of the same version.
* Crashes between two writes, messages acknowledged too early or delivered twice:
  the next driver must go on where the last one was, never expose fewer users than
  it did, and the work must come to an end.
* Gates and hand-over: one driver at a time, phases in order, none left out.
* Two sides ending the same rollout: what has ended stays ended, and what was rolled
  back says why and has its target reverted.
* Cascades that trigger cascades: every sibling is reached, and the reasons do not
  run in a circle.
* A mutex released in the middle of an operation, and a cooldown: rollbacks of one
  deployment neither overlap nor flap, and one that stays unhealthy is rolled back.
* A cache filled by reads that began before a write and stored after its
  invalidation: staleness has a cause and is over within the time to live.
* Several schedulers and sweepers on one table: an event fires once, nothing is
  deleted inside its retention, nothing is forgotten.
* A batch whose rows are loaded, dispatched and deleted at different moments: what is
  not staged again in the meantime is never lost unapplied, creates commit together.
* Two programs written apart, client and handler: every request a command can send
  is one the handler understands, and what the command reports is what happened.

### Further hazards

`PROJECT.json` lists the forty hazards that matter most, each with the line where it
bites and the properties that would catch it, or the reason why none does.  These are in the code too:

* `deploy/engine/engine.go:110`: Advance marks the gated phase, writes the row and
  spawns a driver in separate steps, each of which can fail or race a pause
  (`GatedRampIsWhole`).
* `deploy/service.go:190`: A rollback through the service changes the status and
  leaves the traffic percentage (no property, see section 6).
* `rollout/engine/engine.go:177`: Every status write of the engine ignores its
  error; what the rows say can differ from what the engine did (`OutcomesAreTrue`).
* `platform/messaging/nats.go:100`: After five deliveries JetStream gives up: a
  rollout whose drivers crashed five times stays active for ever (no property, see
  section 6).
* `rollout/coordination.go:56`: The siblings come from a listing; each may end,
  start or be rolled back by another handler before it is acted on
  (`UndisturbedCascadeReachesAll`, `BlameHasARoot`).
* `rollout/engine/engine.go:232`: A crash between storing rolled_back and publishing
  it loses the cascade for good: the redelivered creation message finds a terminal
  rollout (`UndisturbedCascadeReachesAll`).
* `rollout/engine/engine.go:85`: The driver sets its rollout active without looking
  at the stored status: a rollout that an operator has ended is live again, and the
  rule may be in two rollouts (`RuleOutcomeShows`).
* `rollback/controller.go:192`: Watch during a rollback replaces its context by a
  fresh one, and the rollback's end then marks the fresh one (`RollbacksAreEarned`).
* `health/monitor.go:189`: The monitor stores results of a snapshot after Unwatch
  removed the deployment (no property, see section 6).
* `flags/service.go:517`: The flag a rule belongs to must be looked up before the
  rule is deleted; a failed look-up leaves the cache as it is
  (`StaleRulesAreExplained`).
* `flags/service.go:628`: Writes of segments leave the cache alone; evaluations must
  not depend on more than the time to live for them (`CacheConverges`,
  `UndisturbedIsExact`).
* `flags/service.go:524`: A process that stops between the write and the
  invalidation, whose error is ignored, leaves the old rules cached
  (`CacheConverges`, `StaleRulesAreExplained`).
* `flags/handler.go:551`: updateFlag reads the flag, merges and writes every column:
  the audit entry and the row can tell of different moments (`AuditReverts`).
* `flags/handler.go:1505`: The old value of an audit entry comes from a read before
  the write; a request in between makes the revert restore what was not there
  (`AuditReverts`).
* `staging/service.go:202`: The audit rows are written after the commit, one by one:
  a deploy that is cut off leaves committed changes out of the trail, which must at
  least claim nothing that is not there (`CommitsAreWhole`).
* `flags/staging_commit.go:261`: Creates are dispatched before references are
  rewritten: a staged rule of a staged flag reaches its guard with the provisional
  id (`CommitsAreWhole`).
* `rollout/service.go:87`: Two editors of a strategy: the version of the second is
  outdated and must be refused at the statement, not before (`CatalogKeepsEdits`).
* `entities/service.go:255`: DeleteApp counts flags and deletes for good by id: a
  flag created in between goes along (`WorkChangesAreExplained`).
* `grants/service.go:110`: A resource without grants is open: taking grants away one
  by one ends in everybody having access (`WorkChangesAreExplained`).
* `platform/database/postgres/deploy.go:593`: Workflow events carry no order and the
  last one handled wins: a late 'requested' puts a finished build back to running
  (`ReportsHold`).
* `appstatus/service.go:98`: A status report looks for a deployment of its version
  and creates one: two reports at once create two (`ReportsHold`).
* `auth/login_handler.go:148`: Signing in writes back the whole user it read: a
  profile edit in between is lost (`LostWritesAreExplained`).
* `auth/session.go:120`: RefreshSession reads the session and sets it again: a
  sign-out in between is undone (`LostWritesAreExplained`).
* `webhooks/service.go:138`: An edit of a webhook reads the row and writes all of it
  back (`LostWritesAreExplained`).
* `webhooks/service.go:252`: A test delivery is recorded, sent and recorded again:
  the webhook may be deleted or the request cut off between any two
  (`DeliveriesHold`).
* `notifications/subscriber.go:109`: One failing channel refuses the message, and
  its redelivery reaches the other channels again; another process may get it
  (`DeliveriesHold`).
* `notifications/preferences_handler.go:127`: The store hands out the object it
  holds, and handlers merge into it without its lock (`LostWritesAreExplained`).
* `src/sdk/go/streaming.go:74`: Events that come between the end of a stream and the
  next connection are never seen: the flag stays outdated until its next change
  (`StreamHolds`).
* `src/sdk/go/client.go:245`: RefreshSession lists flags while the stream brings
  newer ones, and then replaces the whole cache (`StreamHolds`).
* `agent/registry/service.go:65`: A heartbeat is three statements, and the agent
  gives up waiting and sends the next: insertions and prunings of several overlap
  (`SidecarHolds`).
* `deploy/handler.go:137`: An answer that is lost makes the user repeat the command,
  and creating twice is a conflict for some kinds of rows only
  (`CommandsHitTheNamed`).
* `flags/handler.go:426`: The list of flags stops at twenty, and clients that look
  for a key in it do not ask for the next page (`CommandsHitTheNamed`).


## 2. The modules

| Module | Models | Checked by |
|---|---|---|
| `DeploymentState` | statuses, `validTransitions`, `TransitionTo` (operators, no state) | through `DeployEngine` |
| `DeployEngine` | one deployment: service, phase engine, message, crashes | `MC_DeployEngine`, `MC_DeployScenarios` |
| `DeployEngineProofs` | theorems about `DeployEngine`, and about the situations of `MC_DeployScenarios` | `tlapm` |
| `RolloutEngine` | one rollout: engine, controls, message, applicator | `MC_RolloutEngine`, `MC_RolloutScenarios` |
| `RolloutPromise` | what a rollout promises, abstractly | implemented by `RolloutEngine` in `MC_RolloutScenarios` |
| `RolloutGroup` | several rollouts, groups, coordinator | `MC_RolloutScenarios` |
| `RolloutEngineProofs`, `RolloutScenarioProofs` | theorems about `RolloutEngine`, the refinement among them, about `RolloutGroup`, and about the situations of `MC_RolloutScenarios` | `tlapm` |
| `RollbackController` | health monitor and rollback controller | `MC_DeployScenarios` |
| `RollbackControllerProofs` | theorems about `RollbackController` | `tlapm` |
| `FlagTargeting` | one rule against one context (operators, no state) | through `FlagEvaluation` |
| `FlagEvaluation` | a flag between PostgreSQL, Redis, replicas and writers | `MC_Flags` |
| `FlagLifecycle` | archive, retention, scheduled removal | `MC_Flags` |
| `FlagLifecycleProofs` | theorems about `FlagLifecycle` and `FlagEvaluation` | `tlapm` |
| `Staging` | one user's staged changes and their deployment | `MC_Staging` |
| `StagingProofs` | theorems about `Staging` | `tlapm` |
| `AuditRevert` | the audit trail of a flag and its reverts | `MC_ControlPlane` |
| `RuleRollout` | rollouts of one targeting rule | `MC_ControlPlane` |
| `StrategyCatalog` | strategies, defaults and policies of the scopes | `MC_ControlPlane` |
| `Workspace` | members, groups, grants, projects and applications | `MC_ControlPlane` |
| `ControlPlaneProofs` | theorems about the last four | `tlapm` |
| `Releases`, `DeployReports`, `Credentials`, `Webhooks`, `Notifications`, `Preferences`, `FlagStream`, `Agent` | one part each of what surrounds the control plane | `MC_Surroundings` |
| `ApiRoutes`, `CliCommands`, `McpTools`, `Commands` | the API as its callers see it, the clients' requests, and one command running | `MC_Surroundings` |
| `SurroundingsProofs` | theorems about the last two rows | `tlapm` |

The modules share one way of writing things down.  An action is what the code does
up to and including one call that others can observe: a repository statement, a
Redis command, a message, an applicator or executor call, or one critical section of
a mutex.  A goroutine or request is a record with a program counter and the locals
that survive a call.  `Sql...` operators are the conditions and effects of a
statement.  Variables marked "ghost" or "history" serve the properties, variables
marked "bound" the size of an instance; no action of the code depends on them except
through such a bound.  `PROJECT.json`'s `map` names the lines behind every
definition.  Definitions called `X_Something` or `Something_Mistake` directly before
the definition they vary are mutants: that definition with one plausible mistake,
used to show that the properties notice it.

### Modules that share a run

Parts that do not interact are checked by one run per area.  Its module has a rigid
variable `scenario`, chosen in the initial state, that says which part (or which
situation of one part) runs; the other parts' variables keep one value.  The
surrounding parts are instances over shared registers `v1`, `v2`, ... that each part
names as it needs them.  A property there reads `scenario = "..." => ...`; each is
broken by its mutant in the situation it is about, so none holds for want of steps.

`MC_ControlPlane`, `MC_RolloutScenarios`, `MC_Flags` and `MC_Surroundings` keep the sizes
of their parts as constants (`AuditOps`, `CatalogWrites`, `WorkOps`, `SingleSteps`,
`EndsSteps`, `MaxRequests`, `CredentialOps`, `AgentPercents`, `MaxBeats`, `MaxOthers`, ...),
to which the configuration gives the values of the checked instance, partly through the
`MC...` definitions.  What two situations do not share, such as who may act, is written
into the modules (`LeftAlone`, `Edited`, `Paused` of `MC_RolloutScenarios`).  The theorems
are about these modules with the constants left open, so they and the run speak of the
same formula.

### DeployEngine

`row` is the `deployments` row reduced to status, traffic and whether the two
timestamps are set; `Absent` before it exists.  `phases` is the table of phase rows
in insertion order with their `sort_order` and status.  `msg` is
`deployment.created`, `rollout` says whether a rollout of this deployment is wanted,
active or over.  `drv[w]` is a goroutine in `driveDeployment`, with its copy `d` of
the row, the list of phases it loaded and its index; `ctx` is the context it runs
on.  `req[c]` is an API request with the row it read (`base`) and the row it is about
to write (`d`).

`CreateDeployment` inserts and publishes, `AttachRollout` follows as a step of its
own.  `Deliver` starts a driver; `Get`, `Guard`, `StartRunning`, `LoadPhases`,
`CreatePhase`, `Activate`, `ShiftTraffic`, `Bake`, `FailPhase`, `TriggerRollback`,
`ManualGate`, `PassPhase` and `Complete` are the calls of `driveDeployment` in its
order.  What a bake finds (healthy or not) is a choice, its duration is not
modelled.  `ReadForOp` and `WriteForOp` are the read-and-check and the write of
every service operation; `Advance` has two more steps in between.  `RepoError` is a
repository call that fails, `Crash` takes the process with all goroutines and
requests.  The driver `Advance` starts runs on the HTTP request's context:
`RequestEnds` cancels it, after which `CancelledDriverExits` is all it can do.

### RolloutEngine and RolloutPromise

`ro` is the `rollouts` row (status, `current_phase_index`), `phases` the statuses of
the phase rows, `pct` the target's percentage.  A replica's consumer handles its
`inbox` one message at a time; `Deliver` may hand out the same message again as long
as nobody has acknowledged it, up to `MaxDeliver`.  `drv[w]` has the locals of
`DriveRollout` and `runPhase`, the engine's own copy of the status among them.  The
poll loop is `Poll`, whose `Verdict` is the chain of tests of one tick: abort
conditions, approval, health and bake time, `max_duration`.  Durations count polls
and stop at `Horizon`, beyond which no test can tell them apart.  Writes whose error
the engine ignores may be lost (`WriteRollout`, `WritePhase`, `Revert`), calls whose
error it returns end the driver (`DriveError`).  Phase rows are inserted by one
statement in a transaction.  The six controls are `ReadForControl` and three
statements that can each fail: `WriteControl` (the status; its error ends the
request), `RecordControl` (the event; its error is ignored) and, for a rollback,
`RevertControl`.  `CutOff` is the death of the process between any two of them.
`events` has the events that are `stored`, and those that are `lost`, which only
`RollbackHasRecordedCause` looks at.  `ValidateStrategy` is the code's validation of a
strategy and an assumption on the constant `Steps`.

The branch of the poll loop that sets a rollout to `awaiting_approval` cannot be
taken: it requires that the engine's copy of the status is not `active`, and the
copy is set to `active` before the loop.  The model has the test as the code has it
(`AwaitApproval`), and the run `rollout_approval` shows the consequence.

`RolloutPromise` says the same of a rollout as its target sees it: exposure only
grows, it is complete before the rollout succeeds, it goes back in one step and
after the row says so, and what ended stays ended.  One replica of `RolloutEngine`
implements it through crashes and redelivery, with `status` mapped to the row's
status and `exposed` to the percentage.  Under controls, or with two replicas, the
promise is broken (section 6), so those situations are excluded from the mapping.

### RolloutGroup

The coordinator sees the engine only through what it stores and publishes, so a
driver here is just start, success or rollback, and publication (`EngineStart`,
`EngineSucceeds`, `EngineRollsBack`, `EnginePublishes`).  `hnd[h]` is `OnRollback`
in a replica: `Lookup`, `GetPolicy`, `ListSiblings`, then per sibling `CheckSibling`,
`WriteSibling`, `PublishSibling`, `RevertSibling`, with the early return at the
first sibling that refuses (`CheckSibling`, `HandlerError`).  `mail[r]` counts
messages about r's rollback.  Operators use controls, attach rollouts to groups and
change policies.  Three history variables serve the properties: `trail`, the rollouts
with a rollback event of the engine or of an operator in the audit log, `owed`, the
pairs of a rollout and a sibling that was active or paused in the same cascade group
when it was rolled back, and `revived`, the rollouts that a write based on an older
status made live again after they had ended.

### RollbackController

`ctx[d]` is the controller's `rollbackContext`, `cool[d]` the age of the last
recorded rollback, `act[a]` what a goroutine is doing: the monitor's, or that of a
manual rollback request.  The monitor's round is `StartRound` (snapshot),
`RunChecks`, `StoreHealth`, then the callback: `OnHealthUpdate` under the lock,
released, and `handleUnhealthy` or `handleHealthy` under it again.  `Execute` runs
without the lock, `recordRollback` and `transitionTo` each take it.  Time is a
`Tick`; ages stop at the limit they are compared with.  `calm` is history: how long
ago the controller last saw the deployment healthy or new.


### FlagTargeting and FlagEvaluation

`FlagTargeting` is the pure part: a rule's conditions with their operators, the
percentage, user target, segment and attribute forms, and `ValidRule`.  Values are
sequences of digits and other characters, so that the numeric operators can meet a
value they cannot parse.

In `FlagEvaluation`, `db` is what PostgreSQL has of one flag, `cache` the three Redis
keys (`flag`, `id`, `rules`) with an age, `flight` the shared database calls of each
replica.  `req[q]` goes through `GetFlag`, `CheckEnabled`, `GetRules`,
`ReadRuleStates` and `SetSegment` in the evaluator's order, with `FlagFlightDone`,
`SetFlag`, `SetFlagId`, `RulesFlightDone` and `SetRules` on a miss.  A writer `wr[w]`
does one of the service's writes and then `InvalidateGetId`, `InvalidateFlag` and
`InvalidateRules`, the three commands of `Invalidate`; `Drop` ends it anywhere, by a
crash or a failed command.

Look-ups of an evaluation fail as in the code, each in its own way: without the
environment's state it goes on with the flag's own (`CheckEnabled`), without the rules'
states no rule is served (`RuleStatesFail`), a rule whose segment cannot be loaded is
skipped, a failed shared call fails all who wait for it (`FlightFails`).  A failed GET of
Redis is a miss and a failed SET an entry that expires at once.  `req[q].lost` names the
look-ups that failed.  `Reference` is the evaluator's promise over the database alone,
given what was lost, against which `UndisturbedIsExact` compares an evaluation that met
no write and no stale entry: it answers as if the environment's state, or the rules, did
not exist whose look-up failed, and nothing else changes the answer.  In the run only the evaluation of a
flag without an environment goes on after a failed look-up (`GoesOn`, a constant of
`MC_Flags` that the theorems leave open), and `UnboundCalls` bounds how often one is
begun: the row of such a flag is never found in the cache.
Ghosts: `ver` counts writes, an entry's `late` says that a write came between the
read it holds and its storing.

### FlagLifecycle

`row[f]` has the lifecycle columns of a flag, or `Gone`.  Requests archive,
unarchive, queue a deletion, restore, schedule and cancel a removal.  Each node's
scheduler lists what is due (`ListDue`) and marks one flag after the other
(`MarkFired`, conditional); each sweeper lists a batch (`ListExpired`), deletes
(`HardDelete`, conditional) and writes an audit row (`AuditDeletion`).  Restarts come
between any two statements.  `active` remembers when a flag was last not archived.

### Staging

One user's staged rows by the key of the unique index, production rows, and up to
two deployments under way.  `Load`, `Dispatch` (row by row, in `Commit`'s order),
`CommitTx`, `WriteAuditLog` and `CutOff` are the steps of a deployment; `Stage`,
`DiscardOne`, `DiscardAll`, `sweepOnce` and `Edit` come between.  Creates ride the
transaction, the other handlers call services that write at once (`Mutate`).  A change
that is staged again keeps its row's id and gets a new revision (`Upsert`).  A staged
update carries a whole flag, or only the fields of the dashboard's settings form; the
overlay shows it in the place of the production row (`Replaced`), the deployment
validates it and writes every column but `archived_at`.
`applied` is history: which revision was put into production by which deployment.

### AuditRevert

A request reads the flag, writes it and appends to the trail, in three statements;
a revert reads its entry and the flag (`CheckRevert`), for some actions reads again
(`Reread`), and writes (`ApplyRevert`).  `turn` names the request that wrote last,
which is what "undisturbed" refers to.

### RuleRollout

The edit request reads the rule's percentage (`PreviousPercentage`), looks for a live
rollout (`AttachConfig`) and inserts its own (`Create`).  The engine's driver
activates, reads the rule and writes the row back (`ApplyRead`, `ApplyWrite`), passes
the phase or rolls back; the operator's rollback and plain edits come between.  A revert
is a read of the rule and a write of all of it as well (`EngineReverts` and
`EngineRestores`, `OperatorReverts` and `OperatorRestores`).  Calls whose error the code
drops or only reports may fail, within the bound `Faults`: the read of the previous
percentage (it is 0 then), the search for a live rollout (none is found then), a status
write, a revert.  `failed` records which of whose did.  A rollout is driven once here;
redelivery and the engine's own concurrency are `RolloutEngine`'s subject.  Ghosts:
rollouts whose rule somebody else wrote since their request read it (`disturbed`),
requests whose search and insert overlapped (`overlap`), and edits that some write of a
whole row took out again (`lost`).

### StrategyCatalog

One strategy name at three scopes (organization, project, application), defaults
keyed by environment and target, one policy.  `Update` carries the version the client
read; `DeleteCheck` and `SoftDelete`, `DefaultLookup` and `DefaultUpsert` are the two
statements each of a deletion and of a default put by name.  `Resolve`, `ByName`,
`EffectiveList`, `Mandated` and `AttachOutcome` are the resolver and the attacher as
operators over the tables.  What they find depends on what the caller knows of the
scopes above (`Knowledge`): the attacher of a deployment names the application and
nothing above it, that of a rule the application or the project, and the organization
where the look-up of the project succeeds (`Attaches`).  No attacher names an
environment, and a look-up that fails has found nothing (`failing`).  Deletion is soft
and keeps the name taken.

### Workspace

`role` is `org_members`, `grants` is `resource_grants`, `item` a project and its
applications with their deletion stage.  `CountOrgOwners` and `WriteMember` are the
two statements of a demotion or removal; `DeleteCount`, `DeleteActivity`,
`SoftDelete`, `HardDeleteCheck`, `HardDelete` and `Restore` those of the life of a
project or application.  `ResolveAccess` is the middleware's computation,
`ListProjectsByOrg` and `ListAppsByProject` the conditions in the listings' SQL, the
filter on soft-deleted rows and `include_deleted` among them (`Shown`); `listAppsByOrg`
goes through the projects the first one lists.

### What surrounds the control plane

* `DeployReports`: the deployments that others report.  `rows` are deployments in
  order of creation, `events` the dedup table.  A platform's webhook, a GitHub
  workflow event and the application's status report are sequences of statements.
  `LatestBuild` is what the organization's board shows of CI.  The board of
  `currentstate` only reads and is left out (see *Filtered listing* in section 6).
* `Credentials`: API keys (create, then retire the old one), refresh tokens (check
  the block list, trade, block), one session and one `users` row.
* `Releases`: read, check, write, announce, for every operation of a release.
* `Webhooks`: edits, test deliveries (record, call, record) and deletion.
* `Notifications`: consumers of two processes, `Dispatch` over the channels in
  order, PagerDuty's map of incidents per process and PagerDuty itself.
* `Preferences`: the store hands out a pointer, so handlers merge outside its lock.
* `FlagStream`: a replica's broadcast after a write, the client's buffer there, the
  stream's goroutine with its back-off, and the listing in another goroutine.  The API
  answers a fetch with two reads, the flag's (`fetchFlag`) and its environment's state
  (`getFlag`), and with the flag's own value where the second fails.
* `Agent`: the stream's callback, the xDS snapshot, the reporter, heartbeats.
* `ApiRoutes` has a record for each route: the references it takes and in which
  form, the fields it needs, takes, ignores, resets and rejects, the keys of its answer, and
  what it does to rows of which kind.  `CliCommands` and `McpTools` map each command
  or tool and each choice of its options to the requests it sends.  `Commands` runs
  one of them while somebody else deletes, recreates and renames rows and answers get
  lost.  The tables `Unserved`, `Dropped`, `Blank` and `Reset` are the known
  disagreements; `CommandsAreServed` says that they are exact: a command is refused,
  loses a field or shows nothing where the tables say so and nowhere else.


## 3. The runs

| Run | Distinct states | What it checks |
|---|---|---|
| `engine_races` | 629,020 | Two drivers, two requests with all seven operations, recorded, rolling, canary and rollout-owned deployments, one crash or failed call.  `TimestampsMatchStatus`: whatever overwrites what, the stored timestamps fit the stored status; `OnlyStaleWritersBreakTheStateMachine`: a move against `validTransitions` only ever comes from a writer whose copy was out of date. |
| `deploys` | 426,961 | Four situations.  *gates*: a ramp with a manual gate, `Advance` and the other operations except pause, one fault: `GatedRampIsWhole` (one driver, phases in order, completed after all of them), `FullTrafficWhenPromoted`.  *redelivery*: publication and acknowledgement may get lost, two drivers: `RedeliveredCanarySettles` (liveness).  *manual*: the monitor beside two manual rollbacks and a failing executor; *shared*: two deployments in one monitor: `RollbacksAreEarned`, `RollingBackHasAGoroutine`, `SharedMonitorRollsBack` (liveness). |
| `engine_advance` (violation) | | `AdvanceResumes`: a driver started by `Advance` gets the deployment to its end or to the next gate.  Refuted: its context ends with the request. |
| `rollout` | 166,167 | *single*: one replica, three steps, any signals including unreadable ones, redelivery and two crashes: `EngineKeepsPromise`, the refinement of `RolloutPromise`.  *controls*: all six controls, statement by statement, against the engine, with one lost write or failed call and one crash of the driver or of a request.  *ends*: two replicas on one rollout: `ReplicasEndTheRollout` (liveness).  `OutcomesAreTrue` joins what each situation's rows must say about the end. |
| `rollout_approval` (violation) | | `ApprovalGateHolds`: a phase with an approval gate passes only after an approval.  Refuted: the gate tests the engine's own copy of the status. |
| `group` | 1,014,121 | *cascade*: three driven rollouts in one cascade group, one redelivery, one handler crash: `UndisturbedCascadeReachesAll` (liveness).  *edits*: two rollouts, two handlers, controls, regrouping and policy changes, a failed call and crashes.  *pause*: a cascade beside one pause whose write comes late, and a failed write.  `BlameHasARoot` in all three. |
| `flags_cache` | 685,883 | Two evaluations that share their replica's calls, one writer with any of the service's writes, a crash or a failed command; a flag without an environment, whose row is never found in the cache, is evaluated once, with look-ups that may fail.  `UndisturbedIsExact`, `StaleRulesAreExplained`, `CacheConverges` (liveness). |
| `flags_lifecycle` | 871,260 | Two schedulers, one sweeper, two flags, restarts.  `FiresOnce`, `RetentionHonoured`, `NothingIsForgotten` (liveness). |
| `staging` | 3,610,730 | Two deployments of seven kinds of rows beside staging, discarding, the sweeper, an edit, a cut-off.  `CommitsAreWhole`; `OnlyRestagedChangesAreLost`: a row disappears unapplied only if it was staged again while a deployment had it loaded; `SeenIsDeployed`: what the overlay showed is what a deployment makes of the flag, the archive mark of an update excepted. |
| `staging_atomic` (violation) | | `DeployIsAtomic`: a deployment that is answered with a failed row has changed nothing.  Refuted: the services do not take part in the transaction. |
| `controlplane` | 4,649,658 | `AuditRevert`, `RuleRollout`, `StrategyCatalog` and `Workspace`, two clients each.  `RuleOutcomeShows`, `RuleNeverStepsBack`, `AuditReverts`, `CatalogKeepsEdits`, `CatalogResolves`, `WorkListedIsAccessible`, `WorkChangesAreExplained`. |
| `surroundings` | 2,123,446 | The nine parts of the last section of section 2.  `ReportsHold`, `CredentialsHold`, `ReleaseIsWhole`, `DeliveriesHold`, `StreamHolds`, `SidecarHolds`, `LostWritesAreExplained`, `CommandsAreServed`, `CommandsHitTheNamed`. |

Every property of a passing run has a mutant in `PROJECT.json`: with the named
definition replaced by its mutant, TLC finds the property violated under the same
configuration.

Several properties have the form "this happens only if ...": where the code has a
race, the property names that race as the only cause, which is the strongest that
holds and what a repair must not make worse.  Their causes are ghosts that the
actions set at the moment of the race, or the fact that a request's copy is older
than the row.


## 4. Bounds and fairness

**Bounds.**  Two drivers, two requests or two clients are enough for every
read-check-write race: each is between a writer and one that overtakes it; a third
would only overtake again.  Two or three steps give a first, a middle (gated) and a
last one.  `MaxDeliver` is 1 to 3 instead of 5: what matters is whether a message is
delivered once, again while it is handled, or again after a crash.  `MaxOps`,
`MaxFaults`, `MaxCrashes`, `MaxDups`, `MaxWrites`, `MaxEdits`, `MaxStages`,
`MaxRequests`, `MaxBeats`, `MaxInFlight`, `MaxTroubles`, `Faults`, `UnboundCalls`,
`MaxOthers` and the like bound how often the environment acts and appear only in guards of its actions.  Windows,
cooldowns, the cache's time to live and the retention of one or two ticks tell "before", "at"
and "after" the limit apart.  The health threshold, the error rate and the abort condition need a value on
each side.  The cascade has three rollouts because two siblings of one origin are
what early returns and crossing cascades need.  A sweep takes one flag (`BatchSize`)
of two, so that one that cannot be deleted can stand in the way of the other.  Two
rows of every kind, the named one and another's, are what a command can confuse.
`controlplane` has one application per project and one name per scope, each with the
scopes above it, so that every level of the resolution occurs; `Percents`, `Settings`
and `Values` have the two values a comparison needs.  In a rollout of a rule one
statement fails, of the first request or, if it is the read or the search before the
rollout, of the second (`MCFaults`), and plain edits set a percentage between the steps of
the strategy, so that one step lowers it and the other raises it.  Where a property needs a
restriction of the environment, the configuration has it and section 6 says what
happens without.

Symmetry is used for interchangeable drivers and requests in safety runs only.  Most
configurations switch the deadlock check off: a deployment, rollout or request that
has ended, with the environment's bound used up, leaves nothing to do.
`RolloutGroup` has the explicit action `Finished` for that.

**Fairness** is weak and covers what the runtime owes: JetStream delivers a stored
message and a consumer takes it, a goroutine that can run does, a request in
progress goes on, an HTTP handler returns, tickers fire and time passes.  In
particular each poll of a rollout's `runPhase` happens, each bake ends (both are
timers), the schedulers and sweepers of `FlagLifecycle` run again after a restart,
and an evaluation in `FlagEvaluation` goes on; its writers owe nothing, since they
may have crashed.  Nothing is assumed about operators, faults, crashes, health, or
about when a phase of another rollout ends (`RolloutGroup`).  The scenario modules
state the fairness of the situations that a liveness property is about.


## 5. The proofs

Eight modules hold theorems.  Each theorem is about every value of the constants that
satisfies the named assumptions of the modules, which TLC evaluates in every run, and
under the hypotheses given here and nothing else.  Thirty-three of the forty properties
that the passing runs check are stated by a theorem (`theorems` in `PROJECT.json`): every
invariant and every action property but one, `CommandsAreServed`.

| Module | Theorem | Statement |
|---|---|---|
| `DeployEngineProofs` | `TypeCorrect` | `Spec => []TypeOK`; no driver indexes a phase row or a step that is not there. |
| | `TimestampsAlwaysMatch` | `Spec => []TimestampsMatchStatus` |
| | `FullTrafficAlways` | `Spec => []FullTrafficWhenPromoted` |
| | `OnlyStaleWriters` | `Spec => OnlyStaleWritersBreakTheStateMachine` |
| | `GatedRampAlwaysWhole` | with `Gated`: at most one driver, phases in order, completed after every phase |
| | `GatedRampIsAlwaysWhole` | the last for `MC_DeployScenarios` (`Gated`) |
| | `RollingBackAlwaysHasAGoroutine` | `ScenarioSpec => []RollingBackHasAGoroutine` |
| | `RollbacksAreAlwaysEarned` | `ScenarioSpec => RollbacksAreEarned` |
| `RollbackControllerProofs` | `RollingBackAlwaysInProgress`, `NeverFlaps` (with `CarefulCallers`), `AutoRollbackIsAlwaysEarned` | what the two above rest on, for `RollbackController` alone |
| `RolloutEngineProofs` | `RolloutTypeOK` | `Spec => []TypeOK` for every strategy that `ValidateStrategy` accepts |
| | `RollbacksHaveACause` | with `OneReplica`: `Spec => []RollbackHasRecordedCause`, the lost events being the exception it names |
| | `SoleOutcomes` | with `Sole`: succeeded means 100 percent, rolled back without a crash means reverted |
| | `SoleKeepsPromise` | with `Sole`: the specification implements `RolloutPromise` |
| `RolloutScenarioProofs` | `OutcomesAreAlwaysTrue`, `EngineAlwaysKeepsPromise` | both for `MC_RolloutScenarios` (`OneReplica` in the situation *controls*) |
| | `BlameAlwaysHasARoot` | `GroupSpec => []BlameHasARoot`, for any rollouts, groups, handlers and callers |
| `FlagLifecycleProofs` | `FiresOnceAlways` | `LifecycleSpec => []FiresOnce` |
| | `RetentionAlwaysHonoured` | `LifecycleSpec => RetentionHonoured` |
| | `UndisturbedIsAlwaysExact` | `CacheSpec => []UndisturbedIsExact` |
| | `StaleRulesAreAlwaysExplained` | `CacheSpec => []StaleRulesAreExplained` |
| `StagingProofs` | `CommitsAreAlwaysWhole` | `Spec => []CommitsAreWhole` |
| | `OnlyRestagedAreEverLost`, `SeenIsAlwaysDeployed` | `Spec => OnlyRestagedChangesAreLost`, `Spec => SeenIsDeployed` |
| `ControlPlaneProofs` | `PlaneAlwaysTyped` | `PlaneSpec => []PlaneTyped` |
| | `CatalogAlwaysKeepsEdits` | `PlaneSpec => []CatalogKeepsEdits` |
| | `CatalogAlwaysResolves` | `PlaneSpec => []CatalogResolves` |
| | `WorkListedIsAlwaysAccessible`, `WorkChangesAreAlwaysExplained` | the two properties of `Workspace` |
| | `AuditAlwaysReverts` | `PlaneSpec => AuditReverts` |
| | `RuleOutcomeAlwaysShows`, `RuleNeverEverStepsBack` | the two properties of `RuleRollout` |
| `SurroundingsProofs` | `ReleaseAlwaysWhole` | `SurroundSpec => []ReleaseIsWhole` |
| | `DeliveriesAlwaysHold` | `SurroundSpec => []DeliveriesHold` |
| | `CredentialsAlwaysHold` | `SurroundSpec => []CredentialsHold` |
| | `ReportsAlwaysHold` | `SurroundSpec => []ReportsHold` |
| | `StreamAlwaysHolds` | `SurroundSpec => StreamHolds` |
| | `SidecarAlwaysHolds` | `SurroundSpec => []SidecarHolds` |
| | `CommandsAlwaysHitTheNamed` | `SurroundSpec => []CommandsHitTheNamed` |
| | `LostWritesAreAlwaysExplained` | `SurroundSpec => LostWritesAreExplained` |

### The hypotheses

* `Gated`: one delivery, no pause, one caller at a time.  Without it the statement is
  false: section 6 (*Interrupted insert*) has the second delivery, and two requests, or
  a pause between an `Advance`'s steps, start a second driver.  `deploys.cfg` satisfies it.
* `OneReplica`: with two, the second may overwrite the failed phase that is the cause of
  the first one's rollback.  `Sole` adds that nobody uses a control and no write is lost;
  section 6 says how the promise is broken without.  `rollout.cfg` has one replica in
  *single* and *controls*, and *single* is `Sole`.  Crashes and redelivery stay in both.
* `CarefulCallers`: nobody watches or unwatches a deployment whose rollback is under way
  (section 6, *Re-watching*).

The named assumptions say that constants have their types, that bounds are naturals and
that `None` and the like are no value of the code's; `StrategyAssumption` is
`ValidateStrategy`, `PreviousAssumption` what `AttachConfig` refuses.  One is of another
kind: `PlansAssumption` depends on no constant.  It says of the plans of the commands and
tools, as `CliCommands` and `McpTools` spell them out, that look-ups come before what uses
them and stop the command when they fail, and that only the last request changes something
(`Commands!SoundPlan`).  It is a fact about tables, which TLC establishes by evaluating
every plan, and `CommandsAlwaysHitTheNamed` is true of every table of which it is.

### The inductive invariants

None of the properties is inductive as it stands.  They fail for three reasons, and the
invariants have three kinds of conjuncts to match.

*A stored row is overwritten by copies.*  A row that is consistent now may be overwritten
by a copy somebody read long ago, so an invariant about the row alone says nothing about
the next state.  `IndInv` of `DeployEngine` says of every copy what the theorems say of
the row: `RowOK` of the stored row, `DriverOK` of each driver (its copy is consistent, its
status is the one its program counter requires, its index lies in the list it loaded),
`CallerOK` of each request (the row it will write is the result of its operation on the
row it read, and the check passed).  A write then replaces one consistent row by another
whatever came in between, and a writer that holds the *current* row holds one from which
its move is legal.  `ReleaseCopies`, `EditInv` (webhooks), `SaveInv` (preferences) and
`RequestInv` (strategies) are the same idea.  Where the writes are counted, they also say
that a copy whose count is current equals the row, from which the "only a write in
between" properties follow.

*A check is made in one statement and used in a later one.*  What the check found must be
carried to the statement that uses it, together with what may have changed since.
`CountInv` and `LookInv` (owners, access), `KeysInv` and `TokensInv` (a successor that
somebody is about to mint), `SearchesHold` (the rows a search has seen), `Alone`, `Newer`
and `Blamed` (rule rollouts: what is alone with the rule, which edits a row read for a
step or a revert has, whom two live rollouts have to blame), and `EntryInv` (what a revert read) say so for each request
between its statements.

*What happened is remembered by an actor, not by the row.*  Between the mark and the event
of a scheduled removal only the scheduler knows of it, so `OnceInv` says of the events to
come what `FiresOnce` says of those sent.  The rollback controller releases its mutex while
the executor runs, so `LockInv` ties each goroutine at work to the state `ROLLING_BACK`,
and makes it the only one.  `WorkersHold` says which channels a consumer has reached from
its place in `Dispatch`; `OpenIsHeld` who will track an incident that is open;
`ReadIsExplained` why what a goroutine is about to cache is not what the API shows.

The invariants of the other modules are of these kinds as well:

* `EvalInv`: every copy of a row of the flag that is under way, in a shared call, in an
  evaluation's locals or in Redis, carries the count of writes at its reading.
  `CopiesHold` says that a copy of the rules as new as the table is the table, from which
  `StaleRulesAreExplained` is inductive.  `QuietHold` says that while an undisturbed
  evaluation runs everything cached and under way is current, and that what it has read is
  the row; `SkippingTheSegment` that an evaluation without a cached segment looks at what
  `Reference` looks at.
* `StagingInv`: a staged row is known by its id.  `OneKeyPerId` ties ids to keys across
  the table and the deployments that loaded them, `DispatchedIsDone` says where a row is
  that a deployment need not dispatch any more, `CreatesPending` that a creation is in
  production or staged but not both.  `SeenComes` is the other direction: what a
  deployment alone with a flag saw is what its remaining change will make of it.
* `GroupInv`: the question is why a chain of reasons ends.  `BlamedAreOver` says that
  whatever is blamed, or about to be blamed by a message, a handler or a row, has ended or
  has an excuse.  A handler blames its origin, which is over, and writes that into a
  sibling that was live when it looked, which nobody blames: the new reason closes no
  circle (`Rooted` with `Blames`, which counts the reason a handler is about to write).
* `AgentInv`: heartbeats have times of their own (`BeatsDiffer`), a version stands for one
  set of weights outside a callback (`BeatsAgree`), and the rows beyond the limit are
  counted by the requests between insertion and pruning and by those cut off there
  (`BeatsCounted`).  `NewestAreFew` and `SharesAreWhole` say of pruning and of the shares
  of weights what the code relies on.
* `CmdInv`: `NamesInv` compares the world now with what has borne the name since the
  command began, `LookedUp` says that an id in use bore it, and `CmdActed` that a command
  whose answers all arrived has changed something at most once, and then reports so.
* `DefaultsResolve` needs no state: the resolver's nested look-ups go through scopes and
  keys in lexicographic order, so their first hit has the least rank.

The ramps need positions.  `GateInv` says that the phase rows are passed up to a driver's
index and pending beyond it, that a deployment resting at a gate has no driver, and that a
request that read it there keeps it at rest.  `SoleInv` cannot speak of the driver alone,
since after a crash another one goes on from what is stored: `RampInv` therefore speaks of
the phase with which the next listing would begin (`Next1`), bounds the percentage by
that phase's, and `AtPhase` says that the running driver is at just that phase.
`SoleKeepsPromise` uses it for the step simulation: every step of the engine is a step of
`RolloutPromise` or leaves `status` and `exposed` alone.

The scenario modules carry the results over: the situation never changes, so the
invariant of each is one conjunct (`SituationInv`, `PlaneInv`, ...), and a step of the
composition is a step of the part at hand.

### What is only model-checked

* *Liveness* (`RedeliveredCanarySettles`, `SharedMonitorRollsBack`,
  `ReplicasEndTheRollout`, `UndisturbedCascadeReachesAll`, `CacheConverges`,
  `NothingIsForgotten`): it needs fairness and `ENABLED`, which are out of the prover's
  reach.
* *The content of tables*: `CommandsAreServed` compares each of the requests that some 420
  choices of options send with the record of its route.  The tables of disagreements are
  the statement; a proof would evaluate them once more, which is TLC's work.

The theorems state what the runs check, word for word.  `RolloutGroup` has the ghost
`revived` because the proof of `BlameHasARoot` cannot do without it, for the reason given
in section 6 (*Stale pause*).


## 6. Observed disagreements

Three are kept as runs that must find a violation (`findings` in `PROJECT.json`):

* `engine_advance`: `Advance` hands the request's context to the goroutine it
  starts (`deploy/engine/engine.go:126`); the deployment stays `running`.
* `rollout_approval`: the approval gate never blocks
  (`rollout/engine/engine.go:153`), though `docs/Rollout_Strategies.md:22` says
  "pauses until granted".
* `staging_atomic`: a deployment that fails half-way leaves what it had changed
  through the services (`staging/service.go:174`), though
  `docs/superpowers/specs/2026-04-30-staged-changes-and-deploy-workflow-design.md:162`
  says that it commits the rows atomically.

The next ones were found with the same modules by lifting the restriction that is
named, or by checking a definition that no configuration lists; they explain why the
passing configurations have what they have.

Deployments and rollouts:

* *Stale rows.*  A driver writes back as `running` what an operator has meanwhile
  rolled back or cancelled (`deploy/engine/engine.go:241`), against
  `models/deployment.go:70`.  `OnlyStaleWritersBreakTheStateMachine` is the exact
  form of this: it is the only way.
* *Crash after the acknowledgement.*  `RedeliveredCanarySettles` fails with a fault:
  nothing takes the deployment up again.
* *Interrupted insert.*  `CompletedAfterEveryPhase` fails with `MaxDeliver = 2` and
  `Lossy`: a short list of phases is taken for the whole ramp
  (`deploy/engine/engine.go:202`).
* *Two owners.*  The rollout is attached after `deployment.created` is published
  (`deploy/handler.go:247`), so the phase engine's guard can miss it, and both drive.
* *Traffic after a rollback.*  `RollbackDeployment` leaves the traffic percentage as
  it is (`deploy/service.go:190`); `docs/Deploy_Integration_Guide.md:811` says it is
  set to 0.
* *Controls are not read.*  The poll loop never looks at the stored status: a paused
  rollout goes on to the next step (`rollout/rollout_service.go:110` says "Pause
  freezes"), and one that an operator rolled back is stored as succeeded.
  `RolloutPromise` is broken as soon as there is a control, or a second replica that sets
  the rollout active again.
* *Crash before the revert.*  The engine stores `rolled_back` before it reverts; a
  crash in between is never made good.  The same crash loses the publication, and
  with it the cascade (`CascadeReachesAll` with `MaxEngineCrashes = 1`).
* *Lost phase write.*  A lost `passed` write and a crash between `Apply` and the
  pointer's write let the next driver apply a smaller step (`RolloutPromise` with
  `MaxFaults = 1`).
* *Lost reason.*  A control's event is inserted after its status is written, and the
  insert's error is ignored (`rollout/rollout_service.go:190`, `:194`, `:207`): a rollout
  may be rolled back with no cause stored.  `RollbackHasRecordedCause` names this as its
  exception.  The revert that follows is not retried when it fails.
* *Unreadable signal.*  A poll that cannot read the signal skips the rest of the
  tick, the `max_duration` test too, so `ReplicasEndTheRollout` needs
  `SignalErrors = FALSE`.
* *Stale pause.*  A pause that read the rollout before a cascade reached it is written
  after it (`rollout/rollout_service.go:190`): the rollout is paused instead of rolled
  back, is a sibling again, and is blamed on the one that had been blamed on it.  The
  reasons then run in a circle, which `BlameIsRooted` allows for a revived rollout only;
  the situation *pause* of the run `group` has it.
* *Pending sibling.*  `ActiveSiblings` lists pending rollouts, which `Rollback`
  refuses, and the coordinator stops at the first refusal (`rollout/coordination.go:65`):
  active siblings after it are not reached.
* *What a rollback of a rule restores.*  `AttachConfig` "captures the current
  (pre-rollout) percentage" (`rollout/rollout_service.go:76`); it is given one that the
  handler read before the search.  `RuleRollout!CapturesPreRollout` fails.
* *Dropped errors of a rule's rollout.*  A failed search for a live rollout finds none
  (`rollout/rollout_service.go:79`), so a second one is inserted without any race.  A
  failed `Revert` leaves the rule as exposed as it was (`rollout/engine/engine.go:230`).
  A handler that cannot read the previous percentage goes on with 0
  (`flags/handler.go:1283`), which is then what a rollback restores.  The properties of
  `RuleRollout` name each as an exception (`failed`).
* *Edits during a step or a revert.*  Both read the whole rule and write all of it back
  (`cmd/api/main.go:1038`): an operator's edit in between is overwritten.
  `EditsBeforeThePhaseStay` is about the edits before the read.
* *Mandate.*  Under `mandate` "every qualifying change must resolve to a strategy"
  (`docs/archives/2026-04-18-configurable-rollout-strategies-design.md:315`); a
  change for which nothing resolves is applied at once.
  `StrategyCatalog!MandateHonoured` fails.
* *Scopes of a deployment.*  A deployment's attacher names neither project nor
  organization (`cmd/api/main.go:985`), so their strategies, defaults and policies do not
  apply to deployments, and no attacher names an environment, so what is kept for one
  environment applies to no attach at all.  `ListedIsAttached` is stated for the scopes
  and keys that the caller names.  A look-up that fails has found nothing, a mandate too.
* *Re-watching.*  `Watch` of a deployment whose rollback is running resets it, and a
  second rollback begins beside the first: `RollbacksAreEarned` needs
  `CarefulCallers`.
* *Failed manual rollback.*  It leaves the deployment `ROLLING_BACK` for good
  (`rollback/controller.go:341`).
* *Unwatch.*  A round of the monitor that began before `Unwatch` stores its result
  afterwards, and the deployment is monitored again (`health/monitor.go:189`).
* *Five deliveries.*  After `MaxDeliver` JetStream gives the message up
  (`platform/messaging/nats.go:100`): a rollout whose drivers crashed as often stays
  active, `ReplicasEndTheRollout` is stated for one that is driven.
* *Stream subjects.*  `cmd/api/main.go:819` creates the stream without
  `rollouts.>`; the model assumes that rollout messages are stored and delivered.
* *Filtered listing.*  The condition on terminal statuses adds an argument without a
  placeholder (`postgres/deploy.go:160`), so the listing of active deployments fails.
  `currentstate/service.go:81` says "pick the newest active for (app, env); fall back to
  the newest completed"; the error is passed over, and what it falls back to is the newest
  deployment of any status.

Flags, staging and workspace:

* *Provisional ids.*  Creates are dispatched before references are rewritten, against
  the comment at `flags/staging_commit.go:258`: a staged rule of a staged flag meets
  the guard with the provisional id.  `Staging!RefsAreResolved` fails.
* *Staged again while deployed.*  Staging a key again replaces the row but keeps its id
  (`postgres/staging.go:46`), and a deployment deletes the ids it had loaded.  A change
  that is staged over one being deployed (`staging/service.go:113`) is deleted with it,
  unapplied, though the design describes `production-current -> latest-staged-value` as
  what is deployed
  (`docs/superpowers/specs/2026-04-30-staged-changes-and-deploy-workflow-design.md:133`).
  `OnlyRestagedChangesAreLost` has this as its only exception.
* *Archive mark of an update.*  The overlay replaces the whole flag by a staged update
  (`flags/handler.go:1770`), the archive mark included, and `UpdateFlag` does not write
  that column (`postgres/flags.go:354`): the user sees a flag archived, or live again, that
  the deployment leaves as it was.  What the dashboard's settings form stages
  (`src/web/src/pages/FlagDetailPage.tsx:649`) lacks the project, so the deployment's
  `Validate` refuses it (`models/flag.go:184`).
* *Failed look-ups of an evaluation.*  Without the environment's state the flag's own is
  used (`flags/evaluator.go:143`), without the rules' states no rule applies
  (`flags/evaluator.go:176`), both without a sign in the answer.
* *Rule of an unknown flag.*  `DeleteRule` looks up the flag of the rule in order to
  invalidate it, deletes the rule even if the look-up failed and then invalidates nothing
  (`flags/service.go:517`): the rule is served until its entry expires.
* *Leftover date.*  Unarchiving keeps `delete_after` (`postgres/flags.go:526`): such
  a flag is listed by every sweep and never deleted, and a batch full of them starves
  the others.  `QueuedIsDeleted` has this as its exception (`Blocked`).
* *Last owner.*  "Cannot remove or demote the last owner" (`members/service.go:108`)
  is a count and a write: `Workspace!OrgKeepsOwner` fails, `OwnerLossStep` holds.
* *Revert.*  The old value in an audit entry may not be what was overwritten
  (`flags/handler.go:1505`); `RevertRestoresStep` excludes that.  An entry `flag.updated`
  can be chosen but not undone: its payload lacks the flag's type, which the revert's
  write requires (`flags/revert.go:132`).
* *Soft-deleted resources.*  They are not listed (`postgres/entities.go:246`, `:454`), but
  the look-up by slug and the access check find them.  The organization's list of
  applications goes through the projects it shows, and so leaves out an application with
  grants of its own whose project the user has none for.  `ListedIsAccessible` names both.

What surrounds them, as the modules have it:

* Platform webhooks never create a deployment: ingestion has no actor
  (`integrations/deploys/service.go:122`) and the deployment's validation requires
  `created_by`, though `docs/Deploy_Integration_Guide.md:198` describes it.  The
  deduplication has no time window.  A build row of CI counts as the current
  deployment.
* A test delivery whose error is shadowed answers `success: true`; a webhook is
  written before the organization is compared.
* The publishers in this repository leave the event's type empty, so the channels
  cannot tell events apart.  A resolution handled by another process finds no incident.
* Starting or promoting a release changes no flag; promoting to 0 percent is refused.
* The Go SDK sends `environment` where the evaluation requires `environment_id`;
  `warmCache` leaves the environment out and takes the first page of 20 flags.  Its
  back-off is capped at 30 s and not reset, and its 10 s HTTP timeout ends streams.
* The API answers a fetch of a flag with the flag's own value, and 200, where the
  environment does not resolve or its state cannot be read (`flags/handler.go:357`); the
  SDK keeps it as the environment's.
* The agent listens for `phase_changed` on a stream that never carries it; after a
  failed registration its heartbeats violate the foreign key.
* Command line and MCP server: the tables in `Commands` list every refused, dropped,
  blank and reset field.  Among them: `flags rules update` sends no `rule_type`
  (`flags/handler.go:1190` requires it), `deploy --app` accepts a "slug or UUID"
  (`cmd/cli/deploy.go:141`) and looks a UUID up as a slug, `settings list --target`
  takes the slug of its examples (`cmd/cli/settings.go:25`) where the route wants a
  UUID, `flags toggle --env` erases the environment's value, `flags set-value` resets
  what it was not given, `rules add --disabled` is ignored, `apikeys create` does not
  show the key, `deploy create --strategy blue-green` is refused
  (`cmd/cli/deploy.go:48`, `models/deployment.go:187`), `--mode record` forgets a named
  strategy and `--apply-immediately`, `flags update` with an empty default or description
  changes nothing (`flags/handler.go:569`), `ds_create_deployment` is always refused, and a
  lookup by key overlooks the twenty-first flag.
* Without a caller at this commit: `OAuthHandler` and `SessionManager`,
  `notifications.WebhookHandler`, `MarkStaleAgents`, `RetryFailedDeliveries`, and a
  reader of the `webhooks.event` subject.


## 7. What is not modelled

In the modelled parts: durations and clocks other than their order; score weights
and metric providers; the rollback strategies (the executor that
`cmd/api/main.go:856` wires calls `RollbackDeployment` whatever the strategy),
`EvaluateTriggers` (no caller) and history records of the rollback controller;
creating, renaming and deleting groups.  In the flags: import and export, statistics
and ratings.  In the staged changes: the resource types that are committed in the
same way as those modelled.  Texts, payload formats and signatures everywhere.  In
`ApiRoutes`: permissions and statuses, which are the other modules' subject.  In
`CliCommands`: a UUID typed for `--env`, which `deploy create` announces
(`cmd/cli/deploy.go:54`) and `resolveEnvID` never finds, since it compares slugs.
`Agent` keeps of Envoy's resources a record with clusters and weights.

Whole components, with the reason for each, are in `PROJECT.json`: health scorer and
metric providers (arithmetic over floats and HTTP clients), the platform packages for
database, configuration and metrics (I/O), the desired state handler and the
applicator router (no state), the Node and Python SDKs (for which the Go SDK stands),
the front ends.

The largest unmodelled share of the code is the scanning of rows and the decoding of
requests in repositories and handlers; its decisions are in the actions and in
`ApiRoutes`, its text is not.


## 8. Plan

Sections 2, 3 and 5 exist.  What is left is modelling: more resource types of `Staging`,
setting inheritance (`settings`), environments, and the Envoy resources of the agent.
