--------------------------- MODULE DeployReports ---------------------------
(***************************************************************************)
(* Deployments that others report, for one application and environment:   *)
(* the webhooks of deploy platforms (internal/integrations/deploys), the   *)
(* build events of GitHub (internal/integrations/github), the status       *)
(* pushes of the application itself (internal/appstatus), and the build    *)
(* that the organization's board shows (internal/orgstate).                *)
(*                                                                         *)
(* A request is a sequence of statements, with those of other requests     *)
(* between them; it may be cut off after any.  Times are numbers of begun  *)
(* requests.                                                               *)
(***************************************************************************)
EXTENDS Integers, Sequences, FiniteSets, TLC

CONSTANTS Requests, None,
          Versions,       \* versions the application reports
          Words,          \* <<action, conclusion>> of workflow_run events, "none" where
                          \* GitHub gives no conclusion
          Bodies,         \* <<provider, payload>> of the platforms' webhooks
          MaxRequests     \* bound: requests begun

VARIABLES rows,         \* deployments, in order of created_at
          status,       \* the app_status row
          events,       \* deploy_integration_events: dedup key to deployment_id
          integration,  \* the deploy_integrations row exists
          sent,         \* workflow_run events GitHub has sent, in its order
          cl, begun,
          answered,     \* history: versions whose report was answered 201
          orderly       \* history: workflow events came once each, one after another

vars == <<rows, status, events, integration, sent, cl, begun, answered, orderly>>

Idle == [pc |-> "idle"]
Terminal == {"completed", "failed", "cancelled"}

Init ==
  /\ rows = <<>> /\ status = None /\ events = <<>> /\ integration = TRUE
  /\ sent = <<>> /\ begun = 0 /\ answered = {} /\ orderly = TRUE
  /\ cl = [r \in Requests |-> Idle]

Become(r, state) == cl' = [cl EXCEPT ![r] = state]

Begin(r, state) ==
  /\ cl[r].pc = "idle" /\ begun < MaxRequests
  /\ begun' = begun + 1
  /\ Become(r, state)

-----------------------------------------------------------------------------
(* What the platforms' payloads mean.  An adapter has the event type for    *)
(* each status word, the fields tried for the version, and for the          *)
(* environment.                                                             *)

Succeeded == "deploy.succeeded"
Failed == "deploy.failed"
Started == "deploy.started"

Generic == [words |-> Succeeded :> Succeeded @@ Failed :> Failed @@ Started :> Started,
            version |-> <<"version">>, env |-> <<"environment">>]
Railway == [words |-> "SUCCESS" :> Succeeded @@ "FAILED" :> Failed
                      @@ "CRASHED" :> "deploy.crashed" @@ "BUILDING" :> Started,
            version |-> <<"deployment", "commit", "tag", "image">>, env |-> <<"environment">>]
Render == [words |-> "live" :> Succeeded @@ "canceled" :> Failed @@ "created" :> Started,
           version |-> <<"commit", "deployment">>, env |-> <<"service">>]
Fly == [words |-> "release.succeeded" :> Succeeded @@ "release.failed" :> Failed
                  @@ "release.started" :> Started,
        version |-> <<"number", "image", "commit">>, env |-> <<"environment", "app">>]
Heroku == [words |-> "succeeded" :> Succeeded @@ "failed" :> Failed @@ "pending" :> Started,
           version |-> <<"commit", "number", "deployment">>, env |-> <<"app">>]
Vercel == [words |-> "deployment.succeeded" :> Succeeded @@ "deployment.error" :> Failed
                     @@ "deployment.created" :> Started,
           version |-> <<"commit", "deployment">>, env |-> <<"target", "production">>]
Netlify == [words |-> "ready" :> Succeeded @@ "error" :> Failed @@ "building" :> Started,
            version |-> <<"commit", "deployment">>, env |-> <<"context", "branch">>]
GitHubActions == [words |-> "success" :> Succeeded @@ "failure" :> Failed
                            @@ "cancelled" :> Failed,
                  version |-> <<"commit">>, env |-> <<"forced", "branch">>]

Adapters == "generic" :> Generic @@ "railway" :> Railway @@ "render" :> Render @@ "fly" :> Fly
            @@ "heroku" :> Heroku @@ "vercel" :> Vercel @@ "netlify" :> Netlify
            @@ "github-actions" :> GitHubActions

\* The first of the fields that the payload has.
FirstOf(fields, body) ==
  LET there == {i \in DOMAIN fields : fields[i] \in DOMAIN body} IN
  IF there = {} THEN None
  ELSE body[fields[CHOOSE i \in there : \A j \in there : i <= j]]

\* The integration's own extractors come before the adapter's fields; a payload
\* without a known status or a version is refused.
ParsePayload(provider, body) ==
  LET a == Adapters[provider]
      v == IF "extracted" \in DOMAIN body THEN body.extracted ELSE FirstOf(a.version, body) IN
  IF body.word \notin DOMAIN a.words \/ v = None THEN None
  ELSE [type |-> a.words[body.word], version |-> v, env |-> FirstOf(a.env, body)]

-----------------------------------------------------------------------------
(* A platform's webhook                                                     *)

\* The integration is looked up and the signature verified before the payload
\* is parsed; an environment that is not mapped is answered 202 and forgotten.
providerWebhook(r) ==
  /\ \E b \in Bodies :
       LET e == ParsePayload(b[1], b[2]) IN
       Begin(r, IF ~integration \/ e = None \/ e.env # "mapped" THEN Idle
                ELSE [pc |-> "record", key |-> <<e.version, e.type>>])
  /\ UNCHANGED <<rows, status, events, integration, sent, answered, orderly>>

\* A replay is answered from the stored event only when that has a deployment.
Replayed(key) == key \in DOMAIN events /\ events[key] # None

\* INSERT ... ON CONFLICT DO NOTHING.  An event row needs its integration.
RecordEvent(r) ==
  /\ cl[r].pc = "record"
  /\ events' = IF ~integration \/ cl[r].key \in DOMAIN events THEN events
               ELSE cl[r].key :> None @@ events
  /\ Become(r, IF ~integration THEN Idle
               ELSE IF cl[r].key[2] # Succeeded THEN Idle
               ELSE IF Replayed(cl[r].key) THEN [pc |-> "answer", key |-> cl[r].key]
               ELSE [pc |-> "create", key |-> cl[r].key])
  /\ UNCHANGED <<rows, status, integration, sent, begun, answered, orderly>>

\* The handler passes no actor, and a deployment without one is refused
\* (Deployment.Validate): the delivery is answered 500.
Ingest(r) ==
  /\ cl[r].pc = "create"
  /\ Become(r, Idle)
  /\ UNCHANGED <<rows, status, events, integration, sent, begun, answered, orderly>>

\* Deleting the integration takes its events along.
deleteIntegration ==
  /\ integration
  /\ integration' = FALSE /\ events' = <<>>
  /\ UNCHANGED <<rows, status, sent, cl, begun, answered, orderly>>

-----------------------------------------------------------------------------
(* GitHub's workflow_run events                                             *)

statusFromEvent(w) ==
  CASE w[1] \in {"requested", "in_progress"} -> "running"
    [] w[1] = "completed" /\ w[2] \in {"success", "neutral", "stale", "none"} -> "completed"
    [] w[1] = "completed" /\ w[2] \in {"failure", "timed_out", "action_required", "startup_failure"} -> "failed"
    [] w[1] = "completed" /\ w[2] \in {"cancelled", "skipped"} -> "cancelled"
    [] OTHER -> None

Working == {r \in Requests : cl[r].pc \in {"select", "upsert"}}

\* GitHub sends the next event of the run, or an old one again.
workflow_run(r) ==
  /\ \/ \E w \in Words : sent' = Append(sent, w)
     \/ sent # <<>> /\ UNCHANGED sent
  /\ \E n \in IF sent' = sent THEN DOMAIN sent ELSE {Len(sent')} :
       Begin(r, IF statusFromEvent(sent'[n]) = None THEN Idle ELSE [pc |-> "select", n |-> n])
  /\ orderly' = (orderly /\ sent' # sent /\ Working = {})
  /\ UNCHANGED <<rows, status, events, integration, answered>>

Builds == {i \in DOMAIN rows : rows[i].by = "build"}

\* Mutant of FindBuild: the search does not find a build that is over.
X_FindBuild == {i \in Builds : rows[i].status = "running"}
FindBuild == Builds

\* UpsertBuildDeployment's SELECT ... LIMIT 1.
SelectBuild(r) ==
  /\ cl[r].pc = "select"
  /\ \E i \in FindBuild \cup (IF FindBuild = {} THEN {None} ELSE {}) :
       Become(r, [pc |-> "upsert", n |-> cl[r].n, row |-> i, seen |-> Len(rows)])
  /\ UNCHANGED <<rows, status, events, integration, sent, begun, answered, orderly>>

\* The INSERT or UPDATE: status and completed_at are overwritten unconditionally.
UpsertBuild(r) ==
  /\ cl[r].pc = "upsert"
  /\ LET s == statusFromEvent(sent[cl[r].n])
         i == cl[r].row IN
     rows' = IF i = None
       THEN Append(rows, [by |-> "build", version |-> "build", status |-> s,
                          done |-> s # "running", seen |-> cl[r].seen])
       ELSE [rows EXCEPT ![i].status = s, ![i].done = s # "running"]
  /\ Become(r, Idle)
  /\ UNCHANGED <<status, events, integration, sent, begun, answered, orderly>>

-----------------------------------------------------------------------------
(* The application's status push                                            *)

\* Report writes the status row, appends to the history, and then sees to it
\* that the version has a deployment.
UpsertStatus(r) ==
  /\ \E v \in Versions :
       /\ Begin(r, [pc |-> "check", version |-> v])
       /\ status' = [version |-> v, at |-> begun']
  /\ UNCHANGED <<rows, events, integration, sent, answered, orderly>>

HasDeploymentForVersion(v) == \E i \in DOMAIN rows : rows[i].version = v

CheckVersion(r) ==
  /\ cl[r].pc = "check"
  /\ LET v == cl[r].version IN
     IF HasDeploymentForVersion(v)
       THEN /\ Become(r, Idle) /\ answered' = answered \cup {v}
       ELSE /\ Become(r, [pc |-> "insert", version |-> v, seen |-> Len(rows)])
            /\ UNCHANGED answered
  /\ UNCHANGED <<rows, status, events, integration, sent, begun, orderly>>

\* A recorded deployment is completed from the start.
CreateRecorded(r) ==
  /\ cl[r].pc = "insert"
  /\ rows' = Append(rows, [by |-> "report", version |-> cl[r].version, status |-> "completed",
                           done |-> TRUE, seen |-> cl[r].seen])
  /\ answered' = answered \cup {cl[r].version}
  /\ Become(r, Idle)
  /\ UNCHANGED <<status, events, integration, sent, begun, orderly>>

\* The request's context ends, or the process.
CutOff(r) ==
  /\ cl[r].pc # "idle" /\ Become(r, Idle)
  /\ orderly' = (orderly /\ r \notin Working)
  /\ UNCHANGED <<rows, status, events, integration, sent, begun, answered>>

-----------------------------------------------------------------------------
(* The board                                                                *)

\* DISTINCT ON ... ORDER BY created_at DESC.
LatestBuild == IF Builds = {} THEN None ELSE CHOOSE i \in Builds : \A j \in Builds : j <= i

Next ==
  \/ \E r \in Requests :
       \/ providerWebhook(r) \/ RecordEvent(r) \/ Ingest(r)
       \/ workflow_run(r) \/ SelectBuild(r) \/ UpsertBuild(r)
       \/ UpsertStatus(r) \/ CheckVersion(r) \/ CreateRecorded(r)
       \/ CutOff(r)
  \/ deleteIntegration

Spec == Init /\ [][Next]_vars

-----------------------------------------------------------------------------
(* Properties                                                               *)

TypeOK ==
  /\ \A i \in DOMAIN rows : rows[i].status \in Terminal \cup {"running"}
  /\ begun \in 0 .. MaxRequests /\ answered \subseteq Versions

\* Two deployments of one version, or two builds of one run, are there only when
\* the search for the second came before the insertion of the first.
RowTwiceIsExplained ==
  \A i, j \in DOMAIN rows :
    i < j /\ rows[i].by = rows[j].by /\ rows[i].version = rows[j].version => rows[j].seen < i

\* A version whose report was answered is among the deployments.
AnsweredIsRecorded == \A v \in answered : HasDeploymentForVersion(v)

\* Workflow events that come once each and one after another leave one build
\* with the status of the last (UpsertBuildDeployment), and a build has a time of
\* completion exactly when it is over.
BuildIsCurrent ==
  LET handled == {n \in DOMAIN sent : statusFromEvent(sent[n]) # None} IN
  /\ \A i \in Builds : rows[i].done <=> rows[i].status \in Terminal
  /\ orderly /\ Working = {} /\ handled # {} =>
       /\ Cardinality(Builds) = 1
       /\ \E n \in handled : /\ \A k \in handled : k <= n
                             /\ rows[LatestBuild].status = statusFromEvent(sent[n])
=============================================================================
