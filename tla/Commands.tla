------------------------------ MODULE Commands ------------------------------
(***************************************************************************)
(* One command of the command line or one MCP tool runs against the API    *)
(* while somebody else deletes, recreates and renames rows, and answers    *)
(* are lost. The user means the row named "n"; of every kind there are two *)
(* rows, the second the newer one, which is another's or not there yet.    *)
(***************************************************************************)
EXTENDS McpTools

CONSTANTS None, MaxOthers   \* MaxOthers bounds what somebody else does

VARIABLES world,   \* kind -> row -> its name, None for no row
          cmd,     \* the running command and what it has seen and done
          bore,    \* <<kind, row>> that bore the name while the command ran
          gone,    \* kinds of which a row of that name was deleted or renamed
          others   \* what somebody else has done: a count, and a name taken

vars == <<world, cmd, bore, gone, others>>

Rows == {1, 2}
\* A second create with the same name or key is a conflict.
Unique == {"org", "project", "app", "flag"}
Deletable == {e.on : e \in {Routes[p] : p \in {q \in DOMAIN Routes : Routes[q].does = "delete"}}}
\* Of these an equal one can follow a deleted one; releases may even share a name.
Recreated == {"project", "app", "env", "flag", "strategy", "release"}

KindsOf(plan) ==
  UNION {DOMAIN plan[i].refs \cup plan[i].learns : i \in DOMAIN plan}
Routed(r) == r.route \in DOMAIN Routes
IsWrite(r) == Routed(r) /\ Routes[r.route].does \in Changing

\* Every command looks up what it needs, where it stops when a look-up fails, and
\* changes at most one thing, with its last request.
SoundPlan(plan) ==
  /\ plan \in Seq({plan[i] : i \in DOMAIN plan})
  /\ \A i \in DOMAIN plan :
       /\ IsWrite(plan[i]) => i = Len(plan) /\ ~plan[i].forgiven /\ plan[i].learns = {}
       /\ plan[i].learns # {} => ~plan[i].forgiven
       /\ \A k \in DOMAIN plan[i].refs :
            /\ plan[i].refs[k] \in {"name", "found", "given"}
            /\ plan[i].refs[k] = "found" =>
                 \E j \in 1 .. i - 1 : k \in plan[j].learns

Idle == [told |-> "idle"]
Running == cmd.told = "running"
Request == cmd.plan[cmd.at]

Init ==
  /\ world = [k \in {} |-> <<>>] /\ cmd = Idle
  /\ bore = {} /\ gone = {} /\ others = [count |-> 0, taken |-> FALSE]

\* "crowded": twenty newer flags push the one meant off the listed page.
Begin ==
  /\ cmd.told = "idle"
  /\ \E c \in CliCommands \cup McpTools, second \in {None, "m"} :
     \E crowded \in {FALSE} \cup {"flag" \in KindsOf(c.plan)} :
       /\ world' = [k \in KindsOf(c.plan) |-> <<"n", second>>]
       /\ bore' = KindsOf(c.plan) \X {1}
       /\ cmd' = [name |-> c.name, opts |-> c.opts, plan |-> c.plan, at |-> 1,
                  told |-> IF c.plan = <<>> THEN "done" ELSE "running",
                  found |-> NoRefs, crowded |-> crowded, touched |-> {}, made |-> 0, acted |-> 0,
                  lost |-> FALSE, runs |-> 1, refused |-> {}, faults |-> {}]
  /\ UNCHANGED <<gone, others>>

-----------------------------------------------------------------------------
(* The server                                                               *)

Form(how) == IF how = "name" THEN "name" ELSE "id"
Refuses(r) ==
  \/ ~Routed(r)
  \/ LET e == Routes[r.route]
     IN  \/ \E k \in DOMAIN e.refs :
              k \notin DOMAIN r.refs \/ Form(r.refs[k]) \notin e.refs[k]
         \/ \E k \in DOMAIN e.may \cap DOMAIN r.refs : Form(r.refs[k]) \notin e.may[k]
         \/ ~(e.needs \subseteq r.sends)
         \/ e.rejects \cap (r.says \cup {"anything"}) # {}

\* Lists show the newest first.
Named(k) ==
  IF \A i \in Rows : world[k][i] # "n" THEN None
  ELSE CHOOSE i \in Rows : world[k][i] = "n" /\ (i = 1 => world[k][2] # "n")
Row(k, how) ==
  CASE how = "name" -> Named(k)
    [] how = "found" -> cmd.found[k]
    [] how = "given" -> 1
Exists(k, i) == i # None /\ world[k][i] # None
Missing(r) == {k \in DOMAIN r.refs : ~Exists(k, Row(k, r.refs[k]))}
Unnoticed(r) == {k \in Routes[r.route].quiet : k \in DOMAIN r.refs /\ r.refs[k] # "name"}
NotFound(r) == Missing(r) \ Unnoticed(r) # {}
Creates1(r) == Routes[r.route].does = "create"
Conflict(r) ==
  Creates1(r) /\ Routes[r.route].on \in Unique /\ (cmd.made > 0 \/ others.taken)

\* What a request that comes through does.
Done(r) ==
  IF IsWrite(r) /\ Missing(r) = {}
  THEN [cmd EXCEPT !.touched = @ \cup {<<k, Row(k, r.refs[k]), r.refs[k]>> : k \in DOMAIN r.refs},
                   !.made = IF Creates1(r) THEN @ + 1 ELSE @,
                   !.acted = @ + 1]
  ELSE cmd

-----------------------------------------------------------------------------
(* The client                                                               *)

\* Mutant of Match: the newest row is taken whatever its name is.
X_Match(k) == IF world[k][2] # None THEN 2 ELSE IF world[k][1] # None THEN 1 ELSE None

\* The client looks for the name in the list it was sent.
Match(k) == IF cmd.crowded /\ k = "flag" THEN None ELSE Named(k)

Continue(c) == IF c.at = Len(c.plan) THEN [c EXCEPT !.told = "done"] ELSE [c EXCEPT !.at = @ + 1]
Fail(c, why) == IF Request.forgiven THEN Continue(c) ELSE [c EXCEPT !.told = why]

\* Fields sent in vain, fields overwritten unasked, answers without what is shown.
Faults(r) ==
  LET e == Routes[r.route]
  IN  (IF r.sends \subseteq e.needs \cup e.takes /\ r.says \cap e.ignores = {}
       THEN {} ELSE {"dropped"}) \cup
      (IF e.resets \subseteq r.sends THEN {} ELSE {"reset"}) \cup
      (IF r.shows \subseteq e.gives THEN {} ELSE {"blank"})

Learned(r) ==
  [k \in r.learns \cup DOMAIN cmd.found |-> IF k \in r.learns THEN Match(k) ELSE cmd.found[k]]
Take(r) ==
  LET c == [Done(r) EXCEPT !.faults = @ \cup Faults(r),
                           !.found = Learned(r)]
  IN  IF \E k \in r.learns : Match(k) = None THEN Fail(c, "not found") ELSE Continue(c)

Answer ==
  /\ Running
  /\ cmd' = IF Request.route = "usage" THEN Fail(cmd, "usage")
            ELSE IF Refuses(Request)
            THEN Fail([cmd EXCEPT !.refused = @ \cup {Request.route}], "refused")
            ELSE IF NotFound(Request) THEN Fail(cmd, "not found")
            ELSE IF Conflict(Request) THEN Fail(cmd, "conflict")
            ELSE Take(Request)
  /\ UNCHANGED <<world, bore, gone, others>>

Served(r) == r.route # "usage" /\ ~Refuses(r) /\ ~NotFound(r) /\ ~Conflict(r)

\* The rollout of a stored deployment could not be attached.
Late ==
  /\ Running /\ Served(Request) /\ Routes[Request.route].late
  /\ "rollout" \in Request.sends /\ "apply_immediately" \notin Request.sends
  /\ cmd' = Fail(Done(Request), "late")
  /\ UNCHANGED <<world, bore, gone, others>>

\* The connection breaks before or after the server has done its work.
Lose ==
  /\ Running /\ Request.route # "usage"
  /\ \/ cmd' = Fail(cmd, "unknown")
     \/ /\ Served(Request) /\ IsWrite(Request)
        /\ cmd' = Fail([Done(Request) EXCEPT !.lost = TRUE], "unknown")
  /\ UNCHANGED <<world, bore, gone, others>>

\* Nothing tells the user whether it was done: the command is given once more.
Rerun ==
  /\ cmd.told = "unknown" /\ cmd.runs = 1
  /\ cmd' = [cmd EXCEPT !.told = "running", !.at = 1, !.found = NoRefs, !.runs = 2]
  /\ UNCHANGED <<world, bore, gone, others>>

-----------------------------------------------------------------------------
(* Somebody else                                                            *)

Becomes(k, i, name) ==
  LET after == [world EXCEPT ![k][i] = name]
  IN  /\ world' = after
      /\ bore' = bore \cup {p \in (DOMAIN world) \X Rows : after[p[1]][p[2]] = "n"}
      /\ gone' = gone \cup {j \in DOMAIN world :
                   \E r \in Rows : world[j][r] = "n" /\ after[j][r] # "n"}
      /\ others' = [others EXCEPT !.count = @ + 1]
      /\ UNCHANGED cmd

Meanwhile == Running /\ others.count < MaxOthers

Delete ==
  /\ Meanwhile
  /\ \E k \in DOMAIN world \cap Deletable : \E i \in Rows :
       world[k][i] # None /\ Becomes(k, i, None)
Recreate ==
  /\ Meanwhile
  /\ \E k \in DOMAIN world \cap Recreated :
       /\ world[k][2] = None
       /\ k # "release" => world[k][1] # "n"
       /\ Becomes(k, 2, "n")
\* Only the slug of an environment can be changed, to one no other has.
Rename ==
  /\ Meanwhile /\ "env" \in DOMAIN world
  /\ \E i \in Rows, name \in {"n", "m"} :
       /\ Exists("env", i) /\ \A j \in Rows : world["env"][j] # name
       /\ Becomes("env", i, name)
TakeName ==
  /\ Meanwhile /\ ~others.taken
  /\ \E i \in DOMAIN cmd.plan : Routed(cmd.plan[i]) /\ Creates1(cmd.plan[i])
  /\ others' = [count |-> others.count + 1, taken |-> TRUE]
  /\ UNCHANGED <<world, cmd, bore, gone>>

Next ==
  \/ Begin \/ Answer \/ Late \/ Lose \/ Rerun
  \/ Delete \/ Recreate \/ Rename \/ TakeName

Spec == Init /\ [][Next]_vars

-----------------------------------------------------------------------------
(* Properties                                                               *)

Told == {"idle", "running", "done", "usage", "refused", "not found", "conflict", "late", "unknown"}
TypeOK ==
  /\ cmd.told \in Told
  /\ \A k \in DOMAIN world : \A i \in Rows : world[k][i] \in {"n", "m", None}
  /\ bore \subseteq (DOMAIN world) \X Rows /\ gone \subseteq DOMAIN world
  /\ others.count \in 0..MaxOthers /\ others.taken \in BOOLEAN

\* What is at odds between the two sides: of which command, with which options,
\* and without which.
AtOdds(table, name, options) ==
  \E x \in table : x[1] = name /\ x[2] \subseteq options /\ x[3] \cap options = {}

\* The server knows no such request, or the request lacks something it insists on,
\* or has a value it does not know.
Unserved ==
  {<<"analytics deployments stats", {}, {}>>, <<"projects config", {}, {}>>,
   <<"flags rules update", {}, {}>>, <<"ds_create_deployment", {}, {}>>,
   <<"ds_get_app_deploy_status", {}, {}>>,
   <<"flags create", {"category release"}, {}>>, <<"deploy create", {"app id"}, {}>>,
   <<"deploy create", {"strategy blue-green"}, {"record", "rollout"}>>,
   <<"deploy list", {"app id"}, {}>>, <<"releases promote", {"zero percent"}, {}>>,
   <<"webhooks create", {"project"}, {}>>, <<"webhooks test", {"event_type unknown"}, {}>>,
   <<"settings list", {"slug"}, {}>>, <<"settings set", {"slug"}, {}>>,
   <<"analytics export", {"format csv"}, {}>>, <<"ds_create_flag", {"flag_type number"}, {}>>,
   <<"ds_create_flag", {"category release"}, {}>>,
   <<"ds_reporting_setup_deploy_integration", {"provider_config text"}, {}>>,
   <<"flags evaluate", {}, {"env"}>>, <<"rollout-policy set", {}, {"policy"}>>,
   <<"analytics export", {}, {"start_date"}>>, <<"analytics export", {}, {"end_date"}>>,
   <<"ds_rollback_deployment", {}, {"reason"}>>}
\* A field the user set is not read by the server, or not when it is empty.
Dropped ==
  {<<"flags rules add", {}, {}>>, <<"flags list", {"category"}, {}>>,
   <<"flags list", {"archived"}, {}>>, <<"flags update", {"tags"}, {}>>,
   <<"flags update", {"default_value empty"}, {}>>, <<"flags update", {"description empty"}, {}>>,
   <<"deploy create", {"record", "rollout"}, {}>>,
   <<"deploy create", {"record", "apply_immediately"}, {}>>,
   <<"webhooks list", {"project"}, {}>>}
\* What the command shows is not in the answer.
Blank ==
  {<<"analytics summary", {}, {}>>, <<"analytics flags stats", {}, {}>>,
   <<"analytics flags usage", {}, {}>>, <<"analytics health", {}, {}>>,
   <<"apikeys list", {}, {}>>, <<"apikeys create", {}, {}>>, <<"projects list", {}, {}>>}
\* A value the user did not set is overwritten: the environment's row of a flag
\* is stored whole.
Reset ==
  {<<"flags toggle", {"env"}, {}>>, <<"flags set-value", {}, {"value"}>>,
   <<"flags set-value", {}, {"enabled", "disabled"}>>}

\* Client and server agree on every request of every command, with every choice
\* of options, except where the tables say otherwise: a command that is told to
\* be done was understood, and did no less and no more than it was asked (the
\* flags of newRequest's callers against the bindings of the handlers).
CommandsAreServed ==
  cmd.told # "idle" =>
    /\ cmd.refused # {} => AtOdds(Unserved, cmd.name, cmd.opts)
    /\ cmd.told = "done" =>
         /\ AtOdds(Unserved, cmd.name, cmd.opts) =>
              \E i \in DOMAIN cmd.plan : Refuses(cmd.plan[i]) /\ cmd.plan[i].forgiven
         /\ "dropped" \in cmd.faults <=> AtOdds(Dropped, cmd.name, cmd.opts)
         /\ "reset" \in cmd.faults <=> AtOdds(Reset, cmd.name, cmd.opts)
         /\ "blank" \in cmd.faults <=> AtOdds(Blank, cmd.name, cmd.opts)

WritesOf(plan) == Cardinality({i \in DOMAIN plan : IsWrite(plan[i])})

\* A command changes rows that bore the name it was given while it ran, and what
\* it reports is what happened: a failure other than a lost answer or a rollout
\* that could not be attached means that nothing was changed, a success that
\* everything was, once unless an answer was lost, and a name is not found only
\* if it was missing or pushed off the page the client reads (resolveFlagID).
CommandsHitTheNamed ==
  cmd.told # "idle" =>
    /\ \A t \in cmd.touched : t[3] = "given" \/ <<t[1], t[2]>> \in bore
    /\ cmd.told = "done" => cmd.acted >= WritesOf(cmd.plan) \/ gone # {}
    /\ cmd.acted > WritesOf(cmd.plan) => cmd.lost
    /\ cmd.told \in {"usage", "refused", "not found", "conflict"} /\ cmd.acted > 0 => cmd.lost
    /\ cmd.made > 1 =>
         /\ cmd.lost
         /\ \A i \in DOMAIN cmd.plan :
              Routed(cmd.plan[i]) /\ Creates1(cmd.plan[i]) => Routes[cmd.plan[i].route].on \notin Unique
    /\ cmd.told = "conflict" => cmd.lost \/ others.taken
    /\ cmd.told = "not found" => gone # {} \/ cmd.crowded

=============================================================================
