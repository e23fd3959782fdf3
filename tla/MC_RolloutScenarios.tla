------------------------- MODULE MC_RolloutScenarios --------------------------
(***************************************************************************)
(* RolloutEngine in three situations and RolloutGroup in three, told apart *)
(* by the rigid variable "scenario": one replica that crashes, operators'  *)
(* controls, and two replicas on one rollout; a cascade that is left       *)
(* alone, operators who edit rollouts and groups while handlers are at     *)
(* work, and a stale pause.  The variables of the module that a situation  *)
(* does not use keep one value.                                            *)
(***************************************************************************)
EXTENDS MC_RolloutEngine

CONSTANTS Situations,    \* those of this instance
          r1, r2,        \* replicas
          SingleSteps,   \* strategy of the first situation
          EndsSteps,     \* strategy of the third, with max_duration in every step
          \* RolloutGroup's
          Order, Groups, NoGroup, Ends, Handlers, GroupCallers, GroupControls, Regroup,
          MaxDups, MaxEngineCrashes, MaxHandlerCrashes,
          MaxTroubles,   \* bound: failed calls and crashes of the situation "edits"
          ro1, ro2, ro3, g1, h1

ASSUME ScenarioAssumption ==
    \A steps \in {SingleSteps, EndsSteps} :
        steps \in Seq(StepRecord) /\ ValidateStrategy(steps) /\ Previous <= steps[1].pct

VARIABLES scenario,
          rows, engine, policy, mail, hnd, requests, trail, owed, revived,
          edits, dups, failures, engineCrashes, handlerCrashes   \* RolloutGroup's

groupVars == <<rows, engine, policy, mail, hnd, requests, trail, owed, revived,
               edits, dups, failures, engineCrashes, handlerCrashes>>
allVars == <<scenario, vars, groupVars>>

-----------------------------------------------------------------------------
(* The engine: "controls" has the constants of the configuration.           *)

\* One replica, redelivery and two crashes.
Single == INSTANCE RolloutEngine WITH
    Replicas <- {r1}, Callers <- {}, Controls <- {}, Steps <- SingleSteps, SignalErrors <- TRUE,
    MaxDeliver <- 3, MaxOps <- 0, MaxFaults <- 0, MaxCrashes <- 2

\* Two replicas, a readable signal.
Pair == INSTANCE RolloutEngine WITH
    Replicas <- {r1, r2}, Callers <- {}, Controls <- {}, Steps <- EndsSteps, SignalErrors <- FALSE,
    MaxDeliver <- 3, MaxOps <- 0, MaxFaults <- 0, MaxCrashes <- 0

NoRollout ==
    /\ ro = [status |-> "pending", idx |-> 0] /\ phases = "unused" /\ pct = Previous
    /\ msg = "unused" /\ inbox = "unused" /\ drv = "unused" /\ req = "unused"
    /\ events = "unused" /\ ops = "unused" /\ faults = "unused" /\ crashes = "unused"

-----------------------------------------------------------------------------
(* The groups                                                               *)

Group == INSTANCE RolloutGroup WITH
    Callers <- GroupCallers, Controls <- GroupControls,
    ro <- rows, req <- requests, ops <- edits, faults <- failures

ASSUME GroupAssumption == Group!GroupConstants

NoGroups ==
    /\ rows = "unused" /\ engine = "unused" /\ policy = "unused" /\ mail = "unused"
    /\ hnd = "unused" /\ requests = "unused" /\ trail = "unused" /\ owed = "unused"
    /\ revived = "unused" /\ edits = "unused" /\ dups = "unused" /\ failures = "unused"
    /\ engineCrashes = "unused" /\ handlerCrashes = "unused"

\* Where the groups begin: three driven rollouts in one cascading group, or two
\* beside one that has ended.
Together == rows = [r \in Group!Rollouts |-> [status |-> "active", group |-> g1, reason |-> "none"]]
MC_Order == <<ro1, ro2, ro3>>

Beside ==
    /\ rows[ro1].status = "active" /\ rows[ro1].group = g1
    /\ rows[ro2].status = "pending" /\ rows[ro2].group = NoGroup
    /\ \A r \in Group!Rollouts \ {ro1, ro2} : rows[r].status = "succeeded" /\ rows[r].group = NoGroup
Cascading == policy = [g \in Groups |-> "cascade_abort"]

\* What the situations leave out.  A cascade that is left alone: one redelivery and
\* one crash of the handler, and nobody else.
LeftAlone ==
    /\ UNCHANGED <<edits, failures, engineCrashes>>
    /\ \A h \in Handlers \ {h1} : UNCHANGED hnd[h]
    /\ \A r \in Group!Rollouts : rows'[r].status # "succeeded"
\* Edits: a few failed calls and crashes, and nothing happens to the rollout that has
\* ended.
Edited ==
    /\ dups' = dups /\ failures' + engineCrashes' + handlerCrashes' <= MaxTroubles
    /\ \A r \in Group!Rollouts \ {ro1, ro2} : UNCHANGED rows[r]
\* A stale pause: one pause and one failed write.
Paused ==
    /\ UNCHANGED <<dups, engineCrashes, handlerCrashes, policy>>
    /\ \A h \in Handlers \ {h1} : UNCHANGED hnd[h]
    /\ \A r \in Group!Rollouts : rows'[r].status # "succeeded" /\ rows'[r].group = rows[r].group
    /\ \A c \in GroupCallers : requests'[c].op # "rollback"
    /\ edits' <= 1

-----------------------------------------------------------------------------
ScenarioInit ==
    /\ scenario \in Situations
    /\ \/ /\ NoGroups
          /\ \/ scenario = "single" /\ Single!Init
             \/ scenario = "controls" /\ Init
             \/ scenario = "ends" /\ Pair!Init
       \/ /\ NoRollout
          /\ Group!Init /\ Cascading
          /\ \/ scenario \in {"cascade", "pause"} /\ Together
             \/ scenario = "edits" /\ Beside

ScenarioNext ==
    /\ scenario' = scenario
    /\ \/ /\ UNCHANGED groupVars
          /\ \/ scenario = "single" /\ Single!Next
             \/ scenario = "controls" /\ Next
             \/ scenario = "ends" /\ Pair!Next
       \/ /\ UNCHANGED vars
          /\ \/ scenario = "cascade" /\ Group!Next /\ LeftAlone
             \/ scenario = "edits" /\ Group!Next /\ Edited
             \/ scenario = "pause" /\ Group!Next /\ Paused

Scenarios == ScenarioInit /\ [][ScenarioNext]_allVars

\* Steps of the situations that liveness is about.
EndsStep(A) == scenario = "ends" /\ A /\ UNCHANGED <<scenario, groupVars>>
CascadeStep(A) == scenario = "cascade" /\ A /\ LeftAlone /\ UNCHANGED <<scenario, vars>>

\* The fairness of the two modules, in the situations it is needed for.
ScenarioSpec ==
    /\ Scenarios
    /\ \A w \in {r1, r2} : /\ WF_allVars(EndsStep(Pair!Deliver(w)))
                           /\ WF_allVars(EndsStep(Pair!Handle(w)))
                           /\ WF_allVars(EndsStep(Pair!DriveStep(w)))

GroupSpec ==
    /\ Scenarios
    /\ \A r \in Group!Rollouts : /\ WF_allVars(CascadeStep(Group!EngineStart(r)))
                                 /\ WF_allVars(CascadeStep(Group!EnginePublishes(r)))
    /\ WF_allVars(CascadeStep(\E r \in Group!Rollouts : Group!Handle(h1, r)))
    /\ WF_allVars(CascadeStep(Group!HandlerStep(h1)))

-----------------------------------------------------------------------------
\* RolloutEngine's TypeOK (ListPhases, StartPhase: no phase is driven that is not
\* there); SucceededMeansFullyOut and RolledBackIsReverted: a rollout that succeeded
\* (MarkCompleted) has its target at 100 percent, and without a crash one rolled
\* back left it where it was before; and RollbackHasRecordedCause: transition's
\* event or a failed phase says why, unless the control that rolled back failed or
\* was cut off before it could insert the event, or the insert itself was lost.
OutcomesAreTrue ==
    /\ scenario = "single" =>
           Single!TypeOK /\ Single!SucceededMeansFullyOut /\ Single!RolledBackIsReverted
    /\ scenario = "controls" => TypeOK /\ RollbackHasRecordedCause
    /\ scenario = "ends" => Pair!TypeOK

\* What the engine does, seen from its target.  Controls and a second replica
\* do break the promise; their situations are left out.
Promise == INSTANCE RolloutPromise WITH
    Live <- RolloutStatus \ TerminalStatus,
    status <- IF scenario = "single" THEN ro.status ELSE "pending",
    exposed <- IF scenario = "single" THEN pct ELSE Previous

\* DriveRollout, runPhase and rollback of one replica implement RolloutPromise,
\* through crashes and redelivery: an ended rollout stays as it ended, it succeeds
\* only at 100 percent, and only Revert lowers the percentage, after the row says
\* rolled_back.
EngineKeepsPromise == Promise!Spec

\* RolloutEngine's DrivenRolloutEnds: with max_duration in every step a driven
\* rollout (runPhase) ends for good.
ReplicasEndTheRollout ==
    (scenario = "ends" /\ \E w \in {r1, r2} : drv[w].pc = "tick")
        ~> [](scenario = "ends" => ro.status \in TerminalStatus)

\* RolloutGroup's TypeOK (NextSibling: the loop over siblings ends) and BlameIsRooted:
\* the reasons OnRollback leaves lead to what started the cascade.
BlameHasARoot ==
    scenario \in {"cascade", "edits", "pause"} => Group!TypeOK /\ Group!BlameIsRooted

\* RolloutGroup's CascadeReachesAll: OnRollback reaches every active or paused
\* sibling for good.
UndisturbedCascadeReachesAll == <>[](scenario = "cascade" => Group!OwedIsDone)
=============================================================================
