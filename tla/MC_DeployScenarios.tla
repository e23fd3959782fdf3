-------------------------- MODULE MC_DeployScenarios --------------------------
(***************************************************************************)
(* A deployment's phase engine and its rollback controller in four         *)
(* situations, told apart by the rigid variable "scenario": operators at   *)
(* the manual gates of a ramp, a message that is lost or delivered again,  *)
(* manual rollbacks beside the monitor's, and two deployments that share   *)
(* the monitor's goroutine.  The variables of the module that a situation  *)
(* does not use keep one value, and there is no deployments row.           *)
(***************************************************************************)
EXTENDS DeployEngine

CONSTANTS m1, m2, d1, d2, monitor

ASSUME ScenarioAssumption == monitor \notin {m1, m2}

VARIABLES scenario,
          monitored, todo, signal, ctx, cool, act, calm, watches, manual,
          failures   \* RollbackController's faults

controllerVars == <<monitored, todo, signal, ctx, cool, act, calm, watches, manual, failures>>
allVars == <<scenario, vars, controllerVars>>

-----------------------------------------------------------------------------
(* The phase engine: "gates" has the constants of the configuration, one    *)
(* driver at a time, a gate between two automatic steps, an operator and a  *)
(* crash or failure                                                         *)

Canary == [record |-> FALSE, canary |-> TRUE, rollout |-> FALSE]
CanaryOnly == {Canary}
GatedSteps == <<[pct |-> 5, auto |-> TRUE], [pct |-> 50, auto |-> FALSE],
                [pct |-> 100, auto |-> TRUE]>>
GateOps == Operations \ {"setTraffic", "pause"}
NoPcts == {}

\* Two drivers on one deployment, nobody else.
Redelivery == INSTANCE DeployEngine WITH
    Callers <- {}, Ops <- {},
    Requests <- {Canary, [Canary EXCEPT !.canary = FALSE], [Canary EXCEPT !.record = TRUE]},
    Steps <- <<[pct |-> 5, auto |-> FALSE], [pct |-> 100, auto |-> TRUE]>>,
    MaxDeliver <- 2, MaxOps <- 0, MaxFaults <- 0, Lossy <- TRUE

NoEngine ==
    /\ row = Absent /\ canary = "unused" /\ phases = "unused" /\ rollout = "unused"
    /\ msg = "unused" /\ drv = "unused" /\ req = "unused" /\ recorded = "unused"
    /\ ops = "unused" /\ faults = "unused"

-----------------------------------------------------------------------------
(* The rollback controller                                                  *)

\* Two managers beside the monitor, and a failed execution.
Manual == INSTANCE RollbackController WITH
    Deployments <- {d1}, Monitor <- monitor, Managers <- {m1, m2}, Window <- 2, Cooldown <- 2,
    CarefulCallers <- TRUE, MaxWatches <- 4, MaxManual <- 3, MaxFaults <- 1, faults <- failures

\* Two deployments, no manual rollback.
Shared == INSTANCE RollbackController WITH
    Deployments <- {d1, d2}, Monitor <- monitor, Managers <- {}, Window <- 2, Cooldown <- 1,
    CarefulCallers <- TRUE, MaxWatches <- 5, MaxManual <- 0, MaxFaults <- 1, faults <- failures

NoController ==
    /\ monitored = "unused" /\ todo = "unused" /\ signal = "unused" /\ ctx = "unused"
    /\ cool = "unused" /\ act = "unused" /\ calm = "unused" /\ watches = "unused"
    /\ manual = "unused" /\ failures = "unused"

-----------------------------------------------------------------------------
ScenarioInit == \/ scenario = "gates" /\ Init /\ NoController
                \/ scenario = "redelivery" /\ Redelivery!Init /\ NoController
                \/ scenario = "manual" /\ Manual!Init /\ NoEngine
                \/ scenario = "shared" /\ Shared!Init /\ NoEngine

ScenarioNext ==
    /\ scenario' = scenario
    /\ \/ scenario = "gates" /\ Next /\ UNCHANGED controllerVars
       \/ scenario = "redelivery" /\ Redelivery!Next /\ UNCHANGED controllerVars
       \/ scenario = "manual" /\ Manual!Next /\ UNCHANGED vars
       \/ scenario = "shared" /\ Shared!Next /\ UNCHANGED vars

\* Steps of the situations that liveness is about.
RedeliveryStep(A) == scenario = "redelivery" /\ A /\ UNCHANGED <<scenario, controllerVars>>
SharedStep(A) == scenario = "shared" /\ A /\ UNCHANGED <<scenario, vars>>

\* The fairness of the two modules, in the situations it is needed for.
ScenarioSpec ==
    /\ ScenarioInit /\ [][ScenarioNext]_allVars
    /\ WF_allVars(RedeliveryStep(Redelivery!CreateDeployment))
    /\ \A w \in Drivers : /\ WF_allVars(RedeliveryStep(Redelivery!Deliver(w)))
                          /\ WF_allVars(RedeliveryStep(Redelivery!DriverStep(w)))
                          /\ WF_allVars(RedeliveryStep(Redelivery!RequestEnds(w)))
                          /\ WF_allVars(RedeliveryStep(Redelivery!CancelledDriverExits(w)))
    /\ WF_allVars(SharedStep(Shared!MonitorStep))
    /\ WF_allVars(SharedStep(Shared!RollbackStep(monitor)))
    /\ WF_allVars(SharedStep(Shared!Tick))

-----------------------------------------------------------------------------
\* DeployEngine's AtMostOneDriver, PhasesInOrder and CompletedAfterEveryPhase:
\* the gates hand one ramp from driver to driver (Advance, driveDeployment),
\* which takes its phases in order and completes after the last.
GatedRampIsWhole ==
    scenario = "gates" => /\ AtMostOneDriver
                          /\ PhasesInOrder
                          /\ CompletedAfterEveryPhase

\* DeployEngine's DrivenCanarySettles: a redelivered canary still ends, or rests
\* at a gate, for good (driveDeployment).
RedeliveredCanarySettles ==
    (scenario = "redelivery" /\ canary /\ msg.deliveries > 0)
        ~> [](scenario = "redelivery" => Redelivery!Settled)

\* RollbackController's TypeOK (handleUnhealthy: an evaluation has a start) and
\* RollingBackIsInProgress: until an execution fails, ROLLING_BACK means that a
\* goroutine is at work (transitionTo).
RollingBackHasAGoroutine ==
    /\ scenario = "manual" => Manual!TypeOK /\ Manual!RollingBackIsInProgress
    /\ scenario = "shared" => Shared!TypeOK /\ Shared!RollingBackIsInProgress

\* RollbackController's NoFlapping and AutoRollbackIsEarned: one rollback at a
\* time, a cooldown apart (isInCooldown), and an automatic one only after no
\* healthy update for a window (handleHealthy).
RollbacksAreEarned ==
    [][/\ scenario = "manual" => Manual!NoFlappingStep /\ Manual!EarnedStep
       /\ scenario = "shared" => Shared!NoFlappingStep /\ Shared!EarnedStep]_allVars

\* RollbackController's SustainedFailureRollsBack, for two deployments in one
\* loop of evaluate.
SharedMonitorRollsBack ==
    \A d \in {d1, d2} :
        (<>[](scenario = "shared" /\ d \in monitored /\ signal[d] = "bad" /\ ctx[d].watched))
            => <>[](scenario = "shared" => ctx[d].state = "ROLLED_BACK")
===============================================================================
