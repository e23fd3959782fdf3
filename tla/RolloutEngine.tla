---------------------------- MODULE RolloutEngine ----------------------------
(***************************************************************************)
(* One rollout of a targeting rule or a deployment: the engine that walks  *)
(* it through its strategy (internal/rollout/engine), the message that     *)
(* starts the engine, the runtime controls of RolloutService and the       *)
(* percentage the applicator sets on the target.                           *)
(*                                                                         *)
(* Every repository or applicator call is one step.  A replica of the API  *)
(* handles its copies of rollouts.rollout.created one after the other and  *)
(* acknowledges a copy only when DriveRollout returns; after AckWait an    *)
(* unacknowledged message is delivered again, to any replica.  Durations   *)
(* are counted in polls.                                                   *)
(***************************************************************************)
EXTENDS Integers, Sequences, FiniteSets, FiniteSetsExt

CONSTANTS
    Replicas,          \* API processes, each with one consumer
    Callers,           \* API requests that may be in flight at once
    Controls,          \* the runtime controls operators use in this instance
    Steps,             \* the strategy snapshot's steps
    DefaultThreshold,  \* its default_health_threshold
    Previous,          \* the target's percentage before the rollout
    Signals,           \* what CurrentSignal may return: a value per metric
    SignalErrors,      \* whether CurrentSignal may fail
    MaxDeliver,        \* consumer MaxDeliver (5 in the code)
    MaxOps,            \* bound on the number of control requests
    MaxFaults,         \* bound on failed calls
    MaxCrashes         \* bound on process crashes

Metric == {"score", "error_rate", "latency_p99_ms", "latency_p50_ms", "request_rate"}
Operator == {">", ">=", "<", "<=", "==", "!="}
Control == {"pause", "resume", "promote", "force_promote", "approve", "rollback"}
NoOverride == -1

\* What ValidateStrategy accepts; a custom metric stands for any name that
\* starts with "custom:".
ValidateStrategy(steps) ==
    /\ Len(steps) > 0
    /\ \A i \in 1..Len(steps) :
        /\ steps[i].pct \in 0..100
        /\ i > 1 => steps[i].pct >= steps[i - 1].pct
        /\ steps[i].min >= 0 /\ steps[i].max >= 0 /\ steps[i].bake >= 0
        /\ steps[i].min <= steps[i].max
        /\ steps[i].max > 0 => steps[i].bake <= steps[i].max
        /\ \A c \in steps[i].aborts : c.metric \in Metric \cup {"custom"} /\ c.op \in Operator
    /\ steps[Len(steps)].pct = 100

\* A step of a strategy, as the JSON of strategies.steps is read.
StepRecord ==
    [pct : Int, min : Int, bake : Int, max : Int, threshold : Int, approval : BOOLEAN,
     aborts : SUBSET [metric : Metric \cup {"custom"}, op : Operator, threshold : Int]]

ASSUME StrategyAssumption == Steps \in Seq(StepRecord) /\ ValidateStrategy(Steps)
\* AttachConfig refuses a strategy that starts below the current percentage.
ASSUME PreviousAssumption == Previous \in 0..100 /\ Previous <= Steps[1].pct
ASSUME SignalsAssumption == \A s \in Signals : DOMAIN s = Metric
ASSUME ControlsAssumption == Controls \subseteq Control
ASSUME LimitsAssumption == MaxDeliver \in Nat /\ MaxOps \in Nat
                           /\ MaxFaults \in Nat /\ MaxCrashes \in Nat

VARIABLES
    ro,        \* the rollouts row: status and current_phase_index
    phases,    \* status of the rollout_phases rows in order, <<>> before insertion
    pct,       \* the target's percentage
    msg,       \* rollouts.rollout.created: [acked, deliveries]
    inbox,     \* per replica: delivered copies not yet handled
    drv,       \* per replica: DriveRollout's locals
    req,       \* per caller: program counter and control
    events,    \* stored: the controls in rollout_events; lost (history): the controls,
               \* or "phase" for a failed phase, whose write failed or never came
    ops, faults, crashes

vars == <<ro, phases, pct, msg, inbox, drv, req, events, ops, faults, crashes>>

TerminalStatus == {"succeeded", "rolled_back"}
RolloutStatus == {"pending", "active", "paused", "awaiting_approval"} \cup TerminalStatus
PhaseStatus == {"pending", "active", "awaiting_approval", "passed", "rolled_back"}

IdleDriver == [pc |-> "idle", status |-> "pending", i |-> 0, list |-> <<>>, elapsed |-> 0, healthy |-> -1]
IdleCaller == [pc |-> "idle", op |-> "none"]

\* AttachConfig or AttachDeploy has inserted the row and published the message.
Init ==
    /\ ro = [status |-> "pending", idx |-> 1]
    /\ phases = <<>>
    /\ pct = Previous
    /\ msg = [acked |-> FALSE, deliveries |-> 0]
    /\ inbox = [w \in Replicas |-> 0]
    /\ drv = [w \in Replicas |-> IdleDriver]
    /\ req = [c \in Callers |-> IdleCaller]
    /\ events = [stored |-> {}, lost |-> {}]
    /\ ops = 0
    /\ faults = 0
    /\ crashes = 0

-----------------------------------------------------------------------------
(* Delivery.                                                               *)

\* JetStream sends the message, again if it is not acknowledged in time.
Deliver(w) ==
    /\ ~msg.acked
    /\ msg.deliveries < MaxDeliver
    /\ msg' = [msg EXCEPT !.deliveries = @ + 1]
    /\ inbox' = [inbox EXCEPT ![w] = @ + 1]
    /\ UNCHANGED <<ro, phases, pct, drv, req, events, ops, faults, crashes>>

\* The consumer hands the next copy to the handler, which calls DriveRollout.
Handle(w) ==
    /\ drv[w].pc = "idle"
    /\ inbox[w] > 0
    /\ inbox' = [inbox EXCEPT ![w] = @ - 1]
    /\ drv' = [drv EXCEPT ![w] = [IdleDriver EXCEPT !.pc = "get"]]
    /\ UNCHANGED <<ro, phases, pct, msg, req, events, ops, faults, crashes>>

\* DriveRollout returns, with or without an error; the message is acknowledged.
Exit(w) ==
    /\ drv' = [drv EXCEPT ![w] = IdleDriver]
    /\ msg' = [msg EXCEPT !.acked = TRUE]

Goto(w, pc) ==
    /\ drv' = [drv EXCEPT ![w].pc = pc]
    /\ msg' = msg

CallFails == faults < MaxFaults /\ faults' = faults + 1

\* UPDATE of the rollouts row whose error the engine ignores.
WriteRollout(new) ==
    \/ ro' = new /\ faults' = faults
    \/ ro' = ro /\ CallFails

\* UpdatePhaseStatus, whose error the engine ignores.
WritePhase(k, status) ==
    \/ phases' = [phases EXCEPT ![k] = status] /\ faults' = faults
    \/ phases' = phases /\ CallFails

-----------------------------------------------------------------------------
(* DriveRollout.                                                           *)

GetRollout(w) ==
    /\ drv[w].pc = "get"
    /\ IF ro.status \in TerminalStatus
       THEN Exit(w)
       ELSE /\ drv' = [drv EXCEPT ![w] = [@ EXCEPT !.pc = "phases", !.status = ro.status, !.i = ro.idx]]
            /\ msg' = msg
    /\ UNCHANGED <<ro, phases, pct, inbox, req, events, ops, faults, crashes>>

\* ensurePhasesExist looks for phases and inserts them if there are none.
EnsurePhasesExist(w) ==
    /\ drv[w].pc = "phases"
    /\ Goto(w, IF phases = <<>> THEN "insert" ELSE "activate")
    /\ UNCHANGED <<ro, phases, pct, inbox, req, events, ops, faults, crashes>>

\* BulkInsert is one transaction; the unique index on the phase number makes a
\* second one fail.
BulkInsertPhases(w) ==
    /\ drv[w].pc = "insert"
    /\ IF phases = <<>>
       THEN phases' = [k \in 1..Len(Steps) |-> "pending"] /\ Goto(w, "activate")
       ELSE phases' = phases /\ Exit(w)
    /\ UNCHANGED <<ro, pct, inbox, req, events, ops, faults, crashes>>

SetActive(w) ==
    /\ drv[w].pc = "activate"
    /\ WriteRollout([ro EXCEPT !.status = "active"])
    /\ drv' = [drv EXCEPT ![w] = [@ EXCEPT !.pc = "list", !.status = "active"]]
    /\ UNCHANGED <<phases, pct, msg, inbox, req, events, ops, crashes>>

\* The first phase from i on that the listing does not show as passed, one past
\* the end when there is none.
NextPhase(list, i) ==
    Min({k \in i..Len(Steps) : list[k] # "passed"} \cup {Len(Steps) + 1})

\* Go on with phase k, or finish.
StartPhase(w, list, k) ==
    drv' = [drv EXCEPT ![w] =
              [pc |-> IF k <= Len(Steps) THEN "apply" ELSE "complete",
               status |-> drv[w].status, i |-> k, list |-> list, elapsed |-> 0, healthy |-> -1]]

\* Mutant: the driver starts over from the first step.
ListPhases_StartsOver(w) ==
    /\ drv[w].pc = "list"
    /\ StartPhase(w, phases, 1)
    /\ UNCHANGED <<ro, phases, pct, msg, inbox, req, events, ops, faults, crashes>>

\* ListPhases; the loop begins at the phase pointer read by GetRollout.
ListPhases(w) ==
    /\ drv[w].pc = "list"
    /\ StartPhase(w, phases, NextPhase(phases, drv[w].i))
    /\ UNCHANGED <<ro, phases, pct, msg, inbox, req, events, ops, faults, crashes>>

\* The applicator sets the target's percentage.
Apply(w) ==
    /\ drv[w].pc = "apply"
    /\ pct' = Steps[drv[w].i].pct
    /\ Goto(w, "enter")
    /\ UNCHANGED <<ro, phases, inbox, req, events, ops, faults, crashes>>

EnterPhase(w) ==
    /\ drv[w].pc = "enter"
    /\ WritePhase(drv[w].i, "active")
    /\ Goto(w, "point")
    /\ UNCHANGED <<ro, pct, inbox, req, events, ops, crashes>>

PointPhase(w) ==
    /\ drv[w].pc = "point"
    /\ WriteRollout([ro EXCEPT !.idx = drv[w].i])
    /\ Goto(w, "tick")
    /\ UNCHANGED <<phases, pct, inbox, req, events, ops, crashes>>

-----------------------------------------------------------------------------
(* The poll loop of runPhase.                                              *)

compare(val, op, threshold) ==
    CASE op = ">"  -> val > threshold
      [] op = ">=" -> val >= threshold
      [] op = "<"  -> val < threshold
      [] op = "<=" -> val <= threshold
      [] op = "==" -> val = threshold
      [] op = "!=" -> val # threshold

\* Some abort condition trips; conditions on unknown metrics are ignored.
EvaluateAbortConditions(step, signal) ==
    \E c \in step.aborts : c.metric \in Metric /\ compare(signal[c.metric], c.op, c.threshold)

EffectiveHealthThreshold(step) ==
    IF step.threshold # NoOverride THEN step.threshold ELSE DefaultThreshold

\* Times beyond every duration of the strategy are alike.
Horizon == Max(UNION {{Steps[k].min, Steps[k].max, Steps[k].bake} : k \in 1..Len(Steps)})
Later(t) == IF t < Horizon THEN t + 1 ELSE t

\* Polls since the target was last seen to become healthy, -1 when it is not.
HealthySince(w, signal) ==
    IF signal["score"] < EffectiveHealthThreshold(Steps[drv[w].i]) THEN -1
    ELSE IF drv[w].healthy = -1 THEN 0 ELSE Later(drv[w].healthy)

\* Mutant: no max_duration.
Verdict_NoTimeout(w, signal) ==
    LET step == Steps[drv[w].i]
        elapsed == Later(drv[w].elapsed)
        baked == HealthySince(w, signal) # -1 /\ HealthySince(w, signal) >= step.bake
    IN  CASE EvaluateAbortConditions(step, signal) -> "fail"
          [] OTHER -> IF elapsed >= step.min /\ baked THEN "pass" ELSE "tick"

\* What the poll decides: abort, wait for approval, promote, time out, go on.
\* The approval gate looks at the engine's own copy of the status.
Verdict(w, signal) ==
    LET step == Steps[drv[w].i]
        elapsed == Later(drv[w].elapsed)
        baked == HealthySince(w, signal) # -1 /\ HealthySince(w, signal) >= step.bake
    IN  IF EvaluateAbortConditions(step, signal) THEN "fail"
        ELSE IF step.approval /\ drv[w].status = "awaiting_approval" THEN "await"
        ELSE IF elapsed >= step.min /\ baked THEN "pass"
        ELSE IF step.max > 0 /\ elapsed >= step.max THEN "fail"
        ELSE "tick"

\* The gate: phase and rollout await approval and DriveRollout returns.
AwaitApproval(w) ==
    /\ phases' = [phases EXCEPT ![drv[w].i] = "awaiting_approval"]
    /\ ro' = [ro EXCEPT !.status = "awaiting_approval"]
    /\ Exit(w)
    /\ faults' = faults

\* A poll with a signal.  Becoming healthy and being unhealthy each write the
\* phase pointer, unless an abort condition has ended the phase.
Poll(w, signal) ==
    /\ drv[w].pc = "tick"
    /\ LET healthy == HealthySince(w, signal)
           writes == /\ ~EvaluateAbortConditions(Steps[drv[w].i], signal)
                     /\ healthy \in {-1, 0} /\ (healthy = 0 => drv[w].healthy = -1)
       IN  IF Verdict(w, signal) = "await"
           THEN AwaitApproval(w)
           ELSE /\ drv' = [drv EXCEPT ![w] = [drv[w] EXCEPT !.pc = Verdict(w, signal),
                                                            !.elapsed = Later(@), !.healthy = healthy]]
                /\ IF writes THEN WriteRollout([ro EXCEPT !.idx = drv[w].i])
                             ELSE ro' = ro /\ faults' = faults
                /\ UNCHANGED <<phases, msg>>
    /\ UNCHANGED <<pct, inbox, req, events, ops, crashes>>

\* CurrentSignal fails: the poll is skipped, and time goes on.
PollFails(w) ==
    /\ SignalErrors
    /\ drv[w].pc = "tick"
    /\ drv' = [drv EXCEPT ![w] =
                 [drv[w] EXCEPT !.elapsed = Later(@), !.healthy = IF @ = -1 THEN -1 ELSE Later(@)]]
    /\ UNCHANGED <<ro, phases, pct, msg, inbox, req, events, ops, faults, crashes>>

PassPhase(w) ==
    /\ drv[w].pc = "pass"
    /\ WritePhase(drv[w].i, "passed")
    /\ StartPhase(w, drv[w].list, NextPhase(drv[w].list, drv[w].i + 1))
    /\ UNCHANGED <<ro, pct, msg, inbox, req, events, ops, crashes>>

FailPhase(w) ==
    /\ drv[w].pc = "fail"
    /\ \/ /\ phases' = [phases EXCEPT ![drv[w].i] = "rolled_back"]
          /\ UNCHANGED <<events, faults>>
       \/ /\ CallFails
          /\ events' = [events EXCEPT !.lost = @ \cup {"phase"}]
          /\ phases' = phases
    /\ Goto(w, "rollback")
    /\ UNCHANGED <<ro, pct, inbox, req, ops, crashes>>

\* rollback: the status first, then the target.
Rollback(w) ==
    /\ drv[w].pc = "rollback"
    /\ WriteRollout([ro EXCEPT !.status = "rolled_back"])
    /\ Goto(w, "revert")
    /\ UNCHANGED <<phases, pct, inbox, req, events, ops, crashes>>

\* Revert, whose error the engine ignores.
Revert(w) ==
    /\ drv[w].pc = "revert"
    /\ \/ pct' = Previous /\ faults' = faults
       \/ pct' = pct /\ CallFails
    /\ Exit(w)
    /\ UNCHANGED <<ro, phases, inbox, req, events, ops, crashes>>

MarkCompleted(w) ==
    /\ drv[w].pc = "complete"
    /\ WriteRollout([ro EXCEPT !.status = "succeeded"])
    /\ Exit(w)
    /\ UNCHANGED <<phases, pct, inbox, req, events, ops, crashes>>

\* A call whose error DriveRollout returns.
DriveError(w) ==
    /\ drv[w].pc \in {"get", "phases", "insert", "list", "apply"}
    /\ CallFails
    /\ Exit(w)
    /\ UNCHANGED <<ro, phases, pct, inbox, req, events, ops, crashes>>

DriveStep(w) ==
    \/ GetRollout(w) \/ EnsurePhasesExist(w) \/ BulkInsertPhases(w) \/ SetActive(w)
    \/ ListPhases(w) \/ Apply(w) \/ EnterPhase(w) \/ PointPhase(w)
    \/ \E s \in Signals : Poll(w, s)
    \/ PassPhase(w) \/ FailPhase(w) \/ Rollback(w) \/ Revert(w) \/ MarkCompleted(w)

\* The process dies; what it had not acknowledged is delivered again.
Crash(w) ==
    /\ drv[w].pc # "idle"
    /\ crashes < MaxCrashes
    /\ crashes' = crashes + 1
    /\ drv' = [drv EXCEPT ![w] = IdleDriver]
    /\ inbox' = [inbox EXCEPT ![w] = 0]
    /\ UNCHANGED <<ro, phases, pct, msg, req, events, ops, faults>>

-----------------------------------------------------------------------------
(* The runtime controls of RolloutService.                                 *)

\* The statuses a control accepts.
Allow(op) ==
    CASE op = "pause"         -> {"active"}
      [] op = "resume"        -> {"paused"}
      [] op = "promote"       -> {"active", "paused"}
      [] op = "force_promote" -> {"active", "paused", "awaiting_approval"}
      [] op = "approve"       -> {"awaiting_approval"}
      [] op = "rollback"      -> {"active", "paused", "awaiting_approval"}

\* The status it writes.
TargetStatus(op) ==
    CASE op = "pause"    -> "paused"
      [] op = "rollback" -> "rolled_back"
      [] OTHER           -> "active"

ReadForControl(c, op) ==
    /\ req[c].pc = "idle"
    /\ ops < MaxOps
    /\ ops' = ops + 1
    /\ ro.status \in Allow(op)
    /\ req' = [req EXCEPT ![c] = [pc |-> "write", op |-> op]]
    /\ UNCHANGED <<ro, phases, pct, msg, inbox, drv, events, faults, crashes>>

\* UpdateStatus does not look at the status it overwrites; its error ends the request.
WriteControl(c) ==
    /\ req[c].pc = "write"
    /\ \/ /\ ro' = [ro EXCEPT !.status = TargetStatus(req[c].op)]
          /\ req' = [req EXCEPT ![c].pc = "event"]
          /\ faults' = faults
       \/ ro' = ro /\ req' = [req EXCEPT ![c] = IdleCaller] /\ CallFails
    /\ UNCHANGED <<phases, pct, msg, inbox, drv, events, ops, crashes>>

\* Mutant: the event is not inserted.
RecordControl_Forgets(c) ==
    /\ req[c].pc = "event"
    /\ req' = [req EXCEPT ![c] = IF @.op = "rollback" THEN [@ EXCEPT !.pc = "revert"] ELSE IdleCaller]
    /\ UNCHANGED <<ro, phases, pct, msg, inbox, drv, events, ops, faults, crashes>>

\* emit inserts the event and ignores the insert's error.
RecordControl(c) ==
    /\ req[c].pc = "event"
    /\ \/ events' = [events EXCEPT !.stored = @ \cup {req[c].op}] /\ faults' = faults
       \/ events' = [events EXCEPT !.lost = @ \cup {req[c].op}] /\ CallFails
    /\ req' = [req EXCEPT ![c] = IF @.op = "rollback" THEN [@ EXCEPT !.pc = "revert"] ELSE IdleCaller]
    /\ UNCHANGED <<ro, phases, pct, msg, inbox, drv, ops, crashes>>

\* Rollback then reverts the target; its failure is reported, not retried.
RevertControl(c) ==
    /\ req[c].pc = "revert"
    /\ \/ pct' = Previous /\ faults' = faults
       \/ pct' = pct /\ CallFails
    /\ req' = [req EXCEPT ![c] = IdleCaller]
    /\ UNCHANGED <<ro, phases, msg, inbox, drv, events, ops, crashes>>

ControlStep(c) == WriteControl(c) \/ RecordControl(c) \/ RevertControl(c)

\* The process that serves a request dies; nobody takes the request up again.
CutOff(c) ==
    /\ req[c].pc # "idle"
    /\ crashes < MaxCrashes
    /\ crashes' = crashes + 1
    /\ events' = IF req[c].pc = "event" THEN [events EXCEPT !.lost = @ \cup {req[c].op}] ELSE events
    /\ req' = [req EXCEPT ![c] = IdleCaller]
    /\ UNCHANGED <<ro, phases, pct, msg, inbox, drv, ops, faults>>

-----------------------------------------------------------------------------
Next ==
    \/ \E w \in Replicas : \/ Deliver(w) \/ Handle(w) \/ DriveStep(w) \/ PollFails(w)
                           \/ DriveError(w) \/ Crash(w)
    \/ \E c \in Callers : \/ \E op \in Controls : ReadForControl(c, op)
                          \/ ControlStep(c) \/ CutOff(c)

Spec == Init /\ [][Next]_vars

\* JetStream keeps delivering, a consumer and a goroutine are not starved, and a
\* request in progress goes on.
Fairness ==
    /\ \A w \in Replicas : /\ WF_vars(Deliver(w))
                           /\ WF_vars(Handle(w))
                           /\ WF_vars(DriveStep(w))
    /\ \A c \in Callers : WF_vars(ControlStep(c))

FairSpec == Spec /\ Fairness

-----------------------------------------------------------------------------
(* Properties.                                                             *)

DriverPc == {"idle", "get", "phases", "insert", "activate", "list", "apply", "enter", "point",
             "tick", "pass", "fail", "rollback", "revert", "complete"}

\* The variables have their types.
TypeOK ==
    /\ ro \in [status : RolloutStatus, idx : 1..Len(Steps)]
    /\ phases = <<>> \/ phases \in [1..Len(Steps) -> PhaseStatus]
    /\ pct \in 0..100
    /\ msg \in [acked : BOOLEAN, deliveries : 0..MaxDeliver]
    /\ inbox \in [Replicas -> 0..MaxDeliver]
    /\ \A w \in Replicas :
        /\ drv[w].pc \in DriverPc
        /\ drv[w].status \in RolloutStatus
        /\ drv[w].i \in 0..(Len(Steps) + 1)
        /\ drv[w].pc \in {"apply", "enter", "point", "tick", "pass", "fail"} => drv[w].i \in 1..Len(Steps)
        /\ drv[w].elapsed \in 0..Horizon /\ drv[w].healthy \in -1..Horizon
    /\ req \in [Callers -> [pc : {"idle", "write", "event", "revert"}, op : Control \cup {"none"}]]
    /\ events \in [stored : SUBSET Control, lost : SUBSET (Control \cup {"phase"})]
    /\ ops \in 0..MaxOps
    /\ faults \in 0..MaxFaults
    /\ crashes \in 0..MaxCrashes

\* A rollout that has ended keeps the status it ended with (IsTerminal,
\* DriveRollout's check): nothing succeeded is rolled back and nothing rolled
\* back is driven on.
TerminalStep == ro.status \in TerminalStatus => ro'.status = ro.status
TerminalSticks == [][TerminalStep]_vars

\* The target's percentage goes down only by a revert: a driver that takes over
\* after a crash or a failed call never exposes fewer users than the one before
\* it did (ValidateStrategy's non-decreasing steps, the phase pointer and the
\* skipping of passed phases together).
ExposureStep ==
    pct' < pct => \/ \E w \in Replicas : drv[w].pc = "revert"
                  \/ \E c \in Callers : req[c].pc = "revert"
ExposureOnlyGrows == [][ExposureStep]_vars

\* A rollout that is stored as succeeded has its target at 100 percent.
SucceededMeansFullyOut == ro.status = "succeeded" => pct = 100

\* The control has written its status and not yet tried to record its event.
Recording(op) == \E c \in Callers : req[c].op = op /\ req[c].pc = "event"

\* A rolled back rollout says why: an operator's event or a phase that failed
\* (FailPhase before rollback, transition's event), across crashes, redelivery,
\* failed calls and controls that overwrite each other.  The only exceptions are a
\* rollback whose event is still to be inserted and one whose event or phase could
\* not be written (emit and the engine ignore the error) or was cut off by a crash.
RollbackHasRecordedCause ==
    ro.status = "rolled_back" =>
        \/ "rollback" \in events.stored
        \/ \E k \in 1..Len(phases) : phases[k] = "rolled_back"
        \/ Recording("rollback")
        \/ events.lost \cap {"rollback", "phase"} # {}

\* Without a crash, a rolled back rollout that nobody is working on any more has
\* its target at the percentage it had before (rollback stores the status first
\* and reverts afterwards; a crash in between is never made good, because
\* DriveRollout returns at once for a rollout that has ended).
RolledBackIsReverted ==
    /\ ro.status = "rolled_back" /\ crashes = 0
    /\ \A w \in Replicas : drv[w].pc = "idle"
    /\ \A c \in Callers : req[c].pc = "idle"
    => pct = Previous

\* A rollout whose every step has a max_duration and whose signal is readable
\* comes to its end for good once it is driven, whatever the health is and even
\* if the message is delivered again and two replicas drive it at once.
DrivenRolloutEnds ==
    (\E w \in Replicas : drv[w].pc = "tick") ~> [](ro.status \in TerminalStatus)

\* A phase with an approval gate passes only after an approval.
ApprovalGateHolds ==
    \A k \in 1..Len(phases) :
        phases[k] = "passed" /\ Steps[k].approval =>
            "approve" \in events.stored \cup events.lost \/ Recording("approve")
=============================================================================
