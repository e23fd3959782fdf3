---------------------------- MODULE DeployEngine ----------------------------
(***************************************************************************)
(* One deployment, from the request that creates it: the deploy service    *)
(* (internal/deploy/service.go), the phase engine that drives canary       *)
(* deployments (internal/deploy/engine/engine.go) and the message that     *)
(* starts the engine (JetStream, internal/platform/messaging/nats.go).     *)
(*                                                                         *)
(* Every repository call is one step.  UpdateDeployment writes the whole   *)
(* row without looking at what is there, so a writer that read the row     *)
(* some steps ago overwrites what others wrote since: drivers (goroutines  *)
(* in driveDeployment) and callers (API requests) keep the copy they read. *)
(***************************************************************************)
EXTENDS DeploymentState, Sequences, FiniteSets

CONSTANTS
    Drivers,      \* goroutines that may be in driveDeployment at once
    Callers,      \* API requests that may be in flight at once
    Ops,          \* the service operations callers use in this instance
    Requests,     \* createDeployment requests clients may send
    Steps,        \* DefaultCanaryConfig().Steps: traffic and auto-promote
    RolloutPcts,  \* percentages the rollout engine applies
    MaxDeliver,   \* consumer MaxDeliver (5 in the code)
    MaxOps,       \* bound on the number of API operations
    MaxFaults,    \* bound on process crashes and failed repository calls
    Lossy         \* whether publishing and acknowledging may fail

Operations == {"promote", "rollback", "pause", "resume", "cancel", "advance", "setTraffic"}

ASSUME OpsAssumption == Ops \subseteq Operations
ASSUME StepsAssumption == Steps \in Seq([pct : Percent, auto : BOOLEAN])
ASSUME PctsAssumption == RolloutPcts \subseteq Percent
ASSUME BoundsAssumption == MaxDeliver \in Nat /\ MaxOps \in Nat /\ MaxFaults \in Nat
ASSUME LossyAssumption == Lossy \in BOOLEAN
ASSUME RequestsAssumption ==
    Requests \subseteq [record : BOOLEAN, canary : BOOLEAN, rollout : BOOLEAN]

VARIABLES
    row,       \* the deployments row
    canary,    \* its strategy is canary
    phases,    \* deployment_phases in insertion order: sort_order and status
    rollout,   \* rollout of this deployment: "none", "wanted", "active", "ended"
    msg,       \* deployment.created: [state, deliveries]
    drv,       \* per driver: program counter, context, local row, list, index
    req,       \* per caller: program counter, operation, local row, phase
    recorded,  \* a RollbackRecord exists
    ops, faults

vars == <<row, canary, phases, rollout, msg, drv, req, recorded, ops, faults>>

PhaseStatus == {"pending", "active", "passed", "failed"}

IdleDriver == [pc |-> "idle", ctx |-> "engine", d |-> Absent, list |-> <<>>, i |-> 0]
IdleCaller == [pc |-> "idle", op |-> "none", base |-> Absent, d |-> Absent, phase |-> 0]

Init ==
    /\ row = Absent
    /\ canary = FALSE
    /\ phases = <<>>
    /\ rollout = "none"
    /\ msg = [state |-> "none", deliveries |-> 0]
    /\ drv = [w \in Drivers |-> IdleDriver]
    /\ req = [c \in Callers |-> IdleCaller]
    /\ recorded = FALSE
    /\ ops = 0
    /\ faults = 0

-----------------------------------------------------------------------------
(* createDeployment: insert, publish, then attach the rollout.             *)

\* Best-effort publication: errors are ignored.
Published == IF Lossy THEN {"queued", "none"} ELSE {"queued"}

\* The row CreateDeployment inserts: a recorded deployment is complete at
\* once, any other is pending.
NewRow(r) ==
    IF r.record
    THEN [status |-> "completed", traffic |-> 100, started |-> TRUE, completed |-> TRUE]
    ELSE [status |-> "pending", traffic |-> 0, started |-> FALSE, completed |-> FALSE]

CreateDeployment ==
    /\ row = Absent
    /\ \E r \in Requests, s \in Published :
        /\ row' = NewRow(r)
        /\ canary' = r.canary
        /\ rollout' = IF r.rollout /\ ~r.record THEN "wanted" ELSE "none"
        /\ msg' = [msg EXCEPT !.state = IF r.record THEN "none" ELSE s]
    /\ UNCHANGED <<phases, drv, req, recorded, ops, faults>>

\* AttachFromDeployRequest, called after the message has been published.
AttachRollout ==
    /\ rollout = "wanted"
    /\ rollout' = "active"
    /\ UNCHANGED <<row, canary, phases, msg, drv, req, recorded, ops, faults>>

\* The rollout reaches a terminal status (the rollout engine).
RolloutEnds ==
    /\ rollout = "active"
    /\ rollout' = "ended"
    /\ UNCHANGED <<row, canary, phases, msg, drv, req, recorded, ops, faults>>

-----------------------------------------------------------------------------
(* The phase engine.                                                       *)

\* A goroutine in driveDeployment starts on an idle slot.
Spawn(w, ctx) ==
    /\ drv[w].pc = "idle"
    /\ drv' = [drv EXCEPT ![w] =
                 [pc |-> "get", ctx |-> ctx, d |-> Absent, list |-> <<>>, i |-> 0]]

Exit(w) == drv' = [drv EXCEPT ![w] = IdleDriver]

\* w goes on to pc with the copy d of the row and at position i of its list.
Goto(w, pc, d, list, i) ==
    drv' = [drv EXCEPT ![w] =
              [pc |-> pc, ctx |-> drv[w].ctx, d |-> d, list |-> list, i |-> i]]

\* w goes on to pc with nothing else changed.
Jump(w, pc) == Goto(w, pc, drv[w].d, drv[w].list, drv[w].i)

\* w is about to make the repository call named by its program counter, and
\* its context still allows it.
At(w, pc) == drv[w].pc = pc /\ drv[w].ctx # "cancelled"

\* The handler spawns the goroutine, returns, and the message is acknowledged;
\* the acknowledgement may be lost, and the message is then delivered again.
Deliver(w) ==
    /\ msg.state = "queued"
    /\ msg.deliveries < MaxDeliver
    /\ Spawn(w, "engine")
    /\ \E s \in IF Lossy THEN {"queued", "acked"} ELSE {"acked"} :
        msg' = [state |-> s, deliveries |-> msg.deliveries + 1]
    /\ UNCHANGED <<row, canary, phases, rollout, req, recorded, ops, faults>>

Get(w) ==
    /\ At(w, "get")
    /\ Goto(w, "guard", row, <<>>, 0)
    /\ UNCHANGED <<row, canary, phases, rollout, msg, req, recorded, ops, faults>>

\* Where driveDeployment goes after the rollout lookup and the checks on the
\* local copy; a failed lookup proceeds as if there were no rollout.
GuardTarget(w, lookup) ==
    IF lookup = "active" \/ ~canary THEN "idle"
    ELSE CASE drv[w].d.status = "pending" -> "start"
           [] drv[w].d.status = "running" -> "list"
           [] OTHER -> "idle"

Guard(w) ==
    /\ At(w, "guard")
    /\ \/ /\ faults' = faults
          /\ IF GuardTarget(w, rollout) = "idle"
             THEN Exit(w)
             ELSE Jump(w, GuardTarget(w, rollout))
       \/ /\ faults < MaxFaults
          /\ faults' = faults + 1
          /\ GuardTarget(w, "none") # "idle"
          /\ Jump(w, GuardTarget(w, "none"))
    /\ UNCHANGED <<row, canary, phases, rollout, msg, req, recorded, ops>>

\* UpdateDeployment: w changes its copy to d, writes it and goes on to pc.
WriteRow(w, d, pc) ==
    /\ row' = d
    /\ IF pc = "idle" THEN Exit(w) ELSE Goto(w, pc, d, drv[w].list, drv[w].i)
    /\ UNCHANGED <<canary, rollout, msg, req, ops, faults>>

StartRunning(w) ==
    /\ At(w, "start")
    /\ WriteRow(w, TransitionTo(drv[w].d, "running"), "list")
    /\ UNCHANGED <<phases, recorded>>

\* The rows of deployment_phases ordered by sort_order; rows with equal
\* sort_order come in either order.
ListPhases ==
    {s \in [1..Len(phases) -> 1..Len(phases)] :
        \A i, j \in 1..Len(phases) :
            i < j => /\ s[i] # s[j]
                     /\ phases[s[i]].order <= phases[s[j]].order}

\* The first phase that has not passed, one past the end when all have.
StartIdx(list) ==
    CHOOSE i \in 1..(Len(list) + 1) :
        /\ \A j \in 1..(i - 1) : phases[list[j]].status = "passed"
        /\ i <= Len(list) => phases[list[i]].status # "passed"

\* The next step of the loop over the phases.
LoopPc(list, i) == IF i <= Len(list) THEN "activate" ELSE "complete"

LoadPhases(w) ==
    /\ At(w, "list")
    /\ IF phases = <<>> /\ Steps # <<>>
       THEN Goto(w, "create", drv[w].d, <<>>, 1)
       ELSE \E list \in ListPhases :
              Goto(w, LoopPc(list, StartIdx(list)), drv[w].d, list, StartIdx(list))
    /\ UNCHANGED <<row, canary, phases, rollout, msg, req, recorded, ops, faults>>

\* Mutant: sort_order starts one too low.
CreatePhase_LowOrder(w) ==
    /\ At(w, "create")
    /\ phases' = Append(phases, [order |-> drv[w].i - 1, status |-> "pending"])
    /\ LET list == Append(drv[w].list, Len(phases) + 1) IN
       IF drv[w].i < Len(Steps)
       THEN Goto(w, "create", drv[w].d, list, drv[w].i + 1)
       ELSE Goto(w, "activate", drv[w].d, list, 1)
    /\ UNCHANGED <<row, canary, rollout, msg, req, recorded, ops, faults>>

\* CreatePhase for one step of the configuration; phases are inserted one by
\* one, outside any transaction.
CreatePhase(w) ==
    /\ At(w, "create")
    /\ phases' = Append(phases, [order |-> drv[w].i, status |-> "pending"])
    /\ LET list == Append(drv[w].list, Len(phases) + 1) IN
       IF drv[w].i < Len(Steps)
       THEN Goto(w, "create", drv[w].d, list, drv[w].i + 1)
       ELSE Goto(w, "activate", drv[w].d, list, 1)
    /\ UNCHANGED <<row, canary, rollout, msg, req, recorded, ops, faults>>

\* The phase row w is working on, and its configuration step.
Current(w) == drv[w].list[drv[w].i]
StepOf(w) == Steps[phases[Current(w)].order]

\* UpdatePhase on the current phase.
UpdatePhase(w, status, pc) ==
    /\ phases' = [phases EXCEPT ![Current(w)] = [@ EXCEPT !.status = status]]
    /\ Jump(w, pc)
    /\ UNCHANGED <<row, canary, rollout, msg, req, recorded, ops, faults>>

Activate(w) == At(w, "activate") /\ UpdatePhase(w, "active", "traffic")

ShiftTraffic(w) ==
    /\ At(w, "traffic")
    /\ WriteRow(w, [drv[w].d EXCEPT !.traffic = StepOf(w).pct], "wait")
    /\ UNCHANGED <<phases, recorded>>

\* The phase's duration has passed; the health monitor knows nothing of the
\* deployment, finds it healthy or finds it unhealthy.
Bake(w) ==
    /\ At(w, "wait")
    /\ \E health \in {"unknown", "healthy", "unhealthy"} :
        Jump(w, IF health = "unhealthy" THEN "fail"
                ELSE IF StepOf(w).auto THEN "pass" ELSE "gate")
    /\ UNCHANGED <<row, canary, phases, rollout, msg, req, recorded, ops, faults>>

\* The phase is marked failed; an error here is ignored and the rollback goes on.
FailPhase(w) ==
    /\ At(w, "fail")
    /\ \/ UpdatePhase(w, "failed", "rollback")
       \/ /\ faults < MaxFaults
          /\ faults' = faults + 1
          /\ Jump(w, "rollback")
          /\ UNCHANGED <<row, canary, phases, rollout, msg, req, recorded, ops>>

\* triggerRollback: status, traffic 0 and the rollback record, whose own
\* failure is only logged.
TriggerRollback(w) ==
    /\ At(w, "rollback")
    /\ WriteRow(w, [TransitionTo(drv[w].d, "rolled_back") EXCEPT !.traffic = 0], "idle")
    /\ recorded' \in IF Lossy THEN {recorded, TRUE} ELSE {TRUE}
    /\ UNCHANGED phases

\* Mutant: the driver does not return after pausing.
ManualGate_KeepsDriving(w) ==
    /\ At(w, "gate")
    /\ WriteRow(w, TransitionTo(drv[w].d, "paused"), "pass")
    /\ UNCHANGED <<phases, recorded>>

\* Mutant: the driver returns without pausing.
ManualGate_LeavesRunning(w) ==
    /\ At(w, "gate")
    /\ WriteRow(w, drv[w].d, "idle")
    /\ UNCHANGED <<phases, recorded>>

\* A phase without auto-promote pauses the deployment and ends the driver.
ManualGate(w) ==
    /\ At(w, "gate")
    /\ WriteRow(w, TransitionTo(drv[w].d, "paused"), "idle")
    /\ UNCHANGED <<phases, recorded>>

\* The phase is marked passed and the loop goes on.
PassPhase(w) ==
    /\ At(w, "pass")
    /\ phases' = [phases EXCEPT ![Current(w)] = [@ EXCEPT !.status = "passed"]]
    /\ Goto(w, LoopPc(drv[w].list, drv[w].i + 1), drv[w].d, drv[w].list, drv[w].i + 1)
    /\ UNCHANGED <<row, canary, rollout, msg, req, recorded, ops, faults>>

Complete(w) ==
    /\ At(w, "complete")
    /\ WriteRow(w, [TransitionTo(drv[w].d, "completed") EXCEPT !.traffic = 100], "idle")
    /\ UNCHANGED <<phases, recorded>>

DriverStep(w) ==
    \/ Get(w) \/ Guard(w) \/ StartRunning(w) \/ LoadPhases(w) \/ CreatePhase(w)
    \/ Activate(w) \/ ShiftTraffic(w) \/ Bake(w) \/ FailPhase(w)
    \/ TriggerRollback(w) \/ ManualGate(w) \/ PassPhase(w) \/ Complete(w)

\* A driver started by Advance runs on the request's context, which ends when
\* the handler returns; from then on its next repository call or wait fails.
RequestEnds(w) ==
    /\ drv[w].ctx = "request"
    /\ drv' = [drv EXCEPT ![w] = [@ EXCEPT !.ctx = "cancelled"]]
    /\ UNCHANGED <<row, canary, phases, rollout, msg, req, recorded, ops, faults>>

CancelledDriverExits(w) ==
    /\ drv[w].ctx = "cancelled"
    /\ Exit(w)
    /\ UNCHANGED <<row, canary, phases, rollout, msg, req, recorded, ops, faults>>

\* A repository call fails; the driver returns the error, which is logged.
RepoError(w) ==
    /\ drv[w].pc \notin {"idle", "guard", "wait", "fail"}
    /\ faults < MaxFaults
    /\ faults' = faults + 1
    /\ Exit(w)
    /\ UNCHANGED <<row, canary, phases, rollout, msg, req, recorded, ops>>

-----------------------------------------------------------------------------
(* The service operations, called by API handlers.                         *)

\* Mutant: promotion keeps the traffic it found.
Result_PromoteKeepsTraffic(op, d) ==
    CASE op = "promote"  -> [d EXCEPT !.status = "promoting"]
      [] op = "rollback" -> TransitionTo(d, "rolled_back")
      [] op = "pause"    -> TransitionTo(d, "paused")
      [] op = "resume"   -> TransitionTo(d, "running")
      [] op = "advance"  -> TransitionTo(d, "running")
      [] op = "cancel"   -> TransitionTo(d, "cancelled")

\* The row an operation writes back, given the row d it read.
Result(op, d) ==
    CASE op = "promote"  -> [status |-> "promoting", traffic |-> 100,
                             started |-> d.started, completed |-> d.completed]
      [] op = "rollback" -> TransitionTo(d, "rolled_back")
      [] op = "pause"    -> TransitionTo(d, "paused")
      [] op = "resume"   -> TransitionTo(d, "running")
      [] op = "advance"  -> TransitionTo(d, "running")
      [] op = "cancel"   -> TransitionTo(d, "cancelled")

\* Mutant: any deployment that is not over may be cancelled.
Allowed_CancelPromoting(op, d) ==
    CASE op = "promote"  -> ValidateTransition(d, "promoting")
      [] op = "rollback" -> ValidateTransition(d, "rolled_back")
      [] op = "pause"    -> d.status = "running"
      [] op = "resume"   -> d.status = "paused"
      [] op = "advance"  -> d.status = "paused"
      [] op = "cancel"   -> d.status \notin TerminalStatus

\* The check an operation makes on the row it read.
Allowed(op, d) ==
    CASE op = "promote"  -> ValidateTransition(d, "promoting")
      [] op = "rollback" -> ValidateTransition(d, "rolled_back")
      [] op = "pause"    -> d.status = "running"
      [] op = "resume"   -> d.status = "paused"
      [] op = "advance"  -> d.status = "paused"
      [] op = "cancel"   -> ValidateTransition(d, "cancelled")

\* GetDeployment, the check and the change to the local copy.
ReadForOp(c, op) ==
    /\ req[c].pc = "idle"
    /\ row # Absent
    /\ ops < MaxOps
    /\ ops' = ops + 1
    /\ Allowed(op, row)
    /\ req' = [req EXCEPT ![c] =
                 [pc |-> IF op = "advance" THEN "phase" ELSE "write",
                  op |-> op, base |-> row, d |-> Result(op, row), phase |-> 0]]
    /\ UNCHANGED <<row, canary, phases, rollout, msg, drv, recorded, faults>>

\* SetTrafficPercent, called by the rollout engine's applicator.
ReadForTraffic(c, pct) ==
    /\ req[c].pc = "idle"
    /\ rollout = "active"
    /\ ops < MaxOps
    /\ ops' = ops + 1
    /\ req' = [req EXCEPT ![c] =
                 [pc |-> "write", op |-> "setTraffic", base |-> row,
                  d |-> [row EXCEPT !.traffic = pct], phase |-> 0]]
    /\ UNCHANGED <<row, canary, phases, rollout, msg, drv, recorded, faults>>

\* Advance: GetActivePhase returns some active row; with none it fails.
AdvanceFindPhase(c) ==
    /\ req[c].pc = "phase"
    /\ LET active == {p \in 1..Len(phases) : phases[p].status = "active"} IN
       IF active = {}
       THEN req' = [req EXCEPT ![c] = IdleCaller]
       ELSE \E p \in active :
              req' = [req EXCEPT ![c] = [pc |-> "pass", op |-> "advance", base |-> req[c].base,
                                         d |-> req[c].d, phase |-> p]]
    /\ UNCHANGED <<row, canary, phases, rollout, msg, drv, recorded, ops, faults>>

AdvancePassPhase(c) ==
    /\ req[c].pc = "pass"
    /\ phases' = [phases EXCEPT ![req[c].phase] = [@ EXCEPT !.status = "passed"]]
    /\ req' = [req EXCEPT ![c] = [@ EXCEPT !.pc = "write"]]
    /\ UNCHANGED <<row, canary, rollout, msg, drv, recorded, ops, faults>>

\* UpdateDeployment of the operation; Advance then starts a driver on the
\* context of the request.
WriteForOp(c) ==
    /\ req[c].pc = "write"
    /\ row' = req[c].d
    /\ req' = [req EXCEPT ![c] = IdleCaller]
    /\ IF req[c].op = "advance" THEN \E w \in Drivers : Spawn(w, "request")
                                ELSE drv' = drv
    /\ UNCHANGED <<canary, phases, rollout, msg, recorded, ops, faults>>

ServiceOp(c) ==
    \/ \E op \in Ops \ {"setTraffic"} : ReadForOp(c, op)
    \/ "setTraffic" \in Ops /\ \E pct \in RolloutPcts : ReadForTraffic(c, pct)

CallerStep(c) == AdvanceFindPhase(c) \/ AdvancePassPhase(c) \/ WriteForOp(c)

-----------------------------------------------------------------------------
\* The API process dies: goroutines, requests and the rest of an unfinished
\* createDeployment are gone; the rows and the message are not.
Crash ==
    /\ faults < MaxFaults
    /\ faults' = faults + 1
    /\ drv' = [w \in Drivers |-> IdleDriver]
    /\ req' = [c \in Callers |-> IdleCaller]
    /\ rollout' = IF rollout = "wanted" THEN "none" ELSE rollout
    /\ UNCHANGED <<row, canary, phases, msg, recorded, ops>>

Next ==
    \/ CreateDeployment \/ AttachRollout \/ RolloutEnds
    \/ \E w \in Drivers : \/ Deliver(w) \/ DriverStep(w) \/ RequestEnds(w)
                          \/ CancelledDriverExits(w) \/ RepoError(w)
    \/ \E c \in Callers : ServiceOp(c) \/ CallerStep(c)
    \/ Crash

Spec == Init /\ [][Next]_vars

\* What the Go scheduler and the network owe: a delivered message, a goroutine
\* and a request in progress are not starved, a handler returns, and a client
\* does send its request.
Fairness ==
    /\ WF_vars(CreateDeployment)
    /\ WF_vars(AttachRollout)
    /\ \A w \in Drivers : /\ WF_vars(Deliver(w))
                          /\ WF_vars(DriverStep(w))
                          /\ WF_vars(RequestEnds(w))
                          /\ WF_vars(CancelledDriverExits(w))
    /\ \A c \in Callers : WF_vars(CallerStep(c))

FairSpec == Spec /\ Fairness

-----------------------------------------------------------------------------
(* Properties.                                                             *)

DriverPc == {"idle", "get", "guard", "start", "list", "create", "activate", "traffic",
             "wait", "fail", "rollback", "gate", "pass", "complete"}

\* The variables have their types; a driver's list names existing phase rows.
TypeOK ==
    /\ row \in Row \cup {Absent}
    /\ canary \in BOOLEAN
    /\ phases \in Seq([order : 1..Len(Steps), status : PhaseStatus])
    /\ rollout \in {"none", "wanted", "active", "ended"}
    /\ msg \in [state : {"none", "queued", "acked"}, deliveries : 0..MaxDeliver]
    /\ drv \in [Drivers -> [pc : DriverPc, ctx : {"engine", "request", "cancelled"},
                            d : Row \cup {Absent}, list : Seq(1..Len(phases)), i : Nat]]
    /\ req \in [Callers -> [pc : {"idle", "phase", "pass", "write"}, op : Operations \cup {"none"},
                            base : Row \cup {Absent}, d : Row \cup {Absent},
                            phase : 0..Len(phases)]]
    /\ recorded \in BOOLEAN
    /\ ops \in 0..MaxOps
    /\ faults \in 0..MaxFaults

\* completed_at is set exactly in the terminal statuses, and started_at exactly
\* once the deployment has run (a cancelled one may or may not have).
Timestamps(d) ==
    /\ d.completed <=> d.status \in TerminalStatus
    /\ d.status \in {"absent", "pending"} => ~d.started
    /\ d.status \notin {"absent", "pending", "cancelled"} => d.started

\* Whatever drivers and requests overwrite each other's rows, whatever is lost
\* or redelivered, and wherever the process crashes, the stored timestamps
\* agree with the stored status: UpdateDeployment writes the four columns of
\* one consistent copy (models/deployment.go TransitionTo, postgres
\* UpdateDeployment).
TimestampsMatchStatus == Timestamps(row)

\* Unless the rollout engine also sets its traffic, a deployment that is stored
\* as promoting or completed has all the traffic: no stale write may pair these
\* statuses with another writer's percentage (PromoteDeployment and the end of
\* driveDeployment).
FullTrafficWhenPromoted ==
    "setTraffic" \notin Ops =>
        (row.status \in {"promoting", "completed"} => row.traffic = 100)

\* The status moves along validTransitions.
LegalStep ==
    \/ row = Absent
    \/ row'.status = row.status
    \/ row'.status \in validTransitions[row.status]

\* The step is taken by a driver or a request whose copy is out of date.
StaleWriter ==
    \/ \E w \in Drivers : drv[w].pc # "idle" /\ drv'[w] # drv[w] /\ drv[w].d # row
    \/ \E c \in Callers : req'[c] # req[c] /\ req[c].base # row

\* Read-check-write is the only hole in the state machine: a status moves
\* against validTransitions only when the writer's copy had gone stale between
\* its GetDeployment and its UpdateDeployment.  No driver or operation that
\* holds the current row ever makes an illegal move.
OnlyStaleWritersBreakTheStateMachine == [][LegalStep \/ StaleWriter]_vars

\* Without operator pauses and with each message delivered once, a manual gate
\* hands the deployment over: Advance starts a driver only after the paused one
\* has returned, so two never drive it (engine.Advance, driveDeployment).
AtMostOneDriver ==
    \A v, w \in Drivers : drv[v].pc # "idle" /\ drv[w].pc # "idle" => v = w

\* Phases are taken in sort_order: a phase that is no longer pending has only
\* passed phases before it, across gates, crashes and new drivers.
PhasesInOrder ==
    \A p, q \in 1..Len(phases) :
        phases[p].order < phases[q].order /\ phases[q].status # "pending"
            => phases[p].status = "passed"

\* A canary that the engine completed went through every configured step.
CompletedAfterEveryPhase ==
    row.status = "completed" /\ canary /\ msg.deliveries > 0 =>
        /\ Len(phases) = Len(Steps)
        /\ \A p \in 1..Len(phases) : phases[p].status = "passed"

\* Where driveDeployment leaves a canary: done, rolled back, or at a gate.
Settled == row.status \in {"completed", "rolled_back", "paused"}

\* Once the engine has a canary and no operator interferes, it brings it to its
\* end or to a manual gate for good, even if the message is delivered again and
\* several drivers overwrite each other's rows and insert their phases twice.
DrivenCanarySettles == (canary /\ msg.deliveries > 0) ~> []Settled

\* Advance takes a gated deployment on: the driver it starts brings it to its
\* end or to the next gate.
AdvanceResumes == \A w \in Drivers : drv[w].ctx = "request" ~> Settled
=============================================================================
