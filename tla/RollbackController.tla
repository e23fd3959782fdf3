------------------------- MODULE RollbackController --------------------------
(***************************************************************************)
(* Automatic and manual rollback of deployments: the health monitor's loop *)
(* (internal/health/monitor.go) and the rollback state machine it feeds    *)
(* (internal/rollback/controller.go).                                      *)
(*                                                                         *)
(* The monitor is one goroutine that evaluates the deployments of a        *)
(* snapshot one after the other and calls the controller; manual rollbacks *)
(* come from request goroutines.  A step is what happens under one         *)
(* acquisition of a mutex, or one call of the executor, which runs with    *)
(* the mutex released.  Time passes in ticks.                              *)
(***************************************************************************)
EXTENDS Integers, FiniteSets

CONSTANTS
    Deployments,
    Monitor,             \* the monitor's goroutine, none of the Managers
    Managers,            \* request goroutines of triggerRollback
    Window,              \* evaluationWindow, in ticks
    Cooldown,            \* cooldownPeriod, in ticks
    CarefulCallers,      \* TRUE: nobody calls Watch or Unwatch during a rollback
    MaxWatches,          \* bound on the calls of Watch and Unwatch
    MaxManual,           \* bound on manual rollbacks
    MaxFaults            \* bound on failed executions

VARIABLES
    monitored,   \* the monitor's deployments
    todo,        \* what is left of the snapshot of the current round
    signal,      \* per deployment: what its health checks say now
    ctx,         \* per deployment: the controller's rollbackContext
    cool,        \* per deployment: ticks since its last recorded rollback, -1 before
    act,         \* per goroutine: what it is doing, for which deployment
    calm,        \* history: ticks since the controller last saw it healthy or new
    watches, manual, faults

vars == <<monitored, todo, signal, ctx, cool, act, calm, watches, manual, faults>>

Actors == {Monitor} \cup Managers
NoTime == -1
State == {"HEALTHY", "EVALUATING", "ROLLING_BACK", "ROLLED_BACK"}
Idle == [pc |-> "idle", d |-> "none", health |-> "good"]
Unwatched == [watched |-> FALSE, state |-> "HEALTHY", since |-> NoTime]
Fresh == [watched |-> TRUE, state |-> "HEALTHY", since |-> NoTime]

Init ==
    /\ monitored = {}
    /\ todo = {}
    /\ signal \in [Deployments -> {"good", "bad"}]
    /\ ctx = [d \in Deployments |-> Unwatched]
    /\ cool = [d \in Deployments |-> NoTime]
    /\ act = [a \in Actors |-> Idle]
    /\ calm = [d \in Deployments |-> 0]
    /\ watches = 0
    /\ manual = 0
    /\ faults = 0

\* Goroutines in the middle of a rollback of d.
RollingBack(d) == {a \in Actors : act[a].d = d /\ act[a].pc \in {"execute", "record", "finish"}}

-----------------------------------------------------------------------------
(* The health monitor.                                                     *)

CountWatch(d) ==
    /\ watches < MaxWatches
    /\ watches' = watches + 1
    /\ CarefulCallers => RollingBack(d) = {}

MonitorWatch(d) ==
    /\ CountWatch(d)
    /\ monitored' = monitored \cup {d}
    /\ UNCHANGED <<todo, signal, ctx, cool, act, calm, manual, faults>>

MonitorUnwatch(d) ==
    /\ CountWatch(d)
    /\ monitored' = monitored \ {d}
    /\ UNCHANGED <<todo, signal, ctx, cool, act, calm, manual, faults>>

\* The ticker fires: evaluate takes a snapshot of the deployments.
StartRound ==
    /\ act[Monitor].pc = "idle"
    /\ todo = {}
    /\ todo' = monitored
    /\ UNCHANGED <<monitored, signal, ctx, cool, act, calm, watches, manual, faults>>

\* The checks of the next deployment, without the lock.
RunChecks(d) ==
    /\ act[Monitor].pc = "idle"
    /\ d \in todo
    /\ todo' = todo \ {d}
    /\ act' = [act EXCEPT ![Monitor] = [pc |-> "store", d |-> d, health |-> signal[d]]]
    /\ UNCHANGED <<monitored, signal, ctx, cool, calm, watches, manual, faults>>

\* The result is stored, whether or not the deployment is still monitored.
StoreHealth ==
    /\ act[Monitor].pc = "store"
    /\ monitored' = monitored \cup {act[Monitor].d}
    /\ act' = [act EXCEPT ![Monitor].pc = "update"]
    /\ UNCHANGED <<todo, signal, ctx, cool, calm, watches, manual, faults>>

-----------------------------------------------------------------------------
(* The rollback controller.                                                *)

Watch(d) ==
    /\ CountWatch(d)
    /\ ctx' = [ctx EXCEPT ![d] = Fresh]
    /\ calm' = [calm EXCEPT ![d] = 0]
    /\ UNCHANGED <<monitored, todo, signal, cool, act, manual, faults>>

Unwatch(d) ==
    /\ CountWatch(d)
    /\ ctx' = [ctx EXCEPT ![d] = Unwatched]
    /\ UNCHANGED <<monitored, todo, signal, cool, act, calm, manual, faults>>

isInCooldown(d) == cool[d] # NoTime /\ cool[d] < Cooldown

Done(a) == act' = [act EXCEPT ![a] = Idle]

\* The first half of OnHealthUpdate: the score is kept if the deployment is
\* watched, and the lock is released.
OnHealthUpdate ==
    /\ act[Monitor].pc = "update"
    /\ IF ctx[act[Monitor].d].watched
       THEN act' = [act EXCEPT ![Monitor].pc = act[Monitor].health]
       ELSE Done(Monitor)
    /\ UNCHANGED <<monitored, todo, signal, ctx, cool, calm, watches, manual, faults>>

\* Mutant: every unhealthy update starts the evaluation again.
handleUnhealthy_Restarts ==
    /\ act[Monitor].pc = "bad"
    /\ LET d == act[Monitor].d IN
       IF ctx[d].watched /\ ~isInCooldown(d) /\ ctx[d].state \in {"HEALTHY", "EVALUATING"}
       THEN IF ctx[d].state = "EVALUATING" /\ ctx[d].since >= Window
            THEN /\ ctx' = [ctx EXCEPT ![d].state = "ROLLING_BACK"]
                 /\ act' = [act EXCEPT ![Monitor].pc = "execute"]
            ELSE /\ ctx' = [ctx EXCEPT ![d] = [@ EXCEPT !.state = "EVALUATING", !.since = 0]]
                 /\ Done(Monitor)
       ELSE Done(Monitor) /\ ctx' = ctx
    /\ UNCHANGED <<monitored, todo, signal, cool, calm, watches, manual, faults>>

\* The first unhealthy update starts the evaluation, one after the window ends
\* it with a rollback; nothing happens in the cooldown.
handleUnhealthy ==
    /\ act[Monitor].pc = "bad"
    /\ LET d == act[Monitor].d IN
       \/ /\ ~ctx[d].watched \/ isInCooldown(d) \/ ctx[d].state \in {"ROLLING_BACK", "ROLLED_BACK"}
             \/ (ctx[d].state = "EVALUATING" /\ ctx[d].since < Window)
          /\ Done(Monitor)
          /\ ctx' = ctx
       \/ /\ ctx[d].watched /\ ~isInCooldown(d) /\ ctx[d].state = "HEALTHY"
          /\ ctx' = [ctx EXCEPT ![d] = [@ EXCEPT !.state = "EVALUATING", !.since = 0]]
          /\ Done(Monitor)
       \/ /\ ctx[d].watched /\ ~isInCooldown(d)
          /\ ctx[d].state = "EVALUATING" /\ ctx[d].since >= Window
          /\ ctx' = [ctx EXCEPT ![d].state = "ROLLING_BACK"]
          /\ act' = [act EXCEPT ![Monitor].pc = "execute"]
    /\ UNCHANGED <<monitored, todo, signal, cool, calm, watches, manual, faults>>

\* Mutant: a healthy update does not end the evaluation.
handleHealthy_KeepsEvaluating ==
    /\ act[Monitor].pc = "good"
    /\ calm' = [calm EXCEPT ![act[Monitor].d] = 0]
    /\ Done(Monitor)
    /\ UNCHANGED <<monitored, todo, signal, ctx, cool, watches, manual, faults>>

handleHealthy ==
    /\ act[Monitor].pc = "good"
    /\ LET d == act[Monitor].d IN
       /\ ctx' = IF ctx[d].watched /\ ctx[d].state = "EVALUATING"
                 THEN [ctx EXCEPT ![d] = Fresh]
                 ELSE ctx
       /\ calm' = [calm EXCEPT ![d] = 0]
    /\ Done(Monitor)
    /\ UNCHANGED <<monitored, todo, signal, cool, watches, manual, faults>>

TriggerManualRollback(a, d) ==
    /\ act[a].pc = "idle"
    /\ manual < MaxManual
    /\ manual' = manual + 1
    /\ ctx[d].watched
    /\ ctx[d].state \notin {"ROLLING_BACK", "ROLLED_BACK"}
    /\ ~isInCooldown(d)
    /\ ctx' = [ctx EXCEPT ![d].state = "ROLLING_BACK"]
    /\ act' = [act EXCEPT ![a] = [pc |-> "execute", d |-> d, health |-> "good"]]
    /\ UNCHANGED <<monitored, todo, signal, cool, calm, watches, faults>>

\* The executor.  An automatic rollback goes on after a failure; a manual one
\* returns the error at once.
Execute(a) ==
    /\ act[a].pc = "execute"
    /\ \/ act' = [act EXCEPT ![a].pc = "record"] /\ faults' = faults
       \/ /\ faults < MaxFaults
          /\ faults' = faults + 1
          /\ IF a = Monitor THEN act' = [act EXCEPT ![a].pc = "record"] ELSE Done(a)
    /\ UNCHANGED <<monitored, todo, signal, ctx, cool, calm, watches, manual>>

recordRollback(a) ==
    /\ act[a].pc = "record"
    /\ cool' = [cool EXCEPT ![act[a].d] = 0]
    /\ act' = [act EXCEPT ![a].pc = "finish"]
    /\ UNCHANGED <<monitored, todo, signal, ctx, calm, watches, manual, faults>>

\* Mutant: the state is not stored.
transitionTo_NotStored(a) ==
    /\ act[a].pc = "finish"
    /\ Done(a)
    /\ UNCHANGED <<monitored, todo, signal, ctx, cool, calm, watches, manual, faults>>

\* transitionTo looks the deployment up again.
transitionTo(a) ==
    /\ act[a].pc = "finish"
    /\ ctx' = IF ctx[act[a].d].watched THEN [ctx EXCEPT ![act[a].d].state = "ROLLED_BACK"] ELSE ctx
    /\ Done(a)
    /\ UNCHANGED <<monitored, todo, signal, cool, calm, watches, manual, faults>>

-----------------------------------------------------------------------------
(* The environment.                                                        *)

Flip(d) ==
    /\ signal' = [signal EXCEPT ![d] = IF @ = "good" THEN "bad" ELSE "good"]
    /\ UNCHANGED <<monitored, todo, ctx, cool, act, calm, watches, manual, faults>>

\* Ages beyond every limit are alike.
Older(t, limit) == IF t # NoTime /\ t < limit THEN t + 1 ELSE t

Tick ==
    /\ ctx' = [d \in Deployments |-> [ctx[d] EXCEPT !.since = Older(@, Window)]]
    /\ cool' = [d \in Deployments |-> Older(cool[d], Cooldown)]
    /\ calm' = [d \in Deployments |-> Older(calm[d], Window)]
    /\ UNCHANGED <<monitored, todo, signal, act, watches, manual, faults>>

MonitorStep ==
    \/ StartRound \/ (\E d \in Deployments : RunChecks(d)) \/ StoreHealth
    \/ OnHealthUpdate \/ handleUnhealthy \/ handleHealthy

RollbackStep(a) == Execute(a) \/ recordRollback(a) \/ transitionTo(a)

Next ==
    \/ MonitorStep
    \/ \E a \in Actors : RollbackStep(a)
    \/ \E a \in Managers, d \in Deployments : TriggerManualRollback(a, d)
    \/ \E d \in Deployments : \/ MonitorWatch(d) \/ MonitorUnwatch(d)
                              \/ Watch(d) \/ Unwatch(d) \/ Flip(d)
    \/ Tick

Spec == Init /\ [][Next]_vars

\* The ticker fires, the monitor's goroutine and a rollback under way go on, and
\* time passes.
Fairness ==
    /\ WF_vars(MonitorStep)
    /\ \A a \in Actors : WF_vars(RollbackStep(a))
    /\ WF_vars(Tick)

FairSpec == Spec /\ Fairness

-----------------------------------------------------------------------------
(* Properties.                                                             *)

\* The variables have their types, and a deployment that is being evaluated
\* says since when.
TypeOK ==
    /\ monitored \subseteq Deployments /\ todo \subseteq Deployments
    /\ signal \in [Deployments -> {"good", "bad"}]
    /\ ctx \in [Deployments -> [watched : BOOLEAN, state : State, since : NoTime..Window]]
    /\ \A d \in Deployments : ctx[d].state = "EVALUATING" => ctx[d].watched /\ ctx[d].since # NoTime
    /\ cool \in [Deployments -> NoTime..Cooldown]
    /\ calm \in [Deployments -> 0..Window]
    /\ \A a \in Actors : act[a].pc # "idle" => act[a].d \in Deployments
    /\ \A a \in Managers : act[a].pc \in {"idle", "execute", "record", "finish"}

\* A rollback of d begins in this step.
Begins(d) == \E a \in Actors : act[a].pc # "execute" /\ act'[a].pc = "execute" /\ act'[a].d = d

\* No flapping (SetCooldownPeriod): a rollback of a deployment, manual or
\* automatic, begins only when no other is under way and the last one that was
\* recorded is a cooldown ago, although the lock is released while one runs.
NoFlappingStep ==
    \A d \in Deployments :
        Begins(d) => RollingBack(d) = {} /\ (cool[d] = NoTime \/ cool[d] >= Cooldown)
NoFlapping == [][NoFlappingStep]_vars

\* An automatic rollback is earned: the controller has seen no healthy update of
\* that deployment for a whole evaluation window (handleUnhealthy,
\* handleHealthy), however often it was watched anew.
EarnedStep ==
    (act[Monitor].pc = "bad" /\ act'[Monitor].pc = "execute") => calm[act[Monitor].d] >= Window
AutoRollbackIsEarned == [][EarnedStep]_vars

\* A deployment that stays unhealthy, monitored and watched is rolled back at
\* last: neither the cooldown nor the loop over other deployments starves it.
SustainedFailureRollsBack ==
    \A d \in Deployments :
        (<>[](signal[d] = "bad" /\ d \in monitored /\ ctx[d].watched)) => <>[](ctx[d].state = "ROLLED_BACK")

\* As long as no execution has failed, ROLLING_BACK means that a goroutine is
\* rolling the deployment back, although the lock is released meanwhile.  After
\* a failed manual rollback it does not: the error returns before the state is
\* changed again, and no operation leads out of ROLLING_BACK.
RollingBackIsInProgress ==
    \A d \in Deployments : ctx[d].state = "ROLLING_BACK" /\ faults = 0 => RollingBack(d) # {}
=============================================================================
