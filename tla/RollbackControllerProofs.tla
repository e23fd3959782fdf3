----------------------- MODULE RollbackControllerProofs -----------------------
(***************************************************************************)
(* Proofs about RollbackController, for every set of deployments and of    *)
(* goroutines, every window, cooldown and bound.                           *)
(*                                                                         *)
(* The controller's mutex is released while the executor runs, so the      *)
(* state of a deployment and the goroutine that works on it are two facts  *)
(* that no single step keeps together.  The invariant ties them: a         *)
(* deployment with a rollback under way is in ROLLING_BACK and has one     *)
(* goroutine, and an evaluation is never older than the last sign of       *)
(* health.                                                                 *)
(***************************************************************************)
EXTENDS RollbackController, TLAPS

\* What the code fixes: the monitor's goroutine serves no request, and the
\* periods and bounds are numbers.
ControllerConstants ==
    /\ Monitor \notin Managers
    /\ Window \in Nat /\ Cooldown \in Nat
    /\ MaxWatches \in Nat /\ MaxManual \in Nat /\ MaxFaults \in Nat

ActorPc == {"idle", "store", "update", "good", "bad", "execute", "record", "finish"}
Busy == {"execute", "record", "finish"}
Acts == [pc : ActorPc, d : Deployments \cup {"none"}, health : {"good", "bad"}]
Contexts == [watched : BOOLEAN, state : State, since : NoTime..Window]

Typed ==
    /\ monitored \subseteq Deployments /\ todo \subseteq Deployments
    /\ signal \in [Deployments -> {"good", "bad"}]
    /\ ctx \in [Deployments -> Contexts]
    /\ cool \in [Deployments -> NoTime..Cooldown]
    /\ calm \in [Deployments -> 0..Window]
    /\ act \in [Actors -> Acts]
    /\ watches \in Nat /\ manual \in Nat /\ faults \in Nat

\* A goroutine that is at work has a deployment; a request's one does nothing
\* but roll back.
ActorInv ==
    \A a \in Actors :
        /\ act[a].pc # "idle" => act[a].d \in Deployments
        /\ a \in Managers => act[a].pc \in Busy \cup {"idle"}

\* Only a watched deployment is in a state, and an evaluation started after the
\* last sign of health (handleUnhealthy, handleHealthy).
ContextInv ==
    \A d \in Deployments :
        /\ ctx[d].state # "HEALTHY" => ctx[d].watched
        /\ ctx[d].state = "EVALUATING" => ctx[d].since # NoTime /\ ctx[d].since <= calm[d]

\* As long as nobody failed, a rollback in the state is one in a goroutine.
StateInv == RollingBackIsInProgress

BaseInv == Typed /\ ActorInv /\ ContextInv /\ StateInv

\* A rollback in a goroutine is one in the state, and the only one.
LockInv ==
    \A a \in Actors : act[a].pc \in Busy =>
        /\ ctx[act[a].d].state = "ROLLING_BACK"
        /\ \A b \in Actors : act[b].pc \in Busy /\ act[b].d = act[a].d => b = a

-----------------------------------------------------------------------------
LEMMA TypedMeansTypeOK == BaseInv => TypeOK
BY DEF BaseInv, Typed, ActorInv, ContextInv, TypeOK, Contexts, Actors, Busy

LEMMA BaseInit == ControllerConstants /\ Init => BaseInv /\ LockInv
<1> SUFFICES ASSUME ControllerConstants, Init PROVE BaseInv /\ LockInv
  OBVIOUS
<1> USE DEF ControllerConstants, NoTime
<1>1. Idle \in Acts /\ Unwatched \in Contexts
  BY DEF Idle, Acts, ActorPc, Unwatched, Contexts, State
<1>2. Typed
  BY <1>1 DEF Init, Typed
<1>3. ActorInv /\ LockInv
  BY DEF Init, ActorInv, LockInv, Idle, Busy
<1>4. ContextInv /\ StateInv
  BY DEF Init, ContextInv, StateInv, RollingBackIsInProgress, Unwatched
<1> QED  BY <1>2, <1>3, <1>4 DEF BaseInv

\* The records a goroutine or a context becomes.
LEMMA ActMoves ==
    ASSUME NEW s \in Acts, NEW pc \in ActorPc
    PROVE  /\ [s EXCEPT !.pc = pc] \in Acts /\ [s EXCEPT !.pc = pc].pc = pc
           /\ [s EXCEPT !.pc = pc].d = s.d /\ [s EXCEPT !.pc = pc].health = s.health
BY DEF Acts

LEMMA ContextMoves ==
    ASSUME NEW c \in Contexts, NEW state \in State
    PROVE  /\ [c EXCEPT !.state = state] \in Contexts /\ [c EXCEPT !.state = state].state = state
           /\ [c EXCEPT !.state = state].watched = c.watched
           /\ [c EXCEPT !.state = state].since = c.since
BY DEF Contexts

\* What an action on goroutine a leaves of the invariants about goroutines.
LEMMA ActorKeeps ==
    ASSUME BaseInv, NEW a \in Actors, NEW s \in Acts, act' = [act EXCEPT ![a] = s],
           s.pc # "idle" => s.d \in Deployments, a \in Managers => s.pc \in Busy \cup {"idle"}
    PROVE  act' \in [Actors -> Acts] /\ ActorInv'
BY DEF BaseInv, Typed, ActorInv

\* A rollback under way goes on when its goroutine stays at work on it.
LEMMA RollingKeeps ==
    ASSUME BaseInv, NEW a \in Actors, NEW s \in Acts, act' = [act EXCEPT ![a] = s],
           act[a].pc \in Busy => s.pc \in Busy /\ s.d = act[a].d, NEW d \in Deployments
    PROVE  RollingBack(d) \subseteq RollingBack(d)'
BY DEF BaseInv, Typed, RollingBack, Busy

LEMMA StateKeeps ==
    ASSUME BaseInv,
           \A d \in Deployments : ctx'[d].state = "ROLLING_BACK" =>
               ctx[d].state = "ROLLING_BACK" /\ RollingBack(d) \subseteq RollingBack(d)',
           faults' = 0 => faults = 0
    PROVE  StateInv'
BY DEF BaseInv, StateInv, RollingBackIsInProgress

\* The steps that change neither a context nor the goroutine's rollback.
LEMMA QuietStep ==
    ASSUME BaseInv, NEW a \in Actors, NEW s \in Acts, act' = [act EXCEPT ![a] = s],
           s.pc # "idle" => s.d \in Deployments, a \in Managers => s.pc \in Busy \cup {"idle"},
           act[a].pc \in Busy => s.pc \in Busy /\ s.d = act[a].d,
           monitored' \subseteq Deployments, todo' \subseteq Deployments,
           cool' \in [Deployments -> NoTime..Cooldown], faults' \in Nat, faults <= faults',
           UNCHANGED <<signal, ctx, calm, watches, manual>>
    PROVE  BaseInv'
<1>1. act' \in [Actors -> Acts] /\ ActorInv'
  BY ActorKeeps
<1>2. Typed'
  BY <1>1 DEF BaseInv, Typed
<1>3. ContextInv'
  BY DEF BaseInv, ContextInv
<1>4. StateInv'
  <2>1. \A d \in Deployments : RollingBack(d) \subseteq RollingBack(d)'
    BY RollingKeeps
  <2>2. faults' = 0 => faults = 0
    BY DEF BaseInv, Typed
  <2> QED  BY <2>1, <2>2, StateKeeps
<1> QED  BY <1>1, <1>2, <1>3, <1>4 DEF BaseInv

\* The steps of operators and of the environment, which no goroutine takes.
LEMMA OutsideStep ==
    ASSUME BaseInv, monitored' \subseteq Deployments, todo' \subseteq Deployments,
           signal' \in [Deployments -> {"good", "bad"}], ctx' \in [Deployments -> Contexts],
           calm' \in [Deployments -> 0..Window], cool' \in [Deployments -> NoTime..Cooldown],
           watches' \in Nat, UNCHANGED <<act, manual, faults>>, ContextInv',
           \A d \in Deployments : ctx'[d].state = "ROLLING_BACK" => ctx[d].state = "ROLLING_BACK"
    PROVE  BaseInv'
<1>1. Typed' /\ ActorInv'
  BY DEF BaseInv, Typed, ActorInv
<1>2. \A d \in Deployments : RollingBack(d)' = RollingBack(d)
  BY DEF RollingBack
<1>3. StateInv'
  BY <1>2, StateKeeps
<1> QED  BY <1>1, <1>3 DEF BaseInv

-----------------------------------------------------------------------------
(* The monitor's goroutine                                                  *)

LEMMA BaseFacts ==
    ASSUME BaseInv
    PROVE  /\ monitored \subseteq Deployments /\ todo \subseteq Deployments
           /\ signal \in [Deployments -> {"good", "bad"}] /\ ctx \in [Deployments -> Contexts]
           /\ cool \in [Deployments -> NoTime..Cooldown] /\ calm \in [Deployments -> 0..Window]
           /\ act \in [Actors -> Acts] /\ faults \in Nat /\ faults <= faults
BY DEF BaseInv, Typed

LEMMA MonitorFacts ==
    ASSUME BaseInv, ControllerConstants
    PROVE  /\ Monitor \in Actors /\ Monitor \notin Managers /\ act[Monitor] \in Acts
           /\ act[Monitor].pc # "idle" => act[Monitor].d \in Deployments
           /\ Idle \in Acts /\ Idle.pc = "idle"
BY DEF BaseInv, Typed, ActorInv, ControllerConstants, Actors, Idle, Acts, ActorPc

LEMMA StepStartRound == ControllerConstants /\ BaseInv /\ StartRound => BaseInv'
<1> SUFFICES ASSUME ControllerConstants, BaseInv, StartRound PROVE BaseInv'
  OBVIOUS
<1>1. act' = [act EXCEPT ![Monitor] = act[Monitor]]
  BY DEF StartRound, BaseInv, Typed
<1>2. /\ act[Monitor].pc = "idle" /\ todo' = monitored
      /\ UNCHANGED <<monitored, signal, ctx, cool, act, calm, watches, manual, faults>>
  BY DEF StartRound
<1> QED  BY <1>1, <1>2, MonitorFacts, BaseFacts, QuietStep

LEMMA StepRunChecks ==
    ASSUME ControllerConstants, BaseInv, NEW d \in Deployments, RunChecks(d) PROVE BaseInv'
<1> DEFINE s == [pc |-> "store", d |-> d, health |-> signal[d]]
<1>1. s \in Acts /\ s.pc = "store" /\ s.d = d
  BY DEF BaseInv, Typed, Acts, ActorPc
<1>2. /\ act' = [act EXCEPT ![Monitor] = s] /\ act[Monitor].pc = "idle" /\ todo' = todo \ {d}
      /\ UNCHANGED <<monitored, signal, ctx, cool, calm, watches, manual, faults>>
  BY DEF RunChecks
<1> HIDE DEF s
<1> QED  BY <1>1, <1>2, MonitorFacts, BaseFacts, QuietStep DEF Busy

LEMMA StepStoreHealth == ControllerConstants /\ BaseInv /\ StoreHealth => BaseInv'
<1> SUFFICES ASSUME ControllerConstants, BaseInv, StoreHealth PROVE BaseInv'
  OBVIOUS
<1> DEFINE s == [act[Monitor] EXCEPT !.pc = "update"]
<1>1. act[Monitor].pc = "store" /\ s \in Acts /\ s.pc = "update" /\ s.d = act[Monitor].d
  BY MonitorFacts, ActMoves DEF StoreHealth, ActorPc
<1>2. /\ act' = [act EXCEPT ![Monitor] = s] /\ monitored' = monitored \cup {act[Monitor].d}
      /\ UNCHANGED <<todo, signal, ctx, cool, calm, watches, manual, faults>>
  BY DEF StoreHealth
<1> HIDE DEF s
<1> QED  BY <1>1, <1>2, MonitorFacts, BaseFacts, QuietStep DEF Busy

LEMMA StepOnHealthUpdate == ControllerConstants /\ BaseInv /\ OnHealthUpdate => BaseInv'
<1> SUFFICES ASSUME ControllerConstants, BaseInv, OnHealthUpdate PROVE BaseInv'
  OBVIOUS
<1> DEFINE s == IF ctx[act[Monitor].d].watched
                THEN [act[Monitor] EXCEPT !.pc = act[Monitor].health] ELSE Idle
<1>1. act[Monitor].pc = "update" /\ s \in Acts /\ (s.pc # "idle" => s.d = act[Monitor].d)
  <2>1. act[Monitor].health \in ActorPc
    BY MonitorFacts DEF Acts, ActorPc
  <2> QED  BY <2>1, MonitorFacts, ActMoves DEF OnHealthUpdate
<1>2. /\ act' = [act EXCEPT ![Monitor] = s]
      /\ UNCHANGED <<monitored, todo, signal, ctx, cool, calm, watches, manual, faults>>
  BY DEF OnHealthUpdate, Done
<1> HIDE DEF s
<1> QED  BY <1>1, <1>2, MonitorFacts, BaseFacts, QuietStep DEF Busy

\* A new evaluation starts, a rollback begins, or nothing happens.
LEMMA StephandleUnhealthy == ControllerConstants /\ BaseInv /\ handleUnhealthy => BaseInv'
<1> SUFFICES ASSUME ControllerConstants, BaseInv, handleUnhealthy PROVE BaseInv'
  OBVIOUS
<1>d. PICK d \in Deployments : d = act[Monitor].d
  BY MonitorFacts DEF handleUnhealthy
<1>1. act[Monitor].pc = "bad" /\ d = act[Monitor].d /\ d \in Deployments /\ ctx[d] \in Contexts /\ calm[d] \in 0..Window
      /\ UNCHANGED <<monitored, todo, signal, cool, calm, watches, manual, faults>>
  BY <1>d, MonitorFacts DEF handleUnhealthy, BaseInv, Typed
<1>2. CASE Done(Monitor) /\ ctx' = ctx
  BY <1>1, <1>2, MonitorFacts, BaseFacts, QuietStep DEF Busy, Done
<1>3. CASE /\ ctx[d].watched /\ ctx[d].state = "HEALTHY" /\ Done(Monitor)
           /\ ctx' = [ctx EXCEPT ![d] = [@ EXCEPT !.state = "EVALUATING", !.since = 0]]
  <2> DEFINE c == [ctx[d] EXCEPT !.state = "EVALUATING", !.since = 0]
  <2>1. ctx' = [ctx EXCEPT ![d] = c]
    BY <1>3
  <2>2. c \in Contexts /\ c.state = "EVALUATING" /\ c.since = 0 /\ c.watched = ctx[d].watched
    <3>1. 0 \in NoTime..Window
      BY DEF NoTime, ControllerConstants
    <3> QED  BY <1>1, <3>1 DEF Contexts, State
  <2> HIDE DEF c
  <2>3. act' = [act EXCEPT ![Monitor] = Idle] /\ act' \in [Actors -> Acts] /\ ActorInv'
    BY <1>3, MonitorFacts, ActorKeeps DEF Done
  <2>4. Typed'
    BY <1>1, <2>1, <2>2, <2>3 DEF BaseInv, Typed
  <2>5. ContextInv'
    BY <1>1, <1>3, <2>1, <2>2 DEF BaseInv, Typed, ContextInv, NoTime
  <2>6. StateInv'
    <3>1. \A e \in Deployments : RollingBack(e) \subseteq RollingBack(e)'
      BY <1>1, <2>3, MonitorFacts, RollingKeeps DEF Busy
    <3>2. \A e \in Deployments : ctx'[e].state = "ROLLING_BACK" => ctx[e].state = "ROLLING_BACK"
      BY <2>1, <2>2 DEF BaseInv, Typed
    <3> QED  BY <1>1, <3>1, <3>2, StateKeeps
  <2> QED  BY <2>3, <2>4, <2>5, <2>6 DEF BaseInv
<1>4. CASE /\ ctx[d].watched /\ ctx' = [ctx EXCEPT ![d].state = "ROLLING_BACK"]
           /\ act' = [act EXCEPT ![Monitor].pc = "execute"]
  <2> DEFINE c == [ctx[d] EXCEPT !.state = "ROLLING_BACK"]
             s == [act[Monitor] EXCEPT !.pc = "execute"]
  <2>1. ctx' = [ctx EXCEPT ![d] = c] /\ act' = [act EXCEPT ![Monitor] = s]
    BY <1>4
  <2>2. c \in Contexts /\ c.state = "ROLLING_BACK" /\ c.watched = ctx[d].watched
    BY <1>1, ContextMoves DEF State
  <2>3. s \in Acts /\ s.pc = "execute" /\ s.d = d
    BY <1>1, MonitorFacts, ActMoves DEF ActorPc
  <2> HIDE DEF c, s
  <2>4. act' \in [Actors -> Acts] /\ ActorInv'
    BY <1>1, <2>1, <2>3, MonitorFacts, ActorKeeps
  <2>5. Typed'
    BY <1>1, <2>1, <2>2, <2>4 DEF BaseInv, Typed
  <2>6. ContextInv'
    BY <1>1, <1>4, <2>1, <2>2 DEF BaseInv, Typed, ContextInv
  <2>7. StateInv'
    <3>1. ASSUME NEW e \in Deployments, e # d
          PROVE  ctx'[e] = ctx[e] /\ RollingBack(e) \subseteq RollingBack(e)'
      BY <1>1, <2>1, <2>3, <3>1, MonitorFacts, RollingKeeps DEF Busy, BaseInv, Typed
    <3>2. Monitor \in RollingBack(d)'
      BY <1>1, <2>1, <2>3, MonitorFacts DEF BaseInv, Typed, RollingBack
    <3>3. faults' = faults
      BY <1>1
    <3> QED  BY <3>1, <3>2, <3>3 DEF BaseInv, StateInv, RollingBackIsInProgress
  <2> QED  BY <2>4, <2>5, <2>6, <2>7 DEF BaseInv
<1> QED  BY <1>1, <1>2, <1>3, <1>4 DEF handleUnhealthy

LEMMA StephandleHealthy == ControllerConstants /\ BaseInv /\ handleHealthy => BaseInv'
<1> SUFFICES ASSUME ControllerConstants, BaseInv, handleHealthy PROVE BaseInv'
  OBVIOUS
<1> DEFINE d == act[Monitor].d
           c == IF ctx[d].watched /\ ctx[d].state = "EVALUATING" THEN Fresh ELSE ctx[d]
<1>1. /\ act[Monitor].pc = "good" /\ d \in Deployments /\ ctx[d] \in Contexts
      /\ act' = [act EXCEPT ![Monitor] = Idle] /\ calm' = [calm EXCEPT ![d] = 0]
      /\ UNCHANGED <<monitored, todo, signal, cool, watches, manual, faults>>
  BY MonitorFacts DEF handleHealthy, BaseInv, Typed, Done
<1>2. ctx' = [ctx EXCEPT ![d] = c]
  BY <1>1 DEF handleHealthy, BaseInv, Typed
<1>3. /\ c \in Contexts /\ c.state # "EVALUATING"
      /\ c.state # "HEALTHY" => c.watched
      /\ c.state = "ROLLING_BACK" => ctx[d].state = "ROLLING_BACK"
  BY <1>1 DEF BaseInv, ContextInv, Fresh, Contexts, State, NoTime, ControllerConstants
<1> HIDE DEF c
<1>4. act' \in [Actors -> Acts] /\ ActorInv'
  BY <1>1, MonitorFacts, ActorKeeps
<1>5. Typed'
  BY <1>1, <1>2, <1>3, <1>4 DEF BaseInv, Typed, ControllerConstants
<1>6. ContextInv'
  BY <1>1, <1>2, <1>3 DEF BaseInv, Typed, ContextInv
<1>7. StateInv'
  <2>1. \A e \in Deployments : RollingBack(e) \subseteq RollingBack(e)'
    BY <1>1, MonitorFacts, RollingKeeps DEF Busy
  <2>2. \A e \in Deployments : ctx'[e].state = "ROLLING_BACK" => ctx[e].state = "ROLLING_BACK"
    BY <1>1, <1>2, <1>3 DEF BaseInv, Typed
  <2>3. faults' = faults
    BY <1>1
  <2> QED  BY <2>1, <2>2, <2>3, StateKeeps
<1> QED  BY <1>4, <1>5, <1>6, <1>7 DEF BaseInv

-----------------------------------------------------------------------------
(* Rollbacks                                                                *)

LEMMA StepTriggerManualRollback ==
    ASSUME ControllerConstants, BaseInv, NEW a \in Managers, NEW d \in Deployments,
           TriggerManualRollback(a, d)
    PROVE  BaseInv'
<1> DEFINE s == [pc |-> "execute", d |-> d, health |-> "good"]
           c == [ctx[d] EXCEPT !.state = "ROLLING_BACK"]
<1>1. /\ act' = [act EXCEPT ![a] = s] /\ ctx' = [ctx EXCEPT ![d] = c]
      /\ act[a].pc = "idle" /\ ctx[d].watched /\ manual' = manual + 1 /\ a \in Actors
      /\ UNCHANGED <<monitored, todo, signal, cool, calm, watches, faults>>
  BY DEF TriggerManualRollback, Actors
<1>2. s \in Acts /\ s.pc = "execute" /\ s.d = d
  BY DEF Acts, ActorPc
<1>3. c \in Contexts /\ c.state = "ROLLING_BACK" /\ c.watched = ctx[d].watched
  BY BaseFacts, ContextMoves DEF State
<1> HIDE DEF s, c
<1>4. act' \in [Actors -> Acts] /\ ActorInv'
  BY <1>1, <1>2, ActorKeeps DEF Busy
<1>5. Typed'
  BY <1>1, <1>3, <1>4 DEF BaseInv, Typed
<1>6. ContextInv'
  BY <1>1, <1>3 DEF BaseInv, Typed, ContextInv
<1>7. StateInv'
  <2>1. ASSUME NEW e \in Deployments, e # d
        PROVE  ctx'[e] = ctx[e] /\ RollingBack(e) \subseteq RollingBack(e)'
    BY <1>1, <1>2, <2>1, BaseFacts, RollingKeeps DEF Busy
  <2>2. a \in RollingBack(d)'
    BY <1>1, <1>2, BaseFacts DEF RollingBack
  <2>3. faults' = faults
    BY <1>1
  <2> QED  BY <2>1, <2>2, <2>3 DEF BaseInv, StateInv, RollingBackIsInProgress
<1> QED  BY <1>4, <1>5, <1>6, <1>7 DEF BaseInv

LEMMA StepExecute ==
    ASSUME ControllerConstants, BaseInv, NEW a \in Actors, Execute(a) PROVE BaseInv'
<1> DEFINE s == [act[a] EXCEPT !.pc = "record"]
<1>1. /\ act[a].pc = "execute" /\ act[a] \in Acts /\ act[a].d \in Deployments
      /\ UNCHANGED <<monitored, todo, signal, ctx, cool, calm, watches, manual>>
  BY DEF Execute, BaseInv, Typed, ActorInv
<1>2. s \in Acts /\ s.pc = "record" /\ s.d = act[a].d
  BY <1>1, ActMoves DEF ActorPc
<1>3. \/ act' = [act EXCEPT ![a] = s] /\ faults' \in {faults, faults + 1}
      \/ act' = [act EXCEPT ![a] = Idle] /\ faults' = faults + 1
  BY DEF Execute, Done
<1> HIDE DEF s
<1>4. faults' \in Nat /\ faults <= faults'
  BY <1>3, BaseFacts
<1>5. CASE act' = [act EXCEPT ![a] = s]
  BY <1>1, <1>2, <1>4, <1>5, BaseFacts, QuietStep DEF Busy
<1>6. CASE act' = [act EXCEPT ![a] = Idle] /\ faults' = faults + 1
  <2>1. act' \in [Actors -> Acts] /\ ActorInv'
    BY <1>6, MonitorFacts, ActorKeeps
  <2>2. Typed' /\ ContextInv'
    BY <1>1, <1>4, <2>1 DEF BaseInv, Typed, ContextInv
  <2>3. StateInv'
    <3>1. faults' # 0
      BY <1>6, BaseFacts
    <3> QED  BY <3>1 DEF StateInv, RollingBackIsInProgress
  <2> QED  BY <2>1, <2>2, <2>3 DEF BaseInv
<1> QED  BY <1>3, <1>5, <1>6

LEMMA SteprecordRollback ==
    ASSUME ControllerConstants, BaseInv, NEW a \in Actors, recordRollback(a) PROVE BaseInv'
<1> DEFINE s == [act[a] EXCEPT !.pc = "finish"]
<1>1. /\ act[a].pc = "record" /\ act[a] \in Acts /\ act[a].d \in Deployments
      /\ act' = [act EXCEPT ![a] = s] /\ cool' = [cool EXCEPT ![act[a].d] = 0]
      /\ UNCHANGED <<monitored, todo, signal, ctx, calm, watches, manual, faults>>
  BY DEF recordRollback, BaseInv, Typed, ActorInv
<1>2. s \in Acts /\ s.pc = "finish" /\ s.d = act[a].d
  BY <1>1, ActMoves DEF ActorPc
<1> HIDE DEF s
<1>3. cool' \in [Deployments -> NoTime..Cooldown]
  <2>1. 0 \in NoTime..Cooldown
    BY DEF NoTime, ControllerConstants
  <2> QED  BY <1>1, <2>1, BaseFacts
<1> QED  BY <1>1, <1>2, <1>3, BaseFacts, QuietStep DEF Busy

LEMMA SteptransitionTo ==
    ASSUME ControllerConstants, BaseInv, NEW a \in Actors, transitionTo(a) PROVE BaseInv'
<1>d. PICK d \in Deployments : d = act[a].d
  BY DEF transitionTo, BaseInv, ActorInv
<1> DEFINE c == IF ctx[d].watched THEN [ctx[d] EXCEPT !.state = "ROLLED_BACK"] ELSE ctx[d]
<1>1. /\ act[a].pc = "finish" /\ act[a].d = d /\ act' = [act EXCEPT ![a] = Idle]
      /\ UNCHANGED <<monitored, todo, signal, cool, calm, watches, manual, faults>>
      /\ ctx[d] \in Contexts
  BY <1>d DEF transitionTo, Done, BaseInv, Typed
<1>2. ctx' = [ctx EXCEPT ![d] = c]
  BY <1>d, BaseFacts DEF transitionTo
<1>3. /\ c \in Contexts /\ c.watched = ctx[d].watched
      /\ \/ c = ctx[d] /\ ~ctx[d].watched
         \/ c.state = "ROLLED_BACK" /\ ctx[d].watched
  BY <1>1, ContextMoves DEF State
<1> HIDE DEF c
<1>4. c.state # "ROLLING_BACK" /\ (c.state # "HEALTHY" => c.watched) /\ c.state # "EVALUATING"
  BY <1>3 DEF BaseInv, ContextInv
<1>5. act' \in [Actors -> Acts] /\ ActorInv'
  BY <1>1, MonitorFacts, ActorKeeps
<1>6. Typed'
  BY <1>1, <1>2, <1>3, <1>5 DEF BaseInv, Typed
<1>7. ContextInv'
  BY <1>1, <1>2, <1>4 DEF BaseInv, Typed, ContextInv
<1>8. StateInv'
  <2>1. ASSUME NEW e \in Deployments, e # d PROVE RollingBack(e) \subseteq RollingBack(e)'
    BY <1>1, <2>1 DEF RollingBack, BaseInv, Typed, Idle
  <2>2. \A e \in Deployments : ctx'[e].state = "ROLLING_BACK" => e # d /\ ctx[e].state = "ROLLING_BACK"
    BY <1>2, <1>4, BaseFacts
  <2>3. faults' = faults
    BY <1>1
  <2> QED  BY <2>1, <2>2, <2>3, StateKeeps
<1> QED  BY <1>5, <1>6, <1>7, <1>8 DEF BaseInv

-----------------------------------------------------------------------------
(* Watching, and the environment                                            *)

LEMMA Contexts0 ==
    ControllerConstants => Fresh \in Contexts /\ Unwatched \in Contexts /\ 0 \in 0..Window
BY DEF ControllerConstants, Fresh, Unwatched, Contexts, State, NoTime

LEMMA StepWatching ==
    ASSUME ControllerConstants, BaseInv, NEW d \in Deployments,
           MonitorWatch(d) \/ MonitorUnwatch(d) \/ Watch(d) \/ Unwatch(d)
    PROVE  BaseInv'
<1>1. watches' \in Nat /\ UNCHANGED <<todo, signal, cool, act, manual, faults>>
  BY DEF MonitorWatch, MonitorUnwatch, Watch, Unwatch, CountWatch, BaseInv, Typed
<1>2. CASE MonitorWatch(d) \/ MonitorUnwatch(d)
  <2>1. monitored' \subseteq Deployments /\ UNCHANGED <<ctx, calm>>
    BY <1>2, BaseFacts DEF MonitorWatch, MonitorUnwatch
  <2>2. ContextInv'
    BY <2>1 DEF BaseInv, ContextInv
  <2> QED  BY <1>1, <2>1, <2>2, BaseFacts, OutsideStep
<1>3. CASE Watch(d)
  <2>1. ctx' = [ctx EXCEPT ![d] = Fresh] /\ calm' = [calm EXCEPT ![d] = 0] /\ monitored' = monitored
    BY <1>3 DEF Watch
  <2>2. ctx' \in [Deployments -> Contexts] /\ calm' \in [Deployments -> 0..Window]
    BY <2>1, BaseFacts, Contexts0
  <2>3. ContextInv'
    BY <2>1, BaseFacts DEF BaseInv, ContextInv, Fresh
  <2>4. \A e \in Deployments : ctx'[e].state = "ROLLING_BACK" => ctx[e].state = "ROLLING_BACK"
    BY <2>1, BaseFacts DEF Fresh
  <2> QED  BY <1>1, <2>1, <2>2, <2>3, <2>4, BaseFacts, OutsideStep
<1>4. CASE Unwatch(d)
  <2>1. ctx' = [ctx EXCEPT ![d] = Unwatched] /\ calm' = calm /\ monitored' = monitored
    BY <1>4 DEF Unwatch
  <2>2. ctx' \in [Deployments -> Contexts]
    BY <2>1, BaseFacts, Contexts0
  <2>3. ContextInv'
    BY <2>1, BaseFacts DEF BaseInv, ContextInv, Unwatched
  <2>4. \A e \in Deployments : ctx'[e].state = "ROLLING_BACK" => ctx[e].state = "ROLLING_BACK"
    BY <2>1, BaseFacts DEF Unwatched
  <2> QED  BY <1>1, <2>1, <2>2, <2>3, <2>4, BaseFacts, OutsideStep
<1> QED  BY <1>2, <1>3, <1>4

LEMMA StepFlip == ASSUME ControllerConstants, BaseInv, NEW d \in Deployments, Flip(d) PROVE BaseInv'
<1>1. /\ signal' \in [Deployments -> {"good", "bad"}]
      /\ UNCHANGED <<monitored, todo, ctx, cool, act, calm, watches, manual, faults>>
  BY BaseFacts DEF Flip
<1>2. ContextInv' /\ watches' \in Nat
  BY <1>1 DEF BaseInv, Typed, ContextInv
<1> QED  BY <1>1, <1>2, BaseFacts, OutsideStep

\* Time passes for two ages alike.
LEMMA Ages ==
    ASSUME NEW limit \in Nat, NEW t \in NoTime..limit
    PROVE  /\ Older(t, limit) \in NoTime..limit
           /\ t # NoTime <=> Older(t, limit) # NoTime
           /\ t \in 0..limit => Older(t, limit) \in 0..limit
           /\ \A u \in 0..limit : t # NoTime /\ t <= u => Older(t, limit) <= Older(u, limit)
BY DEF Older, NoTime

LEMMA StepTick == ControllerConstants /\ BaseInv /\ Tick => BaseInv'
<1> SUFFICES ASSUME ControllerConstants, BaseInv, Tick PROVE BaseInv'
  OBVIOUS
<1>1. /\ ctx' = [d \in Deployments |-> [ctx[d] EXCEPT !.since = Older(@, Window)]]
      /\ cool' = [d \in Deployments |-> Older(cool[d], Cooldown)]
      /\ calm' = [d \in Deployments |-> Older(calm[d], Window)]
      /\ UNCHANGED <<monitored, todo, signal, act, watches, manual, faults>>
  BY DEF Tick
<1>2. ASSUME NEW d \in Deployments
      PROVE  /\ ctx'[d] \in Contexts /\ ctx'[d].watched = ctx[d].watched
             /\ ctx'[d].state = ctx[d].state /\ ctx'[d].since = Older(ctx[d].since, Window)
  <2>1. ctx[d] \in Contexts /\ ctx[d].since \in NoTime..Window
    BY BaseFacts DEF Contexts
  <2>2. Older(ctx[d].since, Window) \in NoTime..Window
    BY <2>1, Ages DEF ControllerConstants
  <2> QED  BY <1>1, <2>1, <2>2 DEF Contexts
<1>3. ctx' \in [Deployments -> Contexts]
  BY <1>1, <1>2
<1>4. cool' \in [Deployments -> NoTime..Cooldown]
  BY <1>1, BaseFacts, Ages DEF ControllerConstants
<1>5. \A d \in Deployments : calm[d] \in 0..Window /\ calm[d] \in NoTime..Window
  BY BaseFacts DEF NoTime, ControllerConstants
<1>6. calm' \in [Deployments -> 0..Window]
  BY <1>1, <1>5, Ages DEF ControllerConstants
<1>7. ContextInv'
  <2> SUFFICES ASSUME NEW d \in Deployments
               PROVE  /\ ctx'[d].state # "HEALTHY" => ctx'[d].watched
                      /\ ctx'[d].state = "EVALUATING" =>
                           ctx'[d].since # NoTime /\ ctx'[d].since <= calm'[d]
    BY DEF ContextInv
  <2>1. ctx[d].since \in NoTime..Window
    BY BaseFacts DEF Contexts
  <2>2. calm'[d] = Older(calm[d], Window)
    BY <1>1
  <2> QED  BY <1>2, <1>5, <2>1, <2>2, Ages DEF BaseInv, ContextInv, ControllerConstants
<1>8. watches' \in Nat
  BY <1>1 DEF BaseInv, Typed
<1> QED  BY <1>1, <1>2, <1>3, <1>4, <1>6, <1>7, <1>8, BaseFacts, OutsideStep

LEMMA BaseStep == ControllerConstants /\ BaseInv /\ [Next]_vars => BaseInv'
<1> SUFFICES ASSUME ControllerConstants, BaseInv, [Next]_vars PROVE BaseInv'
  OBVIOUS
<1>1. CASE UNCHANGED vars
  <2>1. Typed' /\ ActorInv' /\ ContextInv'
    BY <1>1 DEF BaseInv, Typed, ActorInv, ContextInv, vars
  <2>2. StateInv'
    BY <1>1 DEF BaseInv, StateInv, RollingBackIsInProgress, RollingBack, vars
  <2> QED  BY <2>1, <2>2 DEF BaseInv
<1>2. CASE MonitorStep
  BY <1>2, StepStartRound, StepRunChecks, StepStoreHealth, StepOnHealthUpdate,
     StephandleUnhealthy, StephandleHealthy DEF MonitorStep
<1>3. ASSUME NEW a \in Actors, RollbackStep(a) PROVE BaseInv'
  BY <1>3, StepExecute, SteprecordRollback, SteptransitionTo DEF RollbackStep
<1> QED  BY <1>1, <1>2, <1>3, StepTriggerManualRollback, StepWatching, StepFlip, StepTick DEF Next

-----------------------------------------------------------------------------
(* One goroutine rolls a deployment back, where nobody watches it anew      *)

\* The steps that begin no rollback and change the state of no deployment that
\* is being rolled back.
LEMMA LockKeeps ==
    ASSUME LockInv,
           \A a \in Actors : act'[a].pc \in Busy =>
               /\ act[a].pc \in Busy /\ act'[a].d = act[a].d
               /\ ctx[act[a].d].state = "ROLLING_BACK" => ctx'[act[a].d].state = "ROLLING_BACK"
    PROVE  LockInv'
BY DEF LockInv

\* The steps that begin one find the deployment in another state.
LEMMA LockTaken ==
    ASSUME BaseInv, LockInv, NEW a \in Actors, NEW d \in Deployments, NEW s, NEW c,
           act' = [act EXCEPT ![a] = s], s.pc = "execute", s.d = d,
           ctx' = [ctx EXCEPT ![d] = c], c.state = "ROLLING_BACK",
           ctx[d].state # "ROLLING_BACK"
    PROVE  LockInv'
<1>1. \A b \in Actors : act[b].pc \in Busy => act[b].d # d /\ act[b].d \in Deployments
  BY DEF LockInv, BaseInv, ActorInv, Busy
<1>2. \A b \in Actors : b # a => act'[b] = act[b]
  BY BaseFacts
<1>3. act'[a] = s /\ ctx'[d] = c /\ \A e \in Deployments : e # d => ctx'[e] = ctx[e]
  BY BaseFacts
<1>4. ASSUME NEW b \in Actors, act'[b].pc \in Busy
      PROVE  /\ ctx'[act'[b].d].state = "ROLLING_BACK"
             /\ \A e \in Actors : act'[e].pc \in Busy /\ act'[e].d = act'[b].d => e = b
  <2>1. CASE b = a
    BY <1>1, <1>2, <1>3, <2>1
  <2>2. CASE b # a
    BY <1>1, <1>2, <1>3, <1>4, <2>2 DEF LockInv
  <2> QED  BY <2>1, <2>2
<1> QED  BY <1>4 DEF LockInv

LEMMA LockStep == ControllerConstants /\ CarefulCallers /\ BaseInv /\ LockInv /\ [Next]_vars => LockInv'
<1> SUFFICES ASSUME ControllerConstants, CarefulCallers, BaseInv, LockInv, [Next]_vars PROVE LockInv'
  OBVIOUS
<1>1. CASE UNCHANGED vars
  BY <1>1, LockKeeps DEF vars
<1>2. CASE StartRound \/ StoreHealth \/ OnHealthUpdate \/ \E d \in Deployments : RunChecks(d)
  <2>1. ctx' = ctx /\ act[Monitor].pc \notin Busy
    BY <1>2 DEF StartRound, StoreHealth, OnHealthUpdate, RunChecks, Busy
  <2>2. act'[Monitor].pc \notin Busy /\ \A a \in Actors : a # Monitor => act'[a] = act[a]
    BY <1>2, BaseFacts, MonitorFacts DEF StartRound, StoreHealth, OnHealthUpdate, RunChecks, Done,
       Idle, Acts, Busy
  <2> QED  BY <2>1, <2>2, LockKeeps
<1>3. CASE handleUnhealthy
  <2>d. PICK d \in Deployments : d = act[Monitor].d
    BY <1>3, MonitorFacts DEF handleUnhealthy
  <2>1. act[Monitor].pc = "bad"
    BY <1>3 DEF handleUnhealthy
  <2>2. CASE Done(Monitor)
    <3>1. act'[Monitor].pc \notin Busy /\ \A a \in Actors : a # Monitor => act'[a] = act[a]
      BY <2>2, BaseFacts, MonitorFacts DEF Done, Busy
    <3>2. \A e \in Deployments : ctx[e].state = "ROLLING_BACK" => ctx'[e].state = "ROLLING_BACK"
      BY <1>3, <2>1, <2>2, <2>d, BaseFacts, MonitorFacts DEF handleUnhealthy, Done, Idle
    <3>3. \A a \in Actors : act[a].pc \in Busy => act[a].d \in Deployments
      BY DEF BaseInv, ActorInv, Busy
    <3> QED  BY <3>1, <3>2, <3>3, LockKeeps
  <2>3. CASE ~Done(Monitor)
    <3> DEFINE s == [act[Monitor] EXCEPT !.pc = "execute"]
               c == [ctx[d] EXCEPT !.state = "ROLLING_BACK"]
    <3>1. /\ ctx[d].state = "EVALUATING" /\ act' = [act EXCEPT ![Monitor] = s]
          /\ ctx' = [ctx EXCEPT ![d] = c]
      BY <1>3, <2>3, <2>d DEF handleUnhealthy
    <3>2. s.pc = "execute" /\ s.d = d /\ c.state = "ROLLING_BACK"
      BY <2>d, BaseFacts, MonitorFacts, ActMoves, ContextMoves DEF ActorPc, State
    <3> HIDE DEF s, c
    <3> QED  BY <3>1, <3>2, MonitorFacts, LockTaken
  <2> QED  BY <2>2, <2>3
<1>4. CASE handleHealthy
  <2>d. PICK d \in Deployments : d = act[Monitor].d
    BY <1>4, MonitorFacts DEF handleHealthy
  <2>1. act'[Monitor].pc \notin Busy /\ \A a \in Actors : a # Monitor => act'[a] = act[a]
    BY <1>4, BaseFacts, MonitorFacts DEF handleHealthy, Done, Busy
  <2>2. \A e \in Deployments : ctx[e].state = "ROLLING_BACK" => ctx'[e].state = "ROLLING_BACK"
    BY <1>4, <2>d, BaseFacts DEF handleHealthy
  <2>3. \A a \in Actors : act[a].pc \in Busy => act[a].d \in Deployments
    BY DEF BaseInv, ActorInv, Busy
  <2> QED  BY <2>1, <2>2, <2>3, LockKeeps
<1>5. ASSUME NEW a \in Managers, NEW d \in Deployments, TriggerManualRollback(a, d) PROVE LockInv'
  <2> DEFINE s == [pc |-> "execute", d |-> d, health |-> "good"]
             c == [ctx[d] EXCEPT !.state = "ROLLING_BACK"]
  <2>1. /\ act' = [act EXCEPT ![a] = s] /\ ctx' = [ctx EXCEPT ![d] = c] /\ a \in Actors
        /\ ctx[d].state # "ROLLING_BACK"
    BY <1>5 DEF TriggerManualRollback, Actors
  <2>2. s.pc = "execute" /\ s.d = d /\ c.state = "ROLLING_BACK"
    BY BaseFacts, ContextMoves DEF State
  <2> HIDE DEF s, c
  <2> QED  BY <2>1, <2>2, LockTaken
<1>6. ASSUME NEW a \in Actors, Execute(a) \/ recordRollback(a) PROVE LockInv'
  <2>1. ctx' = ctx /\ act[a].pc \in Busy /\ \A b \in Actors : b # a => act'[b] = act[b]
    BY <1>6, BaseFacts DEF Execute, recordRollback, Done, Busy
  <2>2. act'[a].pc \in Busy => act'[a].d = act[a].d
    BY <1>6, BaseFacts DEF Execute, recordRollback, Done, Idle, Acts, Busy
  <2> QED  BY <2>1, <2>2, LockKeeps
<1>7. ASSUME NEW a \in Actors, transitionTo(a) PROVE LockInv'
  <2>d. PICK d \in Deployments : d = act[a].d
    BY <1>7 DEF transitionTo, BaseInv, ActorInv
  <2>1. act'[a].pc \notin Busy /\ act[a].pc \in Busy /\ \A b \in Actors : b # a => act'[b] = act[b]
    BY <1>7, BaseFacts DEF transitionTo, Done, Idle, Busy
  <2>2. \A e \in Deployments : e # d => ctx'[e] = ctx[e]
    BY <1>7, <2>d, BaseFacts DEF transitionTo
  <2>3. \A b \in Actors : b # a /\ act[b].pc \in Busy => act[b].d # d /\ act[b].d \in Deployments
    BY <2>1, <2>d DEF LockInv, BaseInv, ActorInv, Busy
  <2>4. ASSUME NEW b \in Actors, act'[b].pc \in Busy
        PROVE  /\ act[b].pc \in Busy /\ act'[b].d = act[b].d
               /\ ctx[act[b].d].state = "ROLLING_BACK" => ctx'[act[b].d].state = "ROLLING_BACK"
    <3>1. b # a /\ act'[b] = act[b]
      BY <2>1, <2>4
    <3> QED  BY <2>2, <2>3, <2>4, <3>1
  <2> QED  BY <2>4, LockKeeps
<1>8. ASSUME NEW d \in Deployments, MonitorWatch(d) \/ MonitorUnwatch(d) \/ Flip(d) PROVE LockInv'
  BY <1>8, LockKeeps DEF MonitorWatch, MonitorUnwatch, Flip
<1>9. ASSUME NEW d \in Deployments, Watch(d) \/ Unwatch(d) PROVE LockInv'
  <2>1. act' = act /\ RollingBack(d) = {} /\ \A e \in Deployments : e # d => ctx'[e] = ctx[e]
    BY <1>9, BaseFacts DEF Watch, Unwatch, CountWatch
  <2>2. \A a \in Actors : act[a].pc \in Busy => act[a].d # d /\ act[a].d \in Deployments
    BY <2>1 DEF RollingBack, BaseInv, ActorInv, Busy
  <2> QED  BY <2>1, <2>2, LockKeeps
<1>10. CASE Tick
  <2>1. act' = act
    BY <1>10 DEF Tick
  <2>2. \A e \in Deployments : ctx'[e].state = ctx[e].state
    BY <1>10, BaseFacts DEF Tick, Contexts
  <2>3. \A a \in Actors : act[a].pc \in Busy => act[a].d \in Deployments
    BY DEF BaseInv, ActorInv, Busy
  <2> QED  BY <2>1, <2>2, <2>3, LockKeeps
<1> QED  BY <1>1, <1>2, <1>3, <1>4, <1>5, <1>6, <1>7, <1>8, <1>9, <1>10 DEF Next, MonitorStep, RollbackStep

-----------------------------------------------------------------------------
(* The properties of a step                                                 *)

\* A rollback begins in handleUnhealthy or in TriggerManualRollback, on a
\* watched deployment that is in no rollback and out of its cooldown.
LEMMA Beginning ==
    ASSUME ControllerConstants, BaseInv, [Next]_vars, NEW a \in Actors,
           act[a].pc # "execute", act'[a].pc = "execute"
    PROVE  /\ act'[a].d \in Deployments
           /\ ~isInCooldown(act'[a].d)
           /\ ctx[act'[a].d].state \notin {"ROLLING_BACK", "ROLLED_BACK"}
           /\ a = Monitor => handleUnhealthy /\ ctx[act[a].d].state = "EVALUATING"
                             /\ ctx[act[a].d].since >= Window
<1>1. act'[a] # act[a] /\ act # act'
  OBVIOUS
<1>2. CASE handleUnhealthy
  <2>1. ~Done(Monitor) /\ a = Monitor
    BY <1>1, <1>2, BaseFacts, MonitorFacts DEF handleUnhealthy, Done
  <2>2. /\ ~isInCooldown(act[Monitor].d) /\ ctx[act[Monitor].d].state = "EVALUATING"
        /\ ctx[act[Monitor].d].since >= Window /\ act' = [act EXCEPT ![Monitor].pc = "execute"]
    BY <1>2, <2>1 DEF handleUnhealthy
  <2>3. act'[a].d = act[a].d /\ act[a].d \in Deployments
    BY <1>2, <2>1, <2>2, BaseFacts, MonitorFacts DEF Acts, handleUnhealthy
  <2> QED  BY <1>2, <2>1, <2>2, <2>3
<1>3. ASSUME NEW b \in Managers, NEW d \in Deployments, TriggerManualRollback(b, d), b = a
      PROVE  /\ act'[a].d = d /\ ~isInCooldown(d) /\ a # Monitor
             /\ ctx[d].state \notin {"ROLLING_BACK", "ROLLED_BACK"}
  BY <1>3, BaseFacts DEF TriggerManualRollback, ControllerConstants, Actors
<1>4. ASSUME NEW b \in Managers, NEW d \in Deployments, TriggerManualRollback(b, d), b # a PROVE FALSE
  BY <1>1, <1>4, BaseFacts DEF TriggerManualRollback
<1>5. CASE StartRound \/ StoreHealth \/ OnHealthUpdate \/ handleHealthy
            \/ \E d \in Deployments : RunChecks(d)
  <2>1. act'[Monitor].pc # "execute" /\ \A b \in Actors : b # Monitor => act'[b] = act[b]
    BY <1>1, <1>5, BaseFacts, MonitorFacts DEF StartRound, StoreHealth, OnHealthUpdate, handleHealthy,
       RunChecks, Done, Acts
  <2> QED  BY <1>1, <2>1
<1>6. ASSUME NEW b \in Actors, RollbackStep(b) PROVE FALSE
  <2>1. act'[b].pc # "execute" /\ \A e \in Actors : e # b => act'[e] = act[e]
    BY <1>6, BaseFacts DEF RollbackStep, Execute, recordRollback, transitionTo, Done, Idle, Acts
  <2> QED  BY <1>1, <2>1
<1>7. act' # act => ~UNCHANGED vars /\ ~Tick /\ ~\E d \in Deployments :
        MonitorWatch(d) \/ MonitorUnwatch(d) \/ Watch(d) \/ Unwatch(d) \/ Flip(d)
  BY DEF vars, Tick, MonitorWatch, MonitorUnwatch, Watch, Unwatch, Flip
<1> QED  BY <1>1, <1>2, <1>3, <1>4, <1>5, <1>6, <1>7 DEF Next, MonitorStep

LEMMA NoFlappingAtAnyStep ==
    ControllerConstants /\ BaseInv /\ LockInv /\ [Next]_vars => NoFlappingStep
<1> SUFFICES ASSUME ControllerConstants, BaseInv, LockInv, [Next]_vars,
                    NEW d \in Deployments, Begins(d)
             PROVE  RollingBack(d) = {} /\ (cool[d] = NoTime \/ cool[d] >= Cooldown)
  BY DEF NoFlappingStep
<1>1. PICK a \in Actors : act[a].pc # "execute" /\ act'[a].pc = "execute" /\ act'[a].d = d
  BY DEF Begins
<1>2. ~isInCooldown(d) /\ ctx[d].state # "ROLLING_BACK"
  BY <1>1, Beginning
<1>3. RollingBack(d) = {}
  BY <1>2 DEF RollingBack, LockInv, Busy
<1>4. cool[d] = NoTime \/ cool[d] >= Cooldown
  BY <1>2, BaseFacts DEF isInCooldown, NoTime, ControllerConstants
<1> QED  BY <1>3, <1>4

LEMMA EarnedAtAnyStep == ControllerConstants /\ BaseInv /\ [Next]_vars => EarnedStep
<1> SUFFICES ASSUME ControllerConstants, BaseInv, [Next]_vars,
                    act[Monitor].pc = "bad", act'[Monitor].pc = "execute"
             PROVE  calm[act[Monitor].d] >= Window
  BY DEF EarnedStep
<1>d. PICK d \in Deployments : d = act[Monitor].d
  BY MonitorFacts
<1>1. ctx[d].state = "EVALUATING" /\ ctx[d].since >= Window
  BY <1>d, MonitorFacts, Beginning
<1>2. ctx[d].since <= calm[d] /\ ctx[d].since \in NoTime..Window /\ calm[d] \in 0..Window
  BY <1>1, BaseFacts DEF BaseInv, ContextInv, Contexts
<1> QED  BY <1>d, <1>1, <1>2 DEF ControllerConstants, NoTime
-----------------------------------------------------------------------------
(* The theorems                                                             *)

LEMMA BaseMeans == BaseInv => TypeOK /\ RollingBackIsInProgress
BY TypedMeansTypeOK DEF BaseInv, StateInv

LEMMA BaseAlways == ASSUME ControllerConstants PROVE Spec => []BaseInv
<1>1. Init => BaseInv
  BY BaseInit
<1>2. BaseInv /\ [Next]_vars => BaseInv'
  BY BaseStep
<1> QED  BY <1>1, <1>2, PTL DEF Spec

\* An evaluation has a start (handleUnhealthy), and until an execution fails,
\* ROLLING_BACK means that a goroutine is at work (transitionTo), although the
\* mutex is released meanwhile and operators watch and unwatch at any time.
THEOREM RollingBackAlwaysInProgress ==
    ASSUME ControllerConstants PROVE Spec => [](TypeOK /\ RollingBackIsInProgress)
<1> QED  BY BaseMeans, BaseAlways, PTL

\* Where nobody watches or unwatches a deployment that is being rolled back, a
\* rollback begins only when no other is under way and the last one is a
\* cooldown ago (isInCooldown, TriggerManualRollback).
THEOREM NeverFlaps == ASSUME ControllerConstants, CarefulCallers PROVE Spec => NoFlapping
<1>1. Init => BaseInv /\ LockInv
  BY BaseInit
<1>2. BaseInv /\ LockInv /\ [Next]_vars => (BaseInv /\ LockInv)'
  BY BaseStep, LockStep
<1>3. BaseInv /\ LockInv /\ [Next]_vars => NoFlappingStep
  BY NoFlappingAtAnyStep
<1> QED  BY <1>1, <1>2, <1>3, PTL DEF Spec, NoFlapping

\* An automatic rollback follows a whole window without a healthy update of its
\* deployment, however often it was watched anew (handleUnhealthy, handleHealthy).
THEOREM AutoRollbackIsAlwaysEarned == ASSUME ControllerConstants PROVE Spec => AutoRollbackIsEarned
<1>1. BaseInv /\ [Next]_vars => EarnedStep
  BY EarnedAtAnyStep
<1> QED  BY <1>1, BaseAlways, PTL DEF Spec, AutoRollbackIsEarned
=============================================================================
