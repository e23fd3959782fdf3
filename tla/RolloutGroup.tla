---------------------------- MODULE RolloutGroup -----------------------------
(***************************************************************************)
(* Rollouts bundled in groups, and the coordinator that applies a group's  *)
(* coordination_policy to the siblings of a rollout that rolls back        *)
(* (internal/rollout/coordination.go, group_service.go).                   *)
(*                                                                         *)
(* A rollback, the engine's or a control's, is published after the status  *)
(* is written; handlers on the API replicas receive it at least once and   *)
(* run OnRollback, one repository or service call per step.  A sibling is  *)
(* acted on through RolloutService, so a cascade publishes again.  The     *)
(* engine is reduced to what the coordinator sees of it: it sets the       *)
(* status when it starts and when it ends (RolloutEngine has the rest).    *)
(***************************************************************************)
EXTENDS Integers, Sequences, FiniteSets, SequencesExt

CONSTANTS
    Order,        \* the rollouts, oldest first
    Groups, NoGroup,
    Ends,         \* how the engine may end a rollout in this instance
    Handlers,     \* coordinator subscriptions of the API replicas
    Callers,      \* API requests that may be in flight at once
    Controls,     \* the runtime controls operators use in this instance
    Regroup,      \* whether operators edit groups in this instance
    MaxOps,       \* bound on the number of operator requests
    MaxDups,      \* bound on redeliveries of a message still being handled
    MaxFaults,    \* bound on failed calls
    MaxEngineCrashes, MaxHandlerCrashes  \* bounds on process crashes

Rollouts == ToSet(Order)
Policy == {"independent", "pause_on_sibling_abort", "cascade_abort"}
TerminalStatus == {"succeeded", "rolled_back"}
LiveStatus == {"pending", "active", "paused", "awaiting_approval"}
Control == {"pause", "resume", "rollback"}

\* What the other modules assume of the constants: ids are no other value.
GroupConstants ==
    /\ IsInjective(Order) /\ Order \in Seq(Rollouts)
    /\ NoGroup \notin Groups /\ Rollouts \cap {"none", "engine", "operator"} = {}
    /\ Ends \subseteq TerminalStatus /\ Controls \subseteq Control /\ Regroup \in BOOLEAN
    /\ MaxOps \in Nat /\ MaxDups \in Nat /\ MaxFaults \in Nat
    /\ MaxEngineCrashes \in Nat /\ MaxHandlerCrashes \in Nat

VARIABLES
    ro,       \* per rollout: status, release_id and rollback_reason of its row
    engine,   \* per rollout: where its driver is
    policy,   \* per group: coordination_policy
    mail,     \* per rollout: messages about its rollback not being handled
    hnd,      \* per handler: OnRollback's locals
    req,      \* per caller: a control in progress
    trail,    \* rollouts with a rollback event of the engine or an operator
    owed,     \* history: pairs of a rollout and a sibling its rollback concerns
    revived,  \* history: rollouts that had ended and were written as live again
    ops, dups, faults, engineCrashes, handlerCrashes

history == <<owed, revived>>
crashes == <<engineCrashes, handlerCrashes>>
vars == <<ro, engine, policy, mail, hnd, req, trail, history, ops, dups, faults, crashes>>

IdleHandler == [pc |-> "idle", origin |-> NoGroup, group |-> NoGroup,
                policy |-> "independent", todo |-> {}]
IdleRequest == [pc |-> "idle", target |-> NoGroup, op |-> "none"]

\* Any rollouts in any groups: not yet driven, driven or at an end.
Init ==
    /\ ro \in [Rollouts -> [status : {"pending", "active", "succeeded"},
                            group : Groups \cup {NoGroup}, reason : {"none"}]]
    /\ engine = [r \in Rollouts |-> CASE ro[r].status = "pending" -> "waiting"
                                       [] ro[r].status = "active" -> "driving"
                                       [] ro[r].status = "succeeded" -> "done"]
    /\ policy \in [Groups -> Policy]
    /\ mail = [r \in Rollouts |-> 0]
    /\ hnd = [h \in Handlers |-> IdleHandler]
    /\ req = [c \in Callers |-> IdleRequest]
    /\ trail = {}
    /\ owed = {}
    /\ revived = {}
    /\ ops = 0
    /\ dups = 0
    /\ faults = 0
    /\ engineCrashes = 0
    /\ handlerCrashes = 0

-----------------------------------------------------------------------------
(* What a rollback writes.                                                 *)

CallFails == faults < MaxFaults /\ faults' = faults + 1

\* The siblings the cascade policy promises to roll back with r.
Concerned(r) ==
    {s \in Rollouts \ {r} :
        /\ ro[r].group \in Groups /\ ro[s].group = ro[r].group
        /\ policy[ro[r].group] = "cascade_abort"
        /\ ro[s].status \in {"active", "paused"}}

\* UpdateStatus to rolled_back with a rollback_reason.
WriteRolledBack(r, reason) ==
    /\ ro' = [ro EXCEPT ![r] = [@ EXCEPT !.status = "rolled_back", !.reason = reason]]
    /\ owed' = owed \cup {<<r, s>> : s \in Concerned(r)}
    /\ revived' = revived

\* UpdateStatus to another status; a reason given overwrites rollback_reason.
WriteStatus(r, status, reason) ==
    /\ ro' = [ro EXCEPT ![r] = [@ EXCEPT !.status = status, !.reason = reason]]
    /\ revived' = IF ro[r].status \in TerminalStatus /\ status \notin TerminalStatus
                  THEN revived \cup {r} ELSE revived
    /\ owed' = owed

Publish(r) == mail' = [mail EXCEPT ![r] = @ + 1]

-----------------------------------------------------------------------------
(* The engine, as far as the coordinator sees it.                          *)

\* DriveRollout: a rollout that has ended is left alone, any other is active.
EngineStart(r) ==
    /\ engine[r] = "waiting"
    /\ IF ro[r].status \in TerminalStatus
       THEN engine' = [engine EXCEPT ![r] = "done"] /\ UNCHANGED <<ro, history>>
       ELSE engine' = [engine EXCEPT ![r] = "driving"] /\ WriteStatus(r, "active", ro[r].reason)
    /\ UNCHANGED <<policy, mail, hnd, req, trail, ops, dups, faults, crashes>>

EngineSucceeds(r) ==
    /\ engine[r] = "driving"
    /\ "succeeded" \in Ends
    /\ WriteStatus(r, "succeeded", ro[r].reason)
    /\ engine' = [engine EXCEPT ![r] = "done"]
    /\ UNCHANGED <<policy, mail, hnd, req, trail, ops, dups, faults, crashes>>

\* rollback: the status (a failure is ignored), then the event.
EngineRollsBack(r) ==
    /\ engine[r] = "driving"
    /\ "rolled_back" \in Ends
    /\ \/ WriteRolledBack(r, "engine") /\ faults' = faults
       \/ UNCHANGED <<ro, history>> /\ CallFails
    /\ engine' = [engine EXCEPT ![r] = "publish"]
    /\ UNCHANGED <<policy, mail, hnd, req, trail, ops, dups, crashes>>

EnginePublishes(r) ==
    /\ engine[r] = "publish"
    /\ trail' = trail \cup {r}
    /\ Publish(r)
    /\ engine' = [engine EXCEPT ![r] = "done"]
    /\ UNCHANGED <<ro, policy, hnd, req, history, ops, dups, faults, crashes>>

\* The driver's process dies; rollouts.rollout.created is delivered again.
EngineCrash(r) ==
    /\ engine[r] \in {"driving", "publish"}
    /\ engineCrashes < MaxEngineCrashes
    /\ engineCrashes' = engineCrashes + 1
    /\ engine' = [engine EXCEPT ![r] = "waiting"]
    /\ UNCHANGED <<ro, policy, mail, hnd, req, trail, history, ops, dups, faults, handlerCrashes>>

EngineStep(r) == EngineStart(r) \/ EngineSucceeds(r) \/ EngineRollsBack(r) \/ EnginePublishes(r)

-----------------------------------------------------------------------------
(* The coordinator.                                                        *)

Handle(h, r) ==
    /\ hnd[h].pc = "idle"
    /\ mail[r] > 0
    /\ mail' = [mail EXCEPT ![r] = @ - 1]
    /\ hnd' = [hnd EXCEPT ![h] = [IdleHandler EXCEPT !.pc = "get", !.origin = r]]
    /\ UNCHANGED <<ro, engine, policy, req, trail, history, ops, dups, faults, crashes>>

\* OnRollback returns, with or without an error; the message is acknowledged.
Return(h) == hnd' = [hnd EXCEPT ![h] = IdleHandler]

\* Get the rollout; one without a group has no siblings.
Lookup(h) ==
    /\ hnd[h].pc = "get"
    /\ IF ro[hnd[h].origin].group = NoGroup
       THEN Return(h)
       ELSE hnd' = [hnd EXCEPT ![h] = [@ EXCEPT !.pc = "policy", !.group = ro[hnd[h].origin].group]]
    /\ UNCHANGED <<ro, engine, policy, mail, req, trail, history, ops, dups, faults, crashes>>

GetPolicy(h) ==
    /\ hnd[h].pc = "policy"
    /\ IF policy[hnd[h].group] = "independent"
       THEN Return(h)
       ELSE hnd' = [hnd EXCEPT ![h] = [@ EXCEPT !.pc = "list", !.policy = policy[hnd[h].group]]]
    /\ UNCHANGED <<ro, engine, policy, mail, req, trail, history, ops, dups, faults, crashes>>

\* The group's other rollouts that have not ended.
ActiveSiblings(g, origin) ==
    {s \in Rollouts \ {origin} : ro[s].group = g /\ ro[s].status \in LiveStatus}

\* The listing keeps a copy of each status; only an active copy is paused.
ListSiblings(h) ==
    /\ hnd[h].pc = "list"
    /\ LET all == ActiveSiblings(hnd[h].group, hnd[h].origin)
           todo == IF hnd[h].policy = "pause_on_sibling_abort"
                   THEN {s \in all : ro[s].status = "active"}
                   ELSE all
       IN  IF todo = {} THEN Return(h)
           ELSE hnd' = [hnd EXCEPT ![h] = [@ EXCEPT !.pc = "check", !.todo = todo]]
    /\ UNCHANGED <<ro, engine, policy, mail, req, trail, history, ops, dups, faults, crashes>>

\* The loop takes the siblings oldest first.
Oldest(S) == Order[CHOOSE i \in DOMAIN Order :
                      Order[i] \in S /\ \A j \in DOMAIN Order : Order[j] \in S => i <= j]
Current(h) == Oldest(hnd[h].todo)

\* The statuses a control accepts.
Allow(op) ==
    CASE op = "pause"    -> {"active"}
      [] op = "resume"   -> {"paused"}
      [] op = "rollback" -> {"active", "paused", "awaiting_approval"}

OpOf(p) == IF p = "cascade_abort" THEN "rollback" ELSE "pause"

\* transition reads the sibling again; the first refusal ends the loop.
CheckSibling(h) ==
    /\ hnd[h].pc = "check"
    /\ IF ro[Current(h)].status \in Allow(OpOf(hnd[h].policy))
       THEN hnd' = [hnd EXCEPT ![h].pc = "write"]
       ELSE Return(h)
    /\ UNCHANGED <<ro, engine, policy, mail, req, trail, history, ops, dups, faults, crashes>>

\* Go on with the next sibling.
NextSibling(h) ==
    LET rest == hnd[h].todo \ {Current(h)} IN
    IF rest = {} THEN Return(h)
    ELSE hnd' = [hnd EXCEPT ![h] = [@ EXCEPT !.pc = "check", !.todo = rest]]

\* Mutant: the sibling blames itself.
WriteSibling_BlamesItself(h) ==
    /\ hnd[h].pc = "write"
    /\ LET s == Current(h) IN
       IF hnd[h].policy = "cascade_abort"
       THEN WriteRolledBack(s, s) /\ hnd' = [hnd EXCEPT ![h].pc = "publish"]
       ELSE WriteStatus(s, "paused", hnd[h].origin) /\ NextSibling(h)
    /\ UNCHANGED <<engine, policy, mail, req, trail, ops, dups, faults, crashes>>

\* The sibling's row.  A pause stores its reason as the rollback_reason too.
WriteSibling(h) ==
    /\ hnd[h].pc = "write"
    /\ LET s == Current(h) IN
       IF hnd[h].policy = "cascade_abort"
       THEN WriteRolledBack(s, hnd[h].origin) /\ hnd' = [hnd EXCEPT ![h].pc = "publish"]
       ELSE WriteStatus(s, "paused", hnd[h].origin) /\ NextSibling(h)
    /\ UNCHANGED <<engine, policy, mail, req, trail, ops, dups, faults, crashes>>

PublishSibling(h) ==
    /\ hnd[h].pc = "publish"
    /\ Publish(Current(h))
    /\ hnd' = [hnd EXCEPT ![h].pc = "revert"]
    /\ UNCHANGED <<ro, engine, policy, req, trail, history, ops, dups, faults, crashes>>

\* Revert of the sibling's target: its failure ends the loop.
RevertSibling(h) ==
    /\ hnd[h].pc = "revert"
    /\ \/ NextSibling(h) /\ faults' = faults
       \/ Return(h) /\ CallFails
    /\ UNCHANGED <<ro, engine, policy, mail, req, trail, history, ops, dups, crashes>>

\* A repository call fails; OnRollback returns its error.
HandlerError(h) ==
    /\ hnd[h].pc \in {"get", "policy", "list", "check", "write"}
    /\ CallFails
    /\ Return(h)
    /\ UNCHANGED <<ro, engine, policy, mail, req, trail, history, ops, dups, crashes>>

HandlerStep(h) ==
    \/ Lookup(h) \/ GetPolicy(h) \/ ListSiblings(h) \/ CheckSibling(h)
    \/ WriteSibling(h) \/ PublishSibling(h) \/ RevertSibling(h)

\* AckWait passes before the handler returns.
Redeliver(h) ==
    /\ hnd[h].pc # "idle"
    /\ dups < MaxDups
    /\ dups' = dups + 1
    /\ Publish(hnd[h].origin)
    /\ UNCHANGED <<ro, engine, policy, hnd, req, trail, history, ops, faults, crashes>>

\* Mutant: the message is acknowledged before it is handled.
HandlerCrash_AckedFirst(h) ==
    /\ hnd[h].pc # "idle"
    /\ handlerCrashes < MaxHandlerCrashes
    /\ handlerCrashes' = handlerCrashes + 1
    /\ Return(h)
    /\ UNCHANGED <<ro, engine, policy, mail, req, trail, history, ops, dups, faults, engineCrashes>>

\* The handler's process dies; the message was not acknowledged.
HandlerCrash(h) ==
    /\ hnd[h].pc # "idle"
    /\ handlerCrashes < MaxHandlerCrashes
    /\ handlerCrashes' = handlerCrashes + 1
    /\ Publish(hnd[h].origin)
    /\ Return(h)
    /\ UNCHANGED <<ro, engine, policy, req, trail, history, ops, dups, faults, engineCrashes>>

-----------------------------------------------------------------------------
(* Operators.                                                              *)

Request(c, r, op) ==
    /\ req[c].pc = "idle"
    /\ ops < MaxOps
    /\ ops' = ops + 1
    /\ ro[r].status \in Allow(op)
    /\ req' = [req EXCEPT ![c] = [pc |-> "write", target |-> r, op |-> op]]
    /\ UNCHANGED <<ro, engine, policy, mail, hnd, trail, history, dups, faults, crashes>>

WriteRequest(c) ==
    /\ req[c].pc = "write"
    /\ LET r == req[c].target IN
       \/ /\ req[c].op = "rollback"
          /\ WriteRolledBack(r, "operator")
          /\ req' = [req EXCEPT ![c].pc = "publish"]
       \/ /\ req[c].op # "rollback"
          /\ \E reason \in {ro[r].reason, "operator"} :
                WriteStatus(r, IF req[c].op = "pause" THEN "paused" ELSE "active", reason)
          /\ req' = [req EXCEPT ![c] = IdleRequest]
    /\ UNCHANGED <<engine, policy, mail, hnd, trail, ops, dups, faults, crashes>>

PublishRequest(c) ==
    /\ req[c].pc = "publish"
    /\ trail' = trail \cup {req[c].target}
    /\ Publish(req[c].target)
    /\ req' = [req EXCEPT ![c] = IdleRequest]
    /\ UNCHANGED <<ro, engine, policy, hnd, history, ops, dups, faults, crashes>>

\* Attach a rollout to a group.
Attach(r, g) ==
    /\ Regroup
    /\ ops < MaxOps
    /\ ops' = ops + 1
    /\ ro' = [ro EXCEPT ![r].group = g]
    /\ UNCHANGED <<engine, policy, mail, hnd, req, trail, history, dups, faults, crashes>>

\* Update a group's coordination_policy.
UpdatePolicy(g, p) ==
    /\ Regroup
    /\ ops < MaxOps
    /\ ops' = ops + 1
    /\ policy' = [policy EXCEPT ![g] = p]
    /\ UNCHANGED <<ro, engine, mail, hnd, req, trail, history, dups, faults, crashes>>

RequestStep(c) == WriteRequest(c) \/ PublishRequest(c)

-----------------------------------------------------------------------------
\* Every rollout has ended and nobody is at work: the system may stop.
Quiet ==
    /\ \A r \in Rollouts : engine[r] = "done" /\ mail[r] = 0
    /\ \A h \in Handlers : hnd[h].pc = "idle"
    /\ \A c \in Callers : req[c].pc = "idle"

Finished == Quiet /\ UNCHANGED vars

Next ==
    \/ \E r \in Rollouts : \/ EngineStep(r) \/ EngineCrash(r)
                           \/ \E g \in Groups : Attach(r, g)
    \/ \E g \in Groups, p \in Policy : UpdatePolicy(g, p)
    \/ \E h \in Handlers : \/ \E r \in Rollouts : Handle(h, r)
                           \/ HandlerStep(h) \/ HandlerError(h) \/ Redeliver(h) \/ HandlerCrash(h)
    \/ \E c \in Callers : \/ \E r \in Rollouts, op \in Controls : Request(c, r, op)
                          \/ RequestStep(c)
    \/ Finished

Spec == Init /\ [][Next]_vars

\* Messages are delivered and a handler, a driver's start and publication and a
\* request in progress go on; nothing says that a phase ends.
Fairness ==
    /\ \A r \in Rollouts : WF_vars(EngineStart(r)) /\ WF_vars(EnginePublishes(r))
    /\ \A h \in Handlers : /\ WF_vars(\E r \in Rollouts : Handle(h, r))
                           /\ WF_vars(HandlerStep(h))
    /\ \A c \in Callers : WF_vars(RequestStep(c))

FairSpec == Spec /\ Fairness

-----------------------------------------------------------------------------
(* Properties.                                                             *)

\* The variables have their types.
TypeOK ==
    /\ ro \in [Rollouts -> [status : LiveStatus \cup TerminalStatus, group : Groups \cup {NoGroup},
                            reason : {"none", "engine", "operator"} \cup Rollouts]]
    /\ engine \in [Rollouts -> {"waiting", "driving", "publish", "done"}]
    /\ policy \in [Groups -> Policy]
    /\ mail \in [Rollouts -> Nat]
    /\ \A h \in Handlers :
        /\ hnd[h].pc \in {"idle", "get", "policy", "list", "check", "write", "publish", "revert"}
        /\ hnd[h].pc # "idle" => hnd[h].origin \in Rollouts
        /\ hnd[h].pc \in {"policy", "list", "check", "write", "publish", "revert"} => hnd[h].group \in Groups
        /\ hnd[h].pc \in {"check", "write", "publish", "revert"} =>
               hnd[h].todo # {} /\ hnd[h].todo \subseteq Rollouts \ {hnd[h].origin}
    /\ \A c \in Callers : req[c].pc # "idle" => req[c].target \in Rollouts /\ req[c].op \in Control
    /\ trail \subseteq Rollouts
    /\ owed \subseteq Rollouts \X Rollouts /\ revived \subseteq Rollouts

\* Following rollback_reason from sibling to sibling leads to what started the
\* cascade: rollouts do not blame each other in a circle, although a cascade
\* publishes a rollback of its own for every sibling it reaches.  They may when the
\* engine's status write was lost, and the audit trail then has the engine's event
\* for one of them, or when a stale pause made one of them live again.
BlameIsRooted ==
    \A S \in SUBSET Rollouts :
        S # {} => \E r \in S : ro[r].reason \notin S \/ r \in trail \cup revived

\* The cascade reaches every sibling that was active or paused when a rollout of
\* its group was rolled back (coordination_policy cascade_abort), whatever
\* handlers, redeliveries and rollbacks of other siblings are in flight.
OwedIsDone == \A p \in owed : ro[p[2]].status \notin {"active", "paused"}
CascadeReachesAll == <>[]OwedIsDone
=============================================================================
