---------------------------- MODULE RuleRollout ----------------------------
(***************************************************************************)
(* Rollouts of one targeting rule: the edit request that carries a rollout *)
(* (flags/handler.go updateRule, cmd/api/main.go, rollout/attacher.go and  *)
(* rollout_service.go), the engine that applies the steps through          *)
(* UpdateRulePercentage, the operator's rollback, and the edits and the    *)
(* deletion that do not go through a rollout.                              *)
(*                                                                         *)
(* Each access to the database is a step: the percentage to restore is     *)
(* read by the handler, the search for another rollout and the insert come *)
(* later, and whoever applies a step or reverts reads the whole rule and   *)
(* writes it back.  A rollout is driven once: a second delivery, which may *)
(* make an ended rollout active again, is a matter of RolloutEngine.       *)
(***************************************************************************)
EXTENDS Integers, FiniteSets, Sequences, SequencesExt

CONSTANTS Requests,    \* edit requests with a rollout, numbered as they begin
          Strategies,  \* the steps of the strategies, in percent, never going down
          Overrides,   \* what a request changes: the percentage of one step, or None
          Initial,     \* the rule's percentage at the start
          EditTo,      \* the percentages a direct edit writes
          MaxEdits,    \* bound: direct edits
          Faults,      \* bound: the sets of statements that may fail in one behaviour
          None

ASSUME StrategiesAssumption ==
  /\ Requests \subseteq Nat \ {0}
  /\ \A s \in Strategies :
       s \in Seq(0..100) /\ s # <<>> /\ \A i \in 2..Len(s) : s[i - 1] <= s[i]
  /\ \A o \in Overrides \ {None} : o.idx \in Nat /\ o.pct \in 0..100
  /\ Initial \in 0..100 /\ EditTo \subseteq 0..100
  /\ MaxEdits \in Nat

VARIABLES rule,     \* the rule's row, None once deleted
          req,      \* the edit requests; a request is also its rollout's id
          ro,       \* the rollouts
          drv,      \* the engine's driver of each rollout; since: the rule's revision
                    \* when the phase or the revert began; row: that of the row it read
          undo,     \* the operator's revert of each rollout
          inbox,    \* rollouts created and not yet taken by the engine
          edits,
          disturbed, \* ghost: requests whose percentage somebody else wrote since they
                    \* read it
          overlap,  \* ghost: pairs of requests whose searches and inserts overlapped
          failed,   \* ghost: what failed, and for which request
          lost      \* ghost: edits that the write of an older row took out

vars == <<rule, req, ro, drv, undo, inbox, edits, disturbed, overlap, failed, lost>>

Live == {"pending", "active"}
Idle == [pc |-> "idle"]
Phase(pc, idx, since, row) == [pc |-> pc, idx |-> idx, since |-> since, row |-> row]
Reverting(pc, since, row) == [pc |-> pc, since |-> since, row |-> row]

\* A statement of q fails.
Fails(q, what) ==
  /\ failed \cup {<<q, what>>} \in Faults
  /\ failed' = failed \cup {<<q, what>>}

\* The rule's revision: the number of the last edit it shows.
rev == IF rule = None THEN 0 ELSE rule.rev

Init ==
  /\ rule = [pct |-> Initial, rev |-> 0]
  /\ req = [q \in Requests |-> [pc |-> "new"]]
  /\ ro = [q \in Requests |-> None]
  /\ drv = [q \in Requests |-> Idle] /\ undo = [q \in Requests |-> Idle]
  /\ inbox = {} /\ edits = 0
  /\ disturbed = {} /\ overlap = {}
  /\ failed = {} /\ lost = {}

-----------------------------------------------------------------------------
(* The rule                                                                 *)

\* UPDATE ... WHERE id: the percentage, and with it the rest of the row as it was
\* in revision row.  who is a rollout or 0, an operator.
SqlUpdateRule(pct, row, who) ==
  /\ rule' = [pct |-> pct, rev |-> row]
  /\ disturbed' = disturbed \cup (Requests \ {who})
  /\ lost' = lost \cup ((row + 1)..rule.rev)

\* A statement on the rule fails, which it does on a deleted one.
RuleFails(q, what) ==
  /\ IF rule = None THEN UNCHANGED failed ELSE Fails(q, what)
  /\ UNCHANGED <<rule, disturbed, lost>>

\* An edit that carries no rollout: no rollout is looked for.
UpdateRuleDirect(p) ==
  /\ edits < MaxEdits /\ rule # None
  /\ edits' = edits + 1
  /\ SqlUpdateRule(p, edits', 0)
  /\ UNCHANGED <<req, ro, drv, undo, inbox, overlap, failed>>

deleteRule ==
  /\ rule # None /\ edits < MaxEdits
  /\ edits' = edits + 1
  /\ rule' = None
  /\ UNCHANGED <<req, ro, drv, undo, inbox, disturbed, overlap, failed, lost>>

-----------------------------------------------------------------------------
(* A rollout is attached                                                    *)

PreviousPercentage == IF rule = None THEN 0 ELSE rule.pct

\* The snapshot of a strategy with the request's override, which nothing
\* validates; one for a step the strategy does not have is ignored.
BuildSnapshot(steps, o) ==
  IF o = None \/ o.idx \notin DOMAIN steps THEN steps ELSE [steps EXCEPT ![o.idx] = o.pct]
Snapshots == {BuildSnapshot(s, o) : s \in Strategies, o \in Overrides}

\* updateRule reads the percentage a rollback will restore: 0 for a rule that
\* is gone, and also where the read fails.  A request without a strategy gets no
\* rollout and changes nothing.
updateRule(q) ==
  /\ req[q].pc = "new" /\ \A r \in 1..(q - 1) : req[r].pc # "new"
  /\ disturbed' = disturbed \ {q}
  /\ \/ req' = [req EXCEPT ![q] = [pc |-> "done"]] /\ UNCHANGED failed
     \/ \E s \in Snapshots, prev \in {PreviousPercentage, 0} :
          /\ req' = [req EXCEPT ![q] = [pc |-> "search", steps |-> s, prev |-> prev]]
          /\ IF prev = PreviousPercentage THEN UNCHANGED failed ELSE Fails(q, "read")
  /\ UNCHANGED <<rule, ro, drv, undo, inbox, edits, overlap, lost>>

GetActiveByRule == {r \in Requests : ro[r] # None /\ ro[r].status \in Live}

\* Mutant of MovesBackward: not checked.
X_MovesBackward(s, prev) == FALSE

\* ErrStrategyMovesBackward: against the percentage read earlier.
MovesBackward(s, prev) == s[1] < prev

\* RolloutService.AttachConfig up to the insert: refused when a rollout of the
\* rule is found live or the first step lowers the percentage.  The error of
\* the search is dropped: a search that fails has found nothing.
AttachConfig(q) ==
  /\ req[q].pc = "search"
  /\ \E found \in {GetActiveByRule, {}} :
       /\ LET refused == found # {} \/ MovesBackward(req[q].steps, req[q].prev)
          IN req' = [req EXCEPT ![q] = IF refused THEN [pc |-> "done"]
                                       ELSE [req[q] EXCEPT !.pc = "insert"]]
       /\ IF found = GetActiveByRule THEN UNCHANGED failed ELSE Fails(q, "search")
  /\ overlap' = overlap \cup
       {{q, r} : r \in {p \in Requests \ {q} : req'[q].pc = "insert" /\ req[p].pc = "insert"}}
  /\ UNCHANGED <<rule, ro, drv, undo, inbox, edits, disturbed, lost>>

\* The insert and the publication of rollouts.rollout.created.  No unique
\* index backs the search.
Create(q) ==
  /\ req[q].pc = "insert"
  /\ ro' = [ro EXCEPT ![q] = [status |-> "pending", steps |-> req[q].steps, prev |-> req[q].prev]]
  /\ req' = [req EXCEPT ![q] = [pc |-> "done"]]
  /\ inbox' = inbox \cup {q}
  /\ UNCHANGED <<rule, drv, undo, edits, disturbed, overlap, failed, lost>>

-----------------------------------------------------------------------------
(* The engine                                                               *)

\* DriveRollout reads the rollout and gives up when it has ended.
Drive(q) ==
  /\ q \in inbox /\ drv[q] = Idle
  /\ inbox' = inbox \ {q}
  /\ drv' = [drv EXCEPT ![q] = IF ro[q].status \in Live THEN [pc |-> "activate"] ELSE Idle]
  /\ UNCHANGED <<rule, req, ro, undo, edits, disturbed, overlap, failed, lost>>

\* The engine stores a status whatever is stored, and ignores a failure.
UpdateRolloutStatus(q, status) ==
  \/ ro' = [ro EXCEPT ![q].status = status] /\ UNCHANGED failed
  \/ Fails(q, "status") /\ UNCHANGED ro

\* It makes the rollout active whatever is stored.
Activate(q) ==
  /\ drv[q].pc = "activate"
  /\ UpdateRolloutStatus(q, "active")
  /\ drv' = [drv EXCEPT ![q] = Phase("apply", 1, rev, 0)]
  /\ UNCHANGED <<rule, req, undo, inbox, edits, disturbed, overlap, lost>>

\* Apply, first half: UpdateRulePercentage reads the rule.  Where that fails,
\* the driver ends in an error and the rollout stays as it is.
ApplyRead(q) ==
  /\ drv[q].pc = "apply"
  /\ \/ RuleFails(q, "apply") /\ drv' = [drv EXCEPT ![q] = Idle]
     \/ /\ rule # None
        /\ drv' = [drv EXCEPT ![q] = Phase("write", drv[q].idx, drv[q].since, rule.rev)]
        /\ UNCHANGED <<rule, disturbed, lost, failed>>
  /\ UNCHANGED <<req, ro, undo, inbox, edits, overlap>>

\* Apply, second half: the row read is written back with the new percentage.
ApplyWrite(q) ==
  /\ drv[q].pc = "write"
  /\ \/ RuleFails(q, "apply") /\ drv' = [drv EXCEPT ![q] = Idle]
     \/ /\ rule # None
        /\ SqlUpdateRule(ro[q].steps[drv[q].idx], drv[q].row, q)
        /\ drv' = [drv EXCEPT ![q] = Phase("watch", drv[q].idx, 0, 0)]
        /\ UNCHANGED failed
  /\ UNCHANGED <<req, ro, undo, inbox, edits, overlap>>

\* The phase passes; after the last one MarkCompleted, whatever the status is.
PhasePassed(q) ==
  /\ drv[q].pc = "watch"
  /\ IF drv[q].idx < Len(ro[q].steps)
     THEN /\ drv' = [drv EXCEPT ![q] = Phase("apply", drv[q].idx + 1, rev, 0)]
          /\ UNCHANGED <<ro, failed>>
     ELSE /\ drv' = [drv EXCEPT ![q] = Idle]
          /\ UpdateRolloutStatus(q, "succeeded")
  /\ UNCHANGED <<rule, req, undo, inbox, edits, disturbed, overlap, lost>>

\* Mutant of EngineRollback: the rule is left at the step's percentage.
X_EngineRollback(q) ==
  /\ drv[q].pc = "watch"
  /\ UpdateRolloutStatus(q, "rolled_back")
  /\ drv' = [drv EXCEPT ![q] = Idle]
  /\ UNCHANGED <<rule, req, undo, inbox, edits, disturbed, overlap, lost>>

\* The phase fails: rolled back, then the driver reverts.
EngineRollback(q) ==
  /\ drv[q].pc = "watch"
  /\ UpdateRolloutStatus(q, "rolled_back")
  /\ drv' = [drv EXCEPT ![q] = Reverting("revert", rev, 0)]
  /\ UNCHANGED <<rule, req, undo, inbox, edits, disturbed, overlap, lost>>

\* Revert, second half: the row read gets the percentage captured by the request.
Restore(q, row) ==
  /\ rule # None
  /\ SqlUpdateRule(ro[q].prev, row, q)
  /\ UNCHANGED failed

\* Revert, first half, by the driver: it reads the rule.  The error of a revert
\* that fails in either half is dropped.
EngineReverts(q) ==
  /\ drv[q].pc = "revert"
  /\ \/ RuleFails(q, "revert") /\ drv' = [drv EXCEPT ![q] = Idle]
     \/ /\ rule # None
        /\ drv' = [drv EXCEPT ![q] = Reverting("restore", drv[q].since, rule.rev)]
        /\ UNCHANGED <<rule, disturbed, lost, failed>>
  /\ UNCHANGED <<req, ro, undo, inbox, edits, overlap>>

EngineRestores(q) ==
  /\ drv[q].pc = "restore"
  /\ drv' = [drv EXCEPT ![q] = Idle]
  /\ RuleFails(q, "revert") \/ Restore(q, drv[q].row)
  /\ UNCHANGED <<req, ro, undo, inbox, edits, overlap>>

-----------------------------------------------------------------------------
(* The operator's rollback                                                  *)

\* RolloutService.Rollback reads the rollout; only one under way may be rolled
\* back.
Rollback(q) ==
  /\ ro[q] # None /\ undo[q] = Idle
  /\ ro[q].status = "active"
  /\ undo' = [undo EXCEPT ![q] = [pc |-> "update"]]
  /\ UNCHANGED <<rule, req, ro, drv, inbox, edits, disturbed, overlap, failed, lost>>

\* transition writes the status it decided on, and Revert follows.  An error,
\* here as in the revert, is the operator's answer, and nothing is tried again.
Transition(q) ==
  /\ undo[q].pc = "update"
  /\ \/ /\ Fails(q, "status")
        /\ undo' = [undo EXCEPT ![q] = [pc |-> "over"]]
        /\ UNCHANGED ro
     \/ /\ undo' = [undo EXCEPT ![q] = Reverting("revert", rev, 0)]
        /\ ro' = [ro EXCEPT ![q].status = "rolled_back"]
        /\ UNCHANGED failed
  /\ UNCHANGED <<rule, req, drv, inbox, edits, disturbed, overlap, lost>>

OperatorReverts(q) ==
  /\ undo[q].pc = "revert"
  /\ \/ RuleFails(q, "restore") /\ undo' = [undo EXCEPT ![q] = [pc |-> "over"]]
     \/ /\ rule # None
        /\ undo' = [undo EXCEPT ![q] = Reverting("restore", undo[q].since, rule.rev)]
        /\ UNCHANGED <<rule, disturbed, lost, failed>>
  /\ UNCHANGED <<req, ro, drv, inbox, edits, overlap>>

OperatorRestores(q) ==
  /\ undo[q].pc = "restore"
  /\ undo' = [undo EXCEPT ![q] = [pc |-> "over"]]
  /\ RuleFails(q, "restore") \/ Restore(q, undo[q].row)
  /\ UNCHANGED <<req, ro, drv, inbox, edits, overlap>>

-----------------------------------------------------------------------------
Request(q) == updateRule(q) \/ AttachConfig(q) \/ Create(q)
Engine(q) ==
  \/ Drive(q) \/ Activate(q) \/ ApplyRead(q) \/ ApplyWrite(q)
  \/ PhasePassed(q) \/ EngineRollback(q) \/ EngineReverts(q) \/ EngineRestores(q)
Operator(q) == Rollback(q) \/ Transition(q) \/ OperatorReverts(q) \/ OperatorRestores(q)

Next ==
  \/ \E q \in Requests : Request(q) \/ Engine(q) \/ Operator(q)
  \/ \E p \in EditTo : UpdateRuleDirect(p)
  \/ deleteRule

Spec == Init /\ [][Next]_vars

-----------------------------------------------------------------------------
(* Properties                                                               *)

Rows == [pct : 0..100, rev : 0..MaxEdits]
Failures == Requests \X {"read", "search", "status", "apply", "revert", "restore"}
Rollouts == [status : Live \cup {"succeeded", "rolled_back"}, steps : Snapshots, prev : 0..100]

\* Every row, request and rollout has the shape the code gives it.
TypeOK ==
  /\ rule \in Rows \cup {None}
  /\ \A q \in Requests :
       /\ req[q].pc \in {"new", "search", "insert", "done"}
       /\ ro[q] \in Rollouts \cup {None}
       /\ drv[q].pc \in {"idle", "activate", "apply", "write", "watch", "revert",
                         "restore"}
       /\ undo[q].pc \in {"idle", "update", "revert", "restore", "over"}
  /\ inbox \subseteq Requests /\ edits \in 0..MaxEdits
  /\ failed \subseteq Failures /\ lost \subseteq 1..MaxEdits

\* Two rollouts of the rule are live together only if the search of one fell
\* between the search and the insert of the other, or a search failed.
TwoLiveIsExplained ==
  \A q, r \in GetActiveByRule :
    q # r => \/ {q, r} \in overlap
             \/ {<<q, "search">>, <<r, "search">>} \cap failed # {}

\* Nobody is about to write the percentage on behalf of q.
AtRest(q) == q \notin inbox /\ drv[q] = Idle /\ undo[q].pc \in {"idle", "over"}

\* Where nobody else wrote the percentage since the request read it, a rule
\* whose rollout is over shows its outcome: the last step after a success, the
\* percentage read by the request after a rollback by the engine, unless the
\* revert failed.
OutcomeShows ==
  \A q \in Requests :
    (ro[q] # None /\ AtRest(q) /\ undo[q] = Idle /\ q \notin disturbed /\ rule # None) =>
      /\ ro[q].status = "succeeded" => rule.pct = Last(ro[q].steps)
      /\ ro[q].status = "rolled_back" =>
           rule.pct = ro[q].prev \/ <<q, "revert">> \in failed

\* A step lowers the percentage only where somebody else wrote it after the
\* request read it, the request could not read it, or the strategy itself goes
\* down.
BackwardIsExplainedStep ==
  \A q \in Requests :
    ( /\ drv[q].pc = "write" /\ drv'[q].pc = "watch"
      /\ rule'.pct < rule.pct ) =>
         \/ q \in disturbed
         \/ undo[q].pc # "idle"
         \/ <<q, "read">> \in failed
         \/ drv[q].idx > 1 /\ ro[q].steps[drv[q].idx] < ro[q].steps[drv[q].idx - 1]
BackwardIsExplained == [][BackwardIsExplainedStep]_vars

\* An edit that is in the rule when a phase or a revert begins, and that no
\* other write has taken out, is still there once the phase or the revert has
\* written: both write back the whole row, but one they have read themselves.
\* What an operator edits between that read and the write is overwritten.
Kept(since, shown) == \A e \in (1..since) \ lost : e <= shown
EditsBeforeThePhaseStayStep ==
  \A q \in Requests :
    /\ drv[q].pc = "write" /\ drv'[q].pc = "watch" => Kept(drv[q].since, rule'.rev)
    /\ drv[q].pc = "restore" /\ drv'[q] = Idle /\ rule' # rule =>
         Kept(drv[q].since, rule'.rev)
    /\ undo[q].pc = "restore" /\ undo'[q].pc = "over" /\ rule' # rule =>
         Kept(undo[q].since, rule'.rev)
EditsBeforeThePhaseStay == [][EditsBeforeThePhaseStayStep]_vars

\* AttachConfig "captures the current (pre-rollout) percentage so Revert can
\* restore it": the percentage a rollback restores is the one the rule had when
\* its rollout was created.
CapturesPreRollout ==
  [][\A q \in Requests :
       (ro[q] = None /\ ro'[q] # None /\ rule # None) => ro'[q].prev = rule.pct]_vars
=============================================================================
