------------------------------ MODULE MC_Flags ------------------------------
(***************************************************************************)
(* A flag's end of life (FlagLifecycle) and its evaluation through the     *)
(* cache (FlagEvaluation) for TLC, each with a specification of its own:   *)
(* they meet only in the row of feature_flags, and each specification      *)
(* leaves the other's variables alone.                                     *)
(***************************************************************************)
EXTENDS FlagLifecycle, TLC

CONSTANTS q1, q2, user,
          \* FlagEvaluation's
          NoUser, NoSegment, Bucket, Requests, Replica, Writers, Rules, Forms, InitialRules,
          Segments, Contexts, TTL, MaxWrites, MaxCalls, None,
          UnboundCalls,  \* bound: evaluations of a flag without an environment
          GoesOn         \* bound: of which flags evaluations go on after a failed
                         \* look-up: of those with an environment, without, or both

VARIABLES db, cache, flight, req, asked, wr, ver, missed, quiet, calls, bound \* FlagEvaluation's

evalVars == <<db, cache, flight, req, asked, wr, ver, missed, quiet, calls, bound>>
allVars == <<vars, evalVars>>

Eval == INSTANCE FlagEvaluation

ASSUME EvaluationAssumption == Eval!EvaluationConstants

MCReplica == q1 :> "a" @@ q2 :> "a"
MCBucket == user :> 40
MCForms == {[type |-> "percentage", pct |-> 41],
            [type |-> "segment", segment |-> TRUE]}
OlderThan(n) == [conds |-> <<[attribute |-> "age", operator |-> "gt", value |-> <<n>>]>>,
                 combine |-> "AND"]
MCSegments == {OlderThan(3)}
\* A segment rule, and FlagEvaluation's NoRule.
MCInitialRules == {<<[type |-> "segment", segment |-> TRUE], [type |-> "none"]>>}
MCContexts == {[user |-> user, attrs |-> ("age" :> <<5>>), now |-> 0]}

-----------------------------------------------------------------------------
(* The end of a flag's life.                                                *)

NoEvaluation ==
    /\ db = "unused" /\ cache = "unused" /\ flight = "unused" /\ req = "unused"
    /\ asked = "unused" /\ wr = "unused" /\ ver = "unused" /\ missed = "unused"
    /\ quiet = "unused" /\ calls = "unused" /\ bound = "unused"

LifecycleStep(A) == A /\ UNCHANGED evalVars

LifecycleInit == Init /\ NoEvaluation
LifecycleSpec ==
    /\ LifecycleInit /\ [][LifecycleStep(Next)]_allVars
    /\ WF_allVars(LifecycleStep(Tick))
    /\ \A n \in Nodes : WF_allVars(LifecycleStep(Scheduler(n)))
    /\ \A n \in Sweepers : WF_allVars(LifecycleStep(Sweeper(n)))

\* TypeOK and DueAtMostOnce: one due event for each plan of a flag, whatever the
\* number of schedulers (MarkScheduledRemovalFired).
FiresOnce == TypeOK /\ DueAtMostOnce

\* QueuedIsDeleted and DueIsNoticed: what is queued for deletion goes, and what
\* becomes due is noticed, batch by batch (ListFlagsToHardDelete,
\* ListDueScheduledRemovals).
NothingIsForgotten == QueuedIsDeleted /\ DueIsNoticed

-----------------------------------------------------------------------------
(* Evaluations, writers and the cache.                                      *)

NoLifecycle ==
    /\ row = "unused" /\ now = "unused" /\ sched = "unused" /\ sweep = "unused"
    /\ due = "unused" /\ audit = "unused" /\ used = "unused" /\ active = "unused"

\* An evaluation that has gone on without something.
Deprived(q) == "lost" \in DOMAIN req[q] /\ req[q].lost # Eval!Nothing

\* The row of a flag without an environment is never found in the cache: such a
\* flag has a bound of its own.
CacheStep(A) ==
    /\ A /\ UNCHANGED vars
    /\ bound \/ calls' <= UnboundCalls
    /\ \A q \in Requests : Deprived(q)' => bound \in GoesOn

CacheInit == Eval!Init /\ NoLifecycle
CacheSpec ==
    /\ CacheInit /\ [][CacheStep(Eval!Next)]_allVars
    /\ WF_allVars(CacheStep(Eval!Tick)) /\ WF_allVars(CacheStep(Eval!EvaluationStep))

\* TypeOK and QuietEvaluationIsExact: cached values are no older than their time
\* to live (FlagCache), and an evaluation that starts when nothing outdated is
\* around and meets no write returns what the database says (Evaluate).
UndisturbedIsExact == Eval!TypeOK /\ Eval!QuietEvaluationIsExact

\* FlagEvaluation's StaleRulesAreExplained: outdated rules in the cache come from a
\* write whose invalidation is under way or was not carried out, or were stored after
\* a write by someone who had read them before it (SetRules, Invalidate, DeleteRule).
StaleRulesAreExplained == Eval!StaleRulesAreExplained

\* FlagEvaluation's CacheConverges: after the last write the time to live of the
\* keys brings the cache into agreement with the database, whoever forgot to
\* invalidate it (cacheTTL).
CacheConverges == Eval!CacheConverges
=============================================================================
