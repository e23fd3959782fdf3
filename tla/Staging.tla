------------------------------ MODULE Staging ------------------------------
(***************************************************************************)
(* One user's staged changes and their deployment (internal/staging, the   *)
(* staging_commit.go files of flags and rollout, postgres/staging.go and   *)
(* the overlay helpers of flags/handler.go).                               *)
(*                                                                         *)
(* A deployment loads the selected rows, orders them, opens a transaction, *)
(* dispatches them one by one and commits.  Creates ride the transaction;  *)
(* every other handler calls a service that writes through the pool, at    *)
(* once and for good.  Meanwhile the user stages, discards and deploys in  *)
(* other tabs, others edit the flag, the sweeper drops old rows and any    *)
(* deployment may be cut off.  A call of a service is one step here.       *)
(*                                                                         *)
(* One flag and one strategy exist; one rule of the flag can be deleted;   *)
(* one flag, one strategy and one rule can be created, the rule for the    *)
(* existing or the new flag; the default strategy can be set.              *)
(***************************************************************************)
EXTENDS Integers, FiniteSets, Sequences, SequencesExt

CONSTANTS Deploys,    \* deployments of the user under way at once
          Keys,       \* the (resource, field) pairs the user stages on
          MaxStages,  \* bound: calls of Stage
          MaxDeploys, \* bound: deployments begun
          MaxEdits,   \* bound: edits of the flag by others
          MaxTime,    \* bound: the clock
          Retention,  \* age at which the sweeper drops a row
          None

VARIABLES staged,   \* the user's rows, by the unique index's key
          prod,     \* the production rows
          dep,      \* deployments under way
          report,   \* the last answer of each deployment
          audit,    \* changes with an audit row
          now,
          applied,  \* ghost: changes written to production, with who did it
          stages, deploys, edits

vars == <<staged, prod, dep, report, audit, now, applied, stages, deploys, edits>>

AllKeys == {"flag", "flag.enabled", "rule", "new.flag", "new.rule", "new.strategy", "default"}
Creates == {"new.flag", "new.rule", "new.strategy"}
FlagKeys == {"flag", "flag.enabled"}

\* What may be staged on a key; ref is the id the new value mentions.  An update
\* carries a flag: the whole row as some reader had it, or only what the settings
\* form of the dashboard has of it.
Toggle(e) == [act |-> "toggle", enabled |-> e]
Update(a, w) == [act |-> "update", enabled |-> FALSE, settings |-> 1, archived |-> a, whole |-> w]
Changes(k) ==
  CASE k = "flag" -> {Toggle(FALSE), Update(FALSE, TRUE), Update(TRUE, TRUE), Update(FALSE, FALSE),
                      [act |-> "archive"], [act |-> "restore"], [act |-> "queue_deletion"]}
    [] k = "flag.enabled" -> {Toggle(TRUE)}
    [] k = "rule" -> {[act |-> "delete"]}
    [] k = "new.rule" -> {[act |-> "create", ref |-> r] : r \in {"flag", "new.flag"}}
    [] k \in {"new.flag", "new.strategy"} -> {[act |-> "create", ref |-> "none"]}
    [] k = "default" -> {[act |-> "upsert", ref |-> r] : r \in {"strategy", "new.strategy"}}

AnyChange == UNION {Changes(k) : k \in AllKeys}

\* None is neither a row nor an answer nor a strategy.
ASSUME StagingAssumption ==
  /\ Keys \subseteq AllKeys
  /\ {MaxStages, MaxDeploys, MaxEdits, MaxTime, Retention} \subseteq Nat
  /\ None \notin [id : Nat, rev : Nat, at : Nat, change : AnyChange]
  /\ None \notin [committed : SUBSET Nat, failed : BOOLEAN]
  /\ None \notin {"strategy", "strategy2"}

Free == [pc |-> "free"]

Init ==
  /\ staged = [k \in Keys |-> None]
  /\ prod = [enabled |-> TRUE, settings |-> 0, archived |-> FALSE, rule |-> TRUE,
             newFlag |-> FALSE, newRules |-> 0, newStrategy |-> FALSE, default |-> None]
  /\ dep = [d \in Deploys |-> Free] /\ report = [d \in Deploys |-> None]
  /\ audit = {} /\ now = 0 /\ applied = {}
  /\ stages = 0 /\ deploys = 0 /\ edits = 0

-----------------------------------------------------------------------------
(* Staging                                                                  *)

\* A second change on a key replaces the first and keeps its id and its
\* creation time.
Upsert(row, change, n) ==
  IF row = None THEN [id |-> n, rev |-> n, at |-> now, change |-> change]
  ELSE [row EXCEPT !.rev = n, !.change = change]

Stage(k, change) ==
  /\ stages < MaxStages /\ stages' = stages + 1
  /\ staged' = [staged EXCEPT ![k] = Upsert(@, change, stages')]
  /\ UNCHANGED <<prod, dep, report, audit, now, applied, deploys, edits>>

DiscardOne(k) ==
  /\ staged[k] # None
  /\ staged' = [staged EXCEPT ![k] = None]
  /\ UNCHANGED <<prod, dep, report, audit, now, applied, stages, deploys, edits>>

DiscardAll ==
  /\ staged' = [k \in Keys |-> None]
  /\ UNCHANGED <<prod, dep, report, audit, now, applied, stages, deploys, edits>>

\* Sweeper.sweepOnce: by creation time, however recent the last change is.
Swept(row) == row # None /\ row.at < now - Retention
sweepOnce ==
  /\ staged' = [k \in Keys |-> IF Swept(staged[k]) THEN None ELSE staged[k]]
  /\ UNCHANGED <<prod, dep, report, audit, now, applied, stages, deploys, edits>>

-----------------------------------------------------------------------------
(* The overlay: the flag as the user sees it                                *)

\* The flag in the place of the production row, but for its identity.
Replaced(flag, patch) == [flag EXCEPT !.enabled = patch.enabled, !.settings = patch.settings,
                                      !.archived = patch.archived]

\* Mutant of flagApply: a staged restore is not shown.
X_flagApply(flag, change) ==
  CASE change.act = "update" -> Replaced(flag, change)
    [] change.act = "archive" -> [flag EXCEPT !.archived = TRUE]
    [] change.act = "toggle"  -> [flag EXCEPT !.enabled = change.enabled]
    [] OTHER -> flag

flagApply(flag, change) ==
  CASE change.act = "update" -> Replaced(flag, change)
    [] change.act = "archive" -> [flag EXCEPT !.archived = TRUE]
    [] change.act = "restore" -> [flag EXCEPT !.archived = FALSE]
    [] change.act = "toggle"  -> [flag EXCEPT !.enabled = change.enabled]
    [] OTHER -> flag

\* The rows of the flag, oldest first: there are at most two.
Shown(flag, k) == IF k \in Keys /\ staged[k] # None THEN flagApply(flag, staged[k].change) ELSE flag
OverlayListMarked ==
  IF /\ FlagKeys \subseteq Keys /\ staged["flag"] # None /\ staged["flag.enabled"] # None
     /\ staged["flag.enabled"].id < staged["flag"].id
  THEN Shown(Shown(prod, "flag.enabled"), "flag")
  ELSE Shown(Shown(prod, "flag"), "flag.enabled")

-----------------------------------------------------------------------------
(* Deployment                                                               *)

\* planBatch: the keys of the creates, then the others, each group in the
\* order the query returned them, which nothing determines.
planBatch(S) ==
  {s \in SetToSeqs(S) :
     \A i, j \in DOMAIN s : s[i] \notin Creates /\ s[j] \in Creates => j < i}

\* A reference to a provisional id must be to a create of the batch.
Unresolved(S) ==
  {k \in S : /\ staged[k].change.act \in {"create", "upsert"}
             /\ staged[k].change.ref \in Creates \ S}

\* An answer: the rows it calls committed, and whether it names a failed one.
Answer(committed, failed) == [committed |-> committed, failed |-> failed]

\* Commit up to the opening of the transaction.  Ids that are gone are refused
\* without a trace.
Load(d) ==
  /\ dep[d].pc = "free" /\ deploys < MaxDeploys
  /\ \E S \in SUBSET {k \in Keys : staged[k] # None} :
       /\ S # {}
       /\ IF Unresolved(S) # {}
            THEN /\ report' = [report EXCEPT ![d] = Answer({}, TRUE)]
                 /\ UNCHANGED dep
            ELSE /\ \E plan \in planBatch(S) :
                      dep' = [dep EXCEPT ![d] =
                        [pc |-> "run", todo |-> plan, rows |-> [k \in S |-> staged[k]],
                         tx |-> {}, seen |-> OverlayListMarked, alone |-> TRUE,
                         whole |-> \A k \in FlagKeys \cap Keys : staged[k] # None => k \in S]]
                 /\ report' = [report EXCEPT ![d] = None]
  /\ deploys' = deploys + 1
  /\ UNCHANGED <<staged, prod, audit, now, applied, stages, edits>>

Current(d) == Head(dep[d].todo)
Row(d) == dep[d].rows[Current(d)]
Running(d) == dep[d].pc = "run" /\ dep[d].todo # <<>>
Dispatched(d) == {dep[d].rows[k].id : k \in DOMAIN dep[d].rows \ ToSet(dep[d].todo)}
Mark(d, k) == [id |-> dep[d].rows[k].id, rev |-> dep[d].rows[k].rev, by |-> d]

\* The row is done and the next one comes.
Continue(d, tx) == dep' = [dep EXCEPT ![d].todo = Tail(@), ![d].tx = tx]

\* A handler failed: the transaction is rolled back.
Fail(d) ==
  /\ dep' = [dep EXCEPT ![d] = Free]
  /\ report' = [report EXCEPT ![d] = Answer(Dispatched(d), TRUE)]
  /\ UNCHANGED <<prod, applied>>

\* The transaction of another deployment holds the unique key of a new flag or
\* a new strategy until it ends.
Waits(d) == /\ Current(d) \in {"new.flag", "new.strategy"}
            /\ \E e \in Deploys \ {d} : dep[e].pc = "run" /\ Current(d) \in dep[e].tx

\* Mutant of commitFlagCreate: it goes through the pool like the mutations.
X_commitFlagCreate(d) ==
  /\ Current(d) = "new.flag"
  /\ IF prod.newFlag THEN Fail(d)
     ELSE /\ Continue(d, dep[d].tx) /\ prod' = [prod EXCEPT !.newFlag = TRUE]
          /\ applied' = applied \cup {Mark(d, "new.flag")} /\ UNCHANGED report

commitFlagCreate(d) ==
  /\ Current(d) = "new.flag" /\ ~Waits(d)
  /\ IF prod.newFlag THEN Fail(d)
     ELSE Continue(d, dep[d].tx \cup {"new.flag"}) /\ UNCHANGED <<prod, applied, report>>

commitStrategyCreate(d) ==
  /\ Current(d) = "new.strategy" /\ ~Waits(d)
  /\ IF prod.newStrategy THEN Fail(d)
     ELSE Continue(d, dep[d].tx \cup {"new.strategy"}) /\ UNCHANGED <<prod, applied, report>>

\* The new value of a create is not rewritten: a reference to a flag of the
\* same batch is still provisional, and the handler panics.
commitFlagRuleCreate(d) ==
  /\ Current(d) = "new.rule"
  /\ IF Row(d).change.ref = "new.flag"
       THEN /\ dep' = [dep EXCEPT ![d] = Free]
            /\ report' = [report EXCEPT ![d] = Answer({}, TRUE)]
            /\ UNCHANGED <<prod, applied>>
       ELSE Continue(d, dep[d].tx \cup {"new.rule"}) /\ UNCHANGED <<prod, applied, report>>

\* A mutation is in production as soon as its handler returns.
Mutate(d, p) ==
  /\ prod' = p
  /\ applied' = applied \cup {Mark(d, Current(d))}
  /\ dep' = [e \in Deploys |->
       IF e = d THEN [dep[d] EXCEPT !.todo = Tail(@)]
       ELSE IF dep[e].pc = "run" THEN [dep[e] EXCEPT !.alone = FALSE] ELSE dep[e]]
  /\ UNCHANGED report

commitFlagToggle(d) ==
  /\ Current(d) \in FlagKeys /\ Row(d).change.act = "toggle"
  /\ IF prod.archived THEN Fail(d)
     ELSE Mutate(d, [prod EXCEPT !.enabled = Row(d).change.enabled])

\* A flag without its project, key and type is refused; archived_at is not among
\* the columns that UpdateFlag writes.
commitFlagUpdate(d) ==
  /\ Current(d) \in FlagKeys /\ Row(d).change.act = "update"
  /\ IF ~Row(d).change.whole THEN Fail(d)
     ELSE Mutate(d, [prod EXCEPT !.enabled = Row(d).change.enabled,
                                 !.settings = Row(d).change.settings])

\* Archiving twice is no error.
commitFlagArchive(d) ==
  /\ Current(d) \in FlagKeys /\ Row(d).change.act = "archive"
  /\ Mutate(d, [prod EXCEPT !.archived = TRUE])

commitFlagRestore(d) ==
  /\ Current(d) \in FlagKeys /\ Row(d).change.act = "restore"
  /\ Mutate(d, [prod EXCEPT !.archived = FALSE])

commitFlagRuleDelete(d) ==
  /\ Current(d) = "rule"
  /\ IF prod.rule THEN Mutate(d, [prod EXCEPT !.rule = FALSE]) ELSE Fail(d)

\* The resolver puts the real id of what the batch has created in the place of
\* its provisional one.
RewriteRow(d, ref) ==
  IF ref = "new.strategy" /\ ref \in dep[d].tx THEN "strategy2" ELSE ref

\* The service writes through the pool and does not see the row of a strategy
\* that is still in the transaction: the foreign key refuses it.
Strategies == {"strategy"} \cup IF prod.newStrategy THEN {"strategy2"} ELSE {}
commitStrategyDefaultUpsert(d) ==
  /\ Current(d) = "default"
  /\ LET id == RewriteRow(d, Row(d).change.ref) IN
     IF id \in Strategies THEN Mutate(d, [prod EXCEPT !.default = id]) ELSE Fail(d)

\* No handler is registered for the action.
NoHandler(d) ==
  /\ Current(d) \in FlagKeys /\ Row(d).change.act = "queue_deletion"
  /\ Fail(d)

Dispatch(d) ==
  /\ Running(d)
  /\ \/ commitFlagCreate(d) \/ commitStrategyCreate(d) \/ commitFlagRuleCreate(d)
     \/ commitFlagToggle(d) \/ commitFlagUpdate(d) \/ commitFlagArchive(d)
     \/ commitFlagRestore(d) \/ commitFlagRuleDelete(d)
     \/ commitStrategyDefaultUpsert(d) \/ NoHandler(d)
  /\ UNCHANGED <<staged, audit, now, stages, deploys, edits>>

\* Mutant of Deleted: the rows are named by their keys.
X_Deleted(d) == DOMAIN dep[d].rows

\* The rows a transaction deletes: those with the ids of the loaded ones,
\* whatever has been staged under them since.
Deleted(d) == {k \in DOMAIN dep[d].rows : staged[k] # None /\ staged[k].id = dep[d].rows[k].id}

\* DeleteByIDsTx and the commit of the transaction: the rows go, the creates
\* come.
CommitTx(d) ==
  /\ dep[d].pc = "run" /\ dep[d].todo = <<>>
  /\ staged' = [k \in Keys |-> IF k \in Deleted(d) THEN None ELSE staged[k]]
  /\ prod' = [prod EXCEPT !.newFlag = @ \/ "new.flag" \in dep[d].tx,
                          !.newStrategy = @ \/ "new.strategy" \in dep[d].tx,
                          !.newRules = @ + IF "new.rule" \in dep[d].tx THEN 1 ELSE 0]
  /\ applied' = applied \cup {Mark(d, k) : k \in dep[d].tx}
  /\ report' = [report EXCEPT ![d] = Answer({dep[d].rows[k].id : k \in DOMAIN dep[d].rows}, FALSE)]
  /\ dep' = [dep EXCEPT ![d] = [pc |-> "audit",
                                entries |-> {Mark(d, k) : k \in DOMAIN dep[d].rows}]]
  /\ UNCHANGED <<audit, now, stages, deploys, edits>>

\* The audit rows, one by one; one that cannot be written does not stop the
\* others.
WriteAuditLog(d) ==
  /\ dep[d].pc = "audit"
  /\ \E e \in dep[d].entries :
       LET rest == dep[d].entries \ {e} IN
       /\ audit' \in {audit, audit \cup {e}}
       /\ dep' = [dep EXCEPT ![d] = IF rest = {} THEN Free
                                    ELSE [pc |-> "audit", entries |-> rest]]
  /\ UNCHANGED <<staged, prod, report, now, applied, stages, deploys, edits>>

\* The request is cut off: a transaction that is open is rolled back.
CutOff(d) ==
  /\ dep[d].pc # "free"
  /\ dep' = [dep EXCEPT ![d] = Free]
  /\ UNCHANGED <<staged, prod, report, audit, now, applied, stages, deploys, edits>>

-----------------------------------------------------------------------------

\* Others toggle, archive and restore the flag meanwhile.
Edit ==
  /\ edits < MaxEdits /\ edits' = edits + 1
  /\ \/ ~prod.archived /\ prod' = [prod EXCEPT !.enabled = ~@]
     \/ prod' = [prod EXCEPT !.archived = ~@]
  /\ dep' = [d \in Deploys |-> IF dep[d].pc = "run" THEN [dep[d] EXCEPT !.alone = FALSE]
                               ELSE dep[d]]
  /\ UNCHANGED <<staged, report, audit, now, applied, stages, deploys>>

Tick ==
  /\ now < MaxTime /\ now' = now + 1
  /\ UNCHANGED <<staged, prod, dep, report, audit, applied, stages, deploys, edits>>

Deploy(d) == Load(d) \/ Dispatch(d) \/ CommitTx(d) \/ WriteAuditLog(d)

Next ==
  \/ \E k \in Keys : DiscardOne(k) \/ \E change \in Changes(k) : Stage(k, change)
  \/ DiscardAll \/ sweepOnce
  \/ \E d \in Deploys : Deploy(d) \/ CutOff(d)
  \/ Edit \/ Tick

Spec == Init /\ [][Next]_vars

-----------------------------------------------------------------------------
(* Properties                                                               *)

TypeOK ==
  /\ \A k \in Keys : staged[k] # None => staged[k].change \in Changes(k)
  /\ prod.enabled \in BOOLEAN /\ prod.settings \in {0, 1} /\ prod.archived \in BOOLEAN
  /\ prod.rule \in BOOLEAN /\ prod.newFlag \in BOOLEAN /\ prod.newStrategy \in BOOLEAN
  /\ prod.newRules \in 0 .. MaxDeploys /\ prod.default \in {None} \cup Strategies
  /\ now \in 0 .. MaxTime

\* d commits what it had loaded under the id of k's row, and takes the row away.
Takes(d, k) ==
  /\ dep[d].pc = "run" /\ dep'[d].pc = "audit"
  /\ k \in DOMAIN dep[d].rows /\ dep[d].rows[k].id = staged[k].id
  /\ Mark(d, k) \in applied'

\* A row is taken away by the user, by the sweeper when it is old, or by a
\* deployment that puts this very revision into production.  One window is left in
\* which a change is lost: the user has staged it over the revision the deployment
\* had loaded, and then only that earlier one is in production.
OnlyRestagedChangesAreLost ==
  [][\A k \in Keys :
       staged[k] # None /\ staged'[k] = None =>
         \/ DiscardOne(k) \/ DiscardAll
         \/ sweepOnce /\ Swept(staged[k])
         \/ \E d \in Deploys : /\ Takes(d, k)
                              /\ \/ dep[d].rows[k].rev = staged[k].rev
                                 \/ dep[d].rows[k].rev < staged[k].rev]_vars

\* The creates of one deployment come into production together or not at all,
\* and what the answer calls committed is there when it names no failed row.
CreatesTogether ==
  \A d \in Deploys :
    /\ dep[d].pc = "run" => \A k \in Creates \cap DOMAIN dep[d].rows : Mark(d, k) \notin applied
    /\ report[d] # None /\ ~report[d].failed =>
         \A i \in report[d].committed : \E m \in applied : m.id = i /\ m.by = d

\* The audit trail tells of nothing that is not in production.
AuditIsTrue == audit \subseteq applied

\* The columns in which the overlay shows what the change will do: an update shows
\* the archive mark of its patch, which it does not bring into production.
Promised(change) ==
  IF change.act = "update" THEN {"enabled", "settings"} ELSE {"enabled", "settings", "archived"}

\* A deployment of the flag's only staged change, with nobody else at work on
\* the flag, leaves it as the overlay had shown it, the archive mark of an update
\* excepted.
SeenIsDeployed ==
  [][\A d \in Deploys :
       ( /\ dep[d].pc = "run" /\ dep'[d].pc = "audit"
         /\ dep[d].alone /\ dep[d].whole
         /\ Cardinality(FlagKeys \cap DOMAIN dep[d].rows) = 1 )
       => \A k \in FlagKeys \cap DOMAIN dep[d].rows :
            \A c \in Promised(dep[d].rows[k].change) : prod'[c] = dep[d].seen[c]]_vars

\* The design's promise that a deployment commits the selected rows atomically:
\* one that is answered with a failed row has changed nothing.
DeployIsAtomic ==
  \A d \in Deploys : report[d] # None /\ report[d].failed => \A m \in applied : m.by # d

\* commitFlagRuleCreate's word that the flag id it is given is the real one.
RefsAreResolved ==
  \A d \in Deploys : Running(d) /\ Current(d) = "new.rule" => Row(d).change.ref # "new.flag"
=============================================================================
