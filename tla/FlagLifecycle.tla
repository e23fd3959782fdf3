--------------------------- MODULE FlagLifecycle ---------------------------
(***************************************************************************)
(* The end of a flag's life: scheduled removal with its "due" event, and   *)
(* archive, queued deletion and hard deletion after a retention window     *)
(* (internal/flags/service.go, lifecycle_scheduler.go, retention_sweep.go, *)
(* handler.go, lifecycle_handler.go and the SQL of postgres/flags.go).     *)
(*                                                                         *)
(* Every API process runs a scheduler and a sweeper beside the requests of *)
(* users; they share nothing but the rows.  The conditions of the SQL      *)
(* statements are the guards of the operators on rows, so that what a      *)
(* process concluded from an earlier read is only as good as the statement *)
(* it ends with.  A process may stop between any two of its statements.    *)
(***************************************************************************)
EXTENDS Integers, FiniteSets, Sequences, SequencesExt

CONSTANTS Flags,
          Nodes,        \* API processes, by their schedulers
          Sweepers,     \* API processes, by their sweepers
          Retention,    \* archive-to-delete window, in ticks
          BatchSize,    \* flags one sweep looks at
          MaxTime,      \* bound: the clock
          LastCall,     \* bound: no request but a deletion and no restart after this time
          MaxRequests,  \* bound: requests of users
          Never,        \* a timestamp column that is NULL
          Gone          \* no row

Times == 0 .. MaxTime + Retention \cup {Never}

\* plan names the request that set the removal date last.
FlagRow == [archivedAt : Times, deleteAfter : Times, removalAt : Times, fired : BOOLEAN,
            plan : 0 .. MaxRequests]

ASSUME LifecycleAssumption ==
  /\ Retention \in Nat /\ BatchSize \in Nat \ {0} /\ MaxTime \in Nat /\ MaxRequests \in Nat
  /\ LastCall \in 0 .. MaxTime /\ Never \notin 0 .. MaxTime + Retention
  /\ Gone \notin FlagRow

VARIABLES row,       \* feature_flags, the columns of the lifecycle
          now,
          sched,     \* the tick of each node's scheduler
          sweep,     \* the pass of each node's sweeper
          due,       \* due events sent, with the date that was marked
          audit,     \* flags with a flag.hard_deleted row in the audit log
          used,      \* ghost and bound: requests so far, naming the schedules
          active     \* ghost: when the flag was last not archived

vars == <<row, now, sched, sweep, due, audit, used, active>>

Resting == [pc |-> "rest", todo |-> {}]

\* A flag may begin with the delete_after of an archive that was undone.
Init ==
  /\ row \in [Flags -> {[archivedAt |-> Never, deleteAfter |-> t, removalAt |-> Never,
                          fired |-> FALSE, plan |-> 0] : t \in {Never, 0}}]
  /\ now = 0 /\ used = 0
  /\ sched = [n \in Nodes |-> Resting] /\ sweep = [n \in Sweepers |-> Resting]
  /\ due = {} /\ audit = {}
  /\ active = [f \in Flags |-> 0]

Rows == {f \in Flags : row[f] # Gone}
Archived(f) == row[f].archivedAt # Never

-----------------------------------------------------------------------------
(* The statements.  Each is one SQL statement: its WHERE clause and its SET *)

\* archived_at = now() WHERE archived_at IS NULL
SqlArchive(f) == f \in Rows /\ ~Archived(f) /\ row' = [row EXCEPT ![f].archivedAt = now]

\* archived_at = NULL; delete_after stays.
SqlUnarchive(f) == f \in Rows /\ row' = [row EXCEPT ![f].archivedAt = Never]

\* delete_after = archived_at + retention WHERE archived_at IS NOT NULL
SqlQueueDeletion(f) ==
  /\ f \in Rows /\ Archived(f)
  /\ row' = [row EXCEPT ![f].deleteAfter = row[f].archivedAt + Retention]

SqlClearDeleteAfter(f) == f \in Rows /\ row' = [row EXCEPT ![f].deleteAfter = Never]

SqlRestore(f) ==
  /\ f \in Rows
  /\ row' = [row EXCEPT ![f].archivedAt = Never, ![f].deleteAfter = Never]

\* DELETE WHERE archived_at IS NOT NULL AND archived_at + retention < now()
Deletable(f) == f \in Rows /\ Archived(f) /\ row[f].archivedAt + Retention < now
\* Mutant of SqlHardDelete: the statement trusts delete_after.
X_SqlHardDelete(f) == /\ f \in Rows /\ row[f].deleteAfter # Never
                      /\ row[f].deleteAfter < now /\ row' = [row EXCEPT ![f] = Gone]

SqlHardDelete(f) == Deletable(f) /\ row' = [row EXCEPT ![f] = Gone]

\* A new date, or none, always clears scheduled_removal_fired_at.
SqlSetRemoval(f, t) ==
  /\ f \in Rows
  /\ row' = [row EXCEPT ![f].removalAt = t, ![f].fired = FALSE, ![f].plan = used']

\* Mutant of Markable: the update does not ask whether the mark is there.
X_Markable(f) == f \in Rows

\* scheduled_removal_fired_at = $2 WHERE scheduled_removal_fired_at IS NULL
Markable(f) == f \in Rows /\ ~row[f].fired
SqlMarkFired(f) == Markable(f) /\ row' = [row EXCEPT ![f].fired = TRUE]

DueFlags == {f \in Rows : /\ row[f].removalAt # Never /\ ~row[f].fired
                          /\ row[f].removalAt <= now /\ ~Archived(f)}

\* delete_after < now() ORDER BY delete_after LIMIT n: flags with the same
\* delete_after come in any order.
Expired == {f \in Rows : row[f].deleteAfter # Never /\ row[f].deleteAfter < now}
Batches ==
  {B \in SUBSET Expired :
     /\ Cardinality(B) = IF Cardinality(Expired) < BatchSize THEN Cardinality(Expired)
                         ELSE BatchSize
     /\ \A f \in B, g \in Expired \ B : row[f].deleteAfter <= row[g].deleteAfter}

-----------------------------------------------------------------------------
(* Requests                                                                 *)

Request(f) == /\ used < MaxRequests /\ now <= LastCall /\ used' = used + 1
              /\ UNCHANGED <<now, sched, sweep, due, audit>>
Seen(f, archived) == active' = [active EXCEPT ![f] = IF archived THEN @ ELSE now]

archiveFlag(f) == Request(f) /\ SqlArchive(f) /\ active' = [active EXCEPT ![f] = now]

\* Only the revert of an archive comes here.
UnarchiveFlag(f) == Request(f) /\ SqlUnarchive(f) /\ Seen(f, FALSE)

queueFlagDeletion(f) == Request(f) /\ SqlQueueDeletion(f) /\ UNCHANGED active

cancelFlagDeletion(f) == Request(f) /\ SqlClearDeleteAfter(f) /\ UNCHANGED active

restoreFlag(f) == Request(f) /\ SqlRestore(f) /\ Seen(f, FALSE)

\* The user's own deletion, which nobody has to queue first.
hardDeleteFlag(f) == /\ used < MaxRequests /\ used' = used + 1
                     /\ SqlHardDelete(f) /\ audit' = audit \cup {f}
                     /\ UNCHANGED <<now, sched, sweep, due, active>>

scheduleRemoval(f) ==
  Request(f) /\ (\E t \in now + 1 .. MaxTime : SqlSetRemoval(f, t)) /\ UNCHANGED active

cancelScheduledRemoval(f) == Request(f) /\ SqlSetRemoval(f, Never) /\ UNCHANGED active

-----------------------------------------------------------------------------
(* LifecycleScheduler.Tick                                                  *)

ListDue(n) ==
  /\ sched[n].pc = "rest" /\ DueFlags # {}
  /\ sched' = [sched EXCEPT ![n] = [pc |-> "mark", todo |-> DueFlags]]
  /\ UNCHANGED <<row, now, sweep, due, audit, used, active>>

MarkRest(rest) == IF rest = {} THEN Resting ELSE [pc |-> "mark", todo |-> rest]

\* MarkFlagRemovalFired: whoever finds no row to mark leaves the flag out.
MarkFired(n) ==
  /\ sched[n].pc = "mark"
  /\ \E f \in sched[n].todo :
       LET rest == sched[n].todo \ {f} IN
       \/ /\ SqlMarkFired(f)
          /\ sched' = [sched EXCEPT ![n] = [pc |-> "emit", todo |-> rest, flag |-> f,
                                            plan |-> row[f].plan, at |-> row[f].removalAt]]
       \/ /\ ~Markable(f)
          /\ sched' = [sched EXCEPT ![n] = MarkRest(rest)]
          /\ UNCHANGED row
  /\ UNCHANGED <<now, sweep, due, audit, used, active>>

emitDue(n) ==
  /\ sched[n].pc = "emit"
  /\ due' = due \cup {[flag |-> sched[n].flag, plan |-> sched[n].plan, by |-> n,
                     passed |-> sched[n].at # Never /\ sched[n].at <= now]}
  /\ sched' = [sched EXCEPT ![n] = MarkRest(sched[n].todo)]
  /\ UNCHANGED <<row, now, sweep, audit, used, active>>

-----------------------------------------------------------------------------
(* RetentionSweeper.sweepOnce                                               *)

ListExpired(n) ==
  /\ sweep[n].pc = "rest" /\ Expired # {}
  /\ \E B \in Batches : sweep' = [sweep EXCEPT ![n] = [pc |-> "delete", todo |-> B]]
  /\ UNCHANGED <<row, now, sched, due, audit, used, active>>

\* Mutant of HardDelete: the pass does not get past a flag it cannot delete.
X_HardDelete(n) ==
  /\ sweep[n].pc = "delete"
  /\ \E f \in sweep[n].todo :
       /\ SqlHardDelete(f)
       /\ sweep' = [sweep EXCEPT ![n] = [pc |-> "audit", todo |-> sweep[n].todo \ {f},
                                         flag |-> f]]
  /\ UNCHANGED <<now, sched, due, audit, used, active>>

\* A flag that cannot be deleted is logged and passed over.
HardDelete(n) ==
  /\ sweep[n].pc = "delete"
  /\ \E f \in sweep[n].todo :
       LET rest == sweep[n].todo \ {f}
           after == IF rest = {} THEN Resting ELSE [pc |-> "delete", todo |-> rest] IN
       \/ /\ SqlHardDelete(f)
          /\ sweep' = [sweep EXCEPT ![n] = [pc |-> "audit", todo |-> rest, flag |-> f]]
       \/ /\ ~Deletable(f)
          /\ sweep' = [sweep EXCEPT ![n] = after]
          /\ UNCHANGED row
  /\ UNCHANGED <<now, sched, due, audit, used, active>>

AuditDeletion(n) ==
  /\ sweep[n].pc = "audit"
  /\ audit' = audit \cup {sweep[n].flag}
  /\ sweep' = [sweep EXCEPT ![n] = IF sweep[n].todo = {} THEN Resting
                                   ELSE [pc |-> "delete", todo |-> sweep[n].todo]]
  /\ UNCHANGED <<row, now, sched, due, used, active>>

\* A process stops; its successor starts the loop from the beginning.
RestartScheduler(n) ==
  /\ sched[n].pc # "rest" /\ now <= LastCall
  /\ sched' = [sched EXCEPT ![n] = Resting]
  /\ UNCHANGED <<row, now, sweep, due, audit, used, active>>

RestartSweeper(n) ==
  /\ sweep[n].pc # "rest" /\ now <= LastCall
  /\ sweep' = [sweep EXCEPT ![n] = Resting]
  /\ UNCHANGED <<row, now, sched, due, audit, used, active>>

Tick ==
  /\ now < MaxTime /\ now' = now + 1
  /\ UNCHANGED <<row, sched, sweep, due, audit, used, active>>

User(f) ==
  \/ archiveFlag(f) \/ UnarchiveFlag(f) \/ queueFlagDeletion(f) \/ cancelFlagDeletion(f)
  \/ restoreFlag(f) \/ hardDeleteFlag(f) \/ scheduleRemoval(f) \/ cancelScheduledRemoval(f)

Scheduler(n) == ListDue(n) \/ MarkFired(n) \/ emitDue(n)
Sweeper(n) == ListExpired(n) \/ HardDelete(n) \/ AuditDeletion(n)

Next ==
  \/ \E f \in Flags : User(f)
  \/ \E n \in Nodes : Scheduler(n) \/ RestartScheduler(n)
  \/ \E n \in Sweepers : Sweeper(n) \/ RestartSweeper(n)
  \/ Tick

Spec == /\ Init /\ [][Next]_vars /\ WF_vars(Tick)
        /\ \A n \in Nodes : WF_vars(Scheduler(n))
        /\ \A n \in Sweepers : WF_vars(Sweeper(n))

-----------------------------------------------------------------------------
(* Properties                                                               *)

TypeOK ==
  /\ row \in [Flags -> FlagRow \cup {Gone}]
  /\ now \in 0 .. MaxTime /\ used \in 0 .. MaxRequests
  /\ \A n \in Nodes : sched[n].todo \subseteq Flags
  /\ \A n \in Sweepers : sweep[n].todo \subseteq Flags
  /\ audit \subseteq Flags

\* A flag disappears only when it has been out of use, without a break, for
\* longer than the retention window: a delete_after left over from an archive
\* that was undone never deletes a flag early.
RetentionHonoured ==
  [][\A f \in Flags : row[f] # Gone /\ row'[f] = Gone => now > active[f] + Retention]_vars

\* However many schedulers list a flag at once, one schedule sends one event.
DueAtMostOnce == \A d, e \in due : d.flag = e.flag /\ d.plan = e.plan => d = e

\* A due event tells of a removal date that has passed.
DueOnlyWhenDue == \A d \in due : d.passed

\* As many flags as a sweep looks at come no later than f in its list and will
\* not be deleted.
Blocked(f) ==
  BatchSize <= Cardinality({g \in Expired : /\ ~Archived(g)
                                            /\ row[g].deleteAfter <= row[f].deleteAfter})

\* A flag that stays archived and queued is deleted in the end, whichever
\* processes restart, unless flags that were restored behind the queue's back
\* fill every batch.
QueuedIsDeleted ==
  \A f \in Flags : []<>(~(f \in Rows /\ Archived(f) /\ row[f].deleteAfter # Never) \/ Blocked(f))

\* A removal date that has passed is noticed in the end.
DueIsNoticed == \A f \in Flags : []<>(f \notin DueFlags)
=============================================================================
