------------------------- MODULE FlagLifecycleProofs -------------------------
(***************************************************************************)
(* Proofs about FlagLifecycle, for any flags, schedulers, sweepers,        *)
(* retention and bounds, and about FlagEvaluation, for any requests,       *)
(* replicas, writers, rules, segments, time to live and bounds.            *)
(*                                                                         *)
(* That a due event is sent once is not inductive: between the mark and    *)
(* the event the only trace of a schedule that is being served is in the   *)
(* scheduler.  The invariant therefore says of the schedulers' events to   *)
(* come what the theorem says of those sent, and that the row of either    *)
(* carries the mark for as long as it carries the same plan.               *)
(*                                                                         *)
(* That an undisturbed evaluation is exact needs to know, of every copy of *)
(* a row that is under way (a shared read, an evaluation's locals, a key   *)
(* of the cache), that it is the row as long as nobody writes; and that    *)
(* outdated rules are explained, that a copy as new as the rule table is   *)
(* the rule table.                                                         *)
(***************************************************************************)
EXTENDS MC_Flags, WellFoundedInduction, TLAPS

\* A scheduler and a sweeper between two statements.
SchedRec ==
    [pc : {"rest", "mark"}, todo : SUBSET Flags]
        \cup [pc : {"emit"}, todo : SUBSET Flags, flag : Flags, plan : 0 .. MaxRequests,
              at : Times]
SweepRec ==
    [pc : {"rest", "delete"}, todo : SUBSET Flags]
        \cup [pc : {"audit"}, todo : SUBSET Flags, flag : Flags]
DueEvent == [flag : Flags, plan : 0 .. MaxRequests, by : Nodes, passed : BOOLEAN]

Typed ==
    /\ row \in [Flags -> FlagRow \cup {Gone}]
    /\ now \in 0 .. MaxTime /\ used \in 0 .. MaxRequests
    /\ sched \in [Nodes -> SchedRec] /\ sweep \in [Sweepers -> SweepRec]
    /\ due \subseteq DueEvent /\ audit \subseteq Flags
    /\ active \in [Flags -> 0 .. MaxTime]

\* The schedule of flag f that request p made is over: marked, replaced or gone,
\* and no later request has its number.
Served(f, p) == p <= used /\ (f \in Rows /\ row[f].plan = p => row[f].fired)

\* What each scheduler is about to send.
Emitting(n) == sched[n].pc = "emit"

OnceInv ==
    /\ \A f \in Rows : row[f].plan <= used
    /\ \A n \in Nodes : Emitting(n) => Served(sched[n].flag, sched[n].plan)
    /\ \A d \in due : Served(d.flag, d.plan)
    /\ \A m, n \in Nodes :
         Emitting(m) /\ Emitting(n) /\ sched[m].flag = sched[n].flag
           /\ sched[m].plan = sched[n].plan => m = n
    /\ \A n \in Nodes, d \in due :
         Emitting(n) => ~(d.flag = sched[n].flag /\ d.plan = sched[n].plan)
    /\ DueAtMostOnce

\* The archive's date is no earlier than the flag's last use.
ArchiveInv ==
    \A f \in Rows : Archived(f) =>
      active[f] <= row[f].archivedAt /\ row[f].archivedAt <= MaxTime

IInv == Typed /\ OnceInv /\ ArchiveInv

-----------------------------------------------------------------------------
(* What each statement leaves of a row.                                     *)

LEMMA InitIInv == Init => IInv
  <1> SUFFICES ASSUME Init PROVE IInv
    OBVIOUS
  <1> USE LifecycleAssumption
  <1>1. Typed
    <2>1. 0 \in Times /\ Never \in Times /\ 0 \in 0 .. MaxRequests /\ 0 \in 0 .. MaxTime
      BY DEF Times
    <2>2. \A t \in {Never, 0} : [archivedAt |-> Never, deleteAfter |-> t, removalAt |-> Never,
                                 fired |-> FALSE, plan |-> 0] \in FlagRow
      BY <2>1 DEF FlagRow
    <2>3. row \in [Flags -> FlagRow \cup {Gone}]
      BY <2>2 DEF Init
    <2>4. Resting \in SchedRec /\ Resting \in SweepRec
      BY DEF Resting, SchedRec, SweepRec
    <2> QED
      BY <2>1, <2>3, <2>4 DEF Init, Typed
  <1>2. OnceInv
    BY DEF Init, OnceInv, DueAtMostOnce, Emitting, Resting, Rows
  <1>3. ArchiveInv
    BY DEF Init, ArchiveInv, Archived, Rows
  <1> QED
    BY <1>1, <1>2, <1>3 DEF IInv

\* A statement that writes one field of an existing row keeps the table well
\* formed; a deletion does.
LEMMA RowsTyped ==
    ASSUME Typed, NEW f \in Flags, NEW r \in FlagRow \cup {Gone},
           row' = [row EXCEPT ![f] = r]
    PROVE  /\ row' \in [Flags -> FlagRow \cup {Gone}]
           /\ row'[f] = r
           /\ \A g \in Flags \ {f} : row'[g] = row[g]
  BY DEF Typed

\* A row, when it is there.
LEMMA RowFields ==
    ASSUME Typed, NEW f \in Rows
    PROVE  /\ row[f] \in FlagRow /\ f \in Flags
           /\ row[f].archivedAt \in Times /\ row[f].deleteAfter \in Times
           /\ row[f].removalAt \in Times /\ row[f].fired \in BOOLEAN
           /\ row[f].plan \in 0 .. MaxRequests
  BY DEF Typed, Rows, FlagRow

\* Requests number the schedules they make, so a schedule that is over stays
\* over: whatever a step does to a row, it keeps the plan and its mark or gives
\* the row the number of this very request.
LEMMA PlansStayOver ==
    ASSUME Typed, OnceInv, used' \in Nat, used <= used', UNCHANGED <<sched, due>>,
           \A g \in Rows' : /\ g \in Rows
                            /\ \/ row'[g].plan = row[g].plan /\ (row[g].fired => row'[g].fired)
                               \/ row'[g].plan = used' /\ used < used'
    PROVE  OnceInv'
  <1>1. used \in Nat
    BY DEF Typed
  <1>2. ASSUME NEW f, NEW p \in Nat, Served(f, p)
        PROVE  Served(f, p)'
    BY <1>1, <1>2 DEF Served
  <1>3. \A f \in Rows' : row'[f].plan <= used'
    <2>1. ASSUME NEW f \in Rows' PROVE row'[f].plan <= used'
      <3>1. row[f].plan \in Nat /\ row[f].plan <= used
        BY RowFields DEF OnceInv
      <3> QED
        BY <1>1, <3>1
    <2> QED
      BY <2>1
  <1>4. \A n \in Nodes : Emitting(n) => Served(sched[n].flag, sched[n].plan)'
    <2>1. \A n \in Nodes : Emitting(n) => sched[n].plan \in Nat
      BY DEF Typed, Emitting, SchedRec
    <2> QED
      BY <1>2, <2>1 DEF OnceInv
  <1>5. \A d \in due : Served(d.flag, d.plan)'
    <2>1. \A d \in due : d.plan \in Nat
      BY DEF Typed, DueEvent
    <2> QED
      BY <1>2, <2>1 DEF OnceInv
  <1> QED
    BY <1>3, <1>4, <1>5 DEF OnceInv, Emitting, DueAtMostOnce, Served

\* The archive's date and the flag's last use, over a step that touches one flag.
LEMMA ArchiveDates ==
    ASSUME Typed, ArchiveInv, NEW f \in Flags, NEW r \in FlagRow \cup {Gone},
           row' = [row EXCEPT ![f] = r], active' \in [Flags -> 0 .. MaxTime],
           \A g \in Flags \ {f} : active'[g] = active[g],
           r # Gone /\ r.archivedAt # Never =>
             active'[f] <= r.archivedAt /\ r.archivedAt <= MaxTime
    PROVE  ArchiveInv'
  <1>1. \A g \in Flags \ {f} : row'[g] = row[g]
    BY RowsTyped
  <1>2. row'[f] = r
    BY RowsTyped
  <1> QED
    BY <1>1, <1>2 DEF ArchiveInv, Archived, Rows

-----------------------------------------------------------------------------
(* Requests of users.                                                       *)

\* What a request that is one statement on one row has to see to.
LEMMA OneRowRequest ==
    ASSUME IInv, NEW f \in Rows, NEW r \in FlagRow \cup {Gone},
           row' = [row EXCEPT ![f] = r], used < MaxRequests, used' = used + 1,
           UNCHANGED <<now, sched, sweep, due>>, audit' \subseteq Flags,
           active' \in [Flags -> 0 .. MaxTime],
           \A g \in Flags \ {f} : active'[g] = active[g],
           r # Gone /\ r.archivedAt # Never =>
             active'[f] <= r.archivedAt /\ r.archivedAt <= MaxTime,
           r # Gone => \/ r.plan = row[f].plan /\ (row[f].fired => r.fired)
                       \/ r.plan = used'
    PROVE  IInv'
  <1> USE LifecycleAssumption DEF IInv
  <1>1. f \in Flags
    BY DEF Rows
  <1>2. Typed'
    <2>1. row' \in [Flags -> FlagRow \cup {Gone}]
      BY <1>1, RowsTyped
    <2>2. used' \in 0 .. MaxRequests
      BY DEF Typed
    <2> QED
      BY <2>1, <2>2 DEF Typed
  <1>3. OnceInv'
    <2>1. used \in Nat /\ used' \in Nat /\ used < used'
      BY DEF Typed
    <2>2. row'[f] = r /\ \A g \in Flags \ {f} : row'[g] = row[g]
      BY <1>1, RowsTyped
    <2>3. \A g \in Rows' : /\ g \in Rows
                           /\ \/ row'[g].plan = row[g].plan /\ (row[g].fired => row'[g].fired)
                              \/ row'[g].plan = used' /\ used < used'
      BY <2>1, <2>2 DEF Rows
    <2> QED
      BY <2>1, <2>3, PlansStayOver
  <1>4. ArchiveInv'
    BY <1>1, ArchiveDates
  <1> QED
    BY <1>2, <1>3, <1>4

LEMMA UserKeepsIInv == ASSUME IInv, NEW f \in Flags, User(f) PROVE IInv'
  <1> USE LifecycleAssumption
  <1> DEFINE old == row[f]
  <1>0. /\ Typed /\ ArchiveInv /\ now \in 0 .. MaxTime
        /\ active \in [Flags -> 0 .. MaxTime] /\ audit \subseteq Flags
        /\ Never \in Times /\ now \in Times
    BY DEF IInv, Typed, Times
  <1>1. CASE archiveFlag(f)
    <2> DEFINE r == [old EXCEPT !.archivedAt = now]
    <2>1. f \in Rows /\ row' = [row EXCEPT ![f] = r]
      BY <1>1 DEF archiveFlag, SqlArchive
    <2>2. r \in FlagRow /\ r.plan = old.plan /\ r.fired = old.fired /\ r.archivedAt = now
      BY <1>0, <2>1, RowFields DEF FlagRow
    <2>3. Request(f) /\ active' = [active EXCEPT ![f] = now]
      BY <1>1 DEF archiveFlag
    <2> HIDE DEF r
    <2> QED
      <3>1. /\ used < MaxRequests /\ used' = used + 1 /\ UNCHANGED <<now, sched, sweep, due>>
            /\ audit' \subseteq Flags
        BY <1>0, <2>3 DEF Request
      <3>2. /\ active' \in [Flags -> 0 .. MaxTime] /\ active'[f] = now
            /\ \A g \in Flags \ {f} : active'[g] = active[g]
        BY <1>0, <2>3
      <3>3. now <= now /\ now <= MaxTime
        BY <1>0
      <3> QED
        BY <2>1, <2>2, <3>1, <3>2, <3>3, OneRowRequest
  <1>2. CASE UnarchiveFlag(f) \/ restoreFlag(f)
    <2>1. f \in Rows /\ Request(f) /\ Seen(f, FALSE)
      BY <1>2 DEF UnarchiveFlag, restoreFlag, SqlUnarchive, SqlRestore
    <2>2. PICK r : /\ r \in {[old EXCEPT !.archivedAt = Never],
                             [old EXCEPT !.archivedAt = Never, !.deleteAfter = Never]}
                   /\ row' = [row EXCEPT ![f] = r]
      BY <1>2 DEF UnarchiveFlag, restoreFlag, SqlUnarchive, SqlRestore
    <2>3. r \in FlagRow /\ r.archivedAt = Never /\ r.plan = old.plan /\ r.fired = old.fired
      BY <1>0, <2>1, <2>2, RowFields DEF FlagRow
    <2>4. active' = [active EXCEPT ![f] = now]
      BY <2>1 DEF Seen
    <2> QED
      BY <1>0, <2>1, <2>2, <2>3, <2>4, OneRowRequest DEF Request
  <1>3. CASE queueFlagDeletion(f)
    <2> DEFINE r == [old EXCEPT !.deleteAfter = old.archivedAt + Retention]
    <2>1. f \in Rows /\ Archived(f) /\ row' = [row EXCEPT ![f] = r]
      BY <1>3 DEF queueFlagDeletion, SqlQueueDeletion
    <2>2. old.archivedAt \in 0 .. MaxTime /\ active[f] <= old.archivedAt
      <3>1. /\ old.archivedAt \in Times /\ old.archivedAt # Never
            /\ old.archivedAt <= MaxTime /\ active[f] <= old.archivedAt
        BY <1>0, <2>1, RowFields DEF ArchiveInv, Archived
      <3> QED
        BY <3>1 DEF Times
    <2>3. old.archivedAt + Retention \in Times
      BY <2>2 DEF Times
    <2>4. r \in FlagRow /\ r.plan = old.plan /\ r.fired = old.fired
          /\ r.archivedAt = old.archivedAt
      BY <1>0, <2>1, <2>3, RowFields DEF FlagRow
    <2>5. Request(f) /\ UNCHANGED active
      BY <1>3 DEF queueFlagDeletion
    <2> HIDE DEF r
    <2> QED
      <3>1. /\ used < MaxRequests /\ used' = used + 1 /\ UNCHANGED <<now, sched, sweep, due>>
            /\ audit' \subseteq Flags /\ active' = active
        BY <1>0, <2>5 DEF Request
      <3>2. old.archivedAt <= MaxTime
        BY <2>2
      <3> QED
        BY <1>0, <2>1, <2>2, <2>4, <3>1, <3>2, OneRowRequest
  <1>4. CASE cancelFlagDeletion(f)
    <2>1. f \in Rows /\ row' = [row EXCEPT ![f] = [old EXCEPT !.deleteAfter = Never]]
      BY <1>4 DEF cancelFlagDeletion, SqlClearDeleteAfter
    <2>2. [old EXCEPT !.deleteAfter = Never] \in FlagRow
      BY <1>0, <2>1, RowFields DEF FlagRow
    <2>3. old.archivedAt # Never => active[f] <= old.archivedAt /\ old.archivedAt <= MaxTime
      BY <1>0, <2>1 DEF ArchiveInv, Archived
    <2> QED
      BY <1>0, <1>4, <2>1, <2>2, <2>3, OneRowRequest, RowFields
         DEF cancelFlagDeletion, Request, FlagRow
  <1>5. CASE hardDeleteFlag(f)
    <2>1. f \in Rows /\ row' = [row EXCEPT ![f] = Gone]
      BY <1>5 DEF hardDeleteFlag, SqlHardDelete, Deletable
    <2> QED
      BY <1>0, <1>5, <2>1, OneRowRequest DEF hardDeleteFlag
  <1>6. CASE scheduleRemoval(f) \/ cancelScheduledRemoval(f)
    <2>1. f \in Rows /\ Request(f) /\ UNCHANGED active
      BY <1>6 DEF scheduleRemoval, cancelScheduledRemoval, SqlSetRemoval
    <2>2. PICK t \in Times : SqlSetRemoval(f, t)
      <3>1. CASE scheduleRemoval(f)
        <4>1. PICK t \in now + 1 .. MaxTime : SqlSetRemoval(f, t)
          BY <3>1 DEF scheduleRemoval
        <4>2. t \in Times
          BY <1>0 DEF Times
        <4> QED
          BY <4>1, <4>2
      <3>2. CASE cancelScheduledRemoval(f)
        BY <1>0, <3>2 DEF cancelScheduledRemoval
      <3> QED
        BY <1>6, <3>1, <3>2
    <2> DEFINE r == [old EXCEPT !.removalAt = t, !.fired = FALSE, !.plan = used']
    <2>3. row' = [row EXCEPT ![f] = r]
      BY <2>2 DEF SqlSetRemoval
    <2>4. used' \in 0 .. MaxRequests
      BY <1>0, <2>1 DEF Request, Typed
    <2>5. r \in FlagRow /\ r.plan = used' /\ r.archivedAt = old.archivedAt
      BY <1>0, <2>1, <2>4, RowFields DEF FlagRow
    <2>6. old.archivedAt # Never => active[f] <= old.archivedAt /\ old.archivedAt <= MaxTime
      BY <1>0, <2>1 DEF ArchiveInv, Archived
    <2> HIDE DEF r
    <2> QED
      BY <1>0, <2>1, <2>3, <2>5, <2>6, OneRowRequest DEF Request
  <1> QED
    BY <1>1, <1>2, <1>3, <1>4, <1>5, <1>6 DEF User

-----------------------------------------------------------------------------
(* The schedulers, the sweepers and the clock.                              *)

\* A step that writes no row and takes no request keeps what rows promise; it
\* keeps what events promise when it sends none and no scheduler comes to emit.
LEMMA QuietStep ==
    ASSUME IInv, UNCHANGED <<row, due, used, active>>,
           now' \in 0 .. MaxTime, audit' \subseteq Flags,
           sched' \in [Nodes -> SchedRec], sweep' \in [Sweepers -> SweepRec],
           \A n \in Nodes : Emitting(n)' => sched'[n] = sched[n]
    PROVE  IInv'
  <1>1. Typed'
    BY DEF IInv, Typed
  <1>2. OnceInv'
    BY DEF IInv, OnceInv, Emitting, Served, Rows, DueAtMostOnce
  <1>3. ArchiveInv'
    BY DEF IInv, ArchiveInv, Archived, Rows
  <1> QED
    BY <1>1, <1>2, <1>3 DEF IInv

LEMMA MarkRestIsIdle ==
    ASSUME NEW rest \in SUBSET Flags
    PROVE  MarkRest(rest) \in SchedRec /\ MarkRest(rest).pc # "emit"
  BY DEF MarkRest, Resting, SchedRec

LEMMA SchedulerFields ==
    ASSUME Typed, NEW n \in Nodes
    PROVE  /\ sched[n].todo \subseteq Flags
           /\ Emitting(n) => /\ sched[n].flag \in Flags /\ sched[n].plan \in 0 .. MaxRequests
                             /\ sched[n].at \in Times
  BY DEF Typed, SchedRec, Emitting

\* MarkFlagRemovalFired found the row unmarked: nobody is sending, nor has sent,
\* an event of this plan, and from now on the row says so.
LEMMA MarkingKeepsIInv ==
    ASSUME IInv, NEW n \in Nodes, NEW f \in sched[n].todo,
           sched[n].pc = "mark", SqlMarkFired(f),
           sched' = [sched EXCEPT ![n] = [pc |-> "emit", todo |-> sched[n].todo \ {f}, flag |-> f,
                                          plan |-> row[f].plan, at |-> row[f].removalAt]],
           UNCHANGED <<now, sweep, due, audit, used, active>>
    PROVE  IInv'
  <1> DEFINE r == [row[f] EXCEPT !.fired = TRUE]
             s == [pc |-> "emit", todo |-> sched[n].todo \ {f}, flag |-> f,
                   plan |-> row[f].plan, at |-> row[f].removalAt]
  <1> USE LifecycleAssumption DEF IInv
  <1>1. f \in Rows /\ f \in Flags /\ ~row[f].fired /\ row' = [row EXCEPT ![f] = r]
    BY DEF SqlMarkFired, Markable, Rows
  <1>2. /\ r \in FlagRow /\ r.plan = row[f].plan /\ r.fired
        /\ r.archivedAt = row[f].archivedAt
    BY <1>1, RowFields DEF FlagRow
  <1>3. /\ s \in SchedRec /\ s.pc = "emit" /\ s.flag = f /\ s.plan = row[f].plan
    BY <1>1, RowFields, SchedulerFields DEF SchedRec
  <1>4. sched'[n] = s /\ \A m \in Nodes \ {n} : sched'[m] = sched[m]
    BY DEF Typed
  <1>5. row'[f] = r /\ \A g \in Flags \ {f} : row'[g] = row[g]
    BY <1>1, <1>2, RowsTyped
  <1>6. row' \in [Flags -> FlagRow \cup {Gone}]
    BY <1>1, <1>2, RowsTyped
  <1> HIDE DEF r, s
  <1>7. Typed'
    BY <1>3, <1>6 DEF Typed, s
  <1>8. ArchiveInv'
    BY <1>1, <1>2, <1>5 DEF ArchiveInv, Archived, Rows
  <1>9. Rows' = Rows
        /\ \A g \in Rows : row'[g].plan = row[g].plan /\ (row[g].fired => row'[g].fired)
    BY <1>1, <1>2, <1>5 DEF Rows
  <1>10. \A g, p : Served(g, p) => Served(g, p)'
    BY <1>9 DEF Served
  <1>11. OnceInv'
    <2>1. \A g \in Rows' : row'[g].plan <= used'
      BY <1>9 DEF OnceInv
    <2>2. Served(f, row[f].plan)'
      BY <1>1, <1>2, <1>5 DEF OnceInv, Served
    <2>3. \A m \in Nodes : Emitting(m)' => Served(sched[m].flag, sched[m].plan)'
      <3>1. Served(sched[n].flag, sched[n].plan)'
        BY <1>2, <1>3, <1>4, <1>5, <2>2
      <3>2. ASSUME NEW m \in Nodes \ {n}, Emitting(m)'
            PROVE  Served(sched[m].flag, sched[m].plan)'
        <4>1. Served(sched[m].flag, sched[m].plan)
          BY <1>4, <3>2 DEF OnceInv, Emitting
        <4> QED
          BY <1>4, <1>9, <3>2, <4>1 DEF Served
      <3> QED
        BY <3>1, <3>2
    <2>4. \A d \in due' : Served(d.flag, d.plan)'
      BY <1>10 DEF OnceInv
    <2>5. \A m \in Nodes : Emitting(m) => ~(sched[m].flag = f /\ sched[m].plan = row[f].plan)
      BY <1>1 DEF OnceInv, Served
    <2>6. \A d \in due : ~(d.flag = f /\ d.plan = row[f].plan)
      BY <1>1 DEF OnceInv, Served
    <2>7. \A l, m \in Nodes :
            Emitting(l)' /\ Emitting(m)' /\ sched'[l].flag = sched'[m].flag
              /\ sched'[l].plan = sched'[m].plan => l = m
      BY <1>3, <1>4, <2>5 DEF OnceInv, Emitting
    <2>8. \A m \in Nodes, d \in due' :
            Emitting(m)' => ~(d.flag = sched'[m].flag /\ d.plan = sched'[m].plan)
      BY <1>3, <1>4, <2>6 DEF OnceInv, Emitting
    <2> QED
      BY <2>1, <2>3, <2>4, <2>7, <2>8 DEF OnceInv, DueAtMostOnce, Emitting
  <1> QED
    BY <1>7, <1>8, <1>11

\* The event a scheduler sends is the first of its plan.
LEMMA EmittingKeepsIInv == ASSUME IInv, NEW n \in Nodes, emitDue(n) PROVE IInv'
  <1> DEFINE e == [flag |-> sched[n].flag, plan |-> sched[n].plan, by |-> n,
                   passed |-> sched[n].at # Never /\ sched[n].at <= now]
  <1> USE LifecycleAssumption DEF IInv
  <1>1. Emitting(n) /\ due' = due \cup {e}
    BY DEF emitDue, Emitting
  <1>2. e \in DueEvent /\ e.flag = sched[n].flag /\ e.plan = sched[n].plan
    BY <1>1, SchedulerFields DEF DueEvent
  <1>3. /\ sched'[n] \in SchedRec /\ ~Emitting(n)'
        /\ \A m \in Nodes \ {n} : sched'[m] = sched[m] /\ (Emitting(m)' <=> Emitting(m))
    BY SchedulerFields, MarkRestIsIdle DEF emitDue, Typed, Emitting
  <1> HIDE DEF e
  <1>4. sched' \in [Nodes -> SchedRec]
    BY SchedulerFields, MarkRestIsIdle DEF emitDue, Typed
  <1>5. Typed'
    BY <1>1, <1>2, <1>4 DEF emitDue, Typed
  <1>6. ArchiveInv'
    BY DEF emitDue, ArchiveInv, Archived, Rows
  <1>7. OnceInv'
    <2>1. Served(e.flag, e.plan) /\ \A d \in due : ~(d.flag = e.flag /\ d.plan = e.plan)
      BY <1>1, <1>2 DEF OnceInv
    <2>2. DueAtMostOnce'
      BY <1>1, <2>1 DEF OnceInv, DueAtMostOnce
    <2>3. \A m \in Nodes : Emitting(m)' => m # n /\ Emitting(m) /\ sched'[m] = sched[m]
      BY <1>3
    <2>4. \A m \in Nodes : Emitting(m)' => ~(e.flag = sched'[m].flag /\ e.plan = sched'[m].plan)
      BY <1>1, <1>2, <2>3 DEF OnceInv
    <2>5. \A g, p : Served(g, p)' <=> Served(g, p)
      BY DEF emitDue, Served, Rows
    <2>6. Rows' = Rows /\ row' = row /\ used' = used
      BY DEF emitDue, Rows
    <2>7. \A m \in Nodes : Emitting(m)' => Served(sched[m].flag, sched[m].plan)'
      BY <2>3, <2>5 DEF OnceInv
    <2>8. \A d \in due' : Served(d.flag, d.plan)'
      BY <1>1, <2>1, <2>5 DEF OnceInv
    <2>9. \A l, m \in Nodes :
            Emitting(l)' /\ Emitting(m)' /\ sched'[l].flag = sched'[m].flag
              /\ sched'[l].plan = sched'[m].plan => l = m
      BY <2>3 DEF OnceInv
    <2>10. \A m \in Nodes, d \in due' :
             Emitting(m)' => ~(d.flag = sched'[m].flag /\ d.plan = sched'[m].plan)
      BY <1>1, <2>3, <2>4 DEF OnceInv
    <2> QED
      BY <2>2, <2>6, <2>7, <2>8, <2>9, <2>10 DEF OnceInv, DueAtMostOnce
  <1> QED
    BY <1>5, <1>6, <1>7

LEMMA SchedulerKeepsIInv ==
    ASSUME IInv, NEW n \in Nodes, Scheduler(n) \/ RestartScheduler(n)
    PROVE  IInv'
  <1>0. Typed /\ DueFlags \subseteq Flags
    BY DEF IInv, DueFlags, Rows
  <1>1. CASE ListDue(n)
    <2>1. sched' \in [Nodes -> SchedRec]
      BY <1>0, <1>1 DEF ListDue, Typed, SchedRec
    <2>2. \A m \in Nodes : Emitting(m)' => sched'[m] = sched[m]
      BY <1>0, <1>1 DEF ListDue, Typed, Emitting
    <2> QED
      BY <1>0, <1>1, <2>1, <2>2, QuietStep DEF ListDue, Typed
  <1>2. CASE MarkFired(n)
    <2>1. PICK f \in sched[n].todo :
             LET rest == sched[n].todo \ {f} IN
             \/ /\ SqlMarkFired(f)
                /\ sched' = [sched EXCEPT ![n] = [pc |-> "emit", todo |-> rest, flag |-> f,
                                                  plan |-> row[f].plan, at |-> row[f].removalAt]]
             \/ /\ ~Markable(f)
                /\ sched' = [sched EXCEPT ![n] = MarkRest(rest)]
                /\ UNCHANGED row
      BY <1>2 DEF MarkFired
    <2>2. CASE SqlMarkFired(f) /\ sched' = [sched EXCEPT ![n] =
                 [pc |-> "emit", todo |-> sched[n].todo \ {f}, flag |-> f,
                  plan |-> row[f].plan, at |-> row[f].removalAt]]
      BY <1>2, <2>2, MarkingKeepsIInv DEF MarkFired
    <2>3. CASE UNCHANGED row /\ sched' = [sched EXCEPT ![n] = MarkRest(sched[n].todo \ {f})]
      <3>1. MarkRest(sched[n].todo \ {f}) \in SchedRec /\ MarkRest(sched[n].todo \ {f}).pc # "emit"
        BY <1>0, SchedulerFields, MarkRestIsIdle
      <3>2. sched' \in [Nodes -> SchedRec]
        BY <1>0, <2>3, <3>1 DEF Typed
      <3>3. \A m \in Nodes : Emitting(m)' => sched'[m] = sched[m]
        BY <1>0, <2>3, <3>1 DEF Typed, Emitting
      <3> QED
        BY <1>0, <1>2, <2>3, <3>2, <3>3, QuietStep DEF MarkFired, Typed
    <2> QED
      BY <2>1, <2>2, <2>3
  <1>3. CASE emitDue(n)
    BY <1>3, EmittingKeepsIInv
  <1>4. CASE RestartScheduler(n)
    <2>1. sched' \in [Nodes -> SchedRec]
      BY <1>0, <1>4 DEF RestartScheduler, Typed, SchedRec, Resting
    <2>2. \A m \in Nodes : Emitting(m)' => sched'[m] = sched[m]
      BY <1>0, <1>4 DEF RestartScheduler, Typed, Emitting, Resting
    <2> QED
      BY <1>0, <1>4, <2>1, <2>2, QuietStep DEF RestartScheduler, Typed
  <1> QED
    BY <1>1, <1>2, <1>3, <1>4 DEF Scheduler

\* A deletion by the sweeper takes the row of one archived flag and nothing else.
LEMMA DeletionKeepsIInv ==
    ASSUME IInv, NEW f, SqlHardDelete(f), sweep' \in [Sweepers -> SweepRec],
           UNCHANGED <<now, sched, due, audit, used, active>>
    PROVE  IInv'
  <1> USE LifecycleAssumption DEF IInv
  <1>1. f \in Flags /\ f \in Rows /\ row' = [row EXCEPT ![f] = Gone]
    BY DEF SqlHardDelete, Deletable, Rows
  <1>2. /\ row' \in [Flags -> FlagRow \cup {Gone}] /\ row'[f] = Gone
        /\ \A g \in Flags \ {f} : row'[g] = row[g]
    BY <1>1, RowsTyped
  <1>3. Typed'
    BY <1>2 DEF Typed
  <1>4. OnceInv'
    BY <1>2, PlansStayOver DEF Typed, Rows
  <1>5. ArchiveInv'
    BY <1>2 DEF ArchiveInv, Archived, Rows
  <1> QED
    BY <1>3, <1>4, <1>5

LEMMA SweeperKeepsIInv ==
    ASSUME IInv, NEW n \in Sweepers, Sweeper(n) \/ RestartSweeper(n)
    PROVE  IInv'
  <1>0. Typed /\ sweep[n].todo \subseteq Flags /\ Expired \subseteq Flags
    BY DEF IInv, Typed, SweepRec, Expired, Rows
  <1>1. CASE ListExpired(n)
    <2>1. sweep' \in [Sweepers -> SweepRec]
      BY <1>0, <1>1 DEF ListExpired, Batches, Typed, SweepRec
    <2> QED
      BY <1>0, <1>1, <2>1, QuietStep DEF ListExpired, Typed
  <1>2. CASE HardDelete(n)
    <2>1. PICK f \in sweep[n].todo :
             LET rest == sweep[n].todo \ {f}
                 after == IF rest = {} THEN Resting ELSE [pc |-> "delete", todo |-> rest] IN
             \/ /\ SqlHardDelete(f)
                /\ sweep' = [sweep EXCEPT ![n] = [pc |-> "audit", todo |-> rest, flag |-> f]]
             \/ /\ ~Deletable(f)
                /\ sweep' = [sweep EXCEPT ![n] = after]
                /\ UNCHANGED row
      BY <1>2 DEF HardDelete
    <2>2. sweep' \in [Sweepers -> SweepRec]
      BY <1>0, <2>1 DEF Typed, SweepRec, Resting
    <2>3. CASE SqlHardDelete(f)
      BY <1>2, <2>2, <2>3, DeletionKeepsIInv DEF HardDelete
    <2>4. CASE UNCHANGED row
      BY <1>0, <1>2, <2>2, <2>4, QuietStep DEF HardDelete, Typed
    <2> QED
      BY <2>1, <2>3, <2>4
  <1>3. CASE AuditDeletion(n)
    <2>1. sweep[n].flag \in Flags
      BY <1>0, <1>3 DEF AuditDeletion, Typed, SweepRec
    <2>2. sweep' \in [Sweepers -> SweepRec]
      BY <1>0, <1>3 DEF AuditDeletion, Typed, SweepRec, Resting
    <2> QED
      BY <1>0, <1>3, <2>1, <2>2, QuietStep DEF AuditDeletion, Typed
  <1>4. CASE RestartSweeper(n)
    <2>1. sweep' \in [Sweepers -> SweepRec]
      BY <1>0, <1>4 DEF RestartSweeper, Typed, SweepRec, Resting
    <2> QED
      BY <1>0, <1>4, <2>1, QuietStep DEF RestartSweeper, Typed
  <1> QED
    BY <1>1, <1>2, <1>3, <1>4 DEF Sweeper

LEMMA NextKeepsIInv == ASSUME IInv, [Next]_vars PROVE IInv'
  <1>0. now \in 0 .. MaxTime /\ MaxTime \in Nat /\ Typed
    BY LifecycleAssumption DEF IInv, Typed
  <1>1. CASE Tick
    <2>1. now' \in 0 .. MaxTime
      BY <1>0, <1>1 DEF Tick
    <2> QED
      BY <1>0, <1>1, <2>1, QuietStep DEF Tick, Typed
  <1>2. CASE UNCHANGED vars
    BY <1>0, <1>2, QuietStep DEF vars, Typed
  <1> QED
    BY <1>1, <1>2, UserKeepsIInv, SchedulerKeepsIInv, SweeperKeepsIInv DEF Next

LEMMA LifecycleKeepsIInv == IInv /\ [LifecycleStep(Next)]_allVars => IInv' /\ [Next]_vars
  BY NextKeepsIInv DEF LifecycleStep, allVars

LEMMA SpecKeepsIInv == LifecycleSpec => []IInv
  BY InitIInv, LifecycleKeepsIInv, PTL DEF LifecycleSpec, LifecycleInit

-----------------------------------------------------------------------------
(* Theorems.                                                                *)

LEMMA TypedTypeOK == Typed => TypeOK
  BY SchedulerFields DEF Typed, TypeOK, SweepRec

\* FiresOnce: with any number of schedulers listing, marking, emitting and
\* restarting among the requests of users, a schedule of a flag sends at most one
\* due event (MarkScheduledRemovalFired marks only a row that is not marked, and
\* a new date is a new schedule).
THEOREM FiresOnceAlways == LifecycleSpec => []FiresOnce
  <1>1. IInv => FiresOnce
    BY TypedTypeOK DEF IInv, OnceInv, FiresOnce
  <1> QED
    BY <1>1, SpecKeepsIInv, PTL

\* A request other than a deletion leaves a row where there was one.
LEMMA RequestLeavesARow ==
    ASSUME IInv, NEW f \in Flags, User(f), ~hardDeleteFlag(f)
    PROVE  \E r \in FlagRow : row' = [row EXCEPT ![f] = r]
  <1> DEFINE old == row[f]
  <1>0. Typed /\ ArchiveInv /\ now \in Times /\ Never \in Times /\ Retention \in Nat
    BY LifecycleAssumption DEF IInv, Typed, Times
  <1>1. f \in Rows /\ old \in FlagRow
    BY <1>0, RowFields
       DEF User, archiveFlag, UnarchiveFlag, queueFlagDeletion, cancelFlagDeletion, restoreFlag,
           scheduleRemoval, cancelScheduledRemoval, SqlArchive, SqlUnarchive, SqlQueueDeletion,
           SqlClearDeleteAfter, SqlRestore, SqlSetRemoval
  <1>2. CASE archiveFlag(f) \/ UnarchiveFlag(f) \/ cancelFlagDeletion(f) \/ restoreFlag(f)
    <2>1. /\ [old EXCEPT !.archivedAt = now] \in FlagRow
          /\ [old EXCEPT !.archivedAt = Never] \in FlagRow
          /\ [old EXCEPT !.deleteAfter = Never] \in FlagRow
          /\ [old EXCEPT !.archivedAt = Never, !.deleteAfter = Never] \in FlagRow
      BY <1>0, <1>1 DEF FlagRow
    <2>2. \/ row' = [row EXCEPT ![f] = [old EXCEPT !.archivedAt = now]]
          \/ row' = [row EXCEPT ![f] = [old EXCEPT !.archivedAt = Never]]
          \/ row' = [row EXCEPT ![f] = [old EXCEPT !.deleteAfter = Never]]
          \/ row' = [row EXCEPT ![f] = [old EXCEPT !.archivedAt = Never, !.deleteAfter = Never]]
      BY <1>2 DEF archiveFlag, UnarchiveFlag, cancelFlagDeletion, restoreFlag,
                  SqlArchive, SqlUnarchive, SqlClearDeleteAfter, SqlRestore
    <2> QED
      BY <2>1, <2>2
  <1>3. CASE queueFlagDeletion(f)
    <2>1. Archived(f)
          /\ row' = [row EXCEPT ![f] = [old EXCEPT !.deleteAfter = old.archivedAt + Retention]]
      BY <1>3 DEF queueFlagDeletion, SqlQueueDeletion
    <2>2. old.archivedAt \in Times /\ old.archivedAt # Never /\ old.archivedAt <= MaxTime
      BY <1>0, <1>1, <2>1, RowFields DEF ArchiveInv, Archived
    <2>3. old.archivedAt + Retention \in Times
      BY <1>0, <2>2, LifecycleAssumption DEF Times
    <2>4. [old EXCEPT !.deleteAfter = old.archivedAt + Retention] \in FlagRow
      BY <1>1, <2>3 DEF FlagRow
    <2> QED
      BY <2>1, <2>4
  <1>4. CASE scheduleRemoval(f) \/ cancelScheduledRemoval(f)
    <2>1. PICK t \in Times : SqlSetRemoval(f, t)
      <3>1. \A t \in now + 1 .. MaxTime : t \in Times
        BY <1>0, LifecycleAssumption DEF Times, IInv, Typed
      <3>2. scheduleRemoval(f) => \E t \in now + 1 .. MaxTime : SqlSetRemoval(f, t)
        BY DEF scheduleRemoval
      <3>3. cancelScheduledRemoval(f) => SqlSetRemoval(f, Never)
        BY DEF cancelScheduledRemoval
      <3> QED
        BY <1>0, <1>4, <3>1, <3>2, <3>3
    <2>2. used' \in 0 .. MaxRequests
      BY <1>0, <1>4, LifecycleAssumption DEF scheduleRemoval, cancelScheduledRemoval, Request, Typed
    <2>3. [old EXCEPT !.removalAt = t, !.fired = FALSE, !.plan = used'] \in FlagRow
      BY <1>1, <2>2 DEF FlagRow
    <2> QED
      BY <2>1, <2>3 DEF SqlSetRemoval
  <1> QED
    BY <1>2, <1>3, <1>4 DEF User

\* Only DELETE removes a row.
LEMMA OnlyDeletionRemoves ==
    ASSUME IInv, [Next]_vars, NEW f \in Rows, row'[f] = Gone
    PROVE  SqlHardDelete(f)
  <1>1. Typed /\ f \in Flags /\ row[f] \in FlagRow /\ Gone \notin FlagRow /\ row[f] # Gone
    BY RowFields, LifecycleAssumption DEF IInv, Rows
  <1>2. row' # row
    BY <1>1
  <1>3. ASSUME NEW g \in Flags, NEW r \in FlagRow, row' = [row EXCEPT ![g] = r]
        PROVE  FALSE
    BY <1>1, <1>3 DEF Typed
  <1>4. ASSUME NEW g \in Flags, SqlHardDelete(g)
        PROVE  g = f
    BY <1>1, <1>4 DEF SqlHardDelete, Typed
  <1>5. ASSUME NEW g \in Flags, User(g)
        PROVE  SqlHardDelete(f)
    <2>1. hardDeleteFlag(g)
      BY <1>3, <1>5, RequestLeavesARow
    <2> QED
      BY <1>4, <2>1 DEF hardDeleteFlag
  <1>6. ASSUME NEW n \in Nodes, Scheduler(n) \/ RestartScheduler(n)
        PROVE  FALSE
    <2>1. PICK g \in Flags : SqlMarkFired(g)
      BY <1>1, <1>2, <1>6, SchedulerFields
         DEF Scheduler, RestartScheduler, ListDue, MarkFired, emitDue
    <2>2. [row[g] EXCEPT !.fired = TRUE] \in FlagRow
      BY <1>1, <2>1, RowFields DEF SqlMarkFired, Markable, FlagRow
    <2> QED
      BY <1>3, <2>1, <2>2 DEF SqlMarkFired
  <1>7. ASSUME NEW n \in Sweepers, Sweeper(n) \/ RestartSweeper(n)
        PROVE  SqlHardDelete(f)
    <2>1. PICK g \in Flags : SqlHardDelete(g)
      BY <1>1, <1>2, <1>7
         DEF Sweeper, RestartSweeper, ListExpired, HardDelete, AuditDeletion,
             SqlHardDelete, Deletable, Rows
    <2> QED
      BY <1>4, <2>1
  <1> QED
    BY <1>2, <1>5, <1>6, <1>7 DEF Next, Tick, vars

\* RetentionHonoured: whatever archives, restores, queues, sweeps and restarts
\* come before, a flag's row goes only when the flag has been out of use without
\* a break for longer than the retention window (the WHERE clause of
\* HardDeleteFlag looks at archived_at, not at delete_after).
THEOREM RetentionAlwaysHonoured == LifecycleSpec => RetentionHonoured
  <1>1. ASSUME IInv, [Next]_vars
        PROVE  [\A f \in Flags : row[f] # Gone /\ row'[f] = Gone
               => now > active[f] + Retention]_vars
    <2>1. ASSUME NEW f \in Flags, row[f] # Gone, row'[f] = Gone
          PROVE  now > active[f] + Retention
      <3>1. f \in Rows /\ Typed /\ ArchiveInv
        BY <1>1, <2>1 DEF Rows, IInv
      <3>2. Archived(f) /\ row[f].archivedAt + Retention < now
        BY <1>1, <2>1, <3>1, OnlyDeletionRemoves DEF SqlHardDelete, Deletable
      <3>3. active[f] <= row[f].archivedAt
        BY <3>1, <3>2 DEF ArchiveInv
      <3>4. row[f].archivedAt \in Nat /\ active[f] \in Nat /\ now \in Nat /\ Retention \in Nat
        <4>1. row[f].archivedAt \in Times /\ row[f].archivedAt # Never
          BY <3>1, <3>2, RowFields DEF Archived
        <4> QED
          BY <3>1, <4>1, LifecycleAssumption DEF Times, Typed
      <3> QED
        BY <3>2, <3>3, <3>4
    <2> QED
      BY <2>1
  <1> QED
    BY <1>1, LifecycleKeepsIInv, SpecKeepsIInv, PTL DEF LifecycleSpec, RetentionHonoured

-----------------------------------------------------------------------------
(* Evaluations, writers and the cache.                                      *)

FlagRows == [archived : BOOLEAN, enabled : BOOLEAN]
DbRows == [archived : BOOLEAN, enabled : BOOLEAN, env : {None, "on", "off"}, rules : Eval!RuleTable,
           on : [Rules -> BOOLEAN], seg : Segments \cup {NoSegment}]
Entries(V) == [val : V, ver : Nat, late : BOOLEAN, age : 0 .. TTL - 1]
Caches == [flag : {None} \cup Entries(FlagRows), id : {None} \cup Entries(BOOLEAN),
           rules : {None} \cup Entries(Eval!RuleTable), seg : {None} \cup Entries(Segments)]
Flights == [flag : {None} \cup [val : FlagRows, ver : Nat],
            rules : {None} \cup [val : Eval!RuleTable, ver : Nat]]
WriterStates == {Eval!Idle} \cup [pc : {"idle", "getId", "delFlag", "delRules"}, ver : Nat]
                       \cup [pc : {"pre"}, rule : Rules, known : BOOLEAN]

\* What an evaluation has read so far.
LocalsTyped(l) ==
  /\ l.pc \in {"setFlag", "setId", "env"} => l.flag \in FlagRows
  /\ l.pc \in {"setRules", "states", "setSeg"} => l.rules \in Eval!RuleTable
  /\ l.pc \in {"setFlag", "setRules", "setSeg"} => l.read \in Nat
  /\ l.pc = "setSeg" => l.seg \in Segments \cup {NoSegment}
  /\ l.pc \in {"getRules", "rules", "setRules", "states"} =>
       l.lost \in [env : BOOLEAN, rules : {{}}]

EvalTyped ==
  /\ db \in DbRows /\ cache \in Caches /\ flight \in [Eval!Replicas -> Flights]
  /\ DOMAIN req = Requests /\ DOMAIN asked = Requests /\ \A q \in Requests : LocalsTyped(req[q])
  /\ wr \in [Writers -> WriterStates]
  /\ ver \in 0 .. MaxWrites /\ missed \in Nat /\ quiet \subseteq Requests

\* A copy of the rules that is as new as the table is the table.
RulesCopied(l) == l.pc = "setRules" => l.read <= ver /\ (l.read = ver => l.rules = db.rules)

CopiesHold ==
  /\ \A r \in Eval!Replicas : flight[r].rules # None =>
       flight[r].rules.ver <= ver /\ (flight[r].rules.ver = ver => flight[r].rules.val = db.rules)
  /\ \A q \in Requests : RulesCopied(req[q])
  /\ cache.rules # None => cache.rules.ver <= ver

\* The parts of Settled.
CacheCurrent(c) ==
  /\ c.flag # None => c.flag.val = Eval!FlagRow
  /\ c.rules # None => c.rules.val = db.rules
  /\ c.seg # None => c.seg.val = db.seg
FlightCurrent(f) == /\ f.flag # None => f.flag.val = Eval!FlagRow
                    /\ f.rules # None => f.rules.val = db.rules
LocalsCurrent(l) == /\ l.pc = "setFlag" => l.flag = Eval!FlagRow
                    /\ l.pc = "setRules" => l.rules = db.rules
                    /\ l.pc = "setSeg" => l.seg \in {db.seg, NoSegment}

\* What the database says of the environment, to someone who went on without lost.
Known(lost) == db.env # None /\ ~lost.env
EnabledHere(lost) == IF Known(lost) THEN db.env = "on" ELSE db.enabled
ValueHere(lost) == IF Known(lost) THEN "env" ELSE "default"

\* The segment, or none where no rule asks for it.
SegmentRead(l) ==
  \/ l.seg = db.seg
  \/ l.seg = NoSegment /\ \A i \in Rules : l.on[i] => l.rules[i].type # "segment"

\* What an undisturbed evaluation has read is what the database says.
Undisturbed(l, ctx) ==
  /\ l.pc \in {"setId", "env"} => l.flag = Eval!FlagRow
  /\ l.pc \in {"getRules", "rules", "setRules", "states", "setSeg"} =>
       ~db.archived /\ EnabledHere(l.lost) /\ l.value = ValueHere(l.lost)
  /\ l.pc \in {"states", "setSeg"} => l.rules = db.rules
  /\ l.pc = "setSeg" => l.on = Eval!Without(db.on, l.lost.rules) /\ SegmentRead(l)
  /\ l.pc = "done" => l.result = Eval!Reference(ctx, l.lost)

QuietHold == (quiet # {} => Eval!Settled) /\ \A q \in quiet : Undisturbed(req[q], asked[q])

EvalInv == EvalTyped /\ CopiesHold /\ Eval!StaleRulesAreExplained /\ QuietHold

-----------------------------------------------------------------------------
LEMMA EvalBegins == Eval!Init => EvalInv
  <1> SUFFICES ASSUME Eval!Init PROVE EvalInv
    OBVIOUS
  <1>1. db \in DbRows
    BY EvaluationAssumption DEF Eval!Init, DbRows, Eval!EvaluationConstants
  <1>2. EvalTyped
    BY <1>1, EvaluationAssumption
       DEF Eval!Init, EvalTyped, Eval!EvaluationConstants, Caches, Flights, WriterStates,
       LocalsTyped, Eval!Idle
  <1>3. CopiesHold
    BY DEF Eval!Init, CopiesHold, RulesCopied, Eval!Idle
  <1>4. Eval!StaleRulesAreExplained
    BY DEF Eval!Init, Eval!StaleRulesAreExplained
  <1>5. QuietHold
    BY DEF Eval!Init, QuietHold
  <1> QED
    BY <1>2, <1>3, <1>4, <1>5 DEF EvalInv

LEMMA WriteKeeps ==
  ASSUME EvalInv, NEW w \in Writers, NEW new \in DbRows, NEW next \in {"getId", "idle"},
         wr[w].pc \in {"idle", "pre"}, Eval!Write(w, new, next),
         missed' = missed \/ missed' = ver + 1,
         next = "idle" => missed' = ver + 1 \/ new.rules = db.rules
  PROVE  EvalInv'
  <1>0. EvalTyped /\ CopiesHold /\ Eval!StaleRulesAreExplained
    BY DEF EvalInv
  <1>1. MaxWrites \in Nat /\ ver \in Nat /\ ver' = ver + 1 /\ ver' \in 0 .. MaxWrites
    BY <1>0, EvaluationAssumption DEF EvalTyped, Eval!Write, Eval!EvaluationConstants
  <1>2. /\ UNCHANGED <<cache, flight, req, asked>> /\ db' = new /\ quiet' = {}
        /\ wr' = [wr EXCEPT ![w] = [pc |-> next, ver |-> ver + 1]]
    BY DEF Eval!Write
  <1>3. wr' \in [Writers -> WriterStates]
    <2>1. [pc |-> next, ver |-> ver + 1] \in WriterStates
      BY <1>1 DEF WriterStates
    <2> QED
      BY <1>0, <1>2, <2>1 DEF EvalTyped
  <1>4. EvalTyped'
    BY <1>0, <1>1, <1>2, <1>3 DEF EvalTyped, LocalsTyped
  <1>5. CopiesHold'
    <2>1. \A r \in Eval!Replicas : flight[r].rules # None => flight[r].rules.ver \in Nat
      BY <1>0 DEF EvalTyped, Flights
    <2>2. \A q \in Requests : req[q].pc = "setRules" => req[q].read \in Nat
      BY <1>0 DEF EvalTyped, LocalsTyped
    <2>3. cache.rules # None => cache.rules.ver \in Nat
      BY <1>0 DEF EvalTyped, Caches, Entries
    <2> QED
      BY <1>0, <1>1, <1>2, <2>1, <2>2, <2>3 DEF CopiesHold, RulesCopied
  <1>6. Eval!StaleRulesAreExplained'
    <2> SUFFICES ASSUME cache.rules # None, cache.rules.val # new.rules
                 PROVE  \/ cache.rules.late
                        \/ \E k \in Writers : /\ wr'[k].pc \in {"getId", "delFlag", "delRules"}
                                              /\ wr'[k].ver > cache.rules.ver
                        \/ missed' > cache.rules.ver
      BY <1>2 DEF Eval!StaleRulesAreExplained
    <2>0. cache.rules.ver \in Nat /\ cache.rules.ver <= ver
      BY <1>0 DEF EvalTyped, Caches, Entries, CopiesHold
    <2>1. CASE missed' = ver + 1
      BY <1>1, <2>0, <2>1
    <2>2. CASE missed' = missed /\ next = "getId"
      <3>1. wr'[w] = [pc |-> "getId", ver |-> ver + 1]
        BY <1>0, <1>2, <2>2 DEF EvalTyped
      <3>2. wr'[w].pc = "getId" /\ wr'[w].ver > cache.rules.ver
        BY <1>1, <2>0, <3>1
      <3> QED
        BY <3>2
    <2>3. CASE missed' = missed /\ new.rules = db.rules
      <3>1. \A k \in Writers : k # w => wr'[k] = wr[k]
        BY <1>0, <1>2 DEF EvalTyped
      <3> QED
        BY <1>0, <2>3, <3>1 DEF Eval!StaleRulesAreExplained
    <2> QED
      BY <2>1, <2>2, <2>3
  <1>7. QuietHold'
    BY <1>2 DEF QuietHold
  <1> QED
    BY <1>4, <1>5, <1>6, <1>7 DEF EvalInv

-----------------------------------------------------------------------------
(* Evaluations.                                                             *)

LEMMA SettledIs ==
  Eval!Settled <=> /\ CacheCurrent(cache) /\ \A r \in Eval!Replicas : FlightCurrent(flight[r])
              /\ \A q \in Requests : LocalsCurrent(req[q])
  BY DEF Eval!Settled, CacheCurrent, FlightCurrent, LocalsCurrent

\* A step of evaluations: whatever is new in an evaluation, a flight or the cache
\* was read from the database now or from something as good.
LEMMA EvaluationKeeps ==
  ASSUME EvalInv, UNCHANGED <<db, wr, ver, missed>>,
         DOMAIN req' = Requests, DOMAIN asked' = Requests, quiet' \subseteq Requests,
         cache' \in Caches, flight' \in [Eval!Replicas -> Flights],
         quiet' # {} => Eval!Settled /\ CacheCurrent(cache'),
         \/ cache'.rules = cache.rules
         \/ cache'.rules = None
         \/ cache'.rules.ver <= ver /\ (cache'.rules.val # db.rules => cache'.rules.late),
         \A r \in Eval!Replicas :
            \/ flight'[r] = flight[r]
            \/ /\ flight'[r].rules # None =>
                     /\ flight'[r].rules.ver <= ver
                     /\ flight'[r].rules.ver = ver => flight'[r].rules.val = db.rules
               /\ quiet' # {} => FlightCurrent(flight'[r]),
         \A q \in Requests :
            \/ req'[q] = req[q] /\ asked'[q] = asked[q] /\ (q \in quiet' => q \in quiet)
            \/ /\ LocalsTyped(req'[q]) /\ RulesCopied(req'[q])
               /\ quiet' # {} => LocalsCurrent(req'[q])
               /\ q \in quiet' => Undisturbed(req'[q], asked'[q])
  PROVE  EvalInv'
  <1>0. EvalTyped /\ CopiesHold /\ Eval!StaleRulesAreExplained /\ QuietHold
    BY DEF EvalInv
  <1>1. EvalTyped'
    BY <1>0 DEF EvalTyped, LocalsTyped
  <1>2. CopiesHold'
    <2>1. ASSUME NEW r \in Eval!Replicas, flight'[r].rules # None
          PROVE  /\ flight'[r].rules.ver <= ver
                 /\ flight'[r].rules.ver = ver => flight'[r].rules.val = db.rules
      BY <1>0, <2>1 DEF CopiesHold
    <2>2. ASSUME NEW q \in Requests PROVE RulesCopied(req'[q])
      BY <1>0 DEF CopiesHold
    <2>3. cache'.rules # None => cache'.rules.ver <= ver
      BY <1>0 DEF CopiesHold
    <2> QED
      BY <2>1, <2>2, <2>3 DEF CopiesHold, RulesCopied
  <1>3. Eval!StaleRulesAreExplained'
    BY <1>0 DEF Eval!StaleRulesAreExplained
  <1>4. QuietHold'
    <2>1. ASSUME quiet' # {} PROVE Eval!Settled'
      <3>1. Eval!Settled
        BY <2>1
      <3>2. \A r \in Eval!Replicas : FlightCurrent(flight'[r])
        BY <2>1, <3>1, SettledIs
      <3>3. \A q \in Requests : LocalsCurrent(req'[q])
        BY <2>1, <3>1, SettledIs
      <3>4. CacheCurrent(cache')
        BY <2>1
      <3> QED
        BY <3>2, <3>3, <3>4
           DEF Eval!Settled, CacheCurrent, FlightCurrent, LocalsCurrent, Eval!FlagRow
    <2>2. ASSUME NEW q \in quiet' PROVE Undisturbed(req'[q], asked'[q])
      BY <1>0, <2>2 DEF QuietHold
    <2> QED
      BY <2>1, <2>2 DEF QuietHold, Undisturbed, Eval!FlagRow, Known, EnabledHere,
         ValueHere, SegmentRead, Eval!Without, Eval!Reference
  <1> QED
    BY <1>1, <1>2, <1>3, <1>4 DEF EvalInv

\* A step of one evaluation that leaves cache and flights as good as they were.
LEMMA StepKeeps ==
  ASSUME EvalInv, NEW q \in Requests, NEW new, Eval!Step(q, new),
         UNCHANGED <<db, asked, wr, Eval!ghosts>>,
         cache' \in Caches, flight' \in [Eval!Replicas -> Flights],
         quiet # {} => CacheCurrent(cache'),
         \/ cache'.rules = cache.rules
         \/ cache'.rules = None
         \/ cache'.rules.ver <= ver /\ (cache'.rules.val # db.rules => cache'.rules.late),
         \A r \in Eval!Replicas :
            \/ flight'[r] = flight[r]
            \/ /\ flight'[r].rules # None =>
                     /\ flight'[r].rules.ver <= ver
                     /\ flight'[r].rules.ver = ver => flight'[r].rules.val = db.rules
               /\ quiet # {} => FlightCurrent(flight'[r]),
         LocalsTyped(new), RulesCopied(new),
         quiet # {} => LocalsCurrent(new),
         q \in quiet => Undisturbed(new, asked[q])
  PROVE  EvalInv'
  <1>1. EvalTyped /\ QuietHold
    BY DEF EvalInv
  <1>2. /\ UNCHANGED <<db, asked, wr>> /\ ver' = ver /\ missed' = missed /\ quiet' = quiet
        /\ req' = [req EXCEPT ![q] = new] /\ DOMAIN req' = Requests /\ DOMAIN asked' = Requests
        /\ quiet' \subseteq Requests
    BY <1>1 DEF Eval!Step, Eval!ghosts, EvalTyped
  <1>3. \A k \in Requests :
            \/ req'[k] = req[k] /\ asked'[k] = asked[k] /\ (k \in quiet' => k \in quiet)
            \/ /\ LocalsTyped(req'[k]) /\ RulesCopied(req'[k])
               /\ quiet' # {} => LocalsCurrent(req'[k])
               /\ k \in quiet' => Undisturbed(req'[k], asked'[k])
    <2>1. DOMAIN req = Requests /\ req'[q] = new /\ \A k \in Requests : k # q => req'[k] = req[k]
      BY <1>1, <1>2 DEF EvalTyped
    <2> QED
      BY <1>2, <2>1
  <1>4. quiet' # {} => Eval!Settled /\ CacheCurrent(cache')
    BY <1>1, <1>2 DEF QuietHold
  <1>5. \A r \in Eval!Replicas :
            \/ flight'[r] = flight[r]
            \/ /\ flight'[r].rules # None =>
                     /\ flight'[r].rules.ver <= ver
                     /\ flight'[r].rules.ver = ver => flight'[r].rules.val = db.rules
               /\ quiet' # {} => FlightCurrent(flight'[r])
    BY <1>2
  <1> QED
    BY <1>2, <1>3, <1>4, <1>5, EvaluationKeeps

\* One that leaves them alone.
LEMMA LocalStepKeeps ==
  ASSUME EvalInv, NEW q \in Requests, NEW new, Eval!Step(q, new),
         UNCHANGED <<db, cache, flight, asked, wr, Eval!ghosts>>,
         LocalsTyped(new), RulesCopied(new),
         quiet # {} => LocalsCurrent(new),
         q \in quiet => Undisturbed(new, asked[q])
  PROVE  EvalInv'
  <1>1. cache \in Caches /\ flight \in [Eval!Replicas -> Flights]
        /\ (quiet # {} => CacheCurrent(cache))
    BY SettledIs DEF EvalInv, EvalTyped, QuietHold
  <1> QED
    BY <1>1, StepKeeps

\* Typing of what a step has at hand.
LEMMA Facts ==
  ASSUME EvalInv
  PROVE  /\ db \in DbRows /\ cache \in Caches /\ flight \in [Eval!Replicas -> Flights]
         /\ Eval!FlagRow \in FlagRows /\ ver \in Nat /\ wr \in [Writers -> WriterStates]
         /\ DOMAIN req = Requests /\ DOMAIN asked = Requests
         /\ \A q \in Requests : LocalsTyped(req[q]) /\ RulesCopied(req[q])
         /\ \A q \in quiet : Undisturbed(req[q], asked[q])
         /\ quiet # {} => CacheCurrent(cache) /\ \A r \in Eval!Replicas : FlightCurrent(flight[r])
         /\ \A q \in Requests : quiet # {} => LocalsCurrent(req[q])
         /\ \A r \in Eval!Replicas : flight[r].rules # None =>
              flight[r].rules.ver <= ver
              /\ (flight[r].rules.ver = ver => flight[r].rules.val = db.rules)
  <1>1. EvalTyped /\ CopiesHold /\ QuietHold
    BY DEF EvalInv
  <1>2. Eval!FlagRow \in FlagRows
    BY <1>1 DEF EvalTyped, DbRows, Eval!FlagRow, FlagRows
  <1>3. ver \in Nat
    BY <1>1, EvaluationAssumption DEF EvalTyped, Eval!EvaluationConstants
  <1> QED
    BY <1>1, <1>2, <1>3, SettledIs DEF EvalTyped, CopiesHold, QuietHold

LEMMA SetFlagKeeps == ASSUME EvalInv, NEW q \in Requests, Eval!SetFlag(q) PROVE EvalInv'
  <1>1. PICK new : new = [pc |-> "setId", flag |-> req[q].flag]
    OBVIOUS
  <1>2. req[q].pc = "setFlag" /\ req[q].flag \in FlagRows /\ req[q].read \in Nat
    BY Facts DEF Eval!SetFlag, LocalsTyped
  <1>3. PICK e : e = Eval!Entry(req[q].flag, req[q].read, req[q].read < ver)
    OBVIOUS
  <1>4. e \in Entries(FlagRows) /\ e.val = req[q].flag
    BY <1>2, <1>3, Facts, EvaluationAssumption DEF Eval!Entry, Entries, Eval!EvaluationConstants
  <1>5. cache' = [cache EXCEPT !.flag = e]
    BY <1>3 DEF Eval!SetFlag
  <1>6. cache' \in Caches /\ cache'.flag = e /\ cache'.rules = cache.rules /\ cache'.seg = cache.seg
    BY <1>4, <1>5, Facts DEF Caches
  <1>a. quiet # {} => req[q].flag = Eval!FlagRow
    <2>1. quiet # {} => LocalsCurrent(req[q])
      BY Facts
    <2> QED
      BY <1>2, <2>1 DEF LocalsCurrent
  <1>7. quiet # {} => CacheCurrent(cache')
    BY <1>a, <1>4, <1>6, Facts DEF CacheCurrent
  <1>8. /\ LocalsTyped(new) /\ RulesCopied(new) /\ LocalsCurrent(new)
        /\ quiet # {} => Undisturbed(new, asked[q])
    BY <1>1, <1>2, <1>a DEF LocalsTyped, RulesCopied, LocalsCurrent, Undisturbed
  <1>9. Eval!Step(q, new) /\ UNCHANGED <<db, flight, asked, wr, Eval!ghosts>>
    BY <1>1 DEF Eval!SetFlag
  <1> QED
    BY <1>6, <1>7, <1>8, <1>9, Facts, StepKeeps

LEMMA SetFlagIdKeeps == ASSUME EvalInv, NEW q \in Requests, Eval!SetFlagId(q) PROVE EvalInv'
  <1>1. PICK new : new = [pc |-> "env", flag |-> req[q].flag]
    OBVIOUS
  <1>2. req[q].pc = "setId" /\ req[q].flag \in FlagRows
    BY Facts DEF Eval!SetFlagId, LocalsTyped
  <1>3. PICK e : e = Eval!Entry(TRUE, 0, FALSE)
    OBVIOUS
  <1>4. e \in Entries(BOOLEAN)
    BY <1>3, EvaluationAssumption DEF Eval!Entry, Entries, Eval!EvaluationConstants
  <1>5. cache' = [cache EXCEPT !.id = e]
    BY <1>3 DEF Eval!SetFlagId
  <1>6. /\ cache' \in Caches /\ cache'.flag = cache.flag /\ cache'.rules = cache.rules
        /\ cache'.seg = cache.seg
    BY <1>4, <1>5, Facts DEF Caches
  <1>7. quiet # {} => CacheCurrent(cache')
    BY <1>6, Facts DEF CacheCurrent
  <1>8. /\ LocalsTyped(new) /\ RulesCopied(new) /\ LocalsCurrent(new)
        /\ q \in quiet => Undisturbed(new, asked[q])
    BY <1>1, <1>2, Facts DEF LocalsTyped, RulesCopied, LocalsCurrent, Undisturbed
  <1>9. Eval!Step(q, new) /\ UNCHANGED <<db, flight, asked, wr, Eval!ghosts>>
    BY <1>1 DEF Eval!SetFlagId
  <1> QED
    BY <1>6, <1>7, <1>8, <1>9, Facts, StepKeeps

LEMMA CheckEnabledKeeps == ASSUME EvalInv, NEW q \in Requests, Eval!CheckEnabled(q) PROVE EvalInv'
  <1>0. req[q].pc = "env" /\ UNCHANGED <<db, cache, flight, asked, wr, Eval!ghosts>>
    BY DEF Eval!CheckEnabled
  <1>a. PICK fails \in BOOLEAN :
          LET known == db.env # None /\ ~fails
              enabled == IF known THEN db.env = "on" ELSE req[q].flag.enabled IN
          IF req[q].flag.archived \/ ~enabled
            THEN Eval!Finish(q, Eval!Off, [Eval!Nothing EXCEPT !.env = fails])
          ELSE Eval!Step(q, [pc |-> "getRules", value |-> IF known THEN "env" ELSE "default",
                             lost |-> [Eval!Nothing EXCEPT !.env = fails]])
    BY DEF Eval!CheckEnabled
  <1>b. PICK lost : lost = [Eval!Nothing EXCEPT !.env = fails]
    OBVIOUS
  <1>c. lost \in [env : BOOLEAN, rules : {{}}] /\ lost.env = fails
    BY <1>b DEF Eval!Nothing
  <1> DEFINE enabled == IF Known(lost) THEN db.env = "on" ELSE req[q].flag.enabled
  <1>1. q \in quiet => req[q].flag.enabled = db.enabled /\ req[q].flag.archived = db.archived
    BY <1>0, Facts DEF Undisturbed, Eval!FlagRow
  <1>2. CASE req[q].flag.archived \/ ~enabled
    <2>1. PICK new : new = [pc |-> "done", result |-> Eval!Off, lost |-> lost]
      OBVIOUS
    <2>2. Eval!Step(q, new)
      BY <1>2, <1>a, <1>b, <1>c, <2>1 DEF Eval!Finish, Known
    <2>3. q \in quiet => db.archived \/ ~EnabledHere(lost)
      BY <1>1, <1>2 DEF EnabledHere
    <2>a. q \in quiet => Eval!Reference(asked[q], lost) = Eval!Off
      BY <2>3 DEF Eval!Reference, EnabledHere, Known
    <2>4. /\ LocalsTyped(new) /\ RulesCopied(new) /\ LocalsCurrent(new)
          /\ q \in quiet => Undisturbed(new, asked[q])
      BY <2>1, <2>a DEF LocalsTyped, RulesCopied, LocalsCurrent, Undisturbed
    <2> QED
      BY <1>0, <2>2, <2>4, LocalStepKeeps
  <1>3. CASE ~(req[q].flag.archived \/ ~enabled)
    <2>1. PICK new : new = [pc |-> "getRules", value |-> ValueHere(lost), lost |-> lost]
      OBVIOUS
    <2>2. Eval!Step(q, new)
      BY <1>3, <1>a, <1>b, <1>c, <2>1 DEF Known, ValueHere
    <2>3. q \in quiet => ~db.archived /\ EnabledHere(lost)
      BY <1>1, <1>3 DEF EnabledHere
    <2>4. /\ LocalsTyped(new) /\ RulesCopied(new) /\ LocalsCurrent(new)
          /\ q \in quiet => Undisturbed(new, asked[q])
      BY <1>c, <2>1, <2>3 DEF LocalsTyped, RulesCopied, LocalsCurrent, Undisturbed
    <2> QED
      BY <1>0, <2>2, <2>4, LocalStepKeeps
  <1> QED
    BY <1>2, <1>3

\* A flight that has just begun reads the current row and the current rules.
LEMMA NewFlight ==
  ASSUME EvalInv, NEW r \in Eval!Replicas, NEW f \in {"flag", "rules"},
         flight' = IF flight[r][f] # None THEN flight
                   ELSE [flight EXCEPT ![r] = [@ EXCEPT ![f] =
                           [val |-> IF f = "flag" THEN Eval!FlagRow ELSE db.rules, ver |-> ver]]]
  PROVE  /\ flight' \in [Eval!Replicas -> Flights]
         /\ \A k \in Eval!Replicas :
              \/ flight'[k] = flight[k]
              \/ /\ flight'[k].rules # None =>
                       /\ flight'[k].rules.ver <= ver
                       /\ flight'[k].rules.ver = ver => flight'[k].rules.val = db.rules
                 /\ Eval!Settled => FlightCurrent(flight'[k])
  <1>0. flight \in [Eval!Replicas -> Flights] /\ Eval!FlagRow \in FlagRows /\ ver \in Nat
        /\ db.rules \in Eval!RuleTable
    BY Facts DEF DbRows
  <1>1. CASE flight[r][f] # None
    BY <1>0, <1>1
  <1>2. CASE flight[r][f] = None /\ f = "flag"
    <2>1. PICK new : new = [flight[r] EXCEPT !["flag"] = [val |-> Eval!FlagRow, ver |-> ver]]
      OBVIOUS
    <2>2. /\ new \in Flights /\ new.rules = flight[r].rules
          /\ new.flag.val = Eval!FlagRow
      BY <1>0, <2>1 DEF Flights
    <2>3. flight' = [flight EXCEPT ![r] = new]
      BY <1>0, <1>2, <2>1
    <2>4. flight[r].rules # None =>
            flight[r].rules.ver <= ver
            /\ (flight[r].rules.ver = ver => flight[r].rules.val = db.rules)
      BY Facts
    <2>5. Eval!Settled => FlightCurrent(new)
      BY <2>2, SettledIs DEF FlightCurrent
    <2>6. /\ flight' \in [Eval!Replicas -> Flights] /\ flight'[r] = new
          /\ \A k \in Eval!Replicas : k # r => flight'[k] = flight[k]
      BY <1>0, <2>2, <2>3
    <2>7. new.rules # None =>
            new.rules.ver <= ver /\ (new.rules.ver = ver => new.rules.val = db.rules)
      BY <1>0, <2>2, <2>4
    <2> QED
      BY <2>5, <2>6, <2>7
  <1>3. CASE flight[r][f] = None /\ f = "rules"
    <2>1. PICK new : new = [flight[r] EXCEPT !["rules"] = [val |-> db.rules, ver |-> ver]]
      OBVIOUS
    <2>2. /\ new \in Flights /\ new.flag = flight[r].flag
          /\ new.rules.val = db.rules /\ new.rules.ver = ver
      BY <1>0, <2>1 DEF Flights
    <2>3. flight' = [flight EXCEPT ![r] = new]
      BY <1>0, <1>3, <2>1
    <2>5. Eval!Settled => FlightCurrent(new)
      BY <2>2, SettledIs DEF FlightCurrent
    <2>6. /\ flight' \in [Eval!Replicas -> Flights] /\ flight'[r] = new
          /\ \A k \in Eval!Replicas : k # r => flight'[k] = flight[k]
      BY <1>0, <2>2, <2>3
    <2>7. new.rules # None =>
            new.rules.ver <= ver /\ (new.rules.ver = ver => new.rules.val = db.rules)
      BY <1>0, <2>2
    <2> QED
      BY <2>5, <2>6, <2>7
  <1> QED
    BY <1>1, <1>2, <1>3

LEMMA GetFlagKeeps == ASSUME EvalInv, NEW q \in Requests, Eval!GetFlag(q) PROVE EvalInv'
  <1>0. UNCHANGED <<db, cache, wr, ver, missed>>
    BY DEF Eval!GetFlag
  <1>1. EvalTyped /\ QuietHold /\ DOMAIN req = Requests /\ DOMAIN asked = Requests
        /\ Replica[q] \in Eval!Replicas
    BY DEF EvalInv, EvalTyped, Eval!Replicas
  <1>2. PICK c \in Contexts : asked' = [asked EXCEPT ![q] = c]
    BY DEF Eval!GetFlag
  <1>3. quiet' \subseteq Requests /\ (quiet' # {} => Eval!Settled)
        /\ \A k \in Requests : k # q /\ k \in quiet' => k \in quiet
    <2>1. CASE Eval!Settled
      BY <1>1, <2>1 DEF Eval!GetFlag, EvalTyped
    <2>2. CASE ~Eval!Settled
      BY <1>1, <2>2 DEF Eval!GetFlag, EvalTyped, QuietHold
    <2> QED
      BY <2>1, <2>2
  <1>4. PICK new :
          /\ Eval!Step(q, new)
          /\ \/ /\ cache.flag # None /\ new = [pc |-> "env", flag |-> cache.flag.val]
                /\ flight' = flight
             \/ /\ new = [pc |-> "flag"]
                /\ flight' = IF flight[Replica[q]].flag # None THEN flight
                             ELSE [flight EXCEPT ![Replica[q]] =
                                     [@ EXCEPT !.flag = [val |-> Eval!FlagRow, ver |-> ver]]]
    BY DEF Eval!GetFlag
  <1>5. LocalsTyped(new) /\ RulesCopied(new) /\ LocalsCurrent(new)
        /\ (Eval!Settled => Undisturbed(new, c))
    <2>1. CASE cache.flag # None /\ new = [pc |-> "env", flag |-> cache.flag.val]
      <3>1. cache.flag.val \in FlagRows
        BY <2>1, Facts DEF Caches, Entries
      <3>2. Eval!Settled => cache.flag.val = Eval!FlagRow
        BY <2>1, SettledIs DEF CacheCurrent
      <3> QED
        BY <2>1, <3>1, <3>2 DEF LocalsTyped, RulesCopied, LocalsCurrent, Undisturbed
    <2>2. CASE new = [pc |-> "flag"]
      BY <2>2 DEF LocalsTyped, RulesCopied, LocalsCurrent, Undisturbed
    <2> QED
      BY <1>4, <2>1, <2>2
  <1>6. /\ flight' \in [Eval!Replicas -> Flights]
        /\ \A k \in Eval!Replicas :
              \/ flight'[k] = flight[k]
              \/ /\ flight'[k].rules # None =>
                       /\ flight'[k].rules.ver <= ver
                       /\ flight'[k].rules.ver = ver => flight'[k].rules.val = db.rules
                 /\ Eval!Settled => FlightCurrent(flight'[k])
    <2>1. CASE flight' = flight
      BY <2>1, Facts
    <2>2. CASE flight' # flight
      <3>1. PICK f \in {"flag", "rules"} : f = "flag"
        OBVIOUS
      <3>2. flight' = IF flight[Replica[q]][f] # None THEN flight
                     ELSE [flight EXCEPT ![Replica[q]] = [@ EXCEPT ![f] =
                             [val |-> IF f = "flag" THEN Eval!FlagRow ELSE db.rules, ver |-> ver]]]
        BY <1>4, <2>2, <3>1
      <3> QED
        BY <1>1, <3>2, NewFlight
    <2> QED
      BY <2>1, <2>2
  <1>7. /\ DOMAIN req' = Requests /\ DOMAIN asked' = Requests
        /\ req'[q] = new /\ asked'[q] = c
        /\ \A k \in Requests \ {q} : req'[k] = req[k] /\ asked'[k] = asked[k]
    BY <1>1, <1>2, <1>4 DEF Eval!Step
  <1>8. \A k \in Requests :
            \/ req'[k] = req[k] /\ asked'[k] = asked[k] /\ (k \in quiet' => k \in quiet)
            \/ /\ LocalsTyped(req'[k]) /\ RulesCopied(req'[k])
               /\ quiet' # {} => LocalsCurrent(req'[k])
               /\ k \in quiet' => Undisturbed(req'[k], asked'[k])
    BY <1>3, <1>5, <1>7
  <1>9. cache' \in Caches /\ cache'.rules = cache.rules
        /\ (quiet' # {} => Eval!Settled /\ CacheCurrent(cache'))
    BY <1>0, <1>3, SettledIs, Facts
  <1>10. \A r \in Eval!Replicas :
            \/ flight'[r] = flight[r]
            \/ /\ flight'[r].rules # None =>
                     /\ flight'[r].rules.ver <= ver
                     /\ flight'[r].rules.ver = ver => flight'[r].rules.val = db.rules
               /\ quiet' # {} => FlightCurrent(flight'[r])
    BY <1>3, <1>6
  <1> QED
    BY <1>0, <1>3, <1>6, <1>7, <1>8, <1>9, <1>10, EvaluationKeeps

LEMMA GetRulesKeeps == ASSUME EvalInv, NEW q \in Requests, Eval!GetRules(q) PROVE EvalInv'
  <1>0. req[q].pc = "getRules" /\ UNCHANGED <<db, cache, asked, wr, Eval!ghosts>>
        /\ Replica[q] \in Eval!Replicas
    BY DEF Eval!GetRules, Eval!Replicas
  <1>1. CASE cache.rules # None
    <2>1. PICK new : new = [pc |-> "states", rules |-> cache.rules.val, value |-> req[q].value,
                            lost |-> req[q].lost]
      OBVIOUS
    <2>2. Eval!Step(q, new) /\ flight' = flight
      BY <1>1, <2>1 DEF Eval!GetRules
    <2>3. cache.rules.val \in Eval!RuleTable
      BY <1>1, Facts DEF Caches, Entries
    <2>4. q \in quiet => cache.rules.val = db.rules
      BY <1>1, Facts DEF CacheCurrent
    <2>5. /\ LocalsTyped(new) /\ RulesCopied(new) /\ LocalsCurrent(new)
          /\ q \in quiet => Undisturbed(new, asked[q])
      BY <1>0, <2>1, <2>3, <2>4, Facts DEF LocalsTyped, RulesCopied, LocalsCurrent, Undisturbed
    <2> QED
      BY <1>0, <2>2, <2>5, LocalStepKeeps
  <1>2. CASE cache.rules = None
    <2>1. PICK new : new = [pc |-> "rules", value |-> req[q].value, lost |-> req[q].lost]
      OBVIOUS
    <2>2. Eval!Step(q, new)
      BY <1>2, <2>1 DEF Eval!GetRules
    <2>3. PICK f \in {"flag", "rules"} : f = "rules"
      OBVIOUS
    <2>4. flight' = IF flight[Replica[q]][f] # None THEN flight
                     ELSE [flight EXCEPT ![Replica[q]] = [@ EXCEPT ![f] =
                             [val |-> IF f = "flag" THEN Eval!FlagRow ELSE db.rules, ver |-> ver]]]
      BY <1>2, <2>3 DEF Eval!GetRules
    <2>5. /\ LocalsTyped(new) /\ RulesCopied(new) /\ LocalsCurrent(new)
          /\ q \in quiet => Undisturbed(new, asked[q])
      BY <1>0, <2>1, Facts DEF LocalsTyped, RulesCopied, LocalsCurrent, Undisturbed
    <2>6. quiet # {} => Eval!Settled
      BY DEF EvalInv, QuietHold
    <2>7. /\ flight' \in [Eval!Replicas -> Flights]
          /\ \A k \in Eval!Replicas :
              \/ flight'[k] = flight[k]
              \/ /\ flight'[k].rules # None =>
                       /\ flight'[k].rules.ver <= ver
                       /\ flight'[k].rules.ver = ver => flight'[k].rules.val = db.rules
                 /\ quiet # {} => FlightCurrent(flight'[k])
      BY <1>0, <2>4, <2>6, NewFlight
    <2>8. cache' \in Caches /\ cache'.rules = cache.rules /\ (quiet # {} => CacheCurrent(cache'))
      BY <1>0, Facts
    <2> QED
      BY <1>0, <2>2, <2>5, <2>7, <2>8, StepKeeps
  <1> QED
    BY <1>1, <1>2

\* A database call returns to everyone who waits for it, or fails for them all.
LEMMA FlightEndKeeps ==
  ASSUME EvalInv, NEW r \in Eval!Replicas,
         \/ Eval!FlagFlightDone(r) \/ Eval!FlagFlightFails(r)
         \/ Eval!RulesFlightDone(r) \/ Eval!RulesFlightFails(r)
  PROVE  EvalInv'
  <1>0. /\ UNCHANGED <<db, cache, asked, wr, ver, missed>> /\ quiet' = quiet
        /\ DOMAIN req' = Requests /\ DOMAIN asked' = Requests /\ quiet' \subseteq Requests
    BY Facts DEF Eval!FlagFlightDone, Eval!RulesFlightDone, Eval!FlagFlightFails,
       Eval!RulesFlightFails, Eval!FlightFails, Eval!ghosts, EvalInv, EvalTyped
  <1>1. quiet # {} => Eval!Settled
    BY DEF EvalInv, QuietHold
  <1>2. PICK new : /\ flight' = [flight EXCEPT ![r] = new]
                   /\ new \in Flights
                   /\ new.flag = None \/ new.flag = flight[r].flag
                   /\ new.rules = None \/ new.rules = flight[r].rules
    <2>1. CASE Eval!FlagFlightDone(r) \/ Eval!FlagFlightFails(r)
      <3>1. PICK new : new = [flight[r] EXCEPT !.flag = None]
        OBVIOUS
      <3>2. new \in Flights /\ new.flag = None /\ new.rules = flight[r].rules
        BY <3>1, Facts DEF Flights
      <3>3. flight' = [flight EXCEPT ![r] = new]
        BY <2>1, <3>1 DEF Eval!FlagFlightDone, Eval!FlagFlightFails
      <3> QED
        BY <3>2, <3>3
    <2>2. CASE Eval!RulesFlightDone(r) \/ Eval!RulesFlightFails(r)
      <3>1. PICK new : new = [flight[r] EXCEPT !.rules = None]
        OBVIOUS
      <3>2. new \in Flights /\ new.rules = None /\ new.flag = flight[r].flag
        BY <3>1, Facts DEF Flights
      <3>3. flight' = [flight EXCEPT ![r] = new]
        BY <2>2, <3>1 DEF Eval!RulesFlightDone, Eval!RulesFlightFails
      <3> QED
        BY <3>2, <3>3
    <2> QED
      BY <2>1, <2>2
  <1>3. /\ flight' \in [Eval!Replicas -> Flights] /\ flight'[r] = new
        /\ \A k \in Eval!Replicas : k # r => flight'[k] = flight[k]
    BY <1>2, Facts
  <1>4. new.rules # None =>
          new.rules.ver <= ver /\ (new.rules.ver = ver => new.rules.val = db.rules)
    BY <1>2, Facts
  <1>5. quiet # {} => FlightCurrent(flight[r])
    BY <1>1, SettledIs
  <1>6. quiet # {} => FlightCurrent(new)
    BY <1>2, <1>5 DEF FlightCurrent
  <1>7. ASSUME NEW q \in Requests, req'[q] # req[q]
        PROVE  /\ LocalsTyped(req'[q]) /\ RulesCopied(req'[q])
               /\ quiet # {} => LocalsCurrent(req'[q])
               /\ q \in quiet => Undisturbed(req'[q], asked[q])
    <2>1. CASE Eval!FlagFlightDone(r)
      <3>1. /\ req'[q] = [pc |-> "setFlag", flag |-> flight[r].flag.val,
               read |-> flight[r].flag.ver]
            /\ flight[r].flag # None
        BY <1>7, <2>1 DEF Eval!FlagFlightDone
      <3>2. flight[r].flag.val \in FlagRows /\ flight[r].flag.ver \in Nat
        BY <3>1, Facts DEF Flights
      <3>3. quiet # {} => flight[r].flag.val = Eval!FlagRow
        BY <3>1, <1>5 DEF FlightCurrent
      <3>4. PICK l : l = req'[q]
        OBVIOUS
      <3>5. l.pc = "setFlag" /\ l.flag = flight[r].flag.val /\ l.read = flight[r].flag.ver
        BY <3>1, <3>4
      <3>6. LocalsTyped(l) /\ RulesCopied(l) /\ (quiet # {} => LocalsCurrent(l))
            /\ Undisturbed(l, asked[q])
        BY <3>2, <3>3, <3>5 DEF LocalsTyped, RulesCopied, LocalsCurrent, Undisturbed
      <3> QED
        BY <3>4, <3>6
    <2>2. CASE Eval!RulesFlightDone(r)
      <3>1. /\ req'[q] = [pc |-> "setRules", rules |-> flight[r].rules.val,
                          read |-> flight[r].rules.ver, value |-> req[q].value,
                          lost |-> req[q].lost]
            /\ flight[r].rules # None /\ req[q].pc = "rules"
        BY <1>7, <2>2 DEF Eval!RulesFlightDone
      <3>2. flight[r].rules.val \in Eval!RuleTable /\ flight[r].rules.ver \in Nat
        BY <3>1, Facts DEF Flights
      <3>3. quiet # {} => flight[r].rules.val = db.rules
        BY <3>1, <1>5 DEF FlightCurrent
      <3>4. flight[r].rules.ver <= ver
            /\ (flight[r].rules.ver = ver => flight[r].rules.val = db.rules)
        BY <3>1, Facts
      <3>5. PICK l : l = req'[q]
        OBVIOUS
      <3>6. /\ l.pc = "setRules" /\ l.rules = flight[r].rules.val
            /\ l.read = flight[r].rules.ver /\ l.value = req[q].value /\ l.lost = req[q].lost
        BY <3>1, <3>5
      <3>7. LocalsTyped(l) /\ RulesCopied(l) /\ (quiet # {} => LocalsCurrent(l))
        BY <3>1, <3>2, <3>3, <3>4, <3>6, Facts DEF LocalsTyped, RulesCopied, LocalsCurrent
      <3>8. q \in quiet => Undisturbed(req[q], asked[q])
        BY Facts
      <3>9. q \in quiet => Undisturbed(l, asked[q])
        BY <3>1, <3>6, <3>8 DEF Undisturbed
      <3> QED
        BY <3>5, <3>7, <3>9
    <2>3. CASE Eval!FlagFlightFails(r) \/ Eval!RulesFlightFails(r)
      <3>1. req'[q] = Eval!Idle
        BY <1>7, <2>3 DEF Eval!FlagFlightFails, Eval!RulesFlightFails, Eval!FlightFails
      <3> QED
        BY <3>1 DEF Eval!Idle, LocalsTyped, RulesCopied, LocalsCurrent, Undisturbed
    <2> QED
      BY <2>1, <2>2, <2>3
  <1>8. \A q \in Requests :
            \/ req'[q] = req[q] /\ asked'[q] = asked[q] /\ (q \in quiet' => q \in quiet)
            \/ /\ LocalsTyped(req'[q]) /\ RulesCopied(req'[q])
               /\ quiet' # {} => LocalsCurrent(req'[q])
               /\ q \in quiet' => Undisturbed(req'[q], asked'[q])
    BY <1>0, <1>7
  <1>9. \A k \in Eval!Replicas :
            \/ flight'[k] = flight[k]
            \/ /\ flight'[k].rules # None =>
                     /\ flight'[k].rules.ver <= ver
                     /\ flight'[k].rules.ver = ver => flight'[k].rules.val = db.rules
               /\ quiet' # {} => FlightCurrent(flight'[k])
    BY <1>0, <1>3, <1>4, <1>6
  <1>10. cache' \in Caches /\ cache'.rules = cache.rules
         /\ (quiet' # {} => Eval!Settled /\ CacheCurrent(cache'))
    BY <1>0, <1>1, SettledIs, Facts
  <1> QED
    BY <1>0, <1>3, <1>8, <1>9, <1>10, EvaluationKeeps

LEMMA SetRulesKeeps == ASSUME EvalInv, NEW q \in Requests, Eval!SetRules(q) PROVE EvalInv'
  <1>0. req[q].pc = "setRules" /\ UNCHANGED <<db, flight, asked, wr, Eval!ghosts>>
    BY DEF Eval!SetRules
  <1>1. /\ req[q].rules \in Eval!RuleTable /\ req[q].read \in Nat /\ req[q].read <= ver
        /\ req[q].read = ver => req[q].rules = db.rules
    BY <1>0, Facts DEF LocalsTyped, RulesCopied
  <1>2. quiet # {} => req[q].rules = db.rules
    <2>1. quiet # {} => LocalsCurrent(req[q])
      BY Facts
    <2> QED
      BY <1>0, <2>1 DEF LocalsCurrent
  <1>3. PICK new : new = [pc |-> "states", rules |-> req[q].rules, value |-> req[q].value,
                          lost |-> req[q].lost]
    OBVIOUS
  <1>4. /\ LocalsTyped(new) /\ RulesCopied(new) /\ LocalsCurrent(new)
        /\ q \in quiet => Undisturbed(new, asked[q])
    BY <1>0, <1>1, <1>2, <1>3, Facts DEF LocalsTyped, RulesCopied, LocalsCurrent, Undisturbed
  <1>5. Eval!Step(q, new)
    BY <1>3 DEF Eval!SetRules
  <1>6. CASE cache' = [cache EXCEPT !.rules = None]
    <2>1. /\ cache' \in Caches /\ cache'.rules = None /\ cache'.flag = cache.flag
          /\ cache'.seg = cache.seg
      BY <1>6, Facts DEF Caches
    <2>2. quiet # {} => CacheCurrent(cache')
      BY <2>1, Facts DEF CacheCurrent
    <2> QED
      BY <1>0, <1>4, <1>5, <2>1, <2>2, Facts, StepKeeps
  <1>7. CASE cache' = [cache EXCEPT !.rules = Eval!Entry(req[q].rules, req[q].read,
        req[q].read < ver)]
    <2>1. PICK e : e = Eval!Entry(req[q].rules, req[q].read, req[q].read < ver)
      OBVIOUS
    <2>2. e \in Entries(Eval!RuleTable) /\ e.val = req[q].rules /\ e.ver = req[q].read
      BY <1>1, <2>1, Facts, EvaluationAssumption DEF Eval!Entry, Entries, Eval!EvaluationConstants
    <2>3. req[q].read < ver => e.late
      BY <2>1 DEF Eval!Entry
    <2>4. /\ cache' \in Caches /\ cache'.rules = e /\ cache'.flag = cache.flag
          /\ cache'.seg = cache.seg
      BY <1>7, <2>1, <2>2, Facts DEF Caches
    <2>5. quiet # {} => CacheCurrent(cache')
      BY <1>2, <2>2, <2>4, Facts DEF CacheCurrent
    <2>6. e.ver <= ver /\ (e.val # db.rules => req[q].read < ver)
      BY <1>1, <2>2, Facts
    <2>7. cache'.rules.ver <= ver /\ (cache'.rules.val # db.rules => cache'.rules.late)
      BY <2>3, <2>4, <2>6
    <2> QED
      BY <1>0, <1>4, <1>5, <2>4, <2>5, <2>7, Facts, StepKeeps
  <1> QED
    BY <1>6, <1>7 DEF Eval!SetRules

-----------------------------------------------------------------------------
(* The segment is loaded when it matters.                                   *)

LEMMA LeastOf == ASSUME NEW S \in SUBSET Nat, S # {} PROVE \E k \in S : \A j \in S : k <= j
  <1>1. \E k \in S : \A j \in S : ~(<<j, k>> \in OpToRel(<, Nat))
    BY WFMin, NatLessThanWellFounded
  <1>2. \E k \in S : \A j \in S : ~(j < k)
    BY <1>1 DEF OpToRel
  <1>3. \A k, j \in S : ~(j < k) => k <= j
    OBVIOUS
  <1> QED
    BY <1>2, <1>3

\* A segment rule needs its segment, any other does without.
LEMMA SegmentMatters ==
  ASSUME NEW rule, NEW ctx, NEW seg
  PROVE  /\ rule.type = "segment" => ~Eval!evaluateRule(rule, ctx, NoSegment)
         /\ rule.type # "segment" =>
              (Eval!evaluateRule(rule, ctx, NoSegment) <=> Eval!evaluateRule(rule, ctx, seg))
  BY DEF Eval!evaluateRule

\* Where no segment rule that is on comes before the rule that matches without one,
\* the segment makes no difference.
LEMMA SkippingTheSegment ==
  ASSUME NEW rules, NEW on, NEW ctx, NEW seg, NEW value,
         \A i \in Rules : on[i] /\ rules[i].type = "segment" =>
            LET first == Eval!Outcome(rules, on, ctx, NoSegment, value)
            IN  first.rule # 0 /\ ~(i < first.rule)
  PROVE  Eval!Outcome(rules, on, ctx, seg, value) = Eval!Outcome(rules, on, ctx, NoSegment, value)
  <1> DEFINE without == {i \in Rules : on[i] /\ rules[i] # Eval!NoRule
                                       /\ Eval!evaluateRule(rules[i], ctx, NoSegment)}
             with == {i \in Rules :
                        on[i] /\ rules[i] # Eval!NoRule /\ Eval!evaluateRule(rules[i], ctx, seg)}
  <1>0. Rules \subseteq Nat \ {0}
    BY EvaluationAssumption DEF Eval!EvaluationConstants
  <1>1. without \subseteq with
    BY SegmentMatters
  <1>2. \A i \in with \ without : on[i] /\ rules[i].type = "segment"
    BY SegmentMatters
  <1>3. CASE without = {}
    <2>1. Eval!Outcome(rules, on, ctx, NoSegment, value).rule = 0
      BY <1>3 DEF Eval!Outcome
    <2>2. with = {}
      BY <1>2, <1>3, <2>1
    <2> QED
      BY <1>3, <2>2 DEF Eval!Outcome
  <1>4. CASE without # {}
    <2>1. PICK k \in without : \A j \in without : k <= j
      <3>1. without \subseteq Nat
        BY <1>0
      <3> QED
        BY <1>4, <3>1, LeastOf
    <2>2. \A i \in without : (\A j \in without : i <= j) => i = k
      BY <1>0, <2>1
    <2>3. (CHOOSE i \in without : \A j \in without : i <= j) = k
      BY <2>1, <2>2
    <2>4. Eval!Outcome(rules, on, ctx, NoSegment, value) = [on |-> TRUE, reason |-> "rule_match",
          rule |-> k]
      BY <1>4, <2>3 DEF Eval!Outcome
    <2>5. \A j \in with : k <= j
      <3>1. \A j \in with \ without : ~(j < k)
        BY <1>2, <2>4
      <3>2. \A j \in with \ without : k <= j
        BY <1>0, <3>1
      <3> QED
        BY <2>1, <3>2
    <2>6. \A i \in with : (\A j \in with : i <= j) => i = k
      BY <1>0, <1>1, <2>1, <2>5
    <2>7. (CHOOSE i \in with : \A j \in with : i <= j) = k
      BY <1>1, <2>1, <2>5, <2>6
    <2>8. with # {}
      BY <1>1, <1>4
    <2> QED
      BY <2>4, <2>7, <2>8 DEF Eval!Outcome
  <1> QED
    BY <1>3, <1>4

LEMMA Finishes ==
  ASSUME EvalInv, NEW q \in Requests, NEW outcome, NEW lost, Eval!Finish(q, outcome, lost),
         UNCHANGED <<db, flight, asked, wr, Eval!ghosts>>, cache' \in Caches,
         cache'.rules = cache.rules, quiet # {} => CacheCurrent(cache'),
         q \in quiet => outcome = Eval!Reference(asked[q], lost)
  PROVE  EvalInv'
  <1>1. PICK new : new = [pc |-> "done", result |-> outcome, lost |-> lost]
    OBVIOUS
  <1>2. /\ LocalsTyped(new) /\ RulesCopied(new) /\ LocalsCurrent(new)
        /\ q \in quiet => Undisturbed(new, asked[q])
    BY <1>1 DEF LocalsTyped, RulesCopied, LocalsCurrent, Undisturbed
  <1>3. Eval!Step(q, new)
    BY <1>1 DEF Eval!Finish
  <1> QED
    BY <1>2, <1>3, Facts, StepKeeps

\* What an undisturbed evaluation finds that took seg for the segment and went on
\* without the states of some more rules.
LEMMA Answers ==
  ASSUME EvalInv, NEW q \in quiet, NEW seg, NEW lost, req[q].pc \in {"states", "setSeg"},
         lost.env = req[q].lost.env, NEW on, on = Eval!Without(db.on, lost.rules),
         Eval!Outcome(req[q].rules, on, asked[q], seg, req[q].value)
           = Eval!Outcome(req[q].rules, on, asked[q], db.seg, req[q].value)
  PROVE  Eval!Outcome(req[q].rules, on, asked[q], seg, req[q].value)
           = Eval!Reference(asked[q], lost)
  <1>1. /\ req[q].rules = db.rules /\ req[q].value = ValueHere(lost)
        /\ ~db.archived /\ EnabledHere(lost)
    BY Facts DEF Undisturbed, EnabledHere, ValueHere, Known
  <1> QED
    BY <1>1 DEF Eval!Reference, EnabledHere, ValueHere, Known

LEMMA NothingSkipped ==
  ASSUME EvalInv, NEW q \in Requests, req[q].pc = "states"
  PROVE  db.on = Eval!Without(db.on, req[q].lost.rules)
  <1>1. req[q].lost.rules = {} /\ db.on \in [Rules -> BOOLEAN]
    BY Facts DEF LocalsTyped, DbRows
  <1> QED
    BY <1>1 DEF Eval!Without

LEMMA ReadRuleStatesKeeps == ASSUME EvalInv, NEW q \in Requests, Eval!ReadRuleStates(q)
    PROVE EvalInv'
  <1> DEFINE first == Eval!Outcome(req[q].rules, db.on, asked[q], NoSegment, req[q].value)
             bySegment == {i \in Rules : db.on[i] /\ req[q].rules[i].type = "segment"}
             needs == \E i \in bySegment : first.rule # 0 => i < first.rule
  <1>0. req[q].pc = "states" /\ UNCHANGED <<db, cache, flight, asked, wr, Eval!ghosts>>
    BY DEF Eval!ReadRuleStates
  <1>1. CASE ~needs
    <2>1. Eval!Finish(q, first, req[q].lost)
      BY <1>1 DEF Eval!ReadRuleStates
    <2>2. Eval!Outcome(req[q].rules, db.on, asked[q], db.seg, req[q].value) = first
      BY <1>1, SkippingTheSegment
    <2>3. q \in quiet => first = Eval!Reference(asked[q], req[q].lost)
      BY <1>0, <2>2, NothingSkipped, Answers
    <2> QED
      BY <1>0, <2>1, <2>3, Facts, Finishes
  <1>2. CASE needs /\ cache.seg # None
    <2>1. PICK outcome : outcome = Eval!Outcome(req[q].rules, db.on, asked[q], cache.seg.val,
          req[q].value)
      OBVIOUS
    <2>2. Eval!Finish(q, outcome, req[q].lost)
      BY <1>2, <2>1 DEF Eval!ReadRuleStates
    <2>3. q \in quiet => outcome = Eval!Reference(asked[q], req[q].lost)
      <3> SUFFICES ASSUME q \in quiet PROVE outcome = Eval!Reference(asked[q], req[q].lost)
        OBVIOUS
      <3>1. cache.seg.val = db.seg
        BY <1>2, Facts DEF CacheCurrent
      <3> QED
        BY <1>0, <2>1, <3>1, NothingSkipped, Answers
    <2> QED
      BY <1>0, <2>2, <2>3, Facts, Finishes
  <1>3. CASE needs /\ cache.seg = None
    <2>a. PICK skipped \in SUBSET bySegment :
            Eval!Step(q, [pc |-> "setSeg", rules |-> req[q].rules,
                          on |-> Eval!Without(db.on, skipped),
                          seg |-> IF skipped = bySegment THEN NoSegment ELSE db.seg,
                          read |-> ver, value |-> req[q].value,
                          lost |-> [req[q].lost EXCEPT !.rules = skipped]])
      BY <1>3 DEF Eval!ReadRuleStates
    <2>b. PICK lost : lost = [req[q].lost EXCEPT !.rules = skipped]
      OBVIOUS
    <2>c. lost.env = req[q].lost.env /\ lost.rules = skipped
      BY <1>0, <2>b, Facts DEF LocalsTyped
    <2>1. PICK new : new = [pc |-> "setSeg", rules |-> req[q].rules,
                            on |-> Eval!Without(db.on, skipped),
                            seg |-> IF skipped = bySegment THEN NoSegment ELSE db.seg,
                            read |-> ver, value |-> req[q].value, lost |-> lost]
      OBVIOUS
    <2>2. Eval!Step(q, new)
      BY <2>a, <2>b, <2>1
    <2>3. LocalsTyped(new) /\ RulesCopied(new) /\ LocalsCurrent(new)
      BY <1>0, <2>1, Facts DEF LocalsTyped, RulesCopied, LocalsCurrent, DbRows
    <2>4. SegmentRead(new)
      BY <2>1 DEF SegmentRead, Eval!Without
    <2>5. q \in quiet => Undisturbed(new, asked[q])
      <3>1. q \in quiet => Undisturbed(req[q], asked[q])
        BY Facts
      <3> QED
        BY <1>0, <2>c, <2>1, <2>4, <3>1 DEF Undisturbed, EnabledHere, ValueHere, Known
    <2> QED
      BY <1>0, <2>2, <2>3, <2>5, LocalStepKeeps
  <1> QED
    BY <1>1, <1>2, <1>3

LEMMA RuleStatesFailKeeps == ASSUME EvalInv, NEW q \in Requests, Eval!RuleStatesFail(q)
    PROVE EvalInv'
  <1>0. req[q].pc = "states" /\ UNCHANGED <<db, cache, flight, asked, wr, Eval!ghosts>>
    BY DEF Eval!RuleStatesFail
  <1>1. PICK lost : lost = [req[q].lost EXCEPT !.rules = Rules]
    OBVIOUS
  <1>2. PICK on : on = Eval!Without(db.on, Rules)
    OBVIOUS
  <1>3. PICK outcome : outcome = Eval!Outcome(req[q].rules, on, asked[q], NoSegment, req[q].value)
    OBVIOUS
  <1>4. Eval!Finish(q, outcome, lost)
    BY <1>1, <1>2, <1>3 DEF Eval!RuleStatesFail
  <1>5. lost.env = req[q].lost.env /\ lost.rules = Rules
    BY <1>0, <1>1, Facts DEF LocalsTyped
  <1>6. \A i \in Rules : ~on[i]
    BY <1>2 DEF Eval!Without
  <1>7. outcome = Eval!Outcome(req[q].rules, on, asked[q], db.seg, req[q].value)
    BY <1>3, <1>6, SkippingTheSegment
  <1>8. q \in quiet => outcome = Eval!Reference(asked[q], lost)
    BY <1>0, <1>2, <1>3, <1>5, <1>7, Answers
  <1> QED
    BY <1>0, <1>4, <1>8, Facts, Finishes

LEMMA SetSegmentKeeps == ASSUME EvalInv, NEW q \in Requests, Eval!SetSegment(q) PROVE EvalInv'
  <1>0. req[q].pc = "setSeg" /\ UNCHANGED <<db, flight, asked, wr, Eval!ghosts>>
    BY DEF Eval!SetSegment
  <1>1. PICK outcome : outcome = Eval!Outcome(req[q].rules, req[q].on, asked[q], req[q].seg,
        req[q].value)
    OBVIOUS
  <1>2. Eval!Finish(q, outcome, req[q].lost)
    BY <1>1 DEF Eval!SetSegment
  <1>3. quiet # {} => req[q].seg \in {db.seg, NoSegment}
    <2>1. quiet # {} => LocalsCurrent(req[q])
      BY Facts
    <2> QED
      BY <1>0, <2>1 DEF LocalsCurrent
  <1>4. q \in quiet => outcome = Eval!Reference(asked[q], req[q].lost)
    <2> SUFFICES ASSUME q \in quiet PROVE outcome = Eval!Reference(asked[q], req[q].lost)
      OBVIOUS
    <2>1. req[q].on = Eval!Without(db.on, req[q].lost.rules) /\ SegmentRead(req[q])
      BY <1>0, Facts DEF Undisturbed
    <2>2. outcome = Eval!Outcome(req[q].rules, req[q].on, asked[q], db.seg, req[q].value)
      <3>1. CASE req[q].seg = db.seg
        BY <1>1, <3>1
      <3>2. CASE req[q].seg = NoSegment
                 /\ \A i \in Rules : req[q].on[i] => req[q].rules[i].type # "segment"
        BY <1>1, <3>2, SkippingTheSegment
      <3> QED
        BY <2>1, <3>1, <3>2 DEF SegmentRead
    <2> QED
      BY <1>0, <1>1, <2>1, <2>2, Answers
  <1>5. cache' \in Caches /\ cache'.rules = cache.rules /\ (quiet # {} => CacheCurrent(cache'))
    <2>1. CASE req[q].seg = NoSegment
      <3>1. cache' = cache
        BY <2>1 DEF Eval!SetSegment
      <3> QED
        BY <3>1, Facts
    <2>2. CASE req[q].seg # NoSegment
      <3>1. PICK e : e = Eval!Entry(req[q].seg, req[q].read, req[q].read < ver)
        OBVIOUS
      <3>2. req[q].seg \in Segments /\ req[q].read \in Nat
        BY <1>0, <2>2, Facts DEF LocalsTyped
      <3>3. e \in Entries(Segments) /\ e.val = req[q].seg
        BY <3>1, <3>2, Facts, EvaluationAssumption DEF Eval!Entry, Entries, Eval!EvaluationConstants
      <3>4. cache' = [cache EXCEPT !.seg = e]
        BY <2>2, <3>1 DEF Eval!SetSegment
      <3>5. /\ cache' \in Caches /\ cache'.rules = cache.rules /\ cache'.flag = cache.flag
            /\ cache'.seg = e
        BY <3>3, <3>4, Facts DEF Caches
      <3>6. quiet # {} => CacheCurrent(cache')
        BY <1>3, <2>2, <3>3, <3>5, Facts DEF CacheCurrent
      <3> QED
        BY <3>5, <3>6
    <2> QED
      BY <2>1, <2>2
  <1> QED
    BY <1>0, <1>2, <1>4, <1>5, Finishes

-----------------------------------------------------------------------------
(* Writers.                                                                 *)

\* The same entry, older, or none.
Keeps(old, new) ==
  \/ new = None
  \/ old # None /\ new.val = old.val /\ new.ver = old.ver /\ new.late = old.late

LEMMA InvalidationKeeps ==
  ASSUME EvalInv, UNCHANGED <<db, flight, req, asked, ver, quiet>>,
         cache' \in Caches, Keeps(cache.flag, cache'.flag), Keeps(cache.rules, cache'.rules),
         Keeps(cache.seg, cache'.seg),
         wr' \in [Writers -> WriterStates], missed' \in Nat, missed <= missed',
         cache'.rules = None \/
         \A w \in Writers : wr[w].pc \in {"getId", "delFlag", "delRules"} =>
            \/ wr'[w].pc \in {"getId", "delFlag", "delRules"} /\ wr'[w].ver = wr[w].ver
            \/ wr[w].ver <= missed'
  PROVE  EvalInv'
  <1>0. EvalTyped /\ CopiesHold /\ Eval!StaleRulesAreExplained /\ QuietHold
    BY DEF EvalInv
  <1>1. EvalTyped'
    BY <1>0 DEF EvalTyped, LocalsTyped
  <1>2. CopiesHold'
    BY <1>0 DEF CopiesHold, RulesCopied, Keeps
  <1>3. Eval!StaleRulesAreExplained'
    <2> SUFFICES ASSUME cache'.rules # None, cache'.rules.val # db.rules, ~cache'.rules.late
                 PROVE  \/ \E w \in Writers : /\ wr'[w].pc \in {"getId", "delFlag", "delRules"}
                                              /\ wr'[w].ver > cache'.rules.ver
                        \/ missed' > cache'.rules.ver
      BY DEF Eval!StaleRulesAreExplained
    <2>0. /\ cache.rules # None /\ cache'.rules.val = cache.rules.val
          /\ cache'.rules.ver = cache.rules.ver /\ cache'.rules.late = cache.rules.late
      BY DEF Keeps
    <2>1. cache.rules.ver \in Nat /\ missed \in Nat
      BY <1>0, <2>0 DEF EvalTyped, Caches, Entries
    <2>2. CASE missed > cache.rules.ver
      BY <2>0, <2>1, <2>2
    <2>3. ASSUME NEW w \in Writers, wr[w].pc \in {"getId", "delFlag", "delRules"},
                 wr[w].ver > cache.rules.ver
          PROVE  \/ \E k \in Writers : /\ wr'[k].pc \in {"getId", "delFlag", "delRules"}
                                       /\ wr'[k].ver > cache'.rules.ver
                 \/ missed' > cache'.rules.ver
      <3>1. wr[w].ver \in Nat
        BY <1>0, <2>3 DEF EvalTyped, WriterStates, Eval!Idle
      <3>2. CASE wr[w].ver <= missed'
        BY <2>0, <2>1, <2>3, <3>1, <3>2
      <3>3. CASE wr'[w].pc \in {"getId", "delFlag", "delRules"} /\ wr'[w].ver = wr[w].ver
        BY <2>0, <2>3, <3>3
      <3> QED
        BY <2>3, <3>2, <3>3
    <2>4. \/ missed > cache.rules.ver
          \/ \E w \in Writers : wr[w].pc \in {"getId", "delFlag", "delRules"}
             /\ wr[w].ver > cache.rules.ver
      BY <1>0, <2>0 DEF Eval!StaleRulesAreExplained
    <2> QED
      BY <2>2, <2>3, <2>4
  <1>4. QuietHold'
    <2>1. quiet # {} => CacheCurrent(cache')
      <3>1. quiet # {} => CacheCurrent(cache)
        BY Facts
      <3> QED
        BY <3>1 DEF CacheCurrent, Keeps
    <2>2. quiet # {} => Eval!Settled'
      BY <1>0, <2>1, SettledIs DEF QuietHold, Eval!Settled, CacheCurrent, Eval!FlagRow
    <2> QED
      BY <1>0, <2>2 DEF QuietHold, Undisturbed, Eval!FlagRow, Known, EnabledHere,
         ValueHere, SegmentRead, Eval!Without, Eval!Reference
  <1> QED
    BY <1>1, <1>2, <1>3, <1>4 DEF EvalInv

LEMMA Dropped ==
  ASSUME EvalInv, NEW w \in Writers
  PROVE  /\ missed \in Nat /\ cache \in Caches /\ wr[w] \in WriterStates
         /\ Keeps(cache.flag, cache.flag) /\ Keeps(cache.rules, cache.rules)
         /\ Keeps(cache.seg, cache.seg)
         /\ wr[w].pc \in {"getId", "delFlag", "delRules"} => wr[w].ver \in Nat
  BY DEF EvalInv, EvalTyped, Keeps, WriterStates, Eval!Idle

LEMMA WriterKeeps ==
  ASSUME EvalInv, NEW w \in Writers, NEW new \in WriterStates, wr' = [wr EXCEPT ![w] = new],
         UNCHANGED <<db, flight, req, asked, ver, quiet>>,
         cache' \in Caches, Keeps(cache.flag, cache'.flag), Keeps(cache.rules, cache'.rules),
         Keeps(cache.seg, cache'.seg), missed' \in Nat, missed <= missed',
         \/ cache'.rules = None
         \/ wr[w].pc \notin {"getId", "delFlag", "delRules"}
         \/ new.pc \in {"getId", "delFlag", "delRules"} /\ new.ver = wr[w].ver
         \/ wr[w].ver <= missed'
  PROVE  EvalInv'
  <1>1. /\ wr' \in [Writers -> WriterStates] /\ wr'[w] = new
        /\ \A k \in Writers : k # w => wr'[k] = wr[k]
    BY Facts
  <1>2. cache'.rules = None \/
        \A k \in Writers : wr[k].pc \in {"getId", "delFlag", "delRules"} =>
            \/ wr'[k].pc \in {"getId", "delFlag", "delRules"} /\ wr'[k].ver = wr[k].ver
            \/ wr[k].ver <= missed'
    BY <1>1
  <1> QED
    BY <1>1, <1>2, InvalidationKeeps

LEMMA OperateKeeps == ASSUME EvalInv, NEW w \in Writers, Eval!Operate(w) PROVE EvalInv'
  <1>0. /\ db \in DbRows /\ wr[w] \in WriterStates /\ missed \in Nat /\ missed <= missed
        /\ Eval!Idle \in WriterStates /\ Eval!Idle.pc = "idle" /\ cache \in Caches
        /\ Keeps(cache.flag, cache.flag) /\ Keeps(cache.rules, cache.rules)
        /\ Keeps(cache.seg, cache.seg)
    BY Facts, Dropped DEF WriterStates, Eval!Idle
  <1>1. CASE Eval!ToggleFlag(w)
    <2>1. PICK e \in BOOLEAN : Eval!Write(w, [db EXCEPT !.enabled = e], "getId")
      BY <1>1 DEF Eval!ToggleFlag
    <2>2. [db EXCEPT !.enabled = e] \in DbRows
      BY <1>0 DEF DbRows
    <2> QED
      BY <1>1, <2>1, <2>2, WriteKeeps DEF Eval!ToggleFlag
  <1>2. CASE Eval!ArchiveFlag(w)
    <2>1. [db EXCEPT !.archived = TRUE] \in DbRows
      BY <1>0 DEF DbRows
    <2> QED
      BY <1>2, <2>1, WriteKeeps DEF Eval!ArchiveFlag
  <1>3. CASE Eval!RestoreFlag(w)
    <2>1. [db EXCEPT !.archived = FALSE] \in DbRows
      BY <1>0 DEF DbRows
    <2> QED
      BY <1>3, <2>1, WriteKeeps DEF Eval!RestoreFlag
  <1>4. CASE Eval!RecordTestFailure(w)
    <2>1. PICK new : new = [db EXCEPT !.enabled = FALSE, !.env = IF @ = None THEN None ELSE "off"]
      OBVIOUS
    <2>2. new \in DbRows
      BY <1>0, <2>1 DEF DbRows
    <2>3. Eval!Write(w, new, "getId")
      BY <1>4, <2>1 DEF Eval!RecordTestFailure
    <2> QED
      BY <1>4, <2>2, <2>3, WriteKeeps DEF Eval!RecordTestFailure
  <1>5. CASE Eval!SetFlagEnvState(w)
    <2>1. PICK e \in {"on", "off"} : Eval!Write(w, [db EXCEPT !.env = e], "getId")
      BY <1>5 DEF Eval!SetFlagEnvState
    <2>2. [db EXCEPT !.env = e] \in DbRows
      BY <1>0 DEF DbRows
    <2> QED
      BY <1>5, <2>1, <2>2, WriteKeeps DEF Eval!SetFlagEnvState
  <1>6. CASE Eval!AddRule(w)
    <2>1. PICK i \in Rules, f \in Forms :
            Eval!Write(w, [db EXCEPT !.rules[i] = f, !.on[i] = FALSE], "getId")
      BY <1>6 DEF Eval!AddRule
    <2>2. PICK new : new = [db EXCEPT !.rules[i] = f, !.on[i] = FALSE]
      OBVIOUS
    <2>3. [db.rules EXCEPT ![i] = f] \in Eval!RuleTable
          /\ [db.on EXCEPT ![i] = FALSE] \in [Rules -> BOOLEAN]
      BY <1>0 DEF DbRows, Eval!RuleTable
    <2>4. new \in DbRows
      BY <1>0, <2>2, <2>3 DEF DbRows
    <2> QED
      BY <1>6, <2>1, <2>2, <2>4, WriteKeeps DEF Eval!AddRule
  <1>7. CASE Eval!UpdateRule(w)
    <2>1. PICK i \in Rules, f \in Forms : Eval!Write(w, [db EXCEPT !.rules[i] = f], "getId")
      BY <1>7 DEF Eval!UpdateRule
    <2>2. PICK new : new = [db EXCEPT !.rules[i] = f]
      OBVIOUS
    <2>3. [db.rules EXCEPT ![i] = f] \in Eval!RuleTable
      BY <1>0 DEF DbRows, Eval!RuleTable
    <2>4. new \in DbRows
      BY <1>0, <2>2, <2>3 DEF DbRows
    <2> QED
      BY <1>7, <2>1, <2>2, <2>4, WriteKeeps DEF Eval!UpdateRule
  <1>8. CASE Eval!FindRuleToDelete(w)
    <2>a. PICK i \in Rules : \E known \in {db.rules[i] # Eval!NoRule, FALSE} :
            wr' = [wr EXCEPT ![w] = [pc |-> "pre", rule |-> i, known |-> known]]
      BY <1>8 DEF Eval!FindRuleToDelete
    <2>1. PICK known \in {db.rules[i] # Eval!NoRule, FALSE} :
            wr' = [wr EXCEPT ![w] = [pc |-> "pre", rule |-> i, known |-> known]]
      BY <2>a
    <2>2. PICK new : new = [pc |-> "pre", rule |-> i, known |-> known]
      OBVIOUS
    <2>3. known \in BOOLEAN
      BY <2>1
    <2>4. new \in WriterStates
      BY <2>2, <2>3 DEF WriterStates
    <2>5. wr[w].pc = "idle" /\ wr' = [wr EXCEPT ![w] = new]
          /\ UNCHANGED <<db, cache, flight, req, asked, ver, missed, quiet>>
      BY <1>8, <2>1, <2>2 DEF Eval!FindRuleToDelete, Eval!ghosts
    <2> QED
      BY <1>0, <2>4, <2>5, WriterKeeps
  <1>9. CASE Eval!DeleteRule(w)
    <2>1. CASE Eval!NothingToDelete(w)
      <3>1. wr[w].pc = "pre" /\ wr' = [wr EXCEPT ![w] = Eval!Idle]
            /\ UNCHANGED <<db, cache, flight, req, asked, ver, missed, quiet>>
        BY <1>9, <2>1 DEF Eval!DeleteRule, Eval!NothingToDelete, Eval!ghosts
      <3> QED
        BY <1>0, <3>1, WriterKeeps
    <2>2. PICK i : i = wr[w].rule
      OBVIOUS
    <2>3. i \in Rules /\ wr[w].pc = "pre"
      BY <1>0, <1>9, <2>2 DEF Eval!DeleteRule, WriterStates, Eval!Idle
    <2>4. PICK new : new = Eval!WithoutRule(i)
      OBVIOUS
    <2>5. /\ [db.rules EXCEPT ![i] = Eval!NoRule] \in Eval!RuleTable
          /\ [db.on EXCEPT ![i] = FALSE] \in [Rules -> BOOLEAN]
      BY <1>0, <2>3 DEF DbRows, Eval!RuleTable
    <2>6. new \in DbRows
      BY <1>0, <2>4, <2>5 DEF Eval!WithoutRule, DbRows
    <2>7. CASE Eval!Write(w, Eval!WithoutRule(wr[w].rule), "getId") /\ missed' = missed
      BY <2>2, <2>3, <2>4, <2>6, <2>7, WriteKeeps
    <2>8. CASE Eval!Write(w, Eval!WithoutRule(wr[w].rule), "idle") /\ missed' = ver + 1
      BY <2>2, <2>3, <2>4, <2>6, <2>8, WriteKeeps
    <2> QED
      BY <1>9, <2>1, <2>7, <2>8 DEF Eval!DeleteRule
  <1>10. CASE Eval!SetRuleEnvironmentState(w)
    <2>1. PICK i \in Rules, e \in BOOLEAN : Eval!Write(w, [db EXCEPT !.on[i] = e], "getId")
      BY <1>10 DEF Eval!SetRuleEnvironmentState
    <2>2. PICK new : new = [db EXCEPT !.on[i] = e]
      OBVIOUS
    <2>3. [db.on EXCEPT ![i] = e] \in [Rules -> BOOLEAN]
      BY <1>0 DEF DbRows
    <2>4. new \in DbRows
      BY <1>0, <2>2, <2>3 DEF DbRows
    <2> QED
      BY <1>10, <2>1, <2>2, <2>4, WriteKeeps DEF Eval!SetRuleEnvironmentState
  <1>11. CASE Eval!WriteSegment(w)
    <2>1. PICK seg \in Segments \cup {NoSegment} : Eval!Write(w, [db EXCEPT !.seg = seg], "idle")
      BY <1>11 DEF Eval!WriteSegment
    <2>2. PICK new : new = [db EXCEPT !.seg = seg]
      OBVIOUS
    <2>3. new \in DbRows /\ new.rules = db.rules
      BY <1>0, <2>2 DEF DbRows
    <2> QED
      BY <1>11, <2>1, <2>2, <2>3, WriteKeeps DEF Eval!WriteSegment
  <1>12. CASE Eval!InvalidateGetId(w)
    <2>1. PICK pc \in {"delFlag", "delRules"} : wr' = [wr EXCEPT ![w].pc = pc]
      BY <1>12 DEF Eval!InvalidateGetId
    <2>2. PICK new : new = [wr[w] EXCEPT !.pc = pc]
      OBVIOUS
    <2>3. new \in WriterStates /\ new.pc = pc /\ new.ver = wr[w].ver
      BY <1>0, <1>12, <2>2 DEF Eval!InvalidateGetId, WriterStates, Eval!Idle
    <2>4. wr' = [wr EXCEPT ![w] = new]
          /\ UNCHANGED <<db, cache, flight, req, asked, ver, missed, quiet>>
      BY <1>12, <2>1, <2>2 DEF Eval!InvalidateGetId, Eval!ghosts
    <2> QED
      BY <1>0, <2>3, <2>4, WriterKeeps
  <1>13. CASE Eval!InvalidateFlag(w)
    <2>1. PICK new : new = [wr[w] EXCEPT !.pc = "delRules"]
      OBVIOUS
    <2>2. new \in WriterStates /\ new.pc = "delRules" /\ new.ver = wr[w].ver
      BY <1>0, <1>13, <2>1 DEF Eval!InvalidateFlag, WriterStates, Eval!Idle
    <2>3. /\ wr' = [wr EXCEPT ![w] = new]
             /\ UNCHANGED <<db, flight, req, asked, ver, missed, quiet>>
          /\ cache' = [cache EXCEPT !.flag = None]
      BY <1>13, <2>1 DEF Eval!InvalidateFlag, Eval!ghosts
    <2>4. cache' \in Caches /\ cache'.flag = None /\ cache'.rules = cache.rules
          /\ cache'.seg = cache.seg
      BY <1>0, <2>3 DEF Caches
    <2>5. /\ Keeps(cache.flag, cache'.flag) /\ Keeps(cache.rules, cache'.rules)
          /\ Keeps(cache.seg, cache'.seg)
      BY <1>0, <2>4 DEF Keeps
    <2> QED
      BY <1>0, <2>2, <2>3, <2>4, <2>5, WriterKeeps
  <1>14. CASE Eval!InvalidateRules(w)
    <2>1. /\ wr' = [wr EXCEPT ![w] = Eval!Idle]
             /\ UNCHANGED <<db, flight, req, asked, ver, missed, quiet>>
          /\ cache' = [cache EXCEPT !.id = None, !.rules = None]
      BY <1>14 DEF Eval!InvalidateRules, Eval!ghosts
    <2>2. cache' \in Caches /\ cache'.flag = cache.flag /\ cache'.rules = None
          /\ cache'.seg = cache.seg
      BY <1>0, <2>1 DEF Caches
    <2>3. /\ Keeps(cache.flag, cache'.flag) /\ Keeps(cache.rules, cache'.rules)
          /\ Keeps(cache.seg, cache'.seg)
      BY <1>0, <2>2 DEF Keeps
    <2> QED
      BY <1>0, <2>1, <2>2, <2>3, WriterKeeps
  <1>15. CASE Eval!Drop(w)
    <2>1. wr[w].ver \in Nat /\ missed \in Nat
      BY <1>15, Dropped DEF Eval!Drop
    <2>2. missed' \in Nat /\ missed <= missed' /\ wr[w].ver <= missed'
      BY <1>15, <2>1 DEF Eval!Drop
    <2>3. wr' = [wr EXCEPT ![w] = Eval!Idle]
          /\ UNCHANGED <<db, cache, flight, req, asked, ver, quiet>>
      BY <1>15 DEF Eval!Drop
    <2> QED
      BY <1>0, <2>2, <2>3, WriterKeeps
  <1> QED
    BY <1>1, <1>2, <1>3, <1>4, <1>5, <1>6, <1>7, <1>8, <1>9, <1>10, <1>11, <1>12, <1>13, <1>14,
       <1>15
       DEF Eval!Operate

\* An entry grows older, or goes.
LEMMA OlderKeeps ==
  ASSUME NEW V, NEW e \in {None} \cup Entries(V)
  PROVE  Eval!Older(e) \in {None} \cup Entries(V) /\ Keeps(e, Eval!Older(e))
  <1>0. TTL \in Nat \ {0}
    BY EvaluationAssumption DEF Eval!EvaluationConstants
  <1>1. CASE e = None
    BY <1>1 DEF Eval!Older, Keeps
  <1>2. CASE e # None /\ e.age + 1 >= TTL
    BY <1>2 DEF Eval!Older, Keeps
  <1>3. CASE e # None /\ ~(e.age + 1 >= TTL)
    <2>1. PICK new : new = [e EXCEPT !.age = e.age + 1]
      OBVIOUS
    <2>2. e.age \in 0 .. TTL - 1 /\ e \in Entries(V)
      BY <1>3 DEF Entries
    <2>3. e.age + 1 \in 0 .. TTL - 1
      BY <1>0, <1>3, <2>2
    <2>4. new \in Entries(V) /\ new.val = e.val /\ new.ver = e.ver /\ new.late = e.late
      BY <2>1, <2>2, <2>3 DEF Entries
    <2>5. Eval!Older(e) = new
      BY <1>3, <2>1 DEF Eval!Older
    <2> QED
      BY <1>3, <2>4, <2>5 DEF Keeps
  <1> QED
    BY <1>1, <1>2, <1>3

LEMMA TickKeeps == ASSUME EvalInv, Eval!Tick PROVE EvalInv'
  <1>0. cache \in Caches /\ wr \in [Writers -> WriterStates] /\ missed \in Nat
    BY DEF EvalInv, EvalTyped
  <1>1. /\ cache' = [flag |-> Eval!Older(cache.flag), id |-> Eval!Older(cache.id),
                     rules |-> Eval!Older(cache.rules), seg |-> Eval!Older(cache.seg)]
        /\ UNCHANGED <<db, flight, req, asked, wr, ver, missed, quiet>>
    BY DEF Eval!Tick, Eval!ghosts
  <1>2. /\ cache.flag \in {None} \cup Entries(FlagRows) /\ cache.id \in {None} \cup Entries(BOOLEAN)
        /\ cache.rules \in {None} \cup Entries(Eval!RuleTable)
           /\ cache.seg \in {None} \cup Entries(Segments)
    BY <1>0 DEF Caches
  <1>3. /\ Eval!Older(cache.flag) \in {None} \cup Entries(FlagRows)
           /\ Eval!Older(cache.id) \in {None} \cup Entries(BOOLEAN)
        /\ Eval!Older(cache.rules) \in {None} \cup Entries(Eval!RuleTable)
           /\ Eval!Older(cache.seg) \in {None} \cup Entries(Segments)
        /\ Keeps(cache.flag, Eval!Older(cache.flag)) /\ Keeps(cache.rules, Eval!Older(cache.rules))
        /\ Keeps(cache.seg, Eval!Older(cache.seg))
    BY <1>2, OlderKeeps
  <1>4. cache' \in Caches
    BY <1>1, <1>3 DEF Caches
  <1>5. /\ Keeps(cache.flag, cache'.flag) /\ Keeps(cache.rules, cache'.rules)
        /\ Keeps(cache.seg, cache'.seg)
    BY <1>1, <1>3
  <1>6. missed' \in Nat /\ missed <= missed' /\ wr' \in [Writers -> WriterStates]
    BY <1>0, <1>1
  <1>7. \A w \in Writers : wr[w].pc \in {"getId", "delFlag", "delRules"} =>
            wr'[w].pc \in {"getId", "delFlag", "delRules"} /\ wr'[w].ver = wr[w].ver
    BY <1>1
  <1> QED
    BY <1>1, <1>4, <1>5, <1>6, <1>7, InvalidationKeeps

LEMMA EvalStep == EvalInv /\ [Eval!Next]_Eval!vars => EvalInv'
  <1> SUFFICES ASSUME EvalInv, [Eval!Next]_Eval!vars PROVE EvalInv'
    OBVIOUS
  <1>1. CASE UNCHANGED Eval!vars
    <2>1. EvalTyped' /\ CopiesHold' /\ Eval!StaleRulesAreExplained'
      BY <1>1 DEF Eval!vars, Eval!ghosts, EvalInv, EvalTyped, CopiesHold,
         Eval!StaleRulesAreExplained, LocalsTyped, RulesCopied
    <2>2. QuietHold'
      BY <1>1 DEF Eval!vars, Eval!ghosts, EvalInv, QuietHold, Eval!Settled, Undisturbed,
         Eval!FlagRow, Known, EnabledHere,
         ValueHere, SegmentRead, Eval!Without, Eval!Reference
    <2> QED
      BY <2>1, <2>2 DEF EvalInv
  <1>2. ASSUME NEW q \in Requests, Eval!Evaluate(q) PROVE EvalInv'
    BY <1>2, GetFlagKeeps, SetFlagKeeps, SetFlagIdKeeps, CheckEnabledKeeps, GetRulesKeeps,
       SetRulesKeeps, ReadRuleStatesKeeps, RuleStatesFailKeeps, SetSegmentKeeps DEF Eval!Evaluate
  <1> QED
    BY <1>1, <1>2, FlightEndKeeps, OperateKeeps, TickKeeps DEF Eval!Next, Eval!EvaluationStep

LEMMA EvalMeans == EvalInv => Eval!TypeOK /\ Eval!QuietEvaluationIsExact
    /\ Eval!StaleRulesAreExplained
  <1> SUFFICES ASSUME EvalInv
               PROVE Eval!TypeOK /\ Eval!QuietEvaluationIsExact /\ Eval!StaleRulesAreExplained
    OBVIOUS
  <1>1. Eval!TypeOK
    BY DEF EvalInv, EvalTyped, Eval!TypeOK, DbRows, Caches, Entries
  <1>2. Eval!QuietEvaluationIsExact
    BY DEF EvalInv, QuietHold, Undisturbed, Eval!QuietEvaluationIsExact
  <1> QED
    BY <1>1, <1>2 DEF EvalInv

LEMMA CacheKeepsEvalInv == CacheSpec => []EvalInv
  <1>1. EvalInv /\ [CacheStep(Eval!Next)]_allVars => EvalInv'
    BY EvalStep DEF CacheStep, allVars, evalVars, Eval!vars, Eval!ghosts
  <1> QED
    BY <1>1, EvalBegins, PTL DEF CacheSpec, CacheInit

\* UndisturbedIsExact: whatever evaluations, writers, invalidations, crashes and
\* expiries come before, an evaluation that starts when nothing outdated is
\* around and meets no write answers what the database says, through the cache,
\* a read shared with another request, or the database itself (Evaluate), save
\* that the environment's state, or the rules, count for nothing whose look-up
\* failed.
THEOREM UndisturbedIsAlwaysExact == CacheSpec => []UndisturbedIsExact
  <1>1. EvalInv => UndisturbedIsExact
    BY EvalMeans DEF UndisturbedIsExact
  <1> QED
    BY <1>1, CacheKeepsEvalInv, PTL

\* StaleRulesAreExplained: rules in the cache that are not the database's come
\* from a write whose invalidation is still to come or was not carried out, or
\* were stored after it by someone who had read them before (SetRules,
\* Invalidate, DeleteRule); there is no other way to an outdated rule.
THEOREM StaleRulesAreAlwaysExplained == CacheSpec => []StaleRulesAreExplained
  <1>1. EvalInv => StaleRulesAreExplained
    BY EvalMeans DEF StaleRulesAreExplained
  <1> QED
    BY <1>1, CacheKeepsEvalInv, PTL

=============================================================================
