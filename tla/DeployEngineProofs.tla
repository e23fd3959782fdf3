-------------------------- MODULE DeployEngineProofs --------------------------
(***************************************************************************)
(* Proofs about DeployEngine, for every number of drivers and requests,    *)
(* every canary configuration and every bound, and about the situations of *)
(* MC_DeployScenarios.                                                     *)
(*                                                                         *)
(* The stored row alone is not inductive: what a driver or a request will  *)
(* write depends on the copy it holds.  The invariant therefore says of    *)
(* every copy what the theorems say of the row, and ties the copy to the   *)
(* program counter of its holder.                                          *)
(***************************************************************************)
EXTENDS MC_DeployScenarios, SequenceTheorems, WellFoundedInduction, TLAPS

\* A phase row.
PhaseRow == [order : 1..Len(Steps), status : PhaseStatus]

\* A driver's state, when n phases are stored.
DriverRec(n) ==
    [pc : DriverPc, ctx : {"engine", "request", "cancelled"},
     d : Row \cup {Absent}, list : Seq(1..n), i : Nat]

\* A request's state, when n phases are stored.
CallerRec(n) ==
    [pc : {"idle", "phase", "pass", "write"}, op : Operations \cup {"none"},
     base : Row \cup {Absent}, d : Row \cup {Absent}, phase : 0..n]

\* What holds of the stored row and of every copy of it.
RowOK(d) ==
    /\ Timestamps(d)
    /\ "setTraffic" \notin Ops => (d.status \in {"promoting", "completed"} => d.traffic = 100)

\* The places where driveDeployment works on a phase of its list, and where its
\* copy of the row is running.
InPhase == {"activate", "traffic", "wait", "fail", "rollback", "gate", "pass"}
Driving == InPhase \cup {"list", "create", "complete"}

DriverOK(s) ==
    /\ RowOK(s.d)
    /\ s.pc = "start" => s.d.status = "pending"
    /\ s.pc \in Driving => s.d.status = "running"
    /\ s.pc = "create" => s.i \in 1..Len(Steps)
    /\ s.pc \in InPhase => s.i \in 1..Len(s.list)

\* A request in progress holds a row it was allowed to read and the change its
\* operation makes to that row.
CallerOK(r) ==
    /\ RowOK(r.base)
    /\ r.pc = "pass" => r.phase # 0
    /\ r.pc = "phase" => r.op = "advance"
    /\ r.pc # "idle" =>
        /\ r.base # Absent
        /\ r.op \in Ops
        /\ r.op = "setTraffic" => \E pct \in Percent : r.d = [r.base EXCEPT !.traffic = pct]
        /\ r.op # "setTraffic" => Allowed(r.op, r.base) /\ r.d = Result(r.op, r.base)

IndInv ==
    /\ TypeOK
    /\ RowOK(row)
    /\ row = Absent => rollout = "none"
    /\ \A w \in Drivers : DriverOK(drv[w])
    /\ \A c \in Callers : CallerOK(req[c])

-----------------------------------------------------------------------------
(* The rows the code computes.                                             *)

\* A transition out of a live status keeps a row well formed, except that the
\* completed status needs all the traffic (models/deployment.go TransitionTo).
LEMMA TransitionRow ==
    ASSUME NEW d \in Row \cup {Absent}, RowOK(d), d.status \in DeployStatus,
           NEW target \in {"running", "paused", "rolled_back", "cancelled"},
           d.status \in {"pending", "running", "paused", "promoting"},
           target = "running" => d.status # "promoting",
           target \in {"paused", "rolled_back"} => d.status # "pending"
    PROVE  TransitionTo(d, target) \in Row /\ RowOK(TransitionTo(d, target))
  <1>1. d \in Row
    BY DEF Absent, DeployStatus, TerminalStatus
  <1> QED
    BY <1>1 DEF TransitionTo, Row, RowOK, Timestamps, DeployStatus, TerminalStatus, Percent

\* Whatever row an operation was allowed on, the row it writes is well formed
\* (deploy/service.go).
LEMMA ResultRow ==
    ASSUME NEW op \in Operations \ {"setTraffic"}, NEW d \in Row, RowOK(d), Allowed(op, d)
    PROVE  Result(op, d) \in Row /\ RowOK(Result(op, d))
  <1>1. CASE op = "promote"
    <2>1. Result(op, d) = [status |-> "promoting", traffic |-> 100, started |-> d.started, completed |-> d.completed]
      BY <1>1 DEF Result
    <2>2. d.status = "running"
      BY <1>1 DEF Allowed, ValidateTransition, validTransitions, Row, DeployStatus, TerminalStatus
    <2> QED
      BY <2>1, <2>2 DEF Row, RowOK, Timestamps, DeployStatus, TerminalStatus, Percent
  <1>2. CASE op = "rollback"
    <2>1. Result(op, d) = TransitionTo(d, "rolled_back")
      BY <1>2 DEF Result
    <2>2. d.status \in {"running", "paused", "promoting"}
      BY <1>2 DEF Allowed, ValidateTransition, validTransitions, Row, DeployStatus, TerminalStatus
    <2> QED
      BY <2>1, <2>2, TransitionRow DEF DeployStatus
  <1>3. CASE op = "pause"
    <2>1. Result(op, d) = TransitionTo(d, "paused") /\ d.status = "running"
      BY <1>3 DEF Result, Allowed
    <2> QED
      BY <2>1, TransitionRow DEF DeployStatus
  <1>4. CASE op \in {"resume", "advance"}
    <2>1. Result(op, d) = TransitionTo(d, "running") /\ d.status = "paused"
      BY <1>4 DEF Result, Allowed
    <2> QED
      BY <2>1, TransitionRow DEF DeployStatus
  <1>5. CASE op = "cancel"
    <2>1. Result(op, d) = TransitionTo(d, "cancelled")
      BY <1>5 DEF Result
    <2>2. d.status \in {"pending", "running", "paused"}
      BY <1>5 DEF Allowed, ValidateTransition, validTransitions, Row, DeployStatus, TerminalStatus
    <2> QED
      BY <2>1, <2>2, TransitionRow DEF DeployStatus
  <1> QED
    BY <1>1, <1>2, <1>3, <1>4, <1>5 DEF Operations

\* Setting the traffic of a row changes nothing else; when the rollout engine
\* does it, the full-traffic clause does not apply (SetTrafficPercent).
LEMMA TrafficRow ==
    ASSUME NEW d \in Row, RowOK(d), NEW pct \in Percent,
           "setTraffic" \in Ops \/ d.status = "running"
    PROVE  [d EXCEPT !.traffic = pct] \in Row /\ RowOK([d EXCEPT !.traffic = pct])
  BY DEF Row, RowOK, Timestamps

\* The end of a running row, with the traffic the code sets: a completed one has
\* all of it (triggerRollback and the end of driveDeployment).
LEMMA EndRow ==
    ASSUME NEW d \in Row, RowOK(d), d.status = "running",
           NEW target \in {"rolled_back", "completed"}, NEW pct \in Percent,
           target = "completed" => pct = 100
    PROVE  /\ [TransitionTo(d, target) EXCEPT !.traffic = pct] \in Row
           /\ RowOK([TransitionTo(d, target) EXCEPT !.traffic = pct])
  <1> DEFINE e == TransitionTo(d, target)
             f == [e EXCEPT !.traffic = pct]
  <1>1. e \in Row /\ e.status = target /\ e.started = TRUE /\ e.completed = TRUE
    BY DEF TransitionTo, Row, RowOK, Timestamps, DeployStatus, TerminalStatus
  <1> HIDE DEF e
  <1>2. f \in Row /\ f.status = target /\ f.started = TRUE /\ f.completed = TRUE /\ f.traffic = pct
    BY <1>1 DEF Row
  <1> HIDE DEF f
  <1>3. RowOK(f)
    BY <1>2 DEF RowOK, Timestamps, TerminalStatus
  <1> QED
    BY <1>2, <1>3 DEF e, f

-----------------------------------------------------------------------------
(* The list of phases a driver works through.                              *)

\* A sorted listing of the stored phases has one entry per row, and the scan for
\* the first phase that has not passed finds a position in it or just past it.
LEMMA StartIdxFound ==
    ASSUME phases \in Seq(PhaseRow), NEW list \in ListPhases
    PROVE  /\ list \in Seq(1..Len(phases))
           /\ Len(list) = Len(phases)
           /\ StartIdx(list) \in 1..(Len(list) + 1)
           /\ \A j \in 1..(StartIdx(list) - 1) : phases[list[j]].status = "passed"
           /\ StartIdx(list) <= Len(list) => phases[list[StartIdx(list)]].status # "passed"
  <1>1. Len(phases) \in Nat
    BY LenProperties
  <1>2. list \in [1..Len(phases) -> 1..Len(phases)]
    BY DEF ListPhases
  <1>3. list \in Seq(1..Len(phases))
    BY <1>1, <1>2, SeqDef
  <1>4. Len(list) = Len(phases)
    BY <1>1, <1>2, <1>3, LenProperties
  <1> DEFINE T == {k \in 1..(Len(list) + 1) :
                     k <= Len(list) => phases[list[k]].status # "passed"}
  <1>5. Len(list) + 1 \in T
    BY <1>1, <1>4
  <1>6. PICK k \in T : \A j \in T : ~(<<j, k>> \in OpToRel(<, Nat))
    <2>1. T \subseteq Nat
      BY <1>1, <1>4
    <2> QED
      BY <1>5, <2>1, NatLessThanWellFounded, WFMin
  <1>7. \A j \in 1..(k - 1) : phases[list[j]].status = "passed"
    <2> SUFFICES ASSUME NEW j \in 1..(k - 1), phases[list[j]].status # "passed"
                 PROVE  FALSE
      OBVIOUS
    <2>1. j \in T /\ j < k /\ j \in Nat /\ k \in Nat
      BY <1>1, <1>4
    <2>2. <<j, k>> \in OpToRel(<, Nat)
      BY <2>1 DEF OpToRel
    <2> QED
      BY <2>1, <2>2, <1>6
  <1>8. \E n \in 1..(Len(list) + 1) :
          /\ \A j \in 1..(n - 1) : phases[list[j]].status = "passed"
          /\ n <= Len(list) => phases[list[n]].status # "passed"
    BY <1>7
  <1> QED
    BY <1>3, <1>4, <1>8 DEF StartIdx

\* Marking a stored phase changes neither the number of rows nor their types.
LEMMA PhaseUpdate ==
    ASSUME phases \in Seq(PhaseRow), NEW k \in 1..Len(phases), NEW st \in PhaseStatus
    PROVE  /\ [phases EXCEPT ![k] = [@ EXCEPT !.status = st]] \in Seq(PhaseRow)
           /\ Len([phases EXCEPT ![k] = [@ EXCEPT !.status = st]]) = Len(phases)
  <1>1. phases[k] \in PhaseRow
    BY ElementOfSeq
  <1>2. [phases[k] EXCEPT !.status = st] \in PhaseRow
    BY <1>1 DEF PhaseRow
  <1> QED
    BY <1>2, ExceptSeq

\* Inserting phases keeps every driver's list and every request's phase valid.
LEMMA RecordsGrow ==
    ASSUME NEW m \in Nat, NEW n \in Nat, m <= n
    PROVE  /\ \A s \in DriverRec(m) : s \in DriverRec(n)
           /\ \A r \in CallerRec(m) : r \in CallerRec(n)
  <1>1. 1..m \subseteq 1..n /\ 0..m \subseteq 0..n
    OBVIOUS
  <1>2. \A q \in Seq(1..m) : q \in Seq(1..n)
    BY <1>1, SeqMonotonic
  <1> QED
    BY <1>1, <1>2 DEF DriverRec, CallerRec

-----------------------------------------------------------------------------
(* A step of one driver, and a step of one request.                        *)

LEMMA IdleDriverIsOK ==
    ASSUME NEW n \in Nat PROVE IdleDriver \in DriverRec(n) /\ DriverOK(IdleDriver)
  BY EmptySeq DEF IdleDriver, DriverRec, DriverOK, DriverPc, InPhase, Driving, RowOK,
                  Timestamps, Absent, TerminalStatus

LEMMA IdleCallerIsOK ==
    ASSUME NEW n \in Nat PROVE IdleCaller \in CallerRec(n) /\ CallerOK(IdleCaller)
  BY DEF IdleCaller, CallerRec, CallerOK, RowOK, Timestamps, Absent, TerminalStatus

\* If one driver moves to a good state and what it stores is good, the invariant
\* is preserved.
LEMMA DriverMove ==
    ASSUME IndInv, NEW w \in Drivers, NEW s,
           phases' \in Seq(PhaseRow), Len(phases) <= Len(phases'),
           s \in DriverRec(Len(phases')), DriverOK(s),
           drv' = [drv EXCEPT ![w] = s],
           row' \in Row \cup {Absent}, RowOK(row'), row' = Absent => row = Absent,
           recorded' \in BOOLEAN, faults' \in 0..MaxFaults,
           msg' \in [state : {"none", "queued", "acked"}, deliveries : 0..MaxDeliver],
           UNCHANGED <<canary, rollout, req, ops>>
    PROVE  IndInv'
  <1>1. Len(phases) \in Nat /\ Len(phases') \in Nat
    BY LenProperties DEF IndInv, TypeOK, PhaseRow
  <1>2. drv \in [Drivers -> DriverRec(Len(phases))] /\ req \in [Callers -> CallerRec(Len(phases))]
    BY DEF IndInv, TypeOK, DriverRec, CallerRec
  <1>3. drv' \in [Drivers -> DriverRec(Len(phases'))]
    BY <1>1, <1>2, RecordsGrow
  <1>4. req' \in [Callers -> CallerRec(Len(phases'))]
    BY <1>1, <1>2, RecordsGrow
  <1>5. \A v \in Drivers : DriverOK(drv'[v])
    BY <1>2 DEF IndInv
  <1>6. \A c \in Callers : CallerOK(req'[c])
    BY DEF IndInv
  <1>7. TypeOK'
    BY <1>3, <1>4 DEF IndInv, TypeOK, DriverRec, CallerRec, PhaseRow
  <1> QED
    BY <1>5, <1>6, <1>7 DEF IndInv

\* The same for a request.
LEMMA CallerMove ==
    ASSUME IndInv, NEW c \in Callers, NEW r,
           phases' \in Seq(PhaseRow), Len(phases') = Len(phases),
           r \in CallerRec(Len(phases)), CallerOK(r),
           req' = [req EXCEPT ![c] = r],
           row' \in Row \cup {Absent}, RowOK(row'), row' = Absent => row = Absent,
           drv' \in [Drivers -> DriverRec(Len(phases))],
           \A w \in Drivers : DriverOK(drv'[w]),
           ops' \in 0..MaxOps,
           UNCHANGED <<canary, rollout, msg, recorded, faults>>
    PROVE  IndInv'
  <1>1. req \in [Callers -> CallerRec(Len(phases))]
    BY DEF IndInv, TypeOK, CallerRec
  <1>2. req' \in [Callers -> CallerRec(Len(phases))]
    BY <1>1
  <1>3. \A b \in Callers : CallerOK(req'[b])
    BY <1>1 DEF IndInv
  <1>4. TypeOK'
    BY <1>2 DEF IndInv, TypeOK, DriverRec, CallerRec, PhaseRow
  <1> QED
    BY <1>3, <1>4 DEF IndInv

-----------------------------------------------------------------------------
(* The invariant holds initially and is preserved.                         *)

LEMMA IndInvInit == Init => IndInv
  <1> SUFFICES ASSUME Init PROVE IndInv
    OBVIOUS
  <1>1. phases = <<>> /\ phases \in Seq(PhaseRow) /\ Len(phases) = 0
    BY EmptySeq DEF Init
  <1>2. drv \in [Drivers -> DriverRec(Len(phases))] /\ \A w \in Drivers : DriverOK(drv[w])
    BY <1>1, IdleDriverIsOK DEF Init
  <1>3. req \in [Callers -> CallerRec(Len(phases))] /\ \A c \in Callers : CallerOK(req[c])
    BY <1>1, IdleCallerIsOK DEF Init
  <1>4. RowOK(row)
    BY DEF Init, RowOK, Timestamps, Absent, TerminalStatus
  <1>6. /\ msg \in [state : {"none", "queued", "acked"}, deliveries : 0..MaxDeliver]
        /\ ops \in 0..MaxOps /\ faults \in 0..MaxFaults
    BY BoundsAssumption DEF Init
  <1>7. canary \in BOOLEAN /\ recorded \in BOOLEAN
    BY DEF Init
  <1>8. row \in Row \cup {Absent} /\ rollout \in {"none", "wanted", "active", "ended"}
    BY DEF Init
  <1>5. TypeOK
    BY <1>1, <1>2, <1>3, <1>6, <1>7, <1>8 DEF TypeOK, DriverRec, CallerRec, PhaseRow
  <1> QED
    BY <1>2, <1>3, <1>4, <1>5 DEF IndInv, Init

\* What every step below uses of the invariant.
LEMMA IndInvFacts ==
    ASSUME IndInv
    PROVE  /\ phases \in Seq(PhaseRow)
           /\ Len(phases) \in Nat
           /\ drv \in [Drivers -> DriverRec(Len(phases))]
           /\ req \in [Callers -> CallerRec(Len(phases))]
           /\ Len(Steps) \in Nat
  BY LenProperties, StepsAssumption DEF IndInv, TypeOK, DriverRec, CallerRec, PhaseRow

\* The phase a driver works on is a stored row with a configured step.
LEMMA CurrentPhase ==
    ASSUME IndInv, NEW w \in Drivers, drv[w].pc \in InPhase
    PROVE  /\ Current(w) \in 1..Len(phases)
           /\ StepOf(w) \in [pct : Percent, auto : BOOLEAN]
  <1>1. drv[w].list \in Seq(1..Len(phases)) /\ drv[w].i \in 1..Len(drv[w].list)
    BY IndInvFacts DEF IndInv, DriverRec, DriverOK
  <1>2. Current(w) \in 1..Len(phases)
    BY <1>1, ElementOfSeq DEF Current
  <1>3. phases[Current(w)] \in PhaseRow
    BY <1>2, IndInvFacts, ElementOfSeq
  <1>4. phases[Current(w)].order \in 1..Len(Steps)
    BY <1>3 DEF PhaseRow
  <1> QED
    BY <1>2, <1>4, StepsAssumption, ElementOfSeq DEF StepOf

\* A driver that writes a good row and goes on, or returns.
LEMMA DriverWrite ==
    ASSUME IndInv, NEW w \in Drivers, NEW d \in Row, RowOK(d), NEW pc \in DriverPc,
           WriteRow(w, d, pc), phases' = phases, recorded' \in BOOLEAN,
           pc \notin {"idle", "list"} => pc = "wait" /\ drv[w].pc \in InPhase,
           pc # "idle" => d.status = "running"
    PROVE  IndInv'
  <1>1. row' = d /\ row' # Absent
    BY DEF WriteRow, Row, Absent, DeployStatus, TerminalStatus
  <1>2. /\ UNCHANGED <<canary, rollout, req, ops>>
        /\ faults' \in 0..MaxFaults
        /\ msg' \in [state : {"none", "queued", "acked"}, deliveries : 0..MaxDeliver]
    BY DEF WriteRow, IndInv, TypeOK
  <1>9. phases' \in Seq(PhaseRow) /\ Len(phases) <= Len(phases') /\ Len(phases') = Len(phases)
    BY IndInvFacts
  <1>8. row' \in Row \cup {Absent} /\ RowOK(row') /\ (row' = Absent => row = Absent)
    BY <1>1
  <1>3. CASE pc = "idle"
    <2>1. drv' = [drv EXCEPT ![w] = IdleDriver]
      BY <1>3 DEF WriteRow, Exit
    <2>2. IdleDriver \in DriverRec(Len(phases')) /\ DriverOK(IdleDriver)
      BY <1>9, IndInvFacts, IdleDriverIsOK
    <2> QED
      BY <1>9, <1>8, <1>2, <2>1, <2>2, DriverMove
  <1>4. CASE pc # "idle"
    <2> DEFINE s == [pc |-> pc, ctx |-> drv[w].ctx, d |-> d,
                     list |-> drv[w].list, i |-> drv[w].i]
    <2>1. drv' = [drv EXCEPT ![w] = s]
      BY <1>4 DEF WriteRow, Goto
    <2>2. s \in DriverRec(Len(phases))
      BY IndInvFacts DEF DriverRec
    <2>3. DriverOK(s)
      BY <1>4 DEF IndInv, DriverOK, InPhase, Driving
    <2>4. s \in DriverRec(Len(phases'))
      BY <1>9, <2>2
    <2> QED
      BY <1>9, <1>8, <1>2, <2>1, <2>3, <2>4, DriverMove
  <1> QED
    BY <1>3, <1>4

\* A driver that only changes its own state.
LEMMA DriverLocal ==
    ASSUME IndInv, NEW w \in Drivers, NEW s,
           s \in DriverRec(Len(phases)), DriverOK(s),
           drv' = [drv EXCEPT ![w] = s], faults' \in 0..MaxFaults,
           UNCHANGED <<row, canary, phases, rollout, msg, req, recorded, ops>>
    PROVE  IndInv'
  <1>1. phases' \in Seq(PhaseRow) /\ Len(phases) <= Len(phases') /\ Len(phases') = Len(phases)
    BY IndInvFacts
  <1>2. s \in DriverRec(Len(phases'))
    BY <1>1
  <1>3. row' \in Row \cup {Absent} /\ RowOK(row') /\ (row' = Absent => row = Absent)
    BY DEF IndInv, TypeOK
  <1>4. /\ recorded' \in BOOLEAN
        /\ msg' \in [state : {"none", "queued", "acked"}, deliveries : 0..MaxDeliver]
    BY DEF IndInv, TypeOK
  <1>5. UNCHANGED <<canary, rollout, req, ops>>
    OBVIOUS
  <1> QED
    BY <1>1, <1>2, <1>3, <1>4, <1>5, DriverMove

\* A driver that returns.
LEMMA DriverExit ==
    ASSUME IndInv, NEW w \in Drivers, Exit(w), faults' \in 0..MaxFaults,
           UNCHANGED <<row, canary, phases, rollout, msg, req, recorded, ops>>
    PROVE  IndInv'
  <1>1. drv' = [drv EXCEPT ![w] = IdleDriver]
    BY DEF Exit
  <1>2. IdleDriver \in DriverRec(Len(phases)) /\ DriverOK(IdleDriver)
    BY IndInvFacts, IdleDriverIsOK
  <1> QED
    BY <1>1, <1>2, DriverLocal

\* A driver that goes on with the copy and the list it has.
LEMMA DriverJump ==
    ASSUME IndInv, NEW w \in Drivers, NEW pc \in DriverPc, Jump(w, pc),
           \/ drv[w].pc \in InPhase /\ pc \in InPhase
           \/ pc = "start" /\ drv[w].d.status = "pending"
           \/ pc = "list" /\ drv[w].d.status = "running",
           faults' \in 0..MaxFaults,
           UNCHANGED <<row, canary, phases, rollout, msg, req, recorded, ops>>
    PROVE  IndInv'
  <1> DEFINE s == [pc |-> pc, ctx |-> drv[w].ctx, d |-> drv[w].d,
                   list |-> drv[w].list, i |-> drv[w].i]
  <1>1. drv' = [drv EXCEPT ![w] = s]
    BY DEF Jump, Goto
  <1>2. s \in DriverRec(Len(phases))
    BY IndInvFacts DEF DriverRec
  <1>3. DriverOK(s)
    BY DEF IndInv, DriverOK, InPhase, Driving
  <1> QED
    BY <1>1, <1>2, <1>3, DriverLocal

-----------------------------------------------------------------------------
(* Every step of a driver preserves the invariant.                         *)

LEMMA GetStep ==
    ASSUME IndInv, NEW w \in Drivers, Get(w) PROVE IndInv'
  <1> DEFINE s == [pc |-> "guard", ctx |-> drv[w].ctx, d |-> row, list |-> <<>>, i |-> 0]
  <1>1. drv' = [drv EXCEPT ![w] = s]
    BY DEF Get, Goto
  <1>2. s \in DriverRec(Len(phases))
    BY IndInvFacts, EmptySeq DEF DriverRec, DriverPc, IndInv, TypeOK
  <1>3. DriverOK(s)
    BY DEF IndInv, DriverOK, InPhase, Driving
  <1>4. faults' \in 0..MaxFaults /\ UNCHANGED <<row, canary, phases, rollout, msg, req, recorded, ops>>
    BY DEF Get, IndInv, TypeOK
  <1> QED
    BY <1>1, <1>2, <1>3, <1>4, DriverLocal

LEMMA GuardStep ==
    ASSUME IndInv, NEW w \in Drivers, Guard(w) PROVE IndInv'
  <1>1. UNCHANGED <<row, canary, phases, rollout, msg, req, recorded, ops>>
    BY DEF Guard
  <1>2. faults' \in 0..MaxFaults
    <2>1. faults \in 0..MaxFaults
      BY DEF IndInv, TypeOK
    <2> QED
      BY <2>1, BoundsAssumption DEF Guard
  <1>3. CASE Exit(w)
    BY <1>1, <1>2, <1>3, DriverExit
  <1>4. CASE ~Exit(w)
    <2>1. PICK lookup \in {rollout, "none"} : GuardTarget(w, lookup) # "idle" /\ Jump(w, GuardTarget(w, lookup))
      BY <1>4 DEF Guard
    <2>2. \/ GuardTarget(w, lookup) = "start" /\ drv[w].d.status = "pending"
          \/ GuardTarget(w, lookup) = "list" /\ drv[w].d.status = "running"
      BY <2>1 DEF GuardTarget
    <2>3. \/ Jump(w, "start") /\ drv[w].d.status = "pending"
          \/ Jump(w, "list") /\ drv[w].d.status = "running"
      BY <2>1, <2>2
    <2>4. "start" \in DriverPc /\ "list" \in DriverPc
      BY DEF DriverPc
    <2> QED
      BY <1>1, <1>2, <2>3, <2>4, DriverJump
  <1> QED
    BY <1>3, <1>4

LEMMA StartRunningStep ==
    ASSUME IndInv, NEW w \in Drivers, StartRunning(w) PROVE IndInv'
  <1>1. drv[w].d \in Row \cup {Absent} /\ RowOK(drv[w].d) /\ drv[w].d.status = "pending"
    BY IndInvFacts DEF IndInv, DriverRec, DriverOK, StartRunning, At
  <1> DEFINE d == TransitionTo(drv[w].d, "running")
  <1>2. d \in Row /\ RowOK(d)
    BY <1>1, TransitionRow DEF DeployStatus
  <1>3. d.status = "running"
    BY DEF TransitionTo
  <1>4. WriteRow(w, d, "list") /\ phases' = phases /\ recorded' \in BOOLEAN
    BY DEF StartRunning, IndInv, TypeOK
  <1> HIDE DEF d
  <1> QED
    BY <1>2, <1>3, <1>4, DriverWrite DEF DriverPc

LEMMA LoadPhasesStep ==
    ASSUME IndInv, NEW w \in Drivers, LoadPhases(w) PROVE IndInv'
  <1>1. /\ faults' \in 0..MaxFaults
        /\ UNCHANGED <<row, canary, phases, rollout, msg, req, recorded, ops>>
    BY DEF LoadPhases, IndInv, TypeOK
  <1>2. drv[w].d.status = "running" /\ RowOK(drv[w].d)
    BY DEF LoadPhases, At, IndInv, DriverOK, Driving
  <1>3. CASE phases = <<>> /\ Steps # <<>>
    <2> DEFINE s == [pc |-> "create", ctx |-> drv[w].ctx, d |-> drv[w].d, list |-> <<>>, i |-> 1]
    <2>1. drv' = [drv EXCEPT ![w] = s]
      BY <1>3 DEF LoadPhases, Goto
    <2>2. s \in DriverRec(Len(phases))
      BY IndInvFacts, EmptySeq DEF DriverRec, DriverPc
    <2>3. 1 \in 1..Len(Steps)
      BY <1>3, StepsAssumption, EmptySeq
    <2>4. DriverOK(s)
      BY <1>2, <2>3 DEF DriverOK, InPhase, Driving
    <2> QED
      BY <1>1, <2>1, <2>2, <2>4, DriverLocal
  <1>4. CASE ~(phases = <<>> /\ Steps # <<>>)
    <2>1. PICK list \in ListPhases :
             Goto(w, LoopPc(list, StartIdx(list)), drv[w].d, list, StartIdx(list))
      BY <1>4 DEF LoadPhases
    <2> DEFINE i == StartIdx(list)
               s == [pc |-> LoopPc(list, i), ctx |-> drv[w].ctx, d |-> drv[w].d,
                     list |-> list, i |-> i]
    <2>2. list \in Seq(1..Len(phases)) /\ Len(list) \in Nat /\ i \in 1..(Len(list) + 1)
      BY StartIdxFound, IndInvFacts
    <2> HIDE DEF i
    <2>3. drv' = [drv EXCEPT ![w] = s]
      BY <2>1 DEF Goto, i
    <2>4. s \in DriverRec(Len(phases))
      BY IndInvFacts, <2>2 DEF DriverRec, DriverPc, LoopPc
    <2>5. DriverOK(s)
      BY <1>2, <2>2 DEF DriverOK, InPhase, Driving, LoopPc
    <2> QED
      BY <1>1, <2>3, <2>4, <2>5, DriverLocal
  <1> QED
    BY <1>3, <1>4

LEMMA CreatePhaseStep ==
    ASSUME IndInv, NEW w \in Drivers, CreatePhase(w) PROVE IndInv'
  <1> DEFINE ph == [order |-> drv[w].i, status |-> "pending"]
             list == Append(drv[w].list, Len(phases) + 1)
             s == [pc |-> IF drv[w].i < Len(Steps) THEN "create" ELSE "activate",
                   ctx |-> drv[w].ctx, d |-> drv[w].d, list |-> list,
                   i |-> IF drv[w].i < Len(Steps) THEN drv[w].i + 1 ELSE 1]
  <1>1. /\ drv[w] \in DriverRec(Len(phases)) /\ Len(phases) \in Nat /\ Len(Steps) \in Nat
        /\ phases \in Seq(PhaseRow)
    BY IndInvFacts
  <1>2. /\ drv[w].i \in 1..Len(Steps) /\ drv[w].d.status = "running" /\ RowOK(drv[w].d)
        /\ drv[w].d \in Row \cup {Absent} /\ drv[w].ctx \in {"engine", "request", "cancelled"}
    BY <1>1 DEF CreatePhase, At, IndInv, DriverOK, Driving, DriverRec
  <1>3. ph \in PhaseRow
    BY <1>2 DEF PhaseRow, PhaseStatus
  <1>4. phases' = Append(phases, ph)
    BY DEF CreatePhase
  <1>5. phases' \in Seq(PhaseRow) /\ Len(phases') = Len(phases) + 1 /\ Len(phases) <= Len(phases')
    BY <1>1, <1>3, <1>4
  <1>6. drv[w].list \in Seq(1..Len(phases'))
    <2>1. drv[w].list \in Seq(1..Len(phases))
      BY <1>1 DEF DriverRec
    <2>2. 1..Len(phases) \subseteq 1..Len(phases')
      BY <1>1, <1>5
    <2> QED
      BY <2>1, <2>2, SeqMonotonic
  <1>7. list \in Seq(1..Len(phases')) /\ 1 \in 1..Len(list)
    <2>1. Len(phases) + 1 \in 1..Len(phases')
      BY <1>1, <1>5
    <2> QED
      BY <1>6, <2>1
  <1> HIDE DEF list, ph
  <1>8. drv' = [drv EXCEPT ![w] = s]
    BY DEF CreatePhase, Goto, list
  <1>9. s \in DriverRec(Len(phases'))
    BY <1>1, <1>2, <1>7 DEF DriverRec, DriverPc
  <1>10. DriverOK(s)
    BY <1>1, <1>2, <1>7 DEF DriverOK, InPhase, Driving
  <1>11. /\ row' \in Row \cup {Absent} /\ RowOK(row') /\ (row' = Absent => row = Absent)
         /\ recorded' \in BOOLEAN /\ faults' \in 0..MaxFaults
         /\ msg' \in [state : {"none", "queued", "acked"}, deliveries : 0..MaxDeliver]
         /\ UNCHANGED <<canary, rollout, req, ops>>
    BY DEF CreatePhase, IndInv, TypeOK
  <1> HIDE DEF s
  <1> QED
    BY <1>5, <1>8, <1>9, <1>10, <1>11, DriverMove

\* Marking the current phase and going on.
LEMMA UpdatePhaseStep ==
    ASSUME IndInv, NEW w \in Drivers, NEW st \in PhaseStatus, NEW pc \in InPhase,
           drv[w].pc \in InPhase, UpdatePhase(w, st, pc)
    PROVE  IndInv'
  <1> DEFINE s == [pc |-> pc, ctx |-> drv[w].ctx, d |-> drv[w].d,
                   list |-> drv[w].list, i |-> drv[w].i]
  <1>1. Current(w) \in 1..Len(phases)
    BY CurrentPhase
  <1>2. phases' = [phases EXCEPT ![Current(w)] = [@ EXCEPT !.status = st]]
    BY DEF UpdatePhase
  <1>3. phases' \in Seq(PhaseRow) /\ Len(phases') = Len(phases) /\ Len(phases) <= Len(phases')
    BY <1>1, <1>2, PhaseUpdate, IndInvFacts
  <1>4. drv' = [drv EXCEPT ![w] = s]
    BY DEF UpdatePhase, Jump, Goto
  <1>5. s \in DriverRec(Len(phases'))
    BY <1>3, IndInvFacts DEF DriverRec, DriverPc, InPhase
  <1>6. DriverOK(s)
    BY DEF IndInv, DriverOK, InPhase, Driving
  <1>7. /\ row' \in Row \cup {Absent} /\ RowOK(row') /\ (row' = Absent => row = Absent)
        /\ recorded' \in BOOLEAN /\ faults' \in 0..MaxFaults
        /\ msg' \in [state : {"none", "queued", "acked"}, deliveries : 0..MaxDeliver]
        /\ UNCHANGED <<canary, rollout, req, ops>>
    BY DEF UpdatePhase, IndInv, TypeOK
  <1> HIDE DEF s
  <1> QED
    BY <1>3, <1>4, <1>5, <1>6, <1>7, DriverMove

LEMMA PassPhaseStep ==
    ASSUME IndInv, NEW w \in Drivers, PassPhase(w) PROVE IndInv'
  <1> DEFINE j == drv[w].i + 1
             s == [pc |-> LoopPc(drv[w].list, j), ctx |-> drv[w].ctx, d |-> drv[w].d,
                   list |-> drv[w].list, i |-> j]
  <1>0. drv[w].pc \in InPhase
    BY DEF PassPhase, At, InPhase
  <1>1. Current(w) \in 1..Len(phases)
    BY <1>0, CurrentPhase
  <1>2. phases' = [phases EXCEPT ![Current(w)] = [@ EXCEPT !.status = "passed"]]
    BY DEF PassPhase
  <1>3. phases' \in Seq(PhaseRow) /\ Len(phases') = Len(phases) /\ Len(phases) <= Len(phases')
    <2>1. "passed" \in PhaseStatus
      BY DEF PhaseStatus
    <2> QED
      BY <1>1, <1>2, <2>1, PhaseUpdate, IndInvFacts
  <1>4. drv' = [drv EXCEPT ![w] = s]
    BY DEF PassPhase, Goto
  <1>5. drv[w].list \in Seq(1..Len(phases)) /\ Len(drv[w].list) \in Nat /\ drv[w].i \in 1..Len(drv[w].list)
    BY <1>0, IndInvFacts, LenProperties DEF DriverRec, IndInv, DriverOK
  <1>6. s \in DriverRec(Len(phases'))
    BY <1>3, <1>5, IndInvFacts DEF DriverRec, DriverPc, LoopPc
  <1>7. DriverOK(s)
    BY <1>0, <1>5 DEF IndInv, DriverOK, InPhase, Driving, LoopPc
  <1>8. /\ row' \in Row \cup {Absent} /\ RowOK(row') /\ (row' = Absent => row = Absent)
        /\ recorded' \in BOOLEAN /\ faults' \in 0..MaxFaults
        /\ msg' \in [state : {"none", "queued", "acked"}, deliveries : 0..MaxDeliver]
        /\ UNCHANGED <<canary, rollout, req, ops>>
    BY DEF PassPhase, IndInv, TypeOK
  <1> HIDE DEF s
  <1> QED
    BY <1>3, <1>4, <1>6, <1>7, <1>8, DriverMove

\* A driver in a phase holds a running row.
LEMMA RunningCopy ==
    ASSUME IndInv, NEW w \in Drivers, drv[w].pc \in InPhase \cup {"complete"}
    PROVE  drv[w].d \in Row /\ RowOK(drv[w].d) /\ drv[w].d.status = "running"
  <1>1. drv[w].d \in Row \cup {Absent} /\ RowOK(drv[w].d) /\ drv[w].d.status = "running"
    BY IndInvFacts DEF IndInv, DriverRec, DriverOK, Driving
  <1> QED
    BY <1>1 DEF Absent

LEMMA ActivateStep ==
    ASSUME IndInv, NEW w \in Drivers, Activate(w) PROVE IndInv'
  <1>1. UpdatePhase(w, "active", "traffic") /\ drv[w].pc \in InPhase
    BY DEF Activate, At, InPhase
  <1>2. "active" \in PhaseStatus /\ "traffic" \in InPhase
    BY DEF PhaseStatus, InPhase
  <1> QED
    BY <1>1, <1>2, UpdatePhaseStep

LEMMA ShiftTrafficStep ==
    ASSUME IndInv, NEW w \in Drivers, ShiftTraffic(w) PROVE IndInv'
  <1> DEFINE d == [drv[w].d EXCEPT !.traffic = StepOf(w).pct]
  <1>1. drv[w].pc \in InPhase
    BY DEF ShiftTraffic, At, InPhase
  <1>2. drv[w].d \in Row /\ RowOK(drv[w].d) /\ drv[w].d.status = "running"
    BY <1>1, RunningCopy
  <1>3. StepOf(w).pct \in Percent
    BY <1>1, CurrentPhase
  <1>4. d \in Row /\ RowOK(d)
    BY <1>2, <1>3, TrafficRow
  <1>5. d.status = "running"
    BY <1>2 DEF Row
  <1>6. WriteRow(w, d, "wait") /\ phases' = phases /\ recorded' \in BOOLEAN
    BY DEF ShiftTraffic, IndInv, TypeOK
  <1>7. "wait" \in DriverPc
    BY DEF DriverPc
  <1> HIDE DEF d
  <1> QED
    BY <1>1, <1>4, <1>5, <1>6, <1>7, DriverWrite

LEMMA BakeStep ==
    ASSUME IndInv, NEW w \in Drivers, Bake(w) PROVE IndInv'
  <1>1. /\ faults' \in 0..MaxFaults
        /\ UNCHANGED <<row, canary, phases, rollout, msg, req, recorded, ops>>
    BY DEF Bake, IndInv, TypeOK
  <1>2. drv[w].pc \in InPhase
    BY DEF Bake, At, InPhase
  <1>3. Jump(w, "fail") \/ Jump(w, "pass") \/ Jump(w, "gate")
    BY DEF Bake
  <1>4. {"fail", "pass", "gate"} \subseteq InPhase /\ {"fail", "pass", "gate"} \subseteq DriverPc
    BY DEF InPhase, DriverPc
  <1> QED
    BY <1>1, <1>2, <1>3, <1>4, DriverJump

LEMMA FailPhaseStep ==
    ASSUME IndInv, NEW w \in Drivers, FailPhase(w) PROVE IndInv'
  <1>1. drv[w].pc \in InPhase /\ "rollback" \in InPhase /\ "rollback" \in DriverPc
        /\ "failed" \in PhaseStatus
    BY DEF FailPhase, At, InPhase, DriverPc, PhaseStatus
  <1>2. CASE UpdatePhase(w, "failed", "rollback")
    BY <1>1, <1>2, UpdatePhaseStep
  <1>3. CASE ~UpdatePhase(w, "failed", "rollback")
    <2>1. /\ faults < MaxFaults /\ faults' = faults + 1
          /\ Jump(w, "rollback")
          /\ UNCHANGED <<row, canary, phases, rollout, msg, req, recorded, ops>>
      BY <1>3 DEF FailPhase
    <2>2. faults \in 0..MaxFaults
      BY DEF IndInv, TypeOK
    <2>3. faults' \in 0..MaxFaults
      BY <2>1, <2>2, BoundsAssumption
    <2> QED
      BY <1>1, <2>1, <2>3, DriverJump
  <1> QED
    BY <1>2, <1>3

LEMMA TriggerRollbackStep ==
    ASSUME IndInv, NEW w \in Drivers, TriggerRollback(w) PROVE IndInv'
  <1> DEFINE d == [TransitionTo(drv[w].d, "rolled_back") EXCEPT !.traffic = 0]
  <1>1. drv[w].pc \in InPhase
    BY DEF TriggerRollback, At, InPhase
  <1>2. drv[w].d \in Row /\ RowOK(drv[w].d) /\ drv[w].d.status = "running"
    BY <1>1, RunningCopy
  <1>3. 0 \in Percent
    BY DEF Percent
  <1>4. d \in Row /\ RowOK(d)
    BY <1>2, <1>3, EndRow
  <1>5. WriteRow(w, d, "idle") /\ phases' = phases
    BY DEF TriggerRollback
  <1>6. recorded' \in BOOLEAN
    BY DEF TriggerRollback, IndInv, TypeOK
  <1>7. "idle" \in DriverPc
    BY DEF DriverPc
  <1> HIDE DEF d
  <1> QED
    BY <1>4, <1>5, <1>6, <1>7, DriverWrite

LEMMA ManualGateStep ==
    ASSUME IndInv, NEW w \in Drivers, ManualGate(w) PROVE IndInv'
  <1> DEFINE d == TransitionTo(drv[w].d, "paused")
  <1>1. drv[w].pc \in InPhase
    BY DEF ManualGate, At, InPhase
  <1>2. drv[w].d \in Row /\ RowOK(drv[w].d) /\ drv[w].d.status = "running"
    BY <1>1, RunningCopy
  <1>3. d \in Row /\ RowOK(d)
    BY <1>2, TransitionRow DEF DeployStatus
  <1>4. WriteRow(w, d, "idle") /\ phases' = phases /\ recorded' \in BOOLEAN
    BY DEF ManualGate, IndInv, TypeOK
  <1>5. "idle" \in DriverPc
    BY DEF DriverPc
  <1> HIDE DEF d
  <1> QED
    BY <1>3, <1>4, <1>5, DriverWrite

LEMMA CompleteStep ==
    ASSUME IndInv, NEW w \in Drivers, Complete(w) PROVE IndInv'
  <1> DEFINE d == [TransitionTo(drv[w].d, "completed") EXCEPT !.traffic = 100]
  <1>2. drv[w].d \in Row /\ RowOK(drv[w].d) /\ drv[w].d.status = "running"
    BY RunningCopy DEF Complete, At
  <1>3. 100 \in Percent
    BY DEF Percent
  <1>4. d \in Row /\ RowOK(d)
    BY <1>2, <1>3, EndRow
  <1>5. WriteRow(w, d, "idle") /\ phases' = phases /\ recorded' \in BOOLEAN
    BY DEF Complete, IndInv, TypeOK
  <1>7. "idle" \in DriverPc
    BY DEF DriverPc
  <1> HIDE DEF d
  <1> QED
    BY <1>4, <1>5, <1>7, DriverWrite

LEMMA DriverStepOK ==
    ASSUME IndInv, NEW w \in Drivers, DriverStep(w) PROVE IndInv'
  BY GetStep, GuardStep, StartRunningStep, LoadPhasesStep, CreatePhaseStep, ActivateStep,
     ShiftTrafficStep, BakeStep, FailPhaseStep, TriggerRollbackStep, ManualGateStep,
     PassPhaseStep, CompleteStep DEF DriverStep

\* The state of a goroutine that starts.
LEMMA SpawnOK ==
    ASSUME NEW n \in Nat, NEW by \in {"engine", "request"}
    PROVE  LET s == [pc |-> "get", ctx |-> by, d |-> Absent, list |-> <<>>, i |-> 0]
           IN  s \in DriverRec(n) /\ DriverOK(s)
  BY EmptySeq DEF DriverRec, DriverOK, DriverPc, InPhase, Driving, RowOK, Timestamps,
                  Absent, TerminalStatus

LEMMA DeliverStep ==
    ASSUME IndInv, NEW w \in Drivers, Deliver(w) PROVE IndInv'
  <1> DEFINE s == [pc |-> "get", ctx |-> "engine", d |-> Absent, list |-> <<>>, i |-> 0]
  <1>1. s \in DriverRec(Len(phases)) /\ DriverOK(s)
    BY SpawnOK, IndInvFacts
  <1>2. drv' = [drv EXCEPT ![w] = s]
    BY DEF Deliver, Spawn
  <1>3. phases' \in Seq(PhaseRow) /\ phases' = phases /\ Len(phases) <= Len(phases')
    BY IndInvFacts DEF Deliver
  <1>4. row' \in Row \cup {Absent} /\ RowOK(row') /\ (row' = Absent => row = Absent)
    BY DEF Deliver, IndInv, TypeOK
  <1>5. recorded' \in BOOLEAN /\ faults' \in 0..MaxFaults /\ UNCHANGED <<canary, rollout, req, ops>>
    BY DEF Deliver, IndInv, TypeOK
  <1>6. msg' \in [state : {"none", "queued", "acked"}, deliveries : 0..MaxDeliver]
    <2>1. msg.deliveries \in 0..MaxDeliver
      BY DEF IndInv, TypeOK
    <2>2. msg.deliveries + 1 \in 0..MaxDeliver
      BY <2>1, BoundsAssumption DEF Deliver
    <2>3. PICK st \in {"queued", "acked"} : msg' = [state |-> st, deliveries |-> msg.deliveries + 1]
      BY DEF Deliver
    <2> QED
      BY <2>2, <2>3
  <1>7. s \in DriverRec(Len(phases'))
    BY <1>1, <1>3
  <1> HIDE DEF s
  <1> QED
    BY <1>1, <1>2, <1>3, <1>4, <1>5, <1>6, <1>7, DriverMove

LEMMA RequestEndsStep ==
    ASSUME IndInv, NEW w \in Drivers, RequestEnds(w) PROVE IndInv'
  <1> DEFINE s == [drv[w] EXCEPT !.ctx = "cancelled"]
  <1>1. drv[w] \in DriverRec(Len(phases)) /\ DriverOK(drv[w])
    BY IndInvFacts DEF IndInv
  <1>2. s \in DriverRec(Len(phases)) /\ DriverOK(s)
    BY <1>1 DEF DriverRec, DriverOK
  <1>3. drv' = [drv EXCEPT ![w] = s]
    BY DEF RequestEnds
  <1>4. faults' \in 0..MaxFaults /\ UNCHANGED <<row, canary, phases, rollout, msg, req, recorded, ops>>
    BY DEF RequestEnds, IndInv, TypeOK
  <1> HIDE DEF s
  <1> QED
    BY <1>2, <1>3, <1>4, DriverLocal

LEMMA CancelledDriverExitsStep ==
    ASSUME IndInv, NEW w \in Drivers, CancelledDriverExits(w) PROVE IndInv'
  <1>1. Exit(w) /\ UNCHANGED <<row, canary, phases, rollout, msg, req, recorded, ops>>
    BY DEF CancelledDriverExits
  <1>2. faults' \in 0..MaxFaults
    BY DEF CancelledDriverExits, IndInv, TypeOK
  <1> QED
    BY <1>1, <1>2, DriverExit

LEMMA RepoErrorStep ==
    ASSUME IndInv, NEW w \in Drivers, RepoError(w) PROVE IndInv'
  <1>1. Exit(w) /\ UNCHANGED <<row, canary, phases, rollout, msg, req, recorded, ops>>
    BY DEF RepoError
  <1>2. faults \in 0..MaxFaults /\ faults < MaxFaults /\ faults' = faults + 1
    BY DEF RepoError, IndInv, TypeOK
  <1>3. faults' \in 0..MaxFaults
    BY <1>2, BoundsAssumption
  <1> QED
    BY <1>1, <1>3, DriverExit

-----------------------------------------------------------------------------
(* Every step of a request preserves the invariant.                        *)

\* A request that changes its own state only.
LEMMA CallerLocal ==
    ASSUME IndInv, NEW c \in Callers, NEW r, r \in CallerRec(Len(phases)), CallerOK(r),
           req' = [req EXCEPT ![c] = r], ops' \in 0..MaxOps,
           UNCHANGED <<row, canary, phases, rollout, msg, drv, recorded, faults>>
    PROVE  IndInv'
  <1>1. phases' \in Seq(PhaseRow) /\ Len(phases') = Len(phases)
    BY IndInvFacts
  <1>2. row' \in Row \cup {Absent} /\ RowOK(row') /\ (row' = Absent => row = Absent)
    BY DEF IndInv, TypeOK
  <1>3. drv' \in [Drivers -> DriverRec(Len(phases))] /\ \A w \in Drivers : DriverOK(drv'[w])
    BY IndInvFacts DEF IndInv
  <1>4. UNCHANGED <<canary, rollout, msg, recorded, faults>>
    OBVIOUS
  <1> QED
    BY <1>1, <1>2, <1>3, <1>4, CallerMove

LEMMA ReadForOpStep ==
    ASSUME IndInv, NEW c \in Callers, NEW op \in Ops \ {"setTraffic"}, ReadForOp(c, op)
    PROVE  IndInv'
  <1> DEFINE r == [pc |-> IF op = "advance" THEN "phase" ELSE "write",
                   op |-> op, base |-> row, d |-> Result(op, row), phase |-> 0]
  <1>1. row \in Row /\ RowOK(row) /\ Allowed(op, row) /\ row # Absent
    BY DEF ReadForOp, IndInv, TypeOK
  <1>2. op \in Operations \ {"setTraffic"}
    BY OpsAssumption
  <1>3. Result(op, row) \in Row
    BY <1>1, <1>2, ResultRow
  <1>4. r \in CallerRec(Len(phases))
    BY <1>1, <1>2, <1>3, IndInvFacts DEF CallerRec
  <1>5. CallerOK(r)
    BY <1>1 DEF CallerOK
  <1>6. req' = [req EXCEPT ![c] = r]
    BY DEF ReadForOp
  <1>7. UNCHANGED <<row, canary, phases, rollout, msg, drv, recorded, faults>>
    BY DEF ReadForOp
  <1>8. ops \in 0..MaxOps /\ ops < MaxOps /\ ops' = ops + 1
    BY DEF ReadForOp, IndInv, TypeOK
  <1>9. ops' \in 0..MaxOps
    BY <1>8, BoundsAssumption
  <1> HIDE DEF r
  <1> QED
    BY <1>4, <1>5, <1>6, <1>7, <1>9, CallerLocal

LEMMA ReadForTrafficStep ==
    ASSUME IndInv, NEW c \in Callers, "setTraffic" \in Ops, NEW pct \in RolloutPcts,
           ReadForTraffic(c, pct)
    PROVE  IndInv'
  <1> DEFINE d == [row EXCEPT !.traffic = pct]
             r == [pc |-> "write", op |-> "setTraffic", base |-> row, d |-> d, phase |-> 0]
  <1>1. row # Absent
    BY DEF ReadForTraffic, IndInv
  <1>2. row \in Row /\ RowOK(row) /\ pct \in Percent
    BY <1>1, PctsAssumption DEF IndInv, TypeOK
  <1>3. d \in Row
    BY <1>2, TrafficRow
  <1>4. \E p \in Percent : d = [row EXCEPT !.traffic = p]
    BY <1>2
  <1> HIDE DEF d
  <1>5. r \in CallerRec(Len(phases))
    BY <1>2, <1>3, IndInvFacts DEF CallerRec, Operations
  <1>6. CallerOK(r)
    BY <1>1, <1>2, <1>4 DEF CallerOK
  <1>7. req' = [req EXCEPT ![c] = r]
    BY DEF ReadForTraffic, d
  <1>8. UNCHANGED <<row, canary, phases, rollout, msg, drv, recorded, faults>>
    BY DEF ReadForTraffic
  <1>9. ops \in 0..MaxOps /\ ops < MaxOps /\ ops' = ops + 1
    BY DEF ReadForTraffic, IndInv, TypeOK
  <1>10. ops' \in 0..MaxOps
    BY <1>9, BoundsAssumption
  <1> HIDE DEF r
  <1> QED
    BY <1>5, <1>6, <1>7, <1>8, <1>10, CallerLocal

\* A request in progress holds a row that exists and a well-formed change to it.
LEMMA PendingWrite ==
    ASSUME IndInv, NEW c \in Callers, req[c].pc # "idle"
    PROVE  /\ req[c].base \in Row /\ RowOK(req[c].base)
           /\ req[c].d \in Row /\ RowOK(req[c].d)
  <1>1. req[c] \in CallerRec(Len(phases)) /\ CallerOK(req[c])
    BY IndInvFacts DEF IndInv
  <1>2. req[c].base \in Row /\ RowOK(req[c].base) /\ req[c].op \in Ops
    BY <1>1 DEF CallerRec, CallerOK
  <1>3. CASE req[c].op = "setTraffic"
    <2>1. PICK pct \in Percent : req[c].d = [req[c].base EXCEPT !.traffic = pct]
      BY <1>1, <1>3 DEF CallerOK
    <2>2. "setTraffic" \in Ops \/ req[c].base.status = "running"
      BY <1>2, <1>3
    <2>3. /\ [req[c].base EXCEPT !.traffic = pct] \in Row
          /\ RowOK([req[c].base EXCEPT !.traffic = pct])
      BY <1>2, <2>2, TrafficRow
    <2> QED
      BY <1>2, <2>1, <2>3
  <1>4. CASE req[c].op # "setTraffic"
    <2>1. Allowed(req[c].op, req[c].base) /\ req[c].d = Result(req[c].op, req[c].base)
      BY <1>1, <1>4 DEF CallerOK
    <2>2. req[c].op \in Operations \ {"setTraffic"}
      BY <1>2, <1>4, OpsAssumption
    <2>3. Result(req[c].op, req[c].base) \in Row /\ RowOK(Result(req[c].op, req[c].base))
      BY <1>2, <2>1, <2>2, ResultRow
    <2> QED
      BY <1>2, <2>1, <2>3
  <1> QED
    BY <1>3, <1>4

LEMMA AdvanceFindPhaseStep ==
    ASSUME IndInv, NEW c \in Callers, AdvanceFindPhase(c) PROVE IndInv'
  <1>1. req[c] \in CallerRec(Len(phases)) /\ CallerOK(req[c]) /\ req[c].pc = "phase"
    BY IndInvFacts DEF IndInv, AdvanceFindPhase
  <1>2. UNCHANGED <<row, canary, phases, rollout, msg, drv, recorded, faults>> /\ ops' \in 0..MaxOps
    BY DEF AdvanceFindPhase, IndInv, TypeOK
  <1>3. CASE req' = [req EXCEPT ![c] = IdleCaller]
    <2>1. IdleCaller \in CallerRec(Len(phases)) /\ CallerOK(IdleCaller)
      BY IdleCallerIsOK, IndInvFacts
    <2> QED
      BY <1>2, <1>3, <2>1, CallerLocal
  <1>4. CASE req' # [req EXCEPT ![c] = IdleCaller]
    <2>1. PICK p \in 1..Len(phases) :
            req' = [req EXCEPT ![c] = [pc |-> "pass", op |-> "advance", base |-> req[c].base,
                                       d |-> req[c].d, phase |-> p]]
      BY <1>4 DEF AdvanceFindPhase
    <2> DEFINE r == [pc |-> "pass", op |-> "advance", base |-> req[c].base,
                     d |-> req[c].d, phase |-> p]
    <2>2. req' = [req EXCEPT ![c] = r]
      BY <2>1
    <2>3. r \in CallerRec(Len(phases))
      BY <1>1, IndInvFacts DEF CallerRec, Operations
    <2>4. CallerOK(r)
      BY <1>1, IndInvFacts DEF CallerOK
    <2> HIDE DEF r
    <2> QED
      BY <1>2, <2>2, <2>3, <2>4, CallerLocal
  <1> QED
    BY <1>3, <1>4

LEMMA AdvancePassPhaseStep ==
    ASSUME IndInv, NEW c \in Callers, AdvancePassPhase(c) PROVE IndInv'
  <1> DEFINE r == [req[c] EXCEPT !.pc = "write"]
  <1>1. req[c] \in CallerRec(Len(phases)) /\ CallerOK(req[c]) /\ req[c].pc = "pass"
    BY IndInvFacts DEF IndInv, AdvancePassPhase
  <1>2. req[c].phase \in 1..Len(phases) /\ "passed" \in PhaseStatus
    BY <1>1, IndInvFacts DEF CallerOK, CallerRec, PhaseStatus
  <1>3. phases' \in Seq(PhaseRow) /\ Len(phases') = Len(phases)
    BY <1>2, IndInvFacts, PhaseUpdate DEF AdvancePassPhase
  <1>4. r \in CallerRec(Len(phases))
    BY <1>1 DEF CallerRec
  <1>5. CallerOK(r)
    BY <1>1 DEF CallerOK, CallerRec
  <1>6. req' = [req EXCEPT ![c] = r]
    BY DEF AdvancePassPhase
  <1>7. row' \in Row \cup {Absent} /\ RowOK(row') /\ (row' = Absent => row = Absent)
    BY DEF AdvancePassPhase, IndInv, TypeOK
  <1>8. drv' \in [Drivers -> DriverRec(Len(phases))] /\ \A w \in Drivers : DriverOK(drv'[w])
    BY IndInvFacts DEF AdvancePassPhase, IndInv
  <1>9. ops' \in 0..MaxOps /\ UNCHANGED <<canary, rollout, msg, recorded, faults>>
    BY DEF AdvancePassPhase, IndInv, TypeOK
  <1> HIDE DEF r
  <1> QED
    BY <1>3, <1>4, <1>5, <1>6, <1>7, <1>8, <1>9, CallerMove

LEMMA WriteForOpStep ==
    ASSUME IndInv, NEW c \in Callers, WriteForOp(c) PROVE IndInv'
  <1>1. req[c].d \in Row /\ RowOK(req[c].d)
    BY PendingWrite DEF WriteForOp
  <1>2. row' \in Row \cup {Absent} /\ RowOK(row') /\ (row' = Absent => row = Absent)
    <2>1. row' = req[c].d
      BY DEF WriteForOp
    <2>2. req[c].d # Absent
      BY <1>1 DEF Row, Absent, DeployStatus, TerminalStatus
    <2> QED
      BY <1>1, <2>1, <2>2
  <1>3. phases' \in Seq(PhaseRow) /\ Len(phases') = Len(phases)
    BY IndInvFacts DEF WriteForOp
  <1>4. IdleCaller \in CallerRec(Len(phases)) /\ CallerOK(IdleCaller)
    BY IdleCallerIsOK, IndInvFacts
  <1>5. req' = [req EXCEPT ![c] = IdleCaller]
    BY DEF WriteForOp
  <1>6. drv' \in [Drivers -> DriverRec(Len(phases))] /\ \A w \in Drivers : DriverOK(drv'[w])
    <2> DEFINE s == [pc |-> "get", ctx |-> "request", d |-> Absent, list |-> <<>>, i |-> 0]
    <2>1. s \in DriverRec(Len(phases)) /\ DriverOK(s)
      BY SpawnOK, IndInvFacts
    <2>2. \/ drv' = drv
          \/ \E w \in Drivers : drv' = [drv EXCEPT ![w] = s]
      BY DEF WriteForOp, Spawn
    <2> HIDE DEF s
    <2> QED
      BY <2>1, <2>2, IndInvFacts DEF IndInv
  <1>7. ops' \in 0..MaxOps /\ UNCHANGED <<canary, rollout, msg, recorded, faults>>
    BY DEF WriteForOp, IndInv, TypeOK
  <1> QED
    BY <1>2, <1>3, <1>4, <1>5, <1>6, <1>7, CallerMove

-----------------------------------------------------------------------------
(* The remaining steps, and the induction.                                 *)

LEMMA CreateDeploymentStep ==
    ASSUME IndInv, CreateDeployment PROVE IndInv'
  <1>1. PICK r \in Requests, st \in Published :
          /\ row' = NewRow(r)
          /\ canary' = r.canary
          /\ rollout' = IF r.rollout /\ ~r.record THEN "wanted" ELSE "none"
          /\ msg' = [msg EXCEPT !.state = IF r.record THEN "none" ELSE st]
    BY DEF CreateDeployment
  <1>2. row' \in Row /\ RowOK(row') /\ row' # Absent
    <2>1. CASE r.record
      BY <1>1, <2>1 DEF NewRow, Row, RowOK, Timestamps, Absent, DeployStatus, TerminalStatus, Percent
    <2>2. CASE ~r.record
      BY <1>1, <2>2 DEF NewRow, Row, RowOK, Timestamps, Absent, DeployStatus, TerminalStatus, Percent
    <2> QED
      BY <2>1, <2>2
  <1>3. canary' \in BOOLEAN
    BY <1>1, RequestsAssumption
  <1>4. rollout' \in {"none", "wanted", "active", "ended"}
    BY <1>1
  <1>5. msg' \in [state : {"none", "queued", "acked"}, deliveries : 0..MaxDeliver]
    BY <1>1 DEF Published, IndInv, TypeOK
  <1>6. UNCHANGED <<phases, drv, req, recorded, ops, faults>>
    BY DEF CreateDeployment
  <1>7. TypeOK'
    BY <1>2, <1>3, <1>4, <1>5, <1>6 DEF IndInv, TypeOK
  <1> QED
    BY <1>2, <1>6, <1>7 DEF IndInv

LEMMA RolloutStep ==
    ASSUME IndInv, AttachRollout \/ RolloutEnds PROVE IndInv'
  <1>1. UNCHANGED <<row, canary, phases, msg, drv, req, recorded, ops, faults>>
    BY DEF AttachRollout, RolloutEnds
  <1>2. rollout' \in {"active", "ended"} /\ row # Absent
    BY DEF AttachRollout, RolloutEnds, IndInv
  <1>3. TypeOK'
    BY <1>1, <1>2 DEF IndInv, TypeOK
  <1> QED
    BY <1>1, <1>2, <1>3 DEF IndInv

LEMMA CrashStep ==
    ASSUME IndInv, Crash PROVE IndInv'
  <1>1. drv' \in [Drivers -> DriverRec(Len(phases))] /\ \A w \in Drivers : DriverOK(drv'[w])
    BY IdleDriverIsOK, IndInvFacts DEF Crash
  <1>2. req' \in [Callers -> CallerRec(Len(phases))] /\ \A c \in Callers : CallerOK(req'[c])
    BY IdleCallerIsOK, IndInvFacts DEF Crash
  <1>3. rollout' \in {"none", "wanted", "active", "ended"} /\ (row' = Absent => rollout' = "none")
    BY DEF Crash, IndInv, TypeOK
  <1>4. faults' \in 0..MaxFaults
    <2>1. faults \in 0..MaxFaults /\ faults < MaxFaults /\ faults' = faults + 1
      BY DEF Crash, IndInv, TypeOK
    <2> QED
      BY <2>1, BoundsAssumption
  <1>5. UNCHANGED <<row, canary, phases, msg, recorded, ops>>
    BY DEF Crash
  <1>6. TypeOK'
    BY <1>1, <1>2, <1>3, <1>4, <1>5 DEF IndInv, TypeOK, DriverRec, CallerRec
  <1> QED
    BY <1>1, <1>2, <1>3, <1>5, <1>6 DEF IndInv

LEMMA IndInvNext == IndInv /\ [Next]_vars => IndInv'
  <1> SUFFICES ASSUME IndInv, [Next]_vars PROVE IndInv'
    OBVIOUS
  <1>1. CASE CreateDeployment
    BY <1>1, CreateDeploymentStep
  <1>2. CASE AttachRollout \/ RolloutEnds
    BY <1>2, RolloutStep
  <1>3. ASSUME NEW w \in Drivers,
               Deliver(w) \/ DriverStep(w) \/ RequestEnds(w) \/ CancelledDriverExits(w) \/ RepoError(w)
        PROVE  IndInv'
    BY <1>3, DeliverStep, DriverStepOK, RequestEndsStep, CancelledDriverExitsStep, RepoErrorStep
  <1>4. ASSUME NEW c \in Callers, ServiceOp(c) \/ CallerStep(c) PROVE IndInv'
    <2>1. CASE ServiceOp(c)
      BY <2>1, ReadForOpStep, ReadForTrafficStep DEF ServiceOp
    <2>2. CASE CallerStep(c)
      BY <2>2, AdvanceFindPhaseStep, AdvancePassPhaseStep, WriteForOpStep DEF CallerStep
    <2> QED
      BY <1>4, <2>1, <2>2
  <1>5. CASE Crash
    BY <1>5, CrashStep
  <1>6. CASE UNCHANGED vars
    BY <1>6 DEF vars, IndInv, TypeOK
  <1> QED
    BY <1>1, <1>2, <1>3, <1>4, <1>5, <1>6 DEF Next

\* The strengthened invariant holds of every reachable state.
THEOREM Inductive == Spec => []IndInv
  BY IndInvInit, IndInvNext, PTL DEF Spec

-----------------------------------------------------------------------------
(* What it implies.                                                        *)

\* Every stored row, phase, message, driver and request has its type in every
\* reachable state; in particular no driver ever indexes a phase that is not
\* there or a step that is not configured (engine.go driveDeployment).
THEOREM TypeCorrect == Spec => []TypeOK
  <1>1. IndInv => TypeOK
    BY DEF IndInv
  <1> QED
    BY <1>1, Inductive, PTL

\* The stored timestamps agree with the stored status whatever overwrites what,
\* because every copy anyone may write is itself consistent (models/deployment.go
\* TransitionTo, deploy/service.go, engine.go).
THEOREM TimestampsAlwaysMatch == Spec => []TimestampsMatchStatus
  <1>1. IndInv => TimestampsMatchStatus
    BY DEF IndInv, RowOK, TimestampsMatchStatus
  <1> QED
    BY <1>1, Inductive, PTL

\* When only the deploy service and the phase engine set traffic, a promoting or
\* completed row carries all of it (PromoteDeployment, driveDeployment).
THEOREM FullTrafficAlways == Spec => []FullTrafficWhenPromoted
  <1>1. IndInv => FullTrafficWhenPromoted
    BY DEF IndInv, RowOK, FullTrafficWhenPromoted
  <1> QED
    BY <1>1, Inductive, PTL

\* The target of every write is a legal move of the copy it was computed from.
LEMMA ResultIsLegal ==
    ASSUME NEW op \in Operations \ {"setTraffic"}, NEW d \in Row, Allowed(op, d)
    PROVE  Result(op, d).status \in validTransitions[d.status]
  <1>1. d.status \in DeployStatus
    BY DEF Row
  <1>2. CASE op \in {"promote", "rollback", "cancel"}
    BY <1>1, <1>2 DEF Result, Allowed, ValidateTransition, TransitionTo
  <1>3. CASE op \in {"pause", "resume", "advance"}
    <2>1. \/ Result(op, d).status = "paused" /\ d.status = "running"
          \/ Result(op, d).status = "running" /\ d.status = "paused"
      BY <1>3 DEF Result, Allowed, TransitionTo
    <2>2. "paused" \in validTransitions["running"] /\ "running" \in validTransitions["paused"]
      BY DEF validTransitions, DeployStatus
    <2> QED
      BY <2>1, <2>2
  <1> QED
    BY <1>2, <1>3 DEF Operations

\* What a driver writes is a legal move of the copy it holds.
LEMMA DriverWriteIsLegal ==
    ASSUME IndInv, NEW w \in Drivers, DriverStep(w), row' # row
    PROVE  /\ \/ row'.status = drv[w].d.status
              \/ row'.status \in validTransitions[drv[w].d.status]
           /\ drv[w].pc # "idle" /\ drv'[w] # drv[w]
  <1>1. drv \in [Drivers -> DriverRec(Len(phases))] /\ DriverOK(drv[w])
    BY IndInvFacts DEF IndInv
  <1>2. CASE StartRunning(w)
    <2>1. row' = TransitionTo(drv[w].d, "running") /\ drv[w].pc = "start" /\ drv'[w].pc = "list"
      BY <1>1, <1>2 DEF StartRunning, WriteRow, At, Goto
    <2>2. drv[w].d.status = "pending" /\ row'.status = "running"
      BY <1>1, <2>1 DEF DriverOK, TransitionTo
    <2>3. "running" \in validTransitions["pending"]
      BY DEF validTransitions, DeployStatus
    <2> QED
      BY <2>1, <2>2, <2>3
  <1>3. CASE ShiftTraffic(w)
    <2>1. row' = [drv[w].d EXCEPT !.traffic = StepOf(w).pct] /\ drv[w].pc = "traffic" /\ drv'[w].pc = "wait"
      BY <1>1, <1>3 DEF ShiftTraffic, WriteRow, At, Goto
    <2>2. drv[w].d \in Row
      BY <2>1, RunningCopy DEF InPhase
    <2>3. row'.status = drv[w].d.status
      BY <2>1, <2>2 DEF Row
    <2> QED
      BY <2>1, <2>3
  <1>4. CASE TriggerRollback(w) \/ ManualGate(w) \/ Complete(w)
    <2> DEFINE T(target) == TransitionTo(drv[w].d, target)
    <2>a. PICK e \in {[T("rolled_back") EXCEPT !.traffic = 0], T("paused"),
                      [T("completed") EXCEPT !.traffic = 100]} :
            WriteRow(w, e, "idle") /\ drv[w].pc \in {"rollback", "gate", "complete"}
      BY <1>4 DEF TriggerRollback, ManualGate, Complete, At
    <2>b. drv' = [drv EXCEPT ![w] = IdleDriver] /\ row' = e
      BY <2>a DEF WriteRow, Exit
    <2>1. drv[w].pc \in {"rollback", "gate", "complete"} /\ drv'[w].pc = "idle"
      BY <1>1, <2>a, <2>b DEF IdleDriver
    <2>2. drv[w].d.status = "running"
      BY <2>1, RunningCopy DEF InPhase
    <2>3. row'.status \in {"rolled_back", "paused", "completed"}
      BY <2>a, <2>b DEF TransitionTo
    <2>4. {"rolled_back", "paused", "completed"} \subseteq validTransitions["running"]
      BY DEF validTransitions, DeployStatus, TerminalStatus
    <2> QED
      BY <2>1, <2>2, <2>3, <2>4
  <1> QED
    BY <1>2, <1>3, <1>4 DEF DriverStep, Get, Guard, LoadPhases, CreatePhase, Activate, Bake,
                            FailPhase, PassPhase, UpdatePhase

\* What a request writes is a legal move of the row it read.
LEMMA RequestWriteIsLegal ==
    ASSUME IndInv, NEW c \in Callers, WriteForOp(c)
    PROVE  /\ \/ row'.status = req[c].base.status
              \/ row'.status \in validTransitions[req[c].base.status]
           /\ req'[c] # req[c]
  <1>1. req \in [Callers -> CallerRec(Len(phases))] /\ CallerOK(req[c])
    BY IndInvFacts DEF IndInv
  <1>2. row' = req[c].d /\ req[c].pc = "write" /\ req'[c].pc = "idle"
    BY <1>1 DEF WriteForOp, IdleCaller
  <1>3. req[c].base \in Row /\ req[c].op \in Ops
    BY <1>1, <1>2, PendingWrite DEF CallerOK
  <1>4. CASE req[c].op = "setTraffic"
    <2>1. PICK pct \in Percent : req[c].d = [req[c].base EXCEPT !.traffic = pct]
      BY <1>1, <1>2, <1>4 DEF CallerOK
    <2>2. req[c].d.status = req[c].base.status
      BY <1>3, <2>1 DEF Row
    <2> QED
      BY <1>2, <2>2
  <1>5. CASE req[c].op # "setTraffic"
    <2>1. Allowed(req[c].op, req[c].base) /\ req[c].d = Result(req[c].op, req[c].base)
      BY <1>1, <1>2, <1>5 DEF CallerOK
    <2>2. req[c].op \in Operations \ {"setTraffic"}
      BY <1>3, <1>5, OpsAssumption
    <2> QED
      BY <1>2, <1>3, <2>1, <2>2, ResultIsLegal
  <1> QED
    BY <1>4, <1>5

\* A step moves the stored status against validTransitions only if its writer's
\* copy was out of date: for any number of drivers and requests, optimistic
\* locking on the row is the one thing missing (deploy/service.go, engine.go,
\* postgres UpdateDeployment).
THEOREM OnlyStaleWriters == Spec => OnlyStaleWritersBreakTheStateMachine
  <1>1. IndInv /\ [Next]_vars => [LegalStep \/ StaleWriter]_vars
    <2> SUFFICES ASSUME IndInv, Next, row # Absent, row' # row
                 PROVE  LegalStep \/ StaleWriter
      BY DEF vars, LegalStep
    <2>1. ASSUME NEW w \in Drivers, DriverStep(w) PROVE LegalStep \/ StaleWriter
      BY <2>1, DriverWriteIsLegal DEF LegalStep, StaleWriter
    <2>2. ASSUME NEW c \in Callers, WriteForOp(c) PROVE LegalStep \/ StaleWriter
      BY <2>2, RequestWriteIsLegal DEF LegalStep, StaleWriter
    <2>3. /\ ~CreateDeployment /\ ~AttachRollout /\ ~RolloutEnds /\ ~Crash
          /\ \A w \in Drivers : ~Deliver(w) /\ ~RequestEnds(w) /\ ~CancelledDriverExits(w) /\ ~RepoError(w)
          /\ \A c \in Callers : ~ServiceOp(c) /\ ~AdvanceFindPhase(c) /\ ~AdvancePassPhase(c)
      BY DEF CreateDeployment, AttachRollout, RolloutEnds, Crash, Deliver, RequestEnds,
             CancelledDriverExits, RepoError, ServiceOp, ReadForOp, ReadForTraffic,
             AdvanceFindPhase, AdvancePassPhase
    <2> QED
      BY <2>1, <2>2, <2>3 DEF Next, CallerStep
  <1> QED
    BY <1>1, Inductive, PTL DEF Spec, OnlyStaleWritersBreakTheStateMachine

-----------------------------------------------------------------------------
(* Manual gates: one message, one operator who does not pause.              *)

\* What the situation restricts: the message is delivered once, operators do
\* not pause, and one request is in flight at a time.
Gated == MaxDeliver = 1 /\ "pause" \notin Ops /\ \A b, c \in Callers : b = c

NoDriver == \A w \in Drivers : drv[w].pc = "idle"
Positions == 1..Len(phases)

\* The rows are the steps taken so far, each after the ones before it.
Numbered == Len(phases) <= Len(Steps) /\ \A p \in Positions : phases[p].order = p
Taken ==
    \A p, q \in Positions : p < q /\ phases[q].status # "pending" => phases[p].status = "passed"

\* What a driver needs to start, what a gate leaves, and what completes.
Ready ==
    /\ phases = <<>> \/ Len(phases) = Len(Steps)
    /\ \A p \in Positions : phases[p].status \in {"passed", "pending"}
AtGate == Len(phases) = Len(Steps) /\ \A p \in Positions : phases[p].status # "failed"
Whole == Len(phases) = Len(Steps) /\ \A p \in Positions : phases[p].status = "passed"

\* A deployment that rests at a gate, and one that is over.
Resting == NoDriver /\ AtGate /\ msg.deliveries = 1
Ended == NoDriver /\ (msg.state = "none" \/ (msg.deliveries = 1 /\ Whole))

RowGate ==
    /\ row.status = "paused" => Resting
    /\ row.status = "completed" => Ended

MsgGate ==
    /\ msg.state = "none" => msg.deliveries = 0
    /\ msg.deliveries = 0 => NoDriver /\ phases = <<>>
    /\ row = Absent => msg.state = "none" /\ \A c \in Callers : req[c].pc = "idle"

\* A driver's list is the phases in their order, and it stands at the first
\* that has not passed.
Listed(w) == drv[w].list = [p \in Positions |-> p]
DriverGate(w) ==
    /\ drv[w].pc \in {"get", "guard", "start", "list"} => Ready
    /\ drv[w].pc = "create" =>
        /\ Listed(w) /\ Len(phases) = drv[w].i - 1
        /\ \A p \in Positions : phases[p].status = "pending"
    /\ drv[w].pc \in InPhase =>
        /\ Listed(w) /\ Len(phases) = Len(Steps)
        /\ \A p \in Positions :
            /\ p < drv[w].i => phases[p].status = "passed"
            /\ p > drv[w].i => phases[p].status = "pending"
    /\ drv[w].pc = "activate" => phases[drv[w].i].status = "pending"
    /\ drv[w].pc \in {"traffic", "wait", "fail", "gate", "pass"} =>
        phases[drv[w].i].status = "active"
    /\ drv[w].pc = "complete" => Whole

\* A request that read a resting deployment keeps it at rest.
CallerGate(c) ==
    /\ req[c].pc # "idle" /\ req[c].base.status = "paused" => Resting
    /\ req[c].pc # "idle" /\ req[c].base.status = "completed" => Ended
    /\ req[c].pc = "pass" => req[c].op = "advance" /\ phases[req[c].phase].status = "active"
    /\ req[c].pc = "write" /\ req[c].op = "advance" => Ready

GateInv ==
    /\ Numbered /\ Taken /\ RowGate /\ MsgGate
    /\ \A w \in Drivers : DriverGate(w)
    /\ AtMostOneDriver
    /\ \A c \in Callers : CallerGate(c)

-----------------------------------------------------------------------------
(* What the invariant says while a driver is at work, and between drivers.  *)

\* The stored statuses and orders after one phase is marked.
LEMMA PhaseMarked ==
    ASSUME phases \in Seq(PhaseRow), NEW k \in Positions, NEW st \in PhaseStatus,
           phases' = [phases EXCEPT ![k] = [@ EXCEPT !.status = st]]
    PROVE  /\ Len(phases') = Len(phases)
           /\ \A p \in Positions : /\ phases'[p].order = phases[p].order
                                   /\ phases'[p].status = IF p = k THEN st ELSE phases[p].status
  <1>1. Len(phases') = Len(phases)
    BY PhaseUpdate DEF Positions
  <1>2. phases \in [Positions -> PhaseRow]
    BY SeqDef, LenProperties DEF Positions
  <1>3. ASSUME NEW p \in Positions
        PROVE  /\ phases'[p].order = phases[p].order
               /\ phases'[p].status = IF p = k THEN st ELSE phases[p].status
    <2>1. phases[p] \in PhaseRow
      BY <1>2
    <2>2. phases'[p] = IF p = k THEN [phases[p] EXCEPT !.status = st] ELSE phases[p]
      BY <1>2
    <2> QED
      BY <2>1, <2>2 DEF PhaseRow
  <1> QED
    BY <1>1, <1>3

\* An operation in progress that advances holds a paused row, a request that
\* looks for a phase is an advance, and what any other one will store is not
\* completed or paused unless the row it read was.
LEMMA CallerReads ==
    ASSUME IndInv, NEW c \in Callers, req[c].pc # "idle", "pause" \notin Ops
    PROVE  /\ req[c].op = "advance" => req[c].base.status = "paused" /\ req[c].d.status = "running"
           /\ req[c].d.status = "paused" => req[c].base.status = "paused"
           /\ req[c].d.status = "completed" => req[c].base.status = "completed"
           /\ req[c].d \in Row
  <1>1. req[c] \in CallerRec(Len(phases)) /\ CallerOK(req[c])
    BY IndInvFacts DEF IndInv
  <1>2. req[c].base \in Row /\ req[c].op \in Ops
    BY <1>1 DEF CallerOK, CallerRec
  <1>3. CASE req[c].op = "setTraffic"
    <2>1. PICK pct \in Percent : req[c].d = [req[c].base EXCEPT !.traffic = pct]
      BY <1>1, <1>3 DEF CallerOK
    <2> QED
      BY <1>2, <1>3, <2>1 DEF Row
  <1>4. CASE req[c].op # "setTraffic"
    <2>1. Allowed(req[c].op, req[c].base) /\ req[c].d = Result(req[c].op, req[c].base)
      BY <1>1, <1>4 DEF CallerOK
    <2>2. req[c].op \in Operations \ {"setTraffic", "pause"}
      BY <1>2, <1>4, OpsAssumption
    <2>3. req[c].d.status \notin {"paused", "completed"}
      BY <2>1, <2>2 DEF Result, TransitionTo, Operations
    <2>4. req[c].op = "advance" => req[c].base.status = "paused" /\ req[c].d.status = "running"
      BY <2>1 DEF Result, Allowed, TransitionTo
    <2>5. req[c].d \in Row
      BY <1>1, <1>2, <2>1, <2>2, ResultRow DEF CallerOK
    <2> QED
      BY <2>3, <2>4, <2>5
  <1> QED
    BY <1>3, <1>4

\* While a driver is at work the deployment is neither paused nor completed, no
\* other driver exists, and no request holds a paused or completed row.
LEMMA AtWork ==
    ASSUME IndInv, GateInv, Gated, NEW w \in Drivers, drv[w].pc # "idle"
    PROVE  /\ row # Absent /\ row.status \notin {"paused", "completed"}
           /\ msg.deliveries = 1 /\ msg.state # "none"
           /\ \A v \in Drivers : v # w => drv[v].pc = "idle"
           /\ \A c \in Callers : req[c].pc # "idle" =>
                 /\ req[c].base.status \notin {"paused", "completed"}
                 /\ req[c].op # "advance"
           /\ \A c \in Callers : req[c].pc \notin {"phase", "pass"}
  <1>1. ~NoDriver
    BY DEF NoDriver
  <1>2. msg.deliveries = 1 /\ msg.state # "none"
    <2>1. msg.deliveries \in 0..1
      BY DEF IndInv, TypeOK, Gated
    <2> QED
      BY <1>1, <2>1 DEF GateInv, MsgGate
  <1>3. row # Absent
    BY <1>2 DEF GateInv, MsgGate
  <1>4. row.status \notin {"paused", "completed"}
    BY <1>1 DEF GateInv, RowGate, Resting, Ended
  <1>5. \A v \in Drivers : v # w => drv[v].pc = "idle"
    BY DEF GateInv, AtMostOneDriver
  <1>6. \A c \in Callers : req[c].pc # "idle" => req[c].base.status \notin {"paused", "completed"}
    BY <1>1 DEF GateInv, CallerGate, Resting, Ended
  <1>7. \A c \in Callers : req[c].pc # "idle" => req[c].op # "advance"
    BY <1>6, CallerReads DEF Gated
  <1>8. \A c \in Callers : req[c].pc \notin {"phase", "pass"}
    BY <1>7 DEF IndInv, CallerOK, GateInv, CallerGate
  <1> QED
    BY <1>2, <1>3, <1>4, <1>5, <1>6, <1>7, <1>8

\* A step of a driver at work: what it must show of its new state s.
LEMMA GateMove ==
    ASSUME IndInv, GateInv, Gated, NEW w \in Drivers, drv[w].pc # "idle", NEW s,
           drv' = [drv EXCEPT ![w] = s], UNCHANGED <<msg, req>>,
           Numbered', Taken', DriverGate(w)',
           row' # Absent,
           row'.status = "paused" => s.pc = "idle" /\ AtGate',
           row'.status = "completed" => s.pc = "idle" /\ Whole'
    PROVE  GateInv'
  <1>1. /\ \A v \in Drivers : v # w => drv[v].pc = "idle"
        /\ msg.deliveries = 1 /\ msg.state # "none"
    BY AtWork
  <1>2. \A c \in Callers : req[c].pc # "idle" =>
                 /\ req[c].base.status \notin {"paused", "completed"}
                 /\ req[c].op # "advance"
    BY AtWork
  <1>8. \A c \in Callers : req[c].pc \notin {"phase", "pass"}
    BY AtWork
  <1>3. drv'[w] = s /\ \A v \in Drivers : v # w => drv'[v] = drv[v]
    BY IndInvFacts
  <1>4. s.pc = "idle" => NoDriver'
    BY <1>1, <1>3 DEF NoDriver
  <1>5. RowGate'
    BY <1>1, <1>4 DEF RowGate, Resting, Ended
  <1>6. MsgGate'
    BY <1>1 DEF MsgGate
  <1>7. \A v \in Drivers : DriverGate(v)'
    BY <1>1, <1>3 DEF DriverGate, InPhase
  <1>9. AtMostOneDriver'
    BY <1>1, <1>3 DEF AtMostOneDriver
  <1>10. \A c \in Callers : CallerGate(c)'
    BY <1>2, <1>8 DEF CallerGate
  <1> QED
    BY <1>5, <1>6, <1>7, <1>9, <1>10 DEF GateInv

\* A driver returns, its context gone or its call failed, or an idle slot is
\* left as it is.
LEMMA GateExit ==
    ASSUME IndInv, GateInv, Gated, NEW w \in Drivers, Exit(w),
           UNCHANGED <<row, phases, msg, req>>
    PROVE  GateInv'
  <1>1. drv'[w].pc = "idle" /\ \A v \in Drivers : v # w => drv'[v] = drv[v]
    BY IndInvFacts DEF Exit, IdleDriver
  <1>2. NoDriver => NoDriver'
    BY <1>1 DEF NoDriver
  <1>3. RowGate'
    BY <1>2 DEF GateInv, RowGate, Resting, Ended, AtGate, Whole, Positions
  <1>4. MsgGate'
    BY <1>2 DEF GateInv, MsgGate
  <1>5. \A v \in Drivers : DriverGate(v)'
    BY <1>1 DEF GateInv, DriverGate, InPhase, Listed, Ready, Whole, Positions
  <1>6. AtMostOneDriver'
    BY <1>1 DEF GateInv, AtMostOneDriver
  <1>7. \A c \in Callers : CallerGate(c)'
    BY <1>2 DEF GateInv, CallerGate, Resting, Ended, AtGate, Whole, Ready, Positions
  <1>8. Numbered' /\ Taken'
    BY DEF GateInv, Numbered, Taken, Positions
  <1> QED
    BY <1>3, <1>4, <1>5, <1>6, <1>7, <1>8 DEF GateInv
-----------------------------------------------------------------------------
(* Listing the phases, and the steps of a driver.                           *)

\* With sort_order 1..n in insertion order, the listing is the insertion order.
LEMMA ListingIsInOrder ==
    ASSUME phases \in Seq(PhaseRow), Numbered, NEW list \in ListPhases
    PROVE  list = [p \in Positions |-> p]
  <1>1. Len(phases) \in Nat /\ Positions \subseteq Nat
    BY LenProperties DEF Positions
  <1>2. list \in [Positions -> Positions]
    BY DEF ListPhases, Positions
  <1>3. \A i, j \in Positions : i < j => list[i] < list[j]
    <2> TAKE i, j \in Positions
    <2> HAVE i < j
    <2>1. list[i] # list[j] /\ phases[list[i]].order <= phases[list[j]].order
      BY DEF ListPhases, Positions
    <2>2. list[i] \in Positions /\ list[j] \in Positions
      BY <1>2
    <2>3. phases[list[i]].order = list[i] /\ phases[list[j]].order = list[j]
      BY <2>2 DEF Numbered
    <2>4. list[i] \in Nat /\ list[j] \in Nat
      BY <1>1, <2>2
    <2>5. list[i] <= list[j]
      BY <2>1, <2>3
    <2> QED
      BY <2>1, <2>4, <2>5
  <1>4. \A i \in Positions : list[i] >= i
    <2> DEFINE T == {i \in Positions : list[i] < i}
    <2> SUFFICES ASSUME T # {} PROVE FALSE
      BY <1>1, <1>2
    <2>1. PICK k \in T : \A j \in T : ~(<<j, k>> \in OpToRel(<, Nat))
      BY <1>1, NatLessThanWellFounded, WFMin
    <2>2. list[k] \in Positions /\ list[k] < k /\ k \in Positions
      BY <1>2
    <2>3. list[list[k]] < list[k]
      BY <1>3, <2>2
    <2>4. list[k] \in T /\ <<list[k], k>> \in OpToRel(<, Nat)
      BY <1>1, <2>2, <2>3 DEF OpToRel
    <2> QED
      BY <2>1, <2>4
  <1>5. \A i \in Positions : list[i] <= i
    <2> DEFINE n == Len(phases)
               T == {m \in 0..(n - 1) : list[n - m] > n - m}
    <2>1. \A i \in Positions : n - i \in 0..(n - 1) /\ n - (n - i) = i
      BY <1>1 DEF Positions
    <2> SUFFICES ASSUME T # {} PROVE FALSE
      <3> SUFFICES ASSUME NEW i \in Positions, list[i] > i PROVE T # {}
        BY <1>1, <1>2
      <3>1. n - i \in T
        BY <2>1
      <3> QED
        BY <3>1
    <2>2. T \subseteq Nat
      BY <1>1
    <2>3. PICK m \in T : \A j \in T : ~(<<j, m>> \in OpToRel(<, Nat))
      BY <2>2, NatLessThanWellFounded, WFMin
    <2> DEFINE k == n - m
    <2>4. k \in Positions /\ list[k] > k /\ list[k] \in Positions
      <3>1. k \in Positions
        BY <1>1 DEF Positions
      <3> QED
        BY <1>2, <3>1
    <2>5. list[list[k]] > list[k]
      BY <1>1, <1>3, <1>2, <2>4
    <2>6. n - list[k] \in T /\ n - list[k] < m
      <3>1. n - list[k] \in 0..(n - 1) /\ n - (n - list[k]) = list[k]
        BY <2>1, <2>4
      <3>2. n - list[k] < m
        BY <1>1, <2>4 DEF Positions
      <3> QED
        BY <2>5, <3>1, <3>2
    <2>7. <<n - list[k], m>> \in OpToRel(<, Nat)
      BY <2>2, <2>6 DEF OpToRel
    <2> QED
      BY <2>3, <2>6, <2>7
  <1>6. \A i \in Positions : list[i] = i
    BY <1>1, <1>2, <1>4, <1>5
  <1> QED
    BY <1>2, <1>6

\* In a listing that is the insertion order the current phase is the i-th row.
LEMMA CurrentIsIndex ==
    ASSUME IndInv, NEW w \in Drivers, drv[w].pc \in InPhase, Listed(w)
    PROVE  Current(w) = drv[w].i /\ drv[w].i \in Positions
  <1>1. drv[w].i \in 1..Len(drv[w].list) /\ drv[w].list \in Seq(1..Len(phases))
    BY IndInvFacts DEF IndInv, DriverOK, DriverRec
  <1>2. drv[w].i \in DOMAIN drv[w].list
    BY <1>1, LenProperties
  <1> QED
    BY <1>2 DEF Current, Listed

\* A step that leaves the phases and the row's place in the life cycle alone.
LEMMA GateLocal ==
    ASSUME IndInv, GateInv, Gated, NEW w \in Drivers, drv[w].pc # "idle", NEW s,
           drv' = [drv EXCEPT ![w] = s], UNCHANGED <<phases, msg, req>>,
           DriverGate(w)', row' # Absent,
           row'.status = "paused" => s.pc = "idle" /\ AtGate,
           row'.status = "completed" => s.pc = "idle" /\ Whole
    PROVE  GateInv'
  <1>1. Numbered' /\ Taken'
    BY DEF GateInv, Numbered, Taken, Positions
  <1>2. (AtGate => AtGate') /\ (Whole => Whole')
    BY DEF AtGate, Whole, Positions
  <1> QED
    BY <1>1, <1>2, GateMove

LEMMA GetGate ==
    ASSUME IndInv, GateInv, Gated, NEW w \in Drivers, Get(w) PROVE GateInv'
  <1> DEFINE s == [pc |-> "guard", ctx |-> drv[w].ctx, d |-> row, list |-> <<>>, i |-> 0]
  <1>1. drv' = [drv EXCEPT ![w] = s] /\ UNCHANGED <<row, phases, msg, req>> /\ drv[w].pc = "get"
    BY DEF Get, Goto, At
  <1>2. drv'[w].pc = "guard"
    BY <1>1, IndInvFacts
  <1>3. Ready'
    BY <1>1 DEF GateInv, DriverGate, Ready, Positions
  <1>4. DriverGate(w)'
    BY <1>2, <1>3 DEF DriverGate, InPhase
  <1>5. row' # Absent /\ row'.status \notin {"paused", "completed"}
    BY <1>1, AtWork
  <1> HIDE DEF s
  <1> QED
    BY <1>1, <1>4, <1>5, GateLocal

LEMMA GuardGate ==
    ASSUME IndInv, GateInv, Gated, NEW w \in Drivers, Guard(w) PROVE GateInv'
  <1>1. UNCHANGED <<row, phases, msg, req>> /\ drv[w].pc = "guard"
    BY DEF Guard, At
  <1>2. CASE Exit(w)
    BY <1>1, <1>2, GateExit
  <1>3. CASE ~Exit(w)
    <2>1. PICK pc \in {"start", "list"} : Jump(w, pc)
      BY <1>3 DEF Guard, GuardTarget
    <2> DEFINE s == [pc |-> pc, ctx |-> drv[w].ctx, d |-> drv[w].d,
                     list |-> drv[w].list, i |-> drv[w].i]
    <2>2. drv' = [drv EXCEPT ![w] = s]
      BY <2>1 DEF Jump, Goto
    <2>3. drv'[w].pc \in {"start", "list"}
      BY <2>2, IndInvFacts
    <2>4. Ready'
      BY <1>1 DEF GateInv, DriverGate, Ready, Positions
    <2>5. DriverGate(w)'
      BY <2>3, <2>4 DEF DriverGate, InPhase
    <2>6. row' # Absent /\ row'.status \notin {"paused", "completed"}
      BY <1>1, AtWork
    <2> HIDE DEF s
    <2> QED
      BY <1>1, <2>2, <2>5, <2>6, GateLocal
  <1> QED
    BY <1>2, <1>3

\* The row a driver writes and the state it goes on in, or returns to.
LEMMA WriteMoves ==
    ASSUME IndInv, NEW w \in Drivers, NEW d, NEW pc, WriteRow(w, d, pc)
    PROVE  /\ row' = d /\ UNCHANGED <<msg, req>>
           /\ \E s : /\ drv' = [drv EXCEPT ![w] = s] /\ s.pc = pc
                     /\ pc # "idle" => s.list = drv[w].list /\ s.i = drv[w].i
  <1>1. CASE pc = "idle"
    <2>1. drv' = [drv EXCEPT ![w] = IdleDriver]
      BY <1>1 DEF WriteRow, Exit
    <2>2. IdleDriver.pc = "idle"
      BY DEF IdleDriver
    <2> QED
      BY <1>1, <2>1, <2>2 DEF WriteRow
  <1>2. CASE pc # "idle"
    <2> DEFINE s == [pc |-> pc, ctx |-> drv[w].ctx, d |-> d,
                     list |-> drv[w].list, i |-> drv[w].i]
    <2>1. drv' = [drv EXCEPT ![w] = s]
      BY <1>2 DEF WriteRow, Goto
    <2>2. s.pc = pc /\ s.list = drv[w].list /\ s.i = drv[w].i
      OBVIOUS
    <2> HIDE DEF s
    <2> QED
      BY <1>2, <2>1, <2>2 DEF WriteRow
  <1> QED
    BY <1>1, <1>2

LEMMA StartRunningGate ==
    ASSUME IndInv, GateInv, Gated, NEW w \in Drivers, StartRunning(w) PROVE GateInv'
  <1> DEFINE d == TransitionTo(drv[w].d, "running")
  <1>1. WriteRow(w, d, "list") /\ phases' = phases /\ drv[w].pc = "start"
    BY DEF StartRunning, At
  <1>2. d.status = "running" /\ d # Absent
    BY DEF TransitionTo, Absent
  <1> HIDE DEF d
  <1>3. PICK s : drv' = [drv EXCEPT ![w] = s] /\ s.pc = "list"
    BY <1>1, WriteMoves
  <1>4. row' = d /\ UNCHANGED <<phases, msg, req>>
    BY <1>1, WriteMoves
  <1>5. drv'[w].pc = "list"
    BY <1>3, IndInvFacts
  <1>6. Ready'
    BY <1>1 DEF GateInv, DriverGate, Ready, Positions
  <1>7. DriverGate(w)'
    BY <1>5, <1>6 DEF DriverGate, InPhase
  <1> QED
    BY <1>1, <1>2, <1>3, <1>4, <1>7, GateLocal

\* A driver that stays on its phase.
LEMMA StaysOnPhase ==
    ASSUME IndInv, GateInv, NEW w \in Drivers, drv[w].pc \in InPhase, NEW s,
           drv' = [drv EXCEPT ![w] = s], phases' = phases,
           s.pc \in InPhase \ {"activate"}, s.list = drv[w].list, s.i = drv[w].i,
           s.pc # "rollback" => phases[drv[w].i].status = "active"
    PROVE  DriverGate(w)'
  <1>1. drv'[w] = s
    BY IndInvFacts
  <1>2. /\ Listed(w) /\ Len(phases) = Len(Steps)
        /\ \A p \in Positions : /\ p < drv[w].i => phases[p].status = "passed"
                                /\ p > drv[w].i => phases[p].status = "pending"
    BY DEF GateInv, DriverGate
  <1>3. Listed(w)' /\ Positions' = Positions
    BY <1>1, <1>2 DEF Listed, Positions
  <1>4. /\ s.pc \notin {"get", "guard", "start", "list", "create", "activate", "complete"}
        /\ s.pc \in {"traffic", "wait", "fail", "gate", "pass"} => s.pc # "rollback"
    BY DEF InPhase
  <1> QED
    BY <1>1, <1>2, <1>3, <1>4 DEF DriverGate

LEMMA ShiftTrafficGate ==
    ASSUME IndInv, GateInv, Gated, NEW w \in Drivers, ShiftTraffic(w) PROVE GateInv'
  <1> DEFINE d == [drv[w].d EXCEPT !.traffic = StepOf(w).pct]
  <1>1. WriteRow(w, d, "wait") /\ phases' = phases /\ drv[w].pc = "traffic"
    BY DEF ShiftTraffic, At
  <1>2. drv[w].d \in Row /\ drv[w].d.status = "running"
    BY <1>1, RunningCopy DEF InPhase
  <1>3. d.status = "running" /\ d # Absent
    BY <1>2 DEF Row, Absent
  <1> HIDE DEF d
  <1>4. PICK s : drv' = [drv EXCEPT ![w] = s] /\ s.pc = "wait"
                 /\ s.list = drv[w].list /\ s.i = drv[w].i
    BY <1>1, WriteMoves
  <1>5. row' = d /\ UNCHANGED <<phases, msg, req>>
    BY <1>1, WriteMoves
  <1>6. phases[drv[w].i].status = "active"
    BY <1>1 DEF GateInv, DriverGate
  <1>7. DriverGate(w)'
    BY <1>1, <1>4, <1>6, StaysOnPhase DEF InPhase
  <1> QED
    BY <1>1, <1>3, <1>4, <1>5, <1>7, GateLocal

LEMMA BakeGate ==
    ASSUME IndInv, GateInv, Gated, NEW w \in Drivers, Bake(w) PROVE GateInv'
  <1>1. UNCHANGED <<row, phases, msg, req>> /\ drv[w].pc = "wait"
    BY DEF Bake, At
  <1>2. PICK pc \in {"fail", "pass", "gate"} : Jump(w, pc)
    BY DEF Bake
  <1> DEFINE s == [pc |-> pc, ctx |-> drv[w].ctx, d |-> drv[w].d,
                   list |-> drv[w].list, i |-> drv[w].i]
  <1>3. drv' = [drv EXCEPT ![w] = s] /\ s.pc = pc /\ s.list = drv[w].list /\ s.i = drv[w].i
    BY <1>2 DEF Jump, Goto
  <1> HIDE DEF s
  <1>4. phases[drv[w].i].status = "active"
    BY <1>1 DEF GateInv, DriverGate
  <1>5. DriverGate(w)'
    BY <1>1, <1>3, <1>4, StaysOnPhase DEF InPhase
  <1>6. row' # Absent /\ row'.status \notin {"paused", "completed"}
    BY <1>1, AtWork
  <1> QED
    BY <1>1, <1>3, <1>5, <1>6, GateLocal

\* A driver that writes its copy and returns.
LEMMA WritesAndReturns ==
    ASSUME IndInv, GateInv, Gated, NEW w \in Drivers, drv[w].pc # "idle", NEW d,
           WriteRow(w, d, "idle"), phases' = phases, d # Absent,
           d.status = "paused" => AtGate, d.status = "completed" => Whole
    PROVE  GateInv'
  <1>1. PICK s : drv' = [drv EXCEPT ![w] = s] /\ s.pc = "idle"
    BY WriteMoves
  <1>2. row' = d /\ UNCHANGED <<phases, msg, req>>
    BY WriteMoves
  <1>3. drv'[w].pc = "idle"
    BY <1>1, IndInvFacts
  <1>4. DriverGate(w)'
    BY <1>3 DEF DriverGate, InPhase
  <1> QED
    BY <1>1, <1>2, <1>4, GateLocal

LEMMA TriggerRollbackGate ==
    ASSUME IndInv, GateInv, Gated, NEW w \in Drivers, TriggerRollback(w) PROVE GateInv'
  <1> DEFINE e == TransitionTo(drv[w].d, "rolled_back")
             d == [e EXCEPT !.traffic = 0]
  <1>1. WriteRow(w, d, "idle") /\ phases' = phases /\ drv[w].pc # "idle"
    BY DEF TriggerRollback, At
  <1>2. d.status = "rolled_back" /\ d # Absent
    BY DEF TransitionTo, Absent
  <1> HIDE DEF d
  <1> QED
    BY <1>1, <1>2, WritesAndReturns

LEMMA ManualGateGate ==
    ASSUME IndInv, GateInv, Gated, NEW w \in Drivers, ManualGate(w) PROVE GateInv'
  <1> DEFINE d == TransitionTo(drv[w].d, "paused")
  <1>1. WriteRow(w, d, "idle") /\ phases' = phases /\ drv[w].pc = "gate"
    BY DEF ManualGate, At
  <1>2. d.status = "paused" /\ d # Absent
    BY DEF TransitionTo, Absent
  <1> HIDE DEF d
  <1>3. /\ Len(phases) = Len(Steps) /\ phases[drv[w].i].status = "active"
        /\ \A p \in Positions : /\ p < drv[w].i => phases[p].status = "passed"
                                /\ p > drv[w].i => phases[p].status = "pending"
    BY <1>1 DEF GateInv, DriverGate, InPhase
  <1>4. AtGate
    <2>1. drv[w].i \in Nat /\ Positions \subseteq Nat
      BY IndInvFacts DEF DriverRec, Positions
    <2>2. \A n, m \in Nat : n < m \/ n = m \/ n > m
      OBVIOUS
    <2>3. \A p \in Positions : phases[p].status # "failed"
      BY <1>3, <2>1, <2>2
    <2> QED
      BY <1>3, <2>3 DEF AtGate
  <1> QED
    BY <1>1, <1>2, <1>4, WritesAndReturns

LEMMA CompleteGate ==
    ASSUME IndInv, GateInv, Gated, NEW w \in Drivers, Complete(w) PROVE GateInv'
  <1> DEFINE e == TransitionTo(drv[w].d, "completed")
             d == [e EXCEPT !.traffic = 100]
  <1>1. WriteRow(w, d, "idle") /\ phases' = phases /\ drv[w].pc = "complete"
    BY DEF Complete, At
  <1>2. d.status = "completed" /\ d # Absent
    BY DEF TransitionTo, Absent
  <1> HIDE DEF d
  <1>3. Whole
    BY <1>1 DEF GateInv, DriverGate
  <1> QED
    BY <1>1, <1>2, <1>3, WritesAndReturns

LEMMA LoadPhasesGate ==
    ASSUME IndInv, GateInv, Gated, NEW w \in Drivers, LoadPhases(w) PROVE GateInv'
  <1>1. UNCHANGED <<row, phases, msg, req>> /\ drv[w].pc = "list"
    BY DEF LoadPhases, At
  <1>2. row' # Absent /\ row'.status \notin {"paused", "completed"}
    BY <1>1, AtWork
  <1>3. Ready /\ Numbered /\ Taken
    BY <1>1 DEF GateInv, DriverGate
  <1>4. phases \in Seq(PhaseRow) /\ Len(phases) \in Nat /\ Positions \subseteq Nat
    BY IndInvFacts DEF Positions
  <1>5. Positions' = Positions
    BY <1>1 DEF Positions
  <1>6. CASE phases = <<>> /\ Steps # <<>>
    <2> DEFINE s == [pc |-> "create", ctx |-> drv[w].ctx, d |-> drv[w].d, list |-> <<>>, i |-> 1]
    <2>1. drv' = [drv EXCEPT ![w] = s] /\ s.pc = "create" /\ s.list = <<>> /\ s.i = 1
      BY <1>6 DEF LoadPhases, Goto
    <2> HIDE DEF s
    <2>2. drv'[w] = s
      BY <2>1, IndInvFacts
    <2>3. Positions = {} /\ Len(phases) = 0
      BY <1>6, EmptySeq DEF Positions
    <2>4. <<>> = [p \in Positions |-> p]
      BY <2>3
    <2>5. Listed(w)'
      BY <1>5, <2>1, <2>2, <2>4 DEF Listed
    <2>6. DriverGate(w)'
      BY <1>1, <1>5, <2>1, <2>2, <2>3, <2>5 DEF DriverGate, InPhase
    <2> QED
      BY <1>1, <1>2, <2>1, <2>6, GateLocal
  <1>7. CASE ~(phases = <<>> /\ Steps # <<>>)
    <2>1. PICK list \in ListPhases :
             Goto(w, LoopPc(list, StartIdx(list)), drv[w].d, list, StartIdx(list))
      BY <1>7 DEF LoadPhases
    <2> DEFINE i == StartIdx(list)
               s == [pc |-> LoopPc(list, i), ctx |-> drv[w].ctx, d |-> drv[w].d,
                     list |-> list, i |-> i]
    <2>2. /\ Len(list) = Len(phases) /\ i \in 1..(Len(phases) + 1)
          /\ \A j \in 1..(i - 1) : phases[list[j]].status = "passed"
          /\ i <= Len(list) => phases[list[i]].status # "passed"
      BY <1>4, StartIdxFound
    <2> HIDE DEF i
    <2>3. drv' = [drv EXCEPT ![w] = s] /\ s.pc = LoopPc(list, i) /\ s.list = list /\ s.i = i
      BY <2>1 DEF Goto, i
    <2> HIDE DEF s
    <2>4. drv'[w] = s
      BY <2>3, IndInvFacts
    <2>5. list = [p \in Positions |-> p]
      BY <1>3, <1>4, <2>1, ListingIsInOrder
    <2>6. \A p \in Positions : p < i => phases[p].status = "passed"
      <3> SUFFICES ASSUME NEW p \in Positions, p < i PROVE phases[p].status = "passed"
        OBVIOUS
      <3>1. p \in 1..(i - 1)
        BY <1>4, <2>2 DEF Positions
      <3> QED
        BY <2>2, <2>5, <3>1
    <2>7. Len(phases) = Len(Steps)
      BY <1>3, <1>7, EmptySeq DEF Ready
    <2>8. CASE i <= Len(phases)
      <3>1. i \in Positions
        BY <1>4, <2>2, <2>8 DEF Positions
      <3>2. phases[i].status = "pending"
        BY <1>3, <2>2, <2>5, <2>8, <3>1 DEF Ready
      <3>3. \A p \in Positions : p > i => phases[p].status = "pending"
        <4> SUFFICES ASSUME NEW p \in Positions, p > i, phases[p].status # "pending" PROVE FALSE
          OBVIOUS
        <4>1. i < p
          BY <1>4, <3>1
        <4> QED
          BY <1>3, <3>1, <3>2, <4>1 DEF Taken
      <3>4. s.pc = "activate"
        BY <2>2, <2>3, <2>8 DEF LoopPc
      <3>5. Listed(w)'
        BY <1>5, <2>3, <2>4, <2>5 DEF Listed
      <3>6. DriverGate(w)'
        BY <1>1, <1>5, <2>3, <2>4, <2>6, <2>7, <3>2, <3>3, <3>4, <3>5 DEF DriverGate, InPhase
      <3> QED
        BY <1>1, <1>2, <2>3, <3>6, GateLocal
    <2>9. CASE ~(i <= Len(phases))
      <3>1. \A p \in Positions : p < i
        BY <1>4, <2>2, <2>9 DEF Positions
      <3>2. Whole'
        BY <1>1, <1>5, <2>6, <2>7, <3>1 DEF Whole
      <3>3. s.pc = "complete"
        BY <2>2, <2>3, <2>9 DEF LoopPc
      <3>4. DriverGate(w)'
        BY <2>4, <3>2, <3>3 DEF DriverGate, InPhase
      <3> QED
        BY <1>1, <1>2, <2>3, <3>4, GateLocal
    <2> QED
      BY <2>8, <2>9
  <1> QED
    BY <1>6, <1>7

\* Marking the current phase: what it leaves of the others.
LEMMA MarksCurrent ==
    ASSUME IndInv, GateInv, Gated, NEW w \in Drivers, drv[w].pc \in InPhase, NEW st \in PhaseStatus,
           phases' = [phases EXCEPT ![Current(w)] = [@ EXCEPT !.status = st]]
    PROVE  /\ drv[w].i \in Positions /\ Positions' = Positions /\ Positions \subseteq Nat
           /\ Len(phases') = Len(phases) /\ Len(phases) = Len(Steps)
           /\ Listed(w)
           /\ \A p \in Positions :
                 /\ p < drv[w].i => phases'[p].status = "passed"
                 /\ p = drv[w].i => phases'[p].status = st
                 /\ p > drv[w].i => phases'[p].status = "pending"
           /\ Numbered' /\ Taken'
  <1> DEFINE i == drv[w].i
  <1>1. /\ Listed(w) /\ Len(phases) = Len(Steps)
        /\ \A p \in Positions : /\ p < i => phases[p].status = "passed"
                                /\ p > i => phases[p].status = "pending"
    BY DEF GateInv, DriverGate
  <1>2. Current(w) = i /\ i \in Positions
    BY <1>1, CurrentIsIndex
  <1>3. /\ Len(phases') = Len(phases)
        /\ \A p \in Positions : /\ phases'[p].order = phases[p].order
                                /\ phases'[p].status = IF p = i THEN st ELSE phases[p].status
    BY <1>2, IndInvFacts, PhaseMarked
  <1>4. Positions' = Positions /\ Positions \subseteq Nat
    BY <1>3, IndInvFacts DEF Positions
  <1>5. \A p \in Positions :
          /\ p < i => phases'[p].status = "passed"
          /\ p = i => phases'[p].status = st
          /\ p > i => phases'[p].status = "pending"
    <2> TAKE p \in Positions
    <2>1. p \in Nat /\ i \in Nat
      BY <1>2, <1>4
    <2> QED
      BY <1>1, <1>3, <2>1
  <1>6. Numbered'
    BY <1>3, <1>4 DEF GateInv, Numbered
  <1> HIDE DEF i
  <1>7. Taken'
    <2> SUFFICES ASSUME NEW p \in Positions, NEW q \in Positions, p < q,
                        phases'[q].status # "pending"
                 PROVE  phases'[p].status = "passed"
      BY <1>4 DEF Taken
    <2>1. p \in Nat /\ q \in Nat /\ i \in Nat
      BY <1>2, <1>4
    <2>2. q > i => phases'[q].status = "pending"
      BY <1>5
    <2>3. ~(q > i)
      BY <2>2
    <2>4. p < i
      BY <2>1, <2>3
    <2> QED
      BY <1>5, <2>4
  <1> QED
    BY <1>1, <1>2, <1>3, <1>4, <1>5, <1>6, <1>7 DEF i

LEMMA UpdatePhaseGate ==
    ASSUME IndInv, GateInv, Gated, NEW w \in Drivers, drv[w].pc \in InPhase,
           NEW st \in PhaseStatus, NEW pc \in {"traffic", "rollback"},
           UpdatePhase(w, st, pc), pc = "traffic" => st = "active"
    PROVE  GateInv'
  <1> DEFINE s == [pc |-> pc, ctx |-> drv[w].ctx, d |-> drv[w].d,
                   list |-> drv[w].list, i |-> drv[w].i]
  <1>1. phases' = [phases EXCEPT ![Current(w)] = [@ EXCEPT !.status = st]]
    BY DEF UpdatePhase
  <1>2. drv' = [drv EXCEPT ![w] = s] /\ s.pc = pc /\ s.list = drv[w].list /\ s.i = drv[w].i
    BY DEF UpdatePhase, Jump, Goto
  <1>3. UNCHANGED <<row, msg, req>> /\ drv[w].pc # "idle"
    BY DEF UpdatePhase, InPhase
  <1> HIDE DEF s
  <1>4. drv'[w] = s
    BY <1>2, IndInvFacts
  <1>5. /\ drv[w].i \in Positions /\ Positions' = Positions /\ Positions \subseteq Nat
        /\ Len(phases') = Len(phases) /\ Len(phases) = Len(Steps)
        /\ Listed(w)
        /\ \A p \in Positions :
              /\ p < drv[w].i => phases'[p].status = "passed"
              /\ p = drv[w].i => phases'[p].status = st
              /\ p > drv[w].i => phases'[p].status = "pending"
        /\ Numbered' /\ Taken'
    BY <1>1, MarksCurrent
  <1>6. Listed(w)'
    BY <1>2, <1>4, <1>5 DEF Listed
  <1>7. s.pc = "traffic" => phases'[drv[w].i].status = "active"
    BY <1>2, <1>5
  <1>8. DriverGate(w)'
    BY <1>2, <1>4, <1>5, <1>6, <1>7 DEF DriverGate, InPhase
  <1>9. row' # Absent /\ row'.status \notin {"paused", "completed"}
    BY <1>3, AtWork
  <1> QED
    BY <1>2, <1>3, <1>5, <1>8, <1>9, GateMove

LEMMA ActivateGate ==
    ASSUME IndInv, GateInv, Gated, NEW w \in Drivers, Activate(w) PROVE GateInv'
  <1>1. drv[w].pc \in InPhase /\ "active" \in PhaseStatus /\ UpdatePhase(w, "active", "traffic")
    BY DEF Activate, At, InPhase, PhaseStatus
  <1> QED
    BY <1>1, UpdatePhaseGate

LEMMA FailPhaseGate ==
    ASSUME IndInv, GateInv, Gated, NEW w \in Drivers, FailPhase(w) PROVE GateInv'
  <1>1. drv[w].pc \in InPhase /\ "failed" \in PhaseStatus /\ drv[w].pc # "idle"
    BY DEF FailPhase, At, InPhase, PhaseStatus
  <1>2. CASE UpdatePhase(w, "failed", "rollback")
    BY <1>1, <1>2, UpdatePhaseGate
  <1>3. CASE ~UpdatePhase(w, "failed", "rollback")
    <2>1. Jump(w, "rollback") /\ UNCHANGED <<row, phases, msg, req>>
      BY <1>3 DEF FailPhase
    <2> DEFINE s == [pc |-> "rollback", ctx |-> drv[w].ctx, d |-> drv[w].d,
                     list |-> drv[w].list, i |-> drv[w].i]
    <2>2. /\ drv' = [drv EXCEPT ![w] = s]
          /\ s.pc = "rollback" /\ s.list = drv[w].list /\ s.i = drv[w].i
      BY <2>1 DEF Jump, Goto
    <2> HIDE DEF s
    <2>3. DriverGate(w)'
      BY <1>1, <2>1, <2>2, StaysOnPhase DEF InPhase
    <2>4. row' # Absent /\ row'.status \notin {"paused", "completed"}
      BY <1>1, <2>1, AtWork
    <2> QED
      BY <1>1, <2>1, <2>2, <2>3, <2>4, GateLocal
  <1> QED
    BY <1>2, <1>3

LEMMA PassPhaseGate ==
    ASSUME IndInv, GateInv, Gated, NEW w \in Drivers, PassPhase(w) PROVE GateInv'
  <1> DEFINE j == drv[w].i + 1
             s == [pc |-> LoopPc(drv[w].list, j), ctx |-> drv[w].ctx, d |-> drv[w].d,
                   list |-> drv[w].list, i |-> j]
  <1>1. drv[w].pc \in InPhase /\ drv[w].pc # "idle" /\ "passed" \in PhaseStatus
    BY DEF PassPhase, At, InPhase, PhaseStatus
  <1>2. phases' = [phases EXCEPT ![Current(w)] = [@ EXCEPT !.status = "passed"]]
    BY DEF PassPhase
  <1>3. /\ drv[w].i \in Positions /\ Positions' = Positions /\ Positions \subseteq Nat
        /\ Len(phases') = Len(phases) /\ Len(phases) = Len(Steps)
        /\ Listed(w)
        /\ \A p \in Positions :
              /\ p < drv[w].i => phases'[p].status = "passed"
              /\ p = drv[w].i => phases'[p].status = "passed"
              /\ p > drv[w].i => phases'[p].status = "pending"
        /\ Numbered' /\ Taken'
    BY <1>1, <1>2, MarksCurrent
  <1>4. /\ drv' = [drv EXCEPT ![w] = s] /\ s.pc = LoopPc(drv[w].list, j)
        /\ s.list = drv[w].list /\ s.i = j
    BY DEF PassPhase, Goto
  <1>5. UNCHANGED <<row, msg, req>>
    BY DEF PassPhase
  <1> HIDE DEF s
  <1>6. drv'[w] = s
    BY <1>4, IndInvFacts
  <1>7. row' # Absent /\ row'.status \notin {"paused", "completed"}
    BY <1>1, <1>5, AtWork
  <1>8. Listed(w)'
    BY <1>3, <1>4, <1>6 DEF Listed
  <1>9. Len(drv[w].list) = Len(phases) /\ Len(phases) \in Nat
    <2>1. drv[w].list \in Seq(1..Len(phases)) /\ Len(phases) \in Nat
      BY IndInvFacts DEF DriverRec
    <2>2. DOMAIN drv[w].list = 1..Len(phases)
      BY <1>3 DEF Listed, Positions
    <2> QED
      BY <2>1, <2>2, LenProperties
  <1>10. /\ \A p \in Positions : p < j => phases'[p].status = "passed"
         /\ \A p \in Positions : p > j => phases'[p].status = "pending"
         /\ j \in Positions => phases'[j].status = "pending"
    <2>1. \A n, m \in Nat : /\ n < m + 1 => n < m \/ n = m
                            /\ n > m + 1 => n > m
                            /\ m + 1 > m
      OBVIOUS
    <2> QED
      BY <1>3, <2>1
  <1>11. CASE j <= Len(phases)
    <2>1. j \in Positions
      BY <1>3, <1>9, <1>11 DEF Positions
    <2>2. s.pc = "activate"
      BY <1>4, <1>9, <1>11 DEF LoopPc
    <2> HIDE DEF j
    <2>3. DriverGate(w)'
      BY <1>3, <1>4, <1>6, <1>8, <1>10, <2>1, <2>2 DEF DriverGate, InPhase
    <2> QED
      BY <1>1, <1>3, <1>4, <1>5, <1>7, <2>3, GateMove
  <1>12. CASE ~(j <= Len(phases))
    <2>1. \A p \in Positions : p < j
      BY <1>3, <1>9, <1>12 DEF Positions
    <2>2. s.pc = "complete"
      BY <1>4, <1>9, <1>12 DEF LoopPc
    <2> HIDE DEF j
    <2>3. Whole'
      BY <1>3, <1>10, <2>1 DEF Whole
    <2>4. DriverGate(w)'
      BY <1>6, <2>2, <2>3 DEF DriverGate, InPhase
    <2> QED
      BY <1>1, <1>3, <1>4, <1>5, <1>7, <2>4, GateMove
  <1> QED
    BY <1>11, <1>12

LEMMA CreatePhaseGate ==
    ASSUME IndInv, GateInv, Gated, NEW w \in Drivers, CreatePhase(w) PROVE GateInv'
  <1> DEFINE n == Len(phases)
             list == Append(drv[w].list, n + 1)
             s == [pc |-> IF drv[w].i < Len(Steps) THEN "create" ELSE "activate",
                   ctx |-> drv[w].ctx, d |-> drv[w].d, list |-> list,
                   i |-> IF drv[w].i < Len(Steps) THEN drv[w].i + 1 ELSE 1]
             ph == [order |-> drv[w].i, status |-> "pending"]
  <1>1. /\ drv[w].pc = "create" /\ drv[w].pc # "idle" /\ UNCHANGED <<row, msg, req>>
        /\ phases' = Append(phases, ph)
    BY DEF CreatePhase, At
  <1>2. /\ drv' = [drv EXCEPT ![w] = s] /\ s.list = list
        /\ s.pc = IF drv[w].i < Len(Steps) THEN "create" ELSE "activate"
        /\ s.i = IF drv[w].i < Len(Steps) THEN drv[w].i + 1 ELSE 1
    BY DEF CreatePhase, Goto
  <1> HIDE DEF s
  <1>3. drv'[w] = s
    BY <1>2, IndInvFacts
  <1>4. /\ Listed(w) /\ Numbered
        /\ \A p \in Positions : phases[p].status = "pending" /\ phases[p].order = p
    BY <1>1 DEF GateInv, DriverGate, Numbered, InPhase
  <1>5. /\ n \in Nat /\ n = drv[w].i - 1 /\ drv[w].i \in 1..Len(Steps)
        /\ Len(Steps) \in Nat /\ phases \in Seq(PhaseRow) /\ drv[w].list \in Seq(1..n)
    BY <1>1, IndInvFacts DEF GateInv, DriverGate, IndInv, DriverOK, DriverRec
  <1>6. drv[w].i = n + 1 /\ drv[w].i \in Nat
    BY <1>5
  <1>7. ph \in PhaseRow
    BY <1>5 DEF PhaseRow, PhaseStatus
  <1>8. /\ Len(phases') = n + 1 /\ phases'[n + 1] = ph
        /\ \A p \in Positions : phases'[p] = phases[p]
    BY <1>1, <1>5, <1>7, AppendProperties DEF Positions
  <1>9. Positions' = 1..(n + 1) /\ Positions = 1..n
    BY <1>8 DEF Positions
  <1>10. ph.order = n + 1 /\ ph.status = "pending"
    BY <1>6
  <1> HIDE DEF ph
  <1>11. \A p \in 1..(n + 1) : phases'[p].order = p /\ phases'[p].status = "pending"
    <2> TAKE p \in 1..(n + 1)
    <2>1. p \in 1..n \/ p = n + 1
      BY <1>5
    <2> QED
      BY <1>4, <1>8, <1>9, <1>10, <2>1
  <1>12. list = [p \in 1..(n + 1) |-> p]
    <2>1. Len(drv[w].list) = n
      <3>1. DOMAIN drv[w].list = 1..n
        BY <1>4, <1>9 DEF Listed
      <3> QED
        BY <1>5, <3>1, LenProperties
    <2>2. list \in Seq(1..(n + 1)) /\ Len(list) = n + 1 /\ list[n + 1] = n + 1
      <3>1. 1..n \subseteq 1..(n + 1) /\ n + 1 \in 1..(n + 1)
        BY <1>5
      <3>2. drv[w].list \in Seq(1..(n + 1))
        BY <1>5, <3>1, SeqMonotonic, SMTT(60)
      <3> QED
        BY <2>1, <3>1, <3>2, AppendProperties
    <2>3. \A p \in 1..n : list[p] = p
      <3> TAKE p \in 1..n
      <3>1. list[p] = drv[w].list[p]
        BY <1>5, <2>1, AppendProperties
      <3> QED
        BY <1>4, <1>9, <3>1 DEF Listed
    <2>4. \A p \in 1..(n + 1) : p \in 1..n \/ p = n + 1
      BY <1>5
    <2>5. \A p \in 1..(n + 1) : list[p] = p
      BY <2>2, <2>3, <2>4
    <2>6. DOMAIN list = 1..(n + 1) /\ list \in [1..(n + 1) -> 1..(n + 1)]
      BY <2>2, LenProperties
    <2> HIDE DEF list, n
    <2> QED
      BY <2>5, <2>6
  <1> HIDE DEF list
  <1>13. Listed(w)'
    BY <1>2, <1>3, <1>9, <1>12 DEF Listed
  <1>14. Numbered' /\ Taken'
    BY <1>5, <1>8, <1>9, <1>11 DEF Numbered, Taken
  <1>15. row' # Absent /\ row'.status \notin {"paused", "completed"}
    BY <1>1, AtWork
  <1>16. CASE drv[w].i < Len(Steps)
    <2>1. s.pc = "create" /\ s.i - 1 = n + 1
      BY <1>2, <1>6, <1>16
    <2>2. DriverGate(w)'
      BY <1>3, <1>8, <1>9, <1>11, <1>13, <2>1 DEF DriverGate, InPhase
    <2> QED
      BY <1>1, <1>2, <1>14, <1>15, <2>2, GateMove
  <1>17. CASE ~(drv[w].i < Len(Steps))
    <2>1. s.pc = "activate" /\ s.i = 1 /\ n + 1 = Len(Steps)
      BY <1>2, <1>5, <1>6, <1>17
    <2>2. 1 \in 1..(n + 1) /\ \A p \in 1..(n + 1) : ~(p < 1)
      BY <1>5
    <2>3. DriverGate(w)'
      BY <1>3, <1>8, <1>9, <1>11, <1>13, <2>1, <2>2 DEF DriverGate, InPhase
    <2> QED
      BY <1>1, <1>2, <1>14, <1>15, <2>3, GateMove
  <1> QED
    BY <1>16, <1>17

-----------------------------------------------------------------------------
(* The other steps.                                                         *)

\* A slot that starts when no driver is at work, on phases that are ready.
LEMMA GateSpawn ==
    ASSUME IndInv, GateInv, NEW w \in Drivers, NEW by, Spawn(w, by), NoDriver, Ready,
           phases' = phases
    PROVE  /\ Numbered' /\ Taken' /\ AtMostOneDriver'
           /\ \A v \in Drivers : DriverGate(v)'
  <1> DEFINE s == [pc |-> "get", ctx |-> by, d |-> Absent, list |-> <<>>, i |-> 0]
  <1>1. drv' = [drv EXCEPT ![w] = s] /\ s.pc = "get"
    BY DEF Spawn
  <1> HIDE DEF s
  <1>2. drv'[w].pc = "get" /\ \A v \in Drivers : v # w => drv'[v].pc = "idle"
    BY <1>1, IndInvFacts DEF NoDriver
  <1>3. Numbered' /\ Taken' /\ Ready'
    BY DEF GateInv, Numbered, Taken, Ready, Positions
  <1>4. AtMostOneDriver'
    BY <1>2 DEF AtMostOneDriver
  <1>5. \A v \in Drivers : DriverGate(v)'
    BY <1>2, <1>3 DEF DriverGate, InPhase
  <1> QED
    BY <1>3, <1>4, <1>5

LEMMA DeliverGate ==
    ASSUME IndInv, GateInv, Gated, NEW w \in Drivers, Deliver(w) PROVE GateInv'
  <1>1. /\ msg.state = "queued" /\ msg.deliveries < MaxDeliver
        /\ Spawn(w, "engine") /\ UNCHANGED <<row, phases, req>>
    BY DEF Deliver
  <1>2. msg'.state # "none" /\ msg'.deliveries = msg.deliveries + 1
    BY DEF Deliver
  <1>3. msg.deliveries = 0
    BY <1>1 DEF IndInv, TypeOK, Gated
  <1>4. NoDriver /\ phases = <<>> /\ Len(phases) = 0
    BY <1>3, EmptySeq DEF GateInv, MsgGate
  <1>5. Ready
    BY <1>4 DEF Ready, Positions
  <1>6. /\ Numbered' /\ Taken' /\ AtMostOneDriver'
        /\ \A v \in Drivers : DriverGate(v)'
    BY <1>1, <1>4, <1>5, GateSpawn
  <1>7. row.status \notin {"paused", "completed"}
    BY <1>1, <1>3 DEF GateInv, RowGate, Resting, Ended
  <1>8. RowGate'
    BY <1>1, <1>7 DEF RowGate
  <1>9. MsgGate'
    BY <1>1, <1>2, <1>3 DEF GateInv, MsgGate
  <1>10. \A c \in Callers : req[c].pc # "idle" => req[c].base.status \notin {"paused", "completed"}
    BY <1>1, <1>3 DEF GateInv, CallerGate, Resting, Ended
  <1>11. \A c \in Callers : req[c].pc # "idle" => req[c].op # "advance"
    BY <1>10, CallerReads DEF Gated
  <1>12. \A c \in Callers : req[c].pc # "pass"
    BY <1>11 DEF GateInv, CallerGate
  <1>13. \A c \in Callers : CallerGate(c)'
    BY <1>1, <1>10, <1>11, <1>12 DEF CallerGate
  <1> QED
    BY <1>6, <1>8, <1>9, <1>13 DEF GateInv

LEMMA RequestEndsGate ==
    ASSUME IndInv, GateInv, NEW w \in Drivers, RequestEnds(w) PROVE GateInv'
  <1> DEFINE s == [drv[w] EXCEPT !.ctx = "cancelled"]
  <1>1. drv' = [drv EXCEPT ![w] = s] /\ UNCHANGED <<row, phases, msg, req>>
    BY DEF RequestEnds
  <1>2. s.pc = drv[w].pc /\ s.list = drv[w].list /\ s.i = drv[w].i
    BY IndInvFacts DEF DriverRec
  <1> HIDE DEF s
  <1>3. \A v \in Drivers : /\ drv'[v].pc = drv[v].pc /\ drv'[v].list = drv[v].list
                           /\ drv'[v].i = drv[v].i
    BY <1>1, <1>2, IndInvFacts
  <1>4. NoDriver' <=> NoDriver
    BY <1>3 DEF NoDriver
  <1>5. /\ Positions' = Positions /\ (AtGate' <=> AtGate) /\ (Whole' <=> Whole)
        /\ (Ready' <=> Ready)
    BY <1>1 DEF Positions, AtGate, Whole, Ready
  <1>6. RowGate' /\ MsgGate'
    BY <1>1, <1>4, <1>5 DEF GateInv, RowGate, MsgGate, Resting, Ended
  <1>7. \A v \in Drivers : DriverGate(v)'
    BY <1>1, <1>3, <1>5 DEF GateInv, DriverGate, InPhase, Listed
  <1>8. AtMostOneDriver'
    BY <1>3 DEF GateInv, AtMostOneDriver
  <1>9. \A c \in Callers : CallerGate(c)'
    BY <1>1, <1>4, <1>5 DEF GateInv, CallerGate, Resting, Ended
  <1>10. Numbered' /\ Taken'
    BY <1>1, <1>5 DEF GateInv, Numbered, Taken
  <1> QED
    BY <1>6, <1>7, <1>8, <1>9, <1>10 DEF GateInv

LEMMA CreateDeploymentGate ==
    ASSUME IndInv, GateInv, CreateDeployment PROVE GateInv'
  <1>1. row = Absent /\ UNCHANGED <<phases, drv, req>>
    BY DEF CreateDeployment
  <1>2. /\ msg.state = "none" /\ msg.deliveries = 0 /\ NoDriver /\ phases = <<>>
        /\ \A c \in Callers : req[c].pc = "idle"
    BY <1>1 DEF GateInv, MsgGate
  <1>3. PICK r \in Requests, st \in Published :
          row' = NewRow(r) /\ msg' = [msg EXCEPT !.state = IF r.record THEN "none" ELSE st]
    BY DEF CreateDeployment
  <1>4. /\ msg'.deliveries = 0 /\ row' # Absent /\ row'.status \in {"pending", "completed"}
        /\ row'.status = "completed" => msg'.state = "none"
    BY <1>2, <1>3 DEF NewRow, Absent, IndInv, TypeOK
  <1>5. NoDriver'
    BY <1>1, <1>2 DEF NoDriver
  <1>6. RowGate' /\ MsgGate'
    BY <1>1, <1>2, <1>4, <1>5 DEF RowGate, MsgGate, Ended
  <1>7. \A v \in Drivers : DriverGate(v)'
    BY <1>5 DEF NoDriver, DriverGate, InPhase
  <1>8. AtMostOneDriver'
    BY <1>5 DEF NoDriver, AtMostOneDriver
  <1>9. \A c \in Callers : CallerGate(c)'
    BY <1>1, <1>2 DEF CallerGate
  <1>10. Numbered' /\ Taken'
    BY <1>1 DEF GateInv, Numbered, Taken, Positions
  <1> QED
    BY <1>6, <1>7, <1>8, <1>9, <1>10 DEF GateInv

LEMMA CrashGate ==
    ASSUME IndInv, GateInv, Crash PROVE GateInv'
  <1>1. UNCHANGED <<row, phases, msg>>
    BY DEF Crash
  <1>2. NoDriver' /\ \A c \in Callers : req'[c].pc = "idle"
    BY DEF Crash, NoDriver, IdleDriver, IdleCaller
  <1>3. RowGate' /\ MsgGate'
    BY <1>1, <1>2 DEF GateInv, RowGate, MsgGate, Resting, Ended, AtGate, Whole, Positions
  <1>4. \A v \in Drivers : DriverGate(v)'
    BY <1>2 DEF NoDriver, DriverGate, InPhase
  <1>5. AtMostOneDriver'
    BY <1>2 DEF NoDriver, AtMostOneDriver
  <1>6. \A c \in Callers : CallerGate(c)'
    BY <1>2 DEF CallerGate
  <1>7. Numbered' /\ Taken'
    BY <1>1 DEF GateInv, Numbered, Taken, Positions
  <1> QED
    BY <1>3, <1>4, <1>5, <1>6, <1>7 DEF GateInv

\* A request that only changes its own state.
LEMMA CallerLocalGate ==
    ASSUME IndInv, GateInv, NEW c \in Callers, NEW r, req' = [req EXCEPT ![c] = r],
           UNCHANGED <<row, phases, msg, drv>>, CallerGate(c)', r.pc = "idle" \/ row # Absent
    PROVE  GateInv'
  <1>1. req'[c] = r /\ \A b \in Callers : b # c => req'[b] = req[b]
    BY IndInvFacts
  <1>2. /\ Positions' = Positions /\ (NoDriver' <=> NoDriver)
        /\ (AtGate' <=> AtGate) /\ (Whole' <=> Whole) /\ (Ready' <=> Ready)
    BY DEF Positions, NoDriver, AtGate, Whole, Ready
  <1>3. (Resting' <=> Resting) /\ (Ended' <=> Ended)
    BY <1>2 DEF Resting, Ended
  <1>4. RowGate' /\ MsgGate'
    BY <1>1, <1>2, <1>3 DEF GateInv, RowGate, MsgGate
  <1>5. \A v \in Drivers : DriverGate(v)'
    BY <1>2 DEF GateInv, DriverGate, Listed
  <1>6. AtMostOneDriver'
    BY DEF GateInv, AtMostOneDriver
  <1>7. \A b \in Callers : CallerGate(b)'
    <2> TAKE b \in Callers
    <2>1. CASE b = c
      BY <2>1
    <2>2. CASE b # c
      BY <1>1, <1>2, <1>3, <2>2 DEF GateInv, CallerGate
    <2> QED
      BY <2>1, <2>2
  <1>8. Numbered' /\ Taken'
    BY <1>2 DEF GateInv, Numbered, Taken
  <1> QED
    BY <1>4, <1>5, <1>6, <1>7, <1>8 DEF GateInv

\* A request that reads the row knows of it what the row shows.
LEMMA ReadGate ==
    ASSUME IndInv, GateInv, NEW c \in Callers,
           \/ \E op \in Ops \ {"setTraffic"} : ReadForOp(c, op)
           \/ \E pct \in RolloutPcts : ReadForTraffic(c, pct)
    PROVE  GateInv'
  <1>1. UNCHANGED <<row, phases, msg, drv>> /\ row # Absent
    BY DEF ReadForOp, ReadForTraffic, IndInv
  <1>2. PICK r : /\ req' = [req EXCEPT ![c] = r] /\ r.base = row
                 /\ r.pc \in {"phase", "write"}
                 /\ r.op = "advance" => r.pc = "phase"
    <2>1. CASE \E op \in Ops \ {"setTraffic"} : ReadForOp(c, op)
      <3>1. PICK op \in Ops \ {"setTraffic"} : ReadForOp(c, op)
        BY <2>1
      <3> DEFINE r == [pc |-> IF op = "advance" THEN "phase" ELSE "write",
                       op |-> op, base |-> row, d |-> Result(op, row), phase |-> 0]
      <3>2. req' = [req EXCEPT ![c] = r]
        BY <3>1 DEF ReadForOp
      <3>3. r.base = row /\ r.pc \in {"phase", "write"} /\ (r.op = "advance" => r.pc = "phase")
        OBVIOUS
      <3> HIDE DEF r
      <3> QED
        BY <3>2, <3>3
    <2>2. CASE \E pct \in RolloutPcts : ReadForTraffic(c, pct)
      <3>1. PICK pct \in RolloutPcts : ReadForTraffic(c, pct)
        BY <2>2
      <3> DEFINE r == [pc |-> "write", op |-> "setTraffic", base |-> row,
                       d |-> [row EXCEPT !.traffic = pct], phase |-> 0]
      <3>2. req' = [req EXCEPT ![c] = r]
        BY <3>1 DEF ReadForTraffic
      <3>3. r.base = row /\ r.pc \in {"phase", "write"} /\ (r.op = "advance" => r.pc = "phase")
        OBVIOUS
      <3> HIDE DEF r
      <3> QED
        BY <3>2, <3>3
    <2> QED
      BY <2>1, <2>2
  <1>3. req'[c] = r
    BY <1>2, IndInvFacts
  <1>4. /\ Positions' = Positions /\ (NoDriver' <=> NoDriver)
        /\ (AtGate' <=> AtGate) /\ (Whole' <=> Whole)
    BY <1>1 DEF Positions, NoDriver, AtGate, Whole
  <1>5. (Resting' <=> Resting) /\ (Ended' <=> Ended)
    BY <1>1, <1>4 DEF Resting, Ended
  <1>6. CallerGate(c)'
    BY <1>2, <1>3, <1>5 DEF GateInv, RowGate, CallerGate
  <1> QED
    BY <1>1, <1>2, <1>6, CallerLocalGate

LEMMA AdvanceFindPhaseGate ==
    ASSUME IndInv, GateInv, Gated, NEW c \in Callers, AdvanceFindPhase(c) PROVE GateInv'
  <1>1. UNCHANGED <<row, phases, msg, drv>> /\ req[c].pc = "phase"
    BY DEF AdvanceFindPhase
  <1>2. row # Absent
    BY <1>1 DEF GateInv, MsgGate
  <1>3. CASE req' = [req EXCEPT ![c] = IdleCaller]
    <2>1. req'[c].pc = "idle"
      BY <1>3, IndInvFacts DEF IdleCaller
    <2>2. CallerGate(c)'
      BY <2>1 DEF CallerGate
    <2> QED
      BY <1>1, <1>2, <1>3, <2>2, CallerLocalGate
  <1>4. CASE req' # [req EXCEPT ![c] = IdleCaller]
    <2>1. PICK p \in {q \in 1..Len(phases) : phases[q].status = "active"} :
            req' = [req EXCEPT ![c] = [pc |-> "pass", op |-> "advance", base |-> req[c].base,
                                       d |-> req[c].d, phase |-> p]]
      BY <1>4 DEF AdvanceFindPhase
    <2> DEFINE r == [pc |-> "pass", op |-> "advance", base |-> req[c].base,
                     d |-> req[c].d, phase |-> p]
    <2>2. req' = [req EXCEPT ![c] = r]
      BY <2>1
    <2>3. r.pc = "pass" /\ r.op = "advance" /\ r.base = req[c].base /\ r.phase = p
      OBVIOUS
    <2> HIDE DEF r
    <2>4. req'[c] = r /\ phases'[p].status = "active"
      BY <1>1, <2>1, <2>2, IndInvFacts
    <2>5. /\ Positions' = Positions /\ (NoDriver' <=> NoDriver)
          /\ (AtGate' <=> AtGate) /\ (Whole' <=> Whole)
      BY <1>1 DEF Positions, NoDriver, AtGate, Whole
    <2>6. (Resting' <=> Resting) /\ (Ended' <=> Ended)
      BY <1>1, <2>5 DEF Resting, Ended
    <2>7. CallerGate(c)'
      BY <1>1, <2>3, <2>4, <2>6 DEF GateInv, CallerGate
    <2> QED
      BY <1>1, <1>2, <2>2, <2>7, CallerLocalGate
  <1> QED
    BY <1>3, <1>4

\* The advance passes the gate's phase, the only one that is active.
LEMMA AdvancePassPhaseGate ==
    ASSUME IndInv, GateInv, Gated, NEW c \in Callers, AdvancePassPhase(c) PROVE GateInv'
  <1> DEFINE k == req[c].phase
  <1>1. /\ UNCHANGED <<row, msg, drv>> /\ req[c].pc = "pass"
        /\ phases' = [phases EXCEPT ![k] = [@ EXCEPT !.status = "passed"]]
        /\ req' = [req EXCEPT ![c] = [@ EXCEPT !.pc = "write"]]
    BY DEF AdvancePassPhase
  <1>2. /\ req[c] \in CallerRec(Len(phases)) /\ CallerOK(req[c])
        /\ phases \in Seq(PhaseRow) /\ Len(phases) \in Nat
    BY IndInvFacts DEF IndInv
  <1>3. k \in Positions /\ "passed" \in PhaseStatus /\ Positions \subseteq Nat
    BY <1>1, <1>2 DEF CallerRec, CallerOK, Positions, PhaseStatus
  <1>4. req[c].op = "advance" /\ phases[k].status = "active"
    BY <1>1 DEF GateInv, CallerGate
  <1>5. req[c].base.status = "paused"
    BY <1>1, <1>4, CallerReads DEF Gated
  <1>6. Resting
    BY <1>1, <1>5 DEF GateInv, CallerGate
  <1>7. row.status # "completed"
    <2>1. ~Whole
      BY <1>3, <1>4 DEF Whole
    <2>2. msg.state # "none"
      BY <1>6 DEF GateInv, MsgGate, Resting
    <2> QED
      BY <2>1, <2>2 DEF GateInv, RowGate, Ended
  <1>8. /\ Len(phases') = Len(phases)
        /\ \A p \in Positions : /\ phases'[p].order = phases[p].order
                                /\ phases'[p].status = IF p = k THEN "passed" ELSE phases[p].status
    BY <1>1, <1>2, <1>3, PhaseMarked
  <1>9. Positions' = Positions
    BY <1>8 DEF Positions
  <1> HIDE DEF k
  <1>10. Numbered'
    BY <1>8, <1>9 DEF GateInv, Numbered
  <1>11. Taken'
    <2> SUFFICES ASSUME NEW p \in Positions, NEW q \in Positions, p < q,
                        phases'[q].status # "pending"
                 PROVE  phases'[p].status = "passed"
      BY <1>9 DEF Taken
    <2>1. phases[q].status # "pending"
      BY <1>4, <1>8
    <2>2. phases[p].status = "passed"
      BY <2>1 DEF GateInv, Taken
    <2> QED
      BY <1>8, <2>2
  <1>12. \A p \in Positions : p # k => phases[p].status \in {"passed", "pending"}
    <2> SUFFICES ASSUME NEW p \in Positions, p # k, phases[p].status \notin {"passed", "pending"}
                 PROVE  FALSE
      OBVIOUS
    <2>1. p < k \/ k < p
      BY <1>3
    <2> QED
      BY <1>3, <1>4, <2>1 DEF GateInv, Taken
  <1>13. \A p \in Positions : phases'[p].status \in {"passed", "pending"}
    BY <1>8, <1>12
  <1>14. Ready' /\ AtGate'
    BY <1>6, <1>8, <1>9, <1>13 DEF Ready, AtGate, Resting
  <1>15. NoDriver' /\ Resting'
    BY <1>1, <1>6, <1>14 DEF Resting, NoDriver
  <1>16. RowGate'
    BY <1>1, <1>7, <1>15 DEF RowGate
  <1>17. row # Absent /\ msg.deliveries = 1
    BY <1>1, <1>6 DEF GateInv, MsgGate, Resting
  <1>18. MsgGate'
    BY <1>1, <1>17 DEF GateInv, MsgGate
  <1>19. \A v \in Drivers : DriverGate(v)'
    BY <1>15 DEF NoDriver, DriverGate, InPhase
  <1>20. AtMostOneDriver'
    BY <1>15 DEF NoDriver, AtMostOneDriver
  <1>21. req'[c].pc = "write" /\ req'[c].base = req[c].base
    BY <1>1, <1>2, IndInvFacts DEF CallerRec
  <1>22. CallerGate(c)'
    BY <1>5, <1>14, <1>15, <1>21 DEF CallerGate
  <1>23. \A b \in Callers : CallerGate(b)'
    BY <1>22 DEF Gated
  <1> QED
    BY <1>10, <1>11, <1>16, <1>18, <1>19, <1>20, <1>23 DEF GateInv

LEMMA WriteForOpGate ==
    ASSUME IndInv, GateInv, Gated, NEW c \in Callers, WriteForOp(c) PROVE GateInv'
  <1>1. /\ req[c].pc = "write" /\ req[c].pc # "idle" /\ row' = req[c].d
        /\ req' = [req EXCEPT ![c] = IdleCaller] /\ UNCHANGED <<phases, msg>>
    BY DEF WriteForOp
  <1>2. /\ req[c].op = "advance" => req[c].base.status = "paused" /\ req[c].d.status = "running"
        /\ req[c].d.status = "paused" => req[c].base.status = "paused"
        /\ req[c].d.status = "completed" => req[c].base.status = "completed"
        /\ req[c].d \in Row
    BY <1>1, CallerReads DEF Gated
  <1>3. row' # Absent /\ row # Absent
    <2>1. \A d \in Row : d # Absent
      BY DEF Row, Absent, DeployStatus, TerminalStatus
    <2> QED
      BY <1>1, <1>2, <2>1 DEF GateInv, MsgGate
  <1>4. \A b \in Callers : req'[b].pc = "idle"
    BY <1>1, IndInvFacts DEF Gated, IdleCaller
  <1>5. \A b \in Callers : CallerGate(b)'
    BY <1>4 DEF CallerGate
  <1>6. /\ Positions' = Positions /\ (AtGate' <=> AtGate) /\ (Whole' <=> Whole)
    BY <1>1 DEF Positions, AtGate, Whole
  <1>7. CASE req[c].op = "advance"
    <2>1. PICK w \in Drivers : Spawn(w, "request")
      BY <1>7 DEF WriteForOp
    <2>2. Resting /\ Ready
      BY <1>1, <1>2, <1>7 DEF GateInv, CallerGate
    <2>3. /\ Numbered' /\ Taken' /\ AtMostOneDriver'
          /\ \A v \in Drivers : DriverGate(v)'
      BY <1>1, <2>1, <2>2, GateSpawn DEF Resting
    <2>4. RowGate'
      BY <1>1, <1>2, <1>7 DEF RowGate
    <2>5. MsgGate'
      BY <1>1, <1>3, <2>2 DEF GateInv, MsgGate, Resting
    <2> QED
      BY <1>5, <2>3, <2>4, <2>5 DEF GateInv
  <1>8. CASE req[c].op # "advance"
    <2>1. drv' = drv
      BY <1>8 DEF WriteForOp
    <2>2. (NoDriver' <=> NoDriver) /\ (Ready' <=> Ready)
      BY <1>1, <1>6, <2>1 DEF NoDriver, Ready
    <2>3. (Resting' <=> Resting) /\ (Ended' <=> Ended)
      BY <1>1, <1>6, <2>2 DEF Resting, Ended
    <2>4. RowGate'
      BY <1>1, <1>2, <2>3 DEF GateInv, CallerGate, RowGate
    <2>5. MsgGate'
      BY <1>1, <1>3, <2>2 DEF GateInv, MsgGate
    <2>6. \A v \in Drivers : DriverGate(v)'
      BY <1>1, <1>6, <2>1, <2>2 DEF GateInv, DriverGate, Listed
    <2>7. AtMostOneDriver' /\ Numbered' /\ Taken'
      BY <1>1, <1>6, <2>1 DEF GateInv, AtMostOneDriver, Numbered, Taken
    <2> QED
      BY <1>5, <2>4, <2>5, <2>6, <2>7 DEF GateInv
  <1> QED
    BY <1>7, <1>8

-----------------------------------------------------------------------------
(* The induction.                                                           *)

LEMMA GateInit == Init => GateInv
  <1> SUFFICES ASSUME Init PROVE GateInv
    OBVIOUS
  <1>1. phases = <<>> /\ Len(phases) = 0 /\ Positions = {}
    BY EmptySeq DEF Init, Positions
  <1>2. NoDriver /\ \A c \in Callers : req[c].pc = "idle"
    BY DEF Init, NoDriver, IdleDriver, IdleCaller
  <1>3. row.status = "absent" /\ msg.deliveries = 0 /\ msg.state = "none"
    BY DEF Init, Absent
  <1>4. Numbered /\ Taken /\ RowGate /\ MsgGate
    BY <1>1, <1>2, <1>3, StepsAssumption, LenProperties DEF Numbered, Taken, RowGate, MsgGate
  <1>5. AtMostOneDriver /\ \A v \in Drivers : DriverGate(v)
    BY <1>2 DEF NoDriver, AtMostOneDriver, DriverGate, InPhase
  <1>6. \A c \in Callers : CallerGate(c)
    BY <1>2 DEF CallerGate
  <1> QED
    BY <1>4, <1>5, <1>6 DEF GateInv

LEMMA DriverStepGate ==
    ASSUME IndInv, GateInv, Gated, NEW w \in Drivers,
           \/ Deliver(w) \/ DriverStep(w) \/ RequestEnds(w)
           \/ CancelledDriverExits(w) \/ RepoError(w)
    PROVE  GateInv'
  <1>1. CASE DriverStep(w)
    BY <1>1, GetGate, GuardGate, StartRunningGate, LoadPhasesGate, CreatePhaseGate, ActivateGate,
       ShiftTrafficGate, BakeGate, FailPhaseGate, TriggerRollbackGate, ManualGateGate,
       PassPhaseGate, CompleteGate DEF DriverStep
  <1>2. CASE CancelledDriverExits(w) \/ RepoError(w)
    <2>1. Exit(w) /\ UNCHANGED <<row, phases, msg, req>>
      BY <1>2 DEF CancelledDriverExits, RepoError
    <2> QED
      BY <2>1, GateExit
  <1> QED
    BY <1>1, <1>2, DeliverGate, RequestEndsGate

LEMMA GateNext == Gated /\ IndInv /\ GateInv /\ [Next]_vars => GateInv'
  <1> SUFFICES ASSUME Gated, IndInv, GateInv, [Next]_vars PROVE GateInv'
    OBVIOUS
  <1>1. CASE CreateDeployment
    BY <1>1, CreateDeploymentGate
  <1>2. CASE AttachRollout \/ RolloutEnds \/ UNCHANGED vars
    <2>1. UNCHANGED <<row, phases, msg, drv, req>>
      BY <1>2 DEF AttachRollout, RolloutEnds, vars
    <2>2. /\ Positions' = Positions /\ (NoDriver' <=> NoDriver) /\ (AtGate' <=> AtGate)
          /\ (Whole' <=> Whole) /\ (Ready' <=> Ready)
      BY <2>1 DEF Positions, NoDriver, AtGate, Whole, Ready
    <2>3. (Resting' <=> Resting) /\ (Ended' <=> Ended)
      BY <2>1, <2>2 DEF Resting, Ended
    <2>4. RowGate' /\ MsgGate' /\ \A c \in Callers : CallerGate(c)'
      BY <2>1, <2>2, <2>3 DEF GateInv, RowGate, MsgGate, CallerGate
    <2>5. \A v \in Drivers : DriverGate(v)'
      BY <2>1, <2>2 DEF GateInv, DriverGate, Listed
    <2>6. AtMostOneDriver' /\ Numbered' /\ Taken'
      BY <2>1, <2>2 DEF GateInv, AtMostOneDriver, Numbered, Taken
    <2> QED
      BY <2>4, <2>5, <2>6 DEF GateInv
  <1>3. ASSUME NEW w \in Drivers,
               \/ Deliver(w) \/ DriverStep(w) \/ RequestEnds(w)
               \/ CancelledDriverExits(w) \/ RepoError(w)
        PROVE  GateInv'
    BY <1>3, DriverStepGate
  <1>4. ASSUME NEW c \in Callers, ServiceOp(c) \/ CallerStep(c) PROVE GateInv'
    BY <1>4, ReadGate, AdvanceFindPhaseGate, AdvancePassPhaseGate, WriteForOpGate
       DEF ServiceOp, CallerStep
  <1>5. CASE Crash
    BY <1>5, CrashGate
  <1> QED
    BY <1>1, <1>2, <1>3, <1>4, <1>5 DEF Next

\* What the invariant says of the ramp.
LEMMA GateImplies ==
    ASSUME IndInv, GateInv, Gated
    PROVE  AtMostOneDriver /\ PhasesInOrder /\ CompletedAfterEveryPhase
  <1>1. PhasesInOrder
    BY DEF GateInv, Numbered, Taken, PhasesInOrder, Positions
  <1>2. CompletedAfterEveryPhase
    <2> SUFFICES ASSUME row.status = "completed", msg.deliveries > 0
                 PROVE  Whole
      BY DEF CompletedAfterEveryPhase, Whole, Positions
    <2>1. msg.state # "none"
      BY DEF GateInv, MsgGate
    <2> QED
      BY <2>1 DEF GateInv, RowGate, Ended
  <1> QED
    BY <1>1, <1>2 DEF GateInv

\* However many goroutine slots there are and whatever the configuration, a
\* message delivered once and an operator who does not pause hand one ramp from
\* driver to driver: two never drive it at once, no phase starts before the
\* ones ahead of it have passed, and the engine completes it only after the
\* last (engine.go driveDeployment and Advance).
THEOREM GatedRampAlwaysWhole ==
    ASSUME Gated
    PROVE  Spec => [](AtMostOneDriver /\ PhasesInOrder /\ CompletedAfterEveryPhase)
  <1>1. Init => IndInv /\ GateInv
    BY IndInvInit, GateInit
  <1>2. (IndInv /\ GateInv) /\ [Next]_vars => (IndInv /\ GateInv)'
    BY IndInvNext, GateNext
  <1>3. IndInv /\ GateInv => AtMostOneDriver /\ PhasesInOrder /\ CompletedAfterEveryPhase
    BY GateImplies
  <1> QED
    BY <1>1, <1>2, <1>3, PTL DEF Spec

-----------------------------------------------------------------------------
(* The situations of MC_DeployScenarios: what is proved above, and in       *)
(* RollbackControllerProofs, for each.  The situation never changes, so the *)
(* invariant of each is one conjunct, and a step is a step of the one at    *)
(* hand.                                                                    *)

ManualProofs == INSTANCE RollbackControllerProofs WITH
    Deployments <- {d1}, Monitor <- monitor, Managers <- {m1, m2}, Window <- 2, Cooldown <- 2,
    CarefulCallers <- TRUE, MaxWatches <- 4, MaxManual <- 3, MaxFaults <- 1, faults <- failures

SharedProofs == INSTANCE RollbackControllerProofs WITH
    Deployments <- {d1, d2}, Monitor <- monitor, Managers <- {}, Window <- 2, Cooldown <- 1,
    CarefulCallers <- TRUE, MaxWatches <- 5, MaxManual <- 0, MaxFaults <- 1, faults <- failures

SituationInv ==
    /\ scenario \in {"gates", "redelivery", "manual", "shared"}
    /\ scenario = "gates" => IndInv /\ (Gated => GateInv)
    /\ scenario = "manual" => ManualProofs!BaseInv /\ ManualProofs!LockInv
    /\ scenario = "shared" => SharedProofs!BaseInv /\ SharedProofs!LockInv

-----------------------------------------------------------------------------
(* The instances are instances of RollbackController.                      *)

LEMMA ManualConstants == ManualProofs!ControllerConstants
  BY ScenarioAssumption DEF ManualProofs!ControllerConstants

LEMMA SharedConstants == SharedProofs!ControllerConstants
  BY DEF SharedProofs!ControllerConstants

LEMMA SameInitManual == Manual!Init <=> ManualProofs!Init
  BY DEF Manual!Init, ManualProofs!Init, Manual!Actors, ManualProofs!Actors, Manual!NoTime,
         ManualProofs!NoTime, Manual!Idle, ManualProofs!Idle, Manual!Unwatched,
         ManualProofs!Unwatched

LEMMA SameInitShared == Shared!Init <=> SharedProofs!Init
  BY DEF Shared!Init, SharedProofs!Init, Shared!Actors, SharedProofs!Actors, Shared!NoTime,
         SharedProofs!NoTime, Shared!Idle, SharedProofs!Idle, Shared!Unwatched,
         SharedProofs!Unwatched

\* Both instantiate the same definitions; expanded, they are the same formula.
LEMMA SameNextManual == Manual!Next <=> ManualProofs!Next
  BY DEF Manual!Actors, ManualProofs!Actors, Manual!NoTime, ManualProofs!NoTime,
         Manual!State, ManualProofs!State, Manual!Idle, ManualProofs!Idle,
         Manual!Unwatched, ManualProofs!Unwatched, Manual!Fresh, ManualProofs!Fresh,
         Manual!RollingBack, ManualProofs!RollingBack, Manual!CountWatch,
         ManualProofs!CountWatch, Manual!MonitorWatch, ManualProofs!MonitorWatch,
         Manual!MonitorUnwatch, ManualProofs!MonitorUnwatch, Manual!StartRound,
         ManualProofs!StartRound, Manual!RunChecks, ManualProofs!RunChecks,
         Manual!StoreHealth, ManualProofs!StoreHealth, Manual!Watch, ManualProofs!Watch,
         Manual!Unwatch, ManualProofs!Unwatch, Manual!isInCooldown,
         ManualProofs!isInCooldown, Manual!Done, ManualProofs!Done, Manual!OnHealthUpdate,
         ManualProofs!OnHealthUpdate, Manual!handleUnhealthy, ManualProofs!handleUnhealthy,
         Manual!handleHealthy, ManualProofs!handleHealthy, Manual!TriggerManualRollback,
         ManualProofs!TriggerManualRollback, Manual!Execute, ManualProofs!Execute,
         Manual!recordRollback, ManualProofs!recordRollback, Manual!transitionTo,
         ManualProofs!transitionTo, Manual!Flip, ManualProofs!Flip, Manual!Older,
         ManualProofs!Older, Manual!Tick, ManualProofs!Tick, Manual!MonitorStep,
         ManualProofs!MonitorStep, Manual!RollbackStep, ManualProofs!RollbackStep,
         Manual!Next, ManualProofs!Next

LEMMA SameNextShared == Shared!Next <=> SharedProofs!Next
  BY DEF Shared!Actors, SharedProofs!Actors, Shared!NoTime, SharedProofs!NoTime,
         Shared!State, SharedProofs!State, Shared!Idle, SharedProofs!Idle,
         Shared!Unwatched, SharedProofs!Unwatched, Shared!Fresh, SharedProofs!Fresh,
         Shared!RollingBack, SharedProofs!RollingBack, Shared!CountWatch,
         SharedProofs!CountWatch, Shared!MonitorWatch, SharedProofs!MonitorWatch,
         Shared!MonitorUnwatch, SharedProofs!MonitorUnwatch, Shared!StartRound,
         SharedProofs!StartRound, Shared!RunChecks, SharedProofs!RunChecks,
         Shared!StoreHealth, SharedProofs!StoreHealth, Shared!Watch, SharedProofs!Watch,
         Shared!Unwatch, SharedProofs!Unwatch, Shared!isInCooldown,
         SharedProofs!isInCooldown, Shared!Done, SharedProofs!Done, Shared!OnHealthUpdate,
         SharedProofs!OnHealthUpdate, Shared!handleUnhealthy, SharedProofs!handleUnhealthy,
         Shared!handleHealthy, SharedProofs!handleHealthy, Shared!TriggerManualRollback,
         SharedProofs!TriggerManualRollback, Shared!Execute, SharedProofs!Execute,
         Shared!recordRollback, SharedProofs!recordRollback, Shared!transitionTo,
         SharedProofs!transitionTo, Shared!Flip, SharedProofs!Flip, Shared!Older,
         SharedProofs!Older, Shared!Tick, SharedProofs!Tick, Shared!MonitorStep,
         SharedProofs!MonitorStep, Shared!RollbackStep, SharedProofs!RollbackStep,
         Shared!Next, SharedProofs!Next

LEMMA SamePromisesManual ==
    /\ Manual!TypeOK <=> ManualProofs!TypeOK
    /\ Manual!RollingBackIsInProgress <=> ManualProofs!RollingBackIsInProgress
    /\ Manual!NoFlappingStep <=> ManualProofs!NoFlappingStep
    /\ Manual!EarnedStep <=> ManualProofs!EarnedStep
  BY DEF Manual!TypeOK, ManualProofs!TypeOK, Manual!Actors, ManualProofs!Actors,
         Manual!State, ManualProofs!State, Manual!NoTime, ManualProofs!NoTime,
         Manual!RollingBackIsInProgress, ManualProofs!RollingBackIsInProgress,
         Manual!RollingBack, ManualProofs!RollingBack, Manual!NoFlappingStep,
         ManualProofs!NoFlappingStep, Manual!Begins, ManualProofs!Begins,
         Manual!EarnedStep, ManualProofs!EarnedStep

LEMMA SamePromisesShared ==
    /\ Shared!TypeOK <=> SharedProofs!TypeOK
    /\ Shared!RollingBackIsInProgress <=> SharedProofs!RollingBackIsInProgress
    /\ Shared!NoFlappingStep <=> SharedProofs!NoFlappingStep
    /\ Shared!EarnedStep <=> SharedProofs!EarnedStep
  BY DEF Shared!TypeOK, SharedProofs!TypeOK, Shared!Actors, SharedProofs!Actors,
         Shared!State, SharedProofs!State, Shared!NoTime, SharedProofs!NoTime,
         Shared!RollingBackIsInProgress, SharedProofs!RollingBackIsInProgress,
         Shared!RollingBack, SharedProofs!RollingBack, Shared!NoFlappingStep,
         SharedProofs!NoFlappingStep, Shared!Begins, SharedProofs!Begins,
         Shared!EarnedStep, SharedProofs!EarnedStep

-----------------------------------------------------------------------------
(* The invariants of the situations.                                       *)

LEMMA InitSituation == ScenarioInit => SituationInv
  <1>1. Init => IndInv /\ GateInv
    BY IndInvInit, GateInit
  <1>2. ManualProofs!Init => ManualProofs!BaseInv /\ ManualProofs!LockInv
    BY ManualConstants, ManualProofs!BaseInit
  <1>3. SharedProofs!Init => SharedProofs!BaseInv /\ SharedProofs!LockInv
    BY SharedConstants, SharedProofs!BaseInit
  <1> QED
    BY <1>1, <1>2, <1>3, SameInitManual, SameInitShared DEF ScenarioInit, SituationInv

\* What a step of a situation is.
LEMMA SituationStep ==
    ASSUME [ScenarioNext]_allVars
    PROVE  /\ scenario' = scenario
           /\ scenario = "gates" => [Next]_vars
           /\ scenario = "manual" => [ManualProofs!Next]_ManualProofs!vars
           /\ scenario = "shared" => [SharedProofs!Next]_SharedProofs!vars
  BY SameNextManual, SameNextShared
     DEF ScenarioNext, allVars, controllerVars, vars, ManualProofs!vars, SharedProofs!vars

LEMMA NextSituation == SituationInv /\ [ScenarioNext]_allVars => SituationInv'
  <1> SUFFICES ASSUME SituationInv, [ScenarioNext]_allVars PROVE SituationInv'
    OBVIOUS
  <1>1. CASE scenario = "gates"
    <2>1. IndInv' /\ (Gated => GateInv')
      BY <1>1, SituationStep, IndInvNext, GateNext DEF SituationInv
    <2> QED
      BY <1>1, <2>1, SituationStep DEF SituationInv, Gated
  <1>2. CASE scenario = "manual"
    <2>1. ManualProofs!BaseInv' /\ ManualProofs!LockInv'
      BY <1>2, SituationStep, ManualConstants, ManualProofs!BaseStep, ManualProofs!LockStep
         DEF SituationInv
    <2> QED
      BY <1>2, <2>1, SituationStep DEF SituationInv
  <1>3. CASE scenario = "shared"
    <2>1. SharedProofs!BaseInv' /\ SharedProofs!LockInv'
      BY <1>3, SituationStep, SharedConstants, SharedProofs!BaseStep, SharedProofs!LockStep
         DEF SituationInv
    <2> QED
      BY <1>3, <2>1, SituationStep DEF SituationInv
  <1>4. CASE scenario = "redelivery"
    BY <1>4, SituationStep DEF SituationInv
  <1> QED
    BY <1>1, <1>2, <1>3, <1>4 DEF SituationInv

LEMMA SpecSituation == ScenarioSpec => []SituationInv
  BY InitSituation, NextSituation, PTL DEF ScenarioSpec

-----------------------------------------------------------------------------
(* Theorems.                                                               *)

\* GatedRampIsWhole: for any drivers, canary configuration and bounds, when the
\* message is delivered once, operators do not pause and one request is in
\* flight at a time (engine.go Advance and driveDeployment).
THEOREM GatedRampIsAlwaysWhole == ASSUME Gated PROVE ScenarioSpec => []GatedRampIsWhole
  <1>1. SituationInv => GatedRampIsWhole
    BY GateImplies DEF SituationInv, GatedRampIsWhole
  <1> QED
    BY <1>1, SpecSituation, PTL

\* RollingBackHasAGoroutine, for any goroutines and deployments: the types of
\* the controller's state, and a goroutine behind every ROLLING_BACK until an
\* execution fails (handleUnhealthy, TriggerManualRollback, transitionTo).
THEOREM RollingBackAlwaysHasAGoroutine == ScenarioSpec => []RollingBackHasAGoroutine
  <1>1. ManualProofs!BaseInv => ManualProofs!TypeOK /\ ManualProofs!RollingBackIsInProgress
    BY ManualProofs!BaseMeans
  <1>2. SharedProofs!BaseInv => SharedProofs!TypeOK /\ SharedProofs!RollingBackIsInProgress
    BY SharedProofs!BaseMeans
  <1>3. SituationInv => RollingBackHasAGoroutine
    BY <1>1, <1>2, SamePromisesManual, SamePromisesShared DEF SituationInv, RollingBackHasAGoroutine
  <1> QED
    BY <1>3, SpecSituation, PTL

\* RollbacksAreEarned: rollbacks of a deployment never overlap and are a cooldown
\* apart although the lock is released while one runs, and an automatic one
\* comes only after a window without a healthy update (isInCooldown,
\* handleHealthy, handleUnhealthy).
THEOREM RollbacksAreAlwaysEarned == ScenarioSpec => RollbacksAreEarned
  <1>1. SituationInv /\ [ScenarioNext]_allVars =>
          [/\ scenario = "manual" => Manual!NoFlappingStep /\ Manual!EarnedStep
           /\ scenario = "shared" => Shared!NoFlappingStep /\ Shared!EarnedStep]_allVars
    <2> SUFFICES ASSUME SituationInv, [ScenarioNext]_allVars
                 PROVE  /\ scenario = "manual" => Manual!NoFlappingStep /\ Manual!EarnedStep
                        /\ scenario = "shared" => Shared!NoFlappingStep /\ Shared!EarnedStep
      OBVIOUS
    <2>1. ASSUME scenario = "manual" PROVE Manual!NoFlappingStep /\ Manual!EarnedStep
      BY <2>1, SituationStep, ManualConstants, SamePromisesManual,
         ManualProofs!NoFlappingAtAnyStep, ManualProofs!EarnedAtAnyStep DEF SituationInv
    <2>2. ASSUME scenario = "shared" PROVE Shared!NoFlappingStep /\ Shared!EarnedStep
      BY <2>2, SituationStep, SharedConstants, SamePromisesShared,
         SharedProofs!NoFlappingAtAnyStep, SharedProofs!EarnedAtAnyStep DEF SituationInv
    <2> QED
      BY <2>1, <2>2
  <1> QED
    BY <1>1, SpecSituation, PTL DEF ScenarioSpec, RollbacksAreEarned
==============================================================================
