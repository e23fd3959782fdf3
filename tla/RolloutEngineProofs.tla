------------------------- MODULE RolloutEngineProofs -------------------------
(***************************************************************************)
(* Proofs about RolloutEngine, for any strategy, signals, deliveries and   *)
(* bounds.                                                                 *)
(*                                                                         *)
(* What one replica promises of the target's percentage is not inductive   *)
(* over the rollout's row: a driver that takes over after a crash works    *)
(* from the phase pointer and from a listing of the phases.  The invariant *)
(* therefore speaks of the phase the next listing would begin with, and    *)
(* says that the running driver is at just that phase.                     *)
(***************************************************************************)
EXTENDS RolloutEngine, SequenceTheorems, WellFoundedInduction, TLAPS

PhaseList == {<<>>} \cup [1..Len(Steps) -> PhaseStatus]

\* DriveRollout's locals.
DriverRec ==
    [pc : DriverPc, status : RolloutStatus, i : 0..(Len(Steps) + 1), list : PhaseList,
     elapsed : 0..Horizon, healthy : -1..Horizon]

CallerRec == [pc : {"idle", "write", "event", "revert"}, op : Control \cup {"none"}]
EventRec == [stored : SUBSET Control, lost : SUBSET (Control \cup {"phase"})]

\* The places where the driver works on a phase, and where it has a place to start.
InPhase == {"apply", "enter", "point", "tick", "pass", "fail"}
Starting == {"phases", "insert", "activate", "list"}

TypeInv ==
    /\ ro \in [status : RolloutStatus, idx : 1..Len(Steps)]
    /\ phases \in PhaseList
    /\ pct \in 0..100
    /\ msg \in [acked : BOOLEAN, deliveries : 0..MaxDeliver]
    /\ inbox \in [Replicas -> Nat]
    /\ \A w \in Replicas : inbox[w] <= msg.deliveries
    /\ drv \in [Replicas -> DriverRec]
    /\ \A w \in Replicas : drv[w].pc \in InPhase \cup Starting => drv[w].i \in 1..Len(Steps)
    /\ req \in [Callers -> CallerRec]
    /\ \A c \in Callers : req[c].pc \in {"write", "event"} => req[c].op \in Control
    /\ events \in EventRec
    /\ ops \in 0..MaxOps
    /\ faults \in 0..MaxFaults
    /\ crashes \in 0..MaxCrashes

-----------------------------------------------------------------------------
(* The operators of the engine.                                            *)

LEMMA StepsTyped ==
    /\ Len(Steps) \in Nat \ {0}
    /\ \A k \in 1..Len(Steps) : /\ Steps[k] \in StepRecord /\ Steps[k].pct \in 0..100
                                /\ Steps[k].min \in Nat /\ Steps[k].max \in Nat
                                /\ Steps[k].bake \in Nat
    /\ \A k \in 1..Len(Steps) : k > 1 => Steps[k].pct >= Steps[k - 1].pct
    /\ Steps[Len(Steps)].pct = 100
  <1>1. Len(Steps) \in Nat /\ Len(Steps) > 0
    BY StrategyAssumption, LenProperties DEF ValidateStrategy
  <1>2. \A k \in 1..Len(Steps) : Steps[k] \in StepRecord
    BY StrategyAssumption, ElementOfSeq
  <1> QED
    BY <1>1, <1>2, StrategyAssumption, SMTT(60) DEF ValidateStrategy, StepRecord

\* The smallest element of a set of naturals is one of them.
LEMMA MinOfNats ==
    ASSUME NEW S \in SUBSET Nat, S # {}
    PROVE  Min(S) \in S /\ \A y \in S : Min(S) <= y
  <1>1. PICK x \in S : \A y \in S : ~(<<y, x>> \in OpToRel(<, Nat))
    BY NatLessThanWellFounded, WFMin
  <1>2. \A y \in S : x <= y
    <2> SUFFICES ASSUME NEW y \in S, y < x PROVE FALSE
      OBVIOUS
    <2>1. <<y, x>> \in OpToRel(<, Nat)
      BY DEF OpToRel
    <2> QED
      BY <1>1, <2>1
  <1> QED
    BY <1>2 DEF Min

\* A bounded set of naturals has a largest element.
LEMMA MaxOfNats ==
    ASSUME NEW S \in SUBSET Nat, S # {}, NEW b \in Nat, \A y \in S : y <= b
    PROVE  Max(S) \in S /\ \A y \in S : Max(S) >= y
  <1> DEFINE T == {c \in Nat : \A y \in S : y <= c}
  <1>1. T \subseteq Nat /\ T # {}
    OBVIOUS
  <1>2. Min(T) \in T /\ \A c \in T : Min(T) <= c
    BY <1>1, MinOfNats
  <1> DEFINE m == Min(T)
  <1>3. m \in Nat /\ (\A y \in S : y <= m) /\ \A c \in T : m <= c
    BY <1>2
  <1> HIDE DEF m
  <1>4. m \in S
    <2> SUFFICES ASSUME m \notin S PROVE FALSE
      OBVIOUS
    <2>1. \A y \in S : y < m
      BY <1>3
    <2>2. m - 1 \in Nat /\ \A y \in S : y <= m - 1
      <3>1. PICK y \in S : y < m
        BY <2>1
      <3> QED
        BY <1>3, <2>1, <3>1
    <2> QED
      BY <1>3, <2>2
  <1> QED
    BY <1>3, <1>4 DEF Max

\* What one step of the strategy is counted in polls for.
Durations(k) == {Steps[k].min, Steps[k].max, Steps[k].bake}

LEMMA HorizonIsNat == Horizon \in Nat
  <1> DEFINE n == Len(Steps)
             S == UNION {Durations(k) : k \in 1..n}
             Bounded(m) == \E b \in Nat : \A k \in 1..m : \A y \in Durations(k) : y <= b
             Bad == {m \in 0..n : ~Bounded(m)}
  <1>1. n \in Nat \ {0} /\ \A k \in 1..n : Durations(k) \subseteq Nat /\ Durations(k) # {}
    BY StepsTyped DEF Durations
  <1>2. Bad = {}
    <2> SUFFICES ASSUME Bad # {} PROVE FALSE
      OBVIOUS
    <2>1. Bad \subseteq Nat
      BY <1>1
    <2>2. Min(Bad) \in Bad /\ \A c \in Bad : Min(Bad) <= c
      BY <2>1, MinOfNats
    <2>3. PICK m : m \in Bad /\ \A c \in Bad : m <= c
      BY <2>2
    <2>4. m # 0
      BY <1>1, <2>3
    <2>5. m - 1 \in 0..n /\ m \in 1..n
      BY <1>1, <2>3, <2>4
    <2>6. Bounded(m - 1)
      <3>1. m - 1 \notin Bad
        <4> HIDE DEF Bad, n
        <4> QED
          BY <1>1, <2>3, <2>5
      <3> QED
        BY <2>5, <3>1
    <2>7. PICK b \in Nat : \A k \in 1..(m - 1) : \A y \in Durations(k) : y <= b
      BY <2>6
    <2> DEFINE c == b + Steps[m].min + Steps[m].max + Steps[m].bake
    <2>8. c \in Nat /\ b <= c /\ \A y \in Durations(m) : y <= c
      <3>1. Steps[m].min \in Nat /\ Steps[m].max \in Nat /\ Steps[m].bake \in Nat
        BY <2>5, StepsTyped
      <3>2. ASSUME NEW x \in Nat, NEW y \in Nat, NEW z \in Nat
            PROVE  LET t == b + x + y + z
                   IN  t \in Nat /\ b <= t /\ x <= t /\ y <= t /\ z <= t
        OBVIOUS
      <3>3. c \in Nat /\ b <= c /\ Steps[m].min <= c /\ Steps[m].max <= c /\ Steps[m].bake <= c
        BY <3>1, <3>2
      <3> HIDE DEF c
      <3> QED
        BY <3>3 DEF Durations
    <2> HIDE DEF c
    <2>9. \A k \in 1..m : \A y \in Durations(k) : y <= c
      <3> SUFFICES ASSUME NEW k \in 1..m, NEW y \in Durations(k) PROVE y <= c
        OBVIOUS
      <3>1. CASE k = m
        BY <2>8, <3>1
      <3>2. CASE k # m
        <4>1. k \in 1..(m - 1) /\ k \in 1..n
          BY <2>5, <3>2
        <4>2. y \in Nat /\ y <= b
          BY <1>1, <2>7, <4>1
        <4> QED
          BY <2>8, <4>2
      <3> QED
        BY <3>1, <3>2
    <2> QED
      BY <2>3, <2>8, <2>9
  <1>3. PICK b \in Nat : \A y \in S : y <= b
    <2> HIDE DEF Bad, n
    <2>1. n \in 0..n /\ n \notin Bad
      BY <1>1, <1>2
    <2> USE DEF Bad
    <2>2. Bounded(n)
      BY <2>1
    <2> QED
      BY <2>2
  <1>4. S \subseteq Nat /\ S # {}
    BY <1>1
  <1>5. Max(S) \in Nat
    BY <1>3, <1>4, MaxOfNats
  <1> QED
    BY <1>5 DEF Horizon, Durations

LEMMA LaterTyped ==
    ASSUME NEW t \in 0..Horizon
    PROVE  Later(t) \in 0..Horizon
  BY HorizonIsNat DEF Later

\* The scan for a phase that has not passed (ListPhases' loop, PassPhase's next
\* iteration) finds the first such phase, or the place just past the last one.
LEMMA NextPhaseFound ==
    ASSUME NEW list, NEW i \in 1..(Len(Steps) + 1)
    PROVE  /\ NextPhase(list, i) \in i..(Len(Steps) + 1)
           /\ NextPhase(list, i) <= Len(Steps) => list[NextPhase(list, i)] # "passed"
           /\ \A k \in i..Len(Steps) : k < NextPhase(list, i) => list[k] = "passed"
  <1> DEFINE S == {k \in i..Len(Steps) : list[k] # "passed"} \cup {Len(Steps) + 1}
  <1>1. S \subseteq Nat /\ S # {}
    BY StepsTyped
  <1>2. Min(S) \in S /\ \A y \in S : Min(S) <= y
    BY <1>1, MinOfNats
  <1>3. NextPhase(list, i) = Min(S)
    BY DEF NextPhase
  <1> DEFINE m == Min(S)
  <1> HIDE DEF m
  <1>4. m \in S /\ \A y \in S : m <= y
    BY <1>2 DEF m
  <1>5. \A k \in i..Len(Steps) : k < m => list[k] = "passed"
    <2> SUFFICES ASSUME NEW k \in i..Len(Steps), k < m, list[k] # "passed" PROVE FALSE
      OBVIOUS
    <2>1. k \in S /\ m \in Nat
      BY <1>1, <1>4
    <2> QED
      BY <1>4, <2>1, StepsTyped
  <1> QED
    BY <1>3, <1>4, <1>5, StepsTyped DEF m

\* What is first not passed from i on is that, wherever it is looked up.
LEMMA NextPhaseUnique ==
    ASSUME NEW list, NEW i \in 1..(Len(Steps) + 1), NEW n \in i..(Len(Steps) + 1),
           n <= Len(Steps) => list[n] # "passed",
           \A k \in i..Len(Steps) : k < n => list[k] = "passed"
    PROVE  NextPhase(list, i) = n
  <1> DEFINE m == NextPhase(list, i)
  <1>1. /\ m \in i..(Len(Steps) + 1)
        /\ m <= Len(Steps) => list[m] # "passed"
        /\ \A k \in i..Len(Steps) : k < m => list[k] = "passed"
    BY NextPhaseFound
  <1> HIDE DEF m
  <1>2. m = n
    BY <1>1, StepsTyped
  <1> QED
    BY <1>2 DEF m

-----------------------------------------------------------------------------
(* Types.                                                                  *)

LEMMA InitTypeInv == Init => TypeInv
  <1> SUFFICES ASSUME Init PROVE TypeInv
    OBVIOUS
  <1>1. IdleDriver \in DriverRec /\ IdleDriver.pc = "idle"
    BY StepsTyped, HorizonIsNat
       DEF IdleDriver, DriverRec, DriverPc, RolloutStatus, PhaseList
  <1>2. ro \in [status : RolloutStatus, idx : 1..Len(Steps)]
    BY StepsTyped DEF Init, RolloutStatus
  <1>3. msg \in [acked : BOOLEAN, deliveries : 0..MaxDeliver]
    BY LimitsAssumption DEF Init
  <1>4. ops \in 0..MaxOps /\ faults \in 0..MaxFaults /\ crashes \in 0..MaxCrashes
    BY LimitsAssumption DEF Init
  <1> QED
    BY <1>1, <1>2, <1>3, <1>4, PreviousAssumption
       DEF Init, TypeInv, PhaseList, InPhase, Starting, IdleCaller, CallerRec, EventRec

\* A driver that keeps its other locals while it moves to pc.
LEMMA GotoTyped ==
    ASSUME TypeInv, NEW w \in Replicas, NEW pc \in DriverPc, Goto(w, pc),
           pc \in InPhase \cup Starting => drv[w].i \in 1..Len(Steps)
    PROVE  /\ drv' \in [Replicas -> DriverRec] /\ msg' = msg
           /\ \A v \in Replicas : drv'[v].pc \in InPhase \cup Starting => drv'[v].i \in 1..Len(Steps)
  <1>1. [drv[w] EXCEPT !.pc = pc] \in DriverRec
    BY ZenonT(60) DEF TypeInv, DriverRec
  <1> QED
    BY <1>1 DEF Goto, TypeInv, DriverRec

LEMMA ExitTyped ==
    ASSUME TypeInv, NEW w \in Replicas, Exit(w)
    PROVE  /\ drv' \in [Replicas -> DriverRec] /\ drv'[w] = IdleDriver
           /\ \A v \in Replicas : drv'[v].pc \in InPhase \cup Starting => drv'[v].i \in 1..Len(Steps)
           /\ msg' \in [acked : BOOLEAN, deliveries : 0..MaxDeliver]
           /\ msg'.deliveries = msg.deliveries
  <1>1. IdleDriver \in DriverRec /\ IdleDriver.pc = "idle"
    BY StepsTyped, HorizonIsNat
       DEF IdleDriver, DriverRec, DriverPc, RolloutStatus, PhaseList
  <1> QED
    BY <1>1 DEF Exit, TypeInv, InPhase, Starting

LEMMA StartPhaseTyped ==
    ASSUME TypeInv, NEW w \in Replicas, NEW list \in PhaseList, NEW k \in 1..(Len(Steps) + 1),
           StartPhase(w, list, k)
    PROVE  /\ drv' \in [Replicas -> DriverRec]
           /\ \A v \in Replicas : drv'[v].pc \in InPhase \cup Starting => drv'[v].i \in 1..Len(Steps)
  <1> DEFINE d == [pc |-> IF k <= Len(Steps) THEN "apply" ELSE "complete",
                   status |-> drv[w].status, i |-> k, list |-> list, elapsed |-> 0, healthy |-> -1]
  <1>1. d \in DriverRec /\ (d.pc \in InPhase \cup Starting => d.i \in 1..Len(Steps))
    BY StepsTyped, HorizonIsNat DEF TypeInv, DriverRec, DriverPc, InPhase, Starting
  <1>2. drv' = [drv EXCEPT ![w] = d]
    BY DEF StartPhase
  <1> HIDE DEF d
  <1> QED
    BY <1>1, <1>2 DEF TypeInv

\* The writes whose error is ignored.
LEMMA WritesTyped ==
    ASSUME TypeInv
    PROVE  /\ \A new \in [status : RolloutStatus, idx : 1..Len(Steps)] :
                WriteRollout(new) => /\ ro' \in [status : RolloutStatus, idx : 1..Len(Steps)]
                                     /\ faults' \in 0..MaxFaults
           /\ \A k \in 1..Len(Steps), s \in PhaseStatus :
                WritePhase(k, s) => phases' \in PhaseList /\ faults' \in 0..MaxFaults
           /\ CallFails => faults' \in 0..MaxFaults
           /\ \A s \in RolloutStatus :
                [ro EXCEPT !.status = s] \in [status : RolloutStatus, idx : 1..Len(Steps)]
           /\ \A k \in 1..Len(Steps) :
                [ro EXCEPT !.idx = k] \in [status : RolloutStatus, idx : 1..Len(Steps)]
  <1>1. CallFails => faults' \in 0..MaxFaults
    BY LimitsAssumption DEF CallFails, TypeInv
  <1>2. ASSUME NEW k \in 1..Len(Steps), NEW s \in PhaseStatus
        PROVE  [phases EXCEPT ![k] = s] \in PhaseList
    BY DEF TypeInv, PhaseList
  <1> QED
    BY <1>1, <1>2, SMTT(60) DEF WriteRollout, WritePhase, TypeInv

LEMMA AddedEvents ==
    ASSUME TypeInv
    PROVE  /\ \A op \in Control : [events EXCEPT !.stored = @ \cup {op}] \in EventRec
           /\ \A x \in Control \cup {"phase"} : [events EXCEPT !.lost = @ \cup {x}] \in EventRec
           /\ events \in EventRec
  BY DEF TypeInv, EventRec

\* The clauses of TypeInv a driver's step has to see to.
LEMMA DriverStepTyped ==
    ASSUME TypeInv,
           ro' \in [status : RolloutStatus, idx : 1..Len(Steps)],
           phases' \in PhaseList, pct' \in 0..100,
           msg' \in [acked : BOOLEAN, deliveries : 0..MaxDeliver],
           msg'.deliveries = msg.deliveries, inbox' = inbox,
           drv' \in [Replicas -> DriverRec],
           \A v \in Replicas : drv'[v].pc \in InPhase \cup Starting => drv'[v].i \in 1..Len(Steps),
           faults' \in 0..MaxFaults, events' = events \/ events' \in EventRec,
           UNCHANGED <<req, ops, crashes>>
    PROVE  TypeInv'
  BY DEF TypeInv

\* The same for a driver with status s and place i in the rollout, before the phases.
LEMMA StartingTyped ==
    ASSUME TypeInv, NEW w \in Replicas, NEW pc \in DriverPc, NEW s \in RolloutStatus,
           NEW i \in 1..Len(Steps),
           drv' = [drv EXCEPT ![w] = [@ EXCEPT !.pc = pc, !.status = s, !.i = i]]
    PROVE  /\ drv' \in [Replicas -> DriverRec]
           /\ \A v \in Replicas : drv'[v].pc \in InPhase \cup Starting => drv'[v].i \in 1..Len(Steps)
  <1>1. [drv[w] EXCEPT !.pc = pc, !.status = s, !.i = i] \in DriverRec
        /\ [drv[w] EXCEPT !.pc = pc, !.status = s, !.i = i].i = i
    <2>1. drv[w] \in DriverRec /\ i \in 0..(Len(Steps) + 1)
      BY StepsTyped DEF TypeInv
    <2> QED
      BY <2>1 DEF DriverRec
  <1> QED
    BY <1>1 DEF TypeInv

LEMMA PollTyped == ASSUME TypeInv, NEW w \in Replicas, NEW s \in Signals, Poll(w, s) PROVE TypeInv'
  <1> DEFINE healthy == HealthySince(w, s)
             d == [drv[w] EXCEPT !.pc = Verdict(w, s), !.elapsed = Later(drv[w].elapsed),
                             !.healthy = healthy]
  <1>1. /\ drv[w] \in DriverRec /\ drv[w].pc = "tick" /\ drv[w].i \in 1..Len(Steps)
        /\ drv[w].elapsed \in 0..Horizon /\ drv[w].healthy \in -1..Horizon
    BY DEF TypeInv, DriverRec, Poll, InPhase
  <1>2. UNCHANGED <<pct, inbox, req, events, ops, crashes>>
    BY DEF Poll
  <1>3. CASE Verdict(w, s) = "await"
    <2>1. AwaitApproval(w)
      BY <1>3 DEF Poll
    <2>2. /\ phases' \in PhaseList
          /\ ro' \in [status : RolloutStatus, idx : 1..Len(Steps)] /\ faults' = faults
      BY <1>1, <2>1, WritesTyped, SMTT(60) DEF AwaitApproval, TypeInv, PhaseList, PhaseStatus, RolloutStatus
    <2>3. faults' \in 0..MaxFaults /\ pct' \in 0..100
      BY <1>2, <2>2 DEF TypeInv
    <2>4. Exit(w)
      BY <2>1 DEF AwaitApproval
    <2> QED
      BY <1>2, <2>2, <2>3, <2>4, ExitTyped, DriverStepTyped
  <1>4. CASE Verdict(w, s) # "await"
    <2>1. Verdict(w, s) \in {"fail", "pass", "tick"}
      BY <1>4 DEF Verdict
    <2>2. healthy \in -1..Horizon /\ Later(drv[w].elapsed) \in 0..Horizon
      <3>1. drv[w].healthy # -1 => Later(drv[w].healthy) \in 0..Horizon
        <4>1. drv[w].healthy # -1 => drv[w].healthy \in 0..Horizon
          BY <1>1, HorizonIsNat
        <4> QED
          BY <4>1, LaterTyped
      <3> QED
        <4>1. \/ healthy \in {-1, 0}
              \/ drv[w].healthy # -1 /\ healthy = Later(drv[w].healthy)
          BY DEF HealthySince
        <4>2. healthy \in -1..Horizon
          BY <3>1, <4>1, HorizonIsNat
        <4> HIDE DEF healthy
        <4> QED
          BY <1>1, <4>2, LaterTyped
    <2>3. d \in DriverRec /\ d.i = drv[w].i
      BY <1>1, <2>1, <2>2 DEF DriverRec, DriverPc
    <2>4. drv' = [drv EXCEPT ![w] = d] /\ UNCHANGED <<phases, msg>>
      BY <1>1, <1>4 DEF Poll, TypeInv, DriverRec
    <2>5. WriteRollout([ro EXCEPT !.idx = drv[w].i]) \/ (ro' = ro /\ faults' = faults)
      BY <1>4 DEF Poll
    <2>6. ro' \in [status : RolloutStatus, idx : 1..Len(Steps)] /\ faults' \in 0..MaxFaults
      BY <1>1, <2>5, WritesTyped DEF TypeInv
    <2> HIDE DEF d
    <2>7. /\ drv' \in [Replicas -> DriverRec]
          /\ \A v \in Replicas : drv'[v].pc \in InPhase \cup Starting => drv'[v].i \in 1..Len(Steps)
      BY <1>1, <2>3, <2>4 DEF TypeInv
    <2> QED
      BY <1>2, <2>4, <2>6, <2>7, DriverStepTyped DEF TypeInv
  <1> QED
    BY <1>3, <1>4

LEMMA DriveTyped ==
    ASSUME TypeInv, NEW w \in Replicas, DriveStep(w) \/ PollFails(w) \/ DriveError(w)
    PROVE  TypeInv'
  <1>0. /\ drv[w] \in DriverRec /\ drv[w].status \in RolloutStatus /\ drv[w].list \in PhaseList
        /\ ro.status \in RolloutStatus /\ ro.idx \in 1..Len(Steps)
        /\ drv[w].pc \in InPhase \cup Starting => drv[w].i \in 1..Len(Steps)
        /\ pct \in 0..100 /\ faults \in 0..MaxFaults /\ phases \in PhaseList
        /\ msg \in [acked : BOOLEAN, deliveries : 0..MaxDeliver]
        /\ ro \in [status : RolloutStatus, idx : 1..Len(Steps)]
    BY DEF TypeInv, DriverRec
  <1> USE DEF DriverPc, InPhase, Starting
  <1>1. CASE GetRollout(w)
    <2>1. CASE Exit(w)
      BY <1>0, <1>1, <2>1, ExitTyped, DriverStepTyped DEF GetRollout
    <2>2. CASE drv' = [drv EXCEPT ![w] = [@ EXCEPT !.pc = "phases", !.status = ro.status, !.i = ro.idx]]
               /\ msg' = msg
      BY <1>0, <1>1, <2>2, StartingTyped, DriverStepTyped, ZenonT(60) DEF GetRollout
    <2> QED
      BY <1>1, <2>1, <2>2 DEF GetRollout
  <1>2. CASE EnsurePhasesExist(w)
    BY <1>0, <1>2, GotoTyped, DriverStepTyped DEF EnsurePhasesExist
  <1>3. CASE BulkInsertPhases(w)
    <2>1. phases' \in PhaseList
      BY <1>0, <1>3 DEF BulkInsertPhases, PhaseList, PhaseStatus
    <2> QED
      BY <1>0, <1>3, <2>1, ExitTyped, GotoTyped, DriverStepTyped DEF BulkInsertPhases
  <1>4. CASE SetActive(w)
    <2>1. ro' \in [status : RolloutStatus, idx : 1..Len(Steps)] /\ faults' \in 0..MaxFaults
      BY <1>4, WritesTyped DEF SetActive, RolloutStatus
    <2>2. drv' = [drv EXCEPT ![w] = [@ EXCEPT !.pc = "list", !.status = "active", !.i = drv[w].i]]
      BY <1>0, <1>4 DEF SetActive, DriverRec
    <2>3. drv[w].i \in 1..Len(Steps) /\ "active" \in RolloutStatus
      BY <1>0, <1>4 DEF SetActive, RolloutStatus
    <2>4. /\ drv' \in [Replicas -> DriverRec]
          /\ \A v \in Replicas : drv'[v].pc \in InPhase \cup Starting => drv'[v].i \in 1..Len(Steps)
      BY <2>2, <2>3, StartingTyped
    <2> QED
      BY <1>0, <1>4, <2>1, <2>4, DriverStepTyped DEF SetActive
  <1>5. CASE ListPhases(w)
    <2>1. drv[w].i \in 1..(Len(Steps) + 1) /\ NextPhase(phases, drv[w].i) \in 1..(Len(Steps) + 1)
      BY <1>0, <1>5, StepsTyped, NextPhaseFound DEF ListPhases
    <2>2. /\ drv' \in [Replicas -> DriverRec]
          /\ \A v \in Replicas : drv'[v].pc \in InPhase \cup Starting => drv'[v].i \in 1..Len(Steps)
      BY <1>0, <1>5, <2>1, StartPhaseTyped DEF ListPhases
    <2> QED
      BY <1>0, <1>5, <2>2, DriverStepTyped DEF ListPhases
  <1>6. CASE Apply(w)
    <2>1. drv[w].i \in 1..Len(Steps) /\ pct' \in 0..100
      BY <1>0, <1>6, StepsTyped DEF Apply
    <2> QED
      BY <1>0, <1>6, <2>1, GotoTyped, DriverStepTyped DEF Apply
  <1>7. CASE EnterPhase(w)
    <2>1. phases' \in PhaseList /\ faults' \in 0..MaxFaults
      BY <1>0, <1>7, WritesTyped DEF EnterPhase, PhaseStatus
    <2> QED
      BY <1>0, <1>7, <2>1, GotoTyped, DriverStepTyped DEF EnterPhase
  <1>8. CASE PointPhase(w)
    <2>1. ro' \in [status : RolloutStatus, idx : 1..Len(Steps)] /\ faults' \in 0..MaxFaults
      BY <1>0, <1>8, WritesTyped DEF PointPhase
    <2> QED
      BY <1>0, <1>8, <2>1, GotoTyped, DriverStepTyped DEF PointPhase
  <1>9. ASSUME NEW s \in Signals, Poll(w, s) PROVE TypeInv'
    BY <1>9, PollTyped
  <1>10. CASE PassPhase(w)
    <2>1. phases' \in PhaseList /\ faults' \in 0..MaxFaults
      BY <1>0, <1>10, WritesTyped DEF PassPhase, PhaseStatus
    <2>2. drv[w].i + 1 \in 1..(Len(Steps) + 1)
          /\ NextPhase(drv[w].list, drv[w].i + 1) \in 1..(Len(Steps) + 1)
      BY <1>0, <1>10, StepsTyped, NextPhaseFound DEF PassPhase
    <2> QED
      BY <1>0, <1>10, <2>1, <2>2, StartPhaseTyped, DriverStepTyped DEF PassPhase
  <1>11. CASE FailPhase(w)
    <2>1. WritePhase(drv[w].i, "rolled_back")
      BY <1>11 DEF FailPhase, WritePhase
    <2>2. phases' \in PhaseList /\ faults' \in 0..MaxFaults
      BY <1>0, <1>11, <2>1, WritesTyped DEF FailPhase, PhaseStatus
    <2>3. events' = events \/ events' \in EventRec
      BY <1>11, AddedEvents DEF FailPhase
    <2> QED
      BY <1>0, <1>11, <2>2, <2>3, GotoTyped, DriverStepTyped DEF FailPhase
  <1>12. CASE Rollback(w)
    <2>1. ro' \in [status : RolloutStatus, idx : 1..Len(Steps)] /\ faults' \in 0..MaxFaults
      BY <1>0, <1>12, WritesTyped DEF Rollback, RolloutStatus, TerminalStatus
    <2> QED
      BY <1>0, <1>12, <2>1, GotoTyped, DriverStepTyped DEF Rollback
  <1>13. CASE Revert(w)
    <2>1. faults' \in 0..MaxFaults /\ pct' \in 0..100
      BY <1>0, <1>13, WritesTyped, PreviousAssumption DEF Revert
    <2> QED
      BY <1>0, <1>13, <2>1, ExitTyped, DriverStepTyped DEF Revert
  <1>14. CASE MarkCompleted(w)
    <2>1. ro' \in [status : RolloutStatus, idx : 1..Len(Steps)] /\ faults' \in 0..MaxFaults
      BY <1>0, <1>14, WritesTyped DEF MarkCompleted, RolloutStatus, TerminalStatus
    <2> QED
      BY <1>0, <1>14, <2>1, ExitTyped, DriverStepTyped DEF MarkCompleted
  <1>15. CASE PollFails(w)
    <2> DEFINE h == IF drv[w].healthy = -1 THEN -1 ELSE Later(drv[w].healthy)
               d == [drv[w] EXCEPT !.elapsed = Later(drv[w].elapsed), !.healthy = h]
    <2>1. drv[w].elapsed \in 0..Horizon /\ drv[w].healthy \in -1..Horizon
      BY <1>0 DEF DriverRec
    <2>2. Later(drv[w].elapsed) \in 0..Horizon
      BY <2>1, LaterTyped
    <2>3. h \in -1..Horizon
      <3>1. drv[w].healthy # -1 => drv[w].healthy \in 0..Horizon
        BY <2>1, HorizonIsNat
      <3>2. drv[w].healthy # -1 => Later(drv[w].healthy) \in 0..Horizon
        BY <3>1, LaterTyped
      <3> QED
        BY <2>1, <3>2, HorizonIsNat
    <2>4. d \in DriverRec /\ d.pc = drv[w].pc /\ d.i = drv[w].i
      BY <1>0, <2>2, <2>3, HorizonIsNat DEF DriverRec
    <2>5. drv' = [drv EXCEPT ![w] = d]
      <3>1. drv' = [drv EXCEPT ![w] = [drv[w] EXCEPT !.elapsed = Later(drv[w].elapsed),
                  !.healthy = IF drv[w].healthy = -1 THEN -1 ELSE Later(drv[w].healthy)]]
        BY <1>0, <1>15 DEF PollFails, TypeInv, DriverRec
      <3> QED
        BY <3>1
    <2> HIDE DEF d
    <2>6. /\ drv' \in [Replicas -> DriverRec]
          /\ \A v \in Replicas : drv'[v].pc \in InPhase \cup Starting => drv'[v].i \in 1..Len(Steps)
      BY <2>4, <2>5 DEF TypeInv
    <2> QED
      BY <1>0, <1>15, <2>6, DriverStepTyped DEF PollFails
  <1>16. CASE DriveError(w)
    BY <1>0, <1>16, ExitTyped, WritesTyped, DriverStepTyped DEF DriveError
  <1> QED
    BY <1>1, <1>2, <1>3, <1>4, <1>5, <1>6, <1>7, <1>8, <1>9, <1>10, <1>11, <1>12, <1>13, <1>14,
       <1>15, <1>16 DEF DriveStep

\* A request that goes on, or ends.
LEMMA CallersTyped ==
    ASSUME TypeInv, NEW c \in Callers,
           \/ req' = [req EXCEPT ![c] = IdleCaller]
           \/ \E pc \in {"event", "revert"} :
                 req' = [req EXCEPT ![c].pc = pc] /\ (pc = "event" => req[c].op \in Control)
    PROVE  /\ req' \in [Callers -> CallerRec]
           /\ \A d \in Callers : req'[d].pc \in {"write", "event"} => req'[d].op \in Control
  <1>1. IdleCaller \in CallerRec /\ IdleCaller.pc = "idle"
    BY DEF IdleCaller, CallerRec
  <1>2. CASE req' = [req EXCEPT ![c] = IdleCaller]
    BY <1>1, <1>2 DEF TypeInv
  <1>3. ASSUME NEW pc \in {"event", "revert"}, req' = [req EXCEPT ![c].pc = pc],
               pc = "event" => req[c].op \in Control
        PROVE  /\ req' \in [Callers -> CallerRec]
               /\ \A d \in Callers : req'[d].pc \in {"write", "event"} => req'[d].op \in Control
    BY <1>3 DEF TypeInv, CallerRec
  <1> QED
    BY <1>2, <1>3

LEMMA NextTyped == ASSUME TypeInv, [Next]_vars PROVE TypeInv'
  <1>1. ASSUME NEW w \in Replicas, Deliver(w) PROVE TypeInv'
    <2>1. /\ msg.deliveries \in 0..MaxDeliver /\ MaxDeliver \in Nat
          /\ msg' = [msg EXCEPT !.deliveries = msg.deliveries + 1]
          /\ inbox' = [inbox EXCEPT ![w] = inbox[w] + 1]
      BY <1>1, LimitsAssumption DEF Deliver, TypeInv
    <2>2. msg' \in [acked : BOOLEAN, deliveries : 0..MaxDeliver]
          /\ msg'.deliveries = msg.deliveries + 1
      BY <1>1, <2>1 DEF Deliver, TypeInv
    <2>3. inbox' \in [Replicas -> Nat] /\ \A v \in Replicas : inbox'[v] <= msg'.deliveries
      BY <2>1, <2>2 DEF TypeInv
    <2> QED
      BY <1>1, <2>2, <2>3 DEF Deliver, TypeInv
  <1>2. ASSUME NEW w \in Replicas, Handle(w) PROVE TypeInv'
    <2>1. inbox' \in [Replicas -> Nat] /\ \A v \in Replicas : inbox'[v] <= msg'.deliveries
      BY <1>2 DEF Handle, TypeInv
    <2>2. [IdleDriver EXCEPT !.pc = "get"] \in DriverRec
      BY StepsTyped, HorizonIsNat DEF IdleDriver, DriverRec, DriverPc, RolloutStatus, PhaseList
    <2>3. [IdleDriver EXCEPT !.pc = "get"].pc = "get"
      BY DEF IdleDriver
    <2>4. /\ drv' \in [Replicas -> DriverRec]
          /\ \A v \in Replicas : drv'[v].pc \in InPhase \cup Starting => drv'[v].i \in 1..Len(Steps)
      BY <1>2, <2>2, <2>3 DEF Handle, TypeInv, InPhase, Starting
    <2> QED
      BY <1>2, <2>1, <2>4 DEF Handle, TypeInv
  <1>3. ASSUME NEW w \in Replicas, Crash(w) PROVE TypeInv'
    <2>1. IdleDriver \in DriverRec /\ IdleDriver.pc = "idle"
      BY StepsTyped, HorizonIsNat
         DEF IdleDriver, DriverRec, DriverPc, RolloutStatus, PhaseList
    <2>2. /\ drv' \in [Replicas -> DriverRec]
          /\ \A v \in Replicas : drv'[v].pc \in InPhase \cup Starting => drv'[v].i \in 1..Len(Steps)
      BY <1>3, <2>1 DEF Crash, TypeInv, InPhase, Starting
    <2>3. inbox' \in [Replicas -> Nat] /\ \A v \in Replicas : inbox'[v] <= msg'.deliveries
      BY <1>3 DEF Crash, TypeInv
    <2>4. crashes' \in 0..MaxCrashes
      BY <1>3, LimitsAssumption DEF Crash, TypeInv
    <2> QED
      BY <1>3, <2>2, <2>3, <2>4 DEF Crash, TypeInv
  <1>4. ASSUME NEW c \in Callers, NEW op \in Controls, ReadForControl(c, op) PROVE TypeInv'
    <2>1. op \in Control /\ ops' \in 0..MaxOps
      BY <1>4, LimitsAssumption, ControlsAssumption DEF ReadForControl, TypeInv
    <2>2. /\ req' \in [Callers -> CallerRec]
          /\ \A d \in Callers : req'[d].pc \in {"write", "event"} => req'[d].op \in Control
      BY <1>4, <2>1 DEF ReadForControl, TypeInv, CallerRec
    <2> QED
      BY <1>4, <2>1, <2>2 DEF ReadForControl, TypeInv
  <1>5. ASSUME NEW c \in Callers, WriteControl(c) PROVE TypeInv'
    <2>1. req[c].op \in Control
      BY <1>5 DEF WriteControl, TypeInv
    <2>2. ro' \in [status : RolloutStatus, idx : 1..Len(Steps)]
      <3>1. TargetStatus(req[c].op) \in RolloutStatus
        BY <2>1 DEF TargetStatus, RolloutStatus, TerminalStatus
      <3> QED
        BY <1>5, <3>1, WritesTyped DEF WriteControl, TypeInv
    <2>3. req' \in {[req EXCEPT ![c].pc = "event"], [req EXCEPT ![c] = IdleCaller]}
      BY <1>5 DEF WriteControl
    <2>4. faults' \in 0..MaxFaults
      BY <1>5, WritesTyped DEF WriteControl, TypeInv
    <2> QED
      BY <1>5, <2>1, <2>2, <2>3, <2>4, CallersTyped DEF WriteControl, TypeInv
  <1>6. ASSUME NEW c \in Callers, RecordControl(c) PROVE TypeInv'
    <2>1. req[c].op \in Control
      BY <1>6 DEF RecordControl, TypeInv
    <2>2. events' \in EventRec
      BY <1>6, <2>1, AddedEvents DEF RecordControl
    <2>3. faults' \in 0..MaxFaults
      BY <1>6, WritesTyped DEF RecordControl, TypeInv
    <2>4. req' \in {[req EXCEPT ![c].pc = "revert"], [req EXCEPT ![c] = IdleCaller]}
      BY <1>6 DEF RecordControl
    <2> QED
      BY <1>6, <2>1, <2>2, <2>3, <2>4, CallersTyped DEF RecordControl, TypeInv
  <1>7. ASSUME NEW c \in Callers, RevertControl(c) PROVE TypeInv'
    <2>1. pct' \in 0..100 /\ faults' \in 0..MaxFaults
      BY <1>7, PreviousAssumption, WritesTyped DEF RevertControl, TypeInv
    <2> QED
      BY <1>7, <2>1, CallersTyped DEF RevertControl, TypeInv
  <1>8. ASSUME NEW c \in Callers, CutOff(c) PROVE TypeInv'
    <2>1. crashes' \in 0..MaxCrashes
      BY <1>8, LimitsAssumption DEF CutOff, TypeInv
    <2>2. events' \in EventRec
      BY <1>8, AddedEvents DEF CutOff, TypeInv
    <2> QED
      BY <1>8, <2>1, <2>2, CallersTyped DEF CutOff, TypeInv
  <1>9. CASE UNCHANGED vars
    BY <1>9 DEF vars, TypeInv
  <1> QED
    BY <1>1, <1>2, <1>3, <1>4, <1>5, <1>6, <1>7, <1>8, <1>9, DriveTyped DEF Next, ControlStep

LEMMA SpecTyped == Spec => []TypeInv
  BY InitTypeInv, NextTyped, PTL DEF Spec

LEMMA TypeInvImplies == TypeInv => TypeOK
  <1> SUFFICES ASSUME TypeInv PROVE TypeOK
    OBVIOUS
  <1>1. phases = <<>> \/ phases \in [1..Len(Steps) -> PhaseStatus]
    BY DEF TypeInv, PhaseList
  <1>2. inbox \in [Replicas -> 0..MaxDeliver]
    BY LimitsAssumption DEF TypeInv
  <1>3. \A w \in Replicas : drv[w] \in DriverRec
    BY DEF TypeInv
  <1>4. \A w \in Replicas : drv[w].pc \in InPhase => drv[w].i \in 1..Len(Steps)
    BY DEF TypeInv
  <1> QED
    BY <1>1, <1>2, <1>3, <1>4 DEF TypeInv, TypeOK, DriverRec, InPhase, CallerRec, EventRec

\* TypeOK: whatever drivers, crashes, redeliveries and controls do, every row and
\* every driver is well formed; in particular no driver works on a phase that the
\* strategy does not have (ListPhases, StartPhase).
THEOREM RolloutTypeOK == Spec => []TypeOK
  BY SpecTyped, TypeInvImplies, PTL

-----------------------------------------------------------------------------
(* Why a rollout was rolled back.                                          *)

OneReplica == \A v, w \in Replicas : v = w

\* The places where the driver found the rollout not ended, and where it has
\* found or stored the phases.
Driving == Starting \cup InPhase \cup {"complete"}
Stored == {"activate", "list", "rollback"} \cup InPhase

Failed == phases # <<>> /\ \E k \in 1..Len(Steps) : phases[k] = "rolled_back"
Lost == events.lost \cap {"rollback", "phase"} # {}

\* An operator's rollback is recorded, about to be, or something was lost.
Ordered == "rollback" \in events.stored \/ Recording("rollback") \/ Lost

CauseInv ==
    /\ ro.status = "rolled_back" => Ordered \/ Failed
    /\ \A w \in Replicas :
        /\ drv[w].pc \in Stored => phases # <<>>
        /\ drv[w].pc = "rollback" => Failed \/ Lost
        /\ drv[w].pc \in Driving /\ ro.status = "rolled_back" => Ordered

\* Everything about the events and the requests that CauseInv depends on.
SameCause == (Ordered => Ordered') /\ (Lost => Lost')

LEMMA UnchangedCause == UNCHANGED <<req, events>> => SameCause
  BY DEF SameCause, Ordered, Lost, Recording

LEMMA InitCauseInv == Init => CauseInv
  BY DEF Init, CauseInv, IdleDriver, Stored, InPhase, Driving, Starting

\* A driver's step that writes neither phases nor the end of the rollout.
LEMMA QuietCause ==
    ASSUME TypeInv, CauseInv, OneReplica, NEW w \in Replicas,
           phases' = phases, SameCause, ro'.status = ro.status \/ ro'.status # "rolled_back",
           drv'[w].pc = "rollback" => drv[w].pc = "rollback",
           drv'[w].pc \in Driving => drv[w].pc \in Driving \/ ro'.status # "rolled_back",
           drv'[w].pc \in Stored => phases # <<>>
    PROVE  CauseInv'
  <1>1. \A v \in Replicas : v = w
    BY DEF OneReplica
  <1> QED
    BY <1>1 DEF CauseInv, Failed, SameCause

LEMMA FailedStays ==
    ASSUME TypeInv, phases # <<>>, NEW k \in 1..Len(Steps),
           phases' = [phases EXCEPT ![k] = "rolled_back"]
    PROVE  Failed'
  <1>1. phases \in [1..Len(Steps) -> PhaseStatus]
    BY DEF TypeInv, PhaseList
  <1>2. phases' # <<>> /\ phases'[k] = "rolled_back"
    BY <1>1
  <1> QED
    BY <1>2 DEF Failed

\* The mark s for phase k was written, or was lost.
MayMark(k, s) == phases' \in {phases, [phases EXCEPT ![k] = s]}

\* A driver's step that marks phase k while it is driving: whatever the mark was,
\* a rollout that is rolled back meanwhile was so by an operator.
LEMMA MarkingCause ==
    ASSUME TypeInv, CauseInv, OneReplica, NEW w \in Replicas, drv[w].pc \in Driving \cap Stored,
           NEW k \in 1..Len(Steps), NEW s, MayMark(k, s), SameCause,
           ro'.status = ro.status \/ ro'.status # "rolled_back", drv'[w].pc # "rollback"
    PROVE  CauseInv'
  <1>1. \A v \in Replicas : v = w
    BY DEF OneReplica
  <1>2. phases \in [1..Len(Steps) -> PhaseStatus]
    BY DEF TypeInv, PhaseList, CauseInv
  <1>3. phases' # <<>>
    BY <1>2 DEF MayMark
  <1> QED
    BY <1>1, <1>3 DEF CauseInv, SameCause

LEMMA DriveKeepsCause ==
    ASSUME TypeInv, TypeInv', CauseInv, OneReplica, NEW w \in Replicas,
           DriveStep(w) \/ PollFails(w) \/ DriveError(w)
    PROVE  CauseInv'
  <1> USE DEF Driving, Stored, InPhase, Starting
  <1>0. /\ drv \in [Replicas -> DriverRec] /\ drv[w] \in DriverRec
        /\ drv[w].pc \in InPhase \cup Starting => drv[w].i \in 1..Len(Steps)
        /\ ro \in [status : RolloutStatus, idx : 1..Len(Steps)]
    BY DEF TypeInv
  <1>a. \A pc : Goto(w, pc) => drv'[w].pc = pc
    BY <1>0 DEF Goto, DriverRec
  <1>b. Exit(w) => drv'[w].pc = "idle"
    BY <1>0 DEF Exit, IdleDriver
  <1>c. \A list, k : StartPhase(w, list, k) => drv'[w].pc \in {"apply", "complete"}
    BY <1>0 DEF StartPhase
  <1>e. \A new : WriteRollout(new) => (ro' = new \/ ro' = ro)
    BY DEF WriteRollout
  <1>f. \A k, s : WritePhase(k, s) => MayMark(k, s)
    BY DEF WritePhase, MayMark
  <1>1. CASE GetRollout(w)
    <2>1. drv'[w].pc = "idle" \/ (drv'[w].pc = "phases" /\ ro.status # "rolled_back")
      BY <1>0, <1>1, <1>b, ZenonT(60) DEF GetRollout, DriverRec, TerminalStatus
    <2> QED
      BY <1>1, <2>1, QuietCause, UnchangedCause DEF GetRollout
  <1>2. CASE EnsurePhasesExist(w)
    BY <1>2, <1>a, QuietCause, UnchangedCause DEF EnsurePhasesExist
  <1>3. CASE BulkInsertPhases(w)
    <2>1. phases' # <<>>
      BY <1>3, StepsTyped DEF BulkInsertPhases
    <2>2. drv'[w].pc \in {"activate", "idle"} /\ UNCHANGED <<ro, req, events>>
      BY <1>3, <1>a, <1>b DEF BulkInsertPhases
    <2>3. Failed => phases' = phases
      BY <1>3, <1>0 DEF BulkInsertPhases, Failed
    <2>4. drv[w].pc = "insert" /\ SameCause
      BY <1>3, <2>2, UnchangedCause DEF BulkInsertPhases
    <2>5. ro.status = "rolled_back" => Ordered
      BY <2>4 DEF CauseInv
    <2> QED
      BY <2>1, <2>2, <2>3, <2>4, <2>5 DEF CauseInv, SameCause, OneReplica
  <1>4. CASE SetActive(w)
    <2>1. drv'[w].pc = "list" /\ (ro'.status = ro.status \/ ro'.status = "active")
      BY <1>0, <1>4, <1>e, SMTT(60) DEF SetActive, DriverRec
    <2> QED
      BY <1>4, <2>1, QuietCause, UnchangedCause DEF SetActive, CauseInv
  <1>5. CASE ListPhases(w)
    BY <1>5, <1>c, QuietCause, UnchangedCause DEF ListPhases, CauseInv
  <1>6. CASE Apply(w)
    <2>1. UNCHANGED <<phases, req, events, ro>> /\ drv'[w].pc = "enter"
      BY <1>6, <1>a DEF Apply
    <2> QED
      BY <1>6, <2>1, QuietCause, UnchangedCause DEF Apply, CauseInv
  <1>7. CASE EnterPhase(w)
    <2>1. /\ drv'[w].pc = "point" /\ UNCHANGED <<ro, req, events>>
          /\ MayMark(drv[w].i, "active")
          /\ drv[w].pc = "enter" /\ drv[w].i \in 1..Len(Steps)
      BY <1>0, <1>7, <1>a, <1>f DEF EnterPhase
    <2> QED
      BY <2>1, MarkingCause, UnchangedCause
  <1>8. CASE PointPhase(w)
    <2>1. drv'[w].pc = "tick" /\ ro'.status = ro.status
      BY <1>0, <1>8, <1>a, <1>e DEF PointPhase
    <2> QED
      BY <1>8, <2>1, QuietCause, UnchangedCause DEF PointPhase, CauseInv
  <1>9. ASSUME NEW s \in Signals, Poll(w, s) PROVE CauseInv'
    <2>0. drv[w].pc = "tick" /\ SameCause
      BY <1>9, UnchangedCause DEF Poll
    <2>1. CASE Verdict(w, s) = "await"
      <3>1. AwaitApproval(w)
        BY <1>9, <2>1 DEF Poll
      <3>2. drv'[w].pc = "idle" /\ ro'.status = "awaiting_approval"
        BY <1>0, <1>b, <3>1 DEF AwaitApproval
      <3> QED
        <4>1. MayMark(drv[w].i, "awaiting_approval") /\ drv[w].i \in 1..Len(Steps)
          BY <1>0, <2>0, <3>1 DEF AwaitApproval, MayMark
        <4> QED
          BY <2>0, <3>2, <4>1, MarkingCause
    <2>2. CASE Verdict(w, s) # "await"
      <3>1. drv'[w].pc \in {"fail", "pass", "tick"} /\ phases' = phases
        <4>1. Verdict(w, s) \in {"fail", "pass", "tick"}
          BY <2>2 DEF Verdict
        <4>2. drv'[w].pc = Verdict(w, s) /\ phases' = phases
          BY <1>0, <1>9, <2>2 DEF Poll, DriverRec
        <4> QED
          BY <4>1, <4>2
      <3>2. ro'.status = ro.status
        BY <1>0, <1>9, <1>e, <2>2 DEF Poll
      <3> QED
        BY <2>0, <3>1, <3>2, QuietCause DEF CauseInv
    <2> QED
      BY <2>1, <2>2
  <1>10. CASE PassPhase(w)
    <2>1. /\ drv'[w].pc # "rollback" /\ UNCHANGED <<ro, req, events>>
          /\ MayMark(drv[w].i, "passed")
          /\ drv[w].pc = "pass" /\ drv[w].i \in 1..Len(Steps)
      BY <1>0, <1>10, <1>c, <1>f DEF PassPhase
    <2> QED
      BY <2>1, MarkingCause, UnchangedCause
  <1>11. CASE FailPhase(w)
    <2>1. drv'[w].pc = "rollback" /\ ro' = ro /\ req' = req
          /\ phases # <<>> /\ drv[w].pc = "fail" /\ drv[w].i \in 1..Len(Steps)
      BY <1>0, <1>11, <1>a DEF FailPhase, CauseInv
    <2>2. CASE phases' = [phases EXCEPT ![drv[w].i] = "rolled_back"] /\ events' = events
      <3>1. Failed' /\ SameCause
        BY <2>1, <2>2, FailedStays, UnchangedCause
      <3>2. phases' # <<>>
        BY <3>1 DEF Failed
      <3> QED
        BY <2>1, <3>1, <3>2 DEF CauseInv, OneReplica
    <2>3. CASE phases' = phases /\ events' = [events EXCEPT !.lost = @ \cup {"phase"}]
      <3>1. Lost' /\ Ordered'
        BY <2>3 DEF Lost, Ordered, TypeInv, EventRec
      <3> QED
        BY <2>1, <2>3, <3>1 DEF CauseInv, OneReplica
    <2> QED
      BY <1>11, <2>2, <2>3 DEF FailPhase
  <1>12. CASE Rollback(w)
    <2>1. drv'[w].pc = "revert" /\ phases' = phases /\ SameCause
      BY <1>12, <1>a, UnchangedCause DEF Rollback
    <2>2. Failed \/ Lost
      BY <1>12 DEF Rollback, CauseInv
    <2>3. Failed' \/ Ordered'
      BY <2>1, <2>2 DEF SameCause, Failed, Ordered
    <2> QED
      BY <2>1, <2>3 DEF CauseInv, OneReplica
  <1>13. CASE Revert(w)
    <2>1. drv'[w].pc = "idle"
      BY <1>13, <1>b DEF Revert
    <2> QED
      BY <1>13, <2>1, QuietCause, UnchangedCause DEF Revert
  <1>14. CASE MarkCompleted(w)
    <2>1. drv'[w].pc = "idle" /\ (ro'.status \in {ro.status, "succeeded"})
      BY <1>0, <1>14, <1>b, <1>e DEF MarkCompleted
    <2> QED
      BY <1>14, <2>1, QuietCause, UnchangedCause DEF MarkCompleted
  <1>15. CASE PollFails(w)
    <2>1. drv'[w].pc = "tick"
      BY <1>0, <1>15 DEF PollFails, DriverRec
    <2> QED
      BY <1>15, <2>1, QuietCause, UnchangedCause DEF PollFails, CauseInv
  <1>16. CASE DriveError(w)
    BY <1>16, <1>b, QuietCause, UnchangedCause DEF DriveError
  <1> QED
    BY <1>1, <1>2, <1>3, <1>4, <1>5, <1>6, <1>7, <1>8, <1>9, <1>10, <1>11, <1>12, <1>13, <1>14,
       <1>15, <1>16 DEF DriveStep

\* What a request does keeps the causes; only its status write can end the rollout.
LEMMA RequestKeepsCause ==
    ASSUME CauseInv, UNCHANGED <<phases, drv>>, SameCause,
           ro'.status = ro.status \/ ro'.status # "rolled_back" \/ Ordered'
    PROVE  CauseInv'
  BY DEF CauseInv, Failed, SameCause

LEMMA NextKeepsCause == ASSUME TypeInv, TypeInv', CauseInv, OneReplica, [Next]_vars PROVE CauseInv'
  <1> USE DEF Driving, Stored, InPhase, Starting
  <1>0. /\ drv \in [Replicas -> DriverRec] /\ req \in [Callers -> CallerRec]
        /\ ro \in [status : RolloutStatus, idx : 1..Len(Steps)]
        /\ events \in EventRec
    BY DEF TypeInv
  <1>1. ASSUME NEW w \in Replicas, Deliver(w) PROVE CauseInv'
    BY <1>1, RequestKeepsCause, UnchangedCause DEF Deliver
  <1>2. ASSUME NEW w \in Replicas, Handle(w) PROVE CauseInv'
    <2>1. drv'[w].pc = "get"
      BY <1>0, <1>2 DEF Handle, IdleDriver
    <2> QED
      BY <1>2, <2>1, QuietCause, UnchangedCause DEF Handle
  <1>3. ASSUME NEW w \in Replicas, Crash(w) PROVE CauseInv'
    <2>1. drv'[w].pc = "idle"
      BY <1>0, <1>3 DEF Crash, IdleDriver
    <2> QED
      BY <1>3, <2>1, QuietCause, UnchangedCause DEF Crash
  <1>4. ASSUME NEW c \in Callers, NEW op \in Controls, ReadForControl(c, op) PROVE CauseInv'
    <2>1. UNCHANGED <<ro, phases, drv, events>> /\ req[c].pc = "idle"
          /\ req' = [req EXCEPT ![c] = [pc |-> "write", op |-> op]]
      BY <1>4 DEF ReadForControl
    <2>2. SameCause
      BY <1>0, <2>1 DEF SameCause, Ordered, Lost, Recording, CallerRec
    <2> QED
      BY <2>1, <2>2, RequestKeepsCause
  <1>5. ASSUME NEW c \in Callers, WriteControl(c) PROVE CauseInv'
    <2>1. req[c].op \in Control /\ req[c].pc = "write" /\ UNCHANGED <<phases, drv, events>>
      BY <1>5 DEF WriteControl, TypeInv
    <2>2. CASE ro' = ro /\ req' = [req EXCEPT ![c] = IdleCaller]
      <3>1. SameCause
        BY <1>0, <2>1, <2>2 DEF SameCause, Ordered, Lost, Recording, CallerRec
      <3> QED
        BY <2>1, <2>2, <3>1, RequestKeepsCause
    <2>3. CASE ro' = [ro EXCEPT !.status = TargetStatus(req[c].op)] /\ req' = [req EXCEPT ![c].pc = "event"]
      <3>1. SameCause
        BY <1>0, <2>1, <2>3 DEF SameCause, Ordered, Lost, Recording, CallerRec
      <3>2. ro'.status = "rolled_back" => req[c].op = "rollback"
        BY <1>0, <2>1, <2>3 DEF TargetStatus
      <3>3. req[c].op = "rollback" => Ordered'
        BY <1>0, <2>3 DEF Ordered, Recording, CallerRec
      <3> QED
        BY <2>1, <3>1, <3>2, <3>3, RequestKeepsCause
    <2> QED
      BY <1>5, <2>2, <2>3 DEF WriteControl
  <1>6. ASSUME NEW c \in Callers, RecordControl(c) PROVE CauseInv'
    <2>1. UNCHANGED <<ro, phases, drv>> /\ req[c].pc = "event" /\ req[c].op \in Control
      BY <1>6 DEF RecordControl, TypeInv
    <2>2. \A d \in Callers : d # c => req'[d] = req[d]
      BY <1>0, <1>6 DEF RecordControl
    <2>3. \/ events' = [events EXCEPT !.stored = @ \cup {req[c].op}]
          \/ events' = [events EXCEPT !.lost = @ \cup {req[c].op}]
      BY <1>6 DEF RecordControl
    <2>4. SameCause
      <3>1. Lost => Lost'
        BY <1>0, <2>3 DEF Lost, EventRec
      <3>2. req[c].op = "rollback" => Ordered'
        BY <1>0, <2>3 DEF Lost, Ordered, EventRec
      <3>3. "rollback" \in events.stored => Ordered'
        BY <1>0, <2>3 DEF Ordered, EventRec
      <3>4. Recording("rollback") => Ordered'
        BY <2>2, <3>2 DEF Recording, Ordered
      <3> QED
        BY <3>1, <3>3, <3>4 DEF SameCause, Ordered
    <2> QED
      BY <2>1, <2>4, RequestKeepsCause
  <1>7. ASSUME NEW c \in Callers, RevertControl(c) PROVE CauseInv'
    <2>1. UNCHANGED <<ro, phases, drv, events>> /\ req[c].pc = "revert"
          /\ req' = [req EXCEPT ![c] = IdleCaller]
      BY <1>7 DEF RevertControl
    <2>2. SameCause
      BY <1>0, <2>1 DEF SameCause, Ordered, Lost, Recording, CallerRec
    <2> QED
      BY <2>1, <2>2, RequestKeepsCause
  <1>8. ASSUME NEW c \in Callers, CutOff(c) PROVE CauseInv'
    <2>1. UNCHANGED <<ro, phases, drv>>
      BY <1>8 DEF CutOff
    <2>2. \A d \in Callers : d # c => req'[d] = req[d]
      BY <1>0, <1>8 DEF CutOff
    <2>3. events'.stored = events.stored /\ events.lost \subseteq events'.lost
          /\ (req[c].pc = "event" => req[c].op \in events'.lost)
      BY <1>0, <1>8 DEF CutOff, EventRec
    <2>4. SameCause
      <3>1. Lost => Lost'
        BY <2>3 DEF Lost
      <3>2. Recording("rollback") => Ordered'
        BY <2>2, <2>3 DEF Recording, Ordered, Lost
      <3> QED
        BY <2>3, <3>1, <3>2 DEF SameCause, Ordered
    <2> QED
      BY <2>1, <2>4, RequestKeepsCause
  <1>9. CASE UNCHANGED vars
    BY <1>9, RequestKeepsCause, UnchangedCause DEF vars
  <1> QED
    BY <1>1, <1>2, <1>3, <1>4, <1>5, <1>6, <1>7, <1>8, <1>9, DriveKeepsCause DEF Next, ControlStep

LEMMA CauseIsRecorded == TypeInv /\ CauseInv => RollbackHasRecordedCause
  <1> SUFFICES ASSUME TypeInv, CauseInv, ro.status = "rolled_back", ~Ordered
               PROVE  \E k \in 1..Len(phases) : phases[k] = "rolled_back"
    BY DEF RollbackHasRecordedCause, Ordered, Lost
  <1>1. PICK k \in 1..Len(Steps) : phases # <<>> /\ phases[k] = "rolled_back"
    BY DEF CauseInv, Failed
  <1>2. phases \in [1..Len(Steps) -> PhaseStatus] /\ Len(Steps) \in Nat
    BY <1>1, StepsTyped DEF TypeInv, PhaseList
  <1>3. phases \in Seq(PhaseStatus) /\ Len(phases) = Len(Steps)
    BY <1>2, SeqDef, LenProperties
  <1> QED
    BY <1>1, <1>3

\* RollbackHasRecordedCause: with one replica a rolled back rollout has an operator's
\* event or a phase that failed, unless the write that records it was lost or is
\* still to come, through any crashes, failed calls, redelivery and controls that
\* overwrite each other's status (FailPhase before rollback, transition, emit).  A
\* second replica that drives the same rollout may write over the failed phase.
THEOREM RollbacksHaveACause == ASSUME OneReplica PROVE Spec => []RollbackHasRecordedCause
  <1>1. Init => TypeInv /\ CauseInv
    BY InitTypeInv, InitCauseInv
  <1>2. TypeInv /\ CauseInv /\ [Next]_vars => (TypeInv /\ CauseInv)'
    BY NextTyped, NextKeepsCause
  <1> QED
    BY <1>1, <1>2, CauseIsRecorded, PTL DEF Spec

-----------------------------------------------------------------------------
(* One replica, no operator and no lost write: the promise to the target.  *)

Sole == (\E w : Replicas = {w}) /\ Callers = {} /\ MaxFaults = 0

Live == RolloutStatus \ TerminalStatus

\* Where the next listing would begin.
Next1 == NextPhase(phases, ro.idx)

\* What the driver at place i, with the listing list, knows of the phases.
AtPhase(w) ==
    /\ phases # <<>>
    /\ drv[w].i = Next1
    /\ \A k \in 1..Len(Steps) : k > drv[w].i => drv[w].list[k] = phases[k]

RampInv ==
    ro.status \in Live =>
        /\ phases = <<>> => pct = Previous /\ ro.idx = 1
        /\ phases # <<>> =>
            /\ \A k \in 1..Len(Steps) : phases[k] = "passed" => k < Next1
            /\ Next1 <= Len(Steps) => pct <= Steps[Next1].pct
            /\ Next1 = Len(Steps) + 1 => pct = 100

SoleInv ==
    /\ RampInv
    /\ ro.status = "succeeded" => pct = 100
    /\ \A w \in Replicas :
        /\ drv[w].pc \in Driving \cup {"rollback"} => ro.status \in Live
        /\ drv[w].pc \in Starting => drv[w].i = ro.idx
        /\ drv[w].pc \in Stored => phases # <<>>
        /\ drv[w].pc \in InPhase => AtPhase(w)
        /\ drv[w].pc \in InPhase \ {"apply"} => pct = Steps[drv[w].i].pct
        /\ drv[w].pc = "complete" => phases # <<>> /\ Next1 = Len(Steps) + 1
        /\ drv[w].pc = "revert" => ro.status = "rolled_back"
        /\ ro.status = "rolled_back" /\ crashes = 0 /\ drv[w].pc # "revert" => pct = Previous

LEMMA InitSole == ASSUME Init PROVE SoleInv
  BY StepsTyped
     DEF Init, SoleInv, RampInv, IdleDriver, Driving, Starting, InPhase, Stored, Live, TerminalStatus

\* A step of the sole driver: what it has to see to.
LEMMA SoleDriver ==
    ASSUME OneReplica, NEW w \in Replicas, RampInv',
           ro'.status = "succeeded" => pct' = 100,
           drv'[w].pc \in Driving \cup {"rollback"} => ro'.status \in Live,
           drv'[w].pc \in Starting => drv'[w].i = ro'.idx,
           drv'[w].pc \in Stored => phases' # <<>>,
           drv'[w].pc \in InPhase => AtPhase(w)',
           drv'[w].pc \in InPhase \ {"apply"} => pct' = Steps[drv'[w].i].pct,
           drv'[w].pc = "complete" => phases' # <<>> /\ Next1' = Len(Steps) + 1,
           drv'[w].pc = "revert" => ro'.status = "rolled_back",
           ro'.status = "rolled_back" /\ crashes' = 0 /\ drv'[w].pc # "revert" => pct' = Previous
    PROVE  SoleInv'
  BY DEF SoleInv, OneReplica

\* A driver that leaves the rows and the target alone and does not go further.
LEMMA SoleQuiet ==
    ASSUME TypeInv, SoleInv, OneReplica, NEW w \in Replicas,
           UNCHANGED <<ro, phases, pct>>, crashes' = 0 => crashes = 0,
           drv'[w].pc \in Driving \cup {"rollback"} => ro.status \in Live,
           drv'[w].pc \in Starting => drv'[w].i = ro.idx,
           drv'[w].pc \in Stored => phases # <<>>,
           drv'[w].pc \in InPhase => drv[w].pc \in InPhase /\ drv'[w].i = drv[w].i /\ drv'[w].list = drv[w].list,
           drv'[w].pc = "apply" => drv[w].pc = "apply",
           drv'[w].pc \in InPhase \ {"apply"} => drv[w].pc \in InPhase \ {"apply"},
           drv'[w].pc = "complete" => drv[w].pc = "complete",
           drv'[w].pc # "revert",
           drv[w].pc = "revert" => crashes' # 0
    PROVE  SoleInv'
  <1>1. Next1' = Next1
    BY DEF Next1, NextPhase
  <1>2. RampInv'
    BY <1>1 DEF SoleInv, RampInv
  <1>3. drv'[w].pc \in InPhase => AtPhase(w)'
    BY <1>1 DEF SoleInv, AtPhase
  <1> QED
    BY <1>1, <1>2, <1>3, SoleDriver DEF SoleInv

\* The phase the next listing would begin with stays the same when that phase is
\* marked with anything but "passed" and the pointer moves no further than to it.
LEMMA MarkKeepsPlace ==
    ASSUME TypeInv, TypeInv', SoleInv, NEW w \in Replicas, drv[w].pc \in InPhase,
           NEW s \in PhaseStatus \ {"passed"}, MayMark(drv[w].i, s),
           ro'.idx \in {ro.idx, drv[w].i}
    PROVE  /\ phases' # <<>> /\ Next1' = Next1
           /\ \A k \in 1..Len(Steps) : phases'[k] = "passed" => k < Next1
           /\ \A k \in 1..Len(Steps) : k > drv[w].i => phases'[k] = phases[k]
           /\ drv[w].i \in 1..Len(Steps) /\ ro.status \in Live /\ drv[w].i = Next1
  <1> DEFINE i == drv[w].i
  <1>1. /\ i \in 1..Len(Steps) /\ i = Next1 /\ phases # <<>> /\ ro.status \in Live
        /\ phases \in [1..Len(Steps) -> PhaseStatus] /\ ro.idx \in 1..Len(Steps)
    BY DEF TypeInv, PhaseList, SoleInv, AtPhase, InPhase, Driving
  <1>2. /\ i \in ro.idx..(Len(Steps) + 1) /\ phases[i] # "passed"
        /\ \A k \in ro.idx..Len(Steps) : k < i => phases[k] = "passed"
    BY <1>1, StepsTyped, NextPhaseFound DEF Next1
  <1>3. /\ phases' \in [1..Len(Steps) -> PhaseStatus]
        /\ phases'[i] # "passed"
        /\ \A k \in 1..Len(Steps) \ {i} : phases'[k] = phases[k]
    BY <1>1, <1>2 DEF MayMark
  <1>4. phases' # <<>>
    BY <1>3, StepsTyped
  <1>5. ro'.idx \in 1..(Len(Steps) + 1) /\ i \in ro'.idx..(Len(Steps) + 1)
        /\ \A k \in ro'.idx..Len(Steps) : k < i => phases'[k] = "passed"
    BY <1>1, <1>2, <1>3, StepsTyped
  <1>6. NextPhase(phases', ro'.idx) = i
    BY <1>3, <1>5, NextPhaseUnique
  <1>7. Next1' = NextPhase(phases', ro'.idx)
    BY DEF Next1, NextPhase
  <1>8. \A k \in 1..Len(Steps) : phases'[k] = "passed" => k < Next1
    <2>1. \A k \in 1..Len(Steps) : phases[k] = "passed" => k < Next1
      BY <1>1 DEF SoleInv, RampInv
    <2> QED
      BY <1>1, <1>3, <2>1
  <1> QED
    BY <1>1, <1>3, <1>4, <1>6, <1>7, <1>8, StepsTyped

\* When the phase the driver is at has passed, the next one is where both the
\* driver's listing and a new one go on.
LEMMA PassMovesOn ==
    ASSUME TypeInv, TypeInv', SoleInv, NEW w \in Replicas, drv[w].pc = "pass",
           phases' = [phases EXCEPT ![drv[w].i] = "passed"], ro' = ro
    PROVE  /\ phases' # <<>> /\ drv[w].i \in 1..Len(Steps) /\ ro.status \in Live
           /\ Next1' = drv[w].i + 1
           /\ NextPhase(drv[w].list, drv[w].i + 1) = drv[w].i + 1
           /\ \A k \in 1..Len(Steps) : phases'[k] = "passed" => k < Next1'
           /\ \A k \in 1..Len(Steps) : k > drv[w].i => drv[w].list[k] = phases'[k]
  <1> DEFINE i == drv[w].i
             n == Len(Steps)
  <1>0. n \in Nat
    BY StepsTyped
  <1>1. /\ i \in 1..n /\ i = Next1 /\ phases # <<>> /\ ro.status \in Live
        /\ phases \in [1..n -> PhaseStatus] /\ ro.idx \in 1..n
        /\ \A k \in 1..n : k > i => drv[w].list[k] = phases[k]
    BY SMTT(60) DEF TypeInv, PhaseList, SoleInv, AtPhase, InPhase, Driving
  <1>2. /\ i \in ro.idx..(n + 1)
        /\ \A k \in ro.idx..n : k < i => phases[k] = "passed"
    <2>1. ro.idx \in 1..(n + 1) /\ i = NextPhase(phases, ro.idx)
      BY <1>0, <1>1 DEF Next1
    <2> HIDE DEF i
    <2> QED
      BY <2>1, NextPhaseFound
  <1>3. \A k \in 1..n : phases[k] = "passed" => k < i
    BY <1>1 DEF SoleInv, RampInv
  <1>4. /\ phases' \in [1..n -> PhaseStatus] /\ phases'[i] = "passed"
        /\ \A k \in 1..n \ {i} : phases'[k] = phases[k]
    BY <1>1 DEF TypeInv, PhaseStatus
  <1>5. phases' # <<>>
    BY <1>4, StepsTyped
  <1>6. /\ i + 1 \in ro.idx..(n + 1) /\ i + 1 \in 1..(n + 1)
        /\ i + 1 <= n => phases'[i + 1] # "passed"
        /\ \A k \in ro.idx..n : k < i + 1 => phases'[k] = "passed"
    BY <1>0, <1>1, <1>2, <1>3, <1>4
  <1>7. NextPhase(phases', ro.idx) = i + 1
    <2>1. ro.idx \in 1..(n + 1)
      BY <1>0, <1>1
    <2> QED
      BY <1>6, <2>1, NextPhaseUnique, ZenonT(60)
  <1>8. i + 1 <= n => drv[w].list[i + 1] # "passed"
    BY <1>0, <1>1, <1>3
  <1>9. NextPhase(drv[w].list, i + 1) = i + 1
    BY <1>0, <1>6, <1>8, NextPhaseUnique
  <1>10. Next1' = i + 1
    BY <1>7 DEF Next1, NextPhase
  <1>11. \A k \in 1..n : phases'[k] = "passed" => k < i + 1
    BY <1>0, <1>1, <1>3, <1>4
  <1> QED
    BY <1>0, <1>1, <1>4, <1>5, <1>9, <1>10, <1>11

LEMMA SoleKeeps ==
    ASSUME Sole, TypeInv, TypeInv', SoleInv, NEW w \in Replicas,
           DriveStep(w) \/ PollFails(w) \/ DriveError(w)
    PROVE  SoleInv'
  <1> USE DEF Driving, Stored, InPhase, Starting
  <1> DEFINE n == Len(Steps)
             i == drv[w].i
  <1>0. /\ OneReplica /\ n \in Nat \ {0} /\ ~CallFails
        /\ drv \in [Replicas -> DriverRec] /\ drv[w] \in DriverRec
        /\ drv[w].pc \in InPhase \cup Starting => i \in 1..n
        /\ ro \in [status : RolloutStatus, idx : 1..n] /\ ro.idx \in 1..n
        /\ phases # <<>> => phases \in [1..n -> PhaseStatus]
    BY StepsTyped DEF TypeInv, Sole, OneReplica, CallFails, PhaseList
  <1>a. \A pc : Goto(w, pc) => drv'[w].pc = pc /\ drv'[w].i = i /\ drv'[w].list = drv[w].list
    BY <1>0 DEF Goto, DriverRec
  <1>b. Exit(w) => drv'[w].pc = "idle"
    BY <1>0 DEF Exit, IdleDriver
  <1>c. \A list, k : StartPhase(w, list, k) =>
          /\ drv'[w].pc = IF k <= n THEN "apply" ELSE "complete"
          /\ drv'[w].i = k /\ drv'[w].list = list
    BY <1>0 DEF StartPhase
  <1>e. \A new : WriteRollout(new) => ro' = new
    BY <1>0 DEF WriteRollout
  <1>f. \A k, s : WritePhase(k, s) => MayMark(k, s)
    BY <1>0 DEF WritePhase, MayMark
  <1>s. /\ drv[w].pc \in Driving \cup {"rollback"} => ro.status \in Live
        /\ drv[w].pc \in Starting => i = ro.idx
        /\ drv[w].pc \in Stored => phases # <<>>
        /\ drv[w].pc \in InPhase => AtPhase(w)
        /\ drv[w].pc \in InPhase \ {"apply"} => pct = Steps[i].pct
        /\ drv[w].pc = "complete" => phases # <<>> /\ Next1 = n + 1
        /\ drv[w].pc = "revert" => ro.status = "rolled_back"
        /\ ro.status = "rolled_back" /\ crashes = 0 /\ drv[w].pc # "revert" => pct = Previous
        /\ ro.status = "succeeded" => pct = 100
        /\ RampInv
    BY DEF SoleInv
  <1>1. CASE GetRollout(w)
    <2>1. UNCHANGED <<ro, phases, pct, crashes>> /\ drv[w].pc = "get"
      BY <1>1 DEF GetRollout
    <2>2. \/ drv'[w].pc = "idle"
          \/ drv'[w].pc = "phases" /\ drv'[w].i = ro.idx /\ ro.status \in Live
      BY <1>0, <1>1, <1>b, ZenonT(60) DEF GetRollout, DriverRec, Live
    <2> QED
      BY <1>0, <2>1, <2>2, SoleQuiet
  <1>2. CASE EnsurePhasesExist(w)
    <2>1. /\ UNCHANGED <<ro, phases, pct, crashes>> /\ drv[w].pc = "phases"
          /\ drv'[w].pc \in {"insert", "activate"} /\ drv'[w].i = i
          /\ drv'[w].pc = "activate" => phases # <<>>
      BY <1>2, <1>a DEF EnsurePhasesExist
    <2> QED
      BY <1>0, <1>s, <2>1, SoleQuiet
  <1>3. CASE BulkInsertPhases(w)
    <2>1. CASE phases # <<>>
      BY <1>0, <1>3, <1>b, <2>1, SoleQuiet DEF BulkInsertPhases
    <2>2. CASE phases = <<>>
      <3>1. /\ phases' = [k \in 1..n |-> "pending"] /\ UNCHANGED <<ro, pct, crashes>>
            /\ drv'[w].pc = "activate" /\ drv'[w].i = i /\ drv[w].pc = "insert"
        BY <1>3, <1>a, <2>2 DEF BulkInsertPhases
      <3>2. ro.status \in Live /\ ro.idx = 1 /\ pct = Previous
        BY <1>s, <2>2, <3>1 DEF RampInv
      <3>3. phases' # <<>>
        BY <1>0, <3>1
      <3>4. NextPhase(phases', 1) = 1
        BY <1>0, <3>1, NextPhaseUnique
      <3>5. Next1' = 1
        BY <3>1, <3>2, <3>4 DEF Next1, NextPhase
      <3>6. RampInv'
        BY <1>0, <3>1, <3>2, <3>3, <3>5, PreviousAssumption DEF RampInv
      <3> QED
        BY <1>0, <1>s, <3>1, <3>2, <3>3, <3>6, SoleDriver DEF Live, TerminalStatus
    <2> QED
      BY <2>1, <2>2
  <1>4. CASE SetActive(w)
    <2>1. /\ ro' = [ro EXCEPT !.status = "active"] /\ UNCHANGED <<phases, pct, crashes>>
          /\ drv[w].pc = "activate" /\ drv'[w].pc = "list" /\ drv'[w].i = i
      BY <1>0, <1>4, <1>e DEF SetActive, DriverRec
    <2>2. ro'.status = "active" /\ ro'.idx = ro.idx /\ ro'.status \in Live /\ ro.status \in Live
      BY <1>0, <1>s, <2>1 DEF Live, RolloutStatus, TerminalStatus
    <2>3. Next1' = Next1
      BY <2>1, <2>2 DEF Next1, NextPhase
    <2>4. RampInv'
      BY <1>s, <2>1, <2>2, <2>3 DEF RampInv
    <2> QED
      BY <1>0, <1>s, <2>1, <2>2, <2>4, SoleDriver
  <1>5. CASE ListPhases(w)
    <2>1. /\ UNCHANGED <<ro, phases, pct, crashes>> /\ drv[w].pc = "list"
          /\ drv'[w].pc = IF Next1 <= n THEN "apply" ELSE "complete"
          /\ drv'[w].i = Next1 /\ drv'[w].list = phases
      BY <1>5, <1>c, <1>s DEF ListPhases, Next1
    <2>2. Next1' = Next1 /\ Next1 \in 1..(n + 1)
      <3>1. ro.idx \in 1..(n + 1)
        BY <1>0
      <3>2. Next1 \in ro.idx..(n + 1)
        BY <3>1, NextPhaseFound DEF Next1
      <3> QED
        BY <1>0, <2>1, <3>1, <3>2 DEF Next1, NextPhase
    <2>3. RampInv'
      BY <1>s, <2>1, <2>2 DEF RampInv
    <2>4. drv'[w].pc = "apply" => AtPhase(w)'
      BY <1>s, <2>1, <2>2 DEF AtPhase
    <2> QED
      BY <1>0, <1>s, <2>1, <2>2, <2>3, <2>4, SoleDriver, SMTT(60)
  <1>6. CASE Apply(w)
    <2>1. /\ UNCHANGED <<ro, phases, crashes>> /\ drv[w].pc = "apply"
          /\ pct' = Steps[i].pct
          /\ drv'[w].pc = "enter" /\ drv'[w].i = i /\ drv'[w].list = drv[w].list
      BY <1>6, <1>a DEF Apply
    <2>2. Next1' = Next1 /\ i = Next1 /\ i \in 1..n /\ phases # <<>> /\ ro.status \in Live
      BY <1>0, <1>s, <2>1 DEF Next1, NextPhase, AtPhase
    <2>3. Steps[i].pct \in 0..100
      BY <2>2, StepsTyped
    <2>4. RampInv'
      <3>1. \A k \in 1..n : phases'[k] = "passed" => k < Next1'
        BY <1>s, <2>1, <2>2 DEF RampInv
      <3>2. pct' = Steps[Next1'].pct /\ Steps[Next1'].pct \in 0..100 /\ Next1' # n + 1
        BY <1>0, <2>1, <2>2, <2>3
      <3>3. pct' <= Steps[Next1'].pct
        <4>1. \A x \in 0..100 : x <= x
          OBVIOUS
        <4> QED
          BY <3>2, <4>1
      <3> QED
        BY <2>1, <2>2, <3>1, <3>2, <3>3 DEF RampInv
    <2>5. AtPhase(w)'
      BY <1>s, <2>1, <2>2 DEF AtPhase
    <2> QED
      BY <1>0, <1>s, <2>1, <2>2, <2>4, <2>5, SoleDriver DEF Live, TerminalStatus
  <1>7. CASE EnterPhase(w)
    <2>1. /\ UNCHANGED <<ro, pct, crashes>> /\ drv[w].pc = "enter" /\ MayMark(i, "active")
          /\ drv'[w].pc = "point" /\ drv'[w].i = i /\ drv'[w].list = drv[w].list
      BY <1>7, <1>a, <1>f DEF EnterPhase
    <2>2. /\ phases' # <<>> /\ Next1' = Next1
          /\ \A k \in 1..n : phases'[k] = "passed" => k < Next1
          /\ \A k \in 1..n : k > i => phases'[k] = phases[k]
          /\ i \in 1..n /\ ro.status \in Live /\ i = Next1
      BY <1>0, <2>1, MarkKeepsPlace DEF PhaseStatus
    <2>3. RampInv'
      BY <1>0, <1>s, <2>1, <2>2 DEF RampInv, AtPhase
    <2>4. AtPhase(w)'
      BY <1>s, <2>1, <2>2 DEF AtPhase
    <2> QED
      BY <1>0, <1>s, <2>1, <2>2, <2>3, <2>4, SoleDriver DEF Live, TerminalStatus
  <1>8. CASE PointPhase(w)
    <2>1. /\ UNCHANGED <<phases, pct, crashes>> /\ drv[w].pc = "point"
          /\ ro' = [ro EXCEPT !.idx = i] /\ MayMark(i, "active")
          /\ drv'[w].pc = "tick" /\ drv'[w].i = i /\ drv'[w].list = drv[w].list
      BY <1>8, <1>a, <1>e DEF PointPhase, MayMark
    <2>2. ro'.status = ro.status /\ ro'.idx = i
      BY <1>0, <2>1
    <2>3. /\ phases' # <<>> /\ Next1' = Next1
          /\ \A k \in 1..n : phases'[k] = "passed" => k < Next1
          /\ i \in 1..n /\ ro.status \in Live /\ i = Next1
      BY <1>0, <2>1, <2>2, MarkKeepsPlace DEF PhaseStatus
    <2>4. RampInv'
      BY <1>0, <1>s, <2>1, <2>2, <2>3 DEF RampInv
    <2>5. AtPhase(w)'
      BY <1>s, <2>1, <2>3 DEF AtPhase
    <2> QED
      BY <1>0, <1>s, <2>1, <2>2, <2>3, <2>4, <2>5, SoleDriver DEF Live, TerminalStatus
  <1>9. ASSUME NEW s \in Signals, Poll(w, s) PROVE SoleInv'
    <2>0. drv[w].pc = "tick" /\ UNCHANGED <<pct, crashes>>
      BY <1>9 DEF Poll
    <2>1. CASE Verdict(w, s) = "await"
      <3>1. /\ drv'[w].pc = "idle" /\ ro' = [ro EXCEPT !.status = "awaiting_approval"]
            /\ MayMark(i, "awaiting_approval")
        BY <1>0, <1>9, <1>b, <2>1 DEF Poll, AwaitApproval, MayMark
      <3>2. ro'.status = "awaiting_approval" /\ ro'.idx = ro.idx
        BY <1>0, <3>1
      <3>3. /\ phases' # <<>> /\ Next1' = Next1
            /\ \A k \in 1..n : phases'[k] = "passed" => k < Next1
            /\ i \in 1..n /\ ro.status \in Live /\ i = Next1
        BY <1>0, <2>0, <3>1, <3>2, MarkKeepsPlace DEF PhaseStatus
      <3>4. RampInv'
        BY <1>0, <1>s, <2>0, <3>2, <3>3 DEF RampInv
      <3> QED
        BY <1>0, <3>1, <3>2, <3>4, SoleDriver
    <2>2. CASE Verdict(w, s) # "await"
      <3>1. drv'[w].pc = Verdict(w, s) /\ drv'[w].i = i /\ drv'[w].list = drv[w].list
            /\ phases' = phases /\ MayMark(i, "active")
        <4>1. /\ drv' = [drv EXCEPT ![w] = [drv[w] EXCEPT !.pc = Verdict(w, s),
                             !.elapsed = Later(drv[w].elapsed), !.healthy = HealthySince(w, s)]]
              /\ phases' = phases
          BY <1>0, <1>9, <2>2 DEF Poll, DriverRec
        <4> QED
          BY <1>0, <4>1 DEF DriverRec, MayMark
      <3>2. Verdict(w, s) \in {"fail", "pass", "tick"}
        BY <2>2 DEF Verdict
      <3>3. ro' = ro \/ ro' = [ro EXCEPT !.idx = i]
        BY <1>0, <1>9, <1>e, <2>2 DEF Poll
      <3>4. ro'.status = ro.status /\ ro'.idx \in {ro.idx, i}
        BY <1>0, <3>3
      <3>5. /\ phases' # <<>> /\ Next1' = Next1
            /\ \A k \in 1..n : phases'[k] = "passed" => k < Next1
            /\ i \in 1..n /\ ro.status \in Live /\ i = Next1
        BY <1>0, <2>0, <3>1, <3>4, MarkKeepsPlace DEF PhaseStatus
      <3>6. RampInv'
        BY <1>0, <1>s, <2>0, <3>1, <3>4, <3>5 DEF RampInv
      <3>7. AtPhase(w)'
        BY <1>s, <2>0, <3>1, <3>5 DEF AtPhase
      <3> QED
        BY <1>0, <1>s, <2>0, <3>1, <3>2, <3>4, <3>5, <3>6, <3>7, SoleDriver DEF Live, TerminalStatus
    <2> QED
      BY <2>1, <2>2
  <1>10. CASE PassPhase(w)
    <2>1. /\ UNCHANGED <<ro, pct, crashes>> /\ drv[w].pc = "pass"
          /\ phases' = [phases EXCEPT ![i] = "passed"]
      BY <1>0, <1>10 DEF PassPhase, WritePhase
    <2>2. /\ phases' # <<>> /\ i \in 1..n /\ ro.status \in Live
          /\ Next1' = i + 1
          /\ NextPhase(drv[w].list, i + 1) = i + 1
          /\ \A k \in 1..n : phases'[k] = "passed" => k < Next1'
          /\ \A k \in 1..n : k > i => drv[w].list[k] = phases'[k]
      BY <2>1, PassMovesOn
    <2>3. /\ drv'[w].pc = IF i + 1 <= n THEN "apply" ELSE "complete"
          /\ drv'[w].i = i + 1 /\ drv'[w].list = drv[w].list
      BY <1>10, <1>c, <2>2 DEF PassPhase
    <2>4. pct = Steps[i].pct /\ Steps[i].pct \in 0..100
      BY <1>s, <2>1, <2>2, StepsTyped
    <2>5. i + 1 <= n => Steps[i].pct <= Steps[i + 1].pct
      <3>1. i + 1 <= n => i + 1 \in 1..n /\ i + 1 > 1 /\ (i + 1) - 1 = i
        BY <1>0, <2>2
      <3>2. i + 1 <= n => Steps[i + 1].pct >= Steps[i].pct
        BY <3>1, StepsTyped
      <3>3. i + 1 <= n => Steps[i + 1].pct \in 0..100
        BY <3>1, StepsTyped
      <3> QED
        BY <2>4, <3>2, <3>3
    <2>6. i + 1 = n + 1 => pct = 100
      BY <1>0, <2>2, <2>4, StepsTyped, SMTT(60)
    <2>7. RampInv'
      BY <2>1, <2>2, <2>4, <2>5, <2>6 DEF RampInv
    <2>8. drv'[w].pc = "apply" => AtPhase(w)'
      BY <1>0, <2>2, <2>3 DEF AtPhase
    <2>9. drv'[w].pc = "complete" => i + 1 = n + 1
      BY <1>0, <2>2, <2>3
    <2> QED
      BY <1>0, <2>1, <2>2, <2>3, <2>7, <2>8, <2>9, SoleDriver DEF Live, TerminalStatus
  <1>11. CASE FailPhase(w)
    <2>1. /\ UNCHANGED <<ro, pct, crashes>> /\ drv[w].pc = "fail" /\ MayMark(i, "rolled_back")
          /\ drv'[w].pc = "rollback"
      BY <1>11, <1>a DEF FailPhase, MayMark
    <2>2. /\ phases' # <<>> /\ Next1' = Next1
          /\ \A k \in 1..n : phases'[k] = "passed" => k < Next1
          /\ i \in 1..n /\ ro.status \in Live /\ i = Next1
      BY <1>0, <2>1, MarkKeepsPlace DEF PhaseStatus
    <2>3. RampInv'
      BY <1>0, <1>s, <2>1, <2>2 DEF RampInv
    <2> QED
      BY <1>0, <1>s, <2>1, <2>2, <2>3, SoleDriver DEF Live, TerminalStatus
  <1>12. CASE Rollback(w)
    <2>1. /\ UNCHANGED <<phases, pct, crashes>> /\ ro'.status = "rolled_back" /\ drv'[w].pc = "revert"
      BY <1>0, <1>12, <1>a, <1>e DEF Rollback
    <2>2. RampInv'
      BY <2>1 DEF RampInv, Live, TerminalStatus
    <2> QED
      BY <1>0, <2>1, <2>2, SoleDriver
  <1>13. CASE Revert(w)
    <2>1. /\ UNCHANGED <<ro, phases, crashes>> /\ pct' = Previous /\ ro.status = "rolled_back"
          /\ drv'[w].pc = "idle"
      BY <1>0, <1>13, <1>b, <1>s DEF Revert
    <2>2. RampInv'
      BY <2>1 DEF RampInv, Live, TerminalStatus
    <2> QED
      BY <1>0, <2>1, <2>2, SoleDriver
  <1>14. CASE MarkCompleted(w)
    <2>1. /\ UNCHANGED <<phases, pct, crashes>> /\ ro'.status = "succeeded" /\ drv'[w].pc = "idle"
          /\ drv[w].pc = "complete"
      BY <1>0, <1>14, <1>b, <1>e DEF MarkCompleted
    <2>2. pct = 100
      BY <1>s, <2>1 DEF RampInv
    <2>3. RampInv'
      BY <2>1 DEF RampInv, Live, TerminalStatus
    <2> QED
      BY <1>0, <2>1, <2>2, <2>3, SoleDriver
  <1>15. CASE PollFails(w)
    <2>1. drv'[w].pc = "tick" /\ drv[w].pc = "tick" /\ drv'[w].i = i /\ drv'[w].list = drv[w].list
          /\ UNCHANGED <<ro, phases, pct, crashes>>
      BY <1>0, <1>15 DEF PollFails, DriverRec
    <2> QED
      BY <1>0, <1>s, <2>1, SoleQuiet
  <1>16. CASE DriveError(w)
    BY <1>0, <1>16 DEF DriveError
  <1> QED
    BY <1>1, <1>2, <1>3, <1>4, <1>5, <1>6, <1>7, <1>8, <1>9, <1>10, <1>11, <1>12, <1>13, <1>14,
       <1>15, <1>16 DEF DriveStep

LEMMA NextKeepsSole ==
    ASSUME Sole, TypeInv, TypeInv', SoleInv, [Next]_vars
    PROVE  SoleInv'
  <1> USE DEF Driving, Stored, InPhase, Starting
  <1>0. OneReplica /\ drv \in [Replicas -> DriverRec] /\ crashes \in Nat
    BY LimitsAssumption DEF TypeInv, Sole, OneReplica
  <1>1. ASSUME NEW w \in Replicas, Deliver(w) PROVE SoleInv'
    BY <1>1 DEF Deliver, SoleInv, RampInv, Next1, NextPhase, AtPhase
  <1>2. ASSUME NEW w \in Replicas, Handle(w) PROVE SoleInv'
    <2>1. drv'[w].pc = "get" /\ drv[w].pc = "idle" /\ UNCHANGED <<ro, phases, pct, crashes>>
      BY <1>0, <1>2 DEF Handle, IdleDriver
    <2> QED
      BY <1>0, <2>1, SoleQuiet
  <1>3. ASSUME NEW w \in Replicas, Crash(w) PROVE SoleInv'
    <2>1. drv'[w].pc = "idle" /\ crashes' = crashes + 1 /\ UNCHANGED <<ro, phases, pct>>
      BY <1>0, <1>3 DEF Crash, IdleDriver
    <2> QED
      BY <1>0, <2>1, SoleQuiet
  <1>4. CASE UNCHANGED vars
    BY <1>4 DEF vars, SoleInv, RampInv, Next1, NextPhase, AtPhase
  <1> QED
    BY <1>1, <1>2, <1>3, <1>4, SoleKeeps DEF Next, Sole

LEMMA SpecSole == ASSUME Sole PROVE Spec => [](TypeInv /\ SoleInv)
  <1>1. Init => TypeInv /\ SoleInv
    BY InitTypeInv, InitSole
  <1>2. TypeInv /\ SoleInv /\ [Next]_vars => (TypeInv /\ SoleInv)'
    BY NextTyped, NextKeepsSole
  <1> QED
    BY <1>1, <1>2, PTL DEF Spec

LEMMA SoleOutcomesHold ==
    ASSUME Sole, SoleInv PROVE SucceededMeansFullyOut /\ RolledBackIsReverted
  BY DEF Sole, SoleInv, SucceededMeansFullyOut, RolledBackIsReverted

\* SucceededMeansFullyOut and RolledBackIsReverted: one replica that nobody
\* interferes with stores a rollout as succeeded only at 100 percent, and unless
\* it crashes it leaves the target of a rolled back one where it was
\* (MarkCompleted, rollback's Revert).
THEOREM SoleOutcomes ==
    ASSUME Sole PROVE Spec => [](SucceededMeansFullyOut /\ RolledBackIsReverted)
  BY SoleOutcomesHold, SpecSole, PTL

-----------------------------------------------------------------------------
(* The refinement of RolloutPromise.                                       *)

Promised == INSTANCE RolloutPromise WITH
    Live <- RolloutStatus \ TerminalStatus, status <- ro.status, exposed <- pct

\* Each step of the driver is a step towards its target or none that shows.
LEMMA StepKeepsPromise ==
    ASSUME Sole, TypeInv, TypeInv', SoleInv, [Next]_vars
    PROVE  [Promised!Next]_<<ro.status, pct>>
  <1> USE DEF Driving, Stored, InPhase, Starting
  <1>0. /\ ~CallFails /\ ro \in [status : RolloutStatus, idx : 1..Len(Steps)]
        /\ \A new : WriteRollout(new) => ro' = new
        /\ ro.status \in RolloutStatus /\ ro'.status \in RolloutStatus
    BY DEF Sole, CallFails, TypeInv, WriteRollout
  <1>1. ASSUME UNCHANGED <<ro.status, pct>> PROVE [Promised!Next]_<<ro.status, pct>>
    BY <1>1
  <1>2. ASSUME pct' = pct, ro.status \in Live, ro'.status \in Live
        PROVE  Promised!Next
    BY <1>2 DEF Promised!Next, Promised!Move, Live
  <1>3. ASSUME NEW w \in Replicas, DriveStep(w) \/ PollFails(w) \/ DriveError(w)
        PROVE  [Promised!Next]_<<ro.status, pct>>
    <2>s. /\ drv[w].pc \in Driving \cup {"rollback"} => ro.status \in Live
          /\ drv[w].pc \in InPhase => drv[w].i = Next1 /\ phases # <<>> /\ drv[w].i \in 1..Len(Steps)
          /\ drv[w].pc = "complete" => Next1 = Len(Steps) + 1 /\ phases # <<>>
          /\ drv[w].pc = "revert" => ro.status = "rolled_back"
          /\ RampInv
      BY DEF SoleInv, AtPhase, TypeInv
    <2>1. CASE GetRollout(w) \/ EnsurePhasesExist(w) \/ BulkInsertPhases(w) \/ ListPhases(w)
               \/ EnterPhase(w) \/ PassPhase(w) \/ FailPhase(w) \/ PollFails(w)
      BY <2>1, <1>1
         DEF GetRollout, EnsurePhasesExist, BulkInsertPhases, ListPhases, EnterPhase, PassPhase,
             FailPhase, PollFails
    <2>2. CASE SetActive(w)
      BY <1>0, <1>2, <2>2, <2>s DEF SetActive, Live, RolloutStatus, TerminalStatus
    <2>3. CASE Apply(w)
      <3>1. /\ pct' = Steps[drv[w].i].pct /\ ro' = ro /\ ro.status \in Live
            /\ drv[w].i \in 1..Len(Steps) /\ drv[w].i = Next1 /\ phases # <<>>
        BY <2>3, <2>s DEF Apply
      <3>2. pct' \in pct..100
        <4>1. pct <= Steps[drv[w].i].pct
          BY <2>s, <3>1, StepsTyped DEF RampInv
        <4>2. Steps[drv[w].i].pct \in 0..100 /\ pct \in 0..100
          BY <3>1, StepsTyped DEF TypeInv
        <4> QED
          <5>1. ASSUME NEW a \in 0..100, NEW b \in 0..100, a <= b PROVE b \in a..100
            BY <5>1
          <5> QED
            BY <3>1, <4>1, <4>2, <5>1
      <3> QED
        BY <3>1, <3>2 DEF Promised!Next, Promised!Expose, Live
    <2>4. CASE PointPhase(w)
      <3>1. ro' = [ro EXCEPT !.idx = drv[w].i] /\ pct' = pct
        BY <1>0, <2>4 DEF PointPhase
      <3> QED
        BY <1>0, <1>1, <3>1
    <2>5. ASSUME NEW s \in Signals, Poll(w, s) PROVE [Promised!Next]_<<ro.status, pct>>
      <3>1. pct' = pct /\ ro.status \in Live
        BY <2>5, <2>s DEF Poll
      <3>2. ro'.status \in {ro.status, "awaiting_approval"}
        <4>1. Verdict(w, s) = "await" => ro' = [ro EXCEPT !.status = "awaiting_approval"]
          BY <2>5 DEF Poll, AwaitApproval
        <4>2. Verdict(w, s) # "await" => ro' \in {ro, [ro EXCEPT !.idx = drv[w].i]}
          BY <1>0, <2>5 DEF Poll
        <4> QED
          BY <1>0, <4>1, <4>2
      <3> QED
        BY <1>2, <3>1, <3>2 DEF Live, RolloutStatus, TerminalStatus
    <2>6. CASE Rollback(w)
      <3>1. ro'.status = "rolled_back" /\ pct' = pct /\ ro.status \in Live
        BY <1>0, <2>6, <2>s DEF Rollback
      <3> QED
        BY <3>1 DEF Promised!Next, Promised!RollBack, Live
    <2>7. CASE Revert(w)
      <3>1. ro' = ro /\ pct' = Previous /\ ro.status = "rolled_back"
        BY <1>0, <2>7, <2>s DEF Revert
      <3> QED
        BY <3>1 DEF Promised!Next, Promised!Revert
    <2>8. CASE MarkCompleted(w)
      <3>1. ro'.status = "succeeded" /\ pct' = pct /\ ro.status \in Live /\ pct = 100
        BY <1>0, <2>8, <2>s DEF MarkCompleted, RampInv
      <3> QED
        BY <3>1 DEF Promised!Next, Promised!Succeed, Live
    <2>9. CASE DriveError(w)
      BY <1>0, <2>9 DEF DriveError
    <2> QED
      BY <1>3, <2>1, <2>2, <2>3, <2>4, <2>5, <2>6, <2>7, <2>8, <2>9 DEF DriveStep
  <1>4. ASSUME NEW w \in Replicas, Deliver(w) \/ Handle(w) \/ Crash(w)
        PROVE  UNCHANGED <<ro.status, pct>>
    BY <1>4 DEF Deliver, Handle, Crash
  <1>5. UNCHANGED vars => UNCHANGED <<ro.status, pct>>
    BY DEF vars
  <1> QED
    BY <1>1, <1>3, <1>4, <1>5 DEF Next, Sole

\* One replica implements RolloutPromise, through every crash and redelivery and
\* for every strategy: an ended rollout stays as it ended, it succeeds only at 100
\* percent, and only Revert lowers the percentage, after the row says rolled_back
\* (DriveRollout, runPhase, rollback).
THEOREM SoleKeepsPromise == ASSUME Sole PROVE Spec => Promised!Spec
  <1>1. Init => Promised!Init
    BY DEF Init, Promised!Init, RolloutStatus, TerminalStatus
  <1>2. TypeInv /\ SoleInv /\ (TypeInv /\ SoleInv)' /\ [Next]_vars
          => [Promised!Next]_<<ro.status, pct>>
    BY StepKeepsPromise
  <1> QED
    BY <1>1, <1>2, SpecSole, PTL DEF Spec, Promised!Spec

=============================================================================
