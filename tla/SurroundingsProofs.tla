-------------------------- MODULE SurroundingsProofs -------------------------
(***************************************************************************)
(* Proofs about what surrounds the control plane: releases, reported       *)
(* deployments, credentials, webhooks, notifications, preferences, the     *)
(* event stream, the sidecar agent and the commands, for any number of     *)
(* clients, processes, rows, requests, heartbeats and interventions.       *)
(*                                                                         *)
(* A behaviour of SurroundSpec runs one of the modules, the one "scenario" *)
(* names.  Each part below gives its module an inductive invariant over    *)
(* its variables, which are the registers v1, v2, ... of MC_Surroundings.  *)
(***************************************************************************)
EXTENDS MC_Surroundings, FiniteSetTheorems, WellFoundedInduction, TLAPS

-----------------------------------------------------------------------------
(* Releases                                                                 *)

\* The requests between their statements.
ReleaseRequests ==
  {Idle}
  \cup [pc : {"update", "delete"}, make : Release, seen : Release, at : Nat]
  \cup [pc : {"publish"}, status : Status]

ReleaseTyped ==
  /\ row \in {None} \cup Release /\ changes \subseteq Flags
  /\ told \in {None} \cup Status /\ ops \in 0 .. MaxOps /\ writes \in Nat
  /\ cl \in [Clients -> ReleaseRequests]

\* A request that would write holds a whole row, made from the row it read by a
\* legal move; as long as nobody wrote since, that is the row stored.
ReleaseCopies ==
  \A c \in Clients : cl[c].pc \in {"update", "delete"} =>
    /\ Whole(cl[c].make) /\ cl[c].at <= writes
    /\ cl[c].pc = "update" =>
         \/ cl[c].make.status = cl[c].seen.status /\ cl[c].seen.status = "rolling_out"
         \/ CanBecome(cl[c].seen, cl[c].make.status)
    /\ cl[c].pc = "delete" => cl[c].seen.status = "draft"
    /\ cl[c].at = writes /\ row # None => row = cl[c].seen

ReleaseInv == ReleaseTyped /\ RowIsWhole /\ ReleaseCopies

\* What an operation makes of a whole row is a whole row of a legal next status.
LEMMA MadeIsWhole ==
  ASSUME NEW r \in Release, Whole(r), NEW m, m # None,
         \/ m \in {Start(r), Pause(r), Rollback(r), Complete(r)}
         \/ \E p \in Percents : m = Promote(r, p)
  PROVE  /\ m \in Release /\ Whole(m)
         /\ \/ m.status = r.status /\ r.status = "rolling_out"
            \/ CanBecome(r, m.status)
<1>1. CASE m = Start(r)
  BY <1>1 DEF Start, CanBecome, releaseTransitions, Release, Status, Whole, Ended
<1>2. CASE m = Pause(r)
  BY <1>2 DEF Pause, CanBecome, releaseTransitions, Release, Status, Whole, Ended
<1>3. CASE m = Rollback(r)
  BY <1>3 DEF Rollback, CanBecome, releaseTransitions, Release, Status, Whole, Ended
<1>4. CASE m = Complete(r)
  BY <1>4 DEF Complete, CanBecome, releaseTransitions, Release, Status, Whole, Ended
<1>5. ASSUME NEW p \in Percents, m = Promote(r, p)
      PROVE  /\ m \in Release /\ Whole(m)
             /\ \/ m.status = r.status /\ r.status = "rolling_out"
                \/ CanBecome(r, m.status)
  BY <1>5 DEF Promote, CanBecome, releaseTransitions, Release, Status, Whole, Ended
<1> QED  BY <1>1, <1>2, <1>3, <1>4, <1>5

LEMMA ReleaseInitially == Init => ReleaseInv
  BY SurroundAssumption DEF Init, ReleaseInv, ReleaseTyped, ReleaseRequests, RowIsWhole,
     ReleaseCopies, Idle

\* A first statement: the row stays, and the new request fits it.
LEMMA ReleaseReads ==
  ASSUME ReleaseInv, NEW c \in Clients, NEW op \in {"update", "delete"}, NEW made,
         GetByID(c, op, made),
         made # None => /\ made \in Release /\ Whole(made)
                        /\ op = "update" => \/ made.status = row.status /\ row.status = "rolling_out"
                                            \/ CanBecome(row, made.status)
                        /\ op = "delete" => row.status = "draft"
  PROVE  ReleaseInv'
<1> DEFINE new == IF made = None THEN Idle
                  ELSE [pc |-> op, make |-> made, seen |-> row, at |-> writes]
<1>1. /\ row # None /\ ops < MaxOps /\ ops' = ops + 1 /\ cl' = [cl EXCEPT ![c] = new]
      /\ UNCHANGED <<row, changes, told, writes>>
  BY DEF GetByID, Begin
<1>2. row \in Release /\ writes \in Nat
  BY <1>1 DEF ReleaseInv, ReleaseTyped
<1>3. new \in ReleaseRequests
  BY <1>2 DEF ReleaseRequests
<1>4. ReleaseTyped'
  BY <1>1, <1>3, SurroundAssumption DEF ReleaseInv, ReleaseTyped
<1>5. ReleaseCopies'
  BY <1>1, <1>2 DEF ReleaseInv, ReleaseTyped, ReleaseCopies, Idle, CanBecome
<1> QED  BY <1>1, <1>4, <1>5 DEF ReleaseInv, RowIsWhole

LEMMA ReleaseStep == ReleaseInv /\ [Next]_vars => ReleaseInv'
<1> SUFFICES ASSUME ReleaseInv, [Next]_vars PROVE ReleaseInv'
  OBVIOUS
<1>1. CASE UNCHANGED vars
  BY <1>1 DEF vars, ReleaseInv, ReleaseTyped, RowIsWhole, ReleaseCopies
<1>2. ASSUME NEW c \in Clients,
             \/ startRelease(c) \/ promoteRelease(c) \/ pauseRelease(c)
             \/ rollbackRelease(c) \/ completeRelease(c)
      PROVE  ReleaseInv'
  <2>1. row # None
    BY <1>2 DEF startRelease, promoteRelease, pauseRelease, rollbackRelease, completeRelease, GetByID
  <2>2. row \in Release /\ Whole(row)
    BY <2>1 DEF ReleaseInv, ReleaseTyped, RowIsWhole
  <2>3. PICK made : /\ GetByID(c, "update", made)
                    /\ \/ made \in {Start(row), Pause(row), Rollback(row), Complete(row)}
                       \/ \E p \in Percents : made = Promote(row, p)
    BY <1>2 DEF startRelease, promoteRelease, pauseRelease, rollbackRelease, completeRelease
  <2>4. made # None =>
          /\ made \in Release /\ Whole(made)
          /\ \/ made.status = row.status /\ row.status = "rolling_out"
             \/ CanBecome(row, made.status)
    BY <2>2, <2>3, MadeIsWhole
  <2> QED  BY <2>3, <2>4, ReleaseReads
<1>3. ASSUME NEW c \in Clients, deleteRelease(c)
      PROVE  ReleaseInv'
  <2>1. GetByID(c, "delete", IF row.status = "draft" THEN row ELSE None) /\ row # None
    BY <1>3 DEF deleteRelease, GetByID
  <2>2. row \in Release /\ Whole(row)
    BY <2>1 DEF ReleaseInv, ReleaseTyped, RowIsWhole
  <2> QED  BY <2>1, <2>2, ReleaseReads
<1>4. ASSUME NEW c \in Clients, createRelease(c)
      PROVE  ReleaseInv'
  <2>1. /\ row = None /\ writes = 0
        /\ ops' = ops + 1 /\ ops < MaxOps /\ row' = NewRelease /\ writes' = 1
        /\ cl' = [cl EXCEPT ![c] = [pc |-> "publish", status |-> "draft"]]
        /\ UNCHANGED <<changes, told>>
    BY <1>4 DEF createRelease, Begin
  <2>2. NewRelease \in Release /\ Whole(NewRelease)
    BY DEF NewRelease, Release, Status, Whole, Ended
  <2>3. [pc |-> "publish", status |-> "draft"] \in ReleaseRequests
    BY DEF ReleaseRequests, Status
  <2>4. ReleaseTyped'
    BY <2>1, <2>2, <2>3, SurroundAssumption DEF ReleaseInv, ReleaseTyped
  <2>5. ReleaseCopies'
    <3> SUFFICES ASSUME NEW d \in Clients, cl'[d].pc \in {"update", "delete"}
                 PROVE  cl[d].pc \in {"update", "delete"} /\ cl'[d] = cl[d]
                        /\ cl[d].at <= writes' /\ cl[d].at # writes'
      BY <2>1 DEF ReleaseInv, ReleaseCopies, CanBecome
    <3>1. cl'[d] = cl[d]
      BY <2>1 DEF ReleaseInv, ReleaseTyped
    <3>2. cl[d].at \in Nat
      BY <3>1 DEF ReleaseInv, ReleaseTyped, ReleaseRequests, Idle
    <3> QED  BY <2>1, <3>1, <3>2 DEF ReleaseInv, ReleaseCopies
  <2>6. RowIsWhole'
    BY <2>1, <2>2, SurroundAssumption, ReleaseAssumption DEF RowIsWhole
  <2> QED  BY <2>4, <2>5, <2>6 DEF ReleaseInv
<1>5. ASSUME NEW c \in Clients, Update(c)
      PROVE  ReleaseInv'
  <2>1. cl[c] \in [pc : {"update", "delete"}, make : Release, seen : Release, at : Nat]
    BY <1>5 DEF Update, ReleaseInv, ReleaseTyped, ReleaseRequests, Idle
  <2>2. Whole(cl[c].make)
    BY <1>5 DEF Update, ReleaseInv, ReleaseCopies
  <2>3. CASE row = None
    BY <1>5, <2>3 DEF Update, ReleaseInv, ReleaseTyped, ReleaseRequests, Idle, RowIsWhole, ReleaseCopies
  <2>4. CASE row # None
    <3>1. /\ row' = cl[c].make /\ writes' = writes + 1 /\ UNCHANGED <<changes, told, ops>>
          /\ cl' = [cl EXCEPT ![c] = [pc |-> "publish", status |-> cl[c].make.status]]
      BY <1>5, <2>4 DEF Update
    <3>2. [pc |-> "publish", status |-> cl[c].make.status] \in ReleaseRequests
      BY <2>1 DEF ReleaseRequests, Release
    <3>3. ReleaseTyped'
      BY <2>1, <3>1, <3>2 DEF ReleaseInv, ReleaseTyped
    <3>4. RowIsWhole'
      BY <2>1, <2>2, <3>1, ReleaseAssumption DEF RowIsWhole
    <3>5. ReleaseCopies'
      <4> SUFFICES ASSUME NEW d \in Clients, cl'[d].pc \in {"update", "delete"}
                   PROVE  cl[d].pc \in {"update", "delete"} /\ cl'[d] = cl[d]
                          /\ cl[d].at <= writes' /\ cl[d].at # writes'
        BY <3>1 DEF ReleaseInv, ReleaseCopies, CanBecome
      <4>1. cl'[d] = cl[d]
        BY <3>1 DEF ReleaseInv, ReleaseTyped
      <4>2. cl[d].at \in Nat /\ writes \in Nat
        BY <4>1 DEF ReleaseInv, ReleaseTyped, ReleaseRequests, Idle
      <4> QED  BY <3>1, <4>1, <4>2 DEF ReleaseInv, ReleaseCopies
    <3> QED  BY <3>3, <3>4, <3>5 DEF ReleaseInv
  <2> QED  BY <2>3, <2>4
<1>6. ASSUME NEW c \in Clients, Delete(c)
      PROVE  ReleaseInv'
  BY <1>6 DEF Delete, ReleaseInv, ReleaseTyped, ReleaseRequests, Idle, RowIsWhole, ReleaseCopies
<1>7. ASSUME NEW c \in Clients, publishEvent(c) \/ CutOff(c)
      PROVE  ReleaseInv'
  BY <1>7 DEF publishEvent, CutOff, ReleaseInv, ReleaseTyped, ReleaseRequests, Idle, RowIsWhole,
     ReleaseCopies, CanBecome
<1>8. ASSUME NEW c \in Clients, addFlagChange(c)
      PROVE  ReleaseInv'
  BY <1>8, SurroundAssumption DEF addFlagChange, Begin, ReleaseInv, ReleaseTyped, ReleaseRequests,
     Idle, RowIsWhole, ReleaseCopies, CanBecome
<1> QED  BY <1>1, <1>2, <1>3, <1>4, <1>5, <1>6, <1>7, <1>8 DEF Next

\* A request whose read is current makes a legal move.
LEMMA ReleaseMoves == ReleaseInv /\ [Next]_vars => StaleWriteStep
<1> SUFFICES ASSUME ReleaseInv, [Next]_vars, NEW c \in Clients, cl'[c] # cl[c], row # None,
                    cl[c].at = writes, cl[c].pc \in {"update", "delete"}
             PROVE  /\ cl[c].pc = "update" /\ writes' # writes =>
                         \/ row'.status = row.status /\ row.status = "rolling_out"
                         \/ CanBecome(row, row'.status)
                    /\ cl[c].pc = "delete" /\ row' = None => row.status = "draft"
  BY DEF StaleWriteStep
<1>1. row = cl[c].seen
  BY DEF ReleaseInv, ReleaseCopies
<1>2. PICK d \in Clients :
        \/ createRelease(d) \/ startRelease(d) \/ promoteRelease(d) \/ pauseRelease(d)
        \/ rollbackRelease(d) \/ completeRelease(d) \/ deleteRelease(d) \/ addFlagChange(d)
        \/ Update(d) \/ Delete(d) \/ publishEvent(d) \/ CutOff(d)
  BY DEF Next, vars
<1>3. Update(c) \/ Delete(c) \/ CutOff(c)
  BY <1>2 DEF createRelease, startRelease, promoteRelease, pauseRelease, rollbackRelease,
     completeRelease, deleteRelease, addFlagChange, GetByID, Begin, Update, Delete, publishEvent,
     CutOff, ReleaseInv, ReleaseTyped
<1>4. cl[c].pc = "update" /\ writes' # writes => Update(c) /\ row' = cl[c].make
  BY <1>3 DEF Update, Delete, CutOff
<1>5. cl[c].pc = "delete" => cl[c].seen.status = "draft"
  BY DEF ReleaseInv, ReleaseCopies
<1>6. cl[c].pc = "update" => \/ cl[c].make.status = cl[c].seen.status /\ cl[c].seen.status = "rolling_out"
                             \/ CanBecome(cl[c].seen, cl[c].make.status)
  BY DEF ReleaseInv, ReleaseCopies
<1> QED  BY <1>1, <1>4, <1>5, <1>6

-----------------------------------------------------------------------------
(* Webhooks: v1 the webhook, v2 its deliveries, v3 what reached the         *)
(* receiver, v4 the requests, v5 their number, v6 the number of writes      *)

Columns == [Fields -> Values]

\* The requests between their statements.
HookUpdates == [pc : {"update"}, req : UNION {[F -> Values] : F \in SUBSET Fields},
                make : Columns, at : Nat]
HookTests == [pc : {"record", "send"}, id : Nat, hook : Columns]
HookOutcomes == [pc : {"outcome"}, id : Nat, ok : BOOLEAN]
HookRequests == {Hooks!Idle} \cup [pc : {"delete"}] \cup HookUpdates \cup HookTests \cup HookOutcomes

Pending == [status |-> "pending", attempts |-> 0]

HooksTyped ==
  /\ v1 \in {None} \cup Columns /\ v5 \in 0 .. HookOps /\ v6 \in Nat
  /\ v4 \in [Clients -> HookRequests]
  /\ \A d \in DOMAIN v2 : v2[d] = Pending \/ \E ok \in BOOLEAN : v2[d] = Hooks!Outcome(ok)

Testing(c) == v4[c].pc \in {"record", "send", "outcome"}

\* Tests have numbers of their own, nothing has reached the receiver before it is
\* sent, and one that succeeded has.
TestInv ==
  /\ \A r, s \in v3 : r[1] = s[1] => r = s
  /\ \A r \in v3 : r[1] \in 1 .. v5
  /\ \A c \in Clients : Testing(c) =>
       /\ v4[c].id \in 1 .. v5
       /\ \A d \in Clients \ {c} : Testing(d) => v4[c].id # v4[d].id
       /\ v4[c].pc # "outcome" => \A r \in v3 : r[1] # v4[c].id
       /\ v4[c].pc = "outcome" /\ v4[c].ok => \E r \in v3 : r[1] = v4[c].id

\* What is recorded as sent has arrived, and nothing outlives the webhook.
DeliveryInv ==
  /\ v1 = None => v2 = <<>>
  /\ \A d \in DOMAIN v2 : v2[d].status = "sent" => \E r \in v3 : r[1] = d

\* Without a write since its read, an edit is made of the row stored.
EditInv ==
  \A c \in Clients : v4[c].pc = "update" =>
    /\ v4[c].at <= v6
    /\ v4[c].at = v6 /\ v1 # None => v4[c].make = Hooks!Edited(v1, v4[c].req)

HooksInv == HooksTyped /\ TestInv /\ DeliveryInv /\ EditInv

LEMMA HooksInitially == Hooks!Init => HooksInv
<1> SUFFICES ASSUME Hooks!Init PROVE HooksInv
  OBVIOUS
<1>1. v1 \in Columns
  BY SurroundAssumption DEF Hooks!Init, Columns
<1>2. v4 = [c \in Clients |-> Hooks!Idle] /\ v2 = <<>> /\ v3 = {} /\ v5 = 0 /\ v6 = 0
  BY DEF Hooks!Init
<1>3. v1 # None
  BY <1>1, SurroundAssumption DEF Columns
<1> QED  BY <1>1, <1>2, <1>3, SurroundAssumption DEF HooksInv, HooksTyped, HookRequests, TestInv,
            DeliveryInv, EditInv, Testing, Hooks!Idle

\* A step that leaves the tests' registers alone and the tests where they are.
LEMMA HooksEdits ==
  ASSUME HooksInv, NEW c \in Clients, NEW q \in {Hooks!Idle} \cup [pc : {"delete"}] \cup HookUpdates,
         v4' = [v4 EXCEPT ![c] = q], v5' \in {v5, v5 + 1}, v5' <= HookOps, v2' = v2, v3' = v3,
         \/ UNCHANGED <<v1, v6>>
         \/ v1 # None /\ v1' \in Columns /\ v6' = v6 + 1,
         q.pc = "update" => /\ UNCHANGED <<v1, v6>> /\ q.at = v6
                            /\ v1 # None => q.make = Hooks!Edited(v1, q.req)
  PROVE  HooksInv'
<1> USE DEF HooksInv
<1>1. q \in HookRequests /\ q.pc \in {"idle", "delete", "update"}
  BY DEF HookRequests, HookUpdates, Hooks!Idle
<1>2. HooksTyped'
  BY <1>1, SurroundAssumption DEF HooksTyped
<1>3. TestInv'
  BY <1>1 DEF TestInv, Testing, HooksTyped
<1>4. DeliveryInv'
  BY SurroundAssumption DEF DeliveryInv, HooksTyped, Columns
<1>5. EditInv'
  <2> SUFFICES ASSUME NEW d \in Clients, v4'[d].pc = "update"
               PROVE  /\ v4'[d].at <= v6'
                      /\ v4'[d].at = v6' /\ v1' # None => v4'[d].make = Hooks!Edited(v1', v4'[d].req)
    BY DEF EditInv, Hooks!Edited
  <2>1. CASE d = c
    <3>1. v4'[d] = q /\ v6 \in Nat
      BY <2>1 DEF HooksTyped
    <3>2. q.pc = "update"
      BY <3>1
    <3>3. v6' = v6 /\ v1' = v1 /\ q.at = v6 /\ (v1 # None => q.make = Hooks!Edited(v1, q.req))
      BY <3>2
    <3>4. v1 # None => v4'[d].make = Hooks!Edited(v1, v4'[d].req)
      BY <3>1, <3>3
    <3> QED  BY <3>1, <3>3, <3>4 DEF Hooks!Edited
  <2>2. CASE d # c
    <3>1. v4'[d] = v4[d] /\ v4[d] \in HookUpdates /\ v6 \in Nat
      BY <2>2 DEF HooksTyped, HookRequests, HookTests, HookOutcomes, Hooks!Idle
    <3>2. /\ v4[d].pc = "update" /\ v4[d].at <= v6 /\ v4[d].at \in Nat
          /\ v4[d].at = v6 /\ v1 # None => v4[d].make = Hooks!Edited(v1, v4[d].req)
      BY <3>1 DEF EditInv, HookUpdates
    <3>3. v4[d].at <= v6' /\ (v4[d].at = v6' => UNCHANGED <<v1, v6>>)
      BY <3>1, <3>2
    <3> QED  BY <3>1, <3>2, <3>3 DEF Hooks!Edited
  <2> QED  BY <2>1, <2>2
<1> QED  BY <1>2, <1>3, <1>4, <1>5

\* A step of a test: the webhook and the edits stay as they are.
LEMMA HooksTests ==
  ASSUME HooksInv, NEW c \in Clients, NEW q \in {Hooks!Idle} \cup HookTests \cup HookOutcomes,
         v4' = [v4 EXCEPT ![c] = q], UNCHANGED <<v1, v6>>, v5' \in {v5, v5 + 1}, v5' <= HookOps,
         \A d \in DOMAIN v2' :
           /\ v2'[d] = Pending \/ \E ok \in BOOLEAN : v2'[d] = Hooks!Outcome(ok)
           /\ v2'[d].status = "sent" => \E r \in v3' : r[1] = d,
         v1 = None => v2' = v2, TestInv'
  PROVE  HooksInv'
<1> USE DEF HooksInv
<1>1. q \in HookRequests /\ q.pc # "update"
  BY DEF HookRequests, HookTests, HookOutcomes, Hooks!Idle
<1>2. HooksTyped'
  BY <1>1, SurroundAssumption DEF HooksTyped
<1>3. DeliveryInv'
  BY DEF DeliveryInv
<1>4. EditInv'
  BY <1>1 DEF EditInv, HooksTyped, Hooks!Edited
<1> QED  BY <1>2, <1>3, <1>4

\* What a test does to the numbers: it takes the next, it goes on with its own,
\* or it ends.
LEMMA TestsStayApart ==
  ASSUME HooksTyped, TestInv, NEW c \in Clients, NEW q, v4' = [v4 EXCEPT ![c] = q],
         \/ q = Hooks!Idle /\ v5' \in {v5, v5 + 1} /\ v3' = v3
         \/ q \in HookTests /\ q.id = v5 + 1 /\ v5' = v5 + 1 /\ v3' = v3
         \/ /\ q \in HookTests /\ v4[c] \in HookTests /\ q.id = v4[c].id /\ v5' = v5 /\ v3' = v3
         \/ /\ q \in HookOutcomes /\ v4[c] \in HookTests /\ q.id = v4[c].id /\ v5' = v5
            /\ \/ v3' = v3 /\ ~q.ok
               \/ v3' = v3 \cup {<<q.id, v4[c].hook>>}
  PROVE  TestInv'
<1>1. v5 \in Nat /\ v4 \in [Clients -> HookRequests]
  BY SurroundAssumption DEF HooksTyped
<1>2. CASE q = Hooks!Idle /\ v5' \in {v5, v5 + 1} /\ v3' = v3
  BY <1>1, <1>2 DEF TestInv, Testing, Hooks!Idle
<1>3. CASE q \in HookTests /\ q.id = v5 + 1 /\ v5' = v5 + 1 /\ v3' = v3
  BY <1>1, <1>3 DEF TestInv, Testing, HookTests
<1>4. CASE q \in HookTests /\ v4[c] \in HookTests /\ q.id = v4[c].id /\ v5' = v5 /\ v3' = v3
  BY <1>1, <1>4 DEF TestInv, Testing, HookTests
<1>5. CASE /\ q \in HookOutcomes /\ v4[c] \in HookTests /\ q.id = v4[c].id /\ v5' = v5
           /\ \/ v3' = v3 /\ ~q.ok
              \/ v3' = v3 \cup {<<q.id, v4[c].hook>>}
  <2>1. /\ Testing(c) /\ v4[c].pc # "outcome" /\ q.pc = "outcome"
        /\ \A r \in v3 : r[1] # q.id
        /\ q.id \in 1 .. v5
    BY <1>5 DEF TestInv, Testing, HookTests, HookOutcomes
  <2>2. \A r, s \in v3' : r[1] = s[1] => r = s
    BY <1>5, <2>1 DEF TestInv
  <2>3. \A r \in v3' : r[1] \in 1 .. v5'
    BY <1>5, <2>1 DEF TestInv
  <2>4. q.ok => \E r \in v3' : r[1] = q.id
    <3>1. <<q.id, v4[c].hook>>[1] = q.id
      OBVIOUS
    <3> QED  BY <1>5, <3>1
  <2>5. \A d \in Clients \ {c} : Testing(d)' => Testing(d) /\ v4'[d] = v4[d] /\ v4[d].id # q.id
    BY <1>1, <1>5, <2>1 DEF TestInv, Testing
  <2>6. \A d \in Clients \ {c} : Testing(d)' /\ v4[d].pc # "outcome" => \A r \in v3' : r[1] # v4[d].id
    BY <1>5, <2>1, <2>5 DEF TestInv
  <2>7. v4'[c] = q
    BY <1>1
  <2> QED  BY <1>5, <2>1, <2>2, <2>3, <2>4, <2>5, <2>6, <2>7 DEF TestInv, Testing
<1> QED  BY <1>2, <1>3, <1>4, <1>5

LEMMA HooksStep == HooksInv /\ [Hooks!Next]_<<v1, v2, v3, v4, v5, v6>> => HooksInv'
<1> SUFFICES ASSUME HooksInv, [Hooks!Next]_<<v1, v2, v3, v4, v5, v6>> PROVE HooksInv'
  OBVIOUS
<1>0. /\ HooksTyped /\ TestInv /\ DeliveryInv /\ EditInv
      /\ v5 \in 0 .. HookOps /\ v4 \in [Clients -> HookRequests] /\ v1 \in {None} \cup Columns
  BY DEF HooksInv, HooksTyped
<1>01. v5 <= HookOps
  BY <1>0, SurroundAssumption
<1>1. CASE UNCHANGED <<v1, v2, v3, v4, v5, v6>>
  BY <1>0, <1>1 DEF HooksInv, HooksTyped, TestInv, DeliveryInv, EditInv, Testing, Hooks!Edited
<1>2. ASSUME NEW c \in Clients, Hooks!GetForUpdate(c)
      PROVE  HooksInv'
  <2>1. PICK F \in SUBSET Fields : \E r \in [F -> Values] :
          Hooks!Begin(c, IF v1 = None \/ F = {} THEN Hooks!Idle
                         ELSE [pc |-> "update", req |-> r, make |-> Hooks!Edited(v1, r), at |-> v6])
    BY <1>2 DEF Hooks!GetForUpdate
  <2>2. PICK r \in [F -> Values] :
          Hooks!Begin(c, IF v1 = None \/ F = {} THEN Hooks!Idle
                         ELSE [pc |-> "update", req |-> r, make |-> Hooks!Edited(v1, r), at |-> v6])
    BY <2>1
  <2> DEFINE u == [pc |-> "update", req |-> r, make |-> Hooks!Edited(v1, r), at |-> v6]
             q == IF v1 = None \/ F = {} THEN Hooks!Idle ELSE u
  <2>3. v1 # None => u \in HookUpdates
    <3>1. v1 # None => Hooks!Edited(v1, r) \in Columns
      BY <1>0 DEF Columns, Hooks!Edited
    <3>2. r \in UNION {[G -> Values] : G \in SUBSET Fields} /\ v6 \in Nat
      BY <1>0 DEF HooksTyped
    <3> QED  BY <3>1, <3>2 DEF HookUpdates
  <2>4. q \in {Hooks!Idle} \cup HookUpdates /\ (q.pc = "update" => q = u)
    BY <2>3 DEF Hooks!Idle
  <2>5. u.at = v6 /\ u.make = Hooks!Edited(v1, u.req)
    OBVIOUS
  <2>6. v4' = [v4 EXCEPT ![c] = q] /\ v5' = v5 + 1 /\ v5 < HookOps
    BY <2>2 DEF Hooks!Begin
  <2>7. UNCHANGED <<v1, v2, v3, v6>>
    BY <1>2 DEF Hooks!GetForUpdate
  <2> HIDE DEF u, q
  <2>8. v5' <= HookOps
    BY <1>0, <2>6, SurroundAssumption
  <2>9. q.pc = "update" => q.at = v6 /\ q.make = Hooks!Edited(v1, q.req)
    BY <2>4, <2>5
  <2> QED  BY <2>4, <2>6, <2>7, <2>8, <2>9, HooksEdits
<1>3. ASSUME NEW c \in Clients, Hooks!UpdateWebhook(c)
      PROVE  HooksInv'
  <2>1. v4[c] \in HookUpdates
    BY <1>0, <1>3 DEF Hooks!UpdateWebhook, HookRequests, HookTests, HookOutcomes, Hooks!Idle
  <2>2. \/ UNCHANGED <<v1, v6>>
        \/ v1 # None /\ v1' \in Columns /\ v6' = v6 + 1
    BY <1>3, <2>1 DEF Hooks!UpdateWebhook, HookUpdates
  <2>3. v4' = [v4 EXCEPT ![c] = Hooks!Idle] /\ UNCHANGED <<v2, v3, v5>>
    BY <1>3 DEF Hooks!UpdateWebhook, Hooks!Become
  <2>4. Hooks!Idle.pc # "update"
    BY DEF Hooks!Idle
  <2> QED  BY <1>01, <2>2, <2>3, <2>4, HooksEdits
<1>4. ASSUME NEW c \in Clients, Hooks!GetForDelete(c)
      PROVE  HooksInv'
  <2>1. PICK own \in BOOLEAN : Hooks!Begin(c, IF v1 = None \/ ~own THEN Hooks!Idle ELSE [pc |-> "delete"])
    BY <1>4 DEF Hooks!GetForDelete
  <2> DEFINE q == IF v1 = None \/ ~own THEN Hooks!Idle ELSE [pc |-> "delete"]
  <2>2. q \in {Hooks!Idle} \cup [pc : {"delete"}] /\ q.pc # "update"
    BY DEF Hooks!Idle
  <2>3. v4' = [v4 EXCEPT ![c] = q] /\ v5' = v5 + 1 /\ v5 < HookOps
    BY <2>1 DEF Hooks!Begin
  <2>4. UNCHANGED <<v1, v2, v3, v6>>
    BY <1>4 DEF Hooks!GetForDelete
  <2> HIDE DEF q
  <2>5. v5' <= HookOps
    BY <1>0, <2>3, SurroundAssumption
  <2> QED  BY <2>2, <2>3, <2>4, <2>5, HooksEdits
<1>5. ASSUME NEW c \in Clients, Hooks!DeleteWebhook(c)
      PROVE  HooksInv'
  <2>1. /\ v1' = None /\ v2' = <<>> /\ v6' = v6 + 1 /\ UNCHANGED <<v3, v5>>
        /\ v4' = [v4 EXCEPT ![c] = Hooks!Idle]
    BY <1>5 DEF Hooks!DeleteWebhook, Hooks!Become
  <2>2. TestInv'
    BY <1>0, <2>1, TestsStayApart
  <2>3. EditInv'
    <3> SUFFICES ASSUME NEW d \in Clients, v4'[d].pc = "update" PROVE v4'[d].at <= v6'
      BY <2>1 DEF EditInv
    <3>1. v4'[d] = v4[d]
      BY <1>0, <2>1 DEF Hooks!Idle
    <3>2. v4[d] \in HookUpdates /\ v6 \in Nat
      BY <1>0, <3>1 DEF HooksTyped, HookRequests, HookTests, HookOutcomes, Hooks!Idle
    <3> QED  BY <1>0, <2>1, <3>1, <3>2 DEF EditInv, HookUpdates
  <2>4. HooksTyped'
    BY <1>0, <2>1 DEF HooksTyped, HookRequests
  <2>5. DeliveryInv'
    BY <2>1 DEF DeliveryInv
  <2> QED  BY <2>2, <2>3, <2>4, <2>5 DEF HooksInv
<1>6. ASSUME NEW c \in Clients, Hooks!GetForTest(c)
      PROVE  HooksInv'
  <2>1. PICK own \in BOOLEAN :
          Hooks!Begin(c, IF v1 = None \/ ~own THEN Hooks!Idle
                         ELSE [pc |-> "record", id |-> v5 + 1, hook |-> v1])
    BY <1>6 DEF Hooks!GetForTest
  <2> DEFINE q == IF v1 = None \/ ~own THEN Hooks!Idle
                  ELSE [pc |-> "record", id |-> v5 + 1, hook |-> v1]
  <2>2. q = Hooks!Idle \/ (q \in HookTests /\ q.id = v5 + 1)
    BY <1>0 DEF HookTests
  <2>3. v4' = [v4 EXCEPT ![c] = q] /\ v5' = v5 + 1 /\ v5 < HookOps
    BY <2>1 DEF Hooks!Begin
  <2>4. UNCHANGED <<v1, v2, v3, v6>>
    BY <1>6 DEF Hooks!GetForTest
  <2> HIDE DEF q
  <2>5. v5' <= HookOps
    BY <1>0, <2>3, SurroundAssumption
  <2>6. TestInv'
    BY <1>0, <2>2, <2>3, <2>4, TestsStayApart
  <2> QED  BY <1>0, <2>2, <2>3, <2>4, <2>5, <2>6, HooksTests DEF HooksTyped, DeliveryInv
<1>7. ASSUME NEW c \in Clients, Hooks!CreateDelivery(c)
      PROVE  HooksInv'
  <2> DEFINE q == IF v1 = None THEN Hooks!Idle ELSE [v4[c] EXCEPT !.pc = "send"]
  <2>1. v4[c] \in HookTests
    BY <1>0, <1>7 DEF Hooks!CreateDelivery, HookRequests, HookUpdates, HookOutcomes, Hooks!Idle
  <2>2. q = Hooks!Idle \/ (q \in HookTests /\ q.id = v4[c].id)
    BY <2>1 DEF HookTests
  <2>3. v4' = [v4 EXCEPT ![c] = q] /\ UNCHANGED <<v1, v3, v5, v6>>
    BY <1>7 DEF Hooks!CreateDelivery, Hooks!Become
  <2>4. v2' = v2 \/ (v1 # None /\ v2' = Hooks!Put(v2, v4[c].id, Pending))
    BY <1>7 DEF Hooks!CreateDelivery, Pending
  <2>5. v1 = None => v2' = v2
    BY <2>4
  <2> HIDE DEF q
  <2>6. TestInv'
    BY <1>0, <2>1, <2>2, <2>3, TestsStayApart
  <2>7. ASSUME NEW d \in DOMAIN v2'
        PROVE  /\ v2'[d] = Pending \/ \E ok \in BOOLEAN : v2'[d] = Hooks!Outcome(ok)
               /\ v2'[d].status = "sent" => \E r \in v3' : r[1] = d
    <3>1. v2'[d] = Pending \/ (d \in DOMAIN v2 /\ v2'[d] = v2[d])
      BY <2>4, <2>7 DEF Hooks!Put
    <3>2. Pending.status # "sent"
      BY DEF Pending
    <3> QED  BY <1>0, <2>3, <3>1, <3>2 DEF HooksTyped, DeliveryInv
  <2> QED  BY <1>0, <1>01, <2>2, <2>3, <2>5, <2>6, <2>7, HooksTests
<1>8. ASSUME NEW c \in Clients, Hooks!deliverWebhook(c)
      PROVE  HooksInv'
  <2>1. v4[c] \in HookTests
    BY <1>0, <1>8 DEF Hooks!deliverWebhook, HookRequests, HookUpdates, HookOutcomes, Hooks!Idle
  <2>2. PICK reached \in BOOLEAN, ok \in BOOLEAN :
          /\ ok => reached
          /\ v3' = IF reached THEN v3 \cup {<<v4[c].id, v4[c].hook>>} ELSE v3
          /\ v4' = [v4 EXCEPT ![c] = [pc |-> "outcome", id |-> v4[c].id, ok |-> ok]]
    BY <1>8 DEF Hooks!deliverWebhook, Hooks!Become
  <2> DEFINE q == [pc |-> "outcome", id |-> v4[c].id, ok |-> ok]
  <2>3. q \in HookOutcomes /\ q.id = v4[c].id /\ q.ok = ok
    BY <2>1 DEF HookOutcomes, HookTests
  <2>4. UNCHANGED <<v1, v2, v5, v6>> /\ v4' = [v4 EXCEPT ![c] = q]
    BY <1>8, <2>2 DEF Hooks!deliverWebhook
  <2> HIDE DEF q
  <2>5. \/ v3' = v3 /\ ~q.ok
        \/ v3' = v3 \cup {<<q.id, v4[c].hook>>}
    BY <2>2, <2>3
  <2>6. TestInv'
    BY <1>0, <2>1, <2>3, <2>4, <2>5, TestsStayApart
  <2>7. \A d \in DOMAIN v2' :
           /\ v2'[d] = Pending \/ \E o \in BOOLEAN : v2'[d] = Hooks!Outcome(o)
           /\ v2'[d].status = "sent" => \E r \in v3' : r[1] = d
    BY <1>0, <2>4, <2>5 DEF HooksTyped, DeliveryInv
  <2> QED  BY <1>0, <1>01, <2>3, <2>4, <2>6, <2>7, HooksTests
<1>9. ASSUME NEW c \in Clients, Hooks!UpdateDelivery(c)
      PROVE  HooksInv'
  <2>1. v4[c] \in HookOutcomes /\ v4[c].pc = "outcome"
    BY <1>0, <1>9 DEF Hooks!UpdateDelivery, HookRequests, HookUpdates, HookTests, Hooks!Idle
  <2>2. v4' = [v4 EXCEPT ![c] = Hooks!Idle] /\ UNCHANGED <<v1, v3, v5, v6>>
    BY <1>9 DEF Hooks!UpdateDelivery, Hooks!Become
  <2>3. v2' = v2 \/ (v4[c].id \in DOMAIN v2
                     /\ v2' = [v2 EXCEPT ![v4[c].id] = Hooks!Outcome(v4[c].ok)])
    BY <1>9 DEF Hooks!UpdateDelivery
  <2>4. v1 = None => v2' = v2
    BY <1>0, <2>3 DEF DeliveryInv
  <2>5. TestInv'
    BY <1>0, <2>2, TestsStayApart
  <2>6. ASSUME NEW d \in DOMAIN v2'
        PROVE  /\ v2'[d] = Pending \/ \E ok \in BOOLEAN : v2'[d] = Hooks!Outcome(ok)
               /\ v2'[d].status = "sent" => \E r \in v3' : r[1] = d
    <3>1. CASE d \in DOMAIN v2 /\ v2'[d] = v2[d]
      BY <1>0, <2>2, <3>1 DEF HooksTyped, DeliveryInv
    <3>2. CASE d = v4[c].id /\ v2'[d] = Hooks!Outcome(v4[c].ok)
      <4>1. v4[c].ok \in BOOLEAN
        BY <2>1 DEF HookOutcomes
      <4>2. v2'[d].status = "sent" => v4[c].ok
        BY <3>2, <4>1 DEF Hooks!Outcome
      <4>3. v4[c].ok => \E r \in v3 : r[1] = v4[c].id
        BY <1>0, <2>1 DEF TestInv, Testing
      <4> QED  BY <2>2, <3>2, <4>1, <4>2, <4>3
    <3> QED  BY <2>3, <2>6, <3>1, <3>2
  <2> QED  BY <1>0, <1>01, <2>2, <2>4, <2>5, <2>6, HooksTests
<1>10. ASSUME NEW c \in Clients, Hooks!CutOff(c)
      PROVE  HooksInv'
  <2>1. v4' = [v4 EXCEPT ![c] = Hooks!Idle] /\ UNCHANGED <<v1, v2, v3, v5, v6>>
    BY <1>10 DEF Hooks!CutOff, Hooks!Become
  <2>2. Hooks!Idle.pc # "update"
    BY DEF Hooks!Idle
  <2> QED  BY <1>01, <2>1, <2>2, HooksEdits
<1> QED  BY <1>1, <1>2, <1>3, <1>4, <1>5, <1>6, <1>7, <1>8, <1>9, <1>10 DEF Hooks!Next

LEMMA HooksCardinality == \A S : Hooks!Cardinality(S) = Cardinality(S)
  BY Zenon DEF Hooks!Cardinality, Cardinality

LEMMA HooksMean == HooksInv => Hooks!TypeOK /\ Hooks!DeliveriesAreTrue
<1> SUFFICES ASSUME HooksInv PROVE Hooks!TypeOK /\ Hooks!DeliveriesAreTrue
  OBVIOUS
<1>1. \A d \in DOMAIN v2 : /\ v2[d].status \in {"pending", "sent", "failed"}
                           /\ v2[d].status = "pending" <=> v2[d].attempts = 0
  BY DEF HooksInv, HooksTyped, Pending, Hooks!Outcome
<1>2. \A d \in DOMAIN v2 : Hooks!Cardinality({r \in v3 : r[1] = d}) <= 1
  <2> TAKE d \in DOMAIN v2
  <2>1. CASE {r \in v3 : r[1] = d} = {}
    <3>1. Hooks!Cardinality({}) = 0
      BY FS_EmptySet, HooksCardinality
    <3> QED  BY <2>1, <3>1
  <2>2. ASSUME NEW s \in v3, s[1] = d PROVE Hooks!Cardinality({r \in v3 : r[1] = d}) <= 1
    <3>1. {r \in v3 : r[1] = d} = {s}
      BY <2>2 DEF HooksInv, TestInv
    <3>2. Hooks!Cardinality({s}) = 1
      BY FS_Singleton, HooksCardinality
    <3> QED  BY <3>1, <3>2
  <2> QED  BY <2>1, <2>2
<1>3. Hooks!TypeOK
  BY <1>1 DEF HooksInv, HooksTyped, Columns, Hooks!TypeOK
<1>4. v1 = None => v2 = <<>>
  BY DEF HooksInv, DeliveryInv
<1>5. \A d \in DOMAIN v2 : v2[d].status = "sent" => \E r \in v3 : r[1] = d
  BY DEF HooksInv, DeliveryInv
<1> QED  BY <1>1, <1>2, <1>3, <1>4, <1>5 DEF Hooks!DeliveriesAreTrue

LEMMA HooksLosses ==
  HooksInv /\ [Hooks!Next]_<<v1, v2, v3, v4, v5, v6>> => Hooks!EditLossStep
<1> SUFFICES ASSUME HooksInv, [Hooks!Next]_<<v1, v2, v3, v4, v5, v6>>, NEW c \in Clients,
                    v4[c].pc = "update", v4'[c].pc = "idle", v6' # v6,
                    NEW f \in Fields, v1'[f] # v1[f], v4[c].at = v6
             PROVE  f \in DOMAIN v4[c].req
  BY DEF Hooks!EditLossStep
<1>1. PICK d \in Clients : Hooks!UpdateWebhook(d) \/ Hooks!DeleteWebhook(d)
  BY DEF Hooks!Next, Hooks!GetForUpdate, Hooks!GetForDelete, Hooks!GetForTest,
     Hooks!CreateDelivery, Hooks!deliverWebhook, Hooks!UpdateDelivery, Hooks!CutOff
<1>2. v4' = [v4 EXCEPT ![d] = Hooks!Idle]
  BY <1>1 DEF Hooks!UpdateWebhook, Hooks!DeleteWebhook, Hooks!Become
<1>3. d = c
  BY <1>2 DEF HooksInv, HooksTyped
<1>4. v1 # None /\ v1' = v4[c].make
  BY <1>1, <1>3 DEF Hooks!UpdateWebhook, Hooks!DeleteWebhook
<1>5. v4[c].make = Hooks!Edited(v1, v4[c].req)
  BY <1>4 DEF HooksInv, EditInv
<1> QED  BY <1>4, <1>5 DEF Hooks!Edited

-----------------------------------------------------------------------------
(* Preferences: v1 the stored object, v2 the objects' contents, v3 the      *)
(* requests, v4 their number, v5 the number of the store's last change      *)

Settings == [Rules -> {None} \cup BOOLEAN]

PrefSaves == [pc : {"merge", "save"}, rule : Rules, value : BOOLEAN, object : Nat, read : Nat]

PrefsTyped ==
  /\ v1 \in {None} \cup DOMAIN v2 /\ v4 \in 0 .. PreferenceOps /\ v5 \in Nat
  /\ DOMAIN v2 \subseteq 1 .. v4
  /\ \A o \in DOMAIN v2 : v2[o] \in Settings
  /\ v3 \in [Clients -> {Prefs!Idle} \cup PrefSaves]

\* A save without a change of the store since its read has the stored object,
\* or, where there is none, one that is its own and says nothing else.
SaveInv ==
  \A c \in Clients : v3[c].pc \in {"merge", "save"} =>
    /\ v3[c].object \in DOMAIN v2 /\ v3[c].read <= v5
    /\ v3[c].read = v5 =>
         \/ v1 = v3[c].object
         \/ /\ v1 = None
            /\ \A r \in Rules : v2[v3[c].object][r] = None \/ (v3[c].pc = "save" /\ r = v3[c].rule)
            /\ \A d \in Clients \ {c} : v3[d].pc \in {"merge", "save"} => v3[d].object # v3[c].object

PrefsInv == PrefsTyped /\ SaveInv

LEMMA PrefsInitially == Prefs!Init => PrefsInv
  BY SurroundAssumption DEF Prefs!Init, PrefsInv, PrefsTyped, SaveInv, Prefs!Idle

LEMMA PrefsStep == PrefsInv /\ [Prefs!Next]_<<v1, v2, v3, v4, v5>> => PrefsInv'
<1> SUFFICES ASSUME PrefsInv, [Prefs!Next]_<<v1, v2, v3, v4, v5>> PROVE PrefsInv'
  OBVIOUS
<1>0. /\ PrefsTyped /\ SaveInv /\ v4 \in Nat /\ v4 <= PreferenceOps /\ PreferenceOps \in Nat
      /\ v5 \in Nat /\ v3 \in [Clients -> {Prefs!Idle} \cup PrefSaves]
      /\ v1 \in {None} \cup DOMAIN v2 /\ DOMAIN v2 \subseteq 1 .. v4 /\ DOMAIN v2 \subseteq Nat
      /\ v1 # None => v1 \in DOMAIN v2
      /\ None \notin Nat
  BY SurroundAssumption DEF PrefsInv, PrefsTyped
<1>1. CASE UNCHANGED <<v1, v2, v3, v4, v5>>
  BY <1>1 DEF PrefsInv, PrefsTyped, SaveInv
<1>2. ASSUME NEW c \in Clients, Prefs!LoadForSave(c)
      PROVE  PrefsInv'
  <2> DEFINE o == Prefs!GetPreferences(v4 + 1)
  <2>1. PICK r \in Rules, v \in BOOLEAN :
          /\ Prefs!Begin(c, [pc |-> "merge", rule |-> r, value |-> v, object |-> o, read |-> v5])
          /\ v2' = IF o \in DOMAIN v2 THEN v2 ELSE Prefs!Put(o, Prefs!Unset)
    BY <1>2 DEF Prefs!LoadForSave
  <2> DEFINE q == [pc |-> "merge", rule |-> r, value |-> v, object |-> o, read |-> v5]
  <2>2. v3' = [v3 EXCEPT ![c] = q] /\ v4' = v4 + 1 /\ v4 < PreferenceOps /\ UNCHANGED <<v1, v5>>
    BY <1>2, <2>1 DEF Prefs!Begin, Prefs!LoadForSave
  <2>3. \/ v1 = None /\ o = v4 + 1
        \/ v1 # None /\ o = v1
    BY DEF Prefs!GetPreferences
  <2>4. o \in Nat
    BY <1>0, <2>3
  <2>5. \/ v1 # None /\ v2' = v2
        \/ v1 = None /\ o \notin DOMAIN v2 /\ v2' = Prefs!Put(o, Prefs!Unset)
    BY <1>0, <2>1, <2>3
  <2>6. DOMAIN v2' = DOMAIN v2 \cup {o} /\ \A x \in DOMAIN v2 : v2'[x] = v2[x]
    BY <1>0, <2>3, <2>5 DEF Prefs!Put
  <2>7. v1 = None => v2'[o] = Prefs!Unset
    BY <2>5 DEF Prefs!Put
  <2>8. Prefs!Unset \in Settings /\ \A x \in Rules : Prefs!Unset[x] = None
    BY DEF Prefs!Unset, Settings
  <2>9. q \in PrefSaves /\ q.pc = "merge" /\ q.object = o /\ q.read = v5
    BY <1>0, <2>4 DEF PrefSaves
  <2> HIDE DEF o, q
  <2>10. PrefsTyped'
    <3>1. \A x \in DOMAIN v2' : v2'[x] \in Settings
      BY <2>3, <2>6, <2>7, <2>8, <1>0 DEF PrefsTyped
    <3>2. DOMAIN v2' \subseteq 1 .. v4'
      BY <1>0, <2>2, <2>3, <2>6
    <3>3. v3' \in [Clients -> {Prefs!Idle} \cup PrefSaves]
      BY <1>0, <2>2, <2>9
    <3>4. v4' \in 0 .. PreferenceOps
      BY <1>0, <2>2
    <3> QED  BY <1>0, <2>2, <2>6, <3>1, <3>2, <3>3, <3>4 DEF PrefsTyped
  <2>11. SaveInv'
    <3> SUFFICES ASSUME NEW d \in Clients, v3'[d].pc \in {"merge", "save"}
                 PROVE  /\ v3'[d].object \in DOMAIN v2' /\ v3'[d].read <= v5
                        /\ v3'[d].read = v5 =>
                             \/ v1 = v3'[d].object
                             \/ /\ v1 = None
                                /\ \A x \in Rules : \/ v2'[v3'[d].object][x] = None
                                                    \/ v3'[d].pc = "save" /\ x = v3'[d].rule
                                /\ \A e \in Clients \ {d} : v3'[e].pc \in {"merge", "save"} =>
                                     v3'[e].object # v3'[d].object
      BY <2>2 DEF SaveInv
    <3>0. v3'[c] = q /\ \A e \in Clients \ {c} : v3'[e] = v3[e]
      BY <1>0, <2>2
    <3>1. \A e \in Clients \ {c} : v3'[e].pc \in {"merge", "save"} =>
            v3'[e].object \in DOMAIN v2 /\ (v1 = None => v3'[e].object # o)
      BY <1>0, <2>3, <3>0 DEF SaveInv
    <3>2. CASE d = c
      <4>1. v3'[d].object \in DOMAIN v2' /\ v3'[d].read <= v5
        BY <1>0, <2>6, <2>9, <3>0, <3>2
      <4>2. v1 # None => v1 = v3'[d].object
        BY <2>3, <2>9, <3>0, <3>2
      <4>3. v1 = None => \A x \in Rules : v2'[v3'[d].object][x] = None
        BY <2>7, <2>8, <2>9, <3>0, <3>2
      <4>4. v1 = None => \A e \in Clients \ {d} : v3'[e].pc \in {"merge", "save"} =>
                           v3'[e].object # v3'[d].object
        BY <2>9, <3>0, <3>1, <3>2
      <4> QED  BY <4>1, <4>2, <4>3, <4>4
    <3>3. CASE d # c
      <4>1. v3'[d] = v3[d]
        BY <3>0, <3>3
      <4>2. /\ v3[d].object \in DOMAIN v2 /\ v3[d].read <= v5
            /\ v2'[v3[d].object] = v2[v3[d].object]
        BY <1>0, <2>6, <4>1 DEF SaveInv
      <4>3. v1 = None => v3'[c].object # v3[d].object
        BY <2>9, <3>0, <3>1, <3>3, <4>1
      <4> QED  BY <1>0, <2>6, <3>0, <4>1, <4>2, <4>3 DEF SaveInv
    <3> QED  BY <3>2, <3>3
  <2> QED  BY <2>10, <2>11 DEF PrefsInv
<1>3. ASSUME NEW c \in Clients, Prefs!Merge(c)
      PROVE  PrefsInv'
  <2>1. v3[c] \in PrefSaves /\ v3[c].pc = "merge" /\ v3[c].object \in DOMAIN v2
    BY <1>0, <1>3 DEF Prefs!Merge, Prefs!Idle, SaveInv
  <2> DEFINE o == v3[c].object
             new == [v2[o] EXCEPT ![v3[c].rule] = v3[c].value]
  <2>2. /\ v2' = Prefs!Put(o, new) /\ UNCHANGED <<v1, v4, v5>>
        /\ v3' = [v3 EXCEPT ![c].pc = "save"]
    BY <1>3 DEF Prefs!Merge
  <2>3. new \in Settings /\ \A x \in Rules : x # v3[c].rule => new[x] = v2[o][x]
    BY <1>0, <2>1 DEF PrefSaves, Settings, PrefsTyped
  <2>4. DOMAIN v2' = DOMAIN v2 /\ v2'[o] = new /\ \A x \in DOMAIN v2 : x # o => v2'[x] = v2[x]
    BY <2>1, <2>2 DEF Prefs!Put
  <2>5. [v3[c] EXCEPT !.pc = "save"] \in PrefSaves
    BY <2>1 DEF PrefSaves
  <2>6. /\ v3'[c] = [v3[c] EXCEPT !.pc = "save"] /\ v3'[c].pc = "save"
        /\ v3'[c].object = v3[c].object /\ v3'[c].read = v3[c].read /\ v3'[c].rule = v3[c].rule
        /\ \A e \in Clients \ {c} : v3'[e] = v3[e]
    BY <1>0, <2>1, <2>2 DEF PrefSaves
  <2>7. PrefsTyped'
    BY <1>0, <2>2, <2>3, <2>4, <2>5 DEF PrefsTyped
  <2> HIDE DEF o, new
  <2>8. SaveInv'
    <3> SUFFICES ASSUME NEW d \in Clients, v3'[d].pc \in {"merge", "save"}
                 PROVE  /\ v3'[d].object \in DOMAIN v2' /\ v3'[d].read <= v5
                        /\ v3'[d].read = v5 =>
                             \/ v1 = v3'[d].object
                             \/ /\ v1 = None
                                /\ \A x \in Rules : \/ v2'[v3'[d].object][x] = None
                                                    \/ v3'[d].pc = "save" /\ x = v3'[d].rule
                                /\ \A e \in Clients \ {d} : v3'[e].pc \in {"merge", "save"} =>
                                     v3'[e].object # v3'[d].object
      BY <2>2 DEF SaveInv
    <3>1. /\ v3[d].pc \in {"merge", "save"} /\ v3'[d].object = v3[d].object
          /\ v3'[d].read = v3[d].read /\ v3'[d].rule = v3[d].rule
      BY <2>1, <2>6
    <3>2. v3[d].object \in DOMAIN v2' /\ v3[d].read <= v5
      BY <1>0, <2>4, <3>1 DEF SaveInv
    <3>3. \A e \in Clients : /\ v3'[e].pc \in {"merge", "save"} => v3[e].pc \in {"merge", "save"}
                             /\ v3'[e].object = v3[e].object
      BY <2>1, <2>6
    <3>4. ASSUME v3[d].read = v5, v1 # v3[d].object
          PROVE  /\ v1 = None
                 /\ \A x \in Rules : \/ v2'[v3[d].object][x] = None
                                     \/ v3'[d].pc = "save" /\ x = v3[d].rule
                 /\ \A e \in Clients \ {d} : v3'[e].pc \in {"merge", "save"} =>
                      v3[e].object # v3[d].object
      <4>1. /\ v1 = None
            /\ \A x \in Rules : \/ v2[v3[d].object][x] = None
                                \/ v3[d].pc = "save" /\ x = v3[d].rule
            /\ \A e \in Clients \ {d} : v3[e].pc \in {"merge", "save"} =>
                 v3[e].object # v3[d].object
        BY <1>0, <3>1, <3>4 DEF SaveInv
      <4>2. CASE d = c
        <5>1. v3[d].object = o /\ v3[d].pc = "merge" /\ v3[d].rule = v3[c].rule /\ v3'[d].pc = "save"
          BY <2>1, <2>6, <4>2 DEF o
        <5>2. \A x \in Rules : v2[o][x] = None
          BY <4>1, <5>1
        <5>3. \A x \in Rules : x # v3[d].rule => v2'[o][x] = None
          BY <2>3, <2>4, <5>1, <5>2
        <5> QED  BY <3>3, <4>1, <5>1, <5>3
      <4>3. CASE d # c
        <5>1. v3[d].object # o
          BY <2>1, <4>1, <4>3 DEF o
        <5>2. v2'[v3[d].object] = v2[v3[d].object] /\ v3'[d] = v3[d]
          BY <2>4, <2>6, <3>2, <4>3, <5>1
        <5>3. \A e \in Clients \ {d} : v3'[e].pc \in {"merge", "save"} => v3[e].object # v3[d].object
          BY <3>3, <4>1
        <5> QED  BY <4>1, <5>2, <5>3
      <4> QED  BY <4>2, <4>3
    <3> QED  BY <3>1, <3>2, <3>3, <3>4
  <2> QED  BY <2>7, <2>8 DEF PrefsInv
<1>4. ASSUME NEW c \in Clients, Prefs!SavePreferences(c)
      PROVE  PrefsInv'
  <2>1. v3[c] \in PrefSaves /\ v3[c].object \in DOMAIN v2
    BY <1>0, <1>4 DEF Prefs!SavePreferences, Prefs!Idle, SaveInv
  <2>2. /\ v1' = v3[c].object /\ v5' = (IF v1' = v1 THEN v5 ELSE v5 + 1) /\ UNCHANGED <<v2, v4>>
        /\ v3' = [v3 EXCEPT ![c] = Prefs!Idle]
    BY <1>4 DEF Prefs!SavePreferences
  <2>3. PrefsTyped'
    BY <1>0, <2>1, <2>2 DEF PrefsTyped
  <2>4. SaveInv'
    <3> SUFFICES ASSUME NEW d \in Clients, v3'[d].pc \in {"merge", "save"}
                 PROVE  /\ v3'[d].object \in DOMAIN v2 /\ v3'[d].read <= v5'
                        /\ v3'[d].read = v5' => v1' = v3'[d].object
      BY <2>2 DEF SaveInv
    <3>1. v3'[d] = v3[d] /\ v3[d] \in PrefSaves
      BY <1>0, <2>2 DEF Prefs!Idle
    <3>2. v3[d].object \in DOMAIN v2 /\ v3[d].read <= v5 /\ v3[d].read \in Nat
      BY <1>0, <3>1 DEF SaveInv, PrefSaves
    <3>3. v3[d].read = v5' => v1 = v1' /\ v5' = v5
      BY <1>0, <2>2, <3>2
    <3>4. v1 = v1' => v1 # None
      BY <1>0, <2>1, <2>2
    <3> QED  BY <1>0, <2>2, <3>1, <3>2, <3>3, <3>4 DEF SaveInv
  <2> QED  BY <2>3, <2>4 DEF PrefsInv
<1>5. ASSUME NEW c \in Clients, Prefs!resetPreferences(c)
      PROVE  PrefsInv'
  <2>1. /\ v1' = None /\ v5' = (IF v1' = v1 THEN v5 ELSE v5 + 1) /\ v2' = v2 /\ v4' = v4 + 1
        /\ v4 < PreferenceOps /\ v3[c].pc = "idle" /\ v3' = [v3 EXCEPT ![c] = Prefs!Idle]
    BY <1>5 DEF Prefs!resetPreferences, Prefs!Begin
  <2>2. PrefsTyped'
    BY <1>0, <2>1 DEF PrefsTyped
  <2>3. SaveInv'
    <3> SUFFICES ASSUME NEW d \in Clients, v3'[d].pc \in {"merge", "save"}
                 PROVE  /\ v3'[d] = v3[d] /\ v3[d].read <= v5'
                        /\ v3[d].read = v5' => v1' = v1 /\ v5' = v5
      BY <1>0, <2>1 DEF SaveInv, Prefs!Idle
    <3>1. v3'[d] = v3[d] /\ v3[d] \in PrefSaves
      BY <1>0, <2>1 DEF Prefs!Idle
    <3>2. v3[d].read <= v5 /\ v3[d].read \in Nat
      BY <1>0, <3>1 DEF SaveInv, PrefSaves
    <3> QED  BY <1>0, <2>1, <3>1, <3>2
  <2> QED  BY <2>2, <2>3 DEF PrefsInv
<1>6. CASE Prefs!Restart
  BY <1>0, <1>6 DEF Prefs!Restart, PrefsInv, PrefsTyped, SaveInv, Prefs!Idle
<1> QED  BY <1>1, <1>2, <1>3, <1>4, <1>5, <1>6 DEF Prefs!Next

LEMMA PrefsMean == PrefsInv => Prefs!TypeOK
  BY DEF PrefsInv, PrefsTyped, Settings, Prefs!TypeOK

LEMMA PrefsLosses ==
  PrefsInv /\ [Prefs!Next]_<<v1, v2, v3, v4, v5>> => Prefs!SaveLossStep
<1> SUFFICES ASSUME PrefsInv, [Prefs!Next]_<<v1, v2, v3, v4, v5>>, NEW c \in Clients,
                    v3[c].pc = "save", v3'[c].pc = "idle", v1' = v3[c].object, v3[c].read = v5,
                    NEW r \in Rules \ {v3[c].rule}
             PROVE  Prefs!buildEventRouting'[r] = Prefs!buildEventRouting[r]
  BY DEF Prefs!SaveLossStep
<1>1. v3[c].object \in DOMAIN v2 /\ v3[c].object # None
  BY SurroundAssumption DEF PrefsInv, PrefsTyped, SaveInv
<1>2. Prefs!SavePreferences(c)
  <2>1. PICK d \in Clients :
          Prefs!LoadForSave(d) \/ Prefs!Merge(d) \/ Prefs!SavePreferences(d)
    BY <1>1 DEF Prefs!Next, Prefs!Restart, Prefs!resetPreferences
  <2>2. d = c
    BY <2>1 DEF Prefs!LoadForSave, Prefs!Begin, Prefs!Merge, Prefs!SavePreferences, PrefsInv, PrefsTyped
  <2>3. ~Prefs!LoadForSave(c) /\ ~Prefs!Merge(c)
    BY DEF Prefs!LoadForSave, Prefs!Begin, Prefs!Merge
  <2> QED  BY <2>1, <2>2, <2>3
<1>3. v2' = v2
  BY <1>2 DEF Prefs!SavePreferences
<1>4. Prefs!buildEventRouting' = v2[v3[c].object]
  BY <1>1, <1>3 DEF Prefs!buildEventRouting
<1>5. CASE v1 = v3[c].object
  BY <1>1, <1>4, <1>5 DEF Prefs!buildEventRouting
<1>6. CASE v1 = None /\ \A x \in Rules : v2[v3[c].object][x] = None \/ x = v3[c].rule
  BY <1>4, <1>6 DEF Prefs!buildEventRouting, Prefs!Unset
<1> QED  BY <1>5, <1>6 DEF PrefsInv, SaveInv

-----------------------------------------------------------------------------
(* Credentials                                                              *)

Scopes == {{"admin"}} \cup ScopeSets
KeyRow == [live : BOOLEAN, scopes : Scopes, from : {None} \cup Nat, doubled : BOOLEAN, cut : BOOLEAN]
TokenRow == [from : {None} \cup Nat, doubled : BOOLEAN]
UserRow == [name : {"old", "new"}, login : {"never", "now"}]

\* The requests between their statements.
CredRequests ==
  {Creds!Idle}
  \cup [pc : {"generate"}, scopes : Scopes, from : {None} \cup Nat, doubled : BOOLEAN]
  \cup [pc : {"retire", "revoke"}, from : Nat]
  \cup [pc : {"pair"}, token : Nat, failed : BOOLEAN]
  \cup [pc : {"forget", "extend"}]
  \cup [pc : {"login", "profile"}, row : UserRow]

CredsTyped ==
  /\ v1 \in Seq(KeyRow) /\ v2 \in Seq(TokenRow)
  /\ v3 \subseteq DOMAIN v2 /\ v4 \in {"live", "gone", "revived"} /\ v5 \in UserRow
  /\ v6 \in [Clients -> CredRequests]
  /\ v8 \subseteq ({"key"} \X DOMAIN v1) \cup ({"token"} \X DOMAIN v2)

\* A successor is younger, and a request names rows that are there.
NamesRows ==
  /\ \A k \in DOMAIN v1 : v1[k].from = None \/ v1[k].from \in 1 .. k - 1
  /\ \A t \in DOMAIN v2 : v2[t].from = None \/ v2[t].from \in 1 .. t - 1
  /\ \A c \in Clients :
       /\ v6[c].pc = "generate" => v6[c].from = None \/ v6[c].from \in DOMAIN v1
       /\ v6[c].pc \in {"retire", "revoke"} => v6[c].from \in DOMAIN v1
       /\ v6[c].pc = "pair" => v6[c].token \in DOMAIN v2

\* A key that has a successor and is still live is about to be retired, or was
\* to be; whoever is about to mint another successor knows of that.
KeysInv ==
  /\ \A k \in DOMAIN v1 : <<"key", k>> \in v8 => ~v1[k].live
  /\ \A k \in DOMAIN v1 : v1[k].from # None /\ v1[v1[k].from].live =>
       v1[v1[k].from].cut \/ \E c \in Clients : v6[c].pc = "retire" /\ v6[c].from = v1[k].from
  /\ \A k \in DOMAIN v1, c \in Clients :
       v1[k].from # None /\ v6[c].pc = "generate" /\ v6[c].from = v1[k].from =>
         v1[k].doubled \/ v6[c].doubled \/ v1[v1[k].from].cut
  /\ \A j, k \in DOMAIN v1 : j < k /\ v1[j].from # None /\ v1[j].from = v1[k].from =>
       v1[j].doubled \/ v1[k].doubled \/ v1[v1[j].from].cut

\* A token that was traded without another request or an error in the way is on
\* the list; whoever is about to trade it again did not see the list.
TokensInv ==
  /\ \A t \in DOMAIN v2 : v2[t].from # None => v2[t].doubled \/ v2[t].from \in v3
  /\ \A t \in DOMAIN v2, c \in Clients :
       v2[t].from # None /\ v6[c].pc = "pair" /\ v6[c].token = v2[t].from =>
         v2[t].doubled \/ v6[c].failed
  /\ \A s, t \in DOMAIN v2 : s < t /\ v2[s].from # None /\ v2[s].from = v2[t].from =>
       v2[s].doubled \/ v2[t].doubled

CredsInv == CredsTyped /\ NamesRows /\ KeysInv /\ TokensInv

LEMMA CredsInitially == Creds!Init => CredsInv
<1> SUFFICES ASSUME Creds!Init PROVE CredsInv
  OBVIOUS
<1> DEFINE key == [live |-> TRUE, scopes |-> {"admin"}, from |-> None, doubled |-> FALSE, cut |-> FALSE]
           token == [from |-> None, doubled |-> FALSE]
<1>1. v1 = <<key>> /\ v2 = <<token>> /\ v3 = {} /\ v4 = "live" /\ v8 = {}
  BY DEF Creds!Init
<1>2. key \in KeyRow /\ token \in TokenRow /\ key.from = None /\ token.from = None
  BY DEF KeyRow, TokenRow, Scopes
<1> HIDE DEF key, token
<1>3. v5 \in UserRow /\ v6 \in [Clients -> CredRequests] /\ \A c \in Clients : v6[c].pc = "idle"
  BY DEF Creds!Init, UserRow, CredRequests, Creds!Idle
<1>4. v1 \in Seq(KeyRow) /\ v2 \in Seq(TokenRow)
  BY <1>1, <1>2
<1>5. /\ \A k \in DOMAIN v1 : v1[k].from = None
      /\ \A k \in DOMAIN v2 : v2[k].from = None
  BY <1>1, <1>2
<1>6. CredsTyped
  BY <1>1, <1>3, <1>4 DEF CredsTyped
<1>7. NamesRows
  BY <1>3, <1>5 DEF NamesRows
<1>8. KeysInv
  BY <1>1, <1>3, <1>5 DEF KeysInv
<1>9. TokensInv
  BY <1>1, <1>3, <1>5 DEF TokensInv
<1> QED  BY <1>6, <1>7, <1>8, <1>9 DEF CredsInv

\* A step that mints, retires and trades nothing, and ends no rotation.
LEMMA CredsQuiet ==
  ASSUME CredsInv, NEW c \in Clients, NEW q \in CredRequests,
         q.pc \notin {"generate", "retire", "revoke", "pair"}, v6[c].pc # "retire",
         v6' = [v6 EXCEPT ![c] = q], UNCHANGED <<v1, v2>>,
         v3 \subseteq v3', v3' \subseteq DOMAIN v2, v4' \in {"live", "gone", "revived"},
         v5' \in UserRow, \/ v8' = v8
                          \/ \E t \in DOMAIN v2 : v8' = v8 \cup {<<"token", t>>}
  PROVE  CredsInv'
<1>0. CredsTyped /\ NamesRows /\ KeysInv /\ TokensInv /\ v6 \in [Clients -> CredRequests]
  BY DEF CredsInv, CredsTyped
<1>1. v6'[c] = q /\ \A d \in Clients \ {c} : v6'[d] = v6[d]
  BY <1>0
<1>2. CredsTyped'
  BY <1>0 DEF CredsTyped
<1>3. \A k : <<"key", k>> \in v8' => <<"key", k>> \in v8
  BY <1>0
<1>4. NamesRows'
  BY <1>0, <1>1 DEF NamesRows
<1>5. KeysInv'
  BY <1>0, <1>1, <1>3 DEF KeysInv
<1>6. TokensInv'
  BY <1>0, <1>1 DEF TokensInv
<1> QED  BY <1>2, <1>4, <1>5, <1>6 DEF CredsInv

\* Minting a key: the successor of the key its request was to rotate.
LEMMA CredsMints ==
  ASSUME CredsInv, NEW c \in Clients, Creds!GenerateKey(c)
  PROVE  CredsInv'
<1> DEFINE k == v6[c].from
           n == Len(v1) + 1
           key == [live |-> TRUE, scopes |-> v6[c].scopes, from |-> k,
                   doubled |-> v6[c].doubled \/ Creds!Rotating(c, k), cut |-> FALSE]
           next == IF k = None THEN Creds!Idle ELSE [pc |-> "retire", from |-> k]
<1>0. CredsTyped /\ NamesRows /\ KeysInv /\ TokensInv /\ None \notin Nat
      /\ v6 \in [Clients -> CredRequests] /\ v1 \in Seq(KeyRow)
  BY SurroundAssumption DEF CredsInv, CredsTyped
<1>1. /\ v6[c].pc = "generate" /\ v1' = Append(v1, key)
      /\ v6' = [v6 EXCEPT ![c] = next] /\ UNCHANGED <<v2, v3, v4, v5, v8>>
  BY DEF Creds!GenerateKey, Creds!Become
<1>2. /\ v6[c] \in [pc : {"generate"}, scopes : Scopes, from : {None} \cup Nat, doubled : BOOLEAN]
      /\ k # None => k \in DOMAIN v1 /\ k \in Nat
  BY <1>0, <1>1 DEF CredRequests, Creds!Idle, NamesRows
<1>3. Creds!Rotating(c, k) \in BOOLEAN
  BY DEF Creds!Rotating
<1>4. /\ key \in KeyRow /\ key.live /\ key.from = k
      /\ key.doubled = (v6[c].doubled \/ Creds!Rotating(c, k))
  BY <1>2, <1>3 DEF KeyRow
<1>5. next \in CredRequests
  BY <1>2 DEF CredRequests
<1>6. /\ k = None => next.pc = "idle"
      /\ k # None => next.pc = "retire" /\ next.from = k
  BY DEF Creds!Idle
<1> HIDE DEF key, next
<1>7. /\ v1' \in Seq(KeyRow) /\ Len(v1') = n /\ DOMAIN v1' = DOMAIN v1 \cup {n}
      /\ v1'[n] = key /\ \A j \in DOMAIN v1 : v1'[j] = v1[j]
      /\ n \notin DOMAIN v1 /\ n \in Nat /\ DOMAIN v1 = 1 .. n - 1
  BY <1>0, <1>1, <1>4
<1>8. v6'[c] = next /\ (\A d \in Clients \ {c} : v6'[d] = v6[d]) /\ v6' \in [Clients -> CredRequests]
  BY <1>0, <1>1, <1>5
<1>9. CredsTyped'
  <2>1. v8 \subseteq ({"key"} \X DOMAIN v1') \cup ({"token"} \X DOMAIN v2)
    BY <1>0, <1>7 DEF CredsTyped
  <2> QED  BY <1>0, <1>1, <1>7, <1>8, <2>1 DEF CredsTyped
<1>10. NamesRows'
  <2>1. \A j \in DOMAIN v1' : v1'[j].from = None \/ v1'[j].from \in 1 .. j - 1
    BY <1>0, <1>2, <1>4, <1>7 DEF NamesRows
  <2>2. \A d \in Clients :
          /\ v6'[d].pc = "generate" => v6'[d].from = None \/ v6'[d].from \in DOMAIN v1'
          /\ v6'[d].pc \in {"retire", "revoke"} => v6'[d].from \in DOMAIN v1'
          /\ v6'[d].pc = "pair" => v6'[d].token \in DOMAIN v2
    BY <1>0, <1>2, <1>6, <1>7, <1>8 DEF NamesRows
  <2> QED  BY <1>0, <1>1, <2>1, <2>2 DEF NamesRows
<1>11. KeysInv'
  <2>0. \A j \in DOMAIN v1 : v1[j].from # None => v1[j].from \in DOMAIN v1 /\ v1[j].from # n
    BY <1>0, <1>7 DEF NamesRows
  <2>1. \A j \in DOMAIN v1' : <<"key", j>> \in v8' => ~v1'[j].live
    <3>1. <<"key", n>> \notin v8
      BY <1>0, <1>7 DEF CredsTyped
    <3> QED  BY <1>0, <1>1, <1>7, <3>1 DEF KeysInv
  <2>2. ASSUME NEW j \in DOMAIN v1', v1'[j].from # None, v1'[v1'[j].from].live
        PROVE  \/ v1'[v1'[j].from].cut
               \/ \E d \in Clients : v6'[d].pc = "retire" /\ v6'[d].from = v1'[j].from
    <3>1. CASE j = n
      BY <1>4, <1>6, <1>7, <1>8, <2>2, <3>1
    <3>2. CASE j \in DOMAIN v1
      <4>1. /\ v1[j].from # None /\ v1[v1[j].from].live /\ v1'[v1'[j].from] = v1[v1[j].from]
            /\ v1'[j].from = v1[j].from
        BY <1>7, <2>0, <2>2, <3>2
      <4>2. ASSUME NEW d \in Clients, v6[d].pc = "retire", v6[d].from = v1[j].from
            PROVE  v6'[d].pc = "retire" /\ v6'[d].from = v1[j].from
        BY <1>1, <1>8, <4>2
      <4> QED  BY <1>0, <3>2, <4>1, <4>2 DEF KeysInv
    <3> QED  BY <1>7, <3>1, <3>2
  <2>3. ASSUME NEW j \in DOMAIN v1', NEW d \in Clients,
               v1'[j].from # None, v6'[d].pc = "generate", v6'[d].from = v1'[j].from
        PROVE  v1'[j].doubled \/ v6'[d].doubled \/ v1'[v1'[j].from].cut
    <3>1. d # c /\ v6'[d] = v6[d]
      BY <1>6, <1>8, <2>3
    <3>2. CASE j = n
      <4>1. Creds!Rotating(c, k)
        BY <1>4, <1>7, <2>3, <3>1, <3>2 DEF Creds!Rotating
      <4> QED  BY <1>4, <1>7, <3>2, <4>1
    <3>3. CASE j \in DOMAIN v1
      BY <1>0, <1>7, <2>0, <2>3, <3>1, <3>3 DEF KeysInv
    <3> QED  BY <1>7, <3>2, <3>3
  <2>4. ASSUME NEW i \in DOMAIN v1', NEW j \in DOMAIN v1', i < j,
               v1'[i].from # None, v1'[i].from = v1'[j].from
        PROVE  v1'[i].doubled \/ v1'[j].doubled \/ v1'[v1'[i].from].cut
    <3>1. i \in DOMAIN v1
      BY <1>7, <2>4
    <3>2. CASE j = n
      <4>1. v1'[i] = v1[i] /\ v1[i].from = k /\ k # None /\ v1'[k] = v1[k]
        BY <1>4, <1>7, <2>0, <2>4, <3>1, <3>2
      <4>2. v1[i].doubled \/ v6[c].doubled \/ v1[k].cut
        BY <1>0, <1>1, <3>1, <4>1 DEF KeysInv
      <4> QED  BY <1>4, <1>7, <3>2, <4>1, <4>2
    <3>3. CASE j \in DOMAIN v1
      BY <1>0, <1>7, <2>0, <2>4, <3>1, <3>3 DEF KeysInv
    <3> QED  BY <1>7, <3>2, <3>3
  <2> QED  BY <2>1, <2>2, <2>3, <2>4 DEF KeysInv
<1>12. TokensInv'
  BY <1>0, <1>1, <1>6, <1>8 DEF TokensInv
<1> QED  BY <1>9, <1>10, <1>11, <1>12 DEF CredsInv

\* Trading a token: the next one knows of whoever trades the same.
LEMMA CredsTrades ==
  ASSUME CredsInv, NEW c \in Clients, Creds!BlacklistToken(c)
  PROVE  CredsInv'
<1> DEFINE t == v6[c].token
           n == Len(v2) + 1
           others == \E d \in Clients \ {c} : v6[d].pc = "pair" /\ v6[d].token = t
<1>0. CredsTyped /\ NamesRows /\ KeysInv /\ TokensInv /\ None \notin Nat
      /\ v6 \in [Clients -> CredRequests] /\ v2 \in Seq(TokenRow)
  BY SurroundAssumption DEF CredsInv, CredsTyped
<1>1. PICK fails \in BOOLEAN :
        /\ v3' = IF fails THEN v3 ELSE v3 \cup {t}
        /\ v2' = Append(v2, [from |-> t, doubled |-> fails \/ v6[c].failed \/ others])
        /\ v8' = IF fails THEN v8 ELSE v8 \cup {<<"token", t>>}
  BY DEF Creds!BlacklistToken
<1> DEFINE token == [from |-> t, doubled |-> fails \/ v6[c].failed \/ others]
<1>2. v6[c].pc = "pair" /\ v6' = [v6 EXCEPT ![c] = Creds!Idle] /\ UNCHANGED <<v1, v4, v5>>
  BY DEF Creds!BlacklistToken, Creds!Become
<1>3. /\ v6[c] \in [pc : {"pair"}, token : Nat, failed : BOOLEAN]
      /\ t \in DOMAIN v2 /\ t \in Nat
  BY <1>0, <1>2 DEF CredRequests, Creds!Idle, NamesRows
<1>4. /\ token \in TokenRow /\ token.from = t /\ token.from # None
      /\ token.doubled = (fails \/ v6[c].failed \/ others)
  BY <1>0, <1>3 DEF TokenRow
<1>5. v2' = Append(v2, token)
  BY <1>1
<1> HIDE DEF token
<1>6. /\ v2' \in Seq(TokenRow) /\ DOMAIN v2' = DOMAIN v2 \cup {n}
      /\ v2'[n] = token /\ \A j \in DOMAIN v2 : v2'[j] = v2[j]
      /\ n \notin DOMAIN v2 /\ n \in Nat /\ DOMAIN v2 = 1 .. n - 1
  BY <1>0, <1>4, <1>5
<1>7. /\ v6'[c] = Creds!Idle /\ v6'[c].pc = "idle" /\ \A d \in Clients \ {c} : v6'[d] = v6[d]
      /\ v6' \in [Clients -> CredRequests]
  BY <1>0, <1>2 DEF Creds!Idle, CredRequests
<1>8. v3 \subseteq v3' /\ v3' \subseteq v3 \cup {t} /\ (~fails => t \in v3')
  BY <1>1
<1>9. CredsTyped'
  <2>1. v8' \subseteq ({"key"} \X DOMAIN v1) \cup ({"token"} \X DOMAIN v2')
    BY <1>0, <1>1, <1>3, <1>6 DEF CredsTyped
  <2> QED  BY <1>0, <1>2, <1>3, <1>6, <1>7, <1>8, <2>1 DEF CredsTyped
<1>10. NamesRows'
  <2>1. \A j \in DOMAIN v2' : v2'[j].from = None \/ v2'[j].from \in 1 .. j - 1
    BY <1>0, <1>3, <1>4, <1>6 DEF NamesRows
  <2> QED  BY <1>0, <1>2, <1>6, <1>7, <2>1 DEF NamesRows
<1>11. KeysInv'
  <2>1. \A k : <<"key", k>> \in v8' => <<"key", k>> \in v8
    BY <1>1
  <2> QED  BY <1>0, <1>2, <1>7, <2>1 DEF KeysInv
<1>12. TokensInv'
  <2>1. ASSUME NEW j \in DOMAIN v2', v2'[j].from # None
        PROVE  v2'[j].doubled \/ v2'[j].from \in v3'
    BY <1>0, <1>4, <1>6, <1>8, <2>1 DEF TokensInv
  <2>2. ASSUME NEW j \in DOMAIN v2', NEW d \in Clients,
               v2'[j].from # None, v6'[d].pc = "pair", v6'[d].token = v2'[j].from
        PROVE  v2'[j].doubled \/ v6'[d].failed
    <3>1. d # c /\ v6'[d] = v6[d]
      BY <1>7, <2>2
    <3>2. CASE j = n
      <4>1. others
        BY <1>4, <1>6, <2>2, <3>1, <3>2
      <4> QED  BY <1>4, <1>6, <3>2, <4>1
    <3>3. CASE j \in DOMAIN v2
      BY <1>0, <1>6, <2>2, <3>1, <3>3 DEF TokensInv
    <3> QED  BY <1>6, <3>2, <3>3
  <2>3. ASSUME NEW i \in DOMAIN v2', NEW j \in DOMAIN v2', i < j,
               v2'[i].from # None, v2'[i].from = v2'[j].from
        PROVE  v2'[i].doubled \/ v2'[j].doubled
    <3>1. i \in DOMAIN v2
      BY <1>6, <2>3
    <3>2. CASE j = n
      BY <1>0, <1>2, <1>4, <1>6, <2>3, <3>1, <3>2 DEF TokensInv
    <3>3. CASE j \in DOMAIN v2
      BY <1>0, <1>6, <2>3, <3>1, <3>3 DEF TokensInv
    <3> QED  BY <1>6, <3>2, <3>3
  <2> QED  BY <2>1, <2>2, <2>3 DEF TokensInv
<1> QED  BY <1>9, <1>10, <1>11, <1>12 DEF CredsInv

\* A key that is retired or revoked is dead; retiring ends a rotation.
LEMMA CredsRetires ==
  ASSUME CredsInv, NEW c \in Clients, Creds!RevokeKey(c) \/ Creds!RotateKey(c)
  PROVE  CredsInv'
<1> DEFINE k == v6[c].from
<1>0. CredsTyped /\ NamesRows /\ KeysInv /\ TokensInv /\ None \notin Nat
      /\ v6 \in [Clients -> CredRequests] /\ v1 \in Seq(KeyRow)
  BY SurroundAssumption DEF CredsInv, CredsTyped
<1>1. /\ v6[c].pc \in {"revoke", "retire"} /\ v1' = [v1 EXCEPT ![k].live = FALSE]
      /\ v6' = [v6 EXCEPT ![c] = Creds!Idle] /\ v8' = v8 \cup {<<"key", k>>}
      /\ UNCHANGED <<v2, v3, v4, v5>>
  BY DEF Creds!RevokeKey, Creds!RotateKey, Creds!Become
<1>2. k \in DOMAIN v1
  BY <1>0, <1>1 DEF NamesRows
<1>3. /\ v1' \in Seq(KeyRow) /\ DOMAIN v1' = DOMAIN v1 /\ ~v1'[k].live
      /\ \A j \in DOMAIN v1 : j # k => v1'[j] = v1[j]
      /\ \A j \in DOMAIN v1 : /\ v1'[j].from = v1[j].from /\ v1'[j].doubled = v1[j].doubled
                              /\ v1'[j].cut = v1[j].cut
  <2> DEFINE kept == [v1[k] EXCEPT !.live = FALSE]
  <2>1. v1[k] \in KeyRow
    BY <1>0, <1>2
  <2>2. /\ kept \in KeyRow /\ ~kept.live /\ kept.from = v1[k].from
        /\ kept.doubled = v1[k].doubled /\ kept.cut = v1[k].cut
    BY <2>1 DEF KeyRow
  <2>3. v1' = [v1 EXCEPT ![k] = kept]
    BY <1>1
  <2> HIDE DEF kept
  <2> QED  BY <1>0, <1>2, <2>2, <2>3
<1>4. /\ v6'[c].pc = "idle" /\ \A d \in Clients \ {c} : v6'[d] = v6[d]
      /\ v6' \in [Clients -> CredRequests]
  BY <1>0, <1>1 DEF Creds!Idle, CredRequests
<1>5. CredsTyped'
  <2>1. v8' \subseteq ({"key"} \X DOMAIN v1') \cup ({"token"} \X DOMAIN v2)
    BY <1>0, <1>1, <1>2, <1>3 DEF CredsTyped
  <2> QED  BY <1>0, <1>1, <1>3, <1>4, <2>1 DEF CredsTyped
<1>6. NamesRows'
  BY <1>0, <1>1, <1>3, <1>4 DEF NamesRows
<1>7. KeysInv'
  <2>0. \A j \in DOMAIN v1 : v1[j].from # None => v1[j].from \in DOMAIN v1
    BY <1>0 DEF NamesRows
  <2>1. \A j \in DOMAIN v1' : <<"key", j>> \in v8' => ~v1'[j].live
    BY <1>0, <1>1, <1>2, <1>3 DEF KeysInv
  <2>2. ASSUME NEW j \in DOMAIN v1', v1'[j].from # None, v1'[v1'[j].from].live
        PROVE  \/ v1'[v1'[j].from].cut
               \/ \E d \in Clients : v6'[d].pc = "retire" /\ v6'[d].from = v1'[j].from
    <3>1. /\ j \in DOMAIN v1 /\ v1[j].from # None /\ v1'[j].from = v1[j].from
          /\ v1[j].from # k /\ v1[j].from \in DOMAIN v1 /\ v1'[v1[j].from] = v1[v1[j].from]
      BY <1>3, <2>0, <2>2
    <3>2. \/ v1[v1[j].from].cut
          \/ \E d \in Clients : v6[d].pc = "retire" /\ v6[d].from = v1[j].from
      BY <1>0, <2>2, <3>1 DEF KeysInv
    <3>3. ASSUME NEW d \in Clients, v6[d].pc = "retire", v6[d].from = v1[j].from
          PROVE  v6'[d].pc = "retire" /\ v6'[d].from = v1[j].from
      BY <1>4, <3>1, <3>3
    <3> QED  BY <3>1, <3>2, <3>3
  <2>3. ASSUME NEW j \in DOMAIN v1', NEW d \in Clients,
               v1'[j].from # None, v6'[d].pc = "generate", v6'[d].from = v1'[j].from
        PROVE  v1'[j].doubled \/ v6'[d].doubled \/ v1'[v1'[j].from].cut
    <3>1. /\ j \in DOMAIN v1 /\ v1'[j].from = v1[j].from /\ v1'[j].doubled = v1[j].doubled
          /\ v1[j].from \in DOMAIN v1 /\ v1'[v1[j].from].cut = v1[v1[j].from].cut
      BY <1>3, <2>0, <2>3
    <3>2. v6'[d] = v6[d]
      BY <1>4, <2>3
    <3> QED  BY <1>0, <2>3, <3>1, <3>2 DEF KeysInv
  <2>4. ASSUME NEW i \in DOMAIN v1', NEW j \in DOMAIN v1', i < j,
               v1'[i].from # None, v1'[i].from = v1'[j].from
        PROVE  v1'[i].doubled \/ v1'[j].doubled \/ v1'[v1'[i].from].cut
    <3>1. /\ i \in DOMAIN v1 /\ j \in DOMAIN v1 /\ v1'[i].from = v1[i].from
          /\ v1'[j].from = v1[j].from /\ v1'[i].doubled = v1[i].doubled
          /\ v1'[j].doubled = v1[j].doubled
          /\ v1[i].from \in DOMAIN v1 /\ v1'[v1[i].from].cut = v1[v1[i].from].cut
      BY <1>3, <2>0, <2>4
    <3> QED  BY <1>0, <2>4, <3>1 DEF KeysInv
  <2> QED  BY <2>1, <2>2, <2>3, <2>4 DEF KeysInv
<1>8. TokensInv'
  BY <1>0, <1>1, <1>4 DEF TokensInv
<1> QED  BY <1>5, <1>6, <1>7, <1>8 DEF CredsInv

\* The beginning of a request on a key: minting, rotating or revoking.
LEMMA CredsBegins ==
  ASSUME CredsInv, NEW c \in Clients,
         Creds!createAPIKey(c) \/ Creds!rotateAPIKey(c) \/ Creds!revokeAPIKey(c)
  PROVE  CredsInv'
<1>0. CredsTyped /\ NamesRows /\ KeysInv /\ TokensInv /\ None \notin Nat
      /\ v6 \in [Clients -> CredRequests] /\ v1 \in Seq(KeyRow)
  BY SurroundAssumption DEF CredsInv, CredsTyped
<1>1. PICK q : /\ v6[c].pc = "idle" /\ v6' = [v6 EXCEPT ![c] = q]
               /\ UNCHANGED <<v1, v2, v3, v4, v5, v8>>
               /\ \/ q = Creds!Idle
                  \/ \E s \in ScopeSets :
                       q = [pc |-> "generate", scopes |-> s, from |-> None, doubled |-> FALSE]
                  \/ \E k \in DOMAIN v1 :
                       /\ v1[k].live
                       /\ q = [pc |-> "generate", scopes |-> v1[k].scopes, from |-> k,
                               doubled |-> Creds!Rotating(c, k)]
                  \/ \E k \in DOMAIN v1 : q = [pc |-> "revoke", from |-> k]
  BY DEF Creds!createAPIKey, Creds!rotateAPIKey, Creds!revokeAPIKey, Creds!Begin, Creds!Become,
         Creds!ValidKey
<1>2. \A k : Creds!Rotating(c, k) \in BOOLEAN
  BY DEF Creds!Rotating
<1>3. /\ q \in CredRequests /\ q.pc \notin {"retire", "pair"}
      /\ q.pc = "revoke" => q.from \in DOMAIN v1
      /\ q.pc = "generate" => \/ q.from = None
                              \/ /\ q.from \in DOMAIN v1 /\ v1[q.from].live
                                 /\ q.doubled = Creds!Rotating(c, q.from)
  <2>1. CASE q = Creds!Idle
    BY <2>1 DEF Creds!Idle, CredRequests
  <2>2. ASSUME NEW s \in ScopeSets,
               q = [pc |-> "generate", scopes |-> s, from |-> None, doubled |-> FALSE]
        PROVE  q \in CredRequests /\ q.pc = "generate" /\ q.from = None
    BY <2>2 DEF CredRequests, Scopes
  <2>3. ASSUME NEW k \in DOMAIN v1, v1[k].live,
               q = [pc |-> "generate", scopes |-> v1[k].scopes, from |-> k,
                    doubled |-> Creds!Rotating(c, k)]
        PROVE  /\ q \in CredRequests /\ q.pc = "generate" /\ q.from = k
               /\ q.doubled = Creds!Rotating(c, k)
    <3>1. v1[k] \in KeyRow /\ k \in Nat
      BY <1>0
    <3> QED  BY <1>2, <2>3, <3>1 DEF CredRequests, KeyRow
  <2>4. ASSUME NEW k \in DOMAIN v1, q = [pc |-> "revoke", from |-> k]
        PROVE  q \in CredRequests /\ q.pc = "revoke" /\ q.from = k
    <3>1. k \in Nat
      BY <1>0
    <3> QED  BY <2>4, <3>1 DEF CredRequests
  <2>5. Creds!Idle.pc = "idle"
    BY DEF Creds!Idle
  <2> QED  BY <1>1, <2>1, <2>2, <2>3, <2>4, <2>5
<1>4. v6'[c] = q /\ (\A d \in Clients \ {c} : v6'[d] = v6[d]) /\ v6' \in [Clients -> CredRequests]
  BY <1>0, <1>1, <1>3
<1>5. CredsTyped'
  BY <1>0, <1>1, <1>4 DEF CredsTyped
<1>6. NamesRows'
  BY <1>0, <1>1, <1>3, <1>4 DEF NamesRows
<1>7. KeysInv'
  <2>1. \A j \in DOMAIN v1 : <<"key", j>> \in v8' => ~v1[j].live
    BY <1>0, <1>1 DEF KeysInv
  <2>2. ASSUME NEW d \in Clients, v6[d].pc = "retire"
        PROVE  d # c /\ v6'[d] = v6[d]
    BY <1>1, <1>4, <2>2
  <2>3. ASSUME NEW j \in DOMAIN v1, NEW d \in Clients,
               v1[j].from # None, v6'[d].pc = "generate", v6'[d].from = v1[j].from
        PROVE  v1[j].doubled \/ v6'[d].doubled \/ v1[v1[j].from].cut
    <3>1. CASE d = c
      <4>1. v1[v1[j].from].live /\ q.doubled = Creds!Rotating(c, v1[j].from)
        BY <1>3, <1>4, <2>3, <3>1
      <4>2. \/ v1[v1[j].from].cut
            \/ \E e \in Clients : v6[e].pc = "retire" /\ v6[e].from = v1[j].from
        BY <1>0, <2>3, <4>1 DEF KeysInv
      <4>3. ASSUME NEW e \in Clients, v6[e].pc = "retire", v6[e].from = v1[j].from
            PROVE  Creds!Rotating(c, v1[j].from)
        BY <2>2, <4>3 DEF Creds!Rotating
      <4> QED  BY <1>4, <3>1, <4>1, <4>2, <4>3
    <3>2. CASE d # c
      BY <1>0, <1>4, <2>3, <3>2 DEF KeysInv
    <3> QED  BY <3>1, <3>2
  <2>4. \A i, j \in DOMAIN v1 : i < j /\ v1[i].from # None /\ v1[i].from = v1[j].from =>
          v1[i].doubled \/ v1[j].doubled \/ v1[v1[i].from].cut
    BY <1>0 DEF KeysInv
  <2>5. \A j \in DOMAIN v1 : v1[j].from # None /\ v1[v1[j].from].live =>
          \/ v1[v1[j].from].cut
          \/ \E d \in Clients : v6'[d].pc = "retire" /\ v6'[d].from = v1[j].from
    BY <1>0, <2>2 DEF KeysInv
  <2> QED  BY <1>1, <2>1, <2>3, <2>4, <2>5 DEF KeysInv
<1>8. TokensInv'
  BY <1>0, <1>1, <1>3, <1>4 DEF TokensInv
<1> QED  BY <1>5, <1>6, <1>7, <1>8 DEF CredsInv

LEMMA CredsStep ==
  CredsInv /\ [Creds!Next]_<<v1, v2, v3, v4, v5, v6, v7, v8>> => CredsInv'
<1> SUFFICES ASSUME CredsInv, [Creds!Next]_<<v1, v2, v3, v4, v5, v6, v7, v8>> PROVE CredsInv'
  OBVIOUS
<1>0. CredsTyped /\ NamesRows /\ KeysInv /\ TokensInv /\ None \notin Nat
      /\ v6 \in [Clients -> CredRequests] /\ v1 \in Seq(KeyRow) /\ v5 \in UserRow
      /\ v3 \subseteq DOMAIN v2 /\ v4 \in {"live", "gone", "revived"}
      /\ DOMAIN v1 \subseteq Nat /\ DOMAIN v2 \subseteq Nat
  BY SurroundAssumption DEF CredsInv, CredsTyped
<1>1. CASE UNCHANGED <<v1, v2, v3, v4, v5, v6, v7, v8>>
  BY <1>0, <1>1 DEF CredsInv, CredsTyped, NamesRows, KeysInv, TokensInv
<1>2. ASSUME NEW c \in Clients, Creds!refreshTokenHandler(c)
      PROVE  CredsInv'
  <2>1. PICK t \in DOMAIN v2, fails \in BOOLEAN :
          Creds!Begin(c, IF t \in v3 /\ ~fails THEN Creds!Idle
                         ELSE [pc |-> "pair", token |-> t, failed |-> fails])
    BY <1>2 DEF Creds!refreshTokenHandler
  <2> DEFINE q == [pc |-> "pair", token |-> t, failed |-> fails]
  <2>2. v6[c].pc = "idle" /\ UNCHANGED <<v1, v2, v3, v4, v5, v8>>
    BY <1>2, <2>1 DEF Creds!refreshTokenHandler, Creds!Begin
  <2>3. CASE t \in v3 /\ ~fails
    <3>1. v6' = [v6 EXCEPT ![c] = Creds!Idle]
      BY <2>1, <2>3 DEF Creds!Begin, Creds!Become
    <3>2. Creds!Idle \in CredRequests /\ Creds!Idle.pc = "idle"
      BY DEF Creds!Idle, CredRequests
    <3> QED  BY <1>0, <2>2, <3>1, <3>2, CredsQuiet
  <2>4. CASE ~(t \in v3 /\ ~fails)
    <3>1. v6' = [v6 EXCEPT ![c] = q]
      BY <2>1, <2>4 DEF Creds!Begin, Creds!Become
    <3>2. q \in CredRequests /\ q.pc = "pair" /\ q.token = t /\ q.failed = fails
      BY <1>0 DEF CredRequests
    <3> HIDE DEF q
    <3>3. v6'[c] = q /\ (\A d \in Clients \ {c} : v6'[d] = v6[d]) /\ v6' \in [Clients -> CredRequests]
      BY <1>0, <3>1, <3>2
    <3>4. CredsTyped'
      BY <1>0, <2>2, <3>3 DEF CredsTyped
    <3>5. NamesRows'
      BY <1>0, <2>2, <3>2, <3>3 DEF NamesRows
    <3>6. KeysInv'
      BY <1>0, <2>2, <3>2, <3>3 DEF KeysInv
    <3>7. TokensInv'
      <4>1. ASSUME NEW j \in DOMAIN v2, NEW d \in Clients,
                   v2[j].from # None, v6'[d].pc = "pair", v6'[d].token = v2[j].from
            PROVE  v2[j].doubled \/ v6'[d].failed
        <5>1. CASE d = c
          <6>1. v2[j].from = t /\ v6'[d].failed = fails
            BY <3>2, <3>3, <4>1, <5>1
          <6> QED  BY <1>0, <2>4, <4>1, <6>1 DEF TokensInv
        <5>2. CASE d # c
          BY <1>0, <3>3, <4>1, <5>2 DEF TokensInv
        <5> QED  BY <5>1, <5>2
      <4> QED  BY <1>0, <2>2, <4>1 DEF TokensInv
    <3> QED  BY <3>4, <3>5, <3>6, <3>7 DEF CredsInv
  <2> QED  BY <2>3, <2>4
<1>3. ASSUME NEW c \in Clients,
             \/ Creds!logoutHandler(c) \/ Creds!DeleteSession(c) \/ Creds!GetSession(c)
             \/ Creds!RefreshSession(c)
      PROVE  CredsInv'
  <2>1. Creds!Idle \in CredRequests /\ Creds!Idle.pc = "idle"
    BY DEF Creds!Idle, CredRequests
  <2>2. /\ [pc |-> "forget"] \in CredRequests /\ [pc |-> "forget"].pc = "forget"
        /\ [pc |-> "extend"] \in CredRequests /\ [pc |-> "extend"].pc = "extend"
    BY DEF CredRequests
  <2>3. CASE Creds!logoutHandler(c)
    <3>1. PICK t \in DOMAIN v2, fails \in BOOLEAN :
            /\ v3' = IF fails THEN v3 ELSE v3 \cup {t}
            /\ v8' = IF fails THEN v8 ELSE v8 \cup {<<"token", t>>}
      BY <2>3 DEF Creds!logoutHandler
    <3>2. /\ v6[c].pc = "idle" /\ v6' = [v6 EXCEPT ![c] = [pc |-> "forget"]]
          /\ UNCHANGED <<v1, v2, v4, v5>>
      BY <2>3 DEF Creds!logoutHandler, Creds!Begin, Creds!Become
    <3>3. v3 \subseteq v3' /\ v3' \subseteq DOMAIN v2
      BY <1>0, <3>1
    <3> QED  BY <1>0, <2>2, <3>1, <3>2, <3>3, CredsQuiet
  <2>4. CASE Creds!DeleteSession(c)
    <3>1. /\ v6[c].pc = "forget" /\ v6' = [v6 EXCEPT ![c] = Creds!Idle] /\ v4' \in {v4, "gone"}
          /\ UNCHANGED <<v1, v2, v3, v5, v8>>
      BY <2>4 DEF Creds!DeleteSession, Creds!Become
    <3> QED  BY <1>0, <2>1, <3>1, CredsQuiet
  <2>5. CASE Creds!GetSession(c)
    <3>1. /\ v6[c].pc = "idle" /\ UNCHANGED <<v1, v2, v3, v4, v5, v8>>
          /\ \/ v6' = [v6 EXCEPT ![c] = Creds!Idle]
             \/ v6' = [v6 EXCEPT ![c] = [pc |-> "extend"]]
      BY <2>5 DEF Creds!GetSession, Creds!Begin, Creds!Become
    <3> QED  BY <1>0, <2>1, <2>2, <3>1, CredsQuiet
  <2>6. CASE Creds!RefreshSession(c)
    <3>1. /\ v6[c].pc = "extend" /\ v6' = [v6 EXCEPT ![c] = Creds!Idle] /\ v4' \in {v4, "revived"}
          /\ UNCHANGED <<v1, v2, v3, v5, v8>>
      BY <2>6 DEF Creds!RefreshSession, Creds!Become
    <3> QED  BY <1>0, <2>1, <3>1, CredsQuiet
  <2> QED  BY <1>3, <2>3, <2>4, <2>5, <2>6
<1>4. ASSUME NEW c \in Clients,
             Creds!login(c) \/ Creds!updateProfile(c) \/ Creds!UpdateUser(c)
      PROVE  CredsInv'
  <2>1. CASE Creds!login(c) \/ Creds!updateProfile(c)
    <3>1. PICK pc \in {"login", "profile"} :
            /\ v6[c].pc = "idle" /\ v6' = [v6 EXCEPT ![c] = [pc |-> pc, row |-> v5]]
            /\ UNCHANGED <<v1, v2, v3, v4, v5, v8>>
      BY <2>1 DEF Creds!login, Creds!updateProfile, Creds!Begin, Creds!Become
    <3> DEFINE q == [pc |-> pc, row |-> v5]
    <3>2. q \in CredRequests /\ q.pc \in {"login", "profile"}
      BY <1>0 DEF CredRequests
    <3> HIDE DEF q
    <3>3. v6' = [v6 EXCEPT ![c] = q]
      BY <3>1 DEF q
    <3> QED  BY <1>0, <3>1, <3>2, <3>3, CredsQuiet
  <2>2. CASE Creds!UpdateUser(c)
    <3>1. /\ v6[c].pc \in {"login", "profile"} /\ v6' = [v6 EXCEPT ![c] = Creds!Idle]
          /\ UNCHANGED <<v1, v2, v3, v4, v8>>
          /\ v5' \in {[v6[c].row EXCEPT !.login = "now"], [v6[c].row EXCEPT !.name = "new"]}
      BY <2>2 DEF Creds!UpdateUser, Creds!Become
    <3>2. v6[c].row \in UserRow
      BY <1>0, <3>1 DEF CredRequests, Creds!Idle
    <3>3. v5' \in UserRow
      BY <3>1, <3>2 DEF UserRow
    <3>4. Creds!Idle \in CredRequests /\ Creds!Idle.pc = "idle"
      BY DEF Creds!Idle, CredRequests
    <3> QED  BY <1>0, <3>1, <3>3, <3>4, CredsQuiet
  <2> QED  BY <1>4, <2>1, <2>2
<1>5. ASSUME NEW c \in Clients, Creds!CutOff(c)
      PROVE  CredsInv'
  <2>1. /\ v6' = [v6 EXCEPT ![c] = Creds!Idle] /\ UNCHANGED <<v2, v3, v4, v5, v8>>
        /\ v1' = IF v6[c].pc = "retire" THEN [v1 EXCEPT ![v6[c].from].cut = TRUE] ELSE v1
    BY <1>5 DEF Creds!CutOff, Creds!Become
  <2>2. Creds!Idle \in CredRequests /\ Creds!Idle.pc = "idle"
    BY DEF Creds!Idle, CredRequests
  <2>3. CASE v6[c].pc # "retire"
    BY <1>0, <2>1, <2>2, <2>3, CredsQuiet
  <2>4. CASE v6[c].pc = "retire"
    <3> DEFINE k == v6[c].from
    <3>1. k \in DOMAIN v1 /\ v1[k] \in KeyRow
      BY <1>0, <2>4 DEF NamesRows
    <3> DEFINE kept == [v1[k] EXCEPT !.cut = TRUE]
    <3>2. /\ kept \in KeyRow /\ kept.cut /\ kept.from = v1[k].from
          /\ kept.doubled = v1[k].doubled /\ kept.live = v1[k].live
      BY <3>1 DEF KeyRow
    <3>3. v1' = [v1 EXCEPT ![k] = kept]
      BY <2>1, <2>4
    <3> HIDE DEF kept
    <3>4. /\ v1' \in Seq(KeyRow) /\ DOMAIN v1' = DOMAIN v1 /\ v1'[k].cut
          /\ \A j \in DOMAIN v1 : j # k => v1'[j] = v1[j]
          /\ \A j \in DOMAIN v1 : /\ v1'[j].from = v1[j].from /\ v1'[j].doubled = v1[j].doubled
                                  /\ v1'[j].live = v1[j].live
      BY <1>0, <3>1, <3>2, <3>3
    <3>5. /\ v6'[c].pc = "idle" /\ (\A d \in Clients \ {c} : v6'[d] = v6[d])
          /\ v6' \in [Clients -> CredRequests]
      BY <1>0, <2>1, <2>2
    <3>6. CredsTyped'
      BY <1>0, <2>1, <3>4, <3>5 DEF CredsTyped
    <3>7. NamesRows'
      BY <1>0, <2>1, <3>4, <3>5, SMTT(60) DEF NamesRows
    <3>8. KeysInv'
      <4>0. \A j \in DOMAIN v1 : v1[j].from # None =>
              /\ v1[j].from \in DOMAIN v1
              /\ v1[v1[j].from].cut \/ v1[j].from = k => v1'[v1[j].from].cut
        BY <1>0, <3>4 DEF NamesRows
      <4>1. \A j \in DOMAIN v1' : <<"key", j>> \in v8' => ~v1'[j].live
        BY <1>0, <2>1, <3>4 DEF KeysInv
      <4>2. ASSUME NEW j \in DOMAIN v1, v1[j].from # None, v1[v1[j].from].live,
                   ~v1'[v1[j].from].cut
            PROVE  \E d \in Clients : v6'[d].pc = "retire" /\ v6'[d].from = v1[j].from
        <5>1. PICK d \in Clients : v6[d].pc = "retire" /\ v6[d].from = v1[j].from
          BY <1>0, <4>0, <4>2 DEF KeysInv
        <5>2. d # c
          BY <4>0, <4>2, <5>1
        <5> QED  BY <3>5, <5>1, <5>2
      <4>3. \A j \in DOMAIN v1, d \in Clients :
              v1[j].from # None /\ v6'[d].pc = "generate" /\ v6'[d].from = v1[j].from =>
                v1[j].doubled \/ v6'[d].doubled \/ v1'[v1[j].from].cut
        BY <1>0, <3>5, <4>0 DEF KeysInv
      <4>4. \A i, j \in DOMAIN v1 : i < j /\ v1[i].from # None /\ v1[i].from = v1[j].from =>
              v1[i].doubled \/ v1[j].doubled \/ v1'[v1[i].from].cut
        BY <1>0, <4>0 DEF KeysInv
      <4>5. \A j \in DOMAIN v1' : v1'[j].from # None /\ v1'[v1'[j].from].live =>
              \/ v1'[v1'[j].from].cut
              \/ \E d \in Clients : v6'[d].pc = "retire" /\ v6'[d].from = v1'[j].from
        BY <3>4, <4>0, <4>2
      <4>6. \A j \in DOMAIN v1', d \in Clients :
              v1'[j].from # None /\ v6'[d].pc = "generate" /\ v6'[d].from = v1'[j].from =>
                v1'[j].doubled \/ v6'[d].doubled \/ v1'[v1'[j].from].cut
        BY <3>4, <4>3
      <4>7. \A i, j \in DOMAIN v1' : i < j /\ v1'[i].from # None /\ v1'[i].from = v1'[j].from =>
              v1'[i].doubled \/ v1'[j].doubled \/ v1'[v1'[i].from].cut
        BY <3>4, <4>4
      <4> QED  BY <4>1, <4>5, <4>6, <4>7 DEF KeysInv
    <3>9. TokensInv'
      BY <1>0, <2>1, <3>5 DEF TokensInv
    <3> QED  BY <3>6, <3>7, <3>8, <3>9 DEF CredsInv
  <2> QED  BY <2>3, <2>4
<1> QED
  BY <1>1, <1>2, <1>3, <1>4, <1>5, CredsMints, CredsTrades, CredsRetires, CredsBegins
  DEF Creds!Next

\* A role that scopes stand for allows no more than they do.
LEMMA RoleOfScopes ==
  ASSUME NEW scopes,
         NEW perm \in {"apikey:manage", "flag:read", "flag:update", "flag:archive"},
         Creds!HasPermission(Creds!apiKeyScopesToRole(scopes), perm)
  PROVE  Creds!scopeSatisfies(scopes, perm)
<1> DEFINE role == Creds!apiKeyScopesToRole(scopes)
<1>1. CASE "admin" \in scopes
  BY <1>1 DEF Creds!scopeSatisfies
<1>2. CASE "admin" \notin scopes /\ "flags:write" \in scopes
  <2>1. role = "developer"
    BY <1>2 DEF Creds!apiKeyScopesToRole
  <2>2. perm # "apikey:manage"
    BY <2>1 DEF Creds!HasPermission
  <2> QED  BY <1>2, <2>2 DEF Creds!scopeSatisfies, Creds!permissionSatisfyingScopes
<1>3. CASE "admin" \notin scopes /\ "flags:write" \notin scopes /\ "flags:read" \in scopes
  <2>1. role = "viewer"
    BY <1>3 DEF Creds!apiKeyScopesToRole
  <2>2. perm = "flag:read"
    BY <2>1 DEF Creds!HasPermission
  <2> QED  BY <1>3, <2>2 DEF Creds!scopeSatisfies, Creds!permissionSatisfyingScopes
<1>4. CASE scopes \cap {"admin", "flags:write", "flags:read"} = {}
  <2>1. role = None
    BY <1>4 DEF Creds!apiKeyScopesToRole
  <2> QED  BY <2>1, SurroundAssumption DEF Creds!HasPermission
<1> QED  BY <1>1, <1>2, <1>3, <1>4

\* The invariant says what CredentialsHold says.
LEMMA CredsMean == CredsInv => Creds!TypeOK /\ Creds!CredentialsHold
<1> SUFFICES ASSUME CredsInv PROVE Creds!TypeOK /\ Creds!CredentialsHold
  OBVIOUS
<1>0. CredsTyped /\ NamesRows /\ KeysInv /\ TokensInv /\ v1 \in Seq(KeyRow) /\ None \notin Nat
  BY SurroundAssumption DEF CredsInv, CredsTyped
<1>1. Creds!TypeOK
  <2>1. \A k \in DOMAIN v1 : v1[k].from \in ((DOMAIN v1) \ {k}) \cup {None}
    BY <1>0 DEF NamesRows
  <2> QED  BY <1>0, <2>1 DEF Creds!TypeOK, CredsTyped, UserRow
<1>2. Creds!SpentKeysStayDead
  <2>1. \A p \in Creds!Siblings(v1) :
          v1[p[1]].doubled \/ v1[p[2]].doubled \/ v1[v1[p[1]].from].cut
    BY <1>0 DEF KeysInv, Creds!Siblings
  <2> QED  BY <1>0, <2>1 DEF Creds!SpentKeysStayDead, KeysInv
<1>3. Creds!RolesFollowScopes
  BY RoleOfScopes DEF Creds!RolesFollowScopes
<1>4. Creds!TokensAreTradedOnce
  BY <1>0 DEF Creds!TokensAreTradedOnce, TokensInv, Creds!Siblings
<1> QED  BY <1>1, <1>2, <1>3, <1>4 DEF Creds!CredentialsHold

LEMMA CredsLosses ==
  CredsInv /\ [Creds!Next]_<<v1, v2, v3, v4, v5, v6, v7, v8>> => Creds!OverwriteStep
<1> SUFFICES ASSUME CredsInv, [Creds!Next]_<<v1, v2, v3, v4, v5, v6, v7, v8>>
             PROVE  Creds!OverwriteStep
  OBVIOUS
<1>0. v6 \in [Clients -> CredRequests]
  BY DEF CredsInv, CredsTyped
<1>1. ASSUME NEW c \in Clients, Creds!UpdateUser(c)
      PROVE  Creds!OverwriteStep
  <2>1. v6[c].row \in UserRow
    BY <1>0, <1>1 DEF CredRequests, Creds!Idle, Creds!UpdateUser
  <2> QED  BY <1>1, <2>1 DEF Creds!UpdateUser, Creds!OverwriteStep, UserRow
<1>2. ASSUME NEW c \in Clients, Creds!RefreshSession(c)
      PROVE  Creds!OverwriteStep
  BY <1>2 DEF Creds!RefreshSession, Creds!OverwriteStep
<1>3. ASSUME NEW c \in Clients, Creds!DeleteSession(c)
      PROVE  Creds!OverwriteStep
  BY <1>3 DEF Creds!DeleteSession, Creds!OverwriteStep
<1>4. ASSUME v5' = v5, v4' = v4 PROVE Creds!OverwriteStep
  BY <1>4 DEF Creds!OverwriteStep
<1>5. ASSUME NEW c \in Clients,
             \/ Creds!createAPIKey(c) \/ Creds!GenerateKey(c) \/ Creds!revokeAPIKey(c)
             \/ Creds!RevokeKey(c) \/ Creds!rotateAPIKey(c) \/ Creds!RotateKey(c)
             \/ Creds!refreshTokenHandler(c) \/ Creds!BlacklistToken(c) \/ Creds!logoutHandler(c)
             \/ Creds!GetSession(c) \/ Creds!login(c) \/ Creds!updateProfile(c) \/ Creds!CutOff(c)
      PROVE  v5' = v5 /\ v4' = v4
  BY <1>5 DEF Creds!createAPIKey, Creds!GenerateKey, Creds!revokeAPIKey, Creds!RevokeKey,
    Creds!rotateAPIKey, Creds!RotateKey, Creds!refreshTokenHandler, Creds!BlacklistToken,
    Creds!logoutHandler, Creds!GetSession, Creds!login, Creds!updateProfile, Creds!CutOff
<1> QED  BY <1>1, <1>2, <1>3, <1>4, <1>5 DEF Creds!Next

-----------------------------------------------------------------------------
(* The event stream                                                         *)

Numbers == 0 .. MaxWrites
FlagRows == [base : Numbers, env : {None} \cup Numbers]
Readers == [pc : {"off", "read", "fetch"}] \cup [pc : {"overlay"}, value : Numbers, read : Nat]
           \cup [pc : {"set"}, value : Numbers, read : Nat, from : {"fetch", "bare"}]
Listings == [pc : {"start", "list", "done"}]
            \cup [pc : {"setAll"}, value : {None} \cup Numbers, read : Nat]
Cached == [value : Numbers, read : Nat, fresh : BOOLEAN, from : {"fetch", "bare", "list"}]

StreamTyped ==
  /\ v1 \in {None} \cup FlagRows /\ v2 \in BOOLEAN
  /\ v3 \in {None} \cup [at : Replicas] /\ v4 \in {None} \cup Replicas
  /\ v5 \in 0 .. Buffer /\ v6 \in Readers /\ v7 \in Listings /\ v8 \in {None} \cup Cached
  /\ v9 \in 1 .. MaxBackoff /\ v10 \in Numbers /\ v13 \in BOOLEAN

\* What was read is no newer than what is written, a cached fetch no newer than
\* the next one, and events wait for a connected client only.
ReadInOrder ==
  /\ v4 = None => v5 = 0
  /\ v6.pc = "off" => v4 = None
  /\ v6.pc \in {"overlay", "set"} => v6.read <= v10
  /\ v7.pc = "setAll" => v7.read <= v10
  /\ v8 # None => v8.read <= v10
  /\ v8 # None /\ v8.from # "list" /\ v6.pc \in {"overlay", "set"} => v8.read <= v6.read

\* Whatever a goroutine is about to write to the cache is what the API shows, or
\* the flag's own value, or an event that tells better is under way, or was missed.
Better == v3 # None \/ v5 > 0 \/ v13
OwnValue(value) == v1 # None /\ value = v1.base

ReadIsExplained ==
  /\ v6.pc = "overlay" => OwnValue(v6.value) \/ Better
  /\ v6.pc = "set" /\ v6.from = "fetch" /\ v6.value # Stream!Shown => Better
  /\ v6.pc = "set" /\ v6.from = "bare" => OwnValue(v6.value) \/ Better
  /\ v7.pc = "setAll" /\ v7.read = v10 => v7.value = Stream!listFlags

StreamInv == StreamTyped /\ ReadInOrder /\ ReadIsExplained /\ Stream!StaleIsExplained

streamVars == <<v1, v2, v3, v4, v5, v6, v7, v8, v9, v10, v11, v12, v13>>

LEMMA StreamShows ==
  ASSUME StreamTyped
  PROVE  Stream!Shown \in {None} \cup Numbers /\ Stream!listFlags \in {None} \cup Numbers
  BY DEF StreamTyped, Stream!Shown, Stream!Overlaid, Stream!listFlags, FlagRows

LEMMA StreamInitially == Stream!Init => StreamInv
<1> SUFFICES ASSUME Stream!Init PROVE StreamInv
  OBVIOUS
<1>1. 0 \in Numbers /\ 0 \in 0 .. Buffer /\ 1 \in 1 .. MaxBackoff
  BY SurroundAssumption DEF Numbers
<1>2. v6 = [pc |-> "off"] /\ v7 = [pc |-> "start"] /\ v8 = None /\ v5 = 0 /\ v4 = None
  BY DEF Stream!Init, Stream!At
<1>3. v1 \in FlagRows
  BY <1>1 DEF Stream!Init, FlagRows
<1>4. v6 \in Readers /\ v7 \in Listings
  BY <1>2 DEF Readers, Listings
<1>5. v2 \in BOOLEAN /\ v13 \in BOOLEAN /\ v3 = None /\ v9 = 1 /\ v10 = 0
  BY Zenon DEF Stream!Init
<1>6. StreamTyped
  BY <1>1, <1>2, <1>3, <1>4, <1>5 DEF StreamTyped
<1> QED
  BY <1>2, <1>6 DEF StreamInv, ReadInOrder, ReadIsExplained, Stream!StaleIsExplained

\* A write of the flag: its request is now to broadcast it.
LEMMA StreamWrites ==
  ASSUME StreamInv, NEW r \in Replicas, NEW new \in {None} \cup FlagRows, Stream!Write(r, new)
  PROVE  StreamInv'
<1>0. StreamTyped /\ ReadInOrder /\ ReadIsExplained /\ v10 \in Nat /\ MaxWrites \in Nat
  BY SurroundAssumption DEF StreamInv, StreamTyped, Numbers
<1>1. /\ v1' = new /\ v10' = v10 + 1 /\ v10 < MaxWrites /\ v3' = [at |-> r] /\ v3' # None
      /\ UNCHANGED <<v2, v4, v5, v6, v7, v8, v9, v13>>
  BY SurroundAssumption DEF Stream!Write
<1>2. StreamTyped'
  BY <1>0, <1>1 DEF StreamTyped, Numbers
<1>3. ReadInOrder'
  <2>1. v7.pc = "setAll" => v7.read \in Nat
    BY <1>0 DEF StreamTyped, Listings
  <2>2. v6.pc \in {"overlay", "set"} => v6.read \in Nat
    BY <1>0 DEF StreamTyped, Readers
  <2>3. v8 # None => v8.read \in Nat
    BY <1>0 DEF StreamTyped, Cached
  <2> QED  BY <1>0, <1>1, <2>1, <2>2, <2>3 DEF ReadInOrder
<1>4. ReadIsExplained'
  <2>1. v7.pc = "setAll" => v7.read \in Nat /\ v7.read # v10'
    BY <1>0, <1>1 DEF StreamTyped, Listings, ReadInOrder
  <2> QED  BY <1>1, <2>1 DEF ReadIsExplained, Better
<1>5. Stream!StaleIsExplained'
  BY <1>1 DEF Stream!StaleIsExplained, Stream!Coming
<1> QED  BY <1>2, <1>3, <1>4, <1>5 DEF StreamInv

LEMMA StreamStep == StreamInv /\ [Stream!Next]_streamVars => StreamInv'
<1> SUFFICES ASSUME StreamInv, [Stream!Next]_streamVars PROVE StreamInv'
  OBVIOUS
<1>0. /\ StreamTyped /\ ReadInOrder /\ ReadIsExplained /\ Stream!StaleIsExplained
      /\ v10 \in Nat /\ v10 \in Numbers /\ v5 \in Nat /\ v5 \in 0 .. Buffer /\ Buffer \in Nat
      /\ MaxWrites \in Nat /\ MaxBackoff \in Nat \ {0} /\ v9 \in 1 .. MaxBackoff
      /\ Stream!Shown \in {None} \cup Numbers /\ Stream!listFlags \in {None} \cup Numbers
      /\ v1 \in {None} \cup FlagRows /\ v6 \in Readers /\ v7 \in Listings
      /\ v8 \in {None} \cup Cached /\ v13 \in BOOLEAN
  BY SurroundAssumption, StreamShows DEF StreamInv, StreamTyped, Numbers
<1>1. CASE UNCHANGED streamVars
  BY <1>1, <1>0 DEF streamVars, StreamInv, StreamTyped, ReadInOrder, ReadIsExplained, Stream!Shown,
    Stream!Overlaid, OwnValue, Better, Stream!listFlags, Stream!StaleIsExplained, Stream!Coming
<1>2. ASSUME NEW r \in Replicas,
             Stream!toggleFlag(r) \/ Stream!setFlagEnvState(r) \/ Stream!hardDeleteFlag(r)
      PROVE  StreamInv'
  <2>1. CASE Stream!hardDeleteFlag(r)
    BY <2>1, StreamWrites DEF Stream!hardDeleteFlag
  <2>2. CASE Stream!toggleFlag(r) \/ Stream!setFlagEnvState(r)
    <3>1. v1 \in FlagRows /\ v10 + 1 \in Numbers
      BY <1>0, <2>2 DEF Stream!toggleFlag, Stream!setFlagEnvState, Stream!Write, Numbers
    <3>2. /\ [v1 EXCEPT !.base = v10 + 1] \in FlagRows
          /\ [v1 EXCEPT !.env = v10 + 1] \in FlagRows
      BY <3>1 DEF FlagRows
    <3> QED  BY <2>2, <3>2, StreamWrites DEF Stream!toggleFlag, Stream!setFlagEnvState
  <2> QED  BY <1>2, <2>1, <2>2
<1>3. CASE Stream!Broadcast \/ Stream!CutOff \/ Stream!Unsubscribe
  <2>1. UNCHANGED <<v1, v2, v6, v7, v8, v9, v10>>
    BY <1>3 DEF Stream!Broadcast, Stream!CutOff, Stream!Unsubscribe
  <2>2. /\ v3' \in {v3, None} /\ v4' \in {v4, None} /\ v5' \in 0 .. Buffer /\ v13' \in BOOLEAN
        /\ v4' = None => v5' = 0
        /\ Better => Better'
    <3>1. CASE Stream!Broadcast
      <4> DEFINE heard == v4 = v3.at /\ v5 < Buffer
      <4>1. /\ v3 # None /\ v3' = None /\ v5' = (IF heard THEN v5 + 1 ELSE v5) /\ v4' = v4
            /\ v13' = (v13 \/ ~heard)
        BY <3>1 DEF Stream!Broadcast
      <4>2. heard => v4 # None
        BY <1>0, <4>1, SurroundAssumption DEF StreamTyped
      <4>3. CASE heard
        BY <1>0, <4>1, <4>2, <4>3 DEF Better
      <4>4. CASE ~heard
        BY <1>0, <4>1, <4>4 DEF ReadInOrder, Better
      <4> QED  BY <4>3, <4>4
    <3>2. CASE Stream!CutOff
      BY <1>0, <3>2 DEF Stream!CutOff, ReadInOrder, Better
    <3>3. CASE Stream!Unsubscribe
      <4>1. /\ v3' = v3 /\ v4' = None /\ v5' = 0 /\ v13' = (v13 \/ v5 > 0)
        BY <3>3 DEF Stream!Unsubscribe
      <4>2. v13' \in BOOLEAN /\ (v13 \/ v5 > 0 => v13')
        BY <1>0, <4>1, Zenon
      <4> QED  BY <1>0, <4>1, <4>2 DEF Better
    <3> QED  BY <1>3, <3>1, <3>2, <3>3
  <2>3. Stream!Shown' = Stream!Shown /\ Stream!listFlags' = Stream!listFlags
    BY <2>1 DEF Stream!Shown, Stream!Overlaid, Stream!listFlags
  <2>4. StreamTyped'
    BY <1>0, <2>1, <2>2 DEF StreamTyped
  <2>5. ReadInOrder'
    BY <1>0, <2>1, <2>2 DEF ReadInOrder
  <2>6. ReadIsExplained'
    BY <1>0, <2>1, <2>2, <2>3 DEF ReadIsExplained, OwnValue
  <2>7. Stream!StaleIsExplained'
    BY <1>0, <2>1, <2>2, <2>3 DEF Stream!StaleIsExplained, Stream!Coming, Better
  <2> QED  BY <2>4, <2>5, <2>6, <2>7 DEF StreamInv
<1>4. CASE \/ \E r \in Replicas : Stream!Subscribe(r)
           \/ Stream!connectLoop \/ Stream!handleEvent
  <2>1. /\ UNCHANGED <<v1, v2, v3, v7, v8, v10, v13>> /\ v5' \in 0 .. Buffer
        /\ v6.pc \in {"off", "read"} /\ v6' \in {[pc |-> "off"], [pc |-> "read"], [pc |-> "fetch"]}
        /\ v4' \in {None} \cup Replicas /\ v9' \in 1 .. MaxBackoff
        /\ v4' = None => v5' = 0
        /\ v6' = [pc |-> "off"] => v4' = None
        /\ v5' = v5 \/ v6' = [pc |-> "fetch"]
    <3>1. ASSUME NEW r \in Replicas, Stream!Subscribe(r)
          PROVE  /\ v4' = r /\ v5' = 0 /\ v5 = 0 /\ v6' = [pc |-> "read"] /\ v6.pc = "off"
                 /\ UNCHANGED <<v1, v2, v3, v7, v8, v9, v10, v13>>
      BY <1>0, <3>1 DEF Stream!Subscribe, Stream!At, ReadInOrder
    <3>2. CASE Stream!connectLoop
      BY <1>0, <3>2 DEF Stream!connectLoop, Stream!At, ReadInOrder
    <3>3. CASE Stream!handleEvent
      BY <1>0, <3>3 DEF Stream!handleEvent, Stream!At, ReadInOrder, StreamTyped
    <3> QED  BY <1>0, <1>4, <3>1, <3>2, <3>3, SurroundAssumption
  <2>2. v6' \in Readers /\ v6'.pc \notin {"overlay", "set"}
        /\ v6.pc \notin {"fetch", "overlay", "set"}
    BY <2>1 DEF Readers
  <2>3. Stream!Shown' = Stream!Shown /\ Stream!listFlags' = Stream!listFlags
    BY <2>1 DEF Stream!Shown, Stream!Overlaid, Stream!listFlags
  <2>4. StreamTyped'
    BY <1>0, <2>1, <2>2 DEF StreamTyped
  <2>5. ReadInOrder'
    BY <1>0, <2>1, <2>2 DEF ReadInOrder
  <2>6. ReadIsExplained'
    BY <1>0, <2>1, <2>2, <2>3 DEF ReadIsExplained
  <2>7. Stream!StaleIsExplained'
    BY <1>0, <2>1, <2>2, <2>3 DEF Stream!StaleIsExplained, Stream!Coming
  <2> QED  BY <2>4, <2>5, <2>6, <2>7 DEF StreamInv
<1>5. CASE Stream!fetchFlag
  <2> DEFINE asked == [pc |-> "overlay", value |-> v1.base, read |-> v10]
  <2>1. /\ v6.pc = "fetch" /\ UNCHANGED <<v1, v2, v3, v4, v5, v7, v8, v9, v10>> /\ v13' \in BOOLEAN
        /\ \/ v1 # None /\ v6' = asked
           \/ v6' = [pc |-> "read"] /\ v13'
    BY <1>5 DEF Stream!fetchFlag, Stream!FetchFails, Stream!At
  <2>2. /\ v1 # None => asked \in Readers
        /\ asked.pc = "overlay" /\ asked.value = v1.base /\ asked.read = v10
    BY <1>0 DEF Readers, FlagRows
  <2> HIDE DEF asked
  <2>3. /\ v6' \in Readers /\ v6'.pc \in {"overlay", "read"}
        /\ v6'.pc = "overlay" => OwnValue(v6.value)' /\ v6'.read = v10
        /\ v6'.pc = "overlay" \/ v13'
    BY <2>1, <2>2 DEF Readers, OwnValue
  <2>4. StreamTyped'
    BY <1>0, <2>1, <2>3 DEF StreamTyped
  <2>5. ReadInOrder'
    BY <1>0, <2>1, <2>3 DEF ReadInOrder, StreamTyped, Cached
  <2>6. Stream!listFlags' = Stream!listFlags
    BY <2>1 DEF Stream!listFlags
  <2>7. ReadIsExplained'
    BY <1>0, <2>1, <2>3, <2>6 DEF ReadIsExplained
  <2>8. Stream!StaleIsExplained'
    BY <2>3 DEF Stream!StaleIsExplained, Stream!Coming
  <2> QED  BY <2>4, <2>5, <2>7, <2>8 DEF StreamInv
<1>10. CASE Stream!getFlag
  <2> DEFINE laid(from) == [pc |-> "set", read |-> v6.read, from |-> from,
                            value |-> IF from = "fetch" THEN Stream!Overlaid(v6.value) ELSE v6.value]
  <2>1. /\ v6.pc = "overlay" /\ UNCHANGED <<v1, v2, v3, v4, v5, v7, v8, v9, v10>>
        /\ \/ v6' \in {laid("fetch"), laid("bare")} /\ v13' = v13
           \/ v6' = [pc |-> "read"] /\ v13'
    BY <1>10 DEF Stream!getFlag, Stream!FetchFails, Stream!At
  <2>2. v6.value \in Numbers /\ v6.read \in Nat /\ Stream!Overlaid(v6.value) \in Numbers
    BY <1>0, <2>1 DEF Readers, Stream!Overlaid, FlagRows
  <2>3. ASSUME NEW from \in {"fetch", "bare"}
        PROVE  /\ laid(from) \in Readers /\ laid(from).pc = "set" /\ laid(from).from = from
               /\ laid(from).read = v6.read
               /\ laid(from).value = IF from = "fetch" THEN Stream!Overlaid(v6.value) ELSE v6.value
    BY <2>2 DEF Readers
  <2> HIDE DEF laid
  <2>4. /\ v6' \in Readers /\ v6'.pc \in {"set", "read"} /\ v13' \in BOOLEAN
        /\ v6'.pc = "set" => /\ v6'.read = v6.read /\ v6'.from \in {"fetch", "bare"} /\ v13' = v13
                             /\ v6'.from = "fetch" => v6'.value = Stream!Overlaid(v6.value)
                             /\ v6'.from = "bare" => v6'.value = v6.value
        /\ v6'.pc = "set" \/ v13'
    <3>1. CASE v6' = [pc |-> "read"] /\ v13'
      BY <3>1 DEF Readers
    <3>2. ASSUME NEW from \in {"fetch", "bare"}, v6' = laid(from), v13' = v13
          PROVE  /\ v6' \in Readers /\ v6'.pc = "set" /\ v6'.read = v6.read
                 /\ v6'.from = from /\ v13' \in BOOLEAN
                 /\ v6'.value = IF from = "fetch" THEN Stream!Overlaid(v6.value) ELSE v6.value
      BY <1>0, <2>3, <3>2
    <3> QED  BY <2>1, <3>1, <3>2
  <2>5. StreamTyped'
    BY <1>0, <2>1, <2>4 DEF StreamTyped
  <2>6. ReadInOrder'
    BY <1>0, <2>1, <2>4 DEF ReadInOrder
  <2>7. Stream!listFlags' = Stream!listFlags /\ Stream!Shown' = Stream!Shown
    BY <2>1 DEF Stream!listFlags, Stream!Shown, Stream!Overlaid
  <2>8. OwnValue(v6.value) => Stream!Overlaid(v6.value) = Stream!Shown
    BY DEF OwnValue, Stream!Shown
  <2>9. OwnValue(v6.value) \/ Better
    BY <1>0, <2>1 DEF ReadIsExplained
  <2>10. v6'.pc = "set" /\ Better => Better'
    BY <2>1, <2>4 DEF Better
  <2>11. ReadIsExplained'
    BY <1>0, <2>1, <2>4, <2>7, <2>8, <2>9, <2>10 DEF ReadIsExplained, OwnValue
  <2>12. Stream!StaleIsExplained'
    BY <2>4 DEF Stream!StaleIsExplained, Stream!Coming
  <2> QED  BY <2>5, <2>6, <2>11, <2>12 DEF StreamInv
<1>6. CASE Stream!set
  <2> DEFINE kept == [value |-> v6.value, read |-> v6.read, fresh |-> TRUE, from |-> v6.from]
  <2>1. /\ v6.pc = "set" /\ v8' = kept /\ v6' = [pc |-> "read"]
        /\ UNCHANGED <<v1, v2, v3, v4, v5, v7, v9, v10, v13>>
    BY <1>6 DEF Stream!set, Stream!At
  <2>2. v6.value \in Numbers /\ v6.read \in Nat /\ v6.from \in {"fetch", "bare"}
    BY <1>0, <2>1 DEF Readers
  <2>3. /\ kept \in Cached /\ kept.value = v6.value /\ kept.read = v6.read
        /\ kept.from = v6.from
    BY <2>2 DEF Cached
  <2> HIDE DEF kept
  <2>4. v6' \in Readers /\ v6'.pc = "read"
    BY <2>1 DEF Readers
  <2>5. Stream!Shown' = Stream!Shown /\ Stream!listFlags' = Stream!listFlags
    BY <2>1 DEF Stream!Shown, Stream!Overlaid, Stream!listFlags
  <2>6. StreamTyped'
    BY <1>0, <2>1, <2>3, <2>4 DEF StreamTyped
  <2>7. ReadInOrder'
    BY <1>0, <2>1, <2>3, <2>4 DEF ReadInOrder
  <2>8. ReadIsExplained'
    BY <1>0, <2>1, <2>4, <2>5 DEF ReadIsExplained
  <2>9. Stream!StaleIsExplained'
    BY <1>0, <2>1, <2>2, <2>3, <2>5
    DEF Stream!StaleIsExplained, Stream!Coming, ReadIsExplained, OwnValue, Better
  <2> QED  BY <2>6, <2>7, <2>8, <2>9 DEF StreamInv
<1>7. CASE Stream!RefreshSession \/ Stream!warmCache
  <2>1. /\ UNCHANGED <<v1, v2, v3, v4, v5, v6, v9, v10, v13>> /\ v8' \in {v8, None}
        /\ \/ v7' = [pc |-> "list"] \/ v7' = [pc |-> "done"]
           \/ v7' = [pc |-> "setAll", value |-> Stream!listFlags, read |-> v10]
    BY <1>7 DEF Stream!RefreshSession, Stream!warmCache, Stream!At
  <2>2. /\ v7' \in Listings
        /\ v7'.pc = "setAll" => v7'.value = Stream!listFlags /\ v7'.read = v10
    BY <1>0, <2>1 DEF Listings
  <2>3. Stream!Shown' = Stream!Shown /\ Stream!listFlags' = Stream!listFlags
    BY <2>1 DEF Stream!Shown, Stream!Overlaid, Stream!listFlags
  <2>4. StreamTyped'
    BY <1>0, <2>1, <2>2 DEF StreamTyped
  <2>5. ReadInOrder'
    BY <1>0, <2>1, <2>2 DEF ReadInOrder
  <2>6. ReadIsExplained'
    BY <1>0, <2>1, <2>2, <2>3 DEF ReadIsExplained, OwnValue, Better
  <2>7. Stream!StaleIsExplained'
    BY <1>0, <2>1, <2>3 DEF Stream!StaleIsExplained, Stream!Coming
  <2> QED  BY <2>4, <2>5, <2>6, <2>7 DEF StreamInv
<1>8. CASE Stream!setAll
  <2> DEFINE kept == [value |-> v7.value, read |-> v7.read, fresh |-> TRUE, from |-> "list"]
  <2>1. /\ v7.pc = "setAll" /\ v7' = [pc |-> "done"] /\ v13' = (v13 \/ v10 > v7.read)
        /\ v8' = IF v7.value = None THEN None ELSE kept
        /\ UNCHANGED <<v1, v2, v3, v4, v5, v6, v9, v10>>
    BY <1>8 DEF Stream!setAll, Stream!At
  <2>2. v7.value \in {None} \cup Numbers /\ v7.read \in Nat /\ v7.read <= v10
    BY <1>0, <2>1 DEF Listings, ReadInOrder
  <2>3. /\ kept.value = v7.value /\ kept.read = v7.read /\ kept.from = "list"
        /\ v7.value # None => kept \in Cached
    BY <2>2 DEF Cached
  <2> HIDE DEF kept
  <2>4. v7' \in Listings /\ v7'.pc = "done"
    BY <2>1 DEF Listings
  <2>5. Stream!Shown' = Stream!Shown /\ Stream!listFlags' = Stream!listFlags
    BY <2>1 DEF Stream!Shown, Stream!Overlaid, Stream!listFlags
  <2>6. StreamTyped'
    BY <1>0, <2>1, <2>2, <2>3, <2>4 DEF StreamTyped
  <2>7. ReadInOrder'
    BY <1>0, <2>1, <2>2, <2>3, <2>4 DEF ReadInOrder
  <2>8. ReadIsExplained'
    BY <1>0, <2>1, <2>4, <2>5 DEF ReadIsExplained, OwnValue, Better
  <2>9. v13' \/ v7.read = v10
    <3>1. v10 > v7.read \/ v7.read = v10
      BY <1>0, <2>1, <2>2
    <3>2. v10 > v7.read => v13'
      BY <2>1, Zenon
    <3> QED  BY <3>1, <3>2
  <2>10. Stream!StaleIsExplained'
    BY <2>1, <2>3, <2>9 DEF Stream!StaleIsExplained
  <2> QED  BY <2>6, <2>7, <2>8, <2>10 DEF StreamInv
<1>9. CASE Stream!Expire
  <2>1. /\ v8 \in Cached /\ v8' = [v8 EXCEPT !.fresh = FALSE]
        /\ UNCHANGED <<v1, v2, v3, v4, v5, v6, v7, v9, v10, v13>>
    BY <1>0, <1>9 DEF Stream!Expire
  <2>2. /\ v8' \in Cached /\ v8'.value = v8.value /\ v8'.read = v8.read /\ v8'.from = v8.from
        /\ v8 # None
    BY <1>9, <2>1 DEF Cached, Stream!Expire
  <2>3. Stream!Shown' = Stream!Shown /\ Stream!listFlags' = Stream!listFlags
    BY <2>1 DEF Stream!Shown, Stream!Overlaid, Stream!listFlags
  <2>4. StreamTyped'
    BY <1>0, <2>1, <2>2 DEF StreamTyped
  <2>5. ReadInOrder'
    BY <1>0, <2>1, <2>2 DEF ReadInOrder
  <2>6. ReadIsExplained'
    BY <1>0, <2>1, <2>3 DEF ReadIsExplained, OwnValue, Better
  <2>7. Stream!StaleIsExplained'
    BY <1>0, <2>1, <2>2, <2>3 DEF Stream!StaleIsExplained, Stream!Coming
  <2> QED  BY <2>4, <2>5, <2>6, <2>7 DEF StreamInv
<1> QED
  BY <1>1, <1>2, <1>3, <1>4, <1>5, <1>6, <1>7, <1>8, <1>9, <1>10 DEF Stream!Next

LEMMA StreamMeans == StreamInv => Stream!TypeOK /\ Stream!StaleIsExplained
<1> SUFFICES ASSUME StreamInv PROVE Stream!TypeOK
  BY DEF StreamInv
<1>1. StreamTyped /\ ReadInOrder
  BY DEF StreamInv
<1>2. v1 = None \/ (v1.base \in 0 .. MaxWrites /\ v1.env \in {None} \cup 0 .. MaxWrites)
  BY <1>1 DEF StreamTyped, FlagRows, Numbers
<1>3. Stream!resolve(TRUE) = Stream!Dispatch /\ Stream!resolve(FALSE) \in {None, Stream!Dispatch}
  BY DEF Stream!resolve, Stream!Dispatch
<1> QED  BY <1>1, <1>2, <1>3 DEF Stream!TypeOK, StreamTyped, ReadInOrder

\* The action property: the cache goes back only where a listing is in the way.
LEMMA StreamForward == StreamInv /\ [Stream!Next]_streamVars => Stream!ForwardStep
<1> SUFFICES ASSUME StreamInv, [Stream!Next]_streamVars, v8 # None, v8' # None,
                    v8'.read < v8.read
             PROVE  v7.pc = "setAll" \/ v8.from = "list"
  BY DEF Stream!ForwardStep
<1>0. /\ v8 \in Cached /\ v8.read \in Nat /\ v8.from \in {"fetch", "bare", "list"} /\ ReadInOrder
      /\ v6 \in Readers
  BY DEF StreamInv, StreamTyped, Cached
<1>1. v8'.read # v8.read /\ v8' # v8
  BY <1>0
<1>2. ~Stream!Expire
  BY <1>0, <1>1 DEF Stream!Expire, Cached
<1>3. ~Stream!RefreshSession
  BY DEF Stream!RefreshSession
<1>4. ASSUME NEW r \in Replicas PROVE ~(\/ Stream!toggleFlag(r) \/ Stream!setFlagEnvState(r)
                                        \/ Stream!hardDeleteFlag(r) \/ Stream!Subscribe(r))
  BY <1>1 DEF Stream!toggleFlag, Stream!setFlagEnvState, Stream!hardDeleteFlag, Stream!Subscribe,
    Stream!Write
<1>5. /\ ~Stream!Broadcast /\ ~Stream!CutOff /\ ~Stream!Unsubscribe /\ ~Stream!connectLoop
      /\ ~Stream!handleEvent /\ ~Stream!fetchFlag /\ ~Stream!getFlag /\ ~Stream!warmCache
  BY <1>1 DEF Stream!Broadcast, Stream!CutOff, Stream!Unsubscribe, Stream!connectLoop,
    Stream!handleEvent, Stream!fetchFlag, Stream!getFlag, Stream!warmCache
<1>6. CASE Stream!set
  <2>1. v6.pc = "set" /\ v8'.read = v6.read /\ v6.read \in Nat
    BY <1>0, <1>6 DEF Stream!set, Readers
  <2> QED  BY <1>0, <2>1 DEF ReadInOrder
<1>7. CASE Stream!setAll
  BY <1>7 DEF Stream!setAll
<1> QED  BY <1>1, <1>2, <1>3, <1>4, <1>5, <1>6, <1>7 DEF Stream!Next, streamVars

-----------------------------------------------------------------------------
(* Notifications                                                            *)

LEMMA LeastOf == ASSUME NEW S \in SUBSET Nat, S # {} PROVE \E k \in S : \A j \in S : k <= j
<1>1. \E k \in S : \A j \in S : ~(<<j, k>> \in OpToRel(<, Nat))
  BY WFMin, NatLessThanWellFounded
<1>2. \E k \in S : \A j \in S : ~(j < k)
  BY <1>1 DEF OpToRel
<1>3. \A k, j \in S : ~(j < k) => k <= j
  OBVIOUS
<1> QED  BY <1>2, <1>3

\* The next channel is the first of those left that support the type; where
\* there is none, no channel that is left does.
LEMMA NextIsFirst ==
  ASSUME NEW n \in Nat, NEW type
  PROVE  LET k == Notices!NextChannel(n, type) IN
         /\ k \in {0} \cup DOMAIN Channels
         /\ k # 0 => k > n /\ Notices!Supports(Channels[k], type)
         /\ \A j \in DOMAIN Channels :
              j > n /\ Notices!Supports(Channels[j], type) => k # 0 /\ k <= j
<1> DEFINE later == {k \in n + 1 .. Len(Channels) : Notices!Supports(Channels[k], type)}
<1>0. Len(Channels) \in Nat /\ DOMAIN Channels = 1 .. Len(Channels)
  BY SurroundAssumption
<1>1. \A j : j \in later <=> j \in DOMAIN Channels /\ j > n /\ Notices!Supports(Channels[j], type)
  BY <1>0
<1>2. CASE later = {}
  <2>1. Notices!NextChannel(n, type) = 0
    BY <1>2 DEF Notices!NextChannel
  <2> HIDE DEF later
  <2> QED  BY <1>1, <1>2, <2>1
<1>3. CASE later # {}
  <2>1. Notices!NextChannel(n, type) = CHOOSE k \in later : \A j \in later : k <= j
    BY <1>3 DEF Notices!NextChannel
  <2>2. later \in SUBSET Nat
    BY <1>0
  <2> HIDE DEF later
  <2>3. \E k \in later : \A j \in later : k <= j
    BY <1>3, <2>2, LeastOf
  <2>4. /\ Notices!NextChannel(n, type) \in later
        /\ \A j \in later : Notices!NextChannel(n, type) <= j
    BY <2>1, <2>3
  <2>5. Notices!NextChannel(n, type) # 0
    BY <1>0, <1>1, <2>4
  <2> QED  BY <1>1, <2>4, <2>5
<1> QED  BY <1>2, <1>3

Kinds == {e[2] : e \in Events} \cup {"malformed"}
Failures == Notices!Failures
Messages == [subject : Notices!Subjects, type : Kinds, tries : 0 .. MaxDeliver,
             state : {"queued", "out", "acked", "dropped", "terminated"}]
Workers == [pc : {"idle", "answer", "send", "page", "track"}, msg : Nat, type : Kinds, ch : Nat,
            failed : BOOLEAN, key : {None} \cup Failures]

NoticeTyped ==
  /\ v1 \in Seq(Messages) /\ v2 \in [Notices!Consumers -> {Notices!Idle} \cup Workers]
  /\ v3 \in [Processes -> {None} \cup Failures] /\ v4 \subseteq Failures

\* A message waits only while it has deliveries left.
DeliveriesLeft ==
  \A i \in DOMAIN v1 : /\ v1[i].state = "queued" => v1[i].tries < MaxDeliver
                       /\ v1[i].state = "dropped" => v1[i].tries = MaxDeliver

\* A consumer without a failure so far has reached every channel before the one
\* it is at, all of them once it is to answer.
WorkerHolds(q, msgs, sent) ==
  /\ q.pc # "idle" /\ q.msg \in DOMAIN msgs /\ q.type = msgs[q.msg].type
  /\ q.pc # "answer" => q.ch \in DOMAIN Channels /\ Notices!Supports(Channels[q.ch], q.type)
  /\ q.pc \in {"page", "track"} => Channels[q.ch] = "pagerduty"
  /\ q.pc = "track" => q.key # None /\ <<"pagerduty", q.msg>> \in sent
  /\ ~q.failed => \A n \in DOMAIN Channels :
       Notices!Supports(Channels[n], q.type) /\ (q.pc = "answer" \/ n < q.ch) =>
         <<Channels[n], q.msg>> \in sent

WorkersHold == \A w \in Notices!Consumers : v2[w].pc # "idle" => WorkerHolds(v2[w], v1, v5)

\* An open incident is tracked, is about to be, or went astray; a consumer that
\* is about to forget a resolved one does not count.
OpenIsHeld ==
  \A k \in v4 :
    \/ \E p \in Processes : v3[p] = k
    \/ \E w \in Notices!Consumers :
         v2[w].pc = "track" /\ v2[w].key = k /\ v2[w].type # Notices!Resolved
    \/ k \in v7

NoticesInv ==
  NoticeTyped /\ DeliveriesLeft /\ WorkersHold /\ OpenIsHeld /\ Notices!AckedReachedAll

LEMMA NoticesInitially == Notices!Init => NoticesInv
<1> SUFFICES ASSUME Notices!Init PROVE NoticesInv
  OBVIOUS
<1>1. v1 = <<>> /\ DOMAIN v1 = {} /\ v4 = {}
  BY DEF Notices!Init
<1>2. \A w \in Notices!Consumers : v2[w].pc = "idle"
  BY DEF Notices!Init, Notices!Idle
<1>3. NoticeTyped
  BY DEF Notices!Init, NoticeTyped
<1> QED
  BY <1>1, <1>2, <1>3 DEF NoticesInv, DeliveriesLeft, WorkersHold, OpenIsHeld,
    Notices!AckedReachedAll

\* Dispatch moves a consumer that has reached every channel up to where it is,
\* or has failed at one, to the next channel or to its answer.
LEMMA DispatchGoesOn ==
  ASSUME NoticeTyped, NEW w \in Notices!Consumers, NEW q \in Workers, NEW failed \in BOOLEAN,
         q.msg \in DOMAIN v1, q.type = v1[q.msg].type, q.ch \in {0} \cup DOMAIN Channels,
         ~q.failed /\ ~failed => \A n \in DOMAIN Channels :
           Notices!Supports(Channels[n], q.type) /\ n <= q.ch => <<Channels[n], q.msg>> \in v5',
         Notices!Dispatch(w, q, failed), DOMAIN v1 \subseteq DOMAIN v1',
         \A i \in DOMAIN v1 : v1'[i].type = v1[i].type
  PROVE  \E r \in Workers : /\ v2' = [v2 EXCEPT ![w] = r]
                            /\ r.pc \in {"answer", "page", "send"} /\ WorkerHolds(r, v1', v5')
<1> DEFINE n == Notices!NextChannel(q.ch, q.type)
           pc == IF n = 0 THEN "answer" ELSE IF Channels[n] = "pagerduty" THEN "page" ELSE "send"
           fails == q.failed \/ failed
           r == [q EXCEPT !.ch = n, !.failed = fails, !.pc = pc]
<1>1. q.ch \in Nat /\ q.failed \in BOOLEAN /\ DOMAIN Channels \subseteq Nat
  BY SurroundAssumption DEF Workers
<1>2. /\ n \in {0} \cup DOMAIN Channels
      /\ n # 0 => n > q.ch /\ Notices!Supports(Channels[n], q.type)
      /\ \A j \in DOMAIN Channels :
           j > q.ch /\ Notices!Supports(Channels[j], q.type) => n # 0 /\ n <= j
  BY <1>1, NextIsFirst
<1>3. /\ pc \in {"answer", "page", "send"} /\ (pc = "answer" <=> n = 0)
      /\ pc = "page" => Channels[n] = "pagerduty"
  OBVIOUS
<1>4. fails \in BOOLEAN /\ (~fails => ~q.failed /\ ~failed)
  BY <1>1
<1> HIDE DEF n, pc, fails
<1>5. /\ r \in Workers /\ r.pc = pc /\ r.ch = n /\ r.msg = q.msg /\ r.type = q.type
      /\ r.failed = fails
  <2>1. n \in Nat
    BY <1>1, <1>2
  <2>2. /\ pc \in {"idle", "answer", "send", "page", "track"}
    BY <1>3
  <2>3. r.pc = pc /\ r.ch = n /\ r.msg = q.msg /\ r.type = q.type /\ r.failed = fails
    BY DEF Workers
  <2>4. r \in Workers
    BY <1>4, <2>1, <2>2 DEF Workers
  <2> QED  BY <2>3, <2>4
<1>6. v2' = [v2 EXCEPT ![w] = r]
  BY DEF Notices!Dispatch, Notices!Become, n, pc, fails
<1> HIDE DEF r
<1>7. ~r.failed => \A j \in DOMAIN Channels :
        Notices!Supports(Channels[j], r.type) /\ (r.pc = "answer" \/ j < r.ch) =>
          <<Channels[j], r.msg>> \in v5'
  <2> SUFFICES ASSUME ~r.failed, NEW j \in DOMAIN Channels, Notices!Supports(Channels[j], q.type),
                      r.pc = "answer" \/ j < n
               PROVE  <<Channels[j], q.msg>> \in v5'
    BY <1>5
  <2>1. j <= q.ch
    BY <1>1, <1>2, <1>3, <1>5
  <2>2. ~q.failed /\ ~failed
    BY <1>4, <1>5
  <2> QED  BY <2>1, <2>2
<1>8. r.msg \in DOMAIN v1' /\ r.type = v1'[r.msg].type
  BY <1>5
<1>9. WorkerHolds(r, v1', v5')
  BY <1>2, <1>3, <1>5, <1>7, <1>8 DEF WorkerHolds
<1> QED  BY <1>3, <1>5, <1>6, <1>9

\* What one message does to the messages' part of the invariant.
LEMMA MessageMoves ==
  ASSUME NoticesInv, NEW i \in DOMAIN v1, NEW m \in Messages, m.type = v1[i].type,
         v1' = [v1 EXCEPT ![i] = m], v5' = v5,
         m.state = "queued" => m.tries < MaxDeliver,
         m.state = "dropped" => m.tries = MaxDeliver,
         m.state = "acked" => \A n \in DOMAIN Channels :
           Notices!Supports(Channels[n], m.type) => <<Channels[n], i>> \in v5
  PROVE  /\ v1' \in Seq(Messages) /\ DOMAIN v1' = DOMAIN v1
         /\ \A j \in DOMAIN v1 : v1'[j].type = v1[j].type
         /\ DeliveriesLeft' /\ Notices!AckedReachedAll'
<1>0. v1 \in Seq(Messages) /\ DeliveriesLeft /\ Notices!AckedReachedAll
  BY DEF NoticesInv, NoticeTyped
<1>1. /\ v1' \in Seq(Messages) /\ DOMAIN v1' = DOMAIN v1 /\ v1'[i] = m
      /\ \A j \in DOMAIN v1 : j # i => v1'[j] = v1[j]
  BY <1>0
<1>2. DeliveriesLeft'
  BY <1>0, <1>1 DEF DeliveriesLeft
<1>3. Notices!AckedReachedAll'
  BY <1>0, <1>1 DEF Notices!AckedReachedAll
<1> QED  BY <1>1, <1>2, <1>3

LEMMA MessagesStay ==
  ASSUME NoticesInv, v1' = v1, v5 \subseteq v5'
  PROVE  DeliveriesLeft' /\ Notices!AckedReachedAll'
  BY DEF NoticesInv, DeliveriesLeft, Notices!AckedReachedAll

\* What one consumer does to the consumers' part.
LEMMA WorkerMoves ==
  ASSUME NoticesInv, NEW w \in Notices!Consumers, NEW q \in {Notices!Idle} \cup Workers,
         v2' = [v2 EXCEPT ![w] = q], q.pc # "idle" => WorkerHolds(q, v1', v5'),
         DOMAIN v1 \subseteq DOMAIN v1', \A i \in DOMAIN v1 : v1'[i].type = v1[i].type,
         v5 \subseteq v5'
  PROVE  /\ v2' \in [Notices!Consumers -> {Notices!Idle} \cup Workers] /\ WorkersHold'
         /\ v2'[w] = q /\ \A u \in Notices!Consumers \ {w} : v2'[u] = v2[u]
<1>0. WorkersHold /\ v2 \in [Notices!Consumers -> {Notices!Idle} \cup Workers]
  BY DEF NoticesInv, NoticeTyped
<1>1. /\ v2' \in [Notices!Consumers -> {Notices!Idle} \cup Workers]
      /\ v2'[w] = q /\ \A u \in Notices!Consumers \ {w} : v2'[u] = v2[u]
  BY <1>0
<1>2. ASSUME NEW u \in Notices!Consumers, v2'[u].pc # "idle"
      PROVE  WorkerHolds(v2'[u], v1', v5')
  <2>1. CASE u = w
    BY <1>1, <1>2, <2>1
  <2>2. CASE u # w
    <3>1. WorkerHolds(v2[u], v1, v5) /\ v2'[u] = v2[u]
      BY <1>0, <1>1, <1>2, <2>2 DEF WorkersHold
    <3> QED  BY <3>1 DEF WorkerHolds
  <2> QED  BY <2>1, <2>2
<1> QED  BY <1>1, <1>2 DEF WorkersHold

LEMMA OpenStays ==
  ASSUME OpenIsHeld, v4' \subseteq v4, v3' = v3, v7 \subseteq v7',
         \A u \in Notices!Consumers :
           v2[u].pc = "track" /\ v2[u].type # Notices!Resolved => v2'[u] = v2[u]
  PROVE  OpenIsHeld'
  BY DEF OpenIsHeld

LEMMA Requeues ==
  ASSUME NEW m \in Messages
  PROVE  /\ [m EXCEPT !.state = Notices!Requeued(m)] \in Messages
         /\ Notices!Requeued(m) \in {"queued", "dropped"}
         /\ Notices!Requeued(m) = "queued" => m.tries < MaxDeliver
         /\ Notices!Requeued(m) = "dropped" => m.tries = MaxDeliver
<1>1. m.tries \in 0 .. MaxDeliver /\ MaxDeliver \in Nat
  BY SurroundAssumption DEF Messages
<1>2. Notices!Requeued(m) = IF m.tries < MaxDeliver THEN "queued" ELSE "dropped"
  BY DEF Notices!Requeued
<1>3. [m EXCEPT !.state = Notices!Requeued(m)] \in Messages
  BY <1>2 DEF Messages
<1> QED  BY <1>1, <1>2, <1>3

\* PagerDuty is asked about failures and resolutions only.
LEMMA PageIsAboutIncidents ==
  ASSUME NEW q, NEW msgs, NEW sent, WorkerHolds(q, msgs, sent), q.pc \in {"page", "track"}
  PROVE  q.type \in Failures \cup {Notices!Resolved}
<1>1. Notices!Supports("pagerduty", q.type)
  BY DEF WorkerHolds
<1> QED  BY <1>1 DEF Notices!Supports, Notices!PagerDutySupports, Failures

\* A request to PagerDuty.
LEMMA NoticesPage ==
  ASSUME NoticesInv, NEW w \in Notices!Consumers, Notices!sendRequest(w)
  PROVE  NoticesInv'
<1>0. /\ NoticeTyped /\ DeliveriesLeft /\ WorkersHold /\ OpenIsHeld /\ None \notin Failures
      /\ v2 \in [Notices!Consumers -> {Notices!Idle} \cup Workers]
      /\ v3 \in [Processes -> {None} \cup Failures] /\ v4 \subseteq Failures
  BY SurroundAssumption DEF NoticesInv, NoticeTyped, Failures
<1>1. PICK q : q = v2[w]
  OBVIOUS
<1>2. q.pc = "page" /\ WorkerHolds(q, v1, v5) /\ UNCHANGED <<v1, v3, v6>>
  BY <1>0, <1>1 DEF Notices!sendRequest, WorkersHold
<1>3. q \in Workers /\ q.type \in Failures \cup {Notices!Resolved}
  BY <1>0, <1>1, <1>2, PageIsAboutIncidents DEF Notices!Idle
<1> DEFINE resolves == q.type = Notices!Resolved
           key == IF resolves THEN Notices!ResolveKey(w[1]) ELSE q.type
<1>4. w[1] \in Processes
  BY DEF Notices!Consumers
<1>5. key \in Failures /\ key # None
  BY <1>0, <1>3, <1>4 DEF Notices!ResolveKey, Failures, Notices!Failures
<1>6. PICK arrived \in BOOLEAN, failed \in BOOLEAN :
        /\ ~failed => arrived
        /\ v4' = IF ~arrived THEN v4 ELSE IF resolves THEN v4 \ {key} ELSE v4 \cup {key}
        /\ v5' = IF arrived THEN v5 \cup {<<"pagerduty", q.msg>>} ELSE v5
        /\ v7' = IF arrived /\ failed /\ ~resolves THEN v7 \cup {key} ELSE v7
        /\ IF failed THEN Notices!Dispatch(w, q, TRUE)
           ELSE v2' = [v2 EXCEPT ![w] = [q EXCEPT !.pc = "track", !.key = key]]
  BY <1>1 DEF Notices!sendRequest, Notices!Become
<1> HIDE DEF resolves, key
<1>7. v5 \subseteq v5' /\ v7 \subseteq v7' /\ v4' \subseteq Failures
  BY <1>0, <1>5, <1>6
<1>8. \E r \in Workers :
        /\ v2' = [v2 EXCEPT ![w] = r] /\ WorkerHolds(r, v1', v5')
        /\ ~failed => r.pc = "track" /\ r.key = key /\ r.type = q.type
  <2>1. CASE failed
    <3>1. q.msg \in DOMAIN v1 /\ q.type = v1[q.msg].type /\ q.ch \in {0} \cup DOMAIN Channels
      BY <1>2 DEF WorkerHolds
    <3>2. Notices!Dispatch(w, q, TRUE)
      BY <1>6, <2>1
    <3> QED  BY <1>0, <1>2, <1>3, <2>1, <3>1, <3>2, DispatchGoesOn
  <2>2. CASE ~failed
    <3> DEFINE r == [q EXCEPT !.pc = "track", !.key = key]
    <3>1. /\ r.pc = "track" /\ r.key = key /\ r.msg = q.msg /\ r.type = q.type /\ r.ch = q.ch
          /\ r.failed = q.failed
      BY <1>3 DEF Workers
    <3>2. r \in Workers
      BY <1>3, <1>5 DEF Workers
    <3>3. v2' = [v2 EXCEPT ![w] = r]
      BY <1>6, <2>2
    <3> HIDE DEF r
    <3>4. <<"pagerduty", q.msg>> \in v5'
      BY <1>6, <2>2
    <3>5. WorkerHolds(r, v1', v5')
      BY <1>2, <1>5, <1>7, <3>1, <3>4 DEF WorkerHolds
    <3> QED  BY <3>1, <3>2, <3>3, <3>5
  <2> QED  BY <2>1, <2>2
<1>9. PICK r \in Workers :
        /\ v2' = [v2 EXCEPT ![w] = r] /\ WorkerHolds(r, v1', v5')
        /\ ~failed => r.pc = "track" /\ r.key = key /\ r.type = q.type
  BY <1>8
<1>10. /\ v2' \in [Notices!Consumers -> {Notices!Idle} \cup Workers] /\ WorkersHold'
       /\ v2'[w] = r /\ \A u \in Notices!Consumers \ {w} : v2'[u] = v2[u]
  BY <1>2, <1>7, <1>9, WorkerMoves
<1>11. NoticeTyped'
  BY <1>0, <1>2, <1>7, <1>10 DEF NoticeTyped
<1>12. DeliveriesLeft' /\ Notices!AckedReachedAll'
  BY <1>2, <1>7, MessagesStay
<1>13. OpenIsHeld'
  <2> SUFFICES ASSUME NEW k \in v4'
               PROVE  \/ \E p \in Processes : v3'[p] = k
                      \/ \E u \in Notices!Consumers :
                           v2'[u].pc = "track" /\ v2'[u].key = k /\ v2'[u].type # Notices!Resolved
                      \/ k \in v7'
    BY DEF OpenIsHeld
  <2>1. CASE k \in v4
    <3>1. ASSUME NEW u \in Notices!Consumers, v2[u].pc = "track"
          PROVE  v2'[u] = v2[u]
      BY <1>1, <1>2, <1>10, <3>1
    <3> QED  BY <1>0, <1>2, <1>7, <2>1, <3>1 DEF OpenIsHeld
  <2>2. CASE k \notin v4
    <3>1. k = key /\ arrived /\ ~resolves
      BY <1>6, <2>2
    <3>2. CASE failed
      BY <1>6, <3>1, <3>2
    <3>3. CASE ~failed
      <4>1. r.pc = "track" /\ r.key = k /\ r.type # Notices!Resolved
        BY <1>9, <3>1, <3>3 DEF resolves
      <4> QED  BY <1>10, <4>1
    <3> QED  BY <3>2, <3>3
  <2> QED  BY <2>1, <2>2
<1> QED  BY <1>10, <1>11, <1>12, <1>13 DEF NoticesInv

\* The entry into the map of incidents.
LEMMA NoticesTrack ==
  ASSUME NoticesInv, NEW w \in Notices!Consumers, Notices!Track(w)
  PROVE  NoticesInv'
<1>0. /\ NoticeTyped /\ DeliveriesLeft /\ WorkersHold /\ OpenIsHeld /\ None \notin Failures
      /\ v2 \in [Notices!Consumers -> {Notices!Idle} \cup Workers]
      /\ v3 \in [Processes -> {None} \cup Failures] /\ v4 \subseteq Failures
      /\ DOMAIN Channels \subseteq Nat
  BY SurroundAssumption DEF NoticesInv, NoticeTyped, Failures
<1>1. PICK q : q = v2[w]
  OBVIOUS
<1>2. q.pc = "track" /\ WorkerHolds(q, v1, v5) /\ UNCHANGED <<v1, v4, v5, v6>>
  BY <1>0, <1>1 DEF Notices!Track, WorkersHold
<1> DEFINE new == IF q.type = Notices!Resolved THEN None ELSE q.key
<1>3. /\ v3' = [v3 EXCEPT ![w[1]] = new] /\ v7' = v7 \cup ((v4 \cap {v3[w[1]]}) \ {new})
      /\ Notices!Dispatch(w, q, FALSE)
  BY <1>1 DEF Notices!Track, Notices!Tracked
<1>4. q \in Workers /\ w[1] \in Processes /\ new \in {None} \cup Failures
  BY <1>0, <1>1, <1>2 DEF Notices!Idle, Notices!Consumers, Workers
<1>5. /\ v3' \in [Processes -> {None} \cup Failures] /\ v3'[w[1]] = new
      /\ \A p \in Processes : p # w[1] => v3'[p] = v3[p]
  BY <1>0, <1>3, <1>4
<1>6. /\ q.msg \in DOMAIN v1 /\ q.type = v1[q.msg].type /\ q.ch \in DOMAIN Channels
      /\ Channels[q.ch] = "pagerduty" /\ <<"pagerduty", q.msg>> \in v5
  BY <1>2 DEF WorkerHolds
<1>7. ~q.failed => \A n \in DOMAIN Channels :
        Notices!Supports(Channels[n], q.type) /\ n <= q.ch => <<Channels[n], q.msg>> \in v5'
  <2>1. \A n \in DOMAIN Channels : n <= q.ch => n < q.ch \/ n = q.ch
    BY <1>0, <1>6
  <2> QED  BY <1>2, <1>6, <2>1 DEF WorkerHolds
<1>8. PICK r \in Workers : /\ v2' = [v2 EXCEPT ![w] = r] /\ r.pc \in {"answer", "page", "send"}
                           /\ WorkerHolds(r, v1', v5')
  BY <1>0, <1>2, <1>3, <1>4, <1>6, <1>7, DispatchGoesOn
<1>9. /\ v2' \in [Notices!Consumers -> {Notices!Idle} \cup Workers] /\ WorkersHold'
      /\ v2'[w] = r /\ \A u \in Notices!Consumers \ {w} : v2'[u] = v2[u]
  BY <1>2, <1>8, WorkerMoves
<1>10. NoticeTyped'
  BY <1>0, <1>2, <1>5, <1>9 DEF NoticeTyped
<1>11. DeliveriesLeft' /\ Notices!AckedReachedAll'
  BY <1>2, MessagesStay
<1>12. OpenIsHeld'
  <2> SUFFICES ASSUME NEW k \in v4, k \notin v7', \A p \in Processes : v3'[p] # k
               PROVE  \E u \in Notices!Consumers :
                        v2'[u].pc = "track" /\ v2'[u].key = k /\ v2'[u].type # Notices!Resolved
    BY <1>2 DEF OpenIsHeld
  <2>1. k # new /\ k \notin v7
    BY <1>3, <1>4, <1>5
  <2>2. \A p \in Processes : v3[p] # k
    BY <1>3, <1>5, <2>1
  <2>3. PICK u \in Notices!Consumers :
          v2[u].pc = "track" /\ v2[u].key = k /\ v2[u].type # Notices!Resolved
    BY <1>0, <2>1, <2>2 DEF OpenIsHeld
  <2>4. u # w
    BY <1>1, <2>1, <2>3
  <2> QED  BY <1>9, <2>3, <2>4
<1> QED  BY <1>9, <1>10, <1>11, <1>12 DEF NoticesInv

\* A message that is taken.
LEMMA NoticesTake ==
  ASSUME NoticesInv, NEW w \in Notices!Consumers, Notices!handleMessage(w)
  PROVE  NoticesInv'
<1>0. /\ NoticeTyped /\ OpenIsHeld /\ v1 \in Seq(Messages) /\ DeliveriesLeft /\ MaxDeliver \in Nat
      /\ v2 \in [Notices!Consumers -> {Notices!Idle} \cup Workers]
  BY SurroundAssumption DEF NoticesInv, NoticeTyped
<1> DEFINE start(i, type) == [pc |-> "idle", msg |-> i, type |-> type, ch |-> 0,
                              failed |-> FALSE, key |-> None]
<1>1. PICK i \in DOMAIN v1 :
        /\ v2[w].pc = "idle" /\ v1[i].state = "queued" /\ UNCHANGED <<v3, v4, v5, v6, v7>>
        /\ IF v1[i].type = "malformed"
             THEN v1' = [v1 EXCEPT ![i].state = "terminated", ![i].tries = @ + 1] /\ v2' = v2
             ELSE /\ v1' = [v1 EXCEPT ![i].state = "out", ![i].tries = @ + 1]
                  /\ Notices!Dispatch(w, start(i, v1[i].type), FALSE)
  BY DEF Notices!handleMessage
<1>2. PICK m : m = v1[i]
  OBVIOUS
<1>3. m \in Messages /\ m.tries \in Nat /\ m.tries < MaxDeliver /\ i \in Nat
  <2>1. m \in Messages /\ i \in Nat
    BY <1>0, <1>2
  <2>2. m.tries \in 0 .. MaxDeliver
    BY <2>1 DEF Messages
  <2>3. m.tries < MaxDeliver
    BY <1>0, <1>1, <1>2 DEF DeliveriesLeft
  <2> QED  BY <1>0, <2>1, <2>2, <2>3
<1> DEFINE state == IF m.type = "malformed" THEN "terminated" ELSE "out"
           taken == [m EXCEPT !.state = state, !.tries = m.tries + 1]
<1>4. taken \in Messages /\ taken.type = m.type /\ taken.state = state
  <2>1. m.tries + 1 \in 0 .. MaxDeliver
    BY <1>0, <1>3
  <2>2. state \in {"terminated", "out"}
    OBVIOUS
  <2> HIDE DEF state
  <2>3. taken \in Messages /\ taken.type = m.type /\ taken.state = state
    BY <1>3, <2>1, <2>2 DEF Messages
  <2> QED  BY <2>3
<1>5. v1' = [v1 EXCEPT ![i] = taken]
  BY <1>0, <1>1, <1>2
<1> HIDE DEF taken
<1>6. /\ v1' \in Seq(Messages) /\ DOMAIN v1' = DOMAIN v1
      /\ \A j \in DOMAIN v1 : v1'[j].type = v1[j].type
      /\ DeliveriesLeft' /\ Notices!AckedReachedAll'
  BY <1>1, <1>2, <1>4, <1>5, MessageMoves
<1>7. CASE m.type = "malformed"
  <2>1. v2' = v2
    BY <1>1, <1>2, <1>7
  <2>2. WorkersHold'
    BY <1>1, <1>6, <2>1 DEF NoticesInv, WorkersHold, WorkerHolds
  <2>3. NoticeTyped'
    BY <1>0, <1>1, <1>6, <2>1 DEF NoticeTyped
  <2>4. OpenIsHeld'
    BY <1>0, <1>1, <2>1, OpenStays
  <2> QED  BY <1>6, <2>2, <2>3, <2>4 DEF NoticesInv
<1>8. CASE m.type # "malformed"
  <2> DEFINE q == start(i, m.type)
  <2>1. q \in Workers /\ q.msg = i /\ q.type = m.type /\ q.ch = 0 /\ q.failed = FALSE
    BY <1>3 DEF Workers, Messages
  <2>2. Notices!Dispatch(w, q, FALSE)
    BY <1>1, <1>2, <1>8
  <2> HIDE DEF q
  <2>3. \A n \in DOMAIN Channels : ~(n <= q.ch)
    BY <2>1, SurroundAssumption
  <2>4. PICK r \in Workers : v2' = [v2 EXCEPT ![w] = r] /\ WorkerHolds(r, v1', v5')
    BY <1>0, <1>2, <1>6, <2>1, <2>2, <2>3, DispatchGoesOn
  <2>5. /\ v2' \in [Notices!Consumers -> {Notices!Idle} \cup Workers] /\ WorkersHold'
        /\ v2'[w] = r /\ \A u \in Notices!Consumers \ {w} : v2'[u] = v2[u]
    BY <1>1, <1>6, <2>4, WorkerMoves
  <2>6. NoticeTyped'
    BY <1>0, <1>1, <1>6, <2>5 DEF NoticeTyped
  <2>7. OpenIsHeld'
    BY <1>0, <1>1, <2>5, OpenStays
  <2> QED  BY <1>6, <2>5, <2>6, <2>7 DEF NoticesInv
<1> QED  BY <1>7, <1>8

\* A message sent to Slack or by email, or an answer to JetStream.
LEMMA NoticesAnswer ==
  ASSUME NoticesInv, NEW w \in Notices!Consumers, Notices!Send(w) \/ Notices!AckOrNak(w)
  PROVE  NoticesInv'
<1>0. /\ NoticeTyped /\ OpenIsHeld /\ WorkersHold /\ v1 \in Seq(Messages)
      /\ v2 \in [Notices!Consumers -> {Notices!Idle} \cup Workers] /\ DOMAIN Channels \subseteq Nat
  BY SurroundAssumption DEF NoticesInv, NoticeTyped
<1>1. PICK q : q = v2[w]
  OBVIOUS
<1>2. q.pc \in {"send", "answer"} /\ WorkerHolds(q, v1, v5) /\ UNCHANGED <<v3, v4, v6, v7>>
  BY <1>0, <1>1 DEF Notices!Send, Notices!AckOrNak, WorkersHold
<1>3. q \in Workers /\ q.msg \in DOMAIN v1 /\ q.type = v1[q.msg].type /\ q.failed \in BOOLEAN
  BY <1>0, <1>1, <1>2 DEF Notices!Idle, Workers, WorkerHolds
<1>4. ASSUME v2' \in [Notices!Consumers -> {Notices!Idle} \cup Workers],
             \A u \in Notices!Consumers \ {w} : v2'[u] = v2[u]
      PROVE  OpenIsHeld'
    BY <1>0, <1>1, <1>2, <1>4, OpenStays
<1>5. CASE Notices!Send(w)
  <2>1. PICK failed \in BOOLEAN :
          /\ v5' = IF failed THEN v5 ELSE v5 \cup {<<Channels[q.ch], q.msg>>}
          /\ Notices!Dispatch(w, q, failed)
    BY <1>1, <1>5 DEF Notices!Send
  <2>2. v5 \subseteq v5' /\ v1' = v1 /\ q.pc = "send" /\ q.ch \in DOMAIN Channels
    BY <1>1, <1>2, <1>5, <2>1 DEF Notices!Send, WorkerHolds
  <2>3. ~q.failed /\ ~failed => \A n \in DOMAIN Channels :
          Notices!Supports(Channels[n], q.type) /\ n <= q.ch => <<Channels[n], q.msg>> \in v5'
    <3>1. \A n \in DOMAIN Channels : n <= q.ch => n < q.ch \/ n = q.ch
      BY <1>0, <2>2
    <3>2. ~failed => <<Channels[q.ch], q.msg>> \in v5'
      BY <2>1
    <3> QED  BY <1>2, <2>2, <3>1, <3>2 DEF WorkerHolds
  <2>4. PICK r \in Workers : v2' = [v2 EXCEPT ![w] = r] /\ WorkerHolds(r, v1', v5')
    <3>1. q.ch \in {0} \cup DOMAIN Channels /\ DOMAIN v1 \subseteq DOMAIN v1'
          /\ \A j \in DOMAIN v1 : v1'[j].type = v1[j].type
      BY <2>2
    <3>2. NoticeTyped /\ q \in Workers /\ q.msg \in DOMAIN v1 /\ q.type = v1[q.msg].type
      BY <1>0, <1>3
    <3> QED  BY <2>1, <2>3, <3>1, <3>2, DispatchGoesOn, Zenon
  <2>5. /\ v2' \in [Notices!Consumers -> {Notices!Idle} \cup Workers] /\ WorkersHold'
        /\ \A u \in Notices!Consumers \ {w} : v2'[u] = v2[u]
    BY <2>2, <2>4, WorkerMoves
  <2>6. NoticeTyped'
    BY <1>0, <1>2, <2>2, <2>5 DEF NoticeTyped
  <2>7. DeliveriesLeft' /\ Notices!AckedReachedAll'
    BY <2>2, MessagesStay
  <2> QED  BY <1>4, <2>5, <2>6, <2>7 DEF NoticesInv
<1>6. CASE Notices!AckOrNak(w)
  <2> DEFINE i == q.msg
  <2>1. PICK m : m = v1[i]
    OBVIOUS
  <2>2. m \in Messages
    BY <1>0, <1>3, <2>1
  <2> DEFINE answer == IF q.failed THEN Notices!Requeued(m) ELSE "acked"
             next == [m EXCEPT !.state = answer]
  <2>3. /\ q.pc = "answer" /\ v2' = [v2 EXCEPT ![w] = Notices!Idle] /\ v5' = v5
        /\ v1' = v1 \/ v1' = [v1 EXCEPT ![i] = next]
    BY <1>1, <1>6, <2>1 DEF Notices!AckOrNak, Notices!Become, Notices!Answer
  <2>4. /\ answer \in {"queued", "dropped", "acked"}
        /\ answer = "queued" => m.tries < MaxDeliver
        /\ answer = "dropped" => m.tries = MaxDeliver
        /\ answer = "acked" => ~q.failed
    BY <2>2, Requeues
  <2> HIDE DEF answer
  <2>5. /\ next \in Messages /\ next.type = m.type /\ next.state = answer /\ next.tries = m.tries
    BY <2>2, <2>4 DEF Messages
  <2>6. answer = "acked" => \A n \in DOMAIN Channels :
          Notices!Supports(Channels[n], next.type) => <<Channels[n], i>> \in v5
    BY <1>2, <1>3, <2>1, <2>3, <2>4, <2>5 DEF WorkerHolds
  <2> HIDE DEF next
  <2>7. /\ v1' \in Seq(Messages) /\ DOMAIN v1' = DOMAIN v1
        /\ \A j \in DOMAIN v1 : v1'[j].type = v1[j].type
        /\ DeliveriesLeft' /\ Notices!AckedReachedAll'
    <3>1. CASE v1' = v1
      BY <1>0, <2>3, <3>1, MessagesStay
    <3>2. CASE v1' = [v1 EXCEPT ![i] = next]
      BY <1>3, <2>1, <2>3, <2>4, <2>5, <2>6, <3>2, MessageMoves
    <3> QED  BY <2>3, <3>1, <3>2
  <2>8. Notices!Idle.pc = "idle"
    BY DEF Notices!Idle
  <2>9. /\ v2' \in [Notices!Consumers -> {Notices!Idle} \cup Workers] /\ WorkersHold'
        /\ \A u \in Notices!Consumers \ {w} : v2'[u] = v2[u]
    BY <2>3, <2>7, <2>8, WorkerMoves
  <2>10. NoticeTyped'
    BY <1>0, <1>2, <2>7, <2>9 DEF NoticeTyped
  <2> QED  BY <1>4, <2>7, <2>9, <2>10 DEF NoticesInv
<1> QED  BY <1>5, <1>6

LEMMA NoticesStep ==
  NoticesInv /\ [Notices!Next]_<<v1, v2, v3, v4, v5, v6, v7>> => NoticesInv'
<1> SUFFICES ASSUME NoticesInv, [Notices!Next]_<<v1, v2, v3, v4, v5, v6, v7>> PROVE NoticesInv'
  OBVIOUS
<1>0. /\ NoticeTyped /\ DeliveriesLeft /\ WorkersHold /\ OpenIsHeld /\ v1 \in Seq(Messages)
      /\ v2 \in [Notices!Consumers -> {Notices!Idle} \cup Workers] /\ MaxDeliver \in Nat \ {0}
      /\ v3 \in [Processes -> {None} \cup Failures] /\ v4 \subseteq Failures /\ None \notin Failures
      /\ Notices!AckedReachedAll
  BY SurroundAssumption DEF NoticesInv, NoticeTyped, Failures
<1>1. CASE UNCHANGED <<v1, v2, v3, v4, v5, v6, v7>>
  BY <1>1 DEF NoticesInv, NoticeTyped, DeliveriesLeft, WorkersHold, OpenIsHeld,
    Notices!AckedReachedAll
<1>2. CASE Notices!Publish
  <2>1. PICK m : /\ v1' = Append(v1, m) /\ m \in Messages /\ m.tries = 0 /\ m.state = "queued"
                 /\ UNCHANGED <<v2, v3, v4, v5, v6, v7>>
    <3>1. PICK e \in Events \cup {<<s, "malformed">> : s \in Notices!Subjects} :
            v1' = Append(v1, [subject |-> e[1], type |-> e[2], tries |-> 0, state |-> "queued"])
      BY <1>2 DEF Notices!Publish
    <3>2. e[1] \in Notices!Subjects /\ e[2] \in Kinds
      BY DEF Kinds, Notices!Subjects
    <3> QED  BY <1>0, <1>2, <3>1, <3>2, SMTT(60) DEF Notices!Publish, Messages
  <2>2. /\ v1' \in Seq(Messages) /\ DOMAIN v1' = DOMAIN v1 \cup {Len(v1) + 1}
        /\ v1'[Len(v1) + 1] = m /\ \A j \in DOMAIN v1 : v1'[j] = v1[j]
    BY <1>0, <2>1
  <2>3. NoticeTyped'
    BY <1>0, <2>1, <2>2 DEF NoticeTyped
  <2>4. DeliveriesLeft'
    BY <1>0, <2>1, <2>2 DEF DeliveriesLeft
  <2>5. Notices!AckedReachedAll'
    BY <1>0, <2>1, <2>2 DEF Notices!AckedReachedAll
  <2>6. WorkersHold'
    BY <1>0, <2>1, <2>2 DEF WorkersHold, WorkerHolds
  <2>7. OpenIsHeld'
    BY <1>0, <2>1, OpenStays
  <2> QED  BY <2>3, <2>4, <2>5, <2>6, <2>7 DEF NoticesInv
<1>3. ASSUME NEW i \in DOMAIN v1, Notices!AckWaitExpires(i)
      PROVE  NoticesInv'
  <2>1. PICK m : m = v1[i]
    OBVIOUS
  <2>2. m \in Messages
    BY <1>0, <2>1
  <2> DEFINE next == [m EXCEPT !.state = Notices!Requeued(m)]
  <2>3. v1' = [v1 EXCEPT ![i] = next] /\ UNCHANGED <<v2, v3, v4, v5, v6, v7>>
    BY <1>3, <2>1 DEF Notices!AckWaitExpires
  <2>4. next.type = m.type /\ next.state = Notices!Requeued(m) /\ next.tries = m.tries
    BY <2>2 DEF Messages
  <2>5. next \in Messages
    BY <2>2, Requeues
  <2> HIDE DEF next
  <2>6. /\ v1' \in Seq(Messages) /\ DOMAIN v1' = DOMAIN v1
        /\ \A j \in DOMAIN v1 : v1'[j].type = v1[j].type
        /\ DeliveriesLeft' /\ Notices!AckedReachedAll'
    BY <2>1, <2>2, <2>3, <2>4, <2>5, Requeues, MessageMoves
  <2>7. WorkersHold'
    BY <1>0, <2>3, <2>6 DEF WorkersHold, WorkerHolds
  <2>8. OpenIsHeld'
    BY <1>0, <2>3, OpenStays
  <2>9. NoticeTyped'
    BY <1>0, <2>3, <2>6 DEF NoticeTyped
  <2> QED  BY <2>6, <2>7, <2>8, <2>9 DEF NoticesInv
<1>4. ASSUME NEW p \in Processes, Notices!Crash(p)
      PROVE  NoticesInv'
  <2>1. /\ v2' = [w \in Notices!Consumers |-> IF w[1] = p THEN Notices!Idle ELSE v2[w]]
        /\ v3' = [v3 EXCEPT ![p] = None] /\ UNCHANGED <<v1, v4, v5>>
        /\ v7 \subseteq v7' /\ ({v3[p]} \ {None}) \subseteq v7'
        /\ \A w \in Notices!Consumers : w[1] = p /\ v2[w].pc = "track" => v2[w].key \in v7'
    BY <1>4 DEF Notices!Crash
  <2>2. /\ \A w \in Notices!Consumers : \/ v2'[w] = Notices!Idle /\ v2'[w].pc = "idle" /\ w[1] = p
                                        \/ v2'[w] = v2[w]
        /\ v2' \in [Notices!Consumers -> {Notices!Idle} \cup Workers]
    BY <1>0, <2>1 DEF Notices!Idle
  <2>3. NoticeTyped'
    BY <1>0, <2>1, <2>2 DEF NoticeTyped
  <2>4. WorkersHold'
    BY <1>0, <2>1, <2>2 DEF WorkersHold
  <2>5. OpenIsHeld'
    <3> SUFFICES ASSUME NEW k \in v4, k \notin v7', \A r \in Processes : v3'[r] # k
                 PROVE  \E u \in Notices!Consumers :
                          v2'[u].pc = "track" /\ v2'[u].key = k /\ v2'[u].type # Notices!Resolved
      BY <2>1 DEF OpenIsHeld
    <3>1. k # None /\ k \notin v7 /\ \A r \in Processes : v3[r] # k
      BY <1>0, <2>1
    <3>2. PICK u \in Notices!Consumers :
            v2[u].pc = "track" /\ v2[u].key = k /\ v2[u].type # Notices!Resolved
      BY <1>0, <3>1 DEF OpenIsHeld
    <3>3. u[1] # p
      BY <2>1, <3>2
    <3> QED  BY <2>2, <3>2, <3>3
  <2> QED  BY <2>1, <2>3, <2>4, <2>5, MessagesStay DEF NoticesInv
<1> QED
  BY <1>1, <1>2, <1>3, <1>4, NoticesTake, NoticesAnswer, NoticesPage, NoticesTrack DEF Notices!Next

LEMMA NoticesMean ==
  NoticesInv => Notices!TypeOK /\ Notices!AckedReachedAll /\ Notices!OpenIsTracked
<1> SUFFICES ASSUME NoticesInv PROVE Notices!TypeOK /\ Notices!OpenIsTracked
  BY DEF NoticesInv
<1>1. NoticeTyped /\ OpenIsHeld
  BY DEF NoticesInv
<1>2. \A i \in DOMAIN v1 : v1[i] \in Messages
  BY <1>1 DEF NoticeTyped
<1>3. Notices!TypeOK
  BY <1>1, <1>2 DEF Notices!TypeOK, NoticeTyped, Messages, Failures
<1> QED  BY <1>1, <1>3 DEF OpenIsHeld, Notices!OpenIsTracked

-----------------------------------------------------------------------------
(* Reported deployments                                                     *)

ReportRow == [by : {"build", "report"}, version : Versions \cup {"build"},
              status : Reports!Terminal \cup {"running"}, done : BOOLEAN, seen : Nat]

\* The workflow events that say something of the build.
Handled == {n \in DOMAIN v5 : Reports!statusFromEvent(v5[n]) # None}

ReportsTyped ==
  /\ v1 \in Seq(ReportRow) /\ v5 \in Seq(Words) /\ DOMAIN v6 = Clients
  /\ v7 \in 0 .. MaxRequests /\ v8 \subseteq Versions /\ v9 \in BOOLEAN

\* A request that is about to insert has searched the rows up to the last there
\* was; one that is about to update holds a build.
SearchesHold ==
  \A r \in Clients :
    /\ v6[r].pc \in {"select", "upsert"} => v6[r].n \in Handled
    /\ v6[r].pc = "upsert" =>
         /\ v6[r].seen \in 0 .. Len(v1) /\ v6[r].row \in {None} \cup Reports!Builds
         /\ v6[r].row = None => \A i \in Reports!Builds : i > v6[r].seen
    /\ v6[r].pc \in {"check", "insert"} => v6[r].version \in Versions
    /\ v6[r].pc = "insert" =>
         /\ v6[r].seen \in 0 .. Len(v1)
         /\ \A i \in DOMAIN v1 : v1[i].version = v6[r].version => i > v6[r].seen

BuildsDone == \A i \in Reports!Builds : v1[i].done <=> v1[i].status \in Reports!Terminal

Last(n) == n \in Handled /\ \A k \in Handled : k <= n

\* One build at most, and one request about it, which has the last of the events
\* and finds that build: as long as workflow events came in order.
InTurn ==
  /\ \A i, j \in Reports!Builds : i = j
  /\ \A r, s \in Reports!Working : r = s
  /\ \A r \in Reports!Working :
       Last(v6[r].n) /\ (v6[r].pc = "upsert" /\ v6[r].row = None => Reports!Builds = {})
  /\ Reports!Working = {} /\ Handled # {} =>
       \E b \in Reports!Builds, n \in Handled :
         Last(n) /\ v1[b].status = Reports!statusFromEvent(v5[n])

InOrder == v9 => InTurn

ReportsInv ==
  /\ ReportsTyped /\ SearchesHold /\ BuildsDone /\ InOrder
  /\ Reports!RowTwiceIsExplained /\ Reports!AnsweredIsRecorded

LEMMA StatusOfEvent ==
  ASSUME NEW w
  PROVE  Reports!statusFromEvent(w) \in Reports!Terminal \cup {"running", None}
  BY DEF Reports!statusFromEvent, Reports!Terminal

LEMMA ReportsInitially == Reports!Init => ReportsInv
<1> SUFFICES ASSUME Reports!Init PROVE ReportsInv
  OBVIOUS
<1>1. /\ v1 = <<>> /\ v5 = <<>> /\ v7 = 0 /\ v8 = {} /\ DOMAIN v6 = Clients
      /\ \A r \in Clients : v6[r].pc = "idle"
  BY DEF Reports!Init, Reports!Idle
<1>2. v9 \in BOOLEAN
  BY Zenon DEF Reports!Init
<1>3. DOMAIN v1 = {} /\ Reports!Builds = {} /\ Handled = {} /\ Reports!Working = {}
  BY <1>1 DEF Reports!Builds, Handled, Reports!Working
<1>4. ReportsTyped
  BY <1>1, <1>2, SurroundAssumption DEF ReportsTyped
<1>5. SearchesHold
  BY <1>1 DEF SearchesHold
<1> QED
  BY <1>1, <1>3, <1>4, <1>5 DEF ReportsInv, BuildsDone, InOrder, InTurn, Reports!RowTwiceIsExplained,
    Reports!AnsweredIsRecorded

\* A step that leaves the rows and the workflow events alone and after which the
\* request is not about to look for or to write a row.
LEMMA ReportsQuiet ==
  ASSUME ReportsInv, NEW r \in Clients, NEW q,
         q.pc \notin {"select", "upsert", "check", "insert"},
         v6' = [v6 EXCEPT ![r] = q], UNCHANGED <<v1, v5>>, v7' \in 0 .. MaxRequests,
         v8' \subseteq Versions, \A v \in v8' : Reports!HasDeploymentForVersion(v),
         v9' \in BOOLEAN, v9' => v9 /\ v6[r].pc \notin {"select", "upsert"}
  PROVE  ReportsInv'
<1>0. /\ ReportsTyped /\ SearchesHold /\ BuildsDone /\ InOrder /\ Reports!RowTwiceIsExplained
      /\ DOMAIN v6 = Clients
  BY DEF ReportsInv, ReportsTyped
<1>1. /\ v6'[r] = q /\ DOMAIN v6' = Clients
      /\ \A s \in Clients \ {r} : v6'[s] = v6[s]
  BY <1>0
<1>2. Reports!Builds' = Reports!Builds /\ Handled' = Handled
  BY DEF Reports!Builds, Handled
<1>3. ReportsTyped'
  BY <1>0, <1>1 DEF ReportsTyped
<1>4. SearchesHold'
  BY <1>0, <1>1, <1>2 DEF SearchesHold
<1>5. BuildsDone'
  BY <1>0, <1>2 DEF BuildsDone
<1>6. InOrder'
  <2> SUFFICES ASSUME v9' PROVE InTurn'
    BY DEF InOrder
  <2>1. v9 /\ Reports!Working' = Reports!Working
    BY <1>1 DEF Reports!Working
  <2>2. \A s \in Reports!Working : v6'[s] = v6[s]
    BY <1>1 DEF Reports!Working
  <2> QED  BY <1>0, <1>2, <2>1, <2>2 DEF InOrder, InTurn, Last
<1>7. Reports!RowTwiceIsExplained' /\ Reports!AnsweredIsRecorded'
  BY <1>0 DEF Reports!RowTwiceIsExplained, Reports!AnsweredIsRecorded,
    Reports!HasDeploymentForVersion
<1> QED  BY <1>3, <1>4, <1>5, <1>6, <1>7 DEF ReportsInv

\* GitHub's next event, or an old one again.
LEMMA ReportsEvent ==
  ASSUME ReportsInv, NEW r \in Clients, Reports!workflow_run(r)
  PROVE  ReportsInv'
<1>0. /\ ReportsTyped /\ SearchesHold /\ BuildsDone /\ InOrder /\ Reports!RowTwiceIsExplained
      /\ Reports!AnsweredIsRecorded /\ DOMAIN v6 = Clients /\ v5 \in Seq(Words) /\ v9 \in BOOLEAN
      /\ v7 \in Nat /\ v7 <= MaxRequests /\ MaxRequests \in Nat
  BY SurroundAssumption DEF ReportsInv, ReportsTyped
<1>1. PICK n :
        /\ n \in DOMAIN v5' /\ v6[r].pc = "idle" /\ v7 < MaxRequests /\ v7' = v7 + 1
        /\ v6' = [v6 EXCEPT ![r] = IF Reports!statusFromEvent(v5'[n]) = None THEN Reports!Idle
                                   ELSE [pc |-> "select", n |-> n]]
        /\ \/ v5' = v5
           \/ n = Len(v5) + 1 /\ \E w \in Words : v5' = Append(v5, w)
    <2>1. \A w \in Words : Append(v5, w) # v5 /\ Len(Append(v5, w)) = Len(v5) + 1
      BY <1>0
    <2>2. PICK n \in IF v5' = v5 THEN DOMAIN v5' ELSE {Len(v5')} :
            Reports!Begin(r, IF Reports!statusFromEvent(v5'[n]) = None THEN Reports!Idle
                             ELSE [pc |-> "select", n |-> n])
      BY DEF Reports!workflow_run
    <2>3. v5' = v5 \/ \E w \in Words : v5' = Append(v5, w)
      BY DEF Reports!workflow_run
    <2>4. CASE v5' = v5
      BY <2>2, <2>4 DEF Reports!Begin, Reports!Become
    <2>5. ASSUME NEW w \in Words, v5' = Append(v5, w)
          PROVE  n = Len(v5) + 1 /\ n \in DOMAIN v5'
      BY <1>0, <2>1, <2>2, <2>5
    <2> QED  BY <2>2, <2>3, <2>4, <2>5 DEF Reports!Begin, Reports!Become
<1>2. /\ UNCHANGED <<v1, v8>> /\ v9' \in BOOLEAN
      /\ v9' => v9 /\ v5' # v5 /\ Reports!Working = {}
  BY Zenon DEF Reports!workflow_run
<1> DEFINE q == IF Reports!statusFromEvent(v5'[n]) = None THEN Reports!Idle
                ELSE [pc |-> "select", n |-> n]
<1>3. /\ Reports!statusFromEvent(v5'[n]) = None => q.pc = "idle"
      /\ Reports!statusFromEvent(v5'[n]) # None => q.pc = "select" /\ q.n = n
  BY DEF Reports!Idle
<1>4. v6' = [v6 EXCEPT ![r] = q]
  BY <1>1
<1> HIDE DEF q
<1>5. /\ v6'[r] = q /\ DOMAIN v6' = Clients
      /\ \A s \in Clients \ {r} : v6'[s] = v6[s]
  BY <1>0, <1>4
<1>6. /\ v5' \in Seq(Words) /\ DOMAIN v5 \subseteq DOMAIN v5' /\ \A k \in DOMAIN v5 : v5'[k] = v5[k]
      /\ v5' # v5 => /\ n = Len(v5) + 1 /\ DOMAIN v5' = DOMAIN v5 \cup {n}
                     /\ n \in Nat /\ \A k \in DOMAIN v5 : k \in Nat /\ k < n
  <2>1. CASE v5' = v5
    BY <1>0, <2>1
  <2>2. CASE v5' # v5
    <3>1. PICK w \in Words : v5' = Append(v5, w) /\ n = Len(v5) + 1
      BY <1>1, <2>2
    <3> QED  BY <1>0, <3>1
  <2> QED  BY <2>1, <2>2
<1>7. /\ Handled \subseteq Handled' /\ (q.pc = "select" => n \in Handled')
      /\ Reports!Builds' = Reports!Builds
  BY <1>1, <1>2, <1>3, <1>6 DEF Handled, Reports!Builds
<1>8. ReportsTyped'
  BY <1>0, <1>1, <1>2, <1>5, <1>6 DEF ReportsTyped
<1>9. SearchesHold'
  <2>1. q.pc \in {"idle", "select"} /\ (q.pc = "select" => q.n \in Handled')
    BY <1>3, <1>7
  <2> QED  BY <1>0, <1>2, <1>5, <1>7, <2>1 DEF SearchesHold
<1>10. BuildsDone'
  BY <1>0, <1>2, <1>7 DEF BuildsDone
<1>11. InOrder'
  <2> SUFFICES ASSUME v9' PROVE InTurn'
    BY DEF InOrder
  <2>1. /\ v9 /\ v5' # v5 /\ Reports!Working = {} /\ InTurn
    BY <1>0, <1>2 DEF InOrder
  <2>2. \A s \in Clients \ {r} : v6'[s].pc \notin {"select", "upsert"}
    BY <1>5, <2>1 DEF Reports!Working
  <2>3. CASE q.pc = "select"
    <3>1. Reports!Working' = {r} /\ v6'[r].n = n /\ v6'[r].pc = "select"
      BY <1>3, <1>5, <2>2, <2>3 DEF Reports!Working
    <3>2. Last(n)'
      BY <1>6, <1>7, <2>1, <2>3 DEF Last, Handled
    <3> QED  BY <1>7, <2>1, <3>1, <3>2 DEF InTurn, Last
  <2>4. CASE q.pc # "select"
    <3>1. Reports!Working' = {} /\ Reports!statusFromEvent(v5'[n]) = None
      BY <1>3, <1>5, <2>2, <2>4 DEF Reports!Working
    <3>2. Handled' = Handled
      BY <1>6, <2>1, <3>1 DEF Handled
    <3>3. \A k \in Handled : v5'[k] = v5[k]
      BY <1>6 DEF Handled
    <3> QED  BY <1>2, <1>7, <2>1, <3>1, <3>2, <3>3 DEF InTurn, Last
  <2> QED  BY <2>3, <2>4
<1>12. Reports!RowTwiceIsExplained' /\ Reports!AnsweredIsRecorded'
  BY <1>0, <1>2 DEF Reports!RowTwiceIsExplained, Reports!AnsweredIsRecorded,
    Reports!HasDeploymentForVersion
<1> QED  BY <1>8, <1>9, <1>10, <1>11, <1>12 DEF ReportsInv

\* The search for the build, and the search for a version.
LEMMA ReportsSearch ==
  ASSUME ReportsInv, NEW r \in Clients,
         Reports!SelectBuild(r) \/ Reports!UpsertStatus(r) \/ Reports!CheckVersion(r)
  PROVE  ReportsInv'
<1>0. /\ ReportsTyped /\ SearchesHold /\ BuildsDone /\ InOrder /\ Reports!RowTwiceIsExplained
      /\ Reports!AnsweredIsRecorded /\ DOMAIN v6 = Clients /\ v1 \in Seq(ReportRow)
      /\ v7 \in Nat /\ v7 <= MaxRequests /\ MaxRequests \in Nat /\ v8 \subseteq Versions
      /\ v9 \in BOOLEAN /\ v7 \in 0 .. MaxRequests
  BY SurroundAssumption DEF ReportsInv, ReportsTyped
<1>1. CASE /\ Reports!CheckVersion(r) /\ Reports!HasDeploymentForVersion(v6[r].version)
  <2>1. /\ v6' = [v6 EXCEPT ![r] = Reports!Idle] /\ v8' = v8 \cup {v6[r].version}
        /\ UNCHANGED <<v1, v5, v7, v9>> /\ v6[r].pc = "check"
    BY <1>1 DEF Reports!CheckVersion, Reports!Become
  <2>2. Reports!Idle.pc = "idle"
    BY DEF Reports!Idle
  <2>3. v6[r].version \in Versions
    BY <1>0, <2>1 DEF SearchesHold
  <2>4. \A v \in v8' : Reports!HasDeploymentForVersion(v)
    BY <1>0, <1>1, <2>1 DEF Reports!AnsweredIsRecorded
  <2>5. v9' \in BOOLEAN /\ (v9' => v9)
    BY <1>0, <2>1
  <2> QED  BY <1>0, <2>1, <2>2, <2>3, <2>4, <2>5, ReportsQuiet
<1>2. CASE \/ Reports!SelectBuild(r) \/ Reports!UpsertStatus(r)
           \/ Reports!CheckVersion(r) /\ ~Reports!HasDeploymentForVersion(v6[r].version)
  <2>1. PICK q :
          /\ v6' = [v6 EXCEPT ![r] = q] /\ UNCHANGED <<v1, v5, v8, v9>> /\ v7' \in 0 .. MaxRequests
          /\ \/ /\ v6[r].pc = "select" /\ q.pc = "upsert" /\ q.n = v6[r].n /\ q.seen = Len(v1)
                /\ q.row \in {None} \cup Reports!Builds
                /\ q.row = None => Reports!Builds = {}
             \/ /\ v6[r].pc = "idle" /\ q.pc = "check" /\ q.version \in Versions
             \/ /\ v6[r].pc = "check" /\ q.pc = "insert" /\ q.version = v6[r].version
                /\ q.seen = Len(v1) /\ ~Reports!HasDeploymentForVersion(q.version)
    <3>1. CASE Reports!SelectBuild(r)
      <4>1. PICK i \in Reports!Builds \cup (IF Reports!Builds = {} THEN {None} ELSE {}) :
              v6' = [v6 EXCEPT ![r] = [pc |-> "upsert", n |-> v6[r].n, row |-> i, seen |-> Len(v1)]]
        BY <3>1 DEF Reports!SelectBuild, Reports!FindBuild, Reports!Become
      <4>2. i \in {None} \cup Reports!Builds /\ (i = None => Reports!Builds = {})
        <5>1. Reports!Builds \subseteq Nat
          BY <1>0 DEF Reports!Builds
        <5> QED  BY <4>1, <5>1, SurroundAssumption
      <4>3. v6[r].pc = "select" /\ UNCHANGED <<v1, v5, v7, v8, v9>>
        BY <3>1 DEF Reports!SelectBuild
      <4> DEFINE q == [pc |-> "upsert", n |-> v6[r].n, row |-> i, seen |-> Len(v1)]
      <4>4. /\ q.pc = "upsert" /\ q.n = v6[r].n /\ q.seen = Len(v1) /\ q.row = i
            /\ v6' = [v6 EXCEPT ![r] = q]
        BY <4>1
      <4> HIDE DEF q
      <4> QED  BY <1>0, <4>2, <4>3, <4>4
    <3>2. CASE Reports!UpsertStatus(r)
      <4>1. PICK v \in Versions :
              /\ v6[r].pc = "idle" /\ v7 < MaxRequests /\ v7' = v7 + 1
              /\ v6' = [v6 EXCEPT ![r] = [pc |-> "check", version |-> v]]
        BY <3>2 DEF Reports!UpsertStatus, Reports!Begin, Reports!Become
      <4>2. UNCHANGED <<v1, v5, v8, v9>> /\ v7' \in 0 .. MaxRequests
        BY <1>0, <3>2, <4>1 DEF Reports!UpsertStatus
      <4> DEFINE q == [pc |-> "check", version |-> v]
      <4>3. q.pc = "check" /\ q.version \in Versions /\ v6' = [v6 EXCEPT ![r] = q]
        BY <4>1
      <4> HIDE DEF q
      <4> QED  BY <4>1, <4>2, <4>3
    <3>3. CASE Reports!CheckVersion(r) /\ ~Reports!HasDeploymentForVersion(v6[r].version)
      <4>1. /\ v6[r].pc = "check" /\ UNCHANGED <<v1, v5, v7, v8, v9>>
            /\ v6' = [v6 EXCEPT ![r] = [pc |-> "insert", version |-> v6[r].version,
                                        seen |-> Len(v1)]]
        BY <3>3 DEF Reports!CheckVersion, Reports!Become
      <4> DEFINE q == [pc |-> "insert", version |-> v6[r].version, seen |-> Len(v1)]
      <4>2. /\ q.pc = "insert" /\ q.version = v6[r].version /\ q.seen = Len(v1)
            /\ v6' = [v6 EXCEPT ![r] = q]
        BY <4>1
      <4> HIDE DEF q
      <4> QED  BY <1>0, <3>3, <4>1, <4>2
    <3> QED  BY <1>2, <3>1, <3>2, <3>3
  <2>2. /\ v6'[r] = q /\ DOMAIN v6' = Clients
        /\ \A s \in Clients \ {r} : v6'[s] = v6[s]
    BY <1>0, <2>1
  <2>3. Reports!Builds' = Reports!Builds /\ Handled' = Handled /\ Len(v1) \in 0 .. Len(v1)
    BY <1>0, <2>1 DEF Reports!Builds, Handled
  <2>4. ReportsTyped'
    BY <1>0, <2>1, <2>2 DEF ReportsTyped
  <2>5. SearchesHold'
    <3>1. CASE q.pc = "upsert"
      BY <1>0, <2>1, <2>2, <2>3, <3>1 DEF SearchesHold
    <3>2. CASE q.pc = "check"
      BY <1>0, <2>1, <2>2, <2>3, <3>2 DEF SearchesHold
    <3>3. CASE q.pc = "insert"
      <4>1. \A i \in DOMAIN v1 : v1[i].version # q.version
        BY <2>1, <3>3 DEF Reports!HasDeploymentForVersion
      <4> QED  BY <1>0, <2>1, <2>2, <2>3, <3>3, <4>1 DEF SearchesHold
    <3> QED  BY <2>1, <3>1, <3>2, <3>3
  <2>6. BuildsDone'
    BY <1>0, <2>1, <2>3 DEF BuildsDone
  <2>7. InOrder'
    <3> SUFFICES ASSUME v9' PROVE InTurn'
      BY DEF InOrder
    <3>1. Reports!Working' = Reports!Working
      BY <2>1, <2>2 DEF Reports!Working
    <3>2. InTurn
      BY <1>0, <2>1 DEF InOrder
    <3>3. \A s \in Reports!Working :
            /\ v6'[s].n = v6[s].n
            /\ v6'[s].pc = "upsert" /\ v6'[s].row = None =>
                 Reports!Builds = {}
      BY <2>1, <2>2, <3>2 DEF Reports!Working, InTurn
    <3> QED  BY <2>1, <2>3, <3>1, <3>2, <3>3 DEF InTurn, Last
  <2>8. Reports!RowTwiceIsExplained' /\ Reports!AnsweredIsRecorded'
    BY <1>0, <2>1 DEF Reports!RowTwiceIsExplained, Reports!AnsweredIsRecorded,
      Reports!HasDeploymentForVersion
  <2> QED  BY <2>4, <2>5, <2>6, <2>7, <2>8 DEF ReportsInv
<1> QED  BY <1>1, <1>2

\* A new row: the build's, or one of a version that a search did not find.
LEMMA ReportsInsert ==
  ASSUME ReportsInv, NEW r \in Clients, NEW new \in ReportRow, v1' = Append(v1, new),
         v6' = [v6 EXCEPT ![r] = Reports!Idle], UNCHANGED <<v5, v7, v9>>,
         \/ /\ v6[r].pc = "upsert" /\ v6[r].row = None /\ v8' = v8
            /\ new.by = "build" /\ new.seen = v6[r].seen
            /\ new.status = Reports!statusFromEvent(v5[v6[r].n])
            /\ new.done <=> new.status \in Reports!Terminal
         \/ /\ v6[r].pc = "insert" /\ v8' = v8 \cup {new.version}
            /\ new.by = "report" /\ new.version = v6[r].version /\ new.seen = v6[r].seen
  PROVE  ReportsInv'
<1> DEFINE n == Len(v1) + 1
<1>0. /\ ReportsTyped /\ SearchesHold /\ BuildsDone /\ InOrder /\ Reports!RowTwiceIsExplained
      /\ Reports!AnsweredIsRecorded /\ DOMAIN v6 = Clients /\ v1 \in Seq(ReportRow)
      /\ v8 \subseteq Versions
  BY DEF ReportsInv, ReportsTyped
<1>1. /\ v1' \in Seq(ReportRow) /\ Len(v1') = n /\ DOMAIN v1' = DOMAIN v1 \cup {n} /\ v1'[n] = new
      /\ (\A i \in DOMAIN v1 : v1'[i] = v1[i] /\ i \in Nat /\ i < n) /\ n \in Nat /\ n \notin DOMAIN v1
      /\ n = Len(v1) + 1 /\ DOMAIN v1 = 1 .. Len(v1) /\ Len(v1) \in Nat
  BY <1>0
<1> HIDE DEF n
<1>2. /\ v6'[r].pc = "idle" /\ DOMAIN v6' = Clients
      /\ \A s \in Clients \ {r} : v6'[s] = v6[s]
  BY <1>0 DEF Reports!Idle
<1>3. /\ Reports!Builds' = Reports!Builds \cup (IF new.by = "build" THEN {n} ELSE {})
      /\ Reports!Builds \subseteq DOMAIN v1 /\ n \notin Reports!Builds
      /\ \A i \in Reports!Builds : v1'[i] = v1[i]
  BY <1>1 DEF Reports!Builds
<1>4. Handled' = Handled
  BY DEF Handled
<1>5. ReportsTyped'
  <2>1. v6[r].pc = "insert" => v6[r].version \in Versions
    BY <1>0 DEF SearchesHold
  <2>2. v8' \subseteq Versions
    BY <1>0, <2>1
  <2> QED  BY <1>0, <1>1, <1>2, <2>2 DEF ReportsTyped
<1>6. SearchesHold'
  <2> SUFFICES ASSUME NEW s \in Clients, s # r
               PROVE  /\ v6[s].pc \in {"select", "upsert"} => v6[s].n \in Handled
                      /\ v6[s].pc = "upsert" =>
                           /\ v6[s].seen \in 0 .. Len(v1') /\ v6[s].row \in {None} \cup Reports!Builds'
                           /\ v6[s].row = None => \A i \in Reports!Builds' : i > v6[s].seen
                      /\ v6[s].pc \in {"check", "insert"} => v6[s].version \in Versions
                      /\ v6[s].pc = "insert" =>
                           /\ v6[s].seen \in 0 .. Len(v1')
                           /\ \A i \in DOMAIN v1' : v1'[i].version = v6[s].version => i > v6[s].seen
    BY <1>2, <1>4 DEF SearchesHold
  <2>1. \A k \in 0 .. Len(v1) : k \in 0 .. Len(v1') /\ n > k
    BY <1>1
  <2>2. v6[s].pc = "upsert" =>
          /\ v6[s].seen \in 0 .. Len(v1) /\ v6[s].row \in {None} \cup Reports!Builds
          /\ v6[s].row = None => \A i \in Reports!Builds : i > v6[s].seen
    BY <1>0 DEF SearchesHold
  <2>3. v6[s].pc = "insert" =>
          /\ v6[s].seen \in 0 .. Len(v1)
          /\ \A i \in DOMAIN v1 : v1[i].version = v6[s].version => i > v6[s].seen
    BY <1>0 DEF SearchesHold
  <2>4. /\ v6[s].pc \in {"select", "upsert"} => v6[s].n \in Handled
        /\ v6[s].pc \in {"check", "insert"} => v6[s].version \in Versions
    BY <1>0 DEF SearchesHold
  <2> QED  BY <1>1, <1>3, <2>1, <2>2, <2>3, <2>4
<1>7. BuildsDone'
  BY <1>0, <1>1, <1>3 DEF BuildsDone
<1>8. InOrder'
  <2> SUFFICES ASSUME v9 PROVE InTurn'
    BY DEF InOrder
  <2>1. InTurn
    BY <1>0 DEF InOrder
  <2>2. CASE new.by = "build"
    <3>1. r \in Reports!Working /\ v6[r].row = None /\ v6[r].pc = "upsert"
      BY <2>2 DEF Reports!Working
    <3>2. Reports!Builds = {} /\ Last(v6[r].n) /\ Reports!Working = {r}
      BY <2>1, <3>1 DEF InTurn
    <3>3. Reports!Builds' = {n} /\ Reports!Working' = {}
      BY <1>2, <1>3, <2>2, <3>2 DEF Reports!Working
    <3> QED  BY <1>1, <1>4, <2>2, <3>1, <3>2, <3>3 DEF InTurn, Last
  <2>3. CASE new.by # "build"
    <3>1. Reports!Builds' = Reports!Builds
      BY <1>3, <2>3
    <3>2. Reports!Working' = Reports!Working /\ \A s \in Reports!Working : v6'[s] = v6[s]
      BY <1>2, <2>3 DEF Reports!Working
    <3> QED  BY <1>3, <1>4, <2>1, <3>1, <3>2 DEF InTurn, Last
  <2> QED  BY <2>2, <2>3
<1>9. Reports!RowTwiceIsExplained'
  <2> SUFFICES ASSUME NEW i \in DOMAIN v1', NEW j \in DOMAIN v1', i < j,
                      v1'[i].by = v1'[j].by, v1'[i].version = v1'[j].version
               PROVE  v1'[j].seen < i
    BY DEF Reports!RowTwiceIsExplained
  <2>1. i \in DOMAIN v1
    BY <1>1
  <2>2. CASE j \in DOMAIN v1
    BY <1>0, <1>1, <2>1, <2>2 DEF Reports!RowTwiceIsExplained
  <2>3. CASE j = n
    <3>1. v1[i].by = new.by /\ v1[i].version = new.version /\ v1'[j].seen = v6[r].seen
      BY <1>1, <2>1, <2>3
    <3>2. i > v6[r].seen /\ v6[r].seen \in Nat
      BY <1>0, <1>1, <2>1, <3>1 DEF SearchesHold, Reports!Builds
    <3> QED  BY <1>1, <2>1, <3>1, <3>2
  <2> QED  BY <1>1, <2>2, <2>3
<1>10. Reports!AnsweredIsRecorded'
  <2>1. \A v : Reports!HasDeploymentForVersion(v) => \E i \in DOMAIN v1' : v1'[i].version = v
    BY <1>1 DEF Reports!HasDeploymentForVersion
  <2>2. \E i \in DOMAIN v1' : v1'[i].version = new.version
    BY <1>1
  <2> SUFFICES ASSUME NEW v \in v8' PROVE \E i \in DOMAIN v1' : v1'[i].version = v
    BY DEF Reports!AnsweredIsRecorded, Reports!HasDeploymentForVersion
  <2> QED  BY <1>0, <2>1, <2>2 DEF Reports!AnsweredIsRecorded
<1> QED  BY <1>5, <1>6, <1>7, <1>8, <1>9, <1>10 DEF ReportsInv

\* The build's row takes the status of another event.
LEMMA ReportsUpdate ==
  ASSUME ReportsInv, NEW r \in Clients, v6[r].pc = "upsert", v6[r].row # None,
         Reports!UpsertBuild(r)
  PROVE  ReportsInv'
<1> DEFINE i == v6[r].row
           s == Reports!statusFromEvent(v5[v6[r].n])
           next == [v1[i] EXCEPT !.status = s, !.done = (s # "running")]
<1>0. /\ ReportsTyped /\ SearchesHold /\ BuildsDone /\ InOrder /\ Reports!RowTwiceIsExplained
      /\ Reports!AnsweredIsRecorded /\ DOMAIN v6 = Clients /\ v1 \in Seq(ReportRow)
  BY DEF ReportsInv, ReportsTyped
<1>1. /\ v1' = [v1 EXCEPT ![i] = next]
      /\ v6' = [v6 EXCEPT ![r] = Reports!Idle] /\ UNCHANGED <<v5, v7, v8, v9>>
  BY DEF Reports!UpsertBuild, Reports!Become
<1>2. i \in Reports!Builds /\ i \in DOMAIN v1 /\ v6[r].n \in Handled /\ v1[i] \in ReportRow
  BY <1>0 DEF SearchesHold, Reports!Builds
<1>3. s \in Reports!Terminal \cup {"running"}
  BY <1>2, StatusOfEvent DEF Handled
<1>4. s # "running" <=> s \in Reports!Terminal
  BY <1>3 DEF Reports!Terminal
<1>5. /\ next \in ReportRow /\ next.status = s /\ (next.done <=> s \in Reports!Terminal)
      /\ next.by = v1[i].by /\ next.version = v1[i].version /\ next.seen = v1[i].seen
  BY <1>2, <1>3, <1>4 DEF ReportRow
<1> HIDE DEF next
<1>6. /\ v1' \in Seq(ReportRow) /\ DOMAIN v1' = DOMAIN v1 /\ Len(v1') = Len(v1) /\ v1'[i] = next
      /\ \A j \in DOMAIN v1 : j # i => v1'[j] = v1[j]
      /\ \A j \in DOMAIN v1 : /\ v1'[j].by = v1[j].by /\ v1'[j].version = v1[j].version
                              /\ v1'[j].seen = v1[j].seen
  BY <1>0, <1>1, <1>2, <1>5
<1>7. /\ v6'[r].pc = "idle" /\ DOMAIN v6' = Clients
      /\ \A c \in Clients \ {r} : v6'[c] = v6[c]
  BY <1>0, <1>1 DEF Reports!Idle
<1>8. Reports!Builds' = Reports!Builds /\ Handled' = Handled
  BY <1>1, <1>6 DEF Reports!Builds, Handled
<1>9. ReportsTyped'
  BY <1>0, <1>1, <1>6, <1>7 DEF ReportsTyped
<1>10. SearchesHold'
  BY <1>0, <1>6, <1>7, <1>8 DEF SearchesHold
<1>11. BuildsDone'
  BY <1>0, <1>5, <1>6, <1>8 DEF BuildsDone, Reports!Builds
<1>12. InOrder'
  <2> SUFFICES ASSUME v9 PROVE InTurn'
    BY <1>1 DEF InOrder
  <2>1. InTurn /\ r \in Reports!Working
    BY <1>0 DEF InOrder, Reports!Working
  <2>2. Last(v6[r].n) /\ Reports!Working = {r}
    BY <2>1 DEF InTurn
  <2>3. Reports!Working' = {}
    BY <1>7, <2>2 DEF Reports!Working
  <2>4. v1'[i].status = Reports!statusFromEvent(v5[v6[r].n])
    BY <1>5, <1>6
  <2> QED  BY <1>1, <1>2, <1>8, <2>1, <2>2, <2>3, <2>4 DEF InTurn, Last
<1>13. Reports!RowTwiceIsExplained' /\ Reports!AnsweredIsRecorded'
  BY <1>0, <1>1, <1>6 DEF Reports!RowTwiceIsExplained, Reports!AnsweredIsRecorded,
    Reports!HasDeploymentForVersion
<1> QED  BY <1>9, <1>10, <1>11, <1>12, <1>13 DEF ReportsInv

LEMMA ReportsStep ==
  ReportsInv /\ [Reports!Next]_<<v1, v2, v3, v4, v5, v6, v7, v8, v9>> => ReportsInv'
<1> SUFFICES ASSUME ReportsInv, [Reports!Next]_<<v1, v2, v3, v4, v5, v6, v7, v8, v9>>
             PROVE  ReportsInv'
  OBVIOUS
<1>0. /\ ReportsTyped /\ SearchesHold /\ BuildsDone /\ InOrder /\ Reports!RowTwiceIsExplained
      /\ Reports!AnsweredIsRecorded /\ v1 \in Seq(ReportRow) /\ v7 \in Nat /\ v7 <= MaxRequests
      /\ v8 \subseteq Versions /\ v9 \in BOOLEAN /\ MaxRequests \in Nat /\ v7 \in 0 .. MaxRequests
      /\ \A v \in v8 : Reports!HasDeploymentForVersion(v)
  BY SurroundAssumption DEF ReportsInv, ReportsTyped, Reports!AnsweredIsRecorded
<1>1. CASE UNCHANGED <<v1, v5, v6, v7, v8, v9>>
  <2>1. Reports!Builds' = Reports!Builds /\ Handled' = Handled /\ Reports!Working' = Reports!Working
    BY <1>1 DEF Reports!Builds, Handled, Reports!Working
  <2>2. ReportsTyped' /\ SearchesHold' /\ BuildsDone'
    BY <1>0, <1>1, <2>1 DEF ReportsTyped, SearchesHold, BuildsDone
  <2>3. InOrder'
    BY <1>0, <1>1, <2>1 DEF InOrder, InTurn, Last
  <2>4. Reports!RowTwiceIsExplained' /\ Reports!AnsweredIsRecorded'
    BY <1>0, <1>1 DEF Reports!RowTwiceIsExplained, Reports!AnsweredIsRecorded,
      Reports!HasDeploymentForVersion
  <2> QED  BY <2>2, <2>3, <2>4 DEF ReportsInv
<1>2. ASSUME NEW r \in Clients,
             \/ Reports!providerWebhook(r) \/ Reports!RecordEvent(r) \/ Reports!Ingest(r)
             \/ Reports!CutOff(r)
      PROVE  ReportsInv'
  <2>1. PICK q : /\ q.pc \notin {"select", "upsert", "check", "insert"}
                 /\ v6' = [v6 EXCEPT ![r] = q] /\ UNCHANGED <<v1, v5, v8>>
                 /\ v7' \in 0 .. MaxRequests
                 /\ \/ v6[r].pc \in {"idle", "record", "create"} /\ v9' = v9
                    \/ v9' = (v9 /\ r \notin Reports!Working)
    <3>0. Reports!Idle.pc = "idle"
      BY DEF Reports!Idle
    <3>1. CASE Reports!providerWebhook(r)
      <4>1. PICK e : /\ v6[r].pc = "idle" /\ v7 < MaxRequests /\ v7' = v7 + 1
                     /\ v6' = [v6 EXCEPT ![r] = IF ~v4 \/ e = None \/ e.env # "mapped" THEN Reports!Idle
                                                ELSE [pc |-> "record", key |-> <<e.version, e.type>>]]
                     /\ UNCHANGED <<v1, v5, v8, v9>>
        BY <3>1 DEF Reports!providerWebhook, Reports!Begin, Reports!Become
      <4> DEFINE q == IF ~v4 \/ e = None \/ e.env # "mapped" THEN Reports!Idle
                      ELSE [pc |-> "record", key |-> <<e.version, e.type>>]
      <4>2. q.pc \in {"idle", "record"} /\ v6' = [v6 EXCEPT ![r] = q]
        BY <3>0, <4>1
      <4>3. v7' \in 0 .. MaxRequests
        BY <1>0, <4>1
      <4> HIDE DEF q
      <4> QED  BY <4>1, <4>2, <4>3
    <3>2. CASE Reports!RecordEvent(r)
      <4> DEFINE q == IF ~v4 THEN Reports!Idle
                      ELSE IF v6[r].key[2] # Reports!Succeeded THEN Reports!Idle
                      ELSE IF Reports!Replayed(v6[r].key) THEN [pc |-> "answer", key |-> v6[r].key]
                      ELSE [pc |-> "create", key |-> v6[r].key]
      <4>1. /\ v6[r].pc = "record" /\ v6' = [v6 EXCEPT ![r] = q] /\ UNCHANGED <<v1, v5, v7, v8, v9>>
        BY <3>2 DEF Reports!RecordEvent, Reports!Become
      <4>2. q.pc \in {"idle", "answer", "create"}
        BY <3>0
      <4> HIDE DEF q
      <4> QED  BY <1>0, <4>1, <4>2
    <3>3. CASE Reports!Ingest(r)
      BY <1>0, <3>0, <3>3 DEF Reports!Ingest, Reports!Become
    <3>4. CASE Reports!CutOff(r)
      <4>1. /\ v6' = [v6 EXCEPT ![r] = Reports!Idle] /\ UNCHANGED <<v1, v5, v7, v8>>
            /\ v9' = (v9 /\ r \notin Reports!Working)
        BY <3>4 DEF Reports!CutOff, Reports!Become
      <4> QED  BY <1>0, <3>0, <4>1
    <3> QED  BY <1>2, <3>1, <3>2, <3>3, <3>4
  <2>2. v9' \in BOOLEAN /\ (v9' => v9 /\ v6[r].pc \notin {"select", "upsert"})
    <3>1. CASE v6[r].pc \in {"idle", "record", "create"} /\ v9' = v9
      BY <1>0, <3>1
    <3>2. CASE v9' = (v9 /\ r \notin Reports!Working)
      BY <3>2, Zenon DEF Reports!Working
    <3> QED  BY <2>1, <3>1, <3>2
  <2> QED  BY <1>0, <2>1, <2>2, ReportsQuiet
<1>3. ASSUME NEW r \in Clients, Reports!UpsertBuild(r)
      PROVE  ReportsInv'
  <2>1. CASE v6[r].row # None
    BY <1>3, <2>1, ReportsUpdate DEF Reports!UpsertBuild
  <2>2. CASE v6[r].row = None
    <3> DEFINE s == Reports!statusFromEvent(v5[v6[r].n])
               new == [by |-> "build", version |-> "build", status |-> s,
                       done |-> s # "running", seen |-> v6[r].seen]
    <3>1. /\ v6[r].pc = "upsert" /\ v1' = Append(v1, new) /\ v6' = [v6 EXCEPT ![r] = Reports!Idle]
          /\ UNCHANGED <<v5, v7, v8, v9>>
      BY <1>3, <2>2 DEF Reports!UpsertBuild, Reports!Become
    <3>2. v6[r].n \in Handled /\ v6[r].seen \in Nat
      BY <1>0, <3>1 DEF SearchesHold
    <3>3. s \in Reports!Terminal \cup {"running"}
      BY <3>2, StatusOfEvent DEF Handled
    <3>4. s # "running" <=> s \in Reports!Terminal
      BY <3>3 DEF Reports!Terminal
    <3>5. /\ new \in ReportRow /\ new.by = "build" /\ new.status = s /\ new.seen = v6[r].seen
          /\ new.done <=> new.status \in Reports!Terminal
      BY <3>2, <3>3, <3>4 DEF ReportRow
    <3> HIDE DEF new
    <3> QED  BY <2>2, <3>1, <3>5, ReportsInsert
  <2> QED  BY <2>1, <2>2
<1>4. ASSUME NEW r \in Clients, Reports!CreateRecorded(r)
      PROVE  ReportsInv'
  <2> DEFINE new == [by |-> "report", version |-> v6[r].version, status |-> "completed",
                     done |-> TRUE, seen |-> v6[r].seen]
  <2>1. /\ v6[r].pc = "insert" /\ v1' = Append(v1, new) /\ v8' = v8 \cup {v6[r].version}
        /\ v6' = [v6 EXCEPT ![r] = Reports!Idle] /\ UNCHANGED <<v5, v7, v9>>
    BY <1>4 DEF Reports!CreateRecorded, Reports!Become
  <2>2. v6[r].version \in Versions /\ v6[r].seen \in Nat
    BY <1>0, <2>1 DEF SearchesHold
  <2>3. /\ new \in ReportRow /\ new.by = "report" /\ new.version = v6[r].version
        /\ new.seen = v6[r].seen
    BY <2>2 DEF ReportRow, Reports!Terminal
  <2> HIDE DEF new
  <2> QED  BY <2>1, <2>3, ReportsInsert
<1>5. CASE Reports!deleteIntegration
  BY <1>1, <1>5 DEF Reports!deleteIntegration
<1> QED
  BY <1>1, <1>2, <1>3, <1>4, <1>5, ReportsEvent, ReportsSearch DEF Reports!Next

LEMMA ReportsCardinality == \A S : Reports!Cardinality(S) = Cardinality(S)
  BY Zenon DEF Reports!Cardinality, Cardinality

\* The invariant says what ReportsHold says.
LEMMA ReportsMean ==
  ReportsInv => /\ Reports!TypeOK /\ Reports!RowTwiceIsExplained /\ Reports!AnsweredIsRecorded
                /\ Reports!BuildIsCurrent
<1> SUFFICES ASSUME ReportsInv PROVE Reports!TypeOK /\ Reports!BuildIsCurrent
  BY DEF ReportsInv
<1>0. ReportsTyped /\ BuildsDone /\ InOrder /\ v1 \in Seq(ReportRow) /\ Reports!Builds \subseteq Nat
  BY DEF ReportsInv, ReportsTyped, Reports!Builds
<1>1. Reports!TypeOK
  <2>1. ASSUME NEW i \in DOMAIN v1
        PROVE  v1[i].status \in Reports!Terminal \cup {"running"}
    <3>1. v1[i] \in ReportRow
      BY <1>0
    <3> QED  BY <3>1 DEF ReportRow
  <2> QED  BY <1>0, <2>1 DEF Reports!TypeOK, ReportsTyped
<1>2. ASSUME v9, Reports!Working = {}, Handled # {}
      PROVE  /\ Reports!Cardinality(Reports!Builds) = 1
             /\ \E n \in Handled : /\ \A k \in Handled : k <= n
                                   /\ v1[Reports!LatestBuild].status = Reports!statusFromEvent(v5[n])
  <2>1. InTurn
    BY <1>0, <1>2 DEF InOrder
  <2>2. PICK b \in Reports!Builds, n \in Handled :
          Last(n) /\ v1[b].status = Reports!statusFromEvent(v5[n])
    BY <1>2, <2>1 DEF InTurn
  <2>3. Reports!Builds = {b}
    BY <2>1 DEF InTurn
  <2>4. Reports!Cardinality(Reports!Builds) = 1
    BY <2>3, FS_Singleton, ReportsCardinality
  <2>5. Reports!LatestBuild \in {b}
    <3>1. b \in Nat /\ Reports!Builds # {}
      BY <1>0, <2>3
    <3>2. Reports!LatestBuild = CHOOSE i \in Reports!Builds : \A j \in Reports!Builds : j <= i
      BY <3>1 DEF Reports!LatestBuild
    <3>3. \E i \in Reports!Builds : \A j \in Reports!Builds : j <= i
      BY <2>3, <3>1
    <3> QED  BY <2>3, <3>2, <3>3
  <2> QED  BY <2>2, <2>4, <2>5 DEF Last
<1>3. Reports!BuildIsCurrent
  BY <1>0, <1>2 DEF Reports!BuildIsCurrent, BuildsDone, Handled
<1> QED  BY <1>1, <1>3

-----------------------------------------------------------------------------
(* Agent: v1 the server's version, v2 the snapshot, v3 the callback, v4 the *)
(* reporter, v5 the agent's id, v6 its row, v7 the heartbeats, v8 those     *)
(* under way, v9 the events, v10 the heartbeats sent, v11 those cut off     *)

Pair == {"blue", "green"}
Splits == {w \in [Pair -> 0 .. 100] : w["blue"] + w["green"] = 100}

BeatRows == [at : Nat, version : Nat, weights : Splits, torn : BOOLEAN]
BeatRequests ==
  [at : Nat, pc : {"insert", "seen", "prune"}, version : Nat, weights : Splits, torn : BOOLEAN]

AgentTyped ==
  /\ v1 \in Nat \ {0} /\ v10 \in Nat /\ v11 \in Nat
  /\ v2 \in [version : {v1}, clusters : {Pair}, routes : Splits]
  /\ v3 \in {Sidecar!Done} \cup [pc : {"weights"}, weights : Splits] \cup [pc : {"version"}]
  /\ v4 \in [weights : Splits, version : 0 .. v1]
  /\ v6 \in {None, "connected"} /\ (v5 = "random" => v6 = None)
  /\ v7 \subseteq BeatRows /\ IsFiniteSet(v7) /\ v8 \subseteq BeatRequests /\ IsFiniteSet(v8)

\* The reporter's weights and version are those served, or the callback brings them.
ReporterShows ==
  /\ v3.pc = "idle" /\ v4.version # 0 => v4.version = v1 /\ v4.weights = v2.routes
  /\ v3.pc = "weights" => v3.weights = v2.routes
  /\ v3.pc = "version" => v4.weights = v2.routes

\* A heartbeat taken outside a callback, stored or under way, shows weights of its
\* version; those of the present version are the ones served.
Shown(x, w) == \E b \in v7 \cup v8 : ~b.torn /\ b.version = x /\ b.weights = w
BeatsAgree ==
  \A x \in Nat \ {0}, w \in Splits : Shown(x, w) =>
    /\ x <= v1 /\ (x = v1 => w = v2.routes)
    /\ \A z \in Splits : Shown(x, z) => z = w

\* Heartbeats have times of their own, and one to be inserted is not there yet.
BeatsDiffer ==
  /\ \A b \in v7 \cup v8 : b.at <= v10
  /\ \A a, b \in v7 : a.at = b.at => a = b
  /\ \A g, h \in v8 : g.at = h.at => g = h
  /\ \A b \in v7, h \in v8 : b.at = h.at => h.pc # "insert"

\* A heartbeat too many is that of a request on its way to pruning, or of one cut off.
Inserted == {h \in v8 : h.pc # "insert"}
BeatsCounted ==
  /\ Cardinality(v7) <= Keep + v11 + Cardinality(Inserted)
  /\ v6 = None => v7 = {}

AgentInv == AgentTyped /\ ReporterShows /\ BeatsAgree /\ BeatsDiffer /\ BeatsCounted

LEMMA SidecarCardinality == \A S : Sidecar!Cardinality(S) = Cardinality(S)
  BY Zenon DEF Sidecar!Cardinality, Cardinality

LEMMA SplitsOfPercents ==
  /\ Sidecar!initialWeights \in Splits
  /\ \A p \in AgentPercents : Sidecar!newWeights(p) \in Splits
  BY SurroundAssumption DEF Splits, Pair, Sidecar!initialWeights, Sidecar!newWeights

LEMMA RoutesOfWeights == \A w \in Splits : Sidecar!makeRouteConfig(w) = w
  BY DEF Splits, Sidecar!makeRouteConfig

LEMMA AgentInitially == Sidecar!Init => AgentInv
<1> SUFFICES ASSUME Sidecar!Init PROVE AgentInv
  OBVIOUS
<1>0. /\ v1 = 1 /\ v2 = Sidecar!BuildSnapshot(1, Sidecar!initialWeights) /\ v3 = Sidecar!Done
      /\ v4 = [weights |-> Sidecar!initialWeights, version |-> 0] /\ v5 \in {"row", "random"}
      /\ v6 = (IF v5 = "row" THEN "connected" ELSE None) /\ v7 = {} /\ v8 = {} /\ v10 = 0 /\ v11 = 0
  BY DEF Sidecar!Init
<1>1. v2 = [version |-> 1, clusters |-> Pair, routes |-> Sidecar!initialWeights]
  BY <1>0, SplitsOfPercents, RoutesOfWeights DEF Sidecar!BuildSnapshot, Sidecar!makeClusters, Pair
<1>2. AgentTyped
  BY <1>0, <1>1, SplitsOfPercents, FS_EmptySet DEF AgentTyped
<1>3. ReporterShows /\ BeatsAgree /\ BeatsDiffer
  BY <1>0 DEF ReporterShows, BeatsAgree, Shown, BeatsDiffer, Sidecar!Done
<1>4. BeatsCounted
  <2>1. Inserted = {}
    BY <1>0 DEF Inserted
  <2>2. Cardinality({}) = 0
    BY FS_EmptySet
  <2> QED  BY <1>0, <2>1, <2>2, SurroundAssumption DEF BeatsCounted
<1> QED  BY <1>2, <1>3, <1>4 DEF AgentInv

\* The heartbeats of the registry and on the way show what they showed before.
LEMMA AgreeKept ==
  ASSUME BeatsAgree, UNCHANGED <<v1, v2>>,
         \A b \in v7' \cup v8' : \E a \in v7 \cup v8 :
           a.torn = b.torn /\ a.version = b.version /\ a.weights = b.weights
  PROVE  BeatsAgree'
<1>1. ASSUME NEW x, NEW w, Shown(x, w)'
      PROVE  Shown(x, w)
  <2>1. PICK b \in v7' \cup v8' : ~b.torn /\ b.version = x /\ b.weights = w
    BY <1>1 DEF Shown
  <2>2. PICK a \in v7 \cup v8 : a.torn = b.torn /\ a.version = b.version /\ a.weights = b.weights
    BY <2>1
  <2> QED  BY <2>1, <2>2 DEF Shown
<1> QED  BY <1>1 DEF BeatsAgree

\* The callback's steps: the registry stays.
LEMMA AgentServes ==
  ASSUME AgentInv, Sidecar!UpdateWeights \/ Sidecar!SetWeights \/ Sidecar!SetConfigVersion
  PROVE  AgentInv'
<1>0. /\ AgentTyped /\ ReporterShows /\ BeatsAgree /\ BeatsDiffer /\ BeatsCounted
      /\ v1 \in Nat /\ v1 # 0 /\ v7 \subseteq BeatRows /\ v8 \subseteq BeatRequests
  BY DEF AgentInv, AgentTyped
<1>1. UNCHANGED <<v5, v6, v7, v8, v10, v11>>
  BY DEF Sidecar!UpdateWeights, Sidecar!SetWeights, Sidecar!SetConfigVersion
<1>2. BeatsDiffer' /\ BeatsCounted'
  BY <1>0, <1>1 DEF BeatsDiffer, BeatsCounted, Inserted
<1>3. CASE Sidecar!UpdateWeights
  <2>1. PICK p \in AgentPercents :
          /\ v3.pc = "idle" /\ v1' = v1 + 1 /\ v4' = v4
          /\ v2' = Sidecar!BuildSnapshot(v1 + 1, Sidecar!newWeights(p))
          /\ v3' = [pc |-> "weights", weights |-> Sidecar!newWeights(p)]
    BY <1>3 DEF Sidecar!UpdateWeights
  <2> DEFINE w == Sidecar!newWeights(p)
  <2>2. w \in Splits
    BY SplitsOfPercents
  <2>3. v2' = [version |-> v1 + 1, clusters |-> Pair, routes |-> w]
    BY <2>1, <2>2, RoutesOfWeights DEF Sidecar!BuildSnapshot, Sidecar!makeClusters, Pair
  <2> HIDE DEF w
  <2>4. AgentTyped'
    BY <1>0, <1>1, <2>1, <2>2, <2>3 DEF AgentTyped, w
  <2>5. ReporterShows'
    BY <2>1, <2>3 DEF ReporterShows, w
  <2>6. BeatsAgree'
    <3> SUFFICES ASSUME NEW x \in Nat \ {0}, NEW y \in Splits, Shown(x, y)'
                 PROVE  /\ x <= v1' /\ (x = v1' => y = v2'.routes)
                        /\ \A z \in Splits : Shown(x, z)' => z = y
      BY DEF BeatsAgree
    <3>1. \A z : Shown(x, z)' <=> Shown(x, z)
      BY <1>1 DEF Shown
    <3>2. x <= v1 /\ \A z \in Splits : Shown(x, z) => z = y
      BY <1>0, <3>1 DEF BeatsAgree
    <3> QED  BY <1>0, <2>1, <3>1, <3>2
  <2> QED  BY <1>2, <2>4, <2>5, <2>6 DEF AgentInv
<1>4. CASE Sidecar!SetWeights \/ Sidecar!SetConfigVersion
  <2>1. /\ v1' = v1 /\ v2' = v2
        /\ \/ /\ v3.pc = "weights" /\ v4' = [v4 EXCEPT !.weights = v3.weights]
              /\ v3' = [pc |-> "version"]
           \/ /\ v3.pc = "version" /\ v4' = [v4 EXCEPT !.version = v1]
              /\ v3' = Sidecar!Done
    BY <1>4 DEF Sidecar!SetWeights, Sidecar!SetConfigVersion
  <2>2. BeatsAgree'
    BY <1>0, <1>1, <2>1, AgreeKept
  <2>3. AgentTyped'
    BY <1>0, <1>1, <2>1 DEF AgentTyped, Sidecar!Done
  <2>4. ReporterShows'
    BY <1>0, <2>1 DEF AgentTyped, ReporterShows, Sidecar!Done
  <2> QED  BY <1>2, <2>2, <2>3, <2>4 DEF AgentInv
<1> QED  BY <1>3, <1>4

\* A heartbeat is taken: within a callback it is torn, otherwise it shows what is
\* served.
LEMMA AgentSends == ASSUME AgentInv, Sidecar!buildPayload PROVE AgentInv'
<1>0. /\ AgentTyped /\ ReporterShows /\ BeatsAgree /\ BeatsDiffer /\ BeatsCounted
      /\ v1 \in Nat /\ v1 # 0 /\ v10 \in Nat /\ v7 \subseteq BeatRows /\ v8 \subseteq BeatRequests
  BY DEF AgentInv, AgentTyped
<1> DEFINE new == [at |-> v10 + 1, pc |-> "insert", version |-> v4.version,
                   weights |-> v4.weights, torn |-> v3.pc # "idle"]
<1>1. /\ v10' = v10 + 1 /\ v8' \in {v8, v8 \cup {new}}
      /\ UNCHANGED <<v1, v2, v3, v4, v5, v6, v7, v11>>
  BY DEF Sidecar!buildPayload
<1>2. new \in BeatRequests
  <2>1. v4.version \in Nat /\ v4.weights \in Splits
    BY <1>0 DEF AgentTyped
  <2>2. (v3.pc # "idle") \in BOOLEAN
    OBVIOUS
  <2> QED  BY <1>0, <2>1, <2>2 DEF BeatRequests
<1>3. /\ new.at = v10 + 1 /\ new.pc = "insert" /\ new.version = v4.version
      /\ new.weights = v4.weights /\ (~new.torn => v3.pc = "idle")
  OBVIOUS
<1> HIDE DEF new
<1>4. IsFiniteSet(v8')
  BY <1>0, <1>1, FS_AddElement DEF AgentTyped
<1>5. AgentTyped'
  BY <1>0, <1>1, <1>2, <1>4 DEF AgentTyped
<1>6. ReporterShows'
  BY <1>0, <1>1 DEF ReporterShows
<1>7. BeatsDiffer'
  <2>1. \A b \in v7 \cup v8 : b.at \in Nat /\ b.at <= v10
    BY <1>0 DEF BeatsDiffer, BeatRows, BeatRequests
  <2>2. \A b \in v7 \cup v8 : b.at <= v10' /\ b.at # new.at
    BY <1>0, <1>1, <1>3, <2>1
  <2> QED  BY <1>0, <1>1, <1>3, <2>2 DEF BeatsDiffer
<1>8. BeatsCounted'
  <2>1. Inserted' = Inserted
    BY <1>1, <1>3 DEF Inserted
  <2> QED  BY <1>0, <1>1, <2>1 DEF BeatsCounted
<1>9. BeatsAgree'
  <2> SUFFICES ASSUME NEW x \in Nat \ {0}, NEW w \in Splits, Shown(x, w)'
               PROVE  /\ x <= v1 /\ (x = v1 => w = v2.routes)
                      /\ \A z \in Splits : Shown(x, z)' => z = w
    BY <1>1 DEF BeatsAgree
  <2>1. ASSUME NEW z \in Splits, Shown(x, z)'
        PROVE  Shown(x, z) \/ (x = v1 /\ z = v2.routes)
    <3>1. PICK b \in v7' \cup v8' : ~b.torn /\ b.version = x /\ b.weights = z
      BY <2>1 DEF Shown
    <3>2. CASE b \in v7 \cup v8
      BY <3>1, <3>2 DEF Shown
    <3>3. CASE b = new
      BY <1>0, <1>3, <3>1, <3>3 DEF ReporterShows
    <3> QED  BY <1>1, <3>2, <3>3
  <2>2. \A z \in Splits : Shown(x, z) =>
          /\ x <= v1 /\ (x = v1 => z = v2.routes)
          /\ \A y \in Splits : Shown(x, y) => y = z
    BY <1>0 DEF BeatsAgree
  <2> QED  BY <1>0, <2>1, <2>2
<1> QED  BY <1>5, <1>6, <1>7, <1>8, <1>9 DEF AgentInv

Moved(h, pc) == [h EXCEPT !.pc = pc]

\* A request moves on or ends: what it shows and its time stay.
LEMMA StepMoves ==
  ASSUME AgentInv, NEW h \in v8, NEW pc \in {"seen", "prune", "done"}, Sidecar!Step(h, pc)
  PROVE  /\ v8' = (v8 \ {h}) \cup (IF pc = "done" THEN {} ELSE {Moved(h, pc)})
         /\ Moved(h, pc).at = h.at /\ Moved(h, pc).pc = pc /\ Moved(h, pc).version = h.version
         /\ Moved(h, pc).weights = h.weights /\ Moved(h, pc).torn = h.torn
         /\ v8' \subseteq BeatRequests /\ IsFiniteSet(v8')
<1>0. v8 \subseteq BeatRequests /\ IsFiniteSet(v8) /\ h \in BeatRequests
  BY DEF AgentInv, AgentTyped
<1> DEFINE next == Moved(h, pc)
<1>1. /\ next.at = h.at /\ next.pc = pc /\ next.version = h.version
      /\ next.weights = h.weights /\ next.torn = h.torn
      /\ (pc # "done" => next \in BeatRequests)
  BY <1>0 DEF BeatRequests, Moved
<1>2. v8' = (v8 \ {h}) \cup (IF pc = "done" THEN {} ELSE {next})
  BY DEF Sidecar!Step, Moved
<1> HIDE DEF next
<1>3. IsFiniteSet(v8 \ {h}) /\ IsFiniteSet((v8 \ {h}) \cup {next})
  <2>1. IsFiniteSet(v8 \ {h})
    BY <1>0, FS_RemoveElement
  <2> QED  BY <2>1, FS_AddElement
<1>4. v8' \subseteq BeatRequests /\ IsFiniteSet(v8')
  <2>1. CASE pc = "done"
    BY <1>0, <1>2, <1>3, <2>1
  <2>2. CASE pc # "done"
    BY <1>0, <1>1, <1>2, <1>3, <2>2
  <2> QED  BY <2>1, <2>2
<1> QED  BY <1>1, <1>2, <1>4 DEF next

\* The heartbeats that are kept are no more than Keep: none that is kept is later
\* than the earliest of them, except those counted.
LEMMA NewestAreFew ==
  ASSUME AgentInv
  PROVE  Sidecar!Newest \subseteq v7 /\ Cardinality(Sidecar!Newest) <= Keep
<1> DEFINE N == Sidecar!Newest
           Later(b) == {c \in v7 : c.at > b.at}
<1>0. /\ v7 \subseteq BeatRows /\ IsFiniteSet(v7) /\ Keep \in Nat
      /\ \A a, b \in v7 : a.at = b.at => a = b
  BY SurroundAssumption DEF AgentInv, AgentTyped, BeatsDiffer
<1>1. \A b \in N : b \in v7 /\ Cardinality(Later(b)) < Keep
  BY SidecarCardinality DEF Sidecar!Newest
<1>2. N \subseteq v7 /\ IsFiniteSet(N)
  BY <1>0, <1>1, FS_Subset
<1> HIDE DEF N
<1>3. CASE N = {}
  <2>1. Cardinality(N) = 0
    BY <1>3, FS_EmptySet
  <2> QED  BY <1>0, <1>2, <2>1 DEF N
<1>4. CASE N # {}
  <2> DEFINE T == {b.at : b \in N}
  <2>1. T \subseteq Nat /\ T # {}
    BY <1>0, <1>2, <1>4 DEF BeatRows
  <2> HIDE DEF T
  <2>2. PICK k \in T : \A j \in T : k <= j
    <3>1. \E k \in T : \A j \in T : ~(<<j, k>> \in OpToRel(<, Nat))
      BY <2>1, WFMin, NatLessThanWellFounded
    <3>2. \E k \in T : \A j \in T : ~(j < k)
      BY <2>1, <3>1 DEF OpToRel
    <3> QED  BY <2>1, <3>2
  <2>3. PICK b \in N : b.at = k
    BY DEF T
  <2>4. \A c \in N : b.at <= c.at
    BY <2>2, <2>3 DEF T
  <2>5. N \ {b} \subseteq Later(b)
    BY <1>0, <1>2, <2>4 DEF BeatRows
  <2>6. /\ IsFiniteSet(Later(b)) /\ Cardinality(N \ {b}) <= Cardinality(Later(b))
    <3>1. IsFiniteSet(Later(b))
      BY <1>0, FS_Subset
    <3> HIDE DEF Later
    <3> QED  BY <2>5, <3>1, FS_Subset
  <2>7. Cardinality(N \ {b}) = Cardinality(N) - 1
    BY <1>2, FS_RemoveElement
  <2>8. /\ Cardinality(N) \in Nat /\ Cardinality(Later(b)) \in Nat
        /\ Cardinality(Later(b)) < Keep
    BY <1>1, <1>2, <2>6, FS_CardinalityType
  <2> HIDE DEF Later
  <2>9. Cardinality(N) <= Keep
    BY <1>0, <2>6, <2>7, <2>8
  <2> QED  BY <1>2, <2>9 DEF N
<1> QED  BY <1>3, <1>4

\* The requests that have inserted, when one of them ends or one more has.
LEMMA InsertedEnds ==
  ASSUME AgentInv, NEW h \in v8, NEW pc \in {"seen", "prune", "done"}, Sidecar!Step(h, pc)
  PROVE  /\ Cardinality(Inserted) \in Nat /\ Cardinality(Inserted') \in Nat
         /\ Cardinality(Inserted') = Cardinality(Inserted) +
              (IF h.pc = "insert" THEN (IF pc = "done" THEN 0 ELSE 1)
               ELSE (IF pc = "done" THEN 0 - 1 ELSE 0))
<1> DEFINE next == Moved(h, pc)
           rest == Inserted \ {h}
<1>0. /\ v8 \subseteq BeatRequests /\ IsFiniteSet(v8)
      /\ \A g \in v8 : g.at = h.at => g = h
  BY DEF AgentInv, AgentTyped, BeatsDiffer
<1>1. /\ v8' = (v8 \ {h}) \cup (IF pc = "done" THEN {} ELSE {next})
      /\ next.at = h.at /\ next.pc = pc /\ IsFiniteSet(v8')
  BY StepMoves
<1> HIDE DEF next
<1>2. IsFiniteSet(Inserted) /\ IsFiniteSet(Inserted')
  BY <1>0, <1>1, FS_Subset DEF Inserted
<1>3. next \notin v8 \ {h}
  BY <1>0, <1>1
<1>4. /\ h.pc = "insert" => Inserted = rest
      /\ h.pc # "insert" => h \in Inserted
      /\ pc = "done" => Inserted' = rest
      /\ pc # "done" => Inserted' = rest \cup {next}
      /\ next \notin rest
  BY <1>1, <1>3 DEF Inserted
<1>5. /\ Cardinality(Inserted) \in Nat /\ Cardinality(Inserted') \in Nat
  BY <1>2, FS_CardinalityType
<1>6. IsFiniteSet(rest) /\ (h \in Inserted => Cardinality(rest) = Cardinality(Inserted) - 1)
  BY <1>2, FS_RemoveElement
<1> HIDE DEF rest
<1>7. Cardinality(rest \cup {next}) = Cardinality(rest) + 1
  BY <1>4, <1>6, FS_AddElement
<1>8. Cardinality(Inserted) = Cardinality(rest) + (IF h.pc = "insert" THEN 0 ELSE 1)
  <2>1. CASE h.pc = "insert"
    BY <1>4, <1>5, <2>1
  <2>2. CASE h.pc # "insert"
    BY <1>4, <1>5, <1>6, <2>2
  <2> QED  BY <2>1, <2>2
<1>9. Cardinality(Inserted') = Cardinality(rest) + (IF pc = "done" THEN 0 ELSE 1)
  <2>1. CASE pc = "done"
    BY <1>4, <1>5, <2>1
  <2>2. CASE pc # "done"
    BY <1>4, <1>7, <2>2
  <2> QED  BY <2>1, <2>2
<1>10. Cardinality(rest) \in Nat
  BY <1>6, FS_CardinalityType
<1> QED  BY <1>5, <1>8, <1>9, <1>10

\* The server's steps leave callback and reporter alone.
LEMMA AgentRecords ==
  ASSUME AgentInv, NEW h \in v8,
         \/ Sidecar!InsertHeartbeat(h) \/ Sidecar!UpdateLastSeen(h)
         \/ Sidecar!PruneHeartbeats(h) \/ Sidecar!CutOff(h)
  PROVE  AgentInv'
<1>0. /\ AgentTyped /\ ReporterShows /\ BeatsAgree /\ BeatsDiffer /\ BeatsCounted
      /\ v7 \subseteq BeatRows /\ v8 \subseteq BeatRequests /\ IsFiniteSet(v7) /\ h \in BeatRequests
      /\ v11 \in Nat /\ Keep \in Nat
  BY SurroundAssumption DEF AgentInv, AgentTyped
<1> DEFINE beatRow == [at |-> h.at, version |-> h.version, weights |-> h.weights, torn |-> h.torn]
<1>1. /\ beatRow \in BeatRows /\ beatRow.at = h.at /\ beatRow.version = h.version /\ beatRow.weights = h.weights
      /\ beatRow.torn = h.torn
  BY <1>0 DEF BeatRows, BeatRequests
<1> HIDE DEF beatRow
<1>2. UNCHANGED <<v1, v2, v3, v4, v5, v10>>
  BY DEF Sidecar!InsertHeartbeat, Sidecar!UpdateLastSeen, Sidecar!PruneHeartbeats, Sidecar!CutOff
<1>3. v6' \in {None, "connected"} /\ v11' \in Nat /\ (v6 = None => v6' = None)
  BY <1>0 DEF AgentTyped, Sidecar!InsertHeartbeat, Sidecar!UpdateLastSeen, Sidecar!PruneHeartbeats,
     Sidecar!CutOff
<1>4. \/ v7' \subseteq v7
      \/ h.pc = "insert" /\ v6 # None /\ v7' = v7 \cup {beatRow} /\ Sidecar!Step(h, "seen")
  BY NewestAreFew DEF Sidecar!InsertHeartbeat, Sidecar!UpdateLastSeen, Sidecar!PruneHeartbeats,
     Sidecar!CutOff, beatRow
<1>5. \E pc \in {"seen", "prune", "done"} : Sidecar!Step(h, pc)
  BY DEF Sidecar!InsertHeartbeat, Sidecar!UpdateLastSeen, Sidecar!PruneHeartbeats, Sidecar!CutOff
<1>6. PICK pc \in {"seen", "prune", "done"} : Sidecar!Step(h, pc)
  BY <1>5
<1> DEFINE next == Moved(h, pc)
<1>7. /\ v8' \subseteq (v8 \ {h}) \cup {next} /\ next.at = h.at /\ next.pc = pc
      /\ next.version = h.version /\ next.weights = h.weights /\ next.torn = h.torn
      /\ v8' \subseteq BeatRequests /\ IsFiniteSet(v8')
  BY <1>6, StepMoves
<1> HIDE DEF next
<1>8. v7' \subseteq BeatRows /\ IsFiniteSet(v7')
  BY <1>0, <1>1, <1>4, FS_Subset, FS_AddElement
<1>9. AgentTyped'
  BY <1>0, <1>2, <1>3, <1>7, <1>8 DEF AgentTyped
<1>10. ReporterShows'
  BY <1>0, <1>2 DEF ReporterShows
<1>11. BeatsAgree'
  BY <1>0, <1>1, <1>2, <1>4, <1>7, AgreeKept
<1>12. BeatsDiffer'
  <2>1. h.at <= v10
    BY <1>0 DEF BeatsDiffer
  <2>2. \A b \in v7' \cup v8' : b.at <= v10'
    BY <1>0, <1>1, <1>2, <1>4, <1>7, <2>1 DEF BeatsDiffer
  <2>3. \A a, b \in v7' : a.at = b.at => a = b
    BY <1>0, <1>1, <1>4 DEF BeatsDiffer
  <2>4. \A f, g \in v8' : f.at = g.at => f = g
    BY <1>0, <1>7 DEF BeatsDiffer
  <2>5. \A b \in v7', g \in v8' : b.at = g.at => g.pc # "insert"
    BY <1>0, <1>1, <1>4, <1>7 DEF BeatsDiffer
  <2> QED  BY <2>2, <2>3, <2>4, <2>5 DEF BeatsDiffer
<1>13. BeatsCounted'
  <2> DEFINE n == Cardinality(Inserted)
  <2>0. /\ Cardinality(v7) <= Keep + v11 + n /\ (v6 = None => v7 = {})
        /\ Cardinality(v7) \in Nat /\ Cardinality(v7') \in Nat /\ n \in Nat /\ n' \in Nat
        /\ Cardinality({}) = 0
    BY <1>0, <1>6, <1>8, FS_CardinalityType, FS_EmptySet, InsertedEnds DEF BeatsCounted
  <2> HIDE DEF n
  <2>1. CASE Sidecar!InsertHeartbeat(h)
    <3>1. v6' = v6 /\ v11' = v11 /\ h.pc = "insert"
      BY <2>1 DEF Sidecar!InsertHeartbeat
    <3>2. CASE v6 = None
      <4>1. v7' = v7 /\ Sidecar!Step(h, "done")
        BY <2>1, <3>2 DEF Sidecar!InsertHeartbeat
      <4>2. n' = n
        BY <2>0, <3>1, <4>1, InsertedEnds DEF n
      <4> QED  BY <2>0, <3>1, <3>2, <4>1, <4>2 DEF BeatsCounted, n
    <3>3. CASE v6 # None
      <4>1. v7' = v7 \cup {beatRow} /\ Sidecar!Step(h, "seen")
        BY <2>1, <3>3 DEF Sidecar!InsertHeartbeat, beatRow
      <4>2. n' = n + 1
        BY <3>1, <4>1, InsertedEnds DEF n
      <4>3. Cardinality(v7') <= Cardinality(v7) + 1
        BY <1>0, <2>0, <4>1, FS_AddElement
      <4>4. Cardinality(v7') <= Keep + v11 + n'
        BY <1>0, <2>0, <4>2, <4>3
      <4> QED  BY <3>1, <3>3, <4>4 DEF BeatsCounted, n
    <3> QED  BY <3>2, <3>3
  <2>2. CASE Sidecar!UpdateLastSeen(h)
    <3>1. v7' = v7 /\ v11' = v11 /\ h.pc = "seen" /\ (v6' = None <=> v6 = None)
      BY <2>2, SurroundAssumption DEF Sidecar!UpdateLastSeen
    <3>2. CASE v6 = None
      BY <1>0, <2>0, <3>1, <3>2 DEF BeatsCounted, n
    <3>3. CASE v6 # None
      <4>1. n' = n
        BY <2>2, <3>1, <3>3, InsertedEnds DEF Sidecar!UpdateLastSeen, n
      <4> QED  BY <2>0, <3>1, <3>3, <4>1 DEF BeatsCounted, n
    <3> QED  BY <3>2, <3>3
  <2>3. CASE Sidecar!PruneHeartbeats(h)
    <3>1. v7' = Sidecar!Newest /\ v11' = 0 /\ v6' = v6
      BY <2>3 DEF Sidecar!PruneHeartbeats
    <3>2. v7' \subseteq v7 /\ Cardinality(v7') <= Keep
      BY <3>1, NewestAreFew
    <3>3. Cardinality(v7') <= Keep + v11' + n'
      BY <1>0, <2>0, <3>1, <3>2
    <3> QED  BY <2>0, <3>1, <3>2, <3>3 DEF BeatsCounted, n
  <2>4. CASE Sidecar!CutOff(h)
    <3>1. v7' = v7 /\ v11' = v11 + 1 /\ v6' = v6 /\ Sidecar!Step(h, "done")
      BY <2>4 DEF Sidecar!CutOff
    <3>2. n' = n \/ n' = n - 1
      BY <3>1, InsertedEnds DEF n
    <3>3. Cardinality(v7') <= Keep + v11' + n'
      BY <1>0, <2>0, <3>1, <3>2
    <3> QED  BY <2>0, <3>1, <3>3 DEF BeatsCounted, n
  <2> QED  BY <2>1, <2>2, <2>3, <2>4
<1> QED  BY <1>9, <1>10, <1>11, <1>12, <1>13 DEF AgentInv

LEMMA AgentStep ==
  AgentInv /\ [Sidecar!Next]_<<v1, v2, v3, v4, v5, v6, v7, v8, v9, v10, v11>> => AgentInv'
<1> SUFFICES ASSUME AgentInv, [Sidecar!Next]_<<v1, v2, v3, v4, v5, v6, v7, v8, v9, v10, v11>>
             PROVE  AgentInv'
  OBVIOUS
<1>1. CASE UNCHANGED <<v1, v2, v3, v4, v5, v6, v7, v8, v9, v10, v11>>
  BY <1>1 DEF AgentInv, AgentTyped, ReporterShows, BeatsAgree, Shown, BeatsDiffer, BeatsCounted,
     Inserted
<1>2. CASE Sidecar!DeleteAgent
  <2>1. /\ v6' = None /\ v7' = {} /\ UNCHANGED <<v1, v2, v3, v4, v5, v8, v10, v11>>
    BY <1>2 DEF Sidecar!DeleteAgent
  <2>2. AgentTyped' /\ ReporterShows' /\ BeatsDiffer'
    BY <2>1, FS_EmptySet DEF AgentInv, AgentTyped, ReporterShows, BeatsDiffer
  <2>3. BeatsAgree'
    BY <2>1, AgreeKept DEF AgentInv
  <2>4. BeatsCounted'
    <3>1. Cardinality(v7') = 0 /\ Inserted' = Inserted
      BY <2>1, FS_EmptySet DEF Inserted
    <3>2. IsFiniteSet(Inserted) /\ v11 \in Nat /\ Keep \in Nat
      BY FS_Subset, SurroundAssumption DEF AgentInv, AgentTyped, Inserted
    <3>3. Cardinality(Inserted) \in Nat
      BY <3>2, FS_CardinalityType
    <3> QED  BY <2>1, <3>1, <3>2, <3>3 DEF BeatsCounted
  <2> QED  BY <2>2, <2>3, <2>4 DEF AgentInv
<1> QED  BY <1>1, <1>2, AgentServes, AgentSends, AgentRecords DEF Sidecar!Next

\* The fold over the two upstreams.
OneOf(S) == CHOOSE u \in S : TRUE
Folds(it, f) ==
  it = [S \in SUBSET Pair |-> IF S = {} THEN 0 ELSE f[OneOf(S)] + it[S \ {OneOf(S)}]]
FoldOf(f) == CHOOSE it : Folds(it, f)

LEMMA SumIsAFold == ASSUME NEW f PROVE Sidecar!MapThenSumSet(LAMBDA u : f[u], Pair) = FoldOf(f)[Pair]
  BY DEF Sidecar!MapThenSumSet, Sidecar!MapThenFoldSet, FoldOf, Folds, OneOf

LEMMA FoldOfTwo ==
  ASSUME NEW f, f["blue"] \in Int, f["green"] \in Int
  PROVE  FoldOf(f)[Pair] = f["blue"] + f["green"]
<1> DEFINE Sum(S) == IF S = {} THEN 0
                     ELSE IF S = {"blue"} THEN f["blue"]
                     ELSE IF S = {"green"} THEN f["green"] ELSE f["blue"] + f["green"]
           it == [S \in SUBSET Pair |-> Sum(S)]
<1>0. /\ SUBSET Pair = {{}, {"blue"}, {"green"}, Pair}
      /\ Pair \ {"blue"} = {"green"} /\ Pair \ {"green"} = {"blue"} /\ Pair # {}
      /\ {"blue"} \ {"blue"} = {} /\ {"green"} \ {"green"} = {} /\ {"blue"} # {"green"}
      /\ {"blue"} # {} /\ {"green"} # {} /\ Pair # {"blue"} /\ Pair # {"green"}
      /\ {"blue"} \in SUBSET Pair /\ {"green"} \in SUBSET Pair /\ Pair \in SUBSET Pair
  BY DEF Pair
<1>1. \A S \in SUBSET Pair : S # {} => OneOf(S) \in S
  BY DEF OneOf
<1>2. OneOf({"blue"}) = "blue" /\ OneOf({"green"}) = "green"
  BY DEF OneOf
<1>3. OneOf(Pair) = "blue" \/ OneOf(Pair) = "green"
  BY <1>0, <1>1 DEF Pair
<1>4. Folds(it, f)
  <2>1. ASSUME NEW S \in SUBSET Pair
        PROVE  Sum(S) = IF S = {} THEN 0 ELSE f[OneOf(S)] + it[S \ {OneOf(S)}]
    <3>1. CASE S = {}
      BY <3>1
    <3>2. CASE S = {"blue"}
      <4>1. S \ {OneOf(S)} = {} /\ OneOf(S) = "blue"
        BY <1>0, <1>2, <3>2
      <4>2. it[{}] = 0 /\ Sum(S) = f["blue"]
        BY <1>0, <3>2
      <4> QED  BY <1>0, <3>2, <4>1, <4>2
    <3>3. CASE S = {"green"}
      <4>1. S \ {OneOf(S)} = {} /\ OneOf(S) = "green"
        BY <1>0, <1>2, <3>3
      <4>2. it[{}] = 0 /\ Sum(S) = f["green"]
        BY <1>0, <3>3
      <4> QED  BY <1>0, <3>3, <4>1, <4>2
    <3>4. CASE S = Pair
      <4>1. Sum(Pair) = f["blue"] + f["green"]
        BY <1>0
      <4>2. it[{"blue"}] = f["blue"] /\ it[{"green"}] = f["green"]
        BY <1>0
      <4>3. CASE OneOf(Pair) = "blue"
        BY <1>0, <3>4, <4>1, <4>2, <4>3
      <4>4. CASE OneOf(Pair) = "green"
        BY <1>0, <3>4, <4>1, <4>2, <4>4
      <4> QED  BY <1>3, <4>3, <4>4
    <3> QED  BY <1>0, <3>1, <3>2, <3>3, <3>4
  <2> QED  BY <2>1 DEF Folds
<1>5. Folds(FoldOf(f), f)
  BY <1>4 DEF FoldOf
<1> HIDE DEF it
<1>6. /\ FoldOf(f)[{}] = 0
      /\ \A S \in SUBSET Pair :
           S # {} => FoldOf(f)[S] = f[OneOf(S)] + FoldOf(f)[S \ {OneOf(S)}]
  BY <1>5 DEF Folds
<1>7. FoldOf(f)[{"blue"}] = f["blue"] + FoldOf(f)[{"blue"} \ {OneOf({"blue"})}]
  BY <1>0, <1>2, <1>6
<1>8. FoldOf(f)[{"green"}] = f["green"] + FoldOf(f)[{"green"} \ {OneOf({"green"})}]
  BY <1>0, <1>2, <1>6
<1>9. FoldOf(f)[{"blue"}] = f["blue"] /\ FoldOf(f)[{"green"}] = f["green"]
  <2>1. {"blue"} \ {OneOf({"blue"})} = {} /\ {"green"} \ {OneOf({"green"})} = {}
    BY <1>2
  <2>2. FoldOf(f)[{"blue"}] = f["blue"] + 0 /\ FoldOf(f)[{"green"}] = f["green"] + 0
    BY <1>6, <1>7, <1>8, <2>1
  <2> QED  BY <2>2
<1>10. FoldOf(f)[Pair] = f[OneOf(Pair)] + FoldOf(f)[Pair \ {OneOf(Pair)}]
  BY <1>0, <1>6
<1>11. CASE OneOf(Pair) = "blue"
  <2>1. FoldOf(f)[Pair] = f["blue"] + FoldOf(f)[{"green"}]
    BY <1>0, <1>10, <1>11
  <2> QED  BY <1>9, <2>1
<1>12. CASE OneOf(Pair) = "green"
  <2>1. FoldOf(f)[Pair] = f["green"] + FoldOf(f)[{"blue"}]
    BY <1>0, <1>10, <1>12
  <2> QED  BY <1>9, <2>1
<1> QED  BY <1>3, <1>11, <1>12

\* Shares of weights that add up to a hundred are those weights.
LEMMA SharesAreWhole ==
  ASSUME NEW w \in Splits
  PROVE  LET t == Sidecar!computeTraffic(w) IN
         Sidecar!MapThenSumSet(LAMBDA u : t[u], DOMAIN t) = 100
<1>1. /\ w["blue"] \in Int /\ w["green"] \in Int /\ w["blue"] + w["green"] = 100
      /\ DOMAIN w = Pair /\ \A u \in Pair : w[u] \in 0 .. 100
      /\ w = [u \in Pair |-> w[u]]
  BY DEF Splits, Pair
<1>2. Sidecar!MapThenSumSet(LAMBDA u : w[u], Pair) = 100
  BY <1>1, SumIsAFold, FoldOfTwo
<1>3. Sidecar!MapThenSumSet(LAMBDA u : w[u], DOMAIN w) = 100
  BY <1>1, <1>2
<1> DEFINE total == Sidecar!MapThenSumSet(LAMBDA u : w[u], DOMAIN w)
<1>4. Sidecar!computeTraffic(w) =
        IF total = 0 THEN <<>> ELSE [u \in DOMAIN w |-> (w[u] * 100) \div total]
  BY Zenon DEF Sidecar!computeTraffic
<1>5. total = 100
  BY <1>3
<1> HIDE DEF total
<1>6. Sidecar!computeTraffic(w) = [u \in Pair |-> (w[u] * 100) \div 100]
  BY <1>1, <1>4, <1>5
<1>7. \A u \in Pair : (w[u] * 100) \div 100 = w[u]
  BY <1>1
<1>8. Sidecar!computeTraffic(w) = w
  BY <1>1, <1>6, <1>7
<1> QED  BY <1>3, <1>8

\* The invariant says what SidecarHolds says.
LEMMA AgentMeans == AgentInv => Sidecar!TypeOK /\ Sidecar!HeartbeatsHold
<1> SUFFICES ASSUME AgentInv PROVE Sidecar!TypeOK /\ Sidecar!HeartbeatsHold
  OBVIOUS
<1>0. /\ AgentTyped /\ ReporterShows /\ BeatsAgree /\ BeatsCounted /\ v7 \subseteq BeatRows
  BY DEF AgentInv, AgentTyped
<1>1. Sidecar!TypeOK
  BY <1>0 DEF AgentTyped, Pair, Sidecar!TypeOK
<1>2. v3.pc = "idle" /\ v4.version # 0 => v4.version = v2.version /\ v4.weights = v2.routes
  BY <1>0 DEF AgentTyped, ReporterShows
<1>3. ASSUME NEW a \in v7, NEW b \in v7, Sidecar!SameVersion(a, b)
      PROVE  a.weights = b.weights
  <2>1. /\ a.version = b.version /\ a.version \in Nat \ {0} /\ ~a.torn /\ ~b.torn
        /\ a.weights \in Splits /\ b.weights \in Splits
    BY <1>0, <1>3 DEF Sidecar!SameVersion, BeatRows
  <2>2. Shown(a.version, a.weights) /\ Shown(a.version, b.weights)
    BY <2>1 DEF Shown
  <2> QED  BY <1>0, <2>1, <2>2 DEF BeatsAgree
<1>4. \A b \in v7 : LET t == Sidecar!computeTraffic(b.weights) IN
        Sidecar!MapThenSumSet(LAMBDA u : t[u], DOMAIN t) = 100
  <2> TAKE b \in v7
  <2>1. b.weights \in Splits
    BY <1>0 DEF BeatRows
  <2> QED  BY <2>1, SharesAreWhole, ZenonT(60)
<1>5. /\ Sidecar!Cardinality(v7) <=
           Keep + v11 + Sidecar!Cardinality({h \in v8 : h.pc # "insert"})
      /\ v6 = None => v7 = {}
  BY <1>0, SidecarCardinality DEF BeatsCounted, Inserted
<1> QED  BY <1>1, <1>2, <1>3, <1>4, <1>5 DEF Sidecar!HeartbeatsHold

-----------------------------------------------------------------------------
(* Commands: v1 the rows' names, v2 the command, v3 what bore the name, v4  *)
(* the kinds of which a row lost it, v5 what somebody else has done         *)

CmdFields == {"name", "opts", "plan", "at", "told", "found", "crowded", "touched", "made", "acted",
              "lost", "runs", "refused", "faults"}

\* A row that bears the name is noted, and of one that bore it and does not the kind.
NamesInv ==
  /\ v3 \subseteq (DOMAIN v1) \X Cli!Rows /\ v4 \subseteq DOMAIN v1
  /\ \A k \in DOMAIN v1 :
       /\ v1[k] \in [Cli!Rows -> {"n", "m", None}]
       /\ <<k, 1>> \in v3
       /\ \A i \in Cli!Rows : /\ v1[k][i] = "n" => <<k, i>> \in v3
                              /\ <<k, i>> \in v3 /\ v1[k][i] # "n" => k \in v4
  /\ v5.count \in 0 .. MaxOthers /\ v5.taken \in BOOLEAN /\ DOMAIN v5 = {"count", "taken"}

LastWrites == v2.plan # <<>> /\ Cli!IsWrite(v2.plan[Len(v2.plan)])

CmdTyped ==
  /\ DOMAIN v2 = CmdFields /\ Cli!SoundPlan(v2.plan) /\ Cli!KindsOf(v2.plan) = DOMAIN v1
  /\ v2.told \in Cli!Told \ {"idle"} /\ v2.made \in Nat /\ v2.acted \in Nat
  /\ (v2.plan = <<>> /\ v2.told = "done") \/ v2.at \in DOMAIN v2.plan

\* What was looked up bore the name, and what was touched.
LookedUp ==
  /\ \A k \in DOMAIN v2.found : v2.found[k] = None \/ <<k, v2.found[k]>> \in v3
  /\ v2.told = "running" =>
       \A j \in 1 .. v2.at - 1 : \A k \in v2.plan[j].learns :
         k \in DOMAIN v2.found /\ v2.found[k] # None
  /\ \A t \in v2.touched : t[3] = "given" \/ <<t[1], t[2]>> \in v3

\* Only the last request changes something: a command that goes on after it, or
\* fails, has lost an answer.
CmdActed ==
  /\ v2.acted > 0 => LastWrites
  /\ ~v2.lost => v2.acted \in {0, 1} /\ v2.made <= v2.acted
  /\ ~v2.lost /\ v2.acted = 1 => v2.told \in {"done", "late"}
  /\ v2.told = "done" /\ LastWrites => v2.acted > 0 \/ v4 # {}
  /\ v2.made > 1 => Cli!Routes[v2.plan[Len(v2.plan)].route].on \notin Cli!Unique
  /\ v2.told = "conflict" => v2.lost \/ v5.taken
  /\ v2.told = "not found" => v4 # {} \/ v2.crowded

CmdInv ==
  /\ NamesInv
  /\ \/ v2 = Cli!Idle /\ DOMAIN v1 = {}
     \/ CmdTyped /\ LookedUp /\ CmdActed

LEMMA CmdInitially == Cli!Init => CmdInv
<1> SUFFICES ASSUME Cli!Init PROVE CmdInv
  OBVIOUS
<1>1. /\ v1 = [k \in {} |-> <<>>] /\ v2 = Cli!Idle /\ v3 = {} /\ v4 = {}
      /\ v5 = [count |-> 0, taken |-> FALSE]
  BY DEF Cli!Init
<1>2. DOMAIN v1 = {}
  BY <1>1
<1>3. v5.count \in 0 .. MaxOthers /\ v5.taken \in BOOLEAN /\ DOMAIN v5 = {"count", "taken"}
  BY <1>1, SurroundAssumption
<1>4. NamesInv
  BY <1>1, <1>2, <1>3 DEF NamesInv
<1> QED  BY <1>1, <1>2, <1>4 DEF CmdInv

LEMMA PlanIsSequence ==
  ASSUME NEW plan, Cli!SoundPlan(plan)
  PROVE  /\ Len(plan) \in Nat /\ DOMAIN plan = 1 .. Len(plan)
         /\ plan = <<>> <=> Len(plan) = 0
<1> DEFINE S == {plan[i] : i \in DOMAIN plan}
<1>1. plan \in Seq(S)
  BY DEF Cli!SoundPlan
<1> HIDE DEF S
<1> QED  BY <1>1

LEMMA WritesAreLast ==
  ASSUME NEW plan, Cli!SoundPlan(plan), NEW i \in DOMAIN plan, Cli!IsWrite(plan[i])
  PROVE  i = Len(plan) /\ ~plan[i].forgiven /\ plan[i].learns = {}
  BY DEF Cli!SoundPlan

LEMMA LookUpsStop ==
  ASSUME NEW plan, Cli!SoundPlan(plan), NEW i \in DOMAIN plan, plan[i].forgiven
  PROVE  plan[i].learns = {}
  BY DEF Cli!SoundPlan

\* A name is that of a row, or the first row has lost it.
LEMMA NamedBears ==
  ASSUME NamesInv, NEW k \in DOMAIN v1
  PROVE  \/ Cli!Named(k) = None /\ k \in v4
         \/ Cli!Named(k) \in Cli!Rows /\ v1[k][Cli!Named(k)] = "n" /\ <<k, Cli!Named(k)>> \in v3
<1>0. /\ Cli!Rows = {1, 2} /\ <<k, 1>> \in v3
      /\ \A i \in Cli!Rows : /\ v1[k][i] = "n" => <<k, i>> \in v3
                             /\ <<k, i>> \in v3 /\ v1[k][i] # "n" => k \in v4
  BY DEF NamesInv, Cli!Rows
<1> DEFINE Bears(i) == v1[k][i] = "n" /\ (i = 1 => v1[k][2] # "n")
<1>1. CASE \A i \in Cli!Rows : v1[k][i] # "n"
  <2>1. Cli!Named(k) = None
    BY <1>1 DEF Cli!Named
  <2>2. k \in v4
    BY <1>0, <1>1
  <2> QED  BY <2>1, <2>2
<1>2. CASE ~ \A i \in Cli!Rows : v1[k][i] # "n"
  <2>1. \E i \in Cli!Rows : Bears(i)
    BY <1>0, <1>2
  <2>2. Cli!Named(k) = CHOOSE i \in Cli!Rows : Bears(i)
    BY <1>2 DEF Cli!Named
  <2>3. Cli!Named(k) \in Cli!Rows /\ Bears(Cli!Named(k))
    BY <2>1, <2>2
  <2> QED  BY <1>0, <2>3
<1> QED  BY <1>1, <1>2

\* The rows a running command's request refers to: one that is missing has been
\* deleted or renamed, and one that is not bore the name or was given.
LEMMA RowsOfRequest ==
  ASSUME CmdInv, v2.told = "running"
  PROVE  /\ v2.at \in DOMAIN v2.plan /\ CmdTyped /\ LookedUp /\ CmdActed
         /\ Cli!Missing(Cli!Request) # {} => v4 # {}
         /\ \A k \in DOMAIN Cli!Request.refs : k \notin Cli!Missing(Cli!Request) =>
              \/ Cli!Request.refs[k] = "given"
              \/ <<k, Cli!Row(k, Cli!Request.refs[k])>> \in v3
<1>0. CmdTyped /\ LookedUp /\ CmdActed /\ NamesInv
  BY DEF CmdInv, Cli!Idle
<1>1. v2.at \in DOMAIN v2.plan
  BY <1>0 DEF CmdTyped
<1>2. ASSUME NEW k \in DOMAIN Cli!Request.refs
      PROVE  LET i == Cli!Row(k, Cli!Request.refs[k]) IN
             /\ ~Cli!Exists(k, i) => k \in v4
             /\ Cli!Exists(k, i) => Cli!Request.refs[k] = "given" \/ <<k, i>> \in v3
  <2> DEFINE how == Cli!Request.refs[k]
  <2>1. k \in DOMAIN v1
    BY <1>0, <1>1, <1>2 DEF CmdTyped, Cli!KindsOf, Cli!Request
  <2>2. /\ how \in {"name", "found", "given"}
        /\ how = "found" => \E j \in 1 .. v2.at - 1 : k \in v2.plan[j].learns
    BY <1>0, <1>1, <1>2 DEF CmdTyped, Cli!SoundPlan, Cli!Request
  <2> HIDE DEF how
  <2>3. /\ v1[k] \in [Cli!Rows -> {"n", "m", None}] /\ <<k, 1>> \in v3 /\ 1 \in Cli!Rows
        /\ \A i : <<k, i>> \in v3 => i \in Cli!Rows
        /\ \A i \in Cli!Rows : /\ v1[k][i] = "n" => <<k, i>> \in v3
                               /\ <<k, i>> \in v3 /\ v1[k][i] # "n" => k \in v4
    BY <1>0, <2>1 DEF NamesInv, Cli!Rows
  <2>4. None # "n" /\ None \notin Cli!Rows
    BY SurroundAssumption DEF Cli!Rows
  <2>5. CASE how = "name"
    <3>1. Cli!Row(k, how) = Cli!Named(k)
      BY <2>5 DEF Cli!Row
    <3>2. \/ Cli!Named(k) = None /\ k \in v4
          \/ /\ Cli!Named(k) \in Cli!Rows /\ v1[k][Cli!Named(k)] = "n"
             /\ <<k, Cli!Named(k)>> \in v3
      BY <1>0, <2>1, NamedBears
    <3> QED  BY <2>4, <3>1, <3>2 DEF Cli!Exists, how
  <2>6. CASE how = "found"
    <3>1. k \in DOMAIN v2.found /\ v2.found[k] # None
      BY <1>0, <2>2, <2>6 DEF LookedUp
    <3>2. <<k, v2.found[k]>> \in v3
      BY <1>0, <3>1 DEF LookedUp
    <3>3. Cli!Row(k, how) = v2.found[k]
      BY <2>6 DEF Cli!Row
    <3> QED  BY <2>3, <2>4, <3>1, <3>2, <3>3 DEF Cli!Exists, how
  <2>7. CASE how = "given"
    <3>1. Cli!Row(k, how) = 1
      BY <2>7 DEF Cli!Row
    <3> QED  BY <2>3, <2>4, <2>7, <3>1 DEF Cli!Exists, how
  <2> QED  BY <2>2, <2>5, <2>6, <2>7
<1>3. /\ Cli!Missing(Cli!Request) # {} => v4 # {}
      /\ \A k \in DOMAIN Cli!Request.refs : k \notin Cli!Missing(Cli!Request) =>
           \/ Cli!Request.refs[k] = "given"
           \/ <<k, Cli!Row(k, Cli!Request.refs[k])>> \in v3
  BY <1>2 DEF Cli!Missing
<1> QED  BY <1>0, <1>1, <1>3

\* What the other steps do: begin, change rows, take a name.
LEMMA CmdBegins == ASSUME CmdInv, Cli!Begin PROVE CmdInv'
<1> DEFINE From(c, second, crowded) ==
             /\ v1' = [k \in Cli!KindsOf(c.plan) |-> <<"n", second>>]
             /\ v3' = Cli!KindsOf(c.plan) \X {1}
             /\ v2' = [name |-> c.name, opts |-> c.opts, plan |-> c.plan, at |-> 1,
                       told |-> IF c.plan = <<>> THEN "done" ELSE "running",
                       found |-> Cli!NoRefs, crowded |-> crowded, touched |-> {}, made |-> 0,
                       acted |-> 0, lost |-> FALSE, runs |-> 1, refused |-> {}, faults |-> {}]
             /\ v4' = v4 /\ v5' = v5
<1>0. PICK c \in Cli!CliCommands \cup Cli!McpTools, second \in {None, "m"} :
        \E crowded \in {FALSE} \cup {"flag" \in Cli!KindsOf(c.plan)} : From(c, second, crowded)
  BY Zenon DEF Cli!Begin
<1>1. PICK crowded \in {FALSE} \cup {"flag" \in Cli!KindsOf(c.plan)} : From(c, second, crowded)
  BY Zenon, <1>0
<1>2. v2.told = "idle" /\ NamesInv
  BY DEF Cli!Begin, CmdInv
<1>3. v4 = {}
  BY <1>2 DEF CmdInv, CmdTyped, NamesInv
<1>4. Cli!SoundPlan(c.plan)
  BY PlansAssumption
<1>5. /\ Len(c.plan) \in Nat /\ DOMAIN c.plan = 1 .. Len(c.plan)
      /\ c.plan = <<>> <=> Len(c.plan) = 0
  BY <1>4, PlanIsSequence
<1>7. /\ DOMAIN v1' = Cli!KindsOf(c.plan)
      /\ \A k \in DOMAIN v1' : v1'[k] = <<"n", second>>
  BY <1>1
<1> DEFINE told0 == IF c.plan = <<>> THEN "done" ELSE "running"
<1>8. /\ DOMAIN v2' = CmdFields /\ v2'.plan = c.plan /\ v2'.at = 1 /\ v2'.told = told0
      /\ v2'.found = Cli!NoRefs /\ v2'.crowded = crowded /\ v2'.touched = {}
      /\ v2'.made = 0 /\ v2'.acted = 0
  BY <1>1 DEF CmdFields
<1>9. told0 \in {"done", "running"} /\ (told0 = "done" <=> c.plan = <<>>)
  OBVIOUS
<1> HIDE DEF told0
<1>10. NamesInv'
  <2>0. "m" # "n" /\ None # "n" /\ second \in {None, "m"} /\ second # "n" /\ Cli!Rows = {1, 2}
    BY SurroundAssumption DEF Cli!Rows
  <2>1. ASSUME NEW k \in DOMAIN v1'
        PROVE  /\ v1'[k] \in [Cli!Rows -> {"n", "m", None}] /\ v1'[k][1] = "n" /\ v1'[k][2] = second
               /\ <<k, 1>> \in v3' /\ <<k, 2>> \notin v3'
    BY <1>1, <1>7, <2>0
  <2>2. v3' \subseteq (DOMAIN v1') \X Cli!Rows
    BY <1>1, <1>7, <2>0
  <2>3. ASSUME NEW k \in DOMAIN v1'
        PROVE  \A i \in Cli!Rows : /\ v1'[k][i] = "n" => <<k, i>> \in v3'
                                   /\ <<k, i>> \in v3' /\ v1'[k][i] # "n" => k \in v4'
    BY <2>0, <2>1
  <2>4. \A k \in DOMAIN v1' :
          /\ v1'[k] \in [Cli!Rows -> {"n", "m", None}] /\ <<k, 1>> \in v3'
          /\ \A i \in Cli!Rows : /\ v1'[k][i] = "n" => <<k, i>> \in v3'
                                 /\ <<k, i>> \in v3' /\ v1'[k][i] # "n" => k \in v4'
    BY <2>1, <2>3
  <2>5. v4' \subseteq DOMAIN v1' /\ v5' = v5
    BY <1>1, <1>3
  <2> QED  BY <1>2, <2>2, <2>4, <2>5 DEF NamesInv
<1>11. CmdTyped'
  <2>1. c.plan # <<>> => 1 \in DOMAIN c.plan
    BY <1>5
  <2>2. (v2'.plan = <<>> /\ v2'.told = "done") \/ v2'.at \in DOMAIN v2'.plan
    BY <1>8, <1>9, <2>1
  <2>3. v2'.told \in Cli!Told \ {"idle"} /\ v2'.made \in Nat /\ v2'.acted \in Nat
    <3>1. {"done", "running"} \subseteq Cli!Told \ {"idle"}
      BY DEF Cli!Told
    <3>2. v2'.told \in {"done", "running"}
      BY <1>8, <1>9
    <3>3. v2'.made \in Nat /\ v2'.acted \in Nat
      BY <1>8
    <3> QED  BY <3>1, <3>2, <3>3
  <2>4. Cli!SoundPlan(v2'.plan) /\ Cli!KindsOf(v2'.plan) = DOMAIN v1'
    BY <1>4, <1>7, <1>8
  <2> QED  BY <1>8, <2>2, <2>3, <2>4 DEF CmdTyped
<1>12. LookedUp' /\ CmdActed'
  <2>1. DOMAIN Cli!NoRefs = {}
    BY DEF Cli!NoRefs
  <2>2. LookedUp'
    BY <1>8, <2>1 DEF LookedUp
  <2>3. c.plan = <<>> => ~LastWrites'
    BY <1>8 DEF LastWrites
  <2>4. ~(v2'.acted > 0) /\ ~(v2'.made > 1) /\ v2'.acted = 0 /\ v2'.made <= v2'.acted
    BY <1>8
  <2>5. v2'.told # "conflict" /\ v2'.told # "not found" /\ (v2'.told = "done" => ~LastWrites')
    BY <1>8, <1>9, <2>3
  <2>6. CmdActed'
    <3>1. (v2.acted > 0 => LastWrites)'
      BY <2>4
    <3>2. (~v2.lost => v2.acted \in {0, 1} /\ v2.made <= v2.acted)'
      BY <2>4
    <3>3. (~v2.lost /\ v2.acted = 1 => v2.told \in {"done", "late"})'
      BY <2>4
    <3>4. (v2.told = "done" /\ LastWrites => v2.acted > 0 \/ v4 # {})'
      BY <2>5
    <3>5. (v2.made > 1 => Cli!Routes[v2.plan[Len(v2.plan)].route].on \notin Cli!Unique)'
      BY <2>4
    <3>6. (v2.told = "conflict" => v2.lost \/ v5.taken)'
      BY <2>5
    <3>7. (v2.told = "not found" => v4 # {} \/ v2.crowded)'
      BY <2>5
    <3> QED  BY <3>1, <3>2, <3>3, <3>4, <3>5, <3>6, <3>7 DEF CmdActed
  <2> QED  BY <2>2, <2>6
<1> QED  BY <1>10, <1>11, <1>12 DEF CmdInv

\* Somebody else deletes, recreates or renames a row.
LEMMA CmdRows ==
  ASSUME CmdInv, v2.told = "running", v5.count < MaxOthers,
         NEW k \in DOMAIN v1, NEW i \in Cli!Rows, NEW name \in {"n", "m", None},
         Cli!Becomes(k, i, name)
  PROVE  CmdInv'
<1>0. NamesInv /\ CmdTyped /\ LookedUp /\ CmdActed
  BY DEF CmdInv, Cli!Idle
<1> DEFINE after == [v1 EXCEPT ![k][i] = name]
<1>1. /\ v1' = after /\ v2' = v2
      /\ v3' = v3 \cup {p \in (DOMAIN v1) \X Cli!Rows : after[p[1]][p[2]] = "n"}
      /\ v4' = v4 \cup {j \in DOMAIN v1 :
                 \E r \in Cli!Rows : v1[j][r] = "n" /\ after[j][r] # "n"}
      /\ v5' = [v5 EXCEPT !.count = @ + 1]
  BY DEF Cli!Becomes
<1>2. /\ DOMAIN after = DOMAIN v1
      /\ \A j \in DOMAIN v1 : after[j] \in [Cli!Rows -> {"n", "m", None}]
  BY <1>0 DEF NamesInv
<1> HIDE DEF after
<1>3. v5'.count \in 0 .. MaxOthers /\ v5'.taken = v5.taken /\ DOMAIN v5' = {"count", "taken"}
  BY <1>0, <1>1, SurroundAssumption DEF NamesInv
<1>4. ASSUME NEW j \in DOMAIN v1, NEW r \in Cli!Rows
      PROVE  /\ v1'[j][r] = "n" => <<j, r>> \in v3'
             /\ <<j, r>> \in v3' /\ v1'[j][r] # "n" => j \in v4'
  <2>1. <<j, r>> \in v3' <=> <<j, r>> \in v3 \/ after[j][r] = "n"
    BY <1>1
  <2>2. v1[j][r] = "n" /\ after[j][r] # "n" => j \in v4'
    BY <1>1
  <2>3. /\ <<j, r>> \in v3 /\ v1[j][r] # "n" => j \in v4
    BY <1>0 DEF NamesInv
  <2> QED  BY <1>1, <2>1, <2>2, <2>3
<1>5. v3 \subseteq v3' /\ v4 \subseteq v4' /\ v3' \subseteq (DOMAIN v1) \X Cli!Rows /\ v4' \subseteq DOMAIN v1
  BY <1>0, <1>1 DEF NamesInv
<1>6. NamesInv'
  BY <1>0, <1>1, <1>2, <1>3, <1>4, <1>5 DEF NamesInv
<1>7. CmdTyped'
  BY <1>0, <1>1, <1>2 DEF CmdTyped
<1>8. LookedUp'
  BY <1>0, <1>1, <1>5 DEF LookedUp
<1>9. CmdActed'
  BY <1>0, <1>1, <1>3, <1>5 DEF CmdActed, LastWrites
<1> QED  BY <1>6, <1>7, <1>8, <1>9 DEF CmdInv

LEMMA CmdOthers ==
  ASSUME CmdInv, Cli!Delete \/ Cli!Recreate \/ Cli!Rename \/ Cli!TakeName
  PROVE  CmdInv'
<1>0. v2.told = "running" /\ v5.count < MaxOthers
  BY DEF Cli!Delete, Cli!Recreate, Cli!Rename, Cli!TakeName, Cli!Meanwhile, Cli!Running
<1>1. CASE Cli!Delete
  BY <1>0, <1>1, CmdRows DEF Cli!Delete
<1>2. CASE Cli!Recreate
  BY <1>0, <1>2, CmdRows DEF Cli!Recreate, Cli!Rows
<1>3. CASE Cli!Rename
  BY <1>0, <1>3, CmdRows DEF Cli!Rename
<1>4. CASE Cli!TakeName
  <2>1. v5' = [count |-> v5.count + 1, taken |-> TRUE] /\ UNCHANGED <<v1, v2, v3, v4>>
    BY <1>4 DEF Cli!TakeName
  <2>2. NamesInv'
    BY <1>0, <2>1, SurroundAssumption DEF CmdInv, NamesInv
  <2>3. NamesInv /\ CmdTyped /\ LookedUp /\ CmdActed
    BY <1>0 DEF CmdInv, Cli!Idle
  <2>4. CmdTyped' /\ LookedUp' /\ CmdActed'
    BY <2>1, <2>3 DEF CmdTyped, LookedUp, CmdActed, LastWrites
  <2> QED  BY <2>2, <2>4 DEF CmdInv
<1> QED  BY <1>1, <1>2, <1>3, <1>4

\* A running command that has the answer to its request in hand, but has not yet
\* gone on: what it may have changed is what its last request changes.
InHand(c) ==
  /\ DOMAIN c = CmdFields /\ c.plan = v2.plan /\ c.at = v2.at /\ c.told = "running"
  /\ (c.crowded <=> v2.crowded) /\ c.made \in Nat /\ c.acted \in Nat
  /\ \A k \in DOMAIN c.found : c.found[k] = None \/ <<k, c.found[k]>> \in v3
  /\ \A t \in c.touched : t[3] = "given" \/ <<t[1], t[2]>> \in v3
  /\ c.acted > 0 => LastWrites
  /\ ~c.lost => c.acted \in {0, 1} /\ c.made <= c.acted
  /\ ~c.lost /\ c.acted = 1 => c.at = Len(c.plan)
  /\ c.made > 1 => Cli!Routes[c.plan[Len(c.plan)].route].on \notin Cli!Unique

\* It knows what it has looked up.
Knows(c) ==
  \A j \in 1 .. c.at - 1 : \A k \in c.plan[j].learns : k \in DOMAIN c.found /\ c.found[k] # None

Settled == CmdInv /\ v2.told = "running" /\ UNCHANGED <<v1, v3, v4, v5>>

LEMMA CmdContinues ==
  ASSUME Settled, NEW c, InHand(c), Knows(c), v2' = Cli!Continue(c),
         \A k \in Cli!Request.learns : k \in DOMAIN c.found /\ c.found[k] # None,
         c.at = Len(c.plan) /\ LastWrites => c.acted > 0 \/ v4 # {}
  PROVE  CmdInv'
<1>0. /\ CmdTyped /\ LookedUp /\ CmdActed /\ NamesInv /\ v2.at \in DOMAIN v2.plan
      /\ UNCHANGED <<v1, v3, v4, v5>>
  BY RowsOfRequest DEF Settled, CmdInv
<1>1. /\ DOMAIN c = CmdFields /\ c.plan = v2.plan /\ c.at = v2.at /\ c.told = "running"
      /\ c.made \in Nat /\ c.acted \in Nat
  BY DEF InHand
<1>2. /\ Len(c.plan) \in Nat /\ DOMAIN c.plan = 1 .. Len(c.plan)
      /\ c.at \in 1 .. Len(c.plan) /\ Cli!SoundPlan(c.plan)
  BY <1>0, <1>1, PlanIsSequence DEF CmdTyped
<1>3. /\ DOMAIN v2' = CmdFields /\ v2'.plan = c.plan /\ v2'.made = c.made /\ v2'.acted = c.acted
      /\ v2'.touched = c.touched /\ v2'.found = c.found
      /\ (v2'.lost <=> c.lost) /\ (v2'.crowded <=> c.crowded)
      /\ c.at = Len(c.plan) => v2'.told = "done" /\ v2'.at = c.at
      /\ c.at # Len(c.plan) => v2'.told = "running" /\ v2'.at = c.at + 1
  <2>1. CASE c.at = Len(c.plan)
    <3>1. v2' = [c EXCEPT !.told = "done"]
      BY <2>1 DEF Cli!Continue
    <3> QED  BY <1>1, <2>1, <3>1 DEF CmdFields
  <2>2. CASE c.at # Len(c.plan)
    <3>1. v2' = [c EXCEPT !.at = c.at + 1]
      BY <2>2 DEF Cli!Continue
    <3> QED  BY <1>1, <2>2, <3>1 DEF CmdFields
  <2> QED  BY <2>1, <2>2
<1>4. NamesInv'
  BY <1>0 DEF NamesInv
<1>5. CmdTyped'
  <2>1. v2'.told \in Cli!Told \ {"idle"}
    BY <1>3 DEF Cli!Told
  <2>2. v2'.at \in DOMAIN v2'.plan
    BY <1>2, <1>3
  <2> QED  BY <1>0, <1>1, <1>3, <2>1, <2>2 DEF CmdTyped
<1>6. LookedUp'
  <2>1. ASSUME v2'.told = "running", NEW j \in 1 .. v2'.at - 1, NEW k \in c.plan[j].learns
        PROVE  k \in DOMAIN c.found /\ c.found[k] # None
    <3>1. j \in 1 .. c.at - 1 \/ j = c.at
      BY <1>2, <1>3, <2>1
    <3>2. CASE j = c.at
      BY <1>1, <2>1, <3>2 DEF Cli!Request
    <3> QED  BY <2>1, <3>1, <3>2 DEF Knows
  <2>2. \A k \in DOMAIN c.found : c.found[k] = None \/ <<k, c.found[k]>> \in v3'
    BY <1>0 DEF InHand
  <2>3. \A t \in c.touched : t[3] = "given" \/ <<t[1], t[2]>> \in v3'
    BY <1>0 DEF InHand
  <2> QED  BY <1>3, <2>1, <2>2, <2>3 DEF LookedUp
<1>7. CmdActed'
  <2>0. LastWrites' <=> LastWrites
    BY <1>1, <1>3 DEF LastWrites
  <2>1. (v2.acted > 0 => LastWrites)'
    BY <1>3, <2>0 DEF InHand
  <2>2. (~v2.lost => v2.acted \in {0, 1} /\ v2.made <= v2.acted)'
    BY <1>3 DEF InHand
  <2>3. (~v2.lost /\ v2.acted = 1 => v2.told \in {"done", "late"})'
    BY <1>3 DEF InHand
  <2>4. (v2.told = "done" /\ LastWrites => v2.acted > 0 \/ v4 # {})'
    BY <1>0, <1>3, <2>0
  <2>5. (v2.made > 1 => Cli!Routes[v2.plan[Len(v2.plan)].route].on \notin Cli!Unique)'
    BY <1>3 DEF InHand
  <2>6. (v2.told = "conflict" => v2.lost \/ v5.taken)'
    BY <1>3
  <2>7. (v2.told = "not found" => v4 # {} \/ v2.crowded)'
    BY <1>3
  <2> QED  BY <2>1, <2>2, <2>3, <2>4, <2>5, <2>6, <2>7 DEF CmdActed
<1> QED  BY <1>4, <1>5, <1>6, <1>7 DEF CmdInv

CmdFailures == {"usage", "refused", "not found", "conflict", "late", "unknown"}

LEMMA CmdFails ==
  ASSUME Settled, NEW c, InHand(c), NEW why \in CmdFailures, v2' = Cli!Fail(c, why),
         Cli!Request.learns = {} => Knows(c),
         ~c.lost /\ c.acted = 1 => why = "late",
         why = "conflict" => c.lost \/ v5.taken,
         why = "not found" => v4 # {} \/ v2.crowded
  PROVE  CmdInv'
<1>0. /\ CmdTyped /\ LookedUp /\ CmdActed /\ NamesInv /\ v2.at \in DOMAIN v2.plan
      /\ UNCHANGED <<v1, v3, v4, v5>>
  BY RowsOfRequest DEF Settled, CmdInv
<1>1. /\ DOMAIN c = CmdFields /\ c.plan = v2.plan /\ c.at = v2.at /\ c.told = "running"
      /\ c.made \in Nat /\ c.acted \in Nat
  BY DEF InHand
<1>2. CASE Cli!Request.forgiven
  <2>1. v2' = Cli!Continue(c)
    BY <1>2 DEF Cli!Fail
  <2>2. c.at = Len(c.plan) => ~LastWrites
    BY <1>0, <1>1, <1>2, WritesAreLast DEF CmdTyped, LastWrites, Cli!Request
  <2>3. Cli!Request.learns = {}
    BY <1>0, <1>2, LookUpsStop DEF CmdTyped, Cli!Request
  <2> QED  BY <2>1, <2>2, <2>3, CmdContinues
<1>3. CASE ~Cli!Request.forgiven
  <2>1. v2' = [c EXCEPT !.told = why]
    BY <1>3 DEF Cli!Fail
  <2>2. /\ DOMAIN v2' = CmdFields /\ v2'.plan = c.plan /\ v2'.made = c.made /\ v2'.acted = c.acted
        /\ v2'.touched = c.touched /\ v2'.found = c.found /\ v2'.at = c.at /\ v2'.told = why
        /\ (v2'.lost <=> c.lost) /\ (v2'.crowded <=> c.crowded)
    BY <1>1, <2>1 DEF CmdFields
  <2>3. why \in Cli!Told \ {"idle", "running", "done"}
    BY DEF CmdFailures, Cli!Told
  <2>4. NamesInv'
    BY <1>0 DEF NamesInv
  <2>5. CmdTyped'
    BY <1>0, <1>1, <2>2, <2>3 DEF CmdTyped
  <2>6. LookedUp'
    <3>1. \A k \in DOMAIN c.found : c.found[k] = None \/ <<k, c.found[k]>> \in v3'
      BY <1>0 DEF InHand
    <3>2. \A t \in c.touched : t[3] = "given" \/ <<t[1], t[2]>> \in v3'
      BY <1>0 DEF InHand
    <3> QED  BY <2>2, <2>3, <3>1, <3>2 DEF LookedUp
  <2>7. CmdActed'
    <3>0. LastWrites' <=> LastWrites
      BY <1>1, <2>2 DEF LastWrites
    <3>1. (v2.acted > 0 => LastWrites)'
      BY <2>2, <3>0 DEF InHand
    <3>2. (~v2.lost => v2.acted \in {0, 1} /\ v2.made <= v2.acted)'
      BY <2>2 DEF InHand
    <3>3. (~v2.lost /\ v2.acted = 1 => v2.told \in {"done", "late"})'
      BY <2>2
    <3>4. (v2.told = "done" /\ LastWrites => v2.acted > 0 \/ v4 # {})'
      BY <2>2, <2>3
    <3>5. (v2.made > 1 => Cli!Routes[v2.plan[Len(v2.plan)].route].on \notin Cli!Unique)'
      BY <2>2 DEF InHand
    <3>6. (v2.told = "conflict" => v2.lost \/ v5.taken)'
      BY <1>0, <2>2
    <3>7. (v2.told = "not found" => v4 # {} \/ v2.crowded)'
      BY <1>0, <2>2 DEF InHand
    <3> QED  BY <3>1, <3>2, <3>3, <3>4, <3>5, <3>6, <3>7 DEF CmdActed
  <2> QED  BY <2>4, <2>5, <2>6, <2>7 DEF CmdInv
<1> QED  BY <1>2, <1>3

LEMMA RunningIsInHand == Settled => InHand(v2) /\ Knows(v2)
  BY RowsOfRequest DEF Settled, InHand, Knows, CmdTyped, LookedUp, CmdActed

\* What the server does with a request it understood.
LEMMA DoneIsInHand ==
  ASSUME Settled, Cli!Routed(Cli!Request), ~Cli!Conflict(Cli!Request)
  PROVE  /\ InHand(Cli!Done(Cli!Request)) /\ Knows(Cli!Done(Cli!Request))
         /\ Cli!Done(Cli!Request).found = v2.found
         /\ v2.at = Len(v2.plan) /\ LastWrites =>
              Cli!Done(Cli!Request).acted > 0 \/ v4 # {}
         /\ Cli!Request.learns # {} => Cli!Done(Cli!Request) = v2
<1> DEFINE r == Cli!Request
           d == Cli!Done(r)
<1>0. /\ InHand(v2) /\ Knows(v2) /\ CmdTyped /\ CmdActed /\ v2.at \in DOMAIN v2.plan
      /\ DOMAIN v2 = CmdFields /\ v2.made \in Nat /\ v2.acted \in Nat /\ v2.told = "running"
      /\ Cli!Missing(r) # {} => v4 # {}
      /\ \A k \in DOMAIN r.refs : k \notin Cli!Missing(r) =>
              \/ r.refs[k] = "given"
              \/ <<k, Cli!Row(k, r.refs[k])>> \in v3
  BY RunningIsInHand, RowsOfRequest DEF Settled, CmdTyped
<1>1. /\ Len(v2.plan) \in Nat /\ DOMAIN v2.plan = 1 .. Len(v2.plan)
      /\ Cli!SoundPlan(v2.plan) /\ r = v2.plan[v2.at]
      /\ v2.plan = <<>> <=> Len(v2.plan) = 0
  BY <1>0, PlanIsSequence DEF CmdTyped, Cli!Request
<1>2. Cli!IsWrite(r) => v2.at = Len(v2.plan) /\ r.learns = {} /\ LastWrites
  BY <1>0, <1>1, WritesAreLast DEF LastWrites
<1>3. v2.at = Len(v2.plan) /\ LastWrites => Cli!IsWrite(r)
  BY <1>1 DEF LastWrites
<1> HIDE DEF r
<1>4. CASE ~(Cli!IsWrite(r) /\ Cli!Missing(r) = {})
  <2>1. d = v2
    BY <1>4 DEF Cli!Done
  <2> QED  BY <1>0, <1>3, <1>4, <2>1 DEF r
<1>5. CASE Cli!IsWrite(r) /\ Cli!Missing(r) = {}
  <2> DEFINE new == {<<k, Cli!Row(k, r.refs[k]), r.refs[k]>> : k \in DOMAIN r.refs}
  <2>1. d = [v2 EXCEPT !.touched = v2.touched \cup new,
                       !.made = IF Cli!Creates1(r) THEN v2.made + 1 ELSE v2.made,
                       !.acted = v2.acted + 1]
    BY <1>5 DEF Cli!Done
  <2>2. \A t \in new : t[3] = "given" \/ <<t[1], t[2]>> \in v3
    BY <1>0, <1>5
  <2> HIDE DEF new
  <2>3. /\ DOMAIN d = CmdFields /\ d.plan = v2.plan /\ d.at = v2.at /\ d.told = "running"
        /\ (d.crowded <=> v2.crowded) /\ (d.lost <=> v2.lost) /\ d.found = v2.found
        /\ d.made = (IF Cli!Creates1(r) THEN v2.made + 1 ELSE v2.made)
        /\ d.acted = v2.acted + 1 /\ d.touched = v2.touched \cup new
    BY <1>0, <2>1 DEF CmdFields
  <2> HIDE DEF d
  <2>4. ~v2.lost => v2.acted = 0 /\ v2.made = 0
    BY <1>0 DEF CmdActed
  <2>5. d.made > 1 => Cli!Routes[d.plan[Len(d.plan)].route].on \notin Cli!Unique
    <3>1. CASE v2.made > 1
      BY <1>0, <2>3, <3>1 DEF CmdActed
    <3>2. CASE ~(v2.made > 1)
      <4>1. d.made > 1 => Cli!Creates1(r) /\ v2.made > 0
        BY <1>0, <2>3, <3>2
      <4>2. d.made > 1 => Cli!Routes[r.route].on \notin Cli!Unique
        BY <4>1 DEF Cli!Conflict, r
      <4> QED  BY <1>1, <1>2, <1>5, <2>3, <4>2
    <3> QED  BY <3>1, <3>2
  <2>6. InHand(d)
    <3>1. d.made \in Nat /\ d.acted \in Nat
      BY <1>0, <2>3
    <3>2. \A t \in d.touched : t[3] = "given" \/ <<t[1], t[2]>> \in v3
      BY <1>0, <2>2, <2>3 DEF InHand
    <3>3. \A k \in DOMAIN d.found : d.found[k] = None \/ <<k, d.found[k]>> \in v3
      BY <1>0, <2>3 DEF InHand
    <3>4. ~d.lost => d.acted \in {0, 1} /\ d.made <= d.acted
      BY <2>3, <2>4
    <3>5. (d.acted > 0 => LastWrites) /\ (~d.lost /\ d.acted = 1 => d.at = Len(d.plan))
      BY <1>2, <1>5, <2>3
    <3> QED  BY <2>3, <2>5, <3>1, <3>2, <3>3, <3>4, <3>5 DEF InHand
  <2>7. d.acted > 0
    BY <1>0, <2>3
  <2>8. InHand(d) /\ d.found = v2.found /\ Knows(d)
    BY <1>0, <2>3, <2>6 DEF Knows
  <2> QED  BY <1>2, <1>5, <2>7, <2>8 DEF d, r
<1> QED  BY <1>4, <1>5

\* The client looks for a name: what it finds bore it, and where it finds nothing
\* the row has lost it or is off the page.
LEMMA MatchBears ==
  ASSUME Settled, NEW k \in Cli!Request.learns
  PROVE  \/ Cli!Match(k) = None /\ (v2.crowded \/ v4 # {})
         \/ Cli!Match(k) # None /\ <<k, Cli!Match(k)>> \in v3
<1>1. NamesInv /\ CmdTyped /\ v2.at \in DOMAIN v2.plan
  BY RowsOfRequest DEF Settled, CmdInv
<1>2. k \in DOMAIN v1
  BY <1>1 DEF CmdTyped, Cli!KindsOf, Cli!Request
<1>3. \/ Cli!Named(k) = None /\ k \in v4
      \/ Cli!Named(k) \in Cli!Rows /\ <<k, Cli!Named(k)>> \in v3
  BY <1>1, <1>2, NamedBears
<1>4. None \notin Cli!Rows
  BY SurroundAssumption DEF Cli!Rows
<1> QED  BY <1>3, <1>4 DEF Cli!Match

\* A command that differs in nothing that matters is in hand as well.
LEMMA InHandAlike ==
  ASSUME NEW c, InHand(c), NEW d, DOMAIN d = CmdFields, d.plan = c.plan, d.at = c.at,
         d.told = c.told, d.crowded <=> c.crowded, d.made = c.made, d.acted = c.acted,
         d.touched = c.touched, d.lost <=> c.lost,
         \A k \in DOMAIN d.found : d.found[k] = None \/ <<k, d.found[k]>> \in v3
  PROVE  InHand(d)
<1>2. (~d.lost => d.acted \in {0, 1} /\ d.made <= d.acted) /\ (d.acted > 0 => LastWrites)
  BY DEF InHand
<1>3. ~d.lost /\ d.acted = 1 => d.at = Len(d.plan)
  BY DEF InHand
<1>4. d.made > 1 => Cli!Routes[d.plan[Len(d.plan)].route].on \notin Cli!Unique
  BY DEF InHand
<1>5. /\ d.plan = v2.plan /\ d.at = v2.at /\ d.told = "running" /\ (d.crowded <=> v2.crowded)
      /\ d.made \in Nat /\ d.acted \in Nat
      /\ \A t \in d.touched : t[3] = "given" \/ <<t[1], t[2]>> \in v3
  BY DEF InHand
<1> QED  BY <1>2, <1>3, <1>4, <1>5 DEF InHand

\* While it has lost no answer, a running command has changed nothing.
LEMMA RunningIsIdle == Settled /\ ~v2.lost => v2.acted = 0
  BY RowsOfRequest DEF Settled, CmdActed

LEMMA CmdTakes ==
  ASSUME Settled, Cli!Routed(Cli!Request), ~Cli!Conflict(Cli!Request),
         v2' = Cli!Take(Cli!Request)
  PROVE  CmdInv'
<1> DEFINE r == Cli!Request
           d == Cli!Done(r)
           both == Cli!Learned(r)
           c == [d EXCEPT !.faults = @ \cup Cli!Faults(r), !.found = both]
<1>0. /\ InHand(d) /\ Knows(d) /\ d.found = v2.found
      /\ v2.at = Len(v2.plan) /\ LastWrites => d.acted > 0 \/ v4 # {}
      /\ r.learns # {} => d = v2
  BY DoneIsInHand
<1>1. DOMAIN d = CmdFields
  BY <1>0 DEF InHand
<1>2. v2' = IF \E k \in r.learns : Cli!Match(k) = None THEN Cli!Fail(c, "not found")
            ELSE Cli!Continue(c)
  BY DEF Cli!Take
<1>3. \A k \in r.learns :
        \/ Cli!Match(k) = None /\ (v2.crowded \/ v4 # {})
        \/ Cli!Match(k) # None /\ <<k, Cli!Match(k)>> \in v3
  BY MatchBears
<1> HIDE DEF d, r
<1>5. /\ DOMAIN both = r.learns \cup DOMAIN v2.found
      /\ \A k \in r.learns : both[k] = Cli!Match(k)
      /\ \A k \in DOMAIN v2.found : k \notin r.learns => both[k] = v2.found[k]
  BY DEF Cli!Learned
<1> HIDE DEF both
<1>6. /\ DOMAIN c = CmdFields /\ c.found = both /\ c.plan = d.plan /\ c.at = d.at
      /\ c.told = d.told /\ (c.crowded <=> d.crowded) /\ c.made = d.made /\ c.acted = d.acted
      /\ c.touched = d.touched /\ (c.lost <=> d.lost)
  BY <1>1 DEF CmdFields, both
<1> HIDE DEF c
<1>7. \A k \in DOMAIN d.found : d.found[k] = None \/ <<k, d.found[k]>> \in v3
  BY <1>0 DEF InHand
<1>8. \A k \in DOMAIN c.found : c.found[k] = None \/ <<k, c.found[k]>> \in v3
  BY <1>0, <1>3, <1>5, <1>6, <1>7
<1>9. InHand(c)
  BY <1>0, <1>6, <1>8, InHandAlike
<1>10. CASE \E k \in r.learns : Cli!Match(k) = None
  <2>1. r.learns # {} /\ d = v2
    BY <1>0, <1>10
  <2>2. v4 # {} \/ v2.crowded
    BY <1>3, <1>10
  <2>3. ~(~c.lost /\ c.acted = 1)
    BY <1>6, <2>1, RunningIsIdle
  <2>4. v2' = Cli!Fail(c, "not found") /\ "not found" \in CmdFailures
    BY <1>2, <1>10 DEF CmdFailures
  <2> QED  BY <1>9, <2>1, <2>2, <2>3, <2>4, CmdFails DEF r
<1>11. CASE ~ \E k \in r.learns : Cli!Match(k) = None
  <2>1. v2' = Cli!Continue(c)
    BY <1>2, <1>11
  <2>2. \A k \in r.learns : k \in DOMAIN c.found /\ c.found[k] # None
    BY <1>5, <1>6, <1>11
  <2>3. \A k \in DOMAIN d.found : d.found[k] # None => k \in DOMAIN c.found /\ c.found[k] # None
    BY <1>0, <1>5, <1>6, <2>2
  <2>4. Knows(c)
    BY <1>0, <1>6, <2>3 DEF Knows
  <2>5. c.at = Len(c.plan) /\ LastWrites => c.acted > 0 \/ v4 # {}
    BY <1>0, <1>6 DEF InHand
  <2> QED  BY <1>9, <2>1, <2>2, <2>4, <2>5, CmdContinues DEF r
<1> QED  BY <1>10, <1>11

LEMMA CmdAnswers == ASSUME CmdInv, Cli!Answer PROVE CmdInv'
<1> DEFINE r == Cli!Request
           c == [v2 EXCEPT !.refused = @ \cup {r.route}]
<1>0. Settled
  BY DEF Settled, Cli!Answer, Cli!Running
<1>1. /\ InHand(v2) /\ Knows(v2) /\ DOMAIN v2 = CmdFields /\ ~(~v2.lost /\ v2.acted = 1)
      /\ Cli!Missing(r) # {} => v4 # {}
  BY <1>0, RunningIsInHand, RunningIsIdle, RowsOfRequest DEF Settled, InHand
<1>2. /\ DOMAIN c = CmdFields /\ c.plan = v2.plan /\ c.at = v2.at
      /\ c.told = v2.told /\ (c.crowded <=> v2.crowded) /\ c.made = v2.made /\ c.acted = v2.acted
      /\ c.touched = v2.touched /\ (c.lost <=> v2.lost) /\ c.found = v2.found
  BY <1>1 DEF CmdFields
<1> HIDE DEF c
<1>3. InHand(c) /\ Knows(c) /\ ~(~c.lost /\ c.acted = 1)
  <2>1. \A k \in DOMAIN c.found : c.found[k] = None \/ <<k, c.found[k]>> \in v3
    BY <1>1, <1>2 DEF InHand
  <2>2. InHand(c)
    BY <1>1, <1>2, <2>1, InHandAlike
  <2> QED  BY <1>1, <1>2, <2>2 DEF Knows
<1>4. \/ v2' = Cli!Fail(v2, "usage")
      \/ v2' = Cli!Fail(c, "refused")
      \/ v2' = Cli!Fail(v2, "not found") /\ Cli!NotFound(r)
      \/ v2' = Cli!Fail(v2, "conflict") /\ Cli!Conflict(r)
      \/ v2' = Cli!Take(r) /\ ~Cli!Refuses(r) /\ ~Cli!Conflict(r)
  BY DEF Cli!Answer, c
<1>5. /\ "usage" \in CmdFailures /\ "refused" \in CmdFailures /\ "not found" \in CmdFailures
      /\ "conflict" \in CmdFailures
  BY DEF CmdFailures
<1>6. CASE v2' = Cli!Fail(v2, "usage")
  BY <1>0, <1>1, <1>5, <1>6, CmdFails
<1>7. CASE v2' = Cli!Fail(c, "refused")
  BY <1>0, <1>3, <1>5, <1>7, CmdFails
<1>8. CASE v2' = Cli!Fail(v2, "not found") /\ Cli!NotFound(r)
  <2>1. v4 # {}
    BY <1>1, <1>8 DEF Cli!NotFound
  <2> QED  BY <1>0, <1>1, <1>5, <1>8, <2>1, CmdFails
<1>9. CASE v2' = Cli!Fail(v2, "conflict") /\ Cli!Conflict(r)
  <2>1. v2.made > 0 \/ v5.taken
    BY <1>9 DEF Cli!Conflict
  <2>2. v2.made > 0 => v2.lost
    BY <1>1 DEF InHand
  <2> QED  BY <1>0, <1>1, <1>5, <1>9, <2>1, <2>2, CmdFails
<1>10. CASE v2' = Cli!Take(r) /\ ~Cli!Refuses(r) /\ ~Cli!Conflict(r)
  <2>1. Cli!Routed(r)
    BY <1>10 DEF Cli!Refuses
  <2> QED  BY <1>0, <1>10, <2>1, CmdTakes
<1> QED  BY <1>4, <1>6, <1>7, <1>8, <1>9, <1>10

\* A rollout that could not be attached, and an answer that is lost.
LEMMA CmdLoses == ASSUME CmdInv, Cli!Late \/ Cli!Lose PROVE CmdInv'
<1> DEFINE r == Cli!Request
           d == Cli!Done(r)
           c == [d EXCEPT !.lost = TRUE]
<1>0. Settled
  BY DEF Settled, Cli!Late, Cli!Lose, Cli!Running
<1>1. InHand(v2) /\ Knows(v2) /\ ~(~v2.lost /\ v2.acted = 1)
  BY <1>0, RunningIsInHand, RunningIsIdle
<1>2. "late" \in CmdFailures /\ "unknown" \in CmdFailures
  BY DEF CmdFailures
<1>3. CASE Cli!Served(r)
  <2>1. InHand(d) /\ Knows(d)
    <3>1. Cli!Routed(r) /\ ~Cli!Conflict(r)
      BY <1>3 DEF Cli!Served, Cli!Refuses
    <3> QED  BY <1>0, <3>1, DoneIsInHand
  <2>2. DOMAIN d = CmdFields
    BY <2>1 DEF InHand
  <2> HIDE DEF d
  <2>3. /\ DOMAIN c = CmdFields /\ c.plan = d.plan /\ c.at = d.at
        /\ c.told = d.told /\ (c.crowded <=> d.crowded) /\ c.made = d.made /\ c.acted = d.acted
        /\ c.touched = d.touched /\ c.lost /\ c.found = d.found
    BY <2>2 DEF CmdFields
  <2> HIDE DEF c
  <2>4. InHand(c) /\ Knows(c)
    <3>1. \A k \in DOMAIN c.found : c.found[k] = None \/ <<k, c.found[k]>> \in v3
      BY <2>1, <2>3 DEF InHand
    <3>2. /\ c.plan = v2.plan /\ c.at = v2.at /\ c.told = "running" /\ (c.crowded <=> v2.crowded)
          /\ c.made \in Nat /\ c.acted \in Nat /\ (c.acted > 0 => LastWrites)
          /\ \A t \in c.touched : t[3] = "given" \/ <<t[1], t[2]>> \in v3
      BY <2>1, <2>3 DEF InHand
    <3>3. c.made > 1 => Cli!Routes[c.plan[Len(c.plan)].route].on \notin Cli!Unique
      BY <2>1, <2>3 DEF InHand
    <3>4. InHand(c)
      BY <2>3, <3>1, <3>2, <3>3 DEF InHand
    <3> QED  BY <2>1, <2>3, <3>4 DEF Knows
  <2>5. \/ v2' = Cli!Fail(d, "late")
        \/ v2' = Cli!Fail(v2, "unknown")
        \/ v2' = Cli!Fail(c, "unknown")
    BY DEF Cli!Late, Cli!Lose, c, d
  <2>6. CASE v2' = Cli!Fail(d, "late")
    BY <1>0, <1>2, <2>1, <2>6, CmdFails
  <2>7. CASE v2' = Cli!Fail(v2, "unknown")
    BY <1>0, <1>1, <1>2, <2>7, CmdFails
  <2>8. CASE v2' = Cli!Fail(c, "unknown")
    BY <1>0, <1>2, <2>3, <2>4, <2>8, CmdFails
  <2> QED  BY <2>5, <2>6, <2>7, <2>8
<1>4. CASE ~Cli!Served(r)
  <2>1. v2' = Cli!Fail(v2, "unknown")
    BY <1>4 DEF Cli!Late, Cli!Lose
  <2> QED  BY <1>0, <1>1, <1>2, <2>1, CmdFails
<1> QED  BY <1>3, <1>4

LEMMA CmdReruns == ASSUME CmdInv, Cli!Rerun PROVE CmdInv'
<1>0. CmdTyped /\ LookedUp /\ CmdActed /\ NamesInv /\ v2.told = "unknown"
  BY DEF CmdInv, Cli!Rerun, Cli!Idle
<1>1. /\ v2' = [v2 EXCEPT !.told = "running", !.at = 1, !.found = Cli!NoRefs, !.runs = 2]
      /\ UNCHANGED <<v1, v3, v4, v5>>
  BY DEF Cli!Rerun
<1>2. /\ DOMAIN v2' = CmdFields /\ v2'.plan = v2.plan /\ v2'.made = v2.made /\ v2'.acted = v2.acted
      /\ v2'.touched = v2.touched /\ v2'.found = Cli!NoRefs /\ v2'.told = "running" /\ v2'.at = 1
      /\ (v2'.lost <=> v2.lost) /\ (v2'.crowded <=> v2.crowded)
  BY <1>0, <1>1 DEF CmdTyped, CmdFields
<1>3. /\ DOMAIN v2.plan = 1 .. Len(v2.plan) /\ Len(v2.plan) \in Nat /\ v2.at \in DOMAIN v2.plan
  BY <1>0, PlanIsSequence DEF CmdTyped
<1>4. NamesInv'
  BY <1>0, <1>1 DEF NamesInv
<1>5. CmdTyped'
  <2>1. v2'.told \in Cli!Told \ {"idle"}
    BY <1>2 DEF Cli!Told
  <2>2. v2'.at \in DOMAIN v2'.plan
    BY <1>2, <1>3
  <2> QED  BY <1>0, <1>1, <1>2, <2>1, <2>2 DEF CmdTyped
<1>6. LookedUp'
  <2>1. DOMAIN v2'.found = {}
    BY <1>2 DEF Cli!NoRefs
  <2>2. \A t \in v2'.touched : t[3] = "given" \/ <<t[1], t[2]>> \in v3'
    BY <1>0, <1>1, <1>2 DEF LookedUp
  <2> QED  BY <1>2, <2>1, <2>2 DEF LookedUp
<1>7. CmdActed'
  <2>0. LastWrites' <=> LastWrites
    BY <1>2 DEF LastWrites
  <2>1. (v2.acted > 0 => LastWrites)'
    BY <1>0, <1>2, <2>0 DEF CmdActed
  <2>2. (~v2.lost => v2.acted \in {0, 1} /\ v2.made <= v2.acted)'
    BY <1>0, <1>2 DEF CmdActed
  <2>3. (~v2.lost /\ v2.acted = 1 => v2.told \in {"done", "late"})'
    BY <1>0, <1>2 DEF CmdActed
  <2>4. (v2.told = "done" /\ LastWrites => v2.acted > 0 \/ v4 # {})'
    BY <1>2
  <2>5. (v2.made > 1 => Cli!Routes[v2.plan[Len(v2.plan)].route].on \notin Cli!Unique)'
    BY <1>0, <1>2 DEF CmdActed
  <2>6. (v2.told = "conflict" => v2.lost \/ v5.taken)'
    BY <1>2
  <2>7. (v2.told = "not found" => v4 # {} \/ v2.crowded)'
    BY <1>2
  <2> QED  BY <2>1, <2>2, <2>3, <2>4, <2>5, <2>6, <2>7 DEF CmdActed
<1> QED  BY <1>4, <1>5, <1>6, <1>7 DEF CmdInv

LEMMA CmdStep == CmdInv /\ [Cli!Next]_<<v1, v2, v3, v4, v5>> => CmdInv'
<1> SUFFICES ASSUME CmdInv, [Cli!Next]_<<v1, v2, v3, v4, v5>> PROVE CmdInv'
  OBVIOUS
<1>1. CASE UNCHANGED <<v1, v2, v3, v4, v5>>
  BY <1>1 DEF CmdInv, NamesInv, CmdTyped, LookedUp, CmdActed, LastWrites
<1> QED  BY <1>1, CmdBegins, CmdAnswers, CmdLoses, CmdReruns, CmdOthers DEF Cli!Next

LEMMA CmdCardinality == \A S : Cli!Cardinality(S) = Cardinality(S)
  BY Zenon DEF Cli!Cardinality, Cardinality

\* A plan with a write has one.
LEMMA WritesOfPlan ==
  ASSUME CmdTyped
  PROVE  Cli!WritesOf(v2.plan) = IF LastWrites THEN 1 ELSE 0
<1> DEFINE W == {i \in DOMAIN v2.plan : Cli!IsWrite(v2.plan[i])}
<1>0. /\ Cli!SoundPlan(v2.plan) /\ DOMAIN v2.plan = 1 .. Len(v2.plan) /\ Len(v2.plan) \in Nat
      /\ v2.plan = <<>> <=> Len(v2.plan) = 0
  BY PlanIsSequence DEF CmdTyped
<1>1. Cli!WritesOf(v2.plan) = Cardinality(W)
  BY CmdCardinality DEF Cli!WritesOf
<1>2. \A i \in W : i = Len(v2.plan)
  BY <1>0, WritesAreLast
<1>3. CASE LastWrites
  <2>1. W = {Len(v2.plan)}
    BY <1>0, <1>2, <1>3 DEF LastWrites
  <2> HIDE DEF W
  <2> QED  BY <1>1, <1>3, <2>1, FS_Singleton
<1>4. CASE ~LastWrites
  <2>1. W = {}
    BY <1>0, <1>2, <1>4 DEF LastWrites
  <2> HIDE DEF W
  <2> QED  BY <1>1, <1>4, <2>1, FS_EmptySet
<1> QED  BY <1>3, <1>4

\* The invariant says what CommandsHitTheNamed says.
LEMMA CmdMeans == CmdInv => Cli!CommandsHitTheNamed
<1> SUFFICES ASSUME CmdInv, v2.told # "idle" PROVE Cli!CommandsHitTheNamed
  BY DEF Cli!CommandsHitTheNamed
<1>0. CmdTyped /\ LookedUp /\ CmdActed /\ v2.acted \in Nat /\ v2.made \in Nat
  BY DEF CmdInv, Cli!Idle, CmdTyped
<1>1. ~v2.lost => v2.acted \in {0, 1} /\ v2.made <= v2.acted
  BY <1>0, Zenon DEF CmdActed
<1>2. ~v2.lost => v2.acted <= 1 /\ v2.made <= v2.acted /\ (v2.acted > 0 => v2.acted = 1)
  BY <1>0, <1>1
<1>3. Cli!WritesOf(v2.plan) = IF LastWrites THEN 1 ELSE 0
  BY <1>0, WritesOfPlan
<1>4. \A t \in v2.touched : t[3] = "given" \/ <<t[1], t[2]>> \in v3
  BY <1>0 DEF LookedUp
<1>5. v2.told = "done" => v2.acted >= Cli!WritesOf(v2.plan) \/ v4 # {}
  <2>1. CASE LastWrites
    BY <1>0, <1>3, <2>1 DEF CmdActed
  <2>2. CASE ~LastWrites
    BY <1>0, <1>3, <2>2
  <2> QED  BY <2>1, <2>2
<1>6. v2.acted > Cli!WritesOf(v2.plan) => v2.lost
  <2>1. ~v2.lost => v2.acted <= 1
    BY <1>2
  <2>2. CASE LastWrites
    BY <1>0, <1>3, <2>1, <2>2
  <2>3. CASE ~LastWrites
    BY <1>0, <1>3, <2>3 DEF CmdActed
  <2> QED  BY <2>2, <2>3
<1>7. v2.told \in {"usage", "refused", "not found", "conflict"} /\ v2.acted > 0 => v2.lost
  <2>1. ~v2.lost /\ v2.acted > 0 => v2.acted = 1
    BY <1>2
  <2>2. ~v2.lost /\ v2.acted = 1 => v2.told \in {"done", "late"}
    BY <1>0 DEF CmdActed
  <2> QED  BY <2>1, <2>2
<1>8. ASSUME v2.made > 1
      PROVE  /\ v2.lost
             /\ \A i \in DOMAIN v2.plan :
                  Cli!Routed(v2.plan[i]) /\ Cli!Creates1(v2.plan[i]) =>
                    Cli!Routes[v2.plan[i].route].on \notin Cli!Unique
  <2>1. v2.lost
    BY <1>0, <1>8, <1>2
  <2>2. ASSUME NEW i \in DOMAIN v2.plan, Cli!Routed(v2.plan[i]), Cli!Creates1(v2.plan[i])
        PROVE  i = Len(v2.plan)
    <3>1. Cli!IsWrite(v2.plan[i])
      BY <2>2 DEF Cli!IsWrite, Cli!Creates1, Cli!Changing
    <3> QED  BY <1>0, <3>1, WritesAreLast DEF CmdTyped
  <2>3. Cli!Routes[v2.plan[Len(v2.plan)].route].on \notin Cli!Unique
    BY <1>0, <1>8 DEF CmdActed
  <2> QED  BY <2>1, <2>2, <2>3
<1>9. /\ v2.told = "conflict" => v2.lost \/ v5.taken
      /\ v2.told = "not found" => v4 # {} \/ v2.crowded
  BY <1>0 DEF CmdActed
<1> QED  BY <1>4, <1>5, <1>6, <1>7, <1>8, <1>9 DEF Cli!CommandsHitTheNamed

-----------------------------------------------------------------------------
(* The parts within the surroundings: each invariant holds in its scenario  *)

ReleasePlaneInv == scenario = "releases" => ReleaseInv
HooksPlaneInv == scenario = "webhooks" => HooksInv
PrefsPlaneInv == scenario = "preferences" => PrefsInv
CredsPlaneInv == scenario = "credentials" => CredsInv
StreamPlaneInv == scenario = "stream" => StreamInv
NoticesPlaneInv == scenario = "notifications" => NoticesInv
ReportsPlaneInv == scenario = "reports" => ReportsInv
AgentPlaneInv == scenario = "agent" => AgentInv
CmdPlaneInv == scenario = "commands" => CmdInv

PlaneInv ==
  /\ ReleasePlaneInv /\ HooksPlaneInv /\ PrefsPlaneInv /\ CredsPlaneInv
  /\ StreamPlaneInv /\ NoticesPlaneInv /\ ReportsPlaneInv /\ AgentPlaneInv
  /\ CmdPlaneInv

\* A step of the surroundings is one of the part the scenario names.
LEMMA StepsOfTheParts ==
  ASSUME [SurroundNext]_allVars
  PROVE  /\ scenario' = scenario
         /\ scenario = "releases" => [Next]_vars
         /\ scenario = "webhooks" => [Hooks!Next]_<<v1, v2, v3, v4, v5, v6>>
         /\ scenario = "preferences" => [Prefs!Next]_<<v1, v2, v3, v4, v5>>
         /\ scenario = "credentials" => [Creds!Next]_<<v1, v2, v3, v4, v5, v6, v7, v8>>
         /\ scenario = "stream" => [Stream!Next]_streamVars
         /\ scenario = "notifications" => [Notices!Next]_<<v1, v2, v3, v4, v5, v6, v7>>
         /\ scenario = "reports" => [Reports!Next]_<<v1, v2, v3, v4, v5, v6, v7, v8, v9>>
         /\ scenario = "agent" => [Sidecar!Next]_<<v1, v2, v3, v4, v5, v6, v7, v8, v9, v10, v11>>
         /\ scenario = "commands" => [Cli!Next]_<<v1, v2, v3, v4, v5>>
<1>1. CASE SurroundNext
  BY <1>1 DEF SurroundNext
<1>2. CASE UNCHANGED allVars
  BY <1>2 DEF allVars, shared, streamVars
<1> QED  BY <1>1, <1>2

LEMMA PlaneAlways == SurroundSpec => []PlaneInv
<1>1. SurroundInit => PlaneInv
  BY ReleaseInitially, HooksInitially, PrefsInitially, CredsInitially, StreamInitially,
     NoticesInitially, ReportsInitially, AgentInitially, CmdInitially
     DEF SurroundInit, PlaneInv, ReleasePlaneInv, HooksPlaneInv, PrefsPlaneInv, CredsPlaneInv,
         StreamPlaneInv, NoticesPlaneInv, ReportsPlaneInv, AgentPlaneInv,
         CmdPlaneInv
<1>2. PlaneInv /\ [SurroundNext]_allVars => PlaneInv'
  BY StepsOfTheParts, ReleaseStep, HooksStep, PrefsStep, CredsStep, StreamStep, NoticesStep,
     ReportsStep, AgentStep, CmdStep
     DEF PlaneInv, ReleasePlaneInv, HooksPlaneInv, PrefsPlaneInv, CredsPlaneInv,
         StreamPlaneInv, NoticesPlaneInv, ReportsPlaneInv, AgentPlaneInv,
         CmdPlaneInv
<1> QED  BY <1>1, <1>2, PTL DEF SurroundSpec

\* UpdateStatus, Start, Promote, Pause, Rollback write the row they read back
\* whole: whatever order they come in, its status, times and percentage agree.
THEOREM ReleaseAlwaysWhole == SurroundSpec => []ReleaseIsWhole
<1>1. PlaneInv => ReleaseIsWhole
  BY DEF PlaneInv, ReleasePlaneInv, ReleaseIsWhole, ReleaseInv, ReleaseTyped, ReleaseRequests, TypeOK
<1> QED  BY <1>1, PlaneAlways, PTL

\* TestWebhook and handleMessage: a delivery recorded as sent arrived, a message
\* acknowledged has been to every channel and an open incident is tracked, across
\* edits, redeliveries and crashes.
THEOREM DeliveriesAlwaysHold == SurroundSpec => []DeliveriesHold
<1>1. PlaneInv => DeliveriesHold
  BY HooksMean, NoticesMean DEF PlaneInv, HooksPlaneInv, NoticesPlaneInv, DeliveriesHold
<1> QED  BY <1>1, PlaneAlways, PTL

\* RotateKey, RevokeKey and refreshTokenHandler: what was answered as spent stays
\* spent, and is succeeded twice only past a simultaneous or interrupted request.
THEOREM CredentialsAlwaysHold == SurroundSpec => []CredentialsHold
<1>1. PlaneInv => CredentialsHold
  BY CredsMean DEF PlaneInv, CredsPlaneInv, CredentialsHold
<1> QED  BY <1>1, PlaneAlways, PTL

\* Report and UpsertBuildDeployment: an answered report has its deployment, a row
\* is there twice only past an outdated search, and orderly events leave one build.
THEOREM ReportsAlwaysHold == SurroundSpec => []ReportsHold
<1>1. PlaneInv => ReportsHold
  BY ReportsMean DEF PlaneInv, ReportsPlaneInv, ReportsHold
<1> QED  BY <1>1, PlaneAlways, PTL

\* The agent's callback, reporter and registry: the reporter shows what Envoy is
\* served, heartbeats of one version agree unless one was taken within a callback,
\* and none beyond Keep is left but by requests that did not come to their pruning.
THEOREM SidecarAlwaysHolds == SurroundSpec => []SidecarHolds
<1>1. PlaneInv => SidecarHolds
  BY AgentMeans DEF PlaneInv, AgentPlaneInv, SidecarHolds
<1> QED  BY <1>1, PlaneAlways, PTL

\* resolve.go and the commands' requests: a command changes only rows that bore
\* the name it was given, and reports what happened, however often somebody else
\* deletes, recreates or renames and whichever answer is lost.
THEOREM CommandsAlwaysHitTheNamed == SurroundSpec => []CommandsHitTheNamed
<1>1. PlaneInv => CommandsHitTheNamed
  BY CmdMeans DEF PlaneInv, CmdPlaneInv, CommandsHitTheNamed
<1> QED  BY <1>1, PlaneAlways, PTL

\* The SDK's cache against the API's replicas: a flag in it is outdated only for
\* one of the named reasons, and goes back only when listing and stream overlap.
THEOREM StreamAlwaysHolds == SurroundSpec => StreamHolds
<1>1. PlaneInv => (scenario = "stream" => Stream!TypeOK /\ Stream!StaleIsExplained)
  BY StreamMeans DEF PlaneInv, StreamPlaneInv
<1>2. PlaneInv /\ [SurroundNext]_allVars => [scenario = "stream" => Stream!ForwardStep]_allVars
  BY StepsOfTheParts, StreamForward DEF PlaneInv, StreamPlaneInv
<1> QED  BY <1>1, <1>2, PlaneAlways, PTL DEF SurroundSpec, StreamHolds

\* The handlers that read a row and write all of it back: webhooks' and
\* notification preferences' saves, accounts and sessions, releases. Only a
\* write between the two explains a loss.
THEOREM LostWritesAreAlwaysExplained == SurroundSpec => LostWritesAreExplained
<1>1. PlaneInv /\ [SurroundNext]_allVars =>
        /\ scenario = "webhooks" => Hooks!EditLossStep
        /\ scenario = "preferences" => Prefs!TypeOK /\ Prefs!SaveLossStep
        /\ scenario = "credentials" => Creds!OverwriteStep
        /\ scenario = "releases" => StaleWriteStep
  BY StepsOfTheParts, HooksLosses, PrefsMean, PrefsLosses, CredsLosses, ReleaseMoves
     DEF PlaneInv, HooksPlaneInv, PrefsPlaneInv, CredsPlaneInv, ReleasePlaneInv
<1> QED  BY <1>1, PlaneAlways, PTL DEF SurroundSpec, LostWritesAreExplained
=============================================================================
