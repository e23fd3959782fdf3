---------------------------- MODULE StagingProofs ----------------------------
(***************************************************************************)
(* Proofs about Staging, for any number of deployments, keys, changes,     *)
(* edits and interruptions.                                                *)
(*                                                                         *)
(* A row is known by its id.  The invariant ties the ids that are staged,  *)
(* loaded and applied to one another: an id stands for one key, what a     *)
(* deployment has dispatched is in its transaction or in production, and a *)
(* creation that is in production is staged no longer.                     *)
(***************************************************************************)
EXTENDS MC_Staging, FiniteSetTheorems, SequenceTheorems, TLAPS

-----------------------------------------------------------------------------
(* The invariant                                                            *)

StagedRow == [id : Nat, rev : Nat, at : Nat, change : AnyChange]
Production ==
  [enabled : BOOLEAN, settings : {0, 1}, archived : BOOLEAN, rule : BOOLEAN,
   newFlag : BOOLEAN, newRules : Nat, newStrategy : BOOLEAN,
   default : {None, "strategy", "strategy2"}]
Marks == [id : Nat, rev : Nat, by : Deploys]

\* A row of key k under an id that was given out.
RowOf(k, row) == row \in StagedRow /\ row.change \in Changes(k) /\ row.id <= stages

\* A deployment in its loop: the rows it loaded, and the keys still to come.
Loop ==
  [pc : {"run"}, todo : Seq(Keys), rows : UNION {[S -> StagedRow] : S \in SUBSET Keys},
   tx : SUBSET Creates, seen : Production, alone : BOOLEAN, whole : BOOLEAN]
NoRepeats(s) == \A i, j \in DOMAIN s : s[i] = s[j] => i = j
LoopOK(r) ==
  /\ \A k \in DOMAIN r.rows : RowOf(k, r.rows[k])
  /\ r.todo \in Seq(DOMAIN r.rows) /\ NoRepeats(r.todo)
  /\ r.tx \subseteq DOMAIN r.rows

InLoop(d) == dep[d].pc = "run"
Typed ==
  /\ staged = [k \in Keys |-> staged[k]]
  /\ \A k \in Keys : staged[k] # None => RowOf(k, staged[k])
  /\ prod \in Production
  /\ prod.default = "strategy2" => prod.newStrategy
  /\ dep = [d \in Deploys |-> dep[d]]
  /\ \A d \in Deploys :
       \/ dep[d] = Free
       \/ dep[d] \in Loop /\ LoopOK(dep[d])
       \/ \E entries \in SUBSET applied : dep[d] = [pc |-> "audit", entries |-> entries]
  /\ report \in [Deploys -> {None} \cup [committed : SUBSET Nat, failed : BOOLEAN]]
  /\ applied \subseteq Marks /\ audit \subseteq applied
  /\ now \in 0 .. MaxTime
  /\ stages \in Nat /\ deploys \in 0 .. MaxDeploys /\ edits \in Nat

\* Every new rule is one deployment's.
RulesCounted ==
  LET running == {d \in Deploys : InLoop(d)} IN
  IsFiniteSet(running) /\ prod.newRules + Cardinality(running) <= deploys

\* An id stands for one key, staged or loaded.
OneKeyPerId ==
  /\ \A k, l \in Keys :
       staged[k] # None /\ staged[l] # None /\ staged[k].id = staged[l].id => k = l
  /\ \A d \in Deploys : InLoop(d) => \A k \in DOMAIN dep[d].rows :
       /\ \A l \in Keys : staged[l] # None /\ staged[l].id = dep[d].rows[k].id => k = l
       /\ \A e \in Deploys : InLoop(e) => \A l \in DOMAIN dep[e].rows :
            dep[e].rows[l].id = dep[d].rows[k].id => k = l

\* What was dispatched is in the transaction or in production.
DispatchedIsDone ==
  \A d \in Deploys : InLoop(d) => \A k \in DOMAIN dep[d].rows :
    \/ k \in ToSet(dep[d].todo) \/ k \in dep[d].tx \/ Mark(d, k) \in applied

\* A creation in production is staged no longer, and no deployment has made one
\* it is still to commit.
CreatesPending ==
  /\ \A m \in applied : m.id <= stages
  /\ \A k \in Creates \cap Keys : staged[k] # None => \A m \in applied : m.id # staged[k].id
  /\ \A d \in Deploys : InLoop(d) => \A k \in Creates \cap DOMAIN dep[d].rows :
       \A m \in applied : ~(m.by = d /\ m.id = dep[d].rows[k].id)

\* What is answered as committed without a failed row is in production.
AnswersHold ==
  \A d \in Deploys : report[d] # None /\ ~report[d].failed =>
    \A i \in report[d].committed : \E m \in applied : m.id = i /\ m.by = d

StagingInv ==
  Typed /\ RulesCounted /\ OneKeyPerId /\ DispatchedIsDone /\ CreatesPending /\ AnswersHold

\* The columns of the flag that the overlay shows.
Columns == {"enabled", "settings", "archived"}

\* What the handler of a change makes of the flag.
Put(flag, change) ==
  IF change.act = "update"
    THEN [flag EXCEPT !.enabled = change.enabled, !.settings = change.settings]
  ELSE flagApply(flag, change)

\* What a deployment of the flag's only change, alone at work on the flag, saw is
\* what the change makes of the flag, and once it is dispatched what the flag is.
SeenComes ==
  \A d \in Deploys : InLoop(d) /\ dep[d].alone /\ dep[d].whole =>
    \A k \in FlagKeys \cap DOMAIN dep[d].rows : FlagKeys \cap DOMAIN dep[d].rows = {k} =>
      \A c \in Promised(dep[d].rows[k].change) :
        dep[d].seen[c] = IF k \in ToSet(dep[d].todo)
                         THEN Put(prod, dep[d].rows[k].change)[c] ELSE prod[c]

-----------------------------------------------------------------------------
(* Sequences and flags                                                      *)

\* What is left of a list of different keys when its head is done.
LEMMA TodoStep ==
  ASSUME NEW K, NEW s \in Seq(K), s # <<>>, NoRepeats(s)
  PROVE  /\ Head(s) \in K /\ Tail(s) \in Seq(K) /\ NoRepeats(Tail(s))
         /\ ToSet(s) = {Head(s)} \cup ToSet(Tail(s)) /\ Head(s) \notin ToSet(Tail(s))
  <1> DEFINE t == Tail(s)
  <1>1. Head(s) \in K /\ t \in Seq(K) /\ Len(t) = Len(s) - 1
    BY HeadTailProperties
  <1>2. \A i \in 1 .. Len(t) : t[i] = s[i + 1]
    BY HeadTailProperties
  <1>3. /\ Len(s) \in Nat \ {0} /\ DOMAIN s = 1 .. Len(s) /\ DOMAIN t = 1 .. Len(t)
    BY <1>1, LenProperties, EmptySeq
  <1>4. Head(s) = s[1]
    BY <1>3
  <1> HIDE DEF t
  <1>5. NoRepeats(t)
    <2> SUFFICES ASSUME NEW i \in 1 .. Len(t), NEW j \in 1 .. Len(t), t[i] = t[j] PROVE i = j
      BY <1>3 DEF NoRepeats
    <2>1. i + 1 \in DOMAIN s /\ j + 1 \in DOMAIN s /\ s[i + 1] = s[j + 1]
      BY <1>1, <1>2, <1>3
    <2>2. i + 1 = j + 1
      BY <2>1 DEF NoRepeats
    <2> QED
      BY <1>1, <1>3, <2>2
  <1>6. Head(s) \notin ToSet(t)
    <2> SUFFICES ASSUME NEW i \in 1 .. Len(t), t[i] = Head(s) PROVE FALSE
      BY <1>3 DEF ToSet
    <2>1. i + 1 \in DOMAIN s /\ 1 \in DOMAIN s /\ s[i + 1] = s[1]
      BY <1>1, <1>2, <1>3, <1>4
    <2>2. i + 1 = 1
      BY <2>1 DEF NoRepeats
    <2> QED
      BY <1>1, <1>3, <2>2
  <1>7. ToSet(s) \subseteq {Head(s)} \cup ToSet(t)
    <2> SUFFICES ASSUME NEW i \in 1 .. Len(s), s[i] # Head(s) PROVE s[i] \in ToSet(t)
      BY <1>3 DEF ToSet
    <2>1. i - 1 \in 1 .. Len(t) /\ t[i - 1] = s[(i - 1) + 1] /\ (i - 1) + 1 = i
      BY <1>1, <1>2, <1>3, <1>4
    <2> QED
      BY <1>3, <2>1 DEF ToSet
  <1>8. {Head(s)} \cup ToSet(t) \subseteq ToSet(s)
    <2>1. Head(s) \in ToSet(s)
      BY <1>3, <1>4 DEF ToSet
    <2>2. ASSUME NEW i \in 1 .. Len(t) PROVE t[i] \in ToSet(s)
      <3>1. i + 1 \in DOMAIN s /\ t[i] = s[i + 1]
        BY <1>1, <1>2, <1>3
      <3> QED
        BY <3>1 DEF ToSet
    <2> QED
      BY <1>3, <2>1, <2>2 DEF ToSet
  <1> QED
    BY <1>1, <1>5, <1>6, <1>7, <1>8 DEF t

\* planBatch: every key of the batch comes once.
LEMMA PlanIsWhole ==
  ASSUME NEW S \in SUBSET AllKeys, NEW plan \in planBatch(S)
  PROVE  plan \in Seq(S) /\ NoRepeats(plan) /\ ToSet(plan) = S
  <1> DEFINE n == Cardinality(S)
  <1>1. IsFiniteSet(AllKeys)
    <2>1. IsFiniteSet({})
      BY FS_EmptySet
    <2>2. IsFiniteSet({"flag"})
      BY <2>1, FS_AddElement, {} \cup {"flag"} = {"flag"}
    <2>3. IsFiniteSet({"flag"} \cup {"flag.enabled"})
      BY <2>2, FS_AddElement
    <2>4. IsFiniteSet({"flag"} \cup {"flag.enabled"} \cup {"rule"})
      BY <2>3, FS_AddElement
    <2>5. IsFiniteSet({"flag"} \cup {"flag.enabled"} \cup {"rule"} \cup {"new.flag"})
      BY <2>4, FS_AddElement
    <2>6. IsFiniteSet({"flag"} \cup {"flag.enabled"} \cup {"rule"} \cup {"new.flag"}
                      \cup {"new.rule"})
      BY <2>5, FS_AddElement
    <2>7. IsFiniteSet({"flag"} \cup {"flag.enabled"} \cup {"rule"} \cup {"new.flag"}
                      \cup {"new.rule"} \cup {"new.strategy"})
      BY <2>6, FS_AddElement
    <2>8. IsFiniteSet({"flag"} \cup {"flag.enabled"} \cup {"rule"} \cup {"new.flag"}
                      \cup {"new.rule"} \cup {"new.strategy"} \cup {"default"})
      BY <2>7, FS_AddElement
    <2>9. AllKeys = {"flag"} \cup {"flag.enabled"} \cup {"rule"} \cup {"new.flag"}
                      \cup {"new.rule"} \cup {"new.strategy"} \cup {"default"}
      BY DEF AllKeys
    <2> QED
      BY <2>8, <2>9
  <1>2. IsFiniteSet(S) /\ n \in Nat
    BY <1>1, FS_Subset, FS_CardinalityType
  <1>3. plan \in [1 .. n -> S] /\ \A i, j \in 1 .. n : i # j => plan[i] # plan[j]
    BY DEF planBatch, SetToSeqs
  <1>4. plan \in Injection(1 .. n, S)
    BY <1>3 DEF Injection, IsInjective
  <1>5. IsFiniteSet(1 .. n) /\ Cardinality(1 .. n) = n
    <2>1. /\ IsFiniteSet(1 .. n)
          /\ Cardinality(1 .. n) = IF 1 > n THEN 0 ELSE n - 1 + 1
      BY <1>2, FS_Interval, 1 \in Int, n \in Int
    <2> QED
      BY <1>2, <2>1
  <1>6. plan \in Surjection(1 .. n, S)
    BY <1>2, <1>4, <1>5, FS_Injection
  <1>7. plan \in Seq(S) /\ DOMAIN plan = 1 .. n
    BY <1>2, <1>3
  <1>8. ToSet(plan) = S
    BY <1>3, <1>6, <1>7 DEF ToSet, Surjection
  <1> QED
    BY <1>3, <1>7, <1>8 DEF NoRepeats

\* The overlay and the handlers leave a flag a flag, look only at the columns that
\* are shown, and agree on those the change decides.
LEMMA ApplyFacts ==
  ASSUME NEW flag \in Production, NEW k \in FlagKeys, NEW change \in Changes(k)
  PROVE  flagApply(flag, change) \in Production /\ Put(flag, change) \in Production
  <1>1. /\ change.act \in {"update", "toggle"} => change.enabled \in BOOLEAN
        /\ change.act = "update" => change.settings \in {0, 1} /\ change.archived \in BOOLEAN
    <2>1. CASE k = "flag.enabled"
      <3>1. change = [act |-> "toggle", enabled |-> TRUE]
        BY <2>1 DEF Changes, Toggle
      <3> QED
        BY <3>1
    <2>2. CASE k = "flag"
      <3>a. \/ change = Toggle(FALSE)
            \/ \E a, w \in BOOLEAN : change = Update(a, w)
            \/ change \in {[act |-> "archive"], [act |-> "restore"], [act |-> "queue_deletion"]}
        BY <2>2 DEF Changes
      <3>1. \/ change = [act |-> "toggle", enabled |-> FALSE]
            \/ \E a, w \in BOOLEAN : change = Update(a, w)
            \/ change.act \in {"archive", "restore", "queue_deletion"}
        BY <3>a DEF Toggle
      <3>2. CASE change = [act |-> "toggle", enabled |-> FALSE]
        BY <3>2
      <3>3. ASSUME NEW a \in BOOLEAN, NEW w \in BOOLEAN, change = Update(a, w)
            PROVE  change.act = "update" /\ change.enabled = FALSE /\ change.settings = 1
                   /\ change.archived = a
        BY <3>3 DEF Update
      <3>4. CASE change.act \in {"archive", "restore", "queue_deletion"}
        BY <3>4
      <3> QED
        BY <3>1, <3>2, <3>3, <3>4
    <2> QED
      BY <2>1, <2>2 DEF FlagKeys
  <1> QED
    BY <1>1 DEF flagApply, Replaced, Put, Production

LEMMA PutLooksAtColumns ==
  ASSUME NEW flag \in Production, NEW other \in Production, NEW change, NEW c \in Columns,
         \A i \in Columns : flag[i] = other[i]
  PROVE  Put(flag, change)[c] = Put(other, change)[c]
  BY DEF Put, flagApply, Production, Columns

LEMMA PutIsPromised ==
  ASSUME NEW flag \in Production, NEW change
  PROVE  /\ Promised(change) \subseteq Columns
         /\ \A c \in Promised(change) : flagApply(flag, change)[c] = Put(flag, change)[c]
  BY DEF Put, flagApply, Replaced, Promised, Production, Columns

-----------------------------------------------------------------------------
(* One deployment                                                           *)

LEMMA LoopFacts ==
  ASSUME Typed, NEW d \in Deploys, InLoop(d)
  PROVE  /\ dep[d] \in Loop /\ LoopOK(dep[d])
         /\ DOMAIN dep[d].rows \subseteq Keys
         /\ \A k \in DOMAIN dep[d].rows : dep[d].rows[k] \in StagedRow
         /\ \A k \in DOMAIN dep[d].rows : Mark(d, k) \in Marks /\ Mark(d, k).id <= stages
         /\ \A k \in DOMAIN dep[d].rows : Mark(d, k).id = dep[d].rows[k].id /\ Mark(d, k).by = d
  <1>1. dep[d] \in Loop /\ LoopOK(dep[d])
    BY DEF Typed, InLoop, Free
  <1>2. dep[d].rows \in UNION {[S -> StagedRow] : S \in SUBSET Keys}
    BY <1>1 DEF Loop
  <1>3. PICK S \in SUBSET Keys : dep[d].rows \in [S -> StagedRow]
    BY <1>2
  <1>4. \A k \in DOMAIN dep[d].rows : dep[d].rows[k] \in StagedRow /\ dep[d].rows[k].id <= stages
    BY <1>1, <1>3 DEF LoopOK, RowOf
  <1>5. \A k \in DOMAIN dep[d].rows : Mark(d, k).id = dep[d].rows[k].id /\ Mark(d, k).by = d
    BY DEF Mark
  <1>6. \A k \in DOMAIN dep[d].rows : Mark(d, k) \in Marks
    BY <1>4 DEF Mark, Marks, StagedRow
  <1> QED
    BY <1>1, <1>3, <1>4, <1>5, <1>6

\* The deployments in their loop are counted as they come and go.
LEMMA CountStays ==
  ASSUME RulesCounted, Typed, {d \in Deploys : InLoop(d)}' = {d \in Deploys : InLoop(d)},
         prod'.newRules = prod.newRules, deploys' = deploys
  PROVE  RulesCounted'
  BY DEF RulesCounted

LEMMA CountLeaves ==
  ASSUME RulesCounted, Typed, NEW d \in Deploys, InLoop(d), NEW n \in {0, 1},
         {e \in Deploys : InLoop(e)}' = {e \in Deploys : InLoop(e)} \ {d},
         prod'.newRules = prod.newRules + n, deploys' = deploys
  PROVE  RulesCounted'
  <1> DEFINE R == {e \in Deploys : InLoop(e)}
  <1>1. IsFiniteSet(R) /\ d \in R /\ Cardinality(R) \in Nat
    BY FS_CardinalityType DEF RulesCounted
  <1>2. IsFiniteSet(R \ {d}) /\ Cardinality(R \ {d}) = Cardinality(R) - 1
    BY <1>1, FS_RemoveElement
  <1>3. prod.newRules + Cardinality(R) <= deploys /\ prod.newRules \in Nat /\ deploys \in Nat
    BY DEF RulesCounted, Typed, Production
  <1>4. prod'.newRules + Cardinality(R \ {d}) <= deploys'
    BY <1>1, <1>2, <1>3
  <1> QED
    BY <1>2, <1>4 DEF RulesCounted

LEMMA CountComes ==
  ASSUME RulesCounted, Typed, NEW d \in Deploys, ~InLoop(d),
         {e \in Deploys : InLoop(e)}' = {e \in Deploys : InLoop(e)} \cup {d},
         prod' = prod, deploys' = deploys + 1
  PROVE  RulesCounted'
  <1> DEFINE R == {e \in Deploys : InLoop(e)}
  <1>1. IsFiniteSet(R) /\ d \notin R /\ Cardinality(R) \in Nat
    BY FS_CardinalityType DEF RulesCounted
  <1>2. IsFiniteSet(R \cup {d}) /\ Cardinality(R \cup {d}) = Cardinality(R) + 1
    BY <1>1, FS_AddElement
  <1>3. prod.newRules + Cardinality(R) <= deploys /\ prod.newRules \in Nat /\ deploys \in Nat
    BY DEF RulesCounted, Typed, Production
  <1>4. prod'.newRules + Cardinality(R \cup {d}) <= deploys'
    BY <1>1, <1>2, <1>3
  <1> QED
    BY <1>2, <1>4 DEF RulesCounted

-----------------------------------------------------------------------------
(* The user's other tabs and the sweeper                                    *)

\* A loaded row keeps its form as ids are given out.
LEMMA LoopsStay ==
  ASSUME Typed, dep' = dep, applied' = applied, stages' \in Nat, stages <= stages'
  PROVE  /\ dep' = [d \in Deploys |-> dep'[d]]
         /\ \A d \in Deploys :
              \/ dep'[d] = Free
              \/ dep'[d] \in Loop /\ LoopOK(dep[d])'
              \/ \E entries \in SUBSET applied' : dep'[d] = [pc |-> "audit", entries |-> entries]
  <1>1. ASSUME NEW d \in Deploys, dep[d] \in Loop, LoopOK(dep[d]) PROVE LoopOK(dep[d])'
    <2>1. InLoop(d)
      BY <1>1 DEF InLoop, Loop
    <2>2. \A k \in DOMAIN dep[d].rows : RowOf(k, dep[d].rows[k])'
      <3> SUFFICES ASSUME NEW k \in DOMAIN dep[d].rows PROVE RowOf(k, dep[d].rows[k])'
        OBVIOUS
      <3>1. RowOf(k, dep[d].rows[k]) /\ dep[d].rows[k].id \in Nat /\ stages \in Nat
        BY <1>1, <2>1, LoopFacts DEF LoopOK, StagedRow, Typed
      <3> QED
        BY <3>1 DEF RowOf
    <2> QED
      BY <1>1, <2>2 DEF LoopOK
  <1> QED
    BY <1>1 DEF Typed

LEMMA StageStep ==
  ASSUME StagingInv, NEW k \in Keys, NEW change \in Changes(k), Stage(k, change)
  PROVE  StagingInv'
  <1> USE DEF StagingInv
  <1>0. PICK row : row = Upsert(staged[k], change, stages')
    OBVIOUS
  <1>1. /\ stages' = stages + 1 /\ stages \in Nat /\ stages' \in Nat /\ now \in Nat
        /\ UNCHANGED <<prod, dep, report, audit, now, applied, deploys, edits>>
        /\ staged' = [staged EXCEPT ![k] = row]
    BY <1>0, StagingAssumption DEF Stage, Typed
  <1>2. change \in AnyChange
    BY StagingAssumption DEF AnyChange
  <1>3. staged[k] # None => staged[k] \in StagedRow /\ staged[k].id <= stages
    BY DEF Typed, RowOf
  <1>4. /\ row \in StagedRow /\ row.change = change
        /\ row.id = IF staged[k] = None THEN stages' ELSE staged[k].id
    BY <1>0, <1>1, <1>2, <1>3 DEF Upsert, StagedRow
  <1>5. RowOf(k, row)'
    BY <1>1, <1>3, <1>4 DEF RowOf, StagedRow
  <1>6. \A j \in Keys : staged'[j] = IF j = k THEN row ELSE staged[j]
    BY <1>1 DEF Typed
  <1>7. Typed'
    <2>1. \A j \in Keys : staged'[j] # None => RowOf(j, staged[j])'
      <3> SUFFICES ASSUME NEW j \in Keys, staged'[j] # None PROVE RowOf(j, staged[j])'
        OBVIOUS
      <3>1. CASE j = k
        BY <1>5, <1>6, <3>1 DEF RowOf
      <3>2. CASE j # k
        <4>1. staged'[j] = staged[j] /\ RowOf(j, staged[j]) /\ staged[j].id \in Nat
          BY <1>6, <3>2 DEF Typed, RowOf, StagedRow
        <4> QED
          BY <1>1, <4>1 DEF RowOf
      <3> QED
        BY <3>1, <3>2
    <2>2. staged' = [j \in Keys |-> staged'[j]]
      BY <1>1 DEF Typed
    <2>3. stages <= stages'
      BY <1>1
    <2> QED
      BY <1>1, <2>1, <2>2, <2>3, LoopsStay DEF Typed
  <1>8. RulesCounted'
    BY <1>1, CountStays DEF InLoop
  <1>9. /\ \A j \in Keys : staged[j] # None => staged[j].id \in Nat /\ staged[j].id <= stages
        /\ \A d \in Deploys : InLoop(d) => \A j \in DOMAIN dep[d].rows :
             dep[d].rows[j].id \in Nat /\ dep[d].rows[j].id <= stages
        /\ \A m \in applied : m.id <= stages /\ m.id \in Nat
    <2>1. \A d \in Deploys : InLoop(d) => \A j \in DOMAIN dep[d].rows :
             dep[d].rows[j].id \in Nat /\ dep[d].rows[j].id <= stages
      BY LoopFacts DEF StagedRow
    <2> QED
      BY <2>1 DEF Typed, RowOf, StagedRow, CreatesPending, Marks
  <1>10. OneKeyPerId'
    <2>1. \A i, j \in Keys :
            staged'[i] # None /\ staged'[j] # None /\ staged'[i].id = staged'[j].id => i = j
      BY <1>1, <1>4, <1>6, <1>9 DEF OneKeyPerId
    <2>2. \A d \in Deploys : InLoop(d) => \A i \in DOMAIN dep[d].rows :
            \A j \in Keys : staged'[j] # None /\ staged'[j].id = dep[d].rows[i].id => i = j
      BY <1>1, <1>4, <1>6, <1>9 DEF OneKeyPerId
    <2> QED
      BY <1>1, <2>1, <2>2 DEF OneKeyPerId, InLoop
  <1>11. DispatchedIsDone'
    BY <1>1 DEF DispatchedIsDone, InLoop, Mark
  <1>12. CreatesPending'
    <2>1. \A m \in applied : m.id <= stages'
      BY <1>1, <1>9
    <2>2. \A i \in Creates \cap Keys : staged'[i] # None =>
            \A m \in applied : m.id # staged'[i].id
      BY <1>1, <1>4, <1>6, <1>9 DEF CreatesPending
    <2> QED
      BY <1>1, <2>1, <2>2 DEF CreatesPending, InLoop
  <1>13. AnswersHold'
    BY <1>1 DEF AnswersHold
  <1> QED
    BY <1>7, <1>8, <1>10, <1>11, <1>12, <1>13

\* Rows go and nothing else happens: DiscardOne, DiscardAll, sweepOnce.
LEMMA RowsGo ==
  ASSUME StagingInv, staged' = [k \in Keys |-> staged'[k]],
         \A k \in Keys : staged'[k] \in {None, staged[k]},
         UNCHANGED <<prod, dep, report, audit, now, applied, stages, deploys, edits>>
  PROVE  StagingInv'
  <1> USE DEF StagingInv
  <1>1. stages \in Nat /\ stages <= stages /\ stages' = stages
    BY DEF Typed
  <1>2. Typed'
    <2>1. \A j \in Keys : staged'[j] # None => RowOf(j, staged[j])'
      BY DEF Typed, RowOf
    <2> QED
      BY <1>1, <2>1, LoopsStay DEF Typed
  <1>3. RulesCounted'
    BY CountStays DEF InLoop
  <1>4. OneKeyPerId'
    BY DEF OneKeyPerId, InLoop
  <1>5. DispatchedIsDone'
    BY DEF DispatchedIsDone, InLoop, Mark
  <1>6. CreatesPending'
    BY DEF CreatesPending, InLoop
  <1>7. AnswersHold'
    BY DEF AnswersHold
  <1> QED
    BY <1>2, <1>3, <1>4, <1>5, <1>6, <1>7

-----------------------------------------------------------------------------
(* A deployment ends, fails, or writes its audit rows                       *)

\* Fail, the panic of commitFlagRuleCreate, CutOff and WriteAuditLog: deployment
\* d is out of its loop, and production is as it was.
LEMMA LoopEnds ==
  ASSUME StagingInv, NEW d \in Deploys, NEW x,
         dep' = [dep EXCEPT ![d] = x],
         x = Free \/ \E entries \in SUBSET applied : x = [pc |-> "audit", entries |-> entries],
         \/ report' = report
         \/ \E a \in [committed : SUBSET Nat, failed : {TRUE}] :
              report' = [report EXCEPT ![d] = a],
         audit' \subseteq applied,
         UNCHANGED <<staged, prod, now, applied, stages, deploys, edits>>
  PROVE  StagingInv'
  <1> USE DEF StagingInv
  <1>1. /\ x.pc # "run" /\ dep'[d] = x
        /\ \A e \in Deploys : e # d => dep'[e] = dep[e]
    BY DEF Typed, Free
  <1>2. \A e \in Deploys : InLoop(e)' <=> InLoop(e) /\ e # d
    BY <1>1 DEF InLoop
  <1>3. Typed'
    <2>1. report' \in [Deploys -> {None} \cup [committed : SUBSET Nat, failed : BOOLEAN]]
      BY DEF Typed
    <2>2. \A k \in Keys : staged'[k] # None => RowOf(k, staged[k])'
      BY DEF Typed, RowOf
    <2>3. \A e \in Deploys : LoopOK(dep[e]) /\ e # d => LoopOK(dep[e])'
      BY <1>1 DEF LoopOK, RowOf
    <2>4. \A e \in Deploys :
            \/ dep'[e] = Free
            \/ dep'[e] \in Loop /\ LoopOK(dep[e])'
            \/ \E entries \in SUBSET applied' : dep'[e] = [pc |-> "audit", entries |-> entries]
      BY <1>1, <2>3, ZenonT(60) DEF Typed
    <2>5. dep' = [e \in Deploys |-> dep'[e]]
      BY DEF Typed
    <2> QED
      BY <2>1, <2>2, <2>4, <2>5 DEF Typed
  <1>4. RulesCounted'
    <2>1. CASE InLoop(d)
      <3>1. {e \in Deploys : InLoop(e)}' = {e \in Deploys : InLoop(e)} \ {d}
        BY <1>2
      <3>2. prod'.newRules = prod.newRules + 0
        BY DEF Typed, Production
      <3> QED
        BY <2>1, <3>1, <3>2, CountLeaves
    <2>2. CASE ~InLoop(d)
      <3>1. {e \in Deploys : InLoop(e)}' = {e \in Deploys : InLoop(e)}
        BY <1>2, <2>2
      <3> QED
        BY <3>1, CountStays
    <2> QED
      BY <2>1, <2>2
  <1>5. OneKeyPerId'
    BY <1>1, <1>2 DEF OneKeyPerId
  <1>6. DispatchedIsDone'
    BY <1>1, <1>2 DEF DispatchedIsDone, Mark
  <1>7. CreatesPending'
    BY <1>1, <1>2 DEF CreatesPending
  <1>8. AnswersHold'
    <2>1. CASE report' = report
      BY <2>1 DEF AnswersHold
    <2>2. CASE report' # report
      <3>1. PICK a \in [committed : SUBSET Nat, failed : {TRUE}] :
              report' = [report EXCEPT ![d] = a]
        BY <2>2
      <3>2. a.failed = TRUE /\ report'[d] = a /\ \A e \in Deploys \ {d} : report'[e] = report[e]
        BY <3>1 DEF Typed
      <3> QED
        BY <3>2 DEF AnswersHold
    <2> QED
      BY <2>1, <2>2
  <1> QED
    BY <1>3, <1>4, <1>5, <1>6, <1>7, <1>8

LEMMA FailStep ==
  ASSUME StagingInv, NEW d \in Deploys, Running(d), Fail(d),
         UNCHANGED <<staged, audit, now, stages, deploys, edits>>
  PROVE  StagingInv'
  <1>1. InLoop(d) /\ Typed
    BY DEF StagingInv, Running, InLoop
  <1>2. Dispatched(d) \in SUBSET Nat
    BY <1>1, LoopFacts DEF Dispatched, StagedRow
  <1>3. Answer(Dispatched(d), TRUE) \in [committed : SUBSET Nat, failed : {TRUE}]
    BY <1>2 DEF Answer
  <1>4. audit' \subseteq applied
    BY <1>1 DEF Typed
  <1> QED
    BY <1>3, <1>4, LoopEnds DEF Fail

LEMMA CutOffStep ==
  ASSUME StagingInv, NEW d \in Deploys, CutOff(d) PROVE StagingInv'
  <1>1. audit' \subseteq applied
    BY DEF CutOff, StagingInv, Typed
  <1> QED
    BY <1>1, LoopEnds DEF CutOff

LEMMA WriteAuditLogStep ==
  ASSUME StagingInv, NEW d \in Deploys, WriteAuditLog(d) PROVE StagingInv'
  <1>1. dep[d].pc = "audit" /\ Typed
    BY DEF WriteAuditLog, StagingInv
  <1>2. PICK entries \in SUBSET applied : dep[d] = [pc |-> "audit", entries |-> entries]
    BY <1>1 DEF Typed, Free, Loop
  <1>3. PICK e \in entries :
          /\ audit' \in {audit, audit \cup {e}}
          /\ dep' = [dep EXCEPT ![d] = IF entries \ {e} = {} THEN Free
                                       ELSE [pc |-> "audit", entries |-> entries \ {e}]]
    <2>1. dep[d].entries = entries
      BY <1>2
    <2>2. PICK e \in dep[d].entries :
            /\ audit' \in {audit, audit \cup {e}}
            /\ dep' = [dep EXCEPT ![d] = IF dep[d].entries \ {e} = {} THEN Free
                                        ELSE [pc |-> "audit", entries |-> dep[d].entries \ {e}]]
      BY DEF WriteAuditLog
    <2> QED
      BY <2>1, <2>2
  <1>4. audit' \subseteq applied
    BY <1>1, <1>2, <1>3 DEF Typed
  <1>5. entries \ {e} \in SUBSET applied
    BY <1>2
  <1>6. CASE entries \ {e} = {}
    BY <1>3, <1>4, <1>6, LoopEnds DEF WriteAuditLog
  <1>7. CASE entries \ {e} # {}
    BY <1>3, <1>4, <1>5, <1>7, LoopEnds DEF WriteAuditLog
  <1> QED
    BY <1>6, <1>7

-----------------------------------------------------------------------------
(* A deployment dispatches a row                                            *)

\* The deployment's record when its head is done.
Advanced(r, tx) == [r EXCEPT !.todo = Tail(@), !.tx = tx]

LEMMA LoopAdvances ==
  ASSUME NEW r \in Loop, LoopOK(r), r.todo # <<>>, NEW tx \in SUBSET (Creates \cap DOMAIN r.rows)
  PROVE  /\ Advanced(r, tx) \in Loop /\ LoopOK(Advanced(r, tx))
         /\ Advanced(r, tx).rows = r.rows /\ Advanced(r, tx).tx = tx
         /\ Advanced(r, tx).seen = r.seen /\ Advanced(r, tx).alone = r.alone
         /\ Advanced(r, tx).whole = r.whole /\ Advanced(r, tx).pc = "run"
         /\ Head(r.todo) \in DOMAIN r.rows
         /\ ToSet(r.todo) = {Head(r.todo)} \cup ToSet(Advanced(r, tx).todo)
         /\ Head(r.todo) \notin ToSet(Advanced(r, tx).todo)
  <1> DEFINE a == Advanced(r, tx)
  <1>1. /\ a.todo = Tail(r.todo) /\ a.rows = r.rows /\ a.tx = tx /\ a.seen = r.seen
        /\ a.alone = r.alone /\ a.whole = r.whole /\ a.pc = "run"
    BY DEF Advanced, Loop
  <1>2. r.todo \in Seq(DOMAIN r.rows) /\ r.todo \in Seq(Keys) /\ NoRepeats(r.todo)
    BY DEF LoopOK, Loop
  <1>3. /\ Head(r.todo) \in DOMAIN r.rows /\ a.todo \in Seq(DOMAIN r.rows) /\ NoRepeats(a.todo)
        /\ ToSet(r.todo) = {Head(r.todo)} \cup ToSet(a.todo) /\ Head(r.todo) \notin ToSet(a.todo)
    <2>1. r.todo # <<>>
      OBVIOUS
    <2>2. /\ Head(r.todo) \in DOMAIN r.rows /\ Tail(r.todo) \in Seq(DOMAIN r.rows)
          /\ NoRepeats(Tail(r.todo)) /\ Head(r.todo) \notin ToSet(Tail(r.todo))
          /\ ToSet(r.todo) = {Head(r.todo)} \cup ToSet(Tail(r.todo))
      BY <1>2, <2>1, TodoStep
    <2> QED
      BY <1>1, <2>2
  <1>4. a.todo \in Seq(Keys)
    BY <1>1, <1>2, HeadTailProperties
  <1>5. a \in Loop
    BY <1>1, <1>4 DEF Advanced, Loop
  <1> HIDE DEF a
  <1>6. LoopOK(a)
    BY <1>1, <1>3 DEF LoopOK
  <1> QED
    BY <1>1, <1>3, <1>5, <1>6 DEF a

LEMMA ContinueStep ==
  ASSUME StagingInv, NEW d \in Deploys, Running(d), Current(d) \in Creates,
         Continue(d, dep[d].tx \cup {Current(d)}),
         UNCHANGED <<staged, prod, report, audit, now, applied, stages, deploys, edits>>
  PROVE  StagingInv'
  <1> USE DEF StagingInv
  <1> DEFINE r == dep[d]
             tx == r.tx \cup {Current(d)}
             a == Advanced(r, tx)
  <1>1. InLoop(d) /\ r.todo # <<>> /\ Current(d) = Head(r.todo)
    BY DEF Running, InLoop, Current
  <1>2. r \in Loop /\ LoopOK(r)
    BY <1>1, LoopFacts
  <1>3. Head(r.todo) \in DOMAIN r.rows
    BY <1>1, <1>2, HeadTailProperties DEF LoopOK
  <1>4. tx \in SUBSET (Creates \cap DOMAIN r.rows)
    BY <1>1, <1>2, <1>3 DEF LoopOK, Loop
  <1>5. dep' = [dep EXCEPT ![d] = a]
    BY DEF Continue, Advanced
  <1>6. dep'[d] = a /\ \A e \in Deploys : e # d => dep'[e] = dep[e]
    BY <1>5 DEF Typed
  <1>7. /\ a \in Loop /\ LoopOK(a) /\ a.rows = r.rows /\ a.tx = tx /\ a.pc = "run"
        /\ ToSet(r.todo) = {Current(d)} \cup ToSet(a.todo)
    <2>1. /\ Advanced(r, tx) \in Loop /\ LoopOK(Advanced(r, tx)) /\ Advanced(r, tx).rows = r.rows
          /\ Advanced(r, tx).tx = tx /\ Advanced(r, tx).pc = "run"
          /\ ToSet(r.todo) = {Head(r.todo)} \cup ToSet(Advanced(r, tx).todo)
      <3> HIDE DEF r, tx
      <3> QED
        BY <1>1, <1>2, <1>4, LoopAdvances
    <2> QED
      BY <1>1, <2>1
  <1> HIDE DEF a
  <1>8. \A e \in Deploys : (InLoop(e)' <=> InLoop(e)) /\ (InLoop(e) => dep'[e].rows = dep[e].rows)
    BY <1>1, <1>6, <1>7 DEF InLoop
  <1>9. Typed'
    <2>1. \A k \in Keys : staged'[k] # None => RowOf(k, staged[k])'
      BY DEF Typed, RowOf
    <2>2. \A e \in Deploys :
            \/ dep'[e] = Free
            \/ dep'[e] \in Loop /\ LoopOK(dep[e])'
            \/ \E entries \in SUBSET applied' : dep'[e] = [pc |-> "audit", entries |-> entries]
      <3> TAKE e \in Deploys
      <3>1. CASE e = d
        BY <1>6, <1>7, <3>1 DEF LoopOK, RowOf
      <3>2. CASE e # d
        BY <1>6, <3>2 DEF Typed, LoopOK, RowOf
      <3> QED
        BY <3>1, <3>2
    <2>3. dep' = [e \in Deploys |-> dep'[e]]
      BY <1>5 DEF Typed
    <2> QED
      BY <2>1, <2>2, <2>3 DEF Typed
  <1>10. RulesCounted'
    BY <1>8, CountStays
  <1>11. OneKeyPerId'
    BY <1>8 DEF OneKeyPerId
  <1>12. DispatchedIsDone'
    BY <1>6, <1>7, <1>8 DEF DispatchedIsDone, Mark
  <1>13. CreatesPending'
    BY <1>8 DEF CreatesPending
  <1>14. AnswersHold'
    BY DEF AnswersHold
  <1> QED
    BY <1>9, <1>10, <1>11, <1>12, <1>13, <1>14

\* Mutate: the record of the deployment, and of the others.
LEMMA MutateDeps ==
  ASSUME Typed, NEW d \in Deploys, Running(d), NEW p, Mutate(d, p)
  PROVE  /\ InLoop(d) /\ Current(d) \in DOMAIN dep[d].rows
         /\ dep'[d] = Advanced(dep[d], dep[d].tx)
         /\ ToSet(dep[d].todo) = {Current(d)} \cup ToSet(dep'[d].todo)
         /\ Current(d) \notin ToSet(dep'[d].todo)
         /\ \A e \in Deploys : dep[e] \in Loop /\ LoopOK(dep[e]) =>
              /\ dep'[e] \in Loop /\ LoopOK(dep'[e])
              /\ dep'[e].rows = dep[e].rows /\ dep'[e].tx = dep[e].tx
              /\ dep'[e].seen = dep[e].seen /\ dep'[e].whole = dep[e].whole
              /\ e # d => dep'[e].todo = dep[e].todo /\ ~dep'[e].alone
              /\ e = d => dep'[e].alone = dep[e].alone
         /\ \A e \in Deploys : dep[e].pc # "run" => dep'[e] = dep[e]
  <1>1. InLoop(d) /\ dep[d].todo # <<>> /\ Current(d) = Head(dep[d].todo)
    BY DEF Running, InLoop, Current
  <1>2. dep[d] \in Loop /\ LoopOK(dep[d]) /\ dep[d].tx \in SUBSET (Creates \cap DOMAIN dep[d].rows)
    BY <1>1, LoopFacts DEF LoopOK, Loop
  <1>3. dep'[d] = [dep[d] EXCEPT !.todo = Tail(@)]
    BY DEF Mutate
  <1>4. Advanced(dep[d], dep[d].tx) = [dep[d] EXCEPT !.todo = Tail(@)]
    BY <1>2 DEF Advanced, Loop
  <1>5. \A e \in Deploys : e # d /\ dep[e].pc = "run" => dep'[e] = [dep[e] EXCEPT !.alone = FALSE]
    BY DEF Mutate
  <1>6. \A e \in Deploys : dep[e].pc # "run" => dep'[e] = dep[e]
    BY <1>1 DEF Mutate, InLoop
  <1>7. ASSUME NEW e \in Deploys, dep[e] \in Loop, LoopOK(dep[e]), e # d
        PROVE  /\ dep'[e] \in Loop /\ LoopOK(dep'[e]) /\ ~dep'[e].alone
               /\ dep'[e].rows = dep[e].rows /\ dep'[e].tx = dep[e].tx
               /\ dep'[e].seen = dep[e].seen /\ dep'[e].whole = dep[e].whole
               /\ dep'[e].todo = dep[e].todo
    <2>1. dep'[e] = [dep[e] EXCEPT !.alone = FALSE]
      BY <1>5, <1>7 DEF Loop
    <2>2. /\ dep'[e].rows = dep[e].rows /\ dep'[e].tx = dep[e].tx
          /\ dep'[e].seen = dep[e].seen /\ dep'[e].whole = dep[e].whole
          /\ dep'[e].todo = dep[e].todo
      BY <1>7, <2>1 DEF Loop
    <2>3. dep'[e].alone = FALSE
      BY <1>7, <2>1 DEF Loop
    <2>4. dep'[e] \in Loop
      BY <1>7, <2>1 DEF Loop
    <2> QED
      BY <1>7, <2>2, <2>3, <2>4 DEF LoopOK
  <1> DEFINE r == dep[d]
             a == Advanced(r, r.tx)
  <1>8. /\ a \in Loop /\ LoopOK(a) /\ a.rows = r.rows /\ a.tx = r.tx /\ a.seen = r.seen
        /\ a.alone = r.alone /\ a.whole = r.whole /\ Head(r.todo) \in DOMAIN r.rows
        /\ ToSet(r.todo) = {Head(r.todo)} \cup ToSet(a.todo) /\ Head(r.todo) \notin ToSet(a.todo)
    <2> HIDE DEF r
    <2> QED
      BY <1>1, <1>2, LoopAdvances, ZenonT(60) DEF r
  <1>9. dep'[d] = a
    BY <1>3, <1>4
  <1> HIDE DEF a
  <1> QED
    BY <1>1, <1>6, <1>7, <1>8, <1>9 DEF a

LEMMA MutateStep ==
  ASSUME StagingInv, NEW d \in Deploys, Running(d), Current(d) \notin Creates,
         NEW p \in Production, p.default = "strategy2" => p.newStrategy,
         p.newRules = prod.newRules, Mutate(d, p),
         UNCHANGED <<staged, audit, now, stages, deploys, edits>>
  PROVE  StagingInv'
  <1> USE DEF StagingInv
  <1> DEFINE k0 == Current(d)
             m0 == Mark(d, k0)
  <1>1. /\ InLoop(d) /\ k0 \in DOMAIN dep[d].rows /\ dep'[d] = Advanced(dep[d], dep[d].tx)
        /\ ToSet(dep[d].todo) = {k0} \cup ToSet(dep'[d].todo)
        /\ \A e \in Deploys : dep[e] \in Loop /\ LoopOK(dep[e]) =>
              /\ dep'[e] \in Loop /\ LoopOK(dep'[e])
              /\ dep'[e].rows = dep[e].rows /\ dep'[e].tx = dep[e].tx
              /\ e # d => dep'[e].todo = dep[e].todo
        /\ \A e \in Deploys : dep[e].pc # "run" => dep'[e] = dep[e]
    BY MutateDeps
  <1>2. applied' = applied \cup {m0} /\ prod' = p /\ report' = report
        /\ dep' = [e \in Deploys |-> dep'[e]]
    BY DEF Mutate
  <1>3. m0 \in Marks /\ m0.id = dep[d].rows[k0].id /\ m0.by = d /\ m0.id <= stages
    BY <1>1, LoopFacts
  <1> HIDE DEF m0, k0
  <1>4. \A e \in Deploys : (InLoop(e)' <=> InLoop(e))
                            /\ (InLoop(e) => dep'[e].rows = dep[e].rows /\ dep'[e].tx = dep[e].tx)
    <2> TAKE e \in Deploys
    <2>1. CASE InLoop(e)
      BY <1>1, <2>1, LoopFacts DEF InLoop, Loop
    <2>2. CASE ~InLoop(e)
      BY <1>1, <2>2 DEF InLoop
    <2> QED
      BY <2>1, <2>2
  <1>5. Typed'
    <2>1. \A k \in Keys : staged'[k] # None => RowOf(k, staged[k])'
      BY DEF Typed, RowOf
    <2>2. \A e \in Deploys :
            \/ dep'[e] = Free
            \/ dep'[e] \in Loop /\ LoopOK(dep[e])'
            \/ \E entries \in SUBSET applied' : dep'[e] = [pc |-> "audit", entries |-> entries]
      <3> TAKE e \in Deploys
      <3>1. CASE InLoop(e)
        <4>1. dep'[e] \in Loop /\ LoopOK(dep'[e])
          BY <1>1, <3>1, LoopFacts
        <4> QED
          BY <4>1 DEF LoopOK, RowOf
      <3>2. CASE ~InLoop(e)
        <4>1. dep'[e] = dep[e]
          BY <1>1, <3>2 DEF InLoop
        <4>2. \/ dep[e] = Free
              \/ \E entries \in SUBSET applied : dep[e] = [pc |-> "audit", entries |-> entries]
          BY <3>2 DEF Typed, InLoop, Loop
        <4> QED
          BY <1>2, <4>1, <4>2
      <3> QED
        BY <3>1, <3>2
    <2>3. applied' \subseteq Marks /\ audit' \subseteq applied'
      BY <1>2, <1>3 DEF Typed
    <2>4. /\ prod' \in Production /\ (prod'.default = "strategy2" => prod'.newStrategy)
      BY <1>2
    <2>5. /\ staged' = [k \in Keys |-> staged'[k]]
          /\ report' \in [Deploys -> {None} \cup [committed : SUBSET Nat, failed : BOOLEAN]]
          /\ now' \in 0 .. MaxTime
          /\ stages' \in Nat /\ deploys' \in 0 .. MaxDeploys /\ edits' \in Nat
      BY <1>2 DEF Typed
    <2> QED
      BY <1>2, <2>1, <2>2, <2>3, <2>4, <2>5 DEF Typed
  <1>6. RulesCounted'
    <2>1. {e \in Deploys : InLoop(e)}' = {e \in Deploys : InLoop(e)}
      BY <1>4
    <2>2. prod'.newRules = prod.newRules
      BY <1>2
    <2> QED
      BY <2>1, <2>2, CountStays
  <1>7. OneKeyPerId'
    BY <1>4 DEF OneKeyPerId
  <1>8. DispatchedIsDone'
    <2> SUFFICES ASSUME NEW e \in Deploys, InLoop(e), NEW k \in DOMAIN dep[e].rows
                 PROVE  k \in ToSet(dep'[e].todo) \/ k \in dep[e].tx \/ Mark(e, k) \in applied'
      BY <1>4 DEF DispatchedIsDone, Mark
    <2>1. k \in ToSet(dep[e].todo) \/ k \in dep[e].tx \/ Mark(e, k) \in applied
      BY DEF DispatchedIsDone
    <2>2. CASE e = d
      BY <1>1, <1>2, <2>1, <2>2 DEF m0
    <2>3. CASE e # d
      BY <1>1, <1>2, <2>1, <2>3, LoopFacts
    <2> QED
      BY <2>2, <2>3
  <1>9. CreatesPending'
    <2>1. \A m \in applied' : m.id <= stages'
      BY <1>2, <1>3 DEF CreatesPending
    <2>2. ASSUME NEW k \in Creates \cap Keys, staged[k] # None PROVE m0.id # staged[k].id
      BY <1>1, <1>3, <2>2 DEF OneKeyPerId, k0
    <2>3. ASSUME NEW e \in Deploys, InLoop(e), NEW k \in Creates \cap DOMAIN dep[e].rows
          PROVE  ~(m0.by = e /\ m0.id = dep[e].rows[k].id)
      BY <1>1, <1>3, <2>3 DEF OneKeyPerId, k0
    <2> QED
      BY <1>2, <1>4, <2>1, <2>2, <2>3 DEF CreatesPending
  <1>10. AnswersHold'
    BY <1>2 DEF AnswersHold
  <1> QED
    BY <1>5, <1>6, <1>7, <1>8, <1>9, <1>10

\* Others edit the flag: only "alone" changes.
LEMMA EditStep ==
  ASSUME StagingInv, Edit PROVE StagingInv'
  <1> USE DEF StagingInv
  <1>1. /\ UNCHANGED <<staged, report, audit, now, applied, stages, deploys>>
        /\ edits' = edits + 1 /\ dep' = [e \in Deploys |-> dep'[e]]
        /\ prod' \in Production /\ prod'.default = prod.default
        /\ prod'.newStrategy = prod.newStrategy /\ prod'.newRules = prod.newRules
    BY DEF Edit, Typed, Production
  <1>2. \A e \in Deploys : dep'[e] = IF InLoop(e) THEN [dep[e] EXCEPT !.alone = FALSE] ELSE dep[e]
    BY DEF Edit, InLoop
  <1>3. ASSUME NEW e \in Deploys, InLoop(e)
        PROVE  /\ dep'[e] \in Loop /\ LoopOK(dep'[e]) /\ InLoop(e)'
               /\ dep'[e].rows = dep[e].rows /\ dep'[e].tx = dep[e].tx /\ dep'[e].todo = dep[e].todo
    <2>1. dep[e] \in Loop /\ LoopOK(dep[e]) /\ dep'[e] = [dep[e] EXCEPT !.alone = FALSE]
      BY <1>2, <1>3, LoopFacts
    <2>2. /\ dep'[e].rows = dep[e].rows /\ dep'[e].tx = dep[e].tx /\ dep'[e].todo = dep[e].todo
          /\ dep'[e].pc = "run"
      BY <2>1 DEF Loop
    <2>3. dep'[e] \in Loop
      BY <2>1 DEF Loop
    <2> QED
      BY <2>1, <2>2, <2>3 DEF LoopOK, InLoop
  <1>4. \A e \in Deploys : (InLoop(e)' <=> InLoop(e))
    BY <1>2, <1>3 DEF InLoop
  <1>5. Typed'
    <2>1. \A k \in Keys : staged'[k] # None => RowOf(k, staged[k])'
      BY <1>1 DEF Typed, RowOf
    <2>2. \A e \in Deploys :
            \/ dep'[e] = Free
            \/ dep'[e] \in Loop /\ LoopOK(dep[e])'
            \/ \E entries \in SUBSET applied' : dep'[e] = [pc |-> "audit", entries |-> entries]
      <3> TAKE e \in Deploys
      <3>1. CASE InLoop(e)
        BY <1>1, <1>3, <3>1 DEF LoopOK, RowOf
      <3>2. CASE ~InLoop(e)
        BY <1>1, <1>2, <3>2 DEF Typed, InLoop, Loop
      <3> QED
        BY <3>1, <3>2
    <2>3. prod'.default = "strategy2" => prod'.newStrategy
      BY <1>1 DEF Typed
    <2> QED
      BY <1>1, <2>1, <2>2, <2>3 DEF Typed
  <1>6. RulesCounted'
    BY <1>1, <1>4, CountStays
  <1>7. OneKeyPerId'
    BY <1>1, <1>3, <1>4 DEF OneKeyPerId
  <1>8. DispatchedIsDone'
    BY <1>1, <1>3, <1>4 DEF DispatchedIsDone, Mark
  <1>9. CreatesPending'
    BY <1>1, <1>3, <1>4 DEF CreatesPending
  <1>10. AnswersHold'
    BY <1>1 DEF AnswersHold
  <1> QED
    BY <1>5, <1>6, <1>7, <1>8, <1>9, <1>10

-----------------------------------------------------------------------------
(* A deployment begins and commits                                          *)

LEMMA OverlayTyped ==
  ASSUME Typed PROVE OverlayListMarked \in Production
  <1>1. ASSUME NEW flag \in Production, NEW k \in FlagKeys PROVE Shown(flag, k) \in Production
    <2>1. CASE k \in Keys /\ staged[k] # None
      BY <2>1, ApplyFacts DEF Shown, Typed, RowOf
    <2> QED
      BY <2>1 DEF Shown
  <1>2. prod \in Production /\ "flag" \in FlagKeys /\ "flag.enabled" \in FlagKeys
    BY DEF Typed, FlagKeys
  <1>3. /\ Shown(prod, "flag") \in Production /\ Shown(prod, "flag.enabled") \in Production
    BY <1>1, <1>2
  <1>4. /\ Shown(Shown(prod, "flag"), "flag.enabled") \in Production
        /\ Shown(Shown(prod, "flag.enabled"), "flag") \in Production
    BY <1>1, <1>2, <1>3
  <1> QED
    BY <1>4 DEF OverlayListMarked

\* The record of a deployment that begins.
Begun(S, plan, whole) ==
  [pc |-> "run", todo |-> plan, rows |-> [k \in S |-> staged[k]], tx |-> {},
   seen |-> OverlayListMarked, alone |-> TRUE, whole |-> whole]

LEMMA BegunOK ==
  ASSUME Typed, NEW S \in SUBSET {k \in Keys : staged[k] # None}, NEW plan \in planBatch(S),
         NEW whole \in BOOLEAN
  PROVE  /\ Begun(S, plan, whole) \in Loop /\ LoopOK(Begun(S, plan, whole))
         /\ Begun(S, plan, whole).rows = [k \in S |-> staged[k]]
         /\ DOMAIN Begun(S, plan, whole).rows = S /\ ToSet(Begun(S, plan, whole).todo) = S
         /\ Begun(S, plan, whole).seen = OverlayListMarked
         /\ Begun(S, plan, whole).whole = whole /\ Begun(S, plan, whole).pc = "run"
  <1> DEFINE rows == [k \in S |-> staged[k]]
  <1>1. S \subseteq Keys /\ S \in SUBSET AllKeys
    BY StagingAssumption
  <1>2. plan \in Seq(S) /\ NoRepeats(plan) /\ ToSet(plan) = S /\ plan \in Seq(Keys)
    BY <1>1, PlanIsWhole, SeqMonotonic
  <1>3. \A k \in S : RowOf(k, staged[k]) /\ staged[k] \in StagedRow
    BY DEF Typed, RowOf
  <1>4. rows \in [S -> StagedRow] /\ DOMAIN rows = S
    BY <1>3
  <1>5. rows \in UNION {[T -> StagedRow] : T \in SUBSET Keys}
    BY <1>1, <1>4
  <1>6. OverlayListMarked \in Production
    BY OverlayTyped
  <1> HIDE DEF rows
  <1>7. Begun(S, plan, whole) \in Loop
    BY <1>2, <1>5, <1>6 DEF Begun, Loop, rows
  <1>8. LoopOK(Begun(S, plan, whole))
    BY <1>2, <1>3, <1>4 DEF Begun, LoopOK, rows
  <1> QED
    BY <1>2, <1>4, <1>7, <1>8 DEF Begun, rows

LEMMA LoadStep ==
  ASSUME StagingInv, NEW d \in Deploys, Load(d) PROVE StagingInv'
  <1> USE DEF StagingInv
  <1>1. /\ ~InLoop(d) /\ deploys < MaxDeploys /\ deploys' = deploys + 1
        /\ UNCHANGED <<staged, prod, audit, now, applied, stages, edits>>
    BY DEF Load, InLoop
  <1>2. deploys' \in 0 .. MaxDeploys /\ deploys \in Nat
    BY <1>1, StagingAssumption DEF Typed
  <1>3. PICK S \in SUBSET {k \in Keys : staged[k] # None} :
          IF Unresolved(S) # {}
            THEN report' = [report EXCEPT ![d] = Answer({}, TRUE)] /\ UNCHANGED dep
            ELSE /\ \E plan \in planBatch(S) : dep' = [dep EXCEPT ![d] =
                        [pc |-> "run", todo |-> plan, rows |-> [k \in S |-> staged[k]],
                         tx |-> {}, seen |-> OverlayListMarked, alone |-> TRUE,
                         whole |-> \A k \in FlagKeys \cap Keys : staged[k] # None => k \in S]]
                 /\ report' = [report EXCEPT ![d] = None]
    BY DEF Load
  <1>4. CASE Unresolved(S) # {}
    <2>1. report' = [report EXCEPT ![d] = Answer({}, TRUE)] /\ UNCHANGED dep
      BY <1>3, <1>4
    <2>2. Answer({}, TRUE) \in [committed : SUBSET Nat, failed : BOOLEAN] /\ Answer({}, TRUE).failed
      BY DEF Answer
    <2>3. Typed'
      <3>1. \A k \in Keys : staged'[k] # None => RowOf(k, staged[k])'
        BY <1>1 DEF Typed, RowOf
      <3>2. stages' \in Nat /\ stages <= stages'
        BY <1>1 DEF Typed
      <3>3. report' \in [Deploys -> {None} \cup [committed : SUBSET Nat, failed : BOOLEAN]]
        BY <2>1, <2>2 DEF Typed
      <3> QED
        BY <1>1, <1>2, <2>1, <3>1, <3>2, <3>3, LoopsStay DEF Typed
    <2>4. RulesCounted'
      <3> DEFINE R == {e \in Deploys : InLoop(e)}
      <3>1. R' = R /\ prod' = prod
        BY <1>1, <2>1 DEF InLoop
      <3>2. IsFiniteSet(R) /\ Cardinality(R) \in Nat /\ prod.newRules + Cardinality(R) <= deploys
        BY FS_CardinalityType DEF RulesCounted
      <3>3. prod.newRules \in Nat
        BY DEF Typed, Production
      <3> HIDE DEF R
      <3>4. prod.newRules + Cardinality(R) <= deploys'
        BY <1>1, <1>2, <3>2, <3>3
      <3> QED
        BY <3>1, <3>2, <3>4 DEF RulesCounted, R
    <2>5. OneKeyPerId' /\ DispatchedIsDone' /\ CreatesPending'
      BY <1>1, <2>1 DEF OneKeyPerId, DispatchedIsDone, CreatesPending, InLoop, Mark
    <2>6. AnswersHold'
      <3>1. \A e \in Deploys : report'[e] = report[e] \/ report'[e].failed
        BY <2>1, <2>2 DEF Typed
      <3> QED
        BY <1>1, <3>1 DEF AnswersHold
    <2> QED
      BY <2>3, <2>4, <2>5, <2>6
  <1>5. CASE Unresolved(S) = {}
    <2>1. PICK whole \in BOOLEAN : whole = \A k \in FlagKeys \cap Keys : staged[k] # None => k \in S
      OBVIOUS
    <2>2. PICK plan \in planBatch(S) : dep' = [dep EXCEPT ![d] =
                        [pc |-> "run", todo |-> plan, rows |-> [k \in S |-> staged[k]],
                         tx |-> {}, seen |-> OverlayListMarked, alone |-> TRUE,
                         whole |-> \A k \in FlagKeys \cap Keys : staged[k] # None => k \in S]]
      BY <1>3, <1>5
    <2>3. PICK r : r = Begun(S, plan, whole)
      OBVIOUS
    <2>4. dep' = [dep EXCEPT ![d] = r] /\ report' = [report EXCEPT ![d] = None]
      <3>1. report' = [report EXCEPT ![d] = None]
        BY <1>3, <1>5
      <3>2. dep' = [dep EXCEPT ![d] = r]
        BY <2>1, <2>2, <2>3, Zenon DEF Begun
      <3> QED
        BY <3>1, <3>2
    <2>5. /\ r \in Loop /\ LoopOK(r) /\ DOMAIN r.rows = S /\ ToSet(r.todo) = S /\ r.pc = "run"
          /\ \A k \in S : r.rows[k] = staged[k] /\ staged[k] # None /\ k \in Keys
      <3>1. /\ r \in Loop /\ LoopOK(r) /\ DOMAIN r.rows = S /\ ToSet(r.todo) = S /\ r.pc = "run"
            /\ r.rows = [k \in S |-> staged[k]]
        BY <2>3, BegunOK
      <3> QED
        BY <3>1
    <2>6. dep'[d] = r /\ \A e \in Deploys : e # d => dep'[e] = dep[e]
      BY <2>4 DEF Typed
    <2>7. \A e \in Deploys : InLoop(e)' <=> InLoop(e) \/ e = d
      BY <2>5, <2>6 DEF InLoop
    <2>8. Typed'
      <3>1. \A k \in Keys : staged'[k] # None => RowOf(k, staged[k])'
        BY <1>1 DEF Typed, RowOf
      <3>2. \A e \in Deploys :
            \/ dep'[e] = Free
            \/ dep'[e] \in Loop /\ LoopOK(dep[e])'
            \/ \E entries \in SUBSET applied' : dep'[e] = [pc |-> "audit", entries |-> entries]
        <4> TAKE e \in Deploys
        <4>1. CASE e = d
          BY <1>1, <2>5, <2>6, <4>1 DEF LoopOK, RowOf
        <4>2. CASE e # d
          BY <1>1, <2>6, <4>2 DEF Typed, LoopOK, RowOf
        <4> QED
          BY <4>1, <4>2
      <3>3. dep' = [e \in Deploys |-> dep'[e]]
        BY <2>4 DEF Typed
      <3>4. report' \in [Deploys -> {None} \cup [committed : SUBSET Nat, failed : BOOLEAN]]
        BY <2>4 DEF Typed
      <3> QED
        BY <1>1, <1>2, <3>1, <3>2, <3>3, <3>4 DEF Typed
    <2>9. RulesCounted'
      <3>1. {e \in Deploys : InLoop(e)}' = {e \in Deploys : InLoop(e)} \cup {d}
        BY <2>7
      <3> QED
        BY <1>1, <3>1, CountComes
    <2>10. OneKeyPerId'
      BY <1>1, <2>5, <2>6, <2>7 DEF OneKeyPerId
    <2>11. DispatchedIsDone'
      BY <1>1, <2>5, <2>6, <2>7 DEF DispatchedIsDone, Mark
    <2>12. CreatesPending'
      BY <1>1, <2>5, <2>6, <2>7 DEF CreatesPending
    <2>13. AnswersHold'
      <3>1. \A e \in Deploys : report'[e] = IF e = d THEN None ELSE report[e]
        BY <2>4 DEF Typed
      <3> QED
        BY <1>1, <3>1 DEF AnswersHold
    <2> QED
      BY <2>8, <2>9, <2>10, <2>11, <2>12, <2>13
  <1> QED
    BY <1>4, <1>5

LEMMA CommitTxStep ==
  ASSUME StagingInv, NEW d \in Deploys, CommitTx(d)
  PROVE  /\ StagingInv'
         /\ \A k \in DOMAIN dep[d].rows : Mark(d, k) \in applied'
  <1> USE DEF StagingInv
  <1> DEFINE rows == dep[d].rows
             tx == dep[d].tx
             K == DOMAIN rows
             done == {Mark(d, k) : k \in K}
             ids == {rows[k].id : k \in K}
             n == IF "new.rule" \in tx THEN 1 ELSE 0
  <1>1. /\ InLoop(d) /\ dep[d].todo = <<>>
        /\ staged' = [k \in Keys |-> IF k \in Deleted(d) THEN None ELSE staged[k]]
        /\ prod' = [prod EXCEPT !.newFlag = @ \/ "new.flag" \in tx,
                                !.newStrategy = @ \/ "new.strategy" \in tx,
                                !.newRules = @ + n]
        /\ applied' = applied \cup {Mark(d, k) : k \in tx}
        /\ report' = [report EXCEPT ![d] = Answer(ids, FALSE)]
        /\ dep' = [dep EXCEPT ![d] = [pc |-> "audit", entries |-> done]]
        /\ UNCHANGED <<audit, now, stages, deploys, edits>>
    BY DEF CommitTx, InLoop
  <1>2. /\ K \subseteq Keys /\ tx \subseteq K /\ tx \subseteq Creates
        /\ \A k \in K : /\ Mark(d, k) \in Marks /\ Mark(d, k).id <= stages
                        /\ Mark(d, k).id = rows[k].id /\ Mark(d, k).by = d /\ rows[k] \in StagedRow
    BY <1>1, LoopFacts DEF LoopOK, Loop
  <1>3. \A k \in K : k \in tx \/ Mark(d, k) \in applied
    <2>1. ToSet(dep[d].todo) = {}
      BY <1>1 DEF ToSet
    <2> QED
      BY <1>1, <2>1 DEF DispatchedIsDone
  <1>4. \A k \in K : Mark(d, k) \in applied'
    BY <1>1, <1>3
  <1>5. done \subseteq applied'
    BY <1>4
  <1>6. PICK x : x = [pc |-> "audit", entries |-> done]
    OBVIOUS
  <1>7. /\ dep'[d] = x /\ x.pc = "audit" /\ \A e \in Deploys : e # d => dep'[e] = dep[e]
        /\ dep' = [e \in Deploys |-> dep'[e]]
    BY <1>1, <1>6 DEF Typed
  <1>8. /\ ids \in SUBSET Nat /\ n \in {0, 1}
    BY <1>2 DEF StagedRow
  <1>9. PICK a : a = Answer(ids, FALSE)
    OBVIOUS
  <1>10. a \in [committed : SUBSET Nat, failed : BOOLEAN] /\ a.committed = ids /\ a.failed = FALSE
    BY <1>8, <1>9 DEF Answer
  <1>11. /\ \A e \in Deploys : report'[e] = IF e = d THEN a ELSE report[e]
         /\ report' \in [Deploys -> {None} \cup [committed : SUBSET Nat, failed : BOOLEAN]]
    BY <1>1, <1>9, <1>10 DEF Typed
  <1>12. \A k \in Keys : staged'[k] = IF k \in Deleted(d) THEN None ELSE staged[k]
    BY <1>1
  <1>13. \A e \in Deploys : InLoop(e)' <=> InLoop(e) /\ e # d
    BY <1>7 DEF InLoop
  <1>14. /\ prod' \in Production /\ prod'.default = prod.default
         /\ prod'.newRules = prod.newRules + n /\ (prod.newStrategy => prod'.newStrategy)
    <2>1. /\ prod \in Production /\ prod.newRules + n \in Nat
          /\ (prod.newFlag \/ "new.flag" \in tx) \in BOOLEAN
          /\ (prod.newStrategy \/ "new.strategy" \in tx) \in BOOLEAN
      BY <1>8 DEF Typed, Production
    <2> HIDE DEF n, tx
    <2> QED
      BY <1>1, <2>1 DEF Production
  <1> HIDE DEF n, ids
  <1>15. Typed'
    <2>1. \A k \in Keys : staged'[k] # None => RowOf(k, staged[k])'
      BY <1>1, <1>12 DEF Typed, RowOf
    <2>2. \A e \in Deploys :
            \/ dep'[e] = Free
            \/ dep'[e] \in Loop /\ LoopOK(dep[e])'
            \/ \E entries \in SUBSET applied' : dep'[e] = [pc |-> "audit", entries |-> entries]
      <3> TAKE e \in Deploys
      <3>1. CASE e = d
        BY <1>5, <1>6, <1>7, <3>1
      <3>2. CASE e # d
        <4>1. dep'[e] = dep[e] /\ applied \subseteq applied'
          BY <1>1, <1>7, <3>2
        <4>2. LoopOK(dep[e]) => LoopOK(dep[e])'
          BY <1>1, <4>1 DEF LoopOK, RowOf
        <4> QED
          BY <4>1, <4>2 DEF Typed
      <3> QED
        BY <3>1, <3>2
    <2>3. /\ staged' = [k \in Keys |-> staged'[k]]
          /\ applied' \subseteq Marks /\ audit' \subseteq applied'
      BY <1>1, <1>2 DEF Typed
    <2>4. prod'.default = "strategy2" => prod'.newStrategy
      BY <1>14 DEF Typed
    <2> QED
      BY <1>1, <1>7, <1>11, <1>14, <2>1, <2>2, <2>3, <2>4 DEF Typed
  <1>16. RulesCounted'
    <2>1. {e \in Deploys : InLoop(e)}' = {e \in Deploys : InLoop(e)} \ {d}
      BY <1>13
    <2> QED
      BY <1>1, <1>8, <1>14, <2>1, CountLeaves
  <1>17. OneKeyPerId'
    BY <1>7, <1>12, <1>13 DEF OneKeyPerId
  <1>18. DispatchedIsDone'
    BY <1>1, <1>7, <1>13 DEF DispatchedIsDone, Mark
  <1>19. CreatesPending'
    <2>1. \A m \in applied' : m.id <= stages'
      BY <1>1, <1>2 DEF CreatesPending
    <2>2. ASSUME NEW k \in Creates \cap Keys, staged'[k] # None, NEW l \in tx
          PROVE  Mark(d, l).id # staged'[k].id
      <3>1. staged'[k] = staged[k] /\ staged[k] # None /\ k \notin Deleted(d) /\ l \in K
        BY <1>2, <1>12, <2>2
      <3>2. k \in K => staged[k].id # rows[k].id
        BY <3>1 DEF Deleted
      <3> QED
        BY <1>1, <1>2, <3>1, <3>2 DEF OneKeyPerId
    <2>3. \A k \in Creates \cap Keys : staged'[k] # None => \A m \in applied' : m.id # staged'[k].id
      BY <1>1, <1>12, <2>2 DEF CreatesPending
    <2>4. ASSUME NEW e \in Deploys, InLoop(e), e # d, NEW k \in Creates \cap DOMAIN dep[e].rows,
                 NEW m \in applied'
          PROVE  ~(m.by = e /\ m.id = dep[e].rows[k].id)
      BY <1>1, <1>2, <2>4 DEF CreatesPending
    <2> QED
      BY <1>7, <1>13, <2>1, <2>3, <2>4 DEF CreatesPending
  <1>20. AnswersHold'
    <2>1. \A i \in ids : \E m \in applied' : m.id = i /\ m.by = d
      BY <1>2, <1>4 DEF ids
    <2>2. applied \subseteq applied'
      BY <1>1
    <2>3. ASSUME NEW e \in Deploys, e # d, report'[e] # None, ~report'[e].failed
          PROVE  \A i \in report'[e].committed : \E m \in applied' : m.id = i /\ m.by = e
      BY <1>11, <2>2, <2>3 DEF AnswersHold
    <2>4. \A i \in report'[d].committed : \E m \in applied' : m.id = i /\ m.by = d
      BY <1>10, <1>11, <2>1
    <2> QED
      BY <2>3, <2>4 DEF AnswersHold
  <1> QED
    BY <1>4, <1>15, <1>16, <1>17, <1>18, <1>19, <1>20

-----------------------------------------------------------------------------
(* Every step                                                               *)

\* What a handler does to a deployment: it fails, adds a creation to the
\* transaction, or changes a column.
LEMMA DispatchCases ==
  ASSUME Typed, NEW d \in Deploys, Dispatch(d)
  PROVE  /\ Running(d) /\ UNCHANGED <<staged, audit, now, stages, deploys, edits>>
         /\ \/ Fail(d)
            \/ /\ dep' = [dep EXCEPT ![d] = Free]
               /\ report' = [report EXCEPT ![d] = Answer({}, TRUE)]
               /\ UNCHANGED <<prod, applied>>
            \/ /\ Current(d) \in Creates /\ Continue(d, dep[d].tx \cup {Current(d)})
               /\ UNCHANGED <<prod, applied, report>>
            \/ /\ Current(d) \notin Creates
               /\ \E p \in Production :
                    /\ Mutate(d, p) /\ p.newRules = prod.newRules
                    /\ p.default = "strategy2" => p.newStrategy
                    /\ Current(d) \in FlagKeys =>
                         p = Put(prod, Row(d).change)
                    /\ Current(d) \notin FlagKeys => \A c \in Columns : p[c] = prod[c]
  <1>1. Running(d) /\ UNCHANGED <<staged, audit, now, stages, deploys, edits>>
    BY DEF Dispatch
  <1>2. InLoop(d) /\ dep[d].todo # <<>>
    BY <1>1 DEF Running, InLoop
  <1>3. Current(d) \in DOMAIN dep[d].rows
    BY <1>2, LoopFacts, HeadTailProperties DEF LoopOK, Current
  <1>4. Row(d) \in StagedRow /\ Row(d).change \in Changes(Current(d))
    BY <1>2, <1>3, LoopFacts DEF LoopOK, RowOf, Row
  <1>5. prod \in Production /\ (prod.default = "strategy2" => prod.newStrategy)
    BY DEF Typed
  <1>6. CASE commitFlagCreate(d)
    BY <1>1, <1>6 DEF commitFlagCreate, Creates
  <1>7. CASE commitStrategyCreate(d)
    BY <1>1, <1>7 DEF commitStrategyCreate, Creates
  <1>8. CASE commitFlagRuleCreate(d)
    BY <1>1, <1>8 DEF commitFlagRuleCreate, Creates
  <1>9. CASE /\ Current(d) \in FlagKeys /\ Mutate(d, Put(prod, Row(d).change))
    <2>1. PICK p : p = Put(prod, Row(d).change)
      OBVIOUS
    <2>2. p \in Production
      BY <1>4, <1>5, <1>9, <2>1, ApplyFacts
    <2>3. p.newRules = prod.newRules /\ p.default = prod.default /\ p.newStrategy = prod.newStrategy
      BY <1>5, <2>1 DEF Put, flagApply, Production
    <2>4. Current(d) \notin Creates
      BY <1>9 DEF FlagKeys, Creates
    <2> QED
      BY <1>1, <1>5, <1>9, <2>1, <2>2, <2>3, <2>4
  <1>10. CASE commitFlagToggle(d)
    <2>1. CASE prod.archived
      BY <1>1, <1>10, <2>1 DEF commitFlagToggle
    <2>2. CASE ~prod.archived
      BY <1>9, <1>10, <2>2 DEF commitFlagToggle, flagApply, Put
    <2> QED
      BY <2>1, <2>2
  <1>11. CASE commitFlagUpdate(d)
    BY <1>1, <1>9, <1>11 DEF commitFlagUpdate, Put
  <1>12. CASE commitFlagArchive(d)
    BY <1>9, <1>12 DEF commitFlagArchive, flagApply, Put
  <1>13. CASE commitFlagRestore(d)
    BY <1>9, <1>13 DEF commitFlagRestore, flagApply, Put
  <1>14. CASE commitFlagRuleDelete(d)
    <2>1. Current(d) \notin Creates /\ Current(d) \notin FlagKeys
      BY <1>14 DEF commitFlagRuleDelete, FlagKeys, Creates
    <2>2. CASE prod.rule
      <3>1. PICK p : p = [prod EXCEPT !.rule = FALSE]
        OBVIOUS
      <3>2. /\ p \in Production /\ p.newRules = prod.newRules /\ p.default = prod.default
            /\ p.newStrategy = prod.newStrategy /\ \A c \in Columns : p[c] = prod[c]
        BY <1>5, <3>1 DEF Production, Columns
      <3> QED
        BY <1>1, <1>5, <1>14, <2>1, <2>2, <3>1, <3>2 DEF commitFlagRuleDelete
    <2>3. CASE ~prod.rule
      BY <1>1, <1>14, <2>3 DEF commitFlagRuleDelete
    <2> QED
      BY <2>2, <2>3
  <1>15. CASE commitStrategyDefaultUpsert(d)
    <2>1. Current(d) \notin Creates /\ Current(d) \notin FlagKeys
      BY <1>15 DEF commitStrategyDefaultUpsert, FlagKeys, Creates
    <2>2. PICK id : id = RewriteRow(d, Row(d).change.ref)
      OBVIOUS
    <2>3. CASE id \in Strategies
      <3>1. id \in {"strategy", "strategy2"} /\ (id = "strategy2" => prod.newStrategy)
        BY <2>3 DEF Strategies
      <3>2. PICK p : p = [prod EXCEPT !.default = id]
        OBVIOUS
      <3>3. /\ p \in Production /\ p.newRules = prod.newRules /\ p.default = id
            /\ p.newStrategy = prod.newStrategy /\ \A c \in Columns : p[c] = prod[c]
        BY <1>5, <3>1, <3>2 DEF Production, Columns
      <3> QED
        BY <1>1, <1>15, <2>1, <2>2, <2>3, <3>1, <3>2, <3>3 DEF commitStrategyDefaultUpsert
    <2>4. CASE id \notin Strategies
      BY <1>1, <1>15, <2>2, <2>4 DEF commitStrategyDefaultUpsert
    <2> QED
      BY <2>3, <2>4
  <1>16. CASE NoHandler(d)
    BY <1>1, <1>16 DEF NoHandler
  <1> QED
    BY <1>6, <1>7, <1>8, <1>10, <1>11, <1>12, <1>13, <1>14, <1>15, <1>16 DEF Dispatch

LEMMA DispatchStep ==
  ASSUME StagingInv, NEW d \in Deploys, Dispatch(d) PROVE StagingInv'
  <1>1. Typed
    BY DEF StagingInv
  <1>2. Running(d) /\ UNCHANGED <<staged, audit, now, stages, deploys, edits>>
    BY <1>1, DispatchCases
  <1>3. CASE Fail(d)
    BY <1>2, <1>3, FailStep
  <1>4. CASE /\ dep' = [dep EXCEPT ![d] = Free]
             /\ report' = [report EXCEPT ![d] = Answer({}, TRUE)]
             /\ UNCHANGED <<prod, applied>>
    <2>1. Answer({}, TRUE) \in [committed : SUBSET Nat, failed : {TRUE}]
      BY DEF Answer
    <2>2. audit' \subseteq applied
      BY <1>1, <1>2 DEF Typed
    <2> QED
      BY <1>2, <1>4, <2>1, <2>2, LoopEnds
  <1>5. CASE /\ Current(d) \in Creates /\ Continue(d, dep[d].tx \cup {Current(d)})
             /\ UNCHANGED <<prod, applied, report>>
    BY <1>2, <1>5, ContinueStep
  <1>6. CASE /\ Current(d) \notin Creates
             /\ \E p \in Production :
                  /\ Mutate(d, p) /\ p.newRules = prod.newRules
                  /\ p.default = "strategy2" => p.newStrategy
    BY <1>2, <1>6, MutateStep
  <1> QED
    BY <1>1, <1>3, <1>4, <1>5, <1>6, DispatchCases

LEMMA StagingInit == Init => StagingInv
  <1> SUFFICES ASSUME Init PROVE StagingInv
    OBVIOUS
  <1>1. Typed
    <2>1. prod \in Production /\ prod.default = None /\ prod.newStrategy = FALSE
      BY DEF Init, Production
    <2>2. /\ staged = [k \in Keys |-> staged[k]] /\ \A k \in Keys : staged[k] = None
          /\ dep = [d \in Deploys |-> dep[d]] /\ \A d \in Deploys : dep[d] = Free
          /\ report \in [Deploys -> {None} \cup [committed : SUBSET Nat, failed : BOOLEAN]]
      BY DEF Init
    <2>3. now \in 0 .. MaxTime /\ deploys \in 0 .. MaxDeploys
      BY StagingAssumption DEF Init
    <2>4. prod.default = "strategy2" => prod.newStrategy
      BY <2>1, StagingAssumption
    <2> QED
      BY <2>1, <2>2, <2>3, <2>4 DEF Init, Typed
  <1>2. RulesCounted
    <2>1. {d \in Deploys : InLoop(d)} = {}
      BY DEF Init, InLoop, Free
    <2> QED
      BY <2>1, FS_EmptySet DEF Init, RulesCounted
  <1>3. OneKeyPerId /\ DispatchedIsDone /\ CreatesPending /\ AnswersHold
    BY DEF Init, OneKeyPerId, DispatchedIsDone, CreatesPending, AnswersHold, InLoop, Free
  <1> QED
    BY <1>1, <1>2, <1>3 DEF StagingInv

LEMMA StagingNext == StagingInv /\ [Next]_vars => StagingInv'
  <1> SUFFICES ASSUME StagingInv, [Next]_vars PROVE StagingInv'
    OBVIOUS
  <1>1. ASSUME NEW k \in Keys, DiscardOne(k) PROVE StagingInv'
    BY <1>1, RowsGo DEF DiscardOne, StagingInv, Typed
  <1>2. ASSUME NEW k \in Keys, NEW change \in Changes(k), Stage(k, change) PROVE StagingInv'
    BY <1>2, StageStep
  <1>3. CASE DiscardAll
    BY <1>3, RowsGo DEF DiscardAll
  <1>4. CASE sweepOnce
    BY <1>4, RowsGo DEF sweepOnce
  <1>5. ASSUME NEW d \in Deploys, Deploy(d) \/ CutOff(d) PROVE StagingInv'
    BY <1>5, LoadStep, DispatchStep, CommitTxStep, WriteAuditLogStep, CutOffStep DEF Deploy
  <1>6. CASE Edit
    BY <1>6, EditStep
  <1>7. ASSUME staged' = staged, now' \in 0 .. MaxTime,
               UNCHANGED <<prod, dep, report, audit, applied, stages, deploys, edits>>
        PROVE  StagingInv'
    <2>1. Typed'
      BY <1>7 DEF StagingInv, Typed, LoopOK, RowOf
    <2>2. RulesCounted' /\ OneKeyPerId' /\ DispatchedIsDone' /\ CreatesPending' /\ AnswersHold'
      BY <1>7, SMTT(60) DEF StagingInv, RulesCounted, OneKeyPerId, DispatchedIsDone, CreatesPending,
                  AnswersHold, InLoop, Mark
    <2> QED
      BY <2>1, <2>2 DEF StagingInv
  <1>8. CASE Tick
    <2>1. now' \in 0 .. MaxTime
      BY <1>8, StagingAssumption DEF Tick, StagingInv, Typed
    <2> QED
      BY <1>7, <1>8, <2>1 DEF Tick
  <1>9. CASE UNCHANGED vars
    BY <1>7, <1>9 DEF vars, StagingInv, Typed
  <1> QED
    BY <1>1, <1>2, <1>3, <1>4, <1>5, <1>6, <1>8, <1>9 DEF Next

-----------------------------------------------------------------------------
(* The theorems                                                             *)

LEMMA StagingAlways == Spec => []StagingInv
  BY StagingInit, StagingNext, PTL DEF Spec

LEMMA StagingInvTypes == StagingInv => TypeOK
  <1> SUFFICES ASSUME StagingInv PROVE TypeOK
    OBVIOUS
  <1>1. prod.newRules \in 0 .. MaxDeploys
    <2> DEFINE R == {d \in Deploys : InLoop(d)}
    <2>1. /\ IsFiniteSet(R) /\ prod.newRules + Cardinality(R) <= deploys
          /\ deploys \in 0 .. MaxDeploys /\ prod.newRules \in Nat /\ MaxDeploys \in Nat
      BY StagingAssumption DEF StagingInv, RulesCounted, Typed, Production
    <2>2. Cardinality(R) \in Nat
      BY <2>1, FS_CardinalityType
    <2> HIDE DEF R
    <2> QED
      BY <2>1, <2>2
  <1>2. prod \in Production /\ (prod.default = "strategy2" => prod.newStrategy) /\ now \in 0 .. MaxTime
    BY DEF StagingInv, Typed
  <1>3. prod.default \in {None} \cup Strategies
    BY <1>2 DEF Production, Strategies
  <1>4. \A k \in Keys : staged[k] # None => staged[k].change \in Changes(k)
    BY DEF StagingInv, Typed, RowOf
  <1> QED
    BY <1>1, <1>2, <1>3, <1>4 DEF TypeOK, Production

\* Whatever is staged, discarded, deployed or cut off meanwhile: the creations of a
\* deployment are in production together or not at all, what an answer calls
\* committed is there unless the answer names a failed row, and the audit rows
\* tell the truth (Commit in staging/service.go).
THEOREM CommitsAreAlwaysWhole == Spec => []CommitsAreWhole
  <1>1. StagingInv => CreatesTogether
    <2> SUFFICES ASSUME StagingInv PROVE CreatesTogether
      OBVIOUS
    <2>1. ASSUME NEW d \in Deploys, InLoop(d), NEW k \in Creates \cap DOMAIN dep[d].rows
          PROVE  Mark(d, k) \notin applied
      BY <2>1, LoopFacts DEF StagingInv, CreatesPending
    <2> QED
      BY <2>1 DEF StagingInv, AnswersHold, CreatesTogether, InLoop
  <1>2. StagingInv => AuditIsTrue
    BY DEF StagingInv, Typed, AuditIsTrue
  <1>3. StagingInv => CommitsAreWhole
    BY <1>1, <1>2, StagingInvTypes DEF CommitsAreWhole
  <1> QED
    BY <1>3, StagingAlways, PTL

\* A revision that is loaded is no newer than the one that is staged.
NoneNewer ==
  /\ \A k \in Keys : staged[k] # None => staged[k].rev <= stages
  /\ \A d \in Deploys : InLoop(d) => \A k \in DOMAIN dep[d].rows :
       /\ dep[d].rows[k].rev <= stages
       /\ staged[k] # None /\ staged[k].id = dep[d].rows[k].id =>
            dep[d].rows[k].rev <= staged[k].rev

LEMMA NoneNewerStays ==
  ASSUME StagingInv, NoneNewer, stages' = stages,
         \A k \in Keys : staged'[k] \in {None, staged[k]},
         \A d \in Deploys : InLoop(d)' => InLoop(d) /\ dep'[d].rows = dep[d].rows
  PROVE  NoneNewer'
  <1>1. ASSUME NEW k \in Keys, staged'[k] # None PROVE staged'[k].rev <= stages'
    BY <1>1 DEF NoneNewer
  <1>2. ASSUME NEW d \in Deploys, InLoop(d)', NEW k \in DOMAIN dep'[d].rows
        PROVE  /\ dep'[d].rows[k].rev <= stages'
               /\ staged'[k] # None /\ staged'[k].id = dep'[d].rows[k].id =>
                    dep'[d].rows[k].rev <= staged'[k].rev
    <2>1. InLoop(d) /\ dep'[d].rows = dep[d].rows /\ k \in Keys
      BY <1>2, LoopFacts DEF StagingInv
    <2> QED
      BY <1>2, <2>1 DEF NoneNewer
  <1> QED
    BY <1>1, <1>2 DEF NoneNewer

LEMMA NoneNewerNext == ASSUME StagingInv, NoneNewer, [Next]_vars PROVE NoneNewer'
  <1>1. Typed /\ dep = [d \in Deploys |-> dep[d]] /\ staged = [k \in Keys |-> staged[k]]
    BY DEF StagingInv, Typed
  <1>2. CASE UNCHANGED <<dep, stages>> /\ \A k \in Keys : staged'[k] \in {None, staged[k]}
    BY <1>2, NoneNewerStays DEF InLoop
  <1>3. ASSUME NEW j \in Keys, NEW change \in Changes(j), Stage(j, change) PROVE NoneNewer'
    <2>1. PICK row : row = Upsert(staged[j], change, stages')
      OBVIOUS
    <2>2. /\ stages' = stages + 1 /\ stages \in Nat /\ dep' = dep
          /\ staged'[j] = row /\ \A k \in Keys : k # j => staged'[k] = staged[k]
      BY <1>1, <1>3, <2>1 DEF Stage, Typed
    <2>3. row.rev = stages'
      <3>1. CASE staged[j] = None
        BY <2>1, <3>1 DEF Upsert
      <3>2. CASE staged[j] # None
        <4>1. staged[j] \in StagedRow
          BY <1>1, <3>2 DEF Typed, RowOf
        <4> QED
          BY <2>1, <3>2, <4>1 DEF Upsert, StagedRow
      <3> QED
        BY <3>1, <3>2
    <2>4. ASSUME NEW k \in Keys, staged'[k] # None PROVE staged'[k].rev <= stages'
      <3>1. CASE k = j
        BY <2>2, <2>3, <3>1
      <3>2. CASE k # j
        <4>1. staged[k] # None /\ staged[k].rev \in Nat
          BY <1>1, <2>2, <2>4, <3>2 DEF Typed, RowOf, StagedRow
        <4> QED
          BY <2>2, <3>2, <4>1 DEF NoneNewer
      <3> QED
        BY <3>1, <3>2
    <2>5. ASSUME NEW d \in Deploys, InLoop(d)', NEW k \in DOMAIN dep'[d].rows
          PROVE  /\ dep'[d].rows[k].rev <= stages'
                 /\ staged'[k] # None /\ staged'[k].id = dep'[d].rows[k].id =>
                      dep'[d].rows[k].rev <= staged'[k].rev
      <3>1. InLoop(d) /\ dep'[d].rows = dep[d].rows /\ k \in Keys /\ dep[d].rows[k].rev \in Nat
        BY <1>1, <2>2, <2>5, LoopFacts DEF InLoop, StagedRow
      <3>2. dep[d].rows[k].rev <= stages'
        BY <2>2, <2>5, <3>1 DEF NoneNewer
      <3>3. CASE k = j
        BY <2>2, <2>3, <3>1, <3>2, <3>3
      <3>4. CASE k # j
        BY <2>2, <2>5, <3>1, <3>2, <3>4 DEF NoneNewer
      <3> QED
        BY <3>3, <3>4
    <2> QED
      BY <2>4, <2>5 DEF NoneNewer
  <1>4. ASSUME NEW d \in Deploys, Load(d) PROVE NoneNewer'
    <2>1. /\ UNCHANGED <<staged, stages>>
          /\ \A e \in Deploys : e # d => dep'[e] = dep[e]
      BY <1>1, <1>4 DEF Load
    <2>2. CASE ~InLoop(d)'
      BY <1>1, <2>1, <2>2, NoneNewerStays DEF InLoop
    <2>3. CASE InLoop(d)'
      <3>a. PICK S \in SUBSET {k \in Keys : staged[k] # None} :
              \/ UNCHANGED dep
              \/ \E plan \in planBatch(S) : dep' = [dep EXCEPT ![d] =
                   [pc |-> "run", todo |-> plan, rows |-> [k \in S |-> staged[k]],
                    tx |-> {}, seen |-> OverlayListMarked, alone |-> TRUE,
                    whole |-> \A k \in FlagKeys \cap Keys : staged[k] # None => k \in S]]
        BY <1>4 DEF Load
      <3>b. dep[d].pc = "free"
        BY <1>4 DEF Load
      <3>1. dep'[d].rows = [k \in S |-> staged[k]]
        BY <1>1, <2>3, <3>a, <3>b DEF InLoop
      <3>2. \A k \in S : staged[k].rev \in Nat
        BY <1>1 DEF Typed, RowOf, StagedRow
      <3> QED
        BY <2>1, <3>1, <3>2 DEF NoneNewer, InLoop
    <2> QED
      BY <2>2, <2>3
  <1>5. ASSUME NEW d \in Deploys, Dispatch(d) PROVE NoneNewer'
    <2>1. UNCHANGED <<staged, stages>> /\ InLoop(d)
      BY <1>1, <1>5, DispatchCases DEF Running, InLoop
    <2>2. ASSUME NEW e \in Deploys, InLoop(e)' PROVE InLoop(e) /\ dep'[e].rows = dep[e].rows
      <3>1. CASE dep' = [dep EXCEPT ![d] = Free]
        BY <1>1, <2>2, <3>1 DEF InLoop, Free
      <3>2. CASE Continue(d, dep[d].tx \cup {Current(d)})
        <4>1. dep[d] \in Loop
          BY <1>1, <2>1, LoopFacts
        <4> QED
          BY <1>1, <2>1, <2>2, <3>2, <4>1 DEF Continue, Loop, InLoop
      <3>3. ASSUME NEW p, Mutate(d, p) PROVE InLoop(e) /\ dep'[e].rows = dep[e].rows
        <4>1. Running(d)
          BY <1>1, <1>5, DispatchCases
        <4>2. InLoop(e)
          BY <1>1, <2>2, <3>3, <4>1, MutateDeps DEF InLoop
        <4>3. dep[e] \in Loop /\ LoopOK(dep[e])
          BY <1>1, <4>2, LoopFacts
        <4> QED
          BY <1>1, <3>3, <4>1, <4>2, <4>3, MutateDeps
      <3> QED
        BY <1>1, <1>5, <3>1, <3>2, <3>3, DispatchCases DEF Fail
    <2> QED
      BY <2>1, <2>2, NoneNewerStays
  <1>6. ASSUME NEW d \in Deploys, CommitTx(d) PROVE NoneNewer'
    <2>1. /\ stages' = stages /\ \A k \in Keys : staged'[k] \in {None, staged[k]}
          /\ \A e \in Deploys : InLoop(e)' => InLoop(e) /\ dep'[e].rows = dep[e].rows
      BY <1>1, <1>6 DEF CommitTx, InLoop
    <2> QED
      BY <2>1, NoneNewerStays
  <1>7. ASSUME NEW d \in Deploys, WriteAuditLog(d) \/ CutOff(d) PROVE NoneNewer'
    <2>1. /\ UNCHANGED <<staged, stages>>
          /\ \A e \in Deploys : InLoop(e)' => InLoop(e) /\ dep'[e].rows = dep[e].rows
      BY <1>1, <1>7 DEF WriteAuditLog, CutOff, InLoop, Free
    <2> QED
      BY <2>1, NoneNewerStays
  <1>8. CASE Edit
    <2>1. /\ UNCHANGED <<staged, stages>>
          /\ \A e \in Deploys : InLoop(e)' => InLoop(e) /\ dep'[e].rows = dep[e].rows
      <3>1. /\ UNCHANGED <<staged, stages>>
            /\ dep' = [d \in Deploys |-> IF dep[d].pc = "run" THEN [dep[d] EXCEPT !.alone = FALSE]
                                         ELSE dep[d]]
        BY <1>8 DEF Edit
      <3>2. \A e \in Deploys : InLoop(e) => dep[e] \in Loop
        BY <1>1, LoopFacts
      <3> QED
        BY <3>1, <3>2 DEF InLoop, Loop
    <2> QED
      BY <2>1, NoneNewerStays
  <1>9. CASE DiscardAll \/ sweepOnce \/ Tick \/ \E k \in Keys : DiscardOne(k)
    BY <1>1, <1>2, <1>9 DEF DiscardAll, sweepOnce, Tick, DiscardOne
  <1>10. CASE UNCHANGED vars
    BY <1>2, <1>10 DEF vars
  <1> QED
    BY <1>3, <1>4, <1>5, <1>6, <1>7, <1>8, <1>9, <1>10 DEF Next, Deploy

\* One step takes a row away only in one of these ways.
LEMMA LostRows ==
  ASSUME StagingInv, NoneNewer, Next, NEW k \in Keys, staged[k] # None, staged'[k] = None
  PROVE  \/ DiscardOne(k) \/ DiscardAll
         \/ sweepOnce /\ Swept(staged[k])
         \/ \E d \in Deploys : /\ Takes(d, k)
                              /\ \/ dep[d].rows[k].rev = staged[k].rev
                                 \/ dep[d].rows[k].rev < staged[k].rev
  <1>1. staged = [j \in Keys |-> staged[j]] /\ staged' # staged
    BY DEF StagingInv, Typed
  <1>2. ASSUME NEW j \in Keys, DiscardOne(j) PROVE DiscardOne(k)
    BY <1>1, <1>2 DEF DiscardOne
  <1>3. ASSUME NEW j \in Keys, NEW change \in Changes(j), Stage(j, change) PROVE FALSE
    <2>1. StagingInv'
      BY <1>3, StageStep
    <2>2. PICK row : row = Upsert(staged[j], change, stages')
      OBVIOUS
    <2>3. staged' = [staged EXCEPT ![j] = row]
      BY <1>3, <2>2 DEF Stage
    <2>4. j = k /\ row = None
      BY <1>1, <2>3
    <2>5. /\ stages' \in Nat /\ now \in Nat /\ change \in AnyChange
          /\ staged[k] \in StagedRow
      BY <1>3, <2>1, StagingAssumption DEF StagingInv, Typed, RowOf, AnyChange
    <2>6. row \in StagedRow
      BY <2>2, <2>4, <2>5 DEF Upsert, StagedRow
    <2> QED
      BY <2>4, <2>6, StagingAssumption DEF StagedRow
  <1>4. CASE sweepOnce
    BY <1>4 DEF sweepOnce
  <1>5. ASSUME NEW d \in Deploys, CommitTx(d)
        PROVE  Takes(d, k) /\ \/ dep[d].rows[k].rev = staged[k].rev
                              \/ dep[d].rows[k].rev < staged[k].rev
    <2>1. k \in Deleted(d)
      BY <1>5 DEF CommitTx
    <2>2. k \in DOMAIN dep[d].rows /\ staged[k].id = dep[d].rows[k].id
      BY <2>1 DEF Deleted
    <2>3. Mark(d, k) \in applied' /\ InLoop(d)
      BY <1>5, <2>2, CommitTxStep DEF CommitTx, InLoop
    <2>4. dep[d].pc = "run" /\ dep'[d].pc = "audit"
      BY <1>5 DEF CommitTx, StagingInv, Typed
    <2>5. dep[d].rows[k].rev \in Nat /\ staged[k].rev \in Nat
      BY <2>2, <2>3, LoopFacts DEF StagingInv, Typed, RowOf, StagedRow
    <2>6. dep[d].rows[k].rev <= staged[k].rev
      BY <2>2, <2>3 DEF NoneNewer
    <2> QED
      BY <2>2, <2>3, <2>4, <2>5, <2>6 DEF Takes
  <1>6. ASSUME NEW d \in Deploys, Load(d) \/ Dispatch(d) \/ WriteAuditLog(d) \/ CutOff(d) PROVE FALSE
    BY <1>1, <1>6 DEF Load, Dispatch, WriteAuditLog, CutOff
  <1>7. CASE Edit \/ Tick
    BY <1>1, <1>7 DEF Edit, Tick
  <1> QED
    BY <1>2, <1>3, <1>4, <1>5, <1>6, <1>7 DEF Next, Deploy

\* No row disappears unless its user discards it, the sweeper finds it old, or the
\* deployment that takes it has put it into production, whatever deployments run and
\* however they end, with one exception: the user had staged it while the
\* deployment was under way, over the revision that is in production now
\* (Upsert, DeleteByIDsTx, sweepOnce).
THEOREM OnlyRestagedAreEverLost == Spec => OnlyRestagedChangesAreLost
  <1>1. StagingInv /\ NoneNewer /\ [Next]_vars =>
          [\A k \in Keys :
             staged[k] # None /\ staged'[k] = None =>
               \/ DiscardOne(k) \/ DiscardAll
               \/ sweepOnce /\ Swept(staged[k])
               \/ \E d \in Deploys : /\ Takes(d, k)
                                    /\ \/ dep[d].rows[k].rev = staged[k].rev
                                       \/ dep[d].rows[k].rev < staged[k].rev]_vars
    BY LostRows
  <1>2. Init => NoneNewer
    BY DEF Init, NoneNewer, InLoop, Free
  <1>3. StagingInv /\ NoneNewer /\ [Next]_vars => NoneNewer'
    BY NoneNewerNext
  <1> QED
    BY <1>1, <1>2, <1>3, StagingAlways, PTL DEF Spec, OnlyRestagedChangesAreLost

-----------------------------------------------------------------------------
(* What the overlay showed is what is deployed                              *)

\* SeenComes for one deployment.
SeenBy(r) ==
  r.alone /\ r.whole =>
    \A k \in FlagKeys \cap DOMAIN r.rows : FlagKeys \cap DOMAIN r.rows = {k} =>
      \A c \in Promised(r.rows[k].change) :
        r.seen[c] = IF k \in ToSet(r.todo) THEN Put(prod, r.rows[k].change)[c] ELSE prod[c]

LEMMA SeenComesIs == SeenComes <=> \A d \in Deploys : InLoop(d) => SeenBy(dep[d])
  BY DEF SeenComes, SeenBy

\* It stays as long as the columns and the flag's place in the list do.
LEMMA SeenStays ==
  ASSUME prod \in Production, prod' \in Production, \A c \in Columns : prod'[c] = prod[c],
         NEW d \in Deploys, SeenBy(dep[d]),
         /\ dep'[d].rows = dep[d].rows /\ dep'[d].seen = dep[d].seen
         /\ dep'[d].alone = dep[d].alone /\ dep'[d].whole = dep[d].whole,
         \A k \in FlagKeys \cap DOMAIN dep[d].rows :
           FlagKeys \cap DOMAIN dep[d].rows = {k} =>
             (k \in ToSet(dep'[d].todo) <=> k \in ToSet(dep[d].todo))
  PROVE  SeenBy(dep[d])'
  <1>1. \A k \in DOMAIN dep[d].rows, c \in Columns :
          Put(prod', dep[d].rows[k].change)[c] = Put(prod, dep[d].rows[k].change)[c]
    BY PutLooksAtColumns
  <1> SUFFICES ASSUME dep'[d].alone, dep'[d].whole, NEW k \in FlagKeys \cap DOMAIN dep[d].rows,
                      FlagKeys \cap DOMAIN dep[d].rows = {k},
                      NEW c \in Promised(dep[d].rows[k].change)
               PROVE  dep'[d].seen[c] = IF k \in ToSet(dep'[d].todo)
                        THEN Put(prod', dep[d].rows[k].change)[c] ELSE prod'[c]
    BY DEF SeenBy
  <1>2. dep[d].seen[c] = IF k \in ToSet(dep[d].todo)
                         THEN Put(prod, dep[d].rows[k].change)[c] ELSE prod[c]
    BY DEF SeenBy
  <1>3. c \in Columns
    BY PutIsPromised
  <1> QED
    BY <1>1, <1>2, <1>3

LEMMA SeenNext ==
  ASSUME StagingInv, StagingInv', SeenComes, [Next]_vars PROVE SeenComes'
  <1>1. prod \in Production /\ prod' \in Production /\ Typed /\ dep = [e \in Deploys |-> dep[e]]
    BY DEF StagingInv, Typed
  <1> SUFFICES ASSUME NEW d \in Deploys, InLoop(d)' PROVE SeenBy(dep[d])'
    BY DEF SeenComes, SeenBy, InLoop
  <1>2. InLoop(d) => SeenBy(dep[d])
    BY SeenComesIs
  <1>3. ASSUME prod' = prod \/ \A c \in Columns : prod'[c] = prod[c], dep'[d] = dep[d]
        PROVE  SeenBy(dep[d])'
    <2>1. SeenBy(dep[d])
      BY <1>2, <1>3 DEF InLoop
    <2>2. \A c \in Columns : prod'[c] = prod[c]
      BY <1>3
    <2> QED
      BY <1>1, <1>3, <2>1, <2>2, SeenStays
  <1>4. CASE UNCHANGED <<prod, dep>>
    BY <1>3, <1>4
  <1>5. ASSUME NEW e \in Deploys, Load(e) PROVE SeenBy(dep[d])'
    <2>1. prod' = prod
      BY <1>5 DEF Load
    <2>2. CASE e # d
      <3>1. dep'[d] = dep[d]
        BY <1>1, <1>5, <2>2 DEF Load
      <3> QED
        BY <1>3, <2>1, <3>1
    <2>3. CASE e = d
      <3>1. PICK S \in SUBSET {k \in Keys : staged[k] # None} :
              /\ Unresolved(S) = {}
              /\ \E plan \in planBatch(S) : dep' = [dep EXCEPT ![d] =
                   [pc |-> "run", todo |-> plan, rows |-> [k \in S |-> staged[k]],
                    tx |-> {}, seen |-> OverlayListMarked, alone |-> TRUE,
                    whole |-> \A k \in FlagKeys \cap Keys : staged[k] # None => k \in S]]
        BY <1>5, <2>3 DEF Load, InLoop
      <3>2. PICK plan \in planBatch(S) : dep' = [dep EXCEPT ![d] =
                   [pc |-> "run", todo |-> plan, rows |-> [k \in S |-> staged[k]],
                    tx |-> {}, seen |-> OverlayListMarked, alone |-> TRUE,
                    whole |-> \A k \in FlagKeys \cap Keys : staged[k] # None => k \in S]]
        BY <3>1
      <3>3. /\ dep'[d].todo = plan /\ dep'[d].rows = [k \in S |-> staged[k]]
            /\ dep'[d].seen = OverlayListMarked
            /\ (dep'[d].whole <=> \A k \in FlagKeys \cap Keys : staged[k] # None => k \in S)
        BY <1>1, <3>2
      <3>4. ToSet(plan) = S
        BY <3>2, PlanIsWhole, StagingAssumption
      <3> SUFFICES ASSUME dep'[d].whole, NEW k \in FlagKeys \cap S, FlagKeys \cap S = {k},
                          NEW c \in Promised(staged[k].change)
                   PROVE  OverlayListMarked[c] = Put(prod', staged[k].change)[c]
        BY <3>3, <3>4 DEF SeenBy
      <3>5. k \in Keys /\ staged[k] # None
        OBVIOUS
      <3>6. \A l \in FlagKeys : l # k => ~(l \in Keys /\ staged[l] # None)
        BY <3>3
      <3>7. \A flag, l \in FlagKeys : l # k => Shown(flag, l) = flag
        BY <3>6 DEF Shown
      <3>8. \A flag : Shown(flag, k) = flagApply(flag, staged[k].change)
        BY <3>5 DEF Shown
      <3>9. OverlayListMarked = flagApply(prod, staged[k].change)
        <4>1. k = "flag" \/ k = "flag.enabled"
          BY DEF FlagKeys
        <4>2. ~(/\ FlagKeys \subseteq Keys /\ staged["flag"] # None /\ staged["flag.enabled"] # None)
          BY <3>6, <4>1 DEF FlagKeys
        <4>3. OverlayListMarked = Shown(Shown(prod, "flag"), "flag.enabled")
          BY <4>2 DEF OverlayListMarked
        <4> QED
          BY <3>6, <3>8, <4>1, <4>3 DEF FlagKeys, Shown
      <3> QED
        BY <1>1, <2>1, <3>9, PutIsPromised
    <2> QED
      BY <2>2, <2>3
  <1>6. ASSUME NEW e \in Deploys, dep' = [dep EXCEPT ![e] = Free], UNCHANGED prod
        PROVE  SeenBy(dep[d])'
    <2>1. dep'[d] = dep[d]
      BY <1>1, <1>6 DEF InLoop, Free
    <2> QED
      BY <1>3, <1>6, <2>1
  <1>7. ASSUME NEW e \in Deploys, Dispatch(e) PROVE SeenBy(dep[d])'
    <2>1. Running(e) /\ InLoop(e)
      BY <1>1, <1>7, DispatchCases DEF Running, InLoop
    <2>2. CASE Fail(e)
      BY <1>6, <2>2 DEF Fail
    <2>3. CASE /\ dep' = [dep EXCEPT ![e] = Free]
               /\ report' = [report EXCEPT ![e] = Answer({}, TRUE)]
               /\ UNCHANGED <<prod, applied>>
      BY <1>6, <2>3
    <2>4. CASE /\ Current(e) \in Creates /\ Continue(e, dep[e].tx \cup {Current(e)})
               /\ UNCHANGED <<prod, applied, report>>
      <3>1. CASE e # d
        <4>1. dep'[d] = dep[d]
          BY <1>1, <2>4, <3>1 DEF Continue
        <4> QED
          BY <1>3, <2>4, <4>1
      <3>2. CASE e = d
        <4>1. dep[d] \in Loop /\ LoopOK(dep[d])
          BY <1>1, <2>1, <3>2, LoopFacts
        <4>2. /\ dep'[d].rows = dep[d].rows /\ dep'[d].seen = dep[d].seen
              /\ dep'[d].alone = dep[d].alone /\ dep'[d].whole = dep[d].whole
              /\ dep'[d].todo = Tail(dep[d].todo)
          BY <1>1, <2>4, <3>2, <4>1 DEF Continue, Loop
        <4>3. ToSet(dep[d].todo) = {Current(d)} \cup ToSet(dep'[d].todo)
          BY <2>1, <3>2, <4>1, <4>2, TodoStep DEF Running, LoopOK, Current
        <4>4. Current(d) \notin FlagKeys
          BY <2>4, <3>2 DEF Creates, FlagKeys
        <4>5. \A k \in FlagKeys : k \in ToSet(dep'[d].todo) <=> k \in ToSet(dep[d].todo)
          BY <4>3, <4>4
        <4>6. SeenBy(dep[d]) /\ \A c \in Columns : prod'[c] = prod[c]
          BY <1>2, <2>1, <2>4, <3>2
        <4> QED
          BY <1>1, <4>2, <4>5, <4>6, SeenStays
      <3> QED
        BY <3>1, <3>2
    <2>5. ASSUME Current(e) \notin Creates, NEW p \in Production, Mutate(e, p),
                 Current(e) \in FlagKeys => p = Put(prod, Row(e).change),
                 Current(e) \notin FlagKeys => \A c \in Columns : p[c] = prod[c]
          PROVE  SeenBy(dep[d])'
      <3>1. prod' = p
        BY <2>5 DEF Mutate
      <3>2. InLoop(d)
        BY <1>1, <2>1, <2>5, MutateDeps DEF InLoop
      <3>3. dep[d] \in Loop /\ LoopOK(dep[d]) /\ SeenBy(dep[d])
        BY <1>1, <1>2, <3>2, LoopFacts
      <3>4. /\ dep'[d].rows = dep[d].rows /\ dep'[d].seen = dep[d].seen
            /\ dep'[d].whole = dep[d].whole
            /\ e # d => ~dep'[d].alone
            /\ e = d => dep'[d].alone = dep[d].alone
        BY <1>1, <2>1, <2>5, <3>3, MutateDeps
      <3>5. CASE e # d
        BY <3>4, <3>5 DEF SeenBy
      <3>6. CASE e = d
        <4>1. /\ ToSet(dep[d].todo) = {Current(d)} \cup ToSet(dep'[d].todo)
              /\ Current(d) \notin ToSet(dep'[d].todo) /\ Current(d) \in DOMAIN dep[d].rows
          BY <1>1, <2>1, <2>5, <3>6, MutateDeps
        <4>2. CASE Current(d) \notin FlagKeys
          <5>1. \A k \in FlagKeys : k \in ToSet(dep'[d].todo) <=> k \in ToSet(dep[d].todo)
            BY <4>1, <4>2
          <5>2. \A c \in Columns : prod'[c] = prod[c]
            BY <2>5, <3>1, <3>6, <4>2
          <5> QED
            BY <1>1, <3>3, <3>4, <3>6, <5>1, <5>2, SeenStays
        <4>3. CASE Current(d) \in FlagKeys
          <5> SUFFICES ASSUME dep'[d].alone, dep'[d].whole,
                              NEW k \in FlagKeys \cap DOMAIN dep[d].rows,
                              FlagKeys \cap DOMAIN dep[d].rows = {k},
                              NEW c \in Promised(dep[d].rows[k].change)
                       PROVE  dep'[d].seen[c] = IF k \in ToSet(dep'[d].todo)
                                THEN Put(prod', dep[d].rows[k].change)[c] ELSE prod'[c]
            BY <3>4 DEF SeenBy
          <5>1. k = Current(d) /\ k \in ToSet(dep[d].todo) /\ k \notin ToSet(dep'[d].todo)
            BY <4>1, <4>3
          <5>2. dep[d].seen[c] = Put(prod, dep[d].rows[k].change)[c]
            <6>1. dep[d].alone /\ dep[d].whole
              BY <3>4, <3>6
            <6> QED
              BY <3>3, <5>1, <6>1 DEF SeenBy
          <5>3. prod' = Put(prod, dep[d].rows[k].change)
            BY <2>5, <3>1, <3>6, <4>3, <5>1 DEF Row
          <5> QED
            BY <3>4, <5>1, <5>2, <5>3
        <4> QED
          BY <4>2, <4>3
      <3> QED
        BY <3>5, <3>6
    <2> QED
      BY <1>1, <1>7, <2>2, <2>3, <2>4, <2>5, DispatchCases
  <1>8. ASSUME NEW e \in Deploys, CommitTx(e) PROVE SeenBy(dep[d])'
    <2>1. dep'[d] = dep[d]
      BY <1>1, <1>8 DEF CommitTx, InLoop
    <2>2. \A c \in Columns : prod'[c] = prod[c]
      BY <1>1, <1>8 DEF CommitTx, Columns, Production
    <2> QED
      BY <1>3, <2>1, <2>2
  <1>9. ASSUME NEW e \in Deploys, WriteAuditLog(e) PROVE SeenBy(dep[d])'
    <2>1. dep'[d] = dep[d] /\ prod' = prod
      BY <1>1, <1>9 DEF WriteAuditLog, InLoop, Free
    <2> QED
      BY <1>3, <2>1
  <1>10. ASSUME NEW e \in Deploys, CutOff(e) PROVE SeenBy(dep[d])'
    BY <1>6, <1>10 DEF CutOff
  <1>11. CASE Edit
    <2>1. InLoop(d) /\ dep'[d] = [dep[d] EXCEPT !.alone = FALSE]
      BY <1>11 DEF Edit, InLoop
    <2>2. dep'[d].alone = FALSE
      BY <1>1, <2>1, LoopFacts DEF Loop
    <2> QED
      BY <2>2 DEF SeenBy
  <1>12. CASE DiscardAll \/ sweepOnce \/ Tick \/ \E k \in Keys : DiscardOne(k)
                \/ \E change \in Changes(k) : Stage(k, change)
    BY <1>4, <1>12 DEF DiscardAll, sweepOnce, Tick, DiscardOne, Stage
  <1>13. CASE UNCHANGED vars
    BY <1>4, <1>13 DEF vars
  <1> QED
    BY <1>5, <1>7, <1>8, <1>9, <1>10, <1>11, <1>12, <1>13 DEF Next, Deploy

\* A deployment of the flag's only staged change, with nobody else at work on the
\* flag, leaves the flag as the overlay had shown it (OverlayListMarked, Commit),
\* but for the archive mark of an update, which the overlay takes from the patch and
\* UpdateFlag does not write.
THEOREM SeenIsAlwaysDeployed == Spec => SeenIsDeployed
  <1>1. Init => SeenComes
    BY DEF Init, SeenComes, InLoop, Free
  <1>2. StagingInv /\ StagingInv' /\ SeenComes /\ [Next]_vars => SeenComes'
    BY SeenNext
  <1>3. ASSUME StagingInv, SeenComes, Next, NEW d \in Deploys, dep[d].pc = "run",
               dep'[d].pc = "audit", dep[d].alone, dep[d].whole,
               Cardinality(FlagKeys \cap DOMAIN dep[d].rows) = 1,
               NEW j \in FlagKeys \cap DOMAIN dep[d].rows,
               NEW c \in Promised(dep[d].rows[j].change)
        PROVE  prod'[c] = dep[d].seen[c]
    <2>1. Typed /\ dep = [e \in Deploys |-> dep[e]] /\ InLoop(d)
      BY <1>3 DEF StagingInv, Typed, InLoop
    <2>2. CASE CommitTx(d)
      <3>1. dep[d].todo = <<>> /\ ToSet(dep[d].todo) = {}
        BY <2>2 DEF CommitTx, ToSet
      <3>2. PICK k : FlagKeys \cap DOMAIN dep[d].rows = {k}
        <4>1. IsFiniteSet(FlagKeys)
          <5>1. IsFiniteSet({"flag"}) /\ IsFiniteSet({"flag"} \cup {"flag.enabled"})
            BY FS_Singleton, FS_AddElement
          <5> QED
            BY <5>1, FlagKeys = {"flag"} \cup {"flag.enabled"} DEF FlagKeys
        <4>2. IsFiniteSet(FlagKeys \cap DOMAIN dep[d].rows)
          BY <4>1, FS_Intersection
        <4> QED
          BY <1>3, <4>2, FS_Singleton
      <3>3. prod[c] = dep[d].seen[c]
        BY <1>3, <2>1, <3>1, <3>2 DEF SeenComes
      <3>a. c \in Columns
        BY <1>3, <2>1, PutIsPromised DEF Typed
      <3>4. prod'[c] = prod[c]
        BY <3>a, <2>1, <2>2 DEF CommitTx, Columns, Production, Typed
      <3> QED
        BY <3>3, <3>4
    <2>3. ASSUME NEW e \in Deploys, e # d, CommitTx(e) PROVE FALSE
      BY <1>3, <2>1, <2>3 DEF CommitTx
    <2>4. ASSUME NEW e \in Deploys, Dispatch(e) PROVE FALSE
      <3>1. Running(e) /\ InLoop(e)
        BY <2>1, <2>4, DispatchCases DEF Running, InLoop
      <3>2. ASSUME dep' = [dep EXCEPT ![e] = Free] PROVE FALSE
        BY <1>3, <2>1, <3>2 DEF Free
      <3>3. ASSUME Continue(e, dep[e].tx \cup {Current(e)}) PROVE FALSE
        <4>1. dep[e] \in Loop
          BY <2>1, <3>1, LoopFacts
        <4> QED
          BY <1>3, <2>1, <3>3, <4>1 DEF Continue, Loop
      <3>4. ASSUME NEW p, Mutate(e, p) PROVE FALSE
        <4>1. dep'[d] \in Loop
          BY <2>1, <3>1, <3>4, MutateDeps, LoopFacts
        <4> QED
          BY <1>3, <4>1 DEF Loop
      <3> QED
        BY <2>1, <2>4, <3>2, <3>3, <3>4, DispatchCases DEF Fail
    <2>5. ASSUME NEW e \in Deploys, Load(e) PROVE FALSE
      BY <1>3, <2>1, <2>5 DEF Load
    <2>6. ASSUME NEW e \in Deploys, WriteAuditLog(e) \/ CutOff(e) PROVE FALSE
      BY <1>3, <2>1, <2>6 DEF WriteAuditLog, CutOff, Free
    <2>7. ASSUME Edit PROVE FALSE
      BY <1>3, <2>1, <2>7, LoopFacts DEF Edit, Loop
    <2>8. ASSUME UNCHANGED dep PROVE FALSE
      BY <1>3, <2>8
    <2> QED
      BY <1>3, <2>2, <2>3, <2>4, <2>5, <2>6, <2>7, <2>8
      DEF Next, Deploy, DiscardOne, Stage, DiscardAll, sweepOnce, Tick
  <1>4. StagingInv /\ SeenComes /\ [Next]_vars =>
          [\A d \in Deploys :
             ( /\ dep[d].pc = "run" /\ dep'[d].pc = "audit"
               /\ dep[d].alone /\ dep[d].whole
               /\ Cardinality(FlagKeys \cap DOMAIN dep[d].rows) = 1 )
             => \A k \in FlagKeys \cap DOMAIN dep[d].rows :
                  \A c \in Promised(dep[d].rows[k].change) : prod'[c] = dep[d].seen[c]]_vars
    BY <1>3
  <1> QED
    BY <1>1, <1>2, <1>4, StagingAlways, PTL DEF Spec, SeenIsDeployed
=============================================================================
