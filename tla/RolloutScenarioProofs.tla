------------------------ MODULE RolloutScenarioProofs ------------------------
(***************************************************************************)
(* The theorems of RolloutEngineProofs, and those of RolloutGroup, for the *)
(* situations of MC_RolloutScenarios.  A situation never changes, so the   *)
(* invariant of each is one conjunct, and a step is a step of the one at   *)
(* hand.                                                                   *)
(***************************************************************************)
EXTENDS MC_RolloutScenarios, RolloutEngineProofs

SingleProofs == INSTANCE RolloutEngineProofs WITH
    Replicas <- {r1}, Callers <- {}, Controls <- {}, Steps <- SingleSteps, SignalErrors <- TRUE,
    MaxDeliver <- 3, MaxOps <- 0, MaxFaults <- 0, MaxCrashes <- 2

EndsProofs == INSTANCE RolloutEngineProofs WITH
    Replicas <- {r1, r2}, Callers <- {}, Controls <- {}, Steps <- EndsSteps, SignalErrors <- FALSE,
    MaxDeliver <- 3, MaxOps <- 0, MaxFaults <- 0, MaxCrashes <- 0

-----------------------------------------------------------------------------
(* The invariant of a group and its handlers.                              *)

Reason == {"none", "engine", "operator"} \cup Group!Rollouts
RowType == [status : Group!LiveStatus \cup Group!TerminalStatus, group : Groups \cup {NoGroup}, reason : Reason]
HandlerType == [pc : {"idle", "get", "policy", "list", "check", "write", "publish", "revert"},
                origin : Group!Rollouts \cup {NoGroup}, group : Groups \cup {NoGroup},
                policy : Group!Policy, todo : SUBSET Group!Rollouts]
RequestType == [pc : {"idle", "write", "publish"}, target : Group!Rollouts \cup {NoGroup},
                op : Group!Control \cup {"none"}]

GroupTyped ==
    /\ rows \in [Group!Rollouts -> RowType]
    /\ engine \in [Group!Rollouts -> {"waiting", "driving", "publish", "done"}]
    /\ policy \in [Groups -> Group!Policy]
    /\ mail \in [Group!Rollouts -> Nat]
    /\ hnd \in [Handlers -> HandlerType]
    /\ requests \in [GroupCallers -> RequestType]
    /\ trail \subseteq Group!Rollouts /\ revived \subseteq Group!Rollouts
    /\ owed \subseteq Group!Rollouts \X Group!Rollouts

\* A handler at work has what its place in OnRollback needs, and so has a request.
AtWork ==
    /\ \A h \in Handlers :
        /\ hnd[h].pc # "idle" => hnd[h].origin \in Group!Rollouts
        /\ hnd[h].pc \in {"policy", "list", "check", "write", "publish", "revert"} => hnd[h].group \in Groups
        /\ hnd[h].pc \in {"check", "write", "publish", "revert"} =>
               hnd[h].todo # {} /\ hnd[h].todo \subseteq Group!Rollouts \ {hnd[h].origin}
    /\ \A c \in GroupCallers :
        requests[c].pc # "idle" => requests[c].target \in Group!Rollouts /\ requests[c].op \in Group!Control

\* The rollout has ended, or there is an excuse for blaming it.
Over(r) == rows[r].status \in Group!TerminalStatus \/ r \in trail \cup revived

\* Whatever is blamed, or is about to be, is over.
BlamedAreOver ==
    /\ \A r \in Group!Rollouts : mail[r] > 0 => Over(r)
    /\ \A r \in Group!Rollouts : rows[r].reason \in Group!Rollouts => Over(rows[r].reason)
    /\ \A h \in Handlers : /\ hnd[h].pc # "idle" => Over(hnd[h].origin)
                           /\ hnd[h].pc \in {"publish", "revert"} => Over(Group!Current(h))

\* r blames x, or a handler is about to write that.
Blames(r, x) ==
    \/ rows[r].reason = x
    \/ \E h \in Handlers : hnd[h].pc = "write" /\ Group!Current(h) = r /\ hnd[h].origin = x

\* BlameIsRooted, with what the handlers are about to write.
Rooted ==
    \A S \in SUBSET (Group!Rollouts \ (trail \cup revived)) :
        S # {} => \E r \in S : \A x \in S : ~Blames(r, x)

GroupInv == GroupTyped /\ AtWork /\ BlamedAreOver /\ Rooted


-----------------------------------------------------------------------------
CascadeInv == scenario \in {"cascade", "edits", "pause"} => GroupInv

SituationInv ==
    /\ scenario \in {"single", "controls", "ends", "cascade", "edits", "pause"}
    /\ scenario = "single" => SingleProofs!TypeInv /\ SingleProofs!SoleInv
    /\ scenario = "controls" => TypeInv /\ CauseInv
    /\ scenario = "ends" => EndsProofs!TypeInv

-----------------------------------------------------------------------------
(* The group keeps its invariant.                                          *)

LEMMA LeastOf == ASSUME NEW S \in SUBSET Nat, S # {} PROVE \E k \in S : \A j \in S : k <= j
  <1>1. \E k \in S : \A j \in S : ~(<<j, k>> \in OpToRel(<, Nat))
    BY WFMin, NatLessThanWellFounded
  <1>2. \E k \in S : \A j \in S : ~(j < k)
    BY <1>1 DEF OpToRel
  <1>3. \A k, j \in S : ~(j < k) => k <= j
    OBVIOUS
  <1> QED
    BY <1>2, <1>3

\* The loop takes a sibling that is left.
LEMMA OldestIsOne == ASSUME NEW S, S \subseteq Group!Rollouts, S # {} PROVE Group!Oldest(S) \in S
  <1> DEFINE I == {i \in DOMAIN Order : Order[i] \in S}
  <1>1. Order \in Seq(Group!Rollouts)
    BY GroupAssumption DEF Group!GroupConstants
  <1>2. I \subseteq Nat
    BY <1>1
  <1>3. I # {}
    BY DEF Group!Rollouts, Group!ToSet
  <1>4. \E k \in I : \A j \in I : k <= j
    BY <1>2, <1>3, LeastOf
  <1>5. \E k \in DOMAIN Order : Order[k] \in S /\ \A j \in DOMAIN Order : Order[j] \in S => k <= j
    BY <1>4
  <1> QED
    BY <1>5 DEF Group!Oldest

LEMMA CurrentIsOne ==
    ASSUME GroupTyped, AtWork, NEW h \in Handlers, hnd[h].pc \in {"check", "write", "publish", "revert"}
    PROVE  /\ Group!Current(h) \in hnd[h].todo /\ Group!Current(h) \in Group!Rollouts
           /\ Group!Current(h) # hnd[h].origin /\ hnd[h].origin \in Group!Rollouts
  BY OldestIsOne DEF AtWork, Group!Current, GroupTyped, HandlerType

-----------------------------------------------------------------------------
(* What a step does to the rows.                                            *)

LEMMA WritesRow ==
    ASSUME GroupTyped, NEW r \in Group!Rollouts, NEW status \in Group!LiveStatus \cup Group!TerminalStatus,
           NEW reason \in Reason,
           \/ Group!WriteRolledBack(r, reason) /\ status = "rolled_back"
           \/ Group!WriteStatus(r, status, reason)
    PROVE  /\ rows' \in [Group!Rollouts -> RowType] /\ owed' \subseteq Group!Rollouts \X Group!Rollouts
           /\ rows'[r].status = status /\ rows'[r].reason = reason
           /\ \A x \in Group!Rollouts \ {r} : rows'[x] = rows[x]
           /\ revived \subseteq revived' /\ revived' \subseteq Group!Rollouts
           /\ rows[r].status \in Group!TerminalStatus => status \in Group!TerminalStatus \/ r \in revived'
  <1>0. rows[r] \in RowType /\ rows \in [Group!Rollouts -> RowType]
    BY DEF GroupTyped
  <1>1. rows' = [rows EXCEPT ![r] = [@ EXCEPT !.status = status, !.reason = reason]]
    BY DEF Group!WriteRolledBack, Group!WriteStatus
  <1>2. [rows[r] EXCEPT !.status = status, !.reason = reason] \in RowType
    BY <1>0 DEF RowType
  <1>3. rows' \in [Group!Rollouts -> RowType]
    BY <1>0, <1>1, <1>2
  <1>4. rows'[r].status = status /\ rows'[r].reason = reason
    BY <1>0, <1>1 DEF RowType
  <1>5. \A x \in Group!Rollouts \ {r} : rows'[x] = rows[x]
    BY <1>0, <1>1
  <1>6. owed' \subseteq Group!Rollouts \X Group!Rollouts
    BY DEF Group!WriteRolledBack, Group!WriteStatus, GroupTyped, Group!Concerned
  <1>7. revived \subseteq revived' /\ revived' \subseteq Group!Rollouts
    BY DEF Group!WriteRolledBack, Group!WriteStatus, GroupTyped
  <1>8. rows[r].status \in Group!TerminalStatus => status \in Group!TerminalStatus \/ r \in revived'
    BY DEF Group!WriteRolledBack, Group!WriteStatus, Group!TerminalStatus
  <1> QED
    BY <1>3, <1>4, <1>5, <1>6, <1>7, <1>8

\* What has ended or is excused stays so.
LEMMA OverStays ==
    ASSUME trail \subseteq trail', revived \subseteq revived',
           \A r \in Group!Rollouts : rows[r].status \in Group!TerminalStatus =>
               rows'[r].status \in Group!TerminalStatus \/ r \in revived'
    PROVE  \A r \in Group!Rollouts : Over(r) => Over(r)'
  BY DEF Over

\* Excusing more and blaming less keeps the reasons rooted.
LEMMA RootsStay ==
    ASSUME Rooted, trail \subseteq trail', revived \subseteq revived',
           \A r, x \in Group!Rollouts : Blames(r, x)' => Blames(r, x)
    PROVE  Rooted'
  <1> SUFFICES ASSUME NEW S \in SUBSET (Group!Rollouts \ (trail \cup revived)'), S # {}
               PROVE  \E r \in S : \A x \in S : ~Blames(r, x)'
    BY DEF Rooted
  <1>1. S \in SUBSET (Group!Rollouts \ (trail \cup revived))
    OBVIOUS
  <1>2. PICK r \in S : \A x \in S : ~Blames(r, x)
    BY <1>1 DEF Rooted
  <1>3. \A x \in S : ~Blames(r, x)'
    BY <1>1, <1>2
  <1> QED
    BY <1>3

-----------------------------------------------------------------------------
(* What a step of a handler does.                                           *)

\* Blaming for one more rollout keeps the reasons rooted when nobody blames it:
\* it has not ended, and so is on no way.
LEMMA NewBlame ==
    ASSUME GroupInv, NEW s \in Group!Rollouts, NEW o \in Group!Rollouts, s # o,
           rows[s].status \notin Group!TerminalStatus,
           trail' = trail, revived' = revived,
           \A r, x \in Group!Rollouts : Blames(r, x)' => Blames(r, x) \/ (r = s /\ x = o)
    PROVE  Rooted'
  <1> SUFFICES ASSUME NEW S \in SUBSET (Group!Rollouts \ (trail \cup revived)), S # {}
               PROVE  \E r \in S : \A x \in S : ~Blames(r, x)'
    BY DEF Rooted
  <1>0. Rooted
    BY DEF GroupInv
  <1>1. CASE s \notin S
    <2>1. PICK r \in S : \A x \in S : ~Blames(r, x)
      BY <1>0 DEF Rooted
    <2>2. \A x \in S : ~Blames(r, x)'
      BY <1>1, <2>1
    <2> QED
      BY <2>2
  <1>2. CASE s \in S /\ S # {s}
    <2>1. ~Over(s)
      BY <1>2 DEF Over
    <2>2. \A r \in Group!Rollouts : ~Blames(r, s)
      BY <2>1 DEF Blames, GroupInv, BlamedAreOver
    <2>3. S \ {s} \in SUBSET (Group!Rollouts \ (trail \cup revived)) /\ S \ {s} # {}
      BY <1>2
    <2>4. PICK r \in S \ {s} : \A x \in S \ {s} : ~Blames(r, x)
      BY <1>0, <2>3 DEF Rooted
    <2>5. \A x \in S : ~Blames(r, x)'
      BY <2>2, <2>4
    <2> QED
      BY <2>5
  <1>3. CASE S = {s}
    <2>1. ~Over(s)
      BY <1>3 DEF Over
    <2>2. ~Blames(s, s)
      BY <2>1 DEF Blames, GroupInv, BlamedAreOver
    <2>3. ~Blames(s, s)'
      BY <2>2
    <2> QED
      BY <1>3, <2>3
  <1> QED
    BY <1>1, <1>2, <1>3

LEMMA HandlerMoves ==
    ASSUME GroupInv, NEW h \in Handlers, NEW new \in HandlerType,
           hnd' = [hnd EXCEPT ![h] = new], UNCHANGED <<rows, engine, policy, requests, trail, Group!history>>,
           mail' \in [Group!Rollouts -> Nat], \A r \in Group!Rollouts : mail'[r] > 0 => Over(r),
           new.pc # "idle" => new.origin \in Group!Rollouts /\ Over(new.origin),
           new.pc \in {"policy", "list", "check", "write", "publish", "revert"} => new.group \in Groups,
           new.pc \in {"check", "write", "publish", "revert"} =>
               new.todo # {} /\ new.todo \subseteq Group!Rollouts \ {new.origin},
           new.pc \in {"publish", "revert"} => Over(Group!Oldest(new.todo)),
           new.pc = "write" => rows[Group!Oldest(new.todo)].status \notin Group!TerminalStatus
    PROVE  GroupInv'
  <1>0. GroupTyped /\ AtWork /\ BlamedAreOver /\ Rooted
    BY DEF GroupInv
  <1>1. hnd' \in [Handlers -> HandlerType] /\ hnd'[h] = new /\ \A k \in Handlers \ {h} : hnd'[k] = hnd[k]
    BY <1>0 DEF GroupTyped
  <1>2. GroupTyped'
    BY <1>0, <1>1 DEF GroupTyped, Group!history
  <1>3. AtWork'
    <2>1. ASSUME NEW k \in Handlers
          PROVE  /\ hnd'[k].pc # "idle" => hnd'[k].origin \in Group!Rollouts
                 /\ hnd'[k].pc \in {"policy", "list", "check", "write", "publish", "revert"} => hnd'[k].group \in Groups
                 /\ hnd'[k].pc \in {"check", "write", "publish", "revert"} =>
                        hnd'[k].todo # {} /\ hnd'[k].todo \subseteq Group!Rollouts \ {hnd'[k].origin}
      <3>1. CASE k = h
        BY <1>1, <3>1
      <3>2. CASE k # h
        BY <1>0, <1>1, <3>2 DEF AtWork
      <3> QED
        BY <3>1, <3>2
    <2>2. \A c \in GroupCallers :
        requests'[c].pc # "idle" => requests'[c].target \in Group!Rollouts /\ requests'[c].op \in Group!Control
      BY <1>0 DEF AtWork
    <2> QED
      BY <2>1, <2>2 DEF AtWork
  <1>4. \A r : Over(r)' <=> Over(r)
    BY DEF Over, Group!history
  <1>5. BlamedAreOver'
    <2>1. ASSUME NEW k \in Handlers
          PROVE  /\ hnd'[k].pc # "idle" => Over(hnd'[k].origin)
                 /\ hnd'[k].pc \in {"publish", "revert"} => Over(Group!Oldest(hnd'[k].todo))
      <3>1. CASE k = h
        BY <1>1, <3>1
      <3>2. CASE k # h
        BY <1>0, <1>1, <3>2 DEF BlamedAreOver, Group!Current
      <3> QED
        BY <3>1, <3>2
    <2>2. /\ \A r \in Group!Rollouts : mail'[r] > 0 => Over(r)
          /\ \A r \in Group!Rollouts : rows[r].reason \in Group!Rollouts => Over(rows[r].reason)
      BY <1>0 DEF BlamedAreOver
    <2> QED
      BY <2>1, <2>2 DEF BlamedAreOver, Group!Current, Over, Group!history
  <1>6. Rooted'
    <2>1. CASE new.pc = "write"
      <3> DEFINE s == Group!Oldest(new.todo)
      <3>1. s \in Group!Rollouts /\ s # new.origin /\ new.origin \in Group!Rollouts
        BY <2>1, OldestIsOne
      <3>2. \A r, x \in Group!Rollouts : Blames(r, x)' => Blames(r, x) \/ (r = s /\ x = new.origin)
        BY <1>1 DEF Blames, Group!Current
      <3>3. rows[s].status \notin Group!TerminalStatus
        BY <2>1
      <3> QED
        BY <3>1, <3>2, <3>3, NewBlame DEF Group!history
    <2>2. CASE new.pc # "write"
      <3>1. \A r, x \in Group!Rollouts : Blames(r, x)' => Blames(r, x)
        BY <1>1, <2>2 DEF Blames, Group!Current
      <3> QED
        BY <1>0, <3>1, RootsStay DEF Group!history
    <2> QED
      BY <2>1, <2>2
  <1> QED
    BY <1>2, <1>3, <1>5, <1>6 DEF GroupInv

LEMMA Returning ==
    ASSUME GroupInv, NEW h \in Handlers, Group!Return(h),
           UNCHANGED <<rows, engine, policy, requests, trail, Group!history>>,
           mail' \in [Group!Rollouts -> Nat], \A r \in Group!Rollouts : mail'[r] > 0 => Over(r)
    PROVE  GroupInv'
  <1>1. Group!IdleHandler \in HandlerType /\ Group!IdleHandler.pc = "idle"
    BY DEF Group!IdleHandler, HandlerType, Group!Policy
  <1>2. hnd' = [hnd EXCEPT ![h] = Group!IdleHandler]
    BY DEF Group!Return
  <1> QED
    BY <1>1, <1>2, HandlerMoves

\* The mail of a step that does not touch it, and of one that publishes again.
LEMMA MailStays == GroupInv => mail \in [Group!Rollouts -> Nat] /\ \A r \in Group!Rollouts : mail[r] > 0 => Over(r)
  BY DEF GroupInv, GroupTyped, BlamedAreOver

LEMMA MailAgain ==
    ASSUME GroupInv, NEW r \in Group!Rollouts, Over(r), Group!Publish(r)
    PROVE  mail' \in [Group!Rollouts -> Nat] /\ \A x \in Group!Rollouts : mail'[x] > 0 => Over(x)
  <1>1. mail \in [Group!Rollouts -> Nat] /\ \A x \in Group!Rollouts : mail[x] > 0 => Over(x)
    BY MailStays
  <1>2. mail' = [mail EXCEPT ![r] = mail[r] + 1] /\ mail[r] + 1 \in Nat
    BY <1>1 DEF Group!Publish
  <1> QED
    BY <1>1, <1>2

LEMMA HandleKeeps ==
    ASSUME GroupInv, NEW h \in Handlers, NEW r \in Group!Rollouts, Group!Handle(h, r)
    PROVE  GroupInv'
  <1>1. mail \in [Group!Rollouts -> Nat] /\ mail[r] > 0 /\ \A x \in Group!Rollouts : mail[x] > 0 => Over(x)
    BY MailStays DEF Group!Handle
  <1>2. mail' = [mail EXCEPT ![r] = mail[r] - 1] /\ mail[r] - 1 \in Nat
    BY <1>1 DEF Group!Handle
  <1>3. mail' \in [Group!Rollouts -> Nat] /\ \A x \in Group!Rollouts : mail'[x] > 0 => Over(x)
    BY <1>1, <1>2
  <1>4. PICK new : new = [Group!IdleHandler EXCEPT !.pc = "get", !.origin = r]
    OBVIOUS
  <1>5. new \in HandlerType /\ new.pc = "get" /\ new.origin = r
    BY <1>4 DEF Group!IdleHandler, HandlerType, Group!Policy
  <1>6. hnd' = [hnd EXCEPT ![h] = new] /\ UNCHANGED <<rows, engine, policy, requests, trail, Group!history>>
    BY <1>4 DEF Group!Handle, Group!history
  <1> QED
    BY <1>1, <1>3, <1>5, <1>6, HandlerMoves

\* The next place of a handler that keeps its other locals.
LEMMA Goes ==
    ASSUME GroupInv, NEW h \in Handlers, NEW pc, hnd[h].pc # "idle",
           hnd' = [hnd EXCEPT ![h].pc = pc],
           UNCHANGED <<rows, engine, policy, requests, trail, Group!history>>,
           mail' \in [Group!Rollouts -> Nat], \A r \in Group!Rollouts : mail'[r] > 0 => Over(r),
           \/ hnd[h].pc = "check" /\ pc = "write" /\ rows[Group!Current(h)].status \notin Group!TerminalStatus
           \/ hnd[h].pc = "publish" /\ pc = "revert"
    PROVE  GroupInv'
  <1>0. hnd \in [Handlers -> HandlerType] /\ hnd[h] \in HandlerType /\ AtWork /\ BlamedAreOver
    BY DEF GroupInv, GroupTyped
  <1>1. PICK new : new = [hnd[h] EXCEPT !.pc = pc]
    OBVIOUS
  <1>2. /\ new \in HandlerType /\ new.pc = pc /\ new.origin = hnd[h].origin
        /\ new.group = hnd[h].group /\ new.todo = hnd[h].todo
    BY <1>0, <1>1 DEF HandlerType
  <1>3. hnd' = [hnd EXCEPT ![h] = new]
    BY <1>0, <1>1
  <1>4. /\ new.origin \in Group!Rollouts /\ Over(new.origin) /\ new.group \in Groups
        /\ new.todo # {} /\ new.todo \subseteq Group!Rollouts \ {new.origin}
    BY <1>0, <1>2 DEF AtWork, BlamedAreOver
  <1>5. new.pc \in {"publish", "revert"} => Over(Group!Oldest(new.todo))
    BY <1>0, <1>2 DEF BlamedAreOver, Group!Current
  <1>6. new.pc = "write" => rows[Group!Oldest(new.todo)].status \notin Group!TerminalStatus
    BY <1>2 DEF Group!Current
  <1> QED
    BY <1>2, <1>3, <1>4, <1>5, <1>6, HandlerMoves

\* The rest of the siblings.
LEMMA GoesOn ==
    ASSUME GroupInv, NEW h \in Handlers, Group!NextSibling(h), hnd[h].pc \in {"write", "revert"},
           UNCHANGED <<rows, engine, policy, mail, requests, trail, Group!history>>
    PROVE  GroupInv'
  <1>0. hnd \in [Handlers -> HandlerType] /\ hnd[h] \in HandlerType /\ AtWork /\ BlamedAreOver
    BY DEF GroupInv, GroupTyped
  <1>m. mail' \in [Group!Rollouts -> Nat] /\ \A r \in Group!Rollouts : mail'[r] > 0 => Over(r)
    BY MailStays
  <1>1. CASE hnd[h].todo \ {Group!Current(h)} = {}
    BY <1>1, <1>m, Returning DEF Group!NextSibling
  <1>2. CASE hnd[h].todo \ {Group!Current(h)} # {}
    <2>1. PICK rest : rest = hnd[h].todo \ {Group!Current(h)}
      OBVIOUS
    <2>2. PICK new : new = [hnd[h] EXCEPT !.pc = "check", !.todo = rest]
      OBVIOUS
    <2>3. /\ new \in HandlerType /\ new.pc = "check" /\ new.origin = hnd[h].origin
          /\ new.group = hnd[h].group /\ new.todo = rest
      BY <1>0, <2>1, <2>2 DEF HandlerType
    <2>4. hnd' = [hnd EXCEPT ![h] = new]
      BY <1>0, <1>2, <2>1, <2>2 DEF Group!NextSibling
    <2>5. /\ new.origin \in Group!Rollouts /\ Over(new.origin) /\ new.group \in Groups
          /\ new.todo # {} /\ new.todo \subseteq Group!Rollouts \ {new.origin}
      BY <1>0, <1>2, <2>1, <2>3 DEF AtWork, BlamedAreOver
    <2> QED
      BY <1>m, <2>3, <2>4, <2>5, HandlerMoves
  <1> QED
    BY <1>1, <1>2

LEMMA LookupKeeps == ASSUME GroupInv, NEW h \in Handlers, Group!Lookup(h) PROVE GroupInv'
  <1>0. hnd \in [Handlers -> HandlerType] /\ hnd[h] \in HandlerType /\ AtWork /\ BlamedAreOver
    BY DEF GroupInv, GroupTyped
  <1>1. /\ UNCHANGED <<rows, engine, policy, requests, trail, Group!history>>
        /\ mail' \in [Group!Rollouts -> Nat] /\ \A r \in Group!Rollouts : mail'[r] > 0 => Over(r)
    BY MailStays DEF Group!Lookup, Group!history
  <1>2. CASE rows[hnd[h].origin].group = NoGroup
    BY <1>1, <1>2, Returning DEF Group!Lookup
  <1>3. CASE rows[hnd[h].origin].group # NoGroup
    <2>1. hnd[h].origin \in Group!Rollouts /\ Over(hnd[h].origin) /\ hnd[h].pc = "get"
      BY <1>0 DEF AtWork, BlamedAreOver, Group!Lookup
    <2>2. rows[hnd[h].origin].group \in Groups
      BY <1>3, <2>1 DEF GroupInv, GroupTyped, RowType
    <2>3. PICK new : new = [hnd[h] EXCEPT !.pc = "policy", !.group = rows[hnd[h].origin].group]
      OBVIOUS
    <2>4. /\ new \in HandlerType /\ new.pc = "policy" /\ new.origin = hnd[h].origin
          /\ new.group \in Groups
      BY <1>0, <2>2, <2>3 DEF HandlerType
    <2>5. hnd' = [hnd EXCEPT ![h] = new]
      BY <1>0, <1>3, <2>3 DEF Group!Lookup
    <2> QED
      BY <1>1, <2>1, <2>4, <2>5, HandlerMoves
  <1> QED
    BY <1>2, <1>3

LEMMA GetPolicyKeeps == ASSUME GroupInv, NEW h \in Handlers, Group!GetPolicy(h) PROVE GroupInv'
  <1>0. hnd \in [Handlers -> HandlerType] /\ hnd[h] \in HandlerType /\ AtWork /\ BlamedAreOver
    BY DEF GroupInv, GroupTyped
  <1>1. /\ UNCHANGED <<rows, engine, policy, requests, trail, Group!history>>
        /\ mail' \in [Group!Rollouts -> Nat] /\ \A r \in Group!Rollouts : mail'[r] > 0 => Over(r)
    BY MailStays DEF Group!GetPolicy, Group!history
  <1>2. CASE policy[hnd[h].group] = "independent"
    BY <1>1, <1>2, Returning DEF Group!GetPolicy
  <1>3. CASE policy[hnd[h].group] # "independent"
    <2>1. hnd[h].origin \in Group!Rollouts /\ Over(hnd[h].origin) /\ hnd[h].group \in Groups
      BY <1>0 DEF AtWork, BlamedAreOver, Group!GetPolicy
    <2>2. policy[hnd[h].group] \in Group!Policy
      BY <2>1 DEF GroupInv, GroupTyped
    <2>3. PICK new : new = [hnd[h] EXCEPT !.pc = "list", !.policy = policy[hnd[h].group]]
      OBVIOUS
    <2>4. /\ new \in HandlerType /\ new.pc = "list" /\ new.origin = hnd[h].origin
          /\ new.group = hnd[h].group
      BY <1>0, <2>2, <2>3 DEF HandlerType
    <2>5. hnd' = [hnd EXCEPT ![h] = new]
      BY <1>0, <1>3, <2>3 DEF Group!GetPolicy
    <2> QED
      BY <1>1, <2>1, <2>4, <2>5, HandlerMoves
  <1> QED
    BY <1>2, <1>3

LEMMA ListKeeps == ASSUME GroupInv, NEW h \in Handlers, Group!ListSiblings(h) PROVE GroupInv'
  <1>0. hnd \in [Handlers -> HandlerType] /\ hnd[h] \in HandlerType /\ AtWork /\ BlamedAreOver
    BY DEF GroupInv, GroupTyped
  <1>1. /\ UNCHANGED <<rows, engine, policy, requests, trail, Group!history>>
        /\ mail' \in [Group!Rollouts -> Nat] /\ \A r \in Group!Rollouts : mail'[r] > 0 => Over(r)
    BY MailStays DEF Group!ListSiblings, Group!history
  <1>2. PICK todo : /\ todo \subseteq Group!Rollouts \ {hnd[h].origin}
                    /\ IF todo = {} THEN Group!Return(h)
                       ELSE hnd' = [hnd EXCEPT ![h] = [@ EXCEPT !.pc = "check", !.todo = todo]]
    BY DEF Group!ListSiblings, Group!ActiveSiblings
  <1>3. CASE todo = {}
    BY <1>1, <1>2, <1>3, Returning
  <1>4. CASE todo # {}
    <2>1. hnd[h].origin \in Group!Rollouts /\ Over(hnd[h].origin) /\ hnd[h].group \in Groups
      BY <1>0 DEF AtWork, BlamedAreOver, Group!ListSiblings
    <2>3. PICK new : new = [hnd[h] EXCEPT !.pc = "check", !.todo = todo]
      OBVIOUS
    <2>4. /\ new \in HandlerType /\ new.pc = "check" /\ new.origin = hnd[h].origin
          /\ new.group = hnd[h].group /\ new.todo = todo
      BY <1>0, <1>2, <2>3 DEF HandlerType
    <2>5. hnd' = [hnd EXCEPT ![h] = new]
      BY <1>0, <1>2, <1>4, <2>3
    <2> QED
      BY <1>1, <1>2, <1>4, <2>1, <2>4, <2>5, HandlerMoves
  <1> QED
    BY <1>3, <1>4

LEMMA CheckKeeps == ASSUME GroupInv, NEW h \in Handlers, Group!CheckSibling(h) PROVE GroupInv'
  <1>1. /\ UNCHANGED <<rows, engine, policy, requests, trail, Group!history>>
        /\ mail' \in [Group!Rollouts -> Nat] /\ \A r \in Group!Rollouts : mail'[r] > 0 => Over(r)
    BY MailStays DEF Group!CheckSibling, Group!history
  <1>2. CASE rows[Group!Current(h)].status \in Group!Allow(Group!OpOf(hnd[h].policy))
    <2>1. rows[Group!Current(h)].status \notin Group!TerminalStatus
      BY <1>2 DEF Group!Allow, Group!OpOf, Group!TerminalStatus
    <2>2. hnd' = [hnd EXCEPT ![h].pc = "write"] /\ hnd[h].pc = "check"
      BY <1>2 DEF Group!CheckSibling
    <2> QED
      BY <1>1, <2>1, <2>2, Goes
  <1>3. CASE ~(rows[Group!Current(h)].status \in Group!Allow(Group!OpOf(hnd[h].policy)))
    BY <1>1, <1>3, Returning DEF Group!CheckSibling
  <1> QED
    BY <1>2, <1>3

LEMMA PublishKeeps == ASSUME GroupInv, NEW h \in Handlers, Group!PublishSibling(h) PROVE GroupInv'
  <1>1. hnd[h].pc = "publish" /\ Over(Group!Current(h)) /\ Group!Current(h) \in Group!Rollouts
    BY CurrentIsOne DEF Group!PublishSibling, GroupInv, BlamedAreOver
  <1>2. mail' \in [Group!Rollouts -> Nat] /\ \A r \in Group!Rollouts : mail'[r] > 0 => Over(r)
    BY <1>1, MailAgain DEF Group!PublishSibling
  <1>3. /\ UNCHANGED <<rows, engine, policy, requests, trail, Group!history>>
        /\ hnd' = [hnd EXCEPT ![h].pc = "revert"]
    BY DEF Group!PublishSibling, Group!history
  <1> QED
    BY <1>1, <1>2, <1>3, Goes

LEMMA RevertKeeps == ASSUME GroupInv, NEW h \in Handlers, Group!RevertSibling(h) PROVE GroupInv'
  <1>1. UNCHANGED <<rows, engine, policy, mail, requests, trail, Group!history>> /\ hnd[h].pc = "revert"
    BY DEF Group!RevertSibling, Group!history
  <1>2. mail' \in [Group!Rollouts -> Nat] /\ \A r \in Group!Rollouts : mail'[r] > 0 => Over(r)
    BY <1>1, MailStays
  <1>3. Group!NextSibling(h) \/ Group!Return(h)
    BY DEF Group!RevertSibling
  <1> QED
    BY <1>1, <1>2, <1>3, GoesOn, Returning

LEMMA ErrorKeeps == ASSUME GroupInv, NEW h \in Handlers, Group!HandlerError(h) PROVE GroupInv'
  <1>1. Group!Return(h) /\ UNCHANGED <<rows, engine, policy, mail, requests, trail, Group!history>>
    BY DEF Group!HandlerError, Group!history
  <1> QED
    BY <1>1, MailStays, Returning

LEMMA CrashKeeps == ASSUME GroupInv, NEW h \in Handlers, Group!HandlerCrash(h) PROVE GroupInv'
  <1>1. Over(hnd[h].origin) /\ hnd[h].origin \in Group!Rollouts
    BY DEF Group!HandlerCrash, GroupInv, BlamedAreOver, AtWork
  <1>2. mail' \in [Group!Rollouts -> Nat] /\ \A r \in Group!Rollouts : mail'[r] > 0 => Over(r)
    BY <1>1, MailAgain DEF Group!HandlerCrash
  <1>3. Group!Return(h) /\ UNCHANGED <<rows, engine, policy, requests, trail, Group!history>>
    BY DEF Group!HandlerCrash, Group!history
  <1> QED
    BY <1>2, <1>3, Returning

LEMMA RedeliverKeeps == ASSUME GroupInv, NEW h \in Handlers, Group!Redeliver(h) PROVE GroupInv'
  <1>1. Over(hnd[h].origin) /\ hnd[h].origin \in Group!Rollouts
    BY DEF Group!Redeliver, GroupInv, BlamedAreOver, AtWork
  <1>2. mail' \in [Group!Rollouts -> Nat] /\ \A r \in Group!Rollouts : mail'[r] > 0 => Over(r)
    BY <1>1, MailAgain DEF Group!Redeliver
  <1>3. hnd' = hnd /\ UNCHANGED <<rows, engine, policy, requests, trail, Group!history>>
    BY DEF Group!Redeliver, Group!history
  <1>4. GroupTyped' /\ AtWork'
    BY <1>2, <1>3 DEF GroupInv, GroupTyped, AtWork, Group!history
  <1>5. BlamedAreOver'
    BY <1>2, <1>3 DEF GroupInv, BlamedAreOver, Over, Group!Current, Group!history
  <1>6. Rooted'
    BY <1>3 DEF GroupInv, Rooted, Blames, Group!Current, Group!history
  <1> QED
    BY <1>4, <1>5, <1>6 DEF GroupInv

-----------------------------------------------------------------------------
(* What a step that writes a row does.                                      *)

LEMMA RowWrites ==
    ASSUME GroupInv, NEW r \in Group!Rollouts, NEW status \in Group!LiveStatus \cup Group!TerminalStatus,
           NEW reason \in Reason,
           \/ Group!WriteRolledBack(r, reason) /\ status = "rolled_back"
           \/ Group!WriteStatus(r, status, reason),
           reason \in Group!Rollouts => Blames(r, reason),
           UNCHANGED <<policy, mail, trail>>,
           engine' \in [Group!Rollouts -> {"waiting", "driving", "publish", "done"}],
           hnd' \in [Handlers -> HandlerType], requests' \in [GroupCallers -> RequestType], AtWork',
           \A k \in Handlers :
               /\ hnd'[k].pc # "idle" => Over(hnd'[k].origin)
               /\ hnd'[k].pc \in {"publish", "revert"} =>
                      \/ Over(Group!Oldest(hnd'[k].todo))
                      \/ Group!Oldest(hnd'[k].todo) = r /\ status = "rolled_back"
               /\ hnd'[k].pc = "write" => hnd'[k] = hnd[k]
    PROVE  GroupInv'
  <1>0. GroupTyped /\ AtWork /\ BlamedAreOver /\ Rooted
    BY DEF GroupInv
  <1>1. /\ rows' \in [Group!Rollouts -> RowType] /\ owed' \subseteq Group!Rollouts \X Group!Rollouts
        /\ rows'[r].status = status /\ rows'[r].reason = reason
        /\ \A x \in Group!Rollouts \ {r} : rows'[x] = rows[x]
        /\ revived \subseteq revived' /\ revived' \subseteq Group!Rollouts
        /\ rows[r].status \in Group!TerminalStatus => status \in Group!TerminalStatus \/ r \in revived'
    BY <1>0, WritesRow
  <1>2. GroupTyped'
    BY <1>0, <1>1 DEF GroupTyped
  <1>3. \A x \in Group!Rollouts : Over(x) =>
          rows'[x].status \in Group!TerminalStatus \/ x \in trail' \cup revived'
    BY <1>1 DEF Over
  <1>4. /\ \A x \in Group!Rollouts : mail'[x] > 0 => Over(x)
        /\ \A x \in Group!Rollouts : rows'[x].reason \in Group!Rollouts => Over(rows'[x].reason)
    <2>1. reason \in Group!Rollouts => Over(reason)
      BY <1>0 DEF BlamedAreOver, Blames
    <2>2. \A x \in Group!Rollouts : rows'[x].reason \in Group!Rollouts => Over(rows'[x].reason)
      BY <1>0, <1>1, <2>1 DEF BlamedAreOver
    <2> QED
      BY <1>0, <2>2 DEF BlamedAreOver
  <1>5. \A k \in Handlers :
          /\ hnd'[k].pc # "idle" =>
                rows'[hnd'[k].origin].status \in Group!TerminalStatus \/ hnd'[k].origin \in trail' \cup revived'
          /\ hnd'[k].pc \in {"publish", "revert"} =>
                \/ rows'[Group!Oldest(hnd'[k].todo)].status \in Group!TerminalStatus
                \/ Group!Oldest(hnd'[k].todo) \in trail' \cup revived'
    <2> SUFFICES ASSUME NEW k \in Handlers
                 PROVE  /\ hnd'[k].pc # "idle" =>
                              \/ rows'[hnd'[k].origin].status \in Group!TerminalStatus
                              \/ hnd'[k].origin \in trail' \cup revived'
                        /\ hnd'[k].pc \in {"publish", "revert"} =>
                              \/ rows'[Group!Oldest(hnd'[k].todo)].status \in Group!TerminalStatus
                              \/ Group!Oldest(hnd'[k].todo) \in trail' \cup revived'
      OBVIOUS
    <2>1. hnd'[k].pc # "idle" => hnd'[k].origin \in Group!Rollouts
      BY DEF AtWork
    <2>2. hnd'[k].pc \in {"publish", "revert"} => Group!Oldest(hnd'[k].todo) \in Group!Rollouts
      <3>1. hnd'[k].pc \in {"publish", "revert"} => hnd'[k].todo \subseteq Group!Rollouts /\ hnd'[k].todo # {}
        BY DEF AtWork
      <3> QED
        BY <3>1, OldestIsOne
    <2>3. status = "rolled_back" => rows'[r].status \in Group!TerminalStatus
      BY <1>1 DEF Group!TerminalStatus
    <2> QED
      BY <1>3, <2>1, <2>2, <2>3
  <1>6. BlamedAreOver'
    BY <1>3, <1>4, <1>5 DEF BlamedAreOver, Over, Group!Current
  <1>7. Rooted'
    <2>1. \A y, x \in Group!Rollouts : Blames(y, x)' => Blames(y, x)
      BY <1>1 DEF Blames, Group!Current
    <2> QED
      BY <1>0, <1>1, <2>1, RootsStay
  <1> QED
    BY <1>2, <1>6, <1>7 DEF GroupInv

\* The handlers of a step that is not theirs.
LEMMA OthersWrite ==
    ASSUME GroupInv, NEW r \in Group!Rollouts, NEW status \in Group!LiveStatus \cup Group!TerminalStatus,
           NEW reason \in Reason,
           \/ Group!WriteRolledBack(r, reason) /\ status = "rolled_back"
           \/ Group!WriteStatus(r, status, reason),
           reason \in Group!Rollouts => reason = rows[r].reason,
           UNCHANGED <<policy, mail, hnd, trail>>,
           engine' \in [Group!Rollouts -> {"waiting", "driving", "publish", "done"}],
           requests' \in [GroupCallers -> RequestType],
           \A c \in GroupCallers :
               requests'[c].pc # "idle" => requests'[c].target \in Group!Rollouts /\ requests'[c].op \in Group!Control
    PROVE  GroupInv'
  <1>1. hnd' \in [Handlers -> HandlerType]
    BY DEF GroupInv, GroupTyped
  <1>2. AtWork'
    BY DEF GroupInv, AtWork
  <1>3. \A k \in Handlers : /\ hnd'[k].pc # "idle" => Over(hnd'[k].origin)
                            /\ hnd'[k].pc \in {"publish", "revert"} => Over(Group!Oldest(hnd'[k].todo))
                            /\ hnd'[k].pc = "write" => hnd'[k] = hnd[k]
    BY DEF GroupInv, BlamedAreOver, Group!Current
  <1>4. reason \in Group!Rollouts => Blames(r, reason)
    BY DEF Blames
  <1> QED
    BY <1>1, <1>2, <1>3, <1>4, RowWrites

\* A step that writes no row, and whose mail is of a rollout that is over.
LEMMA NothingWritten ==
    ASSUME GroupInv, UNCHANGED <<rows, hnd, Group!history>>, trail \subseteq trail', trail' \subseteq Group!Rollouts,
           engine' \in [Group!Rollouts -> {"waiting", "driving", "publish", "done"}],
           policy' \in [Groups -> Group!Policy],
           mail' \in [Group!Rollouts -> Nat], \A r \in Group!Rollouts : mail'[r] > 0 => Over(r) \/ r \in trail',
           requests' \in [GroupCallers -> RequestType],
           \A c \in GroupCallers :
               requests'[c].pc # "idle" => requests'[c].target \in Group!Rollouts /\ requests'[c].op \in Group!Control
    PROVE  GroupInv'
  <1>0. GroupTyped /\ AtWork /\ BlamedAreOver /\ Rooted
    BY DEF GroupInv
  <1>1. GroupTyped'
    BY <1>0 DEF GroupTyped, Group!history
  <1>2. AtWork'
    BY <1>0 DEF AtWork
  <1>3. BlamedAreOver'
    BY <1>0 DEF BlamedAreOver, Over, Group!Current, Group!history
  <1>4. Rooted'
    <2>1. \A r, x \in Group!Rollouts : Blames(r, x)' => Blames(r, x)
      BY DEF Blames, Group!Current
    <2> QED
      BY <1>0, <2>1, RootsStay DEF Group!history
  <1> QED
    BY <1>1, <1>2, <1>3, <1>4 DEF GroupInv

-----------------------------------------------------------------------------
(* The steps.                                                               *)

\* The engine and the requests as they are.
LEMMA Typings ==
    ASSUME GroupInv
    PROVE  /\ engine \in [Group!Rollouts -> {"waiting", "driving", "publish", "done"}]
           /\ policy \in [Groups -> Group!Policy] /\ mail \in [Group!Rollouts -> Nat]
           /\ requests \in [GroupCallers -> RequestType] /\ trail \subseteq Group!Rollouts
           /\ \A c \in GroupCallers :
               requests[c].pc # "idle" => requests[c].target \in Group!Rollouts /\ requests[c].op \in Group!Control
           /\ \A r \in Group!Rollouts : rows[r].reason \in Reason /\ rows[r] \in RowType
           /\ \A r \in Group!Rollouts : mail[r] > 0 => Over(r)
  BY DEF GroupInv, GroupTyped, AtWork, BlamedAreOver, RowType

LEMMA EngineKeeps ==
    ASSUME GroupInv, NEW r \in Group!Rollouts, Group!EngineStep(r) \/ Group!EngineCrash(r)
    PROVE  GroupInv'
  <1>1. CASE Group!EngineStart(r) /\ rows[r].status \in Group!TerminalStatus
    <2>1. engine' = [engine EXCEPT ![r] = "done"] /\ UNCHANGED <<rows, Group!history>>
      BY <1>1 DEF Group!EngineStart
    <2> QED
      BY <1>1, <2>1, Typings, NothingWritten DEF Group!EngineStart
  <1>2. CASE Group!EngineStart(r) /\ rows[r].status \notin Group!TerminalStatus
    <2>1. engine' = [engine EXCEPT ![r] = "driving"] /\ Group!WriteStatus(r, "active", rows[r].reason)
      BY <1>2 DEF Group!EngineStart
    <2>2. engine' \in [Group!Rollouts -> {"waiting", "driving", "publish", "done"}]
      BY <2>1, Typings
    <2>3. "active" \in Group!LiveStatus \cup Group!TerminalStatus /\ rows[r].reason \in Reason
      BY Typings DEF Group!LiveStatus
    <2> QED
      BY <1>2, <2>1, <2>2, <2>3, Typings, OthersWrite DEF Group!EngineStart
  <1>3. CASE Group!EngineSucceeds(r)
    <2>1. engine' \in [Group!Rollouts -> {"waiting", "driving", "publish", "done"}]
      BY <1>3, Typings DEF Group!EngineSucceeds
    <2>2. "succeeded" \in Group!LiveStatus \cup Group!TerminalStatus /\ rows[r].reason \in Reason
      BY Typings DEF Group!TerminalStatus
    <2> QED
      BY <1>3, <2>1, <2>2, Typings, OthersWrite DEF Group!EngineSucceeds
  <1>4. CASE Group!EngineRollsBack(r)
    <2>1. engine' \in [Group!Rollouts -> {"waiting", "driving", "publish", "done"}]
      BY <1>4, Typings DEF Group!EngineRollsBack
    <2>2. CASE Group!WriteRolledBack(r, "engine")
      <3>1. "rolled_back" \in Group!LiveStatus \cup Group!TerminalStatus /\ "engine" \in Reason /\ "engine" \notin Group!Rollouts
        BY GroupAssumption DEF Group!GroupConstants, Group!TerminalStatus, Reason
      <3> QED
        BY <1>4, <2>1, <2>2, <3>1, Typings, OthersWrite DEF Group!EngineRollsBack
    <2>3. CASE UNCHANGED <<rows, Group!history>>
      BY <1>4, <2>1, <2>3, Typings, NothingWritten DEF Group!EngineRollsBack
    <2> QED
      BY <1>4, <2>2, <2>3 DEF Group!EngineRollsBack
  <1>5. CASE Group!EnginePublishes(r)
    <2>1. engine' \in [Group!Rollouts -> {"waiting", "driving", "publish", "done"}]
      BY <1>5, Typings DEF Group!EnginePublishes
    <2>2. mail' \in [Group!Rollouts -> Nat] /\ \A x \in Group!Rollouts : mail'[x] > 0 => Over(x) \/ x \in trail'
      <3>1. mail' = [mail EXCEPT ![r] = mail[r] + 1] /\ mail[r] + 1 \in Nat /\ r \in trail'
        BY <1>5, Typings DEF Group!EnginePublishes, Group!Publish
      <3> QED
        BY <3>1, Typings
    <2>3. trail \subseteq trail' /\ trail' \subseteq Group!Rollouts
      BY <1>5, Typings DEF Group!EnginePublishes
    <2> QED
      BY <1>5, <2>1, <2>2, <2>3, Typings, NothingWritten DEF Group!EnginePublishes, Group!history
  <1>6. CASE Group!EngineCrash(r)
    <2>1. engine' \in [Group!Rollouts -> {"waiting", "driving", "publish", "done"}]
      BY <1>6, Typings DEF Group!EngineCrash
    <2> QED
      BY <1>6, <2>1, Typings, NothingWritten DEF Group!EngineCrash, Group!history
  <1> QED
    BY <1>1, <1>2, <1>3, <1>4, <1>5, <1>6 DEF Group!EngineStep

LEMMA WriteKeeps == ASSUME GroupInv, NEW h \in Handlers, Group!WriteSibling(h) PROVE GroupInv'
  <1>0. hnd \in [Handlers -> HandlerType] /\ hnd[h] \in HandlerType /\ AtWork /\ BlamedAreOver
    BY DEF GroupInv, GroupTyped
  <1>1. PICK s : s = Group!Current(h)
    OBVIOUS
  <1>2. PICK o : o = hnd[h].origin
    OBVIOUS
  <1>3. s \in Group!Rollouts /\ o \in Group!Rollouts /\ Blames(s, o) /\ hnd[h].pc = "write"
    BY <1>1, <1>2, CurrentIsOne DEF Group!WriteSibling, GroupInv, Blames
  <1>4. o \in Reason /\ "rolled_back" \in Group!LiveStatus \cup Group!TerminalStatus
        /\ "paused" \in Group!LiveStatus \cup Group!TerminalStatus
    BY <1>3 DEF Reason, Group!LiveStatus, Group!TerminalStatus
  <1>5. PICK new \in HandlerType :
          /\ hnd' = [hnd EXCEPT ![h] = new]
          /\ new.pc # "idle" => new.origin = o /\ new.group = hnd[h].group
          /\ new.pc # "idle" => new.todo # {} /\ new.todo \subseteq hnd[h].todo
          /\ new.pc \in {"idle", "publish", "check"}
          /\ new.pc = "publish" => new.todo = hnd[h].todo /\ Group!WriteRolledBack(s, o)
    <2>1. CASE hnd[h].policy = "cascade_abort"
      <3>1. PICK new : new = [hnd[h] EXCEPT !.pc = "publish"]
        OBVIOUS
      <3>2. /\ new \in HandlerType /\ new.pc = "publish" /\ new.origin = hnd[h].origin
            /\ new.group = hnd[h].group /\ new.todo = hnd[h].todo
        BY <1>0, <3>1 DEF HandlerType
      <3>3. hnd' = [hnd EXCEPT ![h] = new] /\ Group!WriteRolledBack(s, o)
        BY <1>0, <1>1, <1>2, <2>1, <3>1 DEF Group!WriteSibling
      <3>4. new.todo # {}
        BY <1>0, <1>3, <3>2 DEF AtWork
      <3> QED
        BY <1>2, <3>2, <3>3, <3>4
    <2>2. CASE hnd[h].policy # "cascade_abort" /\ hnd[h].todo \ {s} = {}
      <3>1. hnd' = [hnd EXCEPT ![h] = Group!IdleHandler]
        BY <1>1, <2>2 DEF Group!WriteSibling, Group!NextSibling, Group!Return
      <3>2. Group!IdleHandler \in HandlerType /\ Group!IdleHandler.pc = "idle"
        BY DEF Group!IdleHandler, HandlerType, Group!Policy
      <3> QED
        BY <3>1, <3>2
    <2>3. CASE hnd[h].policy # "cascade_abort" /\ hnd[h].todo \ {s} # {}
      <3>1. PICK rest : rest = hnd[h].todo \ {s}
        OBVIOUS
      <3>2. PICK new : new = [hnd[h] EXCEPT !.pc = "check", !.todo = rest]
        OBVIOUS
      <3>3. /\ new \in HandlerType /\ new.pc = "check" /\ new.origin = hnd[h].origin
            /\ new.group = hnd[h].group /\ new.todo = rest
        BY <1>0, <3>1, <3>2 DEF HandlerType
      <3>4. hnd' = [hnd EXCEPT ![h] = new]
        BY <1>0, <1>1, <2>3, <3>1, <3>2 DEF Group!WriteSibling, Group!NextSibling
      <3> QED
        BY <1>2, <2>3, <3>1, <3>3, <3>4
    <2> QED
      BY <2>1, <2>2, <2>3
  <1>6. hnd' \in [Handlers -> HandlerType] /\ hnd'[h] = new /\ \A k \in Handlers \ {h} : hnd'[k] = hnd[k]
    BY <1>0, <1>5
  <1>7. AtWork'
    <2>1. ASSUME NEW k \in Handlers
          PROVE  /\ hnd'[k].pc # "idle" => hnd'[k].origin \in Group!Rollouts
                 /\ hnd'[k].pc \in {"policy", "list", "check", "write", "publish", "revert"} => hnd'[k].group \in Groups
                 /\ hnd'[k].pc \in {"check", "write", "publish", "revert"} =>
                        hnd'[k].todo # {} /\ hnd'[k].todo \subseteq Group!Rollouts \ {hnd'[k].origin}
      <3>1. CASE k = h
        BY <1>0, <1>2, <1>3, <1>5, <1>6, <3>1 DEF AtWork
      <3>2. CASE k # h
        BY <1>0, <1>6, <3>2 DEF AtWork
      <3> QED
        BY <3>1, <3>2
    <2>2. requests' = requests
      BY DEF Group!WriteSibling
    <2> QED
      BY <1>0, <2>1, <2>2 DEF AtWork
  <1>8. ASSUME NEW k \in Handlers
        PROVE  /\ hnd'[k].pc # "idle" => Over(hnd'[k].origin)
               /\ hnd'[k].pc \in {"publish", "revert"} =>
                      \/ Over(Group!Oldest(hnd'[k].todo))
                      \/ Group!Oldest(hnd'[k].todo) = s /\ Group!WriteRolledBack(s, o)
               /\ hnd'[k].pc = "write" => hnd'[k] = hnd[k]
    <2>1. CASE k = h
      BY <1>0, <1>1, <1>2, <1>3, <1>5, <1>6, <2>1 DEF BlamedAreOver, Group!Current
    <2>2. CASE k # h
      BY <1>0, <1>6, <2>2 DEF BlamedAreOver, Group!Current
    <2> QED
      BY <2>1, <2>2
  <1>9. /\ UNCHANGED <<policy, mail, trail>> /\ engine' = engine /\ requests' = requests
    BY DEF Group!WriteSibling
  <1>10. Group!WriteRolledBack(s, o) \/ Group!WriteStatus(s, "paused", o)
    BY <1>1, <1>2 DEF Group!WriteSibling
  <1>11. CASE Group!WriteRolledBack(s, o)
    BY <1>3, <1>4, <1>6, <1>7, <1>8, <1>9, <1>11, Typings, RowWrites
  <1>12. CASE ~Group!WriteRolledBack(s, o)
    BY <1>3, <1>4, <1>6, <1>7, <1>8, <1>9, <1>10, <1>12, Typings, RowWrites
  <1> QED
    BY <1>11, <1>12

LEMMA RequestKeeps ==
    ASSUME GroupInv, NEW c \in GroupCallers,
           (\E r \in Group!Rollouts, op \in GroupControls : Group!Request(c, r, op)) \/ Group!RequestStep(c)
    PROVE  GroupInv'
  <1>0. Group!IdleRequest \in RequestType /\ Group!IdleRequest.pc = "idle"
    BY DEF Group!IdleRequest, RequestType
  <1>1. ASSUME NEW r \in Group!Rollouts, NEW op \in GroupControls, Group!Request(c, r, op) PROVE GroupInv'
    <2>1. op \in Group!Control
      BY GroupAssumption DEF Group!GroupConstants
    <2>2. requests' = [requests EXCEPT ![c] = [pc |-> "write", target |-> r, op |-> op]]
      BY <1>1 DEF Group!Request
    <2>3. /\ requests' \in [GroupCallers -> RequestType]
          /\ \A k \in GroupCallers :
              requests'[k].pc # "idle" => requests'[k].target \in Group!Rollouts /\ requests'[k].op \in Group!Control
      BY <2>1, <2>2, Typings DEF RequestType
    <2> QED
      BY <1>1, <2>3, Typings, NothingWritten DEF Group!Request, Group!history
  <1>2. CASE Group!WriteRequest(c)
    <2>1. PICK r : r = requests[c].target
      OBVIOUS
    <2>2. r \in Group!Rollouts /\ requests[c] \in RequestType /\ requests[c].op \in Group!Control
      BY <1>2, <2>1, Typings DEF Group!WriteRequest
    <2>3. CASE requests[c].op = "rollback"
      <3>1. Group!WriteRolledBack(r, "operator") /\ requests' = [requests EXCEPT ![c].pc = "publish"]
        BY <1>2, <2>1, <2>3 DEF Group!WriteRequest
      <3>2. PICK new : new = [requests[c] EXCEPT !.pc = "publish"]
        OBVIOUS
      <3>3. new \in RequestType /\ new.target = requests[c].target /\ new.op = requests[c].op
        BY <2>2, <3>2 DEF RequestType
      <3>4. requests' = [requests EXCEPT ![c] = new]
        BY <3>1, <3>2
      <3>5. /\ requests' \in [GroupCallers -> RequestType]
            /\ \A k \in GroupCallers :
                requests'[k].pc # "idle" => requests'[k].target \in Group!Rollouts /\ requests'[k].op \in Group!Control
        BY <2>1, <2>2, <3>3, <3>4, Typings
      <3>6. "rolled_back" \in Group!LiveStatus \cup Group!TerminalStatus /\ "operator" \in Reason /\ "operator" \notin Group!Rollouts
        BY GroupAssumption DEF Group!GroupConstants, Group!TerminalStatus, Reason
      <3> QED
        BY <1>2, <2>2, <3>1, <3>5, <3>6, Typings, OthersWrite DEF Group!WriteRequest
    <2>4. CASE requests[c].op # "rollback"
      <3>1. PICK reason \in {rows[r].reason, "operator"} :
              Group!WriteStatus(r, IF requests[c].op = "pause" THEN "paused" ELSE "active", reason)
        BY <1>2, <2>1, <2>4 DEF Group!WriteRequest
      <3>2. PICK status : status = IF requests[c].op = "pause" THEN "paused" ELSE "active"
        OBVIOUS
      <3>3. /\ status \in Group!LiveStatus \cup Group!TerminalStatus /\ reason \in Reason
            /\ reason \in Group!Rollouts => reason = rows[r].reason
        BY <2>2, <3>1, <3>2, Typings, GroupAssumption DEF Group!GroupConstants, Group!LiveStatus, Reason
      <3>4. requests' = [requests EXCEPT ![c] = Group!IdleRequest]
        BY <1>2, <2>4 DEF Group!WriteRequest
      <3>5. /\ requests' \in [GroupCallers -> RequestType]
            /\ \A k \in GroupCallers :
                requests'[k].pc # "idle" => requests'[k].target \in Group!Rollouts /\ requests'[k].op \in Group!Control
        BY <1>0, <3>4, Typings
      <3>6. Group!WriteStatus(r, status, reason)
        BY <3>1, <3>2
      <3> QED
        BY <1>2, <2>2, <3>3, <3>5, <3>6, Typings, OthersWrite DEF Group!WriteRequest
    <2> QED
      BY <2>3, <2>4
  <1>3. CASE Group!PublishRequest(c)
    <2>1. PICK r : r = requests[c].target
      OBVIOUS
    <2>2. r \in Group!Rollouts
      BY <1>3, <2>1, Typings DEF Group!PublishRequest
    <2>3. requests' = [requests EXCEPT ![c] = Group!IdleRequest] /\ trail' = trail \cup {r} /\ Group!Publish(r)
      BY <1>3, <2>1 DEF Group!PublishRequest
    <2>4. mail' \in [Group!Rollouts -> Nat] /\ \A x \in Group!Rollouts : mail'[x] > 0 => Over(x) \/ x \in trail'
      <3>1. mail' = [mail EXCEPT ![r] = mail[r] + 1] /\ mail[r] + 1 \in Nat /\ r \in trail'
        BY <2>2, <2>3, Typings DEF Group!Publish
      <3> QED
        BY <3>1, Typings
    <2>5. trail \subseteq trail' /\ trail' \subseteq Group!Rollouts
      BY <2>2, <2>3, Typings
    <2>6. /\ requests' \in [GroupCallers -> RequestType]
          /\ \A k \in GroupCallers :
              requests'[k].pc # "idle" => requests'[k].target \in Group!Rollouts /\ requests'[k].op \in Group!Control
      BY <1>0, <2>3, Typings
    <2> QED
      BY <1>3, <2>4, <2>5, <2>6, Typings, NothingWritten DEF Group!PublishRequest, Group!history
  <1> QED
    BY <1>1, <1>2, <1>3 DEF Group!RequestStep

\* A rollout's group says nothing about the others' reasons.
LEMMA AttachKeeps ==
    ASSUME GroupInv, NEW r \in Group!Rollouts, NEW g \in Groups, Group!Attach(r, g)
    PROVE  GroupInv'
  <1>0. GroupTyped /\ rows \in [Group!Rollouts -> RowType] /\ rows[r] \in RowType
    BY DEF GroupInv, GroupTyped
  <1>1. PICK new : new = [rows[r] EXCEPT !.group = g]
    OBVIOUS
  <1>2. new \in RowType /\ new.status = rows[r].status /\ new.reason = rows[r].reason
    BY <1>0, <1>1 DEF RowType
  <1>3. rows' = [rows EXCEPT ![r] = new]
    BY <1>1 DEF Group!Attach
  <1>4. /\ rows' \in [Group!Rollouts -> RowType]
        /\ \A x \in Group!Rollouts : rows'[x].status = rows[x].status /\ rows'[x].reason = rows[x].reason
    BY <1>0, <1>2, <1>3
  <1>5. UNCHANGED <<engine, policy, mail, hnd, requests, trail, Group!history>>
    BY DEF Group!Attach, Group!history
  <1>6. GroupTyped'
    BY <1>0, <1>4, <1>5 DEF GroupTyped, Group!history
  <1>7. AtWork'
    BY <1>5 DEF GroupInv, AtWork
  <1>8. \A x \in Group!Rollouts : Over(x) <=> Over(x)'
    BY <1>4, <1>5 DEF Over, Group!history
  <1>9. BlamedAreOver'
    <2>1. \A k \in Handlers : /\ hnd[k].pc # "idle" => hnd[k].origin \in Group!Rollouts
                              /\ hnd[k].pc \in {"publish", "revert"} => Group!Oldest(hnd[k].todo) \in Group!Rollouts
      BY <1>0, CurrentIsOne DEF GroupInv, AtWork, Group!Current
    <2> QED
      BY <1>4, <1>5, <2>1 DEF GroupInv, BlamedAreOver, Over, Group!Current, Group!history
  <1>10. Rooted'
    <2>1. \A y, x \in Group!Rollouts : Blames(y, x)' => Blames(y, x)
      BY <1>4, <1>5 DEF Blames, Group!Current
    <2> QED
      BY <1>5, <2>1, RootsStay DEF GroupInv, Group!history
  <1> QED
    BY <1>6, <1>7, <1>9, <1>10 DEF GroupInv

LEMMA PolicyKeeps ==
    ASSUME GroupInv, NEW g \in Groups, NEW p \in Group!Policy, Group!UpdatePolicy(g, p)
    PROVE  GroupInv'
  <1>1. policy' \in [Groups -> Group!Policy]
    BY Typings DEF Group!UpdatePolicy
  <1> QED
    BY <1>1, Typings, NothingWritten DEF Group!UpdatePolicy, Group!history

LEMMA GroupBegins == Group!Init => GroupInv
  <1> SUFFICES ASSUME Group!Init PROVE GroupInv
    OBVIOUS
  <1>1. rows \in [Group!Rollouts -> RowType] /\ \A r \in Group!Rollouts : rows[r].reason = "none"
    BY DEF Group!Init, RowType, Group!LiveStatus, Group!TerminalStatus, Reason
  <1>2. engine \in [Group!Rollouts -> {"waiting", "driving", "publish", "done"}]
    <2>1. \A r \in Group!Rollouts : rows[r].status \in {"pending", "active", "succeeded"}
      BY DEF Group!Init
    <2> QED
      BY <2>1 DEF Group!Init
  <1>3. Group!IdleHandler \in HandlerType /\ Group!IdleHandler.pc = "idle"
    BY DEF Group!IdleHandler, HandlerType, Group!Policy
  <1>4. Group!IdleRequest \in RequestType /\ Group!IdleRequest.pc = "idle"
    BY DEF Group!IdleRequest, RequestType
  <1>5. GroupTyped
    BY <1>1, <1>2, <1>3, <1>4 DEF Group!Init, GroupTyped
  <1>6. AtWork
    BY <1>3, <1>4 DEF Group!Init, AtWork
  <1>7. "none" \notin Group!Rollouts
    BY GroupAssumption DEF Group!GroupConstants
  <1>8. BlamedAreOver
    BY <1>1, <1>3, <1>7 DEF Group!Init, BlamedAreOver
  <1>9. \A r, x \in Group!Rollouts : ~Blames(r, x)
    BY <1>1, <1>3, <1>7 DEF Group!Init, Blames
  <1>10. Rooted
    BY <1>9 DEF Rooted
  <1> QED
    BY <1>5, <1>6, <1>8, <1>10 DEF GroupInv

LEMMA GroupStep == GroupInv /\ [Group!Next]_Group!vars => GroupInv'
  <1> SUFFICES ASSUME GroupInv, [Group!Next]_Group!vars PROVE GroupInv'
    OBVIOUS
  <1>1. CASE UNCHANGED Group!vars
    BY <1>1, Typings, NothingWritten DEF Group!vars, Group!history
  <1>2. ASSUME NEW r \in Group!Rollouts, Group!EngineStep(r) \/ Group!EngineCrash(r) \/ \E g \in Groups : Group!Attach(r, g)
        PROVE  GroupInv'
    BY <1>2, EngineKeeps, AttachKeeps
  <1>3. ASSUME NEW h \in Handlers,
               \/ \E r \in Group!Rollouts : Group!Handle(h, r)
               \/ Group!HandlerStep(h) \/ Group!HandlerError(h) \/ Group!Redeliver(h) \/ Group!HandlerCrash(h)
        PROVE  GroupInv'
    BY <1>3, HandleKeeps, LookupKeeps, GetPolicyKeeps, ListKeeps, CheckKeeps, WriteKeeps,
       PublishKeeps, RevertKeeps, ErrorKeeps, RedeliverKeeps, CrashKeeps DEF Group!HandlerStep
  <1>4. ASSUME NEW c \in GroupCallers,
               (\E r \in Group!Rollouts, op \in GroupControls : Group!Request(c, r, op)) \/ Group!RequestStep(c)
        PROVE  GroupInv'
    BY <1>4, RequestKeeps
  <1> QED
    BY <1>1, <1>2, <1>3, <1>4, PolicyKeeps DEF Group!Next, Group!Finished

LEMMA GroupMeans == GroupInv => Group!TypeOK /\ Group!BlameIsRooted
  <1> SUFFICES ASSUME GroupInv PROVE Group!TypeOK /\ Group!BlameIsRooted
    OBVIOUS
  <1>1. Group!TypeOK
    BY DEF GroupInv, GroupTyped, AtWork, Group!TypeOK, RowType, Reason, HandlerType
  <1>2. ASSUME NEW S \in SUBSET Group!Rollouts, S # {}
        PROVE  \E r \in S : rows[r].reason \notin S \/ r \in trail \cup revived
    <2>1. CASE S \cap (trail \cup revived) # {}
      BY <2>1
    <2>2. CASE S \cap (trail \cup revived) = {}
      <3>1. S \in SUBSET (Group!Rollouts \ (trail \cup revived))
        BY <2>2
      <3>2. PICK r \in S : \A x \in S : ~Blames(r, x)
        BY <1>2, <3>1 DEF GroupInv, Rooted
      <3> QED
        BY <3>2 DEF Blames
    <2> QED
      BY <2>1, <2>2
  <1> QED
    BY <1>1, <1>2 DEF Group!BlameIsRooted

-----------------------------------------------------------------------------
(* The instances are instances of RolloutEngine.                           *)

LEMMA SingleAssumptions ==
    /\ SingleSteps \in Seq(SingleProofs!StepRecord) /\ SingleProofs!ValidateStrategy(SingleSteps)
    /\ Previous \in 0..100 /\ Previous <= SingleSteps[1].pct
    /\ \A s \in Signals : DOMAIN s = SingleProofs!Metric
    /\ {} \subseteq SingleProofs!Control
  <1>1. SingleProofs!ValidateStrategy(SingleSteps) <=> ValidateStrategy(SingleSteps)
    BY DEF SingleProofs!ValidateStrategy, ValidateStrategy, SingleProofs!Metric, Metric,
           SingleProofs!Operator, Operator
  <1>2. SingleProofs!StepRecord = StepRecord
    BY DEF SingleProofs!StepRecord, StepRecord, SingleProofs!Metric, Metric,
           SingleProofs!Operator, Operator
  <1> QED
    BY <1>1, <1>2, ScenarioAssumption, PreviousAssumption, SignalsAssumption
       DEF SingleProofs!Metric, Metric

LEMMA EndsAssumptions ==
    /\ EndsSteps \in Seq(EndsProofs!StepRecord) /\ EndsProofs!ValidateStrategy(EndsSteps)
    /\ Previous \in 0..100 /\ Previous <= EndsSteps[1].pct
    /\ \A s \in Signals : DOMAIN s = EndsProofs!Metric
    /\ {} \subseteq EndsProofs!Control
  <1>1. EndsProofs!ValidateStrategy(EndsSteps) <=> ValidateStrategy(EndsSteps)
    BY DEF EndsProofs!ValidateStrategy, ValidateStrategy, EndsProofs!Metric, Metric,
           EndsProofs!Operator, Operator
  <1>2. EndsProofs!StepRecord = StepRecord
    BY DEF EndsProofs!StepRecord, StepRecord, EndsProofs!Metric, Metric,
           EndsProofs!Operator, Operator
  <1> QED
    BY <1>1, <1>2, ScenarioAssumption, PreviousAssumption, SignalsAssumption
       DEF EndsProofs!Metric, Metric

LEMMA SameInit == (Single!Init <=> SingleProofs!Init) /\ (Pair!Init <=> EndsProofs!Init)
  BY DEF Single!Init, SingleProofs!Init, Single!IdleDriver, SingleProofs!IdleDriver,
         Pair!Init, EndsProofs!Init, Pair!IdleDriver, EndsProofs!IdleDriver

\* Both instantiate the same definitions; expanded, they are the same formula.
LEMMA SameNextSingle == Single!Next <=> SingleProofs!Next
  BY DEF Single!TerminalStatus, SingleProofs!TerminalStatus, Single!RolloutStatus,
         SingleProofs!RolloutStatus, Single!IdleDriver, SingleProofs!IdleDriver,
         Single!Deliver, SingleProofs!Deliver, Single!Handle, SingleProofs!Handle,
         Single!Exit, SingleProofs!Exit, Single!Goto, SingleProofs!Goto,
         Single!CallFails, SingleProofs!CallFails, Single!WriteRollout,
         SingleProofs!WriteRollout, Single!WritePhase, SingleProofs!WritePhase,
         Single!GetRollout, SingleProofs!GetRollout, Single!EnsurePhasesExist,
         SingleProofs!EnsurePhasesExist, Single!BulkInsertPhases,
         SingleProofs!BulkInsertPhases, Single!SetActive, SingleProofs!SetActive,
         Single!NextPhase, SingleProofs!NextPhase, Single!StartPhase,
         SingleProofs!StartPhase, Single!ListPhases, SingleProofs!ListPhases,
         Single!Apply, SingleProofs!Apply, Single!EnterPhase, SingleProofs!EnterPhase,
         Single!PointPhase, SingleProofs!PointPhase, Single!compare,
         SingleProofs!compare, Single!EvaluateAbortConditions,
         SingleProofs!EvaluateAbortConditions, Single!EffectiveHealthThreshold,
         SingleProofs!EffectiveHealthThreshold, Single!Horizon, SingleProofs!Horizon,
         Single!Later, SingleProofs!Later, Single!HealthySince,
         SingleProofs!HealthySince, Single!Verdict, SingleProofs!Verdict,
         Single!AwaitApproval, SingleProofs!AwaitApproval, Single!Poll,
         SingleProofs!Poll, Single!PollFails, SingleProofs!PollFails, Single!PassPhase,
         SingleProofs!PassPhase, Single!FailPhase, SingleProofs!FailPhase,
         Single!Rollback, SingleProofs!Rollback, Single!Revert, SingleProofs!Revert,
         Single!MarkCompleted, SingleProofs!MarkCompleted, Single!DriveError,
         SingleProofs!DriveError, Single!DriveStep, SingleProofs!DriveStep,
         Single!Crash, SingleProofs!Crash, Single!Next, SingleProofs!Next,
         Single!Metric, SingleProofs!Metric, Single!NoOverride, SingleProofs!NoOverride,
         Single!Max, SingleProofs!Max, Single!Min, SingleProofs!Min

LEMMA SameNextEnds == Pair!Next <=> EndsProofs!Next
  BY DEF Pair!TerminalStatus, EndsProofs!TerminalStatus, Pair!RolloutStatus,
         EndsProofs!RolloutStatus, Pair!IdleDriver, EndsProofs!IdleDriver, Pair!Deliver,
         EndsProofs!Deliver, Pair!Handle, EndsProofs!Handle, Pair!Exit, EndsProofs!Exit,
         Pair!Goto, EndsProofs!Goto, Pair!CallFails, EndsProofs!CallFails,
         Pair!WriteRollout, EndsProofs!WriteRollout, Pair!WritePhase,
         EndsProofs!WritePhase, Pair!GetRollout, EndsProofs!GetRollout,
         Pair!EnsurePhasesExist, EndsProofs!EnsurePhasesExist, Pair!BulkInsertPhases,
         EndsProofs!BulkInsertPhases, Pair!SetActive, EndsProofs!SetActive,
         Pair!NextPhase, EndsProofs!NextPhase, Pair!StartPhase, EndsProofs!StartPhase,
         Pair!ListPhases, EndsProofs!ListPhases, Pair!Apply, EndsProofs!Apply,
         Pair!EnterPhase, EndsProofs!EnterPhase, Pair!PointPhase, EndsProofs!PointPhase,
         Pair!compare, EndsProofs!compare, Pair!EvaluateAbortConditions,
         EndsProofs!EvaluateAbortConditions, Pair!EffectiveHealthThreshold,
         EndsProofs!EffectiveHealthThreshold, Pair!Horizon, EndsProofs!Horizon,
         Pair!Later, EndsProofs!Later, Pair!HealthySince, EndsProofs!HealthySince,
         Pair!Verdict, EndsProofs!Verdict, Pair!AwaitApproval, EndsProofs!AwaitApproval,
         Pair!Poll, EndsProofs!Poll, Pair!PollFails, EndsProofs!PollFails,
         Pair!PassPhase, EndsProofs!PassPhase, Pair!FailPhase, EndsProofs!FailPhase,
         Pair!Rollback, EndsProofs!Rollback, Pair!Revert, EndsProofs!Revert,
         Pair!MarkCompleted, EndsProofs!MarkCompleted, Pair!DriveError,
         EndsProofs!DriveError, Pair!DriveStep, EndsProofs!DriveStep, Pair!Crash,
         EndsProofs!Crash, Pair!Next, EndsProofs!Next, Pair!Metric, EndsProofs!Metric,
         Pair!NoOverride, EndsProofs!NoOverride, Pair!Max, EndsProofs!Max, Pair!Min,
         EndsProofs!Min

-----------------------------------------------------------------------------
(* The invariants of the situations.                                       *)

LEMMA SoleSituation == SingleProofs!Sole
  BY DEF SingleProofs!Sole

LEMMA InitSituation == ScenarioInit => SituationInv
  <1>1. SingleProofs!Init => SingleProofs!TypeInv
    BY SingleAssumptions, SingleProofs!InitTypeInv
  <1>2. SingleProofs!Init => SingleProofs!SoleInv
    BY SingleAssumptions, SingleProofs!InitSole
  <1>3. Init => TypeInv /\ CauseInv
    BY InitTypeInv, InitCauseInv
  <1>4. EndsProofs!Init => EndsProofs!TypeInv
    BY EndsAssumptions, EndsProofs!InitTypeInv
  <1> QED
    BY <1>1, <1>2, <1>3, <1>4, SameInit DEF ScenarioInit, SituationInv

LEMMA NextSituation ==
    ASSUME OneReplica, SituationInv, [ScenarioNext]_allVars
    PROVE  SituationInv'
  <1>1. scenario' = scenario
    BY DEF ScenarioNext, allVars
  <1>2. CASE scenario = "single"
    <2>1. [SingleProofs!Next]_SingleProofs!vars
      BY <1>2, SameNextSingle DEF ScenarioNext, allVars, vars, SingleProofs!vars
    <2>2. SingleProofs!TypeInv'
      BY <1>2, <2>1, SingleAssumptions, SingleProofs!NextTyped DEF SituationInv
    <2>3. SingleProofs!SoleInv'
      BY <1>2, <2>1, <2>2, SingleAssumptions, SoleSituation, SingleProofs!NextKeepsSole
         DEF SituationInv
    <2> QED
      BY <1>1, <1>2, <2>2, <2>3 DEF SituationInv
  <1>3. CASE scenario = "controls"
    <2>1. [Next]_vars
      BY <1>3 DEF ScenarioNext, allVars
    <2>2. TypeInv' /\ CauseInv'
      BY <1>3, <2>1, NextTyped, NextKeepsCause DEF SituationInv
    <2> QED
      BY <1>1, <1>3, <2>2 DEF SituationInv
  <1>4. CASE scenario = "ends"
    <2>1. [EndsProofs!Next]_EndsProofs!vars
      BY <1>4, SameNextEnds DEF ScenarioNext, allVars, vars, EndsProofs!vars
    <2>2. EndsProofs!TypeInv'
      BY <1>4, <2>1, EndsAssumptions, EndsProofs!NextTyped DEF SituationInv
    <2> QED
      BY <1>1, <1>4, <2>2 DEF SituationInv
  <1>5. CASE scenario \in {"cascade", "edits", "pause"}
    BY <1>1, <1>5 DEF SituationInv
  <1> QED
    BY <1>2, <1>3, <1>4, <1>5 DEF SituationInv

LEMMA SpecSituation == ASSUME OneReplica PROVE Scenarios => []SituationInv
  BY InitSituation, NextSituation, PTL DEF Scenarios

LEMMA SameSingleOutcomes ==
    /\ Single!TypeOK <=> SingleProofs!TypeOK
    /\ Single!SucceededMeansFullyOut <=> SingleProofs!SucceededMeansFullyOut
    /\ Single!RolledBackIsReverted <=> SingleProofs!RolledBackIsReverted
  BY DEF Single!TypeOK, SingleProofs!TypeOK, Single!DriverPc, SingleProofs!DriverPc,
         Single!RolloutStatus, SingleProofs!RolloutStatus, Single!TerminalStatus,
         SingleProofs!TerminalStatus, Single!PhaseStatus, SingleProofs!PhaseStatus,
         Single!Horizon, SingleProofs!Horizon, Single!Max, SingleProofs!Max,
         Single!Control, SingleProofs!Control, Single!SucceededMeansFullyOut,
         SingleProofs!SucceededMeansFullyOut, Single!RolledBackIsReverted,
         SingleProofs!RolledBackIsReverted

LEMMA SameEndsTypeOK == Pair!TypeOK <=> EndsProofs!TypeOK
  BY DEF Pair!TypeOK, EndsProofs!TypeOK, Pair!DriverPc, EndsProofs!DriverPc,
         Pair!RolloutStatus, EndsProofs!RolloutStatus, Pair!TerminalStatus,
         EndsProofs!TerminalStatus, Pair!PhaseStatus, EndsProofs!PhaseStatus,
         Pair!Horizon, EndsProofs!Horizon, Pair!Max, EndsProofs!Max, Pair!Control,
         EndsProofs!Control

-----------------------------------------------------------------------------
(* Theorems.                                                               *)

\* OutcomesAreTrue: in each situation, for any strategies and signals.  One
\* replica that only crashes tells the truth about success and reverts what it
\* rolls back; under operators' controls a rolled back rollout has its cause stored,
\* is about to have it stored, or is one whose event or phase was lost to a failed
\* write or a crash (MarkCompleted, rollback, transition), when one replica drives.
THEOREM OutcomesAreAlwaysTrue == ASSUME OneReplica PROVE ScenarioSpec => []OutcomesAreTrue
  <1>1. SituationInv => OutcomesAreTrue
    <2> SUFFICES ASSUME SituationInv PROVE OutcomesAreTrue
      OBVIOUS
    <2>1. ASSUME scenario = "single"
          PROVE  /\ Single!TypeOK /\ Single!SucceededMeansFullyOut /\ Single!RolledBackIsReverted
      <3>1. SingleProofs!TypeInv /\ SingleProofs!SoleInv
        BY <2>1 DEF SituationInv
      <3>2. SingleProofs!TypeOK
        BY <3>1, SingleAssumptions, SingleProofs!TypeInvImplies
      <3>3. SingleProofs!SucceededMeansFullyOut /\ SingleProofs!RolledBackIsReverted
        BY <3>1, SingleAssumptions, SoleSituation, SingleProofs!SoleOutcomesHold
      <3> QED
        BY <3>2, <3>3, SameSingleOutcomes
    <2>2. ASSUME scenario = "controls" PROVE TypeOK /\ RollbackHasRecordedCause
      BY <2>2, TypeInvImplies, CauseIsRecorded DEF SituationInv
    <2>3. ASSUME scenario = "ends" PROVE Pair!TypeOK
      BY <2>3, EndsAssumptions, EndsProofs!TypeInvImplies, SameEndsTypeOK DEF SituationInv
    <2> QED
      BY <2>1, <2>2, <2>3 DEF OutcomesAreTrue
  <1> QED
    BY <1>1, SpecSituation, PTL DEF ScenarioSpec

\* EngineKeepsPromise: for any strategy and signals, one replica implements
\* RolloutPromise through its crashes and redelivered messages (DriveRollout,
\* runPhase, rollback).
THEOREM EngineAlwaysKeepsPromise == ASSUME OneReplica PROVE ScenarioSpec => EngineKeepsPromise
  <1>1. ScenarioInit => Promise!Init
    BY DEF ScenarioInit, Single!Init, Init, Pair!Init, Promise!Init, NoRollout,
           RolloutStatus, TerminalStatus
  <1>2. SituationInv /\ SituationInv' /\ [ScenarioNext]_allVars
          => [Promise!Next]_<<IF scenario = "single" THEN ro.status ELSE "pending",
                              IF scenario = "single" THEN pct ELSE Previous>>
    <2> SUFFICES ASSUME SituationInv, SituationInv', [ScenarioNext]_allVars, scenario = "single"
                 PROVE  [Promise!Next]_<<IF scenario = "single" THEN ro.status ELSE "pending",
                                         IF scenario = "single" THEN pct ELSE Previous>>
      BY DEF ScenarioNext, allVars
    <2>1. scenario' = scenario
      BY DEF ScenarioNext, allVars
    <2>2. [SingleProofs!Next]_SingleProofs!vars
      BY SameNextSingle DEF ScenarioNext, allVars, vars, SingleProofs!vars
    <2>3. [SingleProofs!Promised!Next]_<<ro.status, pct>>
      BY <2>1, <2>2, SingleAssumptions, SoleSituation, SingleProofs!StepKeepsPromise
         DEF SituationInv
    <2>4. CASE UNCHANGED <<ro.status, pct>>
      BY <2>1, <2>4
    <2>5. CASE SingleProofs!Promised!Next
      <3>1. Promise!Next
        BY <2>1, <2>5
           DEF Promise!Next, Promise!Expose, Promise!Move, Promise!Succeed, Promise!RollBack,
               Promise!Revert, SingleProofs!Promised!Next, SingleProofs!Promised!Expose,
               SingleProofs!Promised!Move, SingleProofs!Promised!Succeed,
               SingleProofs!Promised!RollBack, SingleProofs!Promised!Revert,
               SingleProofs!RolloutStatus, RolloutStatus,
               SingleProofs!TerminalStatus, TerminalStatus
      <3> QED
        BY <3>1
    <2> QED
      BY <2>3, <2>4, <2>5
  <1> QED
    BY <1>1, <1>2, SpecSituation, PTL DEF ScenarioSpec, Scenarios, EngineKeepsPromise, Promise!Spec

\* BlameHasARoot: whatever the number of rollouts, groups, handlers, requests, lost
\* calls and crashes, the reasons OnRollback and the controls write go back to a
\* rollback that was somebody's decision, unless a stale write woke one that had ended.
THEOREM BlameAlwaysHasARoot == GroupSpec => []BlameHasARoot
  <1>1. ScenarioInit => CascadeInv
    BY GroupBegins DEF ScenarioInit, CascadeInv
  <1>2. CascadeInv /\ [ScenarioNext]_allVars => CascadeInv'
    <2> SUFFICES ASSUME CascadeInv, [ScenarioNext]_allVars, scenario \in {"cascade", "edits", "pause"}
                 PROVE  GroupInv'
      BY DEF ScenarioNext, allVars, CascadeInv
    <2>1. [Group!Next]_Group!vars
      BY DEF ScenarioNext, allVars, groupVars, Group!vars, Group!history, Group!crashes
    <2> QED
      BY <2>1, GroupStep DEF CascadeInv
  <1>3. CascadeInv => BlameHasARoot
    BY GroupMeans DEF CascadeInv, BlameHasARoot
  <1> QED
    BY <1>1, <1>2, <1>3, PTL DEF GroupSpec, Scenarios

=============================================================================
