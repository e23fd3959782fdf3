------------------------------ MODULE Releases ------------------------------
(***************************************************************************)
(* One release and its flag changes (internal/releases,                    *)
(* internal/models/release.go, postgres/releases.go).  Every operation     *)
(* reads the row, checks it, and writes all of its columns back in a       *)
(* second statement; other requests come in between.  The announcement     *)
(* follows the write and its failure is ignored.                           *)
(***************************************************************************)
EXTENDS Integers, FiniteSets

CONSTANTS Clients, None,
          Percents,    \* traffic percentages that Promote is asked for
          Flags,       \* flags of flag changes
          MaxOps       \* bound: requests begun

VARIABLES row,       \* the release, None before its creation and after its deletion
          changes,   \* its flag changes
          told,      \* status of the last announcement
          cl,        \* the requests
          ops,       \* bound
          writes     \* ghost: writes of the row

vars == <<row, changes, told, cl, ops, writes>>

Status == {"draft", "rolling_out", "paused", "completed", "rolled_back"}
Ended == {"completed", "rolled_back"}

\* started and done stand for started_at and completed_at.
Release == [status : Status, pct : {0} \cup Percents, started : BOOLEAN, done : BOOLEAN]
ASSUME ReleaseAssumption == None \notin Release

Idle == [pc |-> "idle"]

Init ==
  /\ row = None /\ changes = {} /\ told = None /\ ops = 0 /\ writes = 0
  /\ cl = [c \in Clients |-> Idle]

releaseTransitions ==
  {<<"draft", "rolling_out">>, <<"rolling_out", "paused">>, <<"rolling_out", "completed">>,
   <<"rolling_out", "rolled_back">>, <<"paused", "rolling_out">>, <<"paused", "rolled_back">>}

CanBecome(r, s) == <<r.status, s>> \in releaseTransitions

-----------------------------------------------------------------------------
(* What an operation makes of the row it read; None when it refuses         *)

Start(r) ==
  IF CanBecome(r, "rolling_out") THEN [r EXCEPT !.status = "rolling_out", !.started = TRUE]
  ELSE None

\* A paused release goes on.
Promote(r, pct) ==
  IF r.status \in {"rolling_out", "paused"}
  THEN [r EXCEPT !.status = "rolling_out", !.pct = pct] ELSE None

Pause(r) == IF CanBecome(r, "paused") THEN [r EXCEPT !.status = "paused"] ELSE None

\* The traffic percentage stays.
Rollback(r) ==
  IF CanBecome(r, "rolled_back") THEN [r EXCEPT !.status = "rolled_back", !.done = TRUE]
  ELSE None

\* Mutant of Complete: completed_at is forgotten.
X_Complete(r) == IF CanBecome(r, "completed") THEN [r EXCEPT !.status = "completed"] ELSE None

Complete(r) ==
  IF CanBecome(r, "completed") THEN [r EXCEPT !.status = "completed", !.done = TRUE] ELSE None

-----------------------------------------------------------------------------
(* Handlers: the read and the check                                         *)

Begin(c, state) ==
  /\ cl[c].pc = "idle" /\ ops < MaxOps
  /\ ops' = ops + 1
  /\ cl' = [cl EXCEPT ![c] = state]

\* GetByID; 404 or 422 ends the request.
GetByID(c, op, made) ==
  /\ row # None
  /\ Begin(c, IF made = None THEN Idle
              ELSE [pc |-> op, make |-> made, seen |-> row, at |-> writes])
  /\ UNCHANGED <<row, changes, told, writes>>

startRelease(c) == GetByID(c, "update", Start(row))
promoteRelease(c) == \E p \in Percents : GetByID(c, "update", Promote(row, p))
pauseRelease(c) == GetByID(c, "update", Pause(row))
rollbackRelease(c) == GetByID(c, "update", Rollback(row))
completeRelease(c) == GetByID(c, "update", Complete(row))
deleteRelease(c) == GetByID(c, "delete", IF row.status = "draft" THEN row ELSE None)

-----------------------------------------------------------------------------
(* Statements                                                               *)

NewRelease == [status |-> "draft", pct |-> 0, started |-> FALSE, done |-> FALSE]

\* The row is inserted before anybody can know its id.
createRelease(c) ==
  /\ row = None /\ writes = 0
  /\ Begin(c, [pc |-> "publish", status |-> "draft"])
  /\ row' = NewRelease /\ writes' = 1
  /\ UNCHANGED <<changes, told>>

\* UPDATE releases SET every column; a deleted row is not found.
Update(c) ==
  /\ cl[c].pc = "update"
  /\ IF row = None THEN UNCHANGED <<row, writes>> /\ cl' = [cl EXCEPT ![c] = Idle]
     ELSE /\ row' = cl[c].make /\ writes' = writes + 1
          /\ cl' = [cl EXCEPT ![c] = [pc |-> "publish", status |-> cl[c].make.status]]
  /\ UNCHANGED <<changes, told, ops>>

\* DELETE by id alone; the flag changes go along.
Delete(c) ==
  /\ cl[c].pc = "delete"
  /\ row' = None /\ changes' = {} /\ writes' = writes + 1
  /\ cl' = [cl EXCEPT ![c] = Idle]
  /\ UNCHANGED <<told, ops>>

publishEvent(c) ==
  /\ cl[c].pc = "publish"
  /\ told' = cl[c].status
  /\ cl' = [cl EXCEPT ![c] = Idle]
  /\ UNCHANGED <<row, changes, ops, writes>>

\* Any status will do; a release that is not there fails the foreign key.
addFlagChange(c) ==
  /\ \E f \in Flags : changes' = IF row = None THEN changes ELSE changes \cup {f}
  /\ Begin(c, Idle)
  /\ UNCHANGED <<row, told, writes>>

\* The request's context ends, or the announcement fails.
CutOff(c) ==
  /\ cl[c].pc # "idle"
  /\ cl' = [cl EXCEPT ![c] = Idle]
  /\ UNCHANGED <<row, changes, told, ops, writes>>

Next == \E c \in Clients :
  \/ createRelease(c) \/ startRelease(c) \/ promoteRelease(c) \/ pauseRelease(c)
  \/ rollbackRelease(c) \/ completeRelease(c) \/ deleteRelease(c) \/ addFlagChange(c)
  \/ Update(c) \/ Delete(c) \/ publishEvent(c) \/ CutOff(c)

Spec == Init /\ [][Next]_vars

-----------------------------------------------------------------------------
(* Properties                                                               *)

TypeOK ==
  /\ row \in {None} \cup Release /\ changes \subseteq Flags
  /\ told \in {None} \cup Status /\ ops \in 0 .. MaxOps /\ writes \in Nat

\* However requests overwrite one another, the columns agree: a release has been
\* started unless it is a draft, is done exactly when it has ended, and only one
\* that exists has flag changes (releaseService, ReleaseRepository.Update).
Whole(r) == (r.started <=> r.status # "draft") /\ (r.done <=> r.status \in Ended)
RowIsWhole == IF row = None THEN changes = {} ELSE Whole(row)

\* A move outside releaseTransitions (an ended release that runs again, say) and
\* the deletion of a release that is no draft are those of a request whose read
\* was outdated (GetByID, TransitionTo, Update, Delete).
StaleWriteStep ==
  \A c \in Clients :
    LET outdated == cl[c].at # writes IN
    /\ cl[c].pc = "update" /\ row # None /\ writes' # writes /\ cl'[c] # cl[c] /\ ~outdated =>
         \/ row'.status = row.status /\ row.status = "rolling_out"
         \/ CanBecome(row, row'.status)
    /\ cl[c].pc = "delete" /\ row # None /\ row' = None /\ cl'[c] # cl[c] /\ ~outdated =>
         row.status = "draft"
=============================================================================
