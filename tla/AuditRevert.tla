---------------------------- MODULE AuditRevert ----------------------------
(***************************************************************************)
(* The audit trail of one flag and the reverts it offers                   *)
(* (internal/auth/revert_handler.go and revert_registry.go,                *)
(* internal/flags/revert.go, and the handlers of internal/flags/handler.go *)
(* that write the trail).                                                  *)
(*                                                                         *)
(* A request reads the flag, writes it in a later statement and appends to *)
(* the trail in a third; nothing holds the row in between, and a request   *)
(* may be cut off after any of them.  ToggleFlag and UpdateFlag write back *)
(* every column of the row they read.                                      *)
(***************************************************************************)
EXTENDS Integers, Sequences, FiniteSets

CONSTANTS Clients, None,
          Settings,     \* contents of the descriptive columns
          MaxOps        \* bound: requests begun

VARIABLES row,    \* the flag, its override in one environment, one rule
          log,    \* audit_log
          cl,     \* the requests
          begun,  \* bound
          turn    \* ghost: which request wrote the row last

vars == <<row, log, cl, begun, turn>>

\* rule is None or its state in the environment: "unset", "on" or "off".
RowType == [enabled : BOOLEAN, settings : Settings, archived : BOOLEAN,
            queued : BOOLEAN, env : {None, "on", "off"},
            rule : {None, "unset", "on", "off"}]

Actions == {"flag.updated", "flag.toggled", "flag.archived", "flag.restored",
            "flag.queued_for_deletion", "flag.env_state.updated", "flag.rule.created",
            "flag.rule.deleted", "flag.rule.env_state.updated"}

Init ==
  /\ row \in [enabled : BOOLEAN, settings : {CHOOSE s \in Settings : TRUE},
              archived : {FALSE}, queued : {FALSE}, env : {None, "on"},
              rule : {None, "on"}]
  /\ log = <<>> /\ begun = 0 /\ turn = 0
  /\ cl = [c \in Clients |-> [pc |-> "idle"]]

-----------------------------------------------------------------------------
(* What an operation is about                                               *)

\* The column an entry speaks of.
Field(action, r) ==
  CASE action = "flag.updated"               -> r.settings
    [] action = "flag.toggled"               -> r.enabled
    [] action \in {"flag.archived", "flag.restored"} -> r.archived
    [] action = "flag.queued_for_deletion"   -> r.queued
    [] action = "flag.env_state.updated"     -> r.env
    [] action \in {"flag.rule.created", "flag.rule.deleted"} -> r.rule # None
    [] action = "flag.rule.env_state.updated" -> r.rule

\* Mutant of OldValue: the override is read after it was written.
X_OldValue(action, seen, arg) ==
  CASE action = "flag.toggled" -> ~arg
    [] action = "flag.updated" -> seen.settings
    [] action \in {"flag.env_state.updated", "flag.rule.env_state.updated"} -> arg
    [] OTHER -> None

\* old_value as the handler writes it: a toggle records the opposite of what
\* was asked for, the others what they read; "empty" where nothing was recorded.
OldValue(action, seen, arg) ==
  CASE action = "flag.toggled" -> ~arg
    [] action = "flag.updated" -> seen.settings
    [] action = "flag.env_state.updated" -> IF seen.env = None THEN "empty" ELSE seen.env
    [] action = "flag.rule.env_state.updated" ->
         IF seen.rule \in {None, "unset"} THEN "empty" ELSE seen.rule
    [] OTHER -> None

-----------------------------------------------------------------------------
(* Statements of the repository                                             *)

\* UpdateFlag writes settings and enabled alike; the archive columns stay.
SqlUpdateFlag(r, settings, enabled) ==
  [r EXCEPT !.settings = settings, !.enabled = enabled]
SqlArchive(r) == [r EXCEPT !.archived = TRUE]
SqlUnarchive(r) == [r EXCEPT !.archived = FALSE]
SqlRestore(r) == [r EXCEPT !.archived = FALSE, !.queued = FALSE]
\* Mutant of SqlQueue: the row gets the state of the override.
X_SqlQueue(r) == [r EXCEPT !.queued = r.env]

SqlQueue(r) == [r EXCEPT !.queued = TRUE]
SqlClearDeleteAfter(r) == [r EXCEPT !.queued = FALSE]
SqlUpsertEnvState(r, v) == [r EXCEPT !.env = v]
SqlSetRule(r, v) == [r EXCEPT !.rule = v]
\* UpdateFlagLifecycle with disableEverywhere.
SqlDisableEverywhere(r) ==
  [r EXCEPT !.enabled = FALSE, !.env = IF @ = None THEN None ELSE "off"]

-----------------------------------------------------------------------------
(* Operations that are recorded                                             *)

\* The first read of a handler, or of the service when only that one counts.
Read(c, a, v) ==
  /\ cl[c].pc = "idle" /\ begun < MaxOps
  /\ cl' = [cl EXCEPT ![c] = [pc |-> "write", id |-> begun + 1, action |-> a,
                              arg |-> v, seen |-> row]]
  /\ begun' = begun + 1
  /\ UNCHANGED <<row, log, turn>>

updateFlag(c) == \E s \in Settings : Read(c, "flag.updated", s)
toggleFlag(c) == \E e \in BOOLEAN : Read(c, "flag.toggled", e)
archiveFlag(c) == Read(c, "flag.archived", None)
restoreFlag(c) == Read(c, "flag.restored", None)
queueFlagDeletion(c) == Read(c, "flag.queued_for_deletion", None)
setFlagEnvState(c) == \E v \in {"on", "off"} : Read(c, "flag.env_state.updated", v)
addRule(c) == Read(c, "flag.rule.created", None)
deleteRule(c) == Read(c, "flag.rule.deleted", None)
setRuleEnvState(c) == \E v \in {"on", "off"} : Read(c, "flag.rule.env_state.updated", v)

\* The row after the operation c is about to perform.
Written(c) ==
  LET a == cl[c].action seen == cl[c].seen v == cl[c].arg IN
  CASE a = "flag.updated"             -> SqlUpdateFlag(row, v, seen.enabled)
    [] a = "flag.toggled"             -> SqlUpdateFlag(row, seen.settings, v)
    [] a = "flag.archived"            -> SqlArchive(row)
    [] a = "flag.restored"            -> SqlRestore(row)
    [] a = "flag.queued_for_deletion" -> SqlQueue(row)
    [] a = "flag.env_state.updated"   -> SqlUpsertEnvState(row, v)
    [] a = "flag.rule.created"        -> SqlSetRule(row, "unset")
    [] a = "flag.rule.deleted"        -> SqlSetRule(row, None)
    [] a = "flag.rule.env_state.updated" -> SqlSetRule(row, v)

\* What refuses it: checks on what was read, and the statement's own WHERE.
Accepted(c) ==
  LET a == cl[c].action seen == cl[c].seen IN
  /\ a = "flag.toggled" => ~seen.archived
  /\ a = "flag.queued_for_deletion" => seen.archived /\ row.archived
  /\ a = "flag.rule.created" => row.rule = None
  /\ a \in {"flag.rule.deleted", "flag.rule.env_state.updated"} => row.rule # None

Write(c) ==
  /\ cl[c].pc = "write"
  /\ IF Accepted(c)
       THEN /\ row' = Written(c) /\ turn' = cl[c].id
            /\ cl' = [cl EXCEPT ![c] = [pc |-> "log", id |-> @.id, action |-> @.action,
                 entry |-> [id |-> @.id, action |-> @.action, new |-> @.arg,
                            old |-> OldValue(@.action, @.seen, @.arg),
                            before |-> row, seen |-> @.seen, after |-> Written(c)]]]
       ELSE /\ cl' = [cl EXCEPT ![c] = [pc |-> "idle"]]
            /\ UNCHANGED <<row, turn>>
  /\ UNCHANGED <<log, begun>>

\* writeAudit, whose failure is only logged.
WriteAudit(c) ==
  /\ cl[c].pc = "log"
  /\ log' = Append(log, cl[c].entry)
  /\ cl' = [cl EXCEPT ![c] = [pc |-> "idle"]]
  /\ UNCHANGED <<row, begun, turn>>

\* A failing smoke or user test locks the flag down; not revertible.
RecordTestFailure(c) ==
  /\ cl[c].pc = "idle" /\ begun < MaxOps
  /\ begun' = begun + 1 /\ turn' = begun + 1
  /\ row' = SqlDisableEverywhere(row)
  /\ UNCHANGED <<log, cl>>

\* The request is cut off.
Abandon(c) ==
  /\ cl[c].pc = "log"
  /\ cl' = [cl EXCEPT ![c] = [pc |-> "idle"]]
  /\ UNCHANGED <<row, log, begun, turn>>

-----------------------------------------------------------------------------
(* Reverts                                                                  *)

\* Race detection: the flag no longer is what the entry left behind.
Raced(e, r) ==
  CASE e.action = "flag.archived" -> ~r.archived
    [] e.action = "flag.restored" -> r.archived
    [] e.action = "flag.updated"  -> r.settings # e.new
    [] e.action = "flag.toggled"  -> r.enabled # e.new
    [] e.action = "flag.queued_for_deletion" -> ~r.queued
    [] e.action = "flag.env_state.updated" -> r.env \notin {None, e.new}
    [] e.action = "flag.rule.created" -> FALSE
    [] e.action = "flag.rule.deleted" -> r.rule # None
    [] e.action = "flag.rule.env_state.updated" -> r.rule \notin {None, "unset", e.new}

\* Entries without an old value cannot be parsed, and the entry of an update
\* does not hold the flag's type, without which UpdateFlag refuses to write.
Appliable(e) ==
  /\ e.action # "flag.updated"
  /\ e.action \in {"flag.env_state.updated", "flag.rule.env_state.updated"} => e.old # "empty"

\* RevertHandlerHTTP.revert up to the check of the entry's handler.
CheckRevert(c) ==
  /\ cl[c].pc = "idle" /\ begun < MaxOps
  /\ \E i \in DOMAIN log, force \in BOOLEAN :
       /\ Appliable(log[i]) /\ (force \/ ~Raced(log[i], row))
       /\ cl' = [cl EXCEPT ![c] = [pc |-> IF log[i].action = "flag.toggled" THEN "reread"
                                          ELSE "revert",
                                   id |-> begun + 1, entry |-> log[i], force |-> force,
                                   seen |-> row, checked |-> turn]]
  /\ begun' = begun + 1
  /\ UNCHANGED <<row, log, turn>>

\* ToggleFlag reads the flag once more.
Reread(c) ==
  /\ cl[c].pc = "reread"
  /\ cl' = [cl EXCEPT ![c] = IF row.archived THEN [pc |-> "idle"]
                             ELSE [@ EXCEPT !.pc = "revert", !.seen = row]]
  /\ UNCHANGED <<row, log, begun, turn>>

revertFlagArchived == SqlUnarchive(row)
revertFlagRestored == SqlArchive(row)
revertFlagToggled(e, seen) == SqlUpdateFlag(row, seen.settings, e.old)
revertFlagQueuedForDeletion == SqlClearDeleteAfter(row)
revertFlagEnvStateUpdated(e) == SqlUpsertEnvState(row, e.old)
revertFlagRuleCreated == SqlSetRule(row, None)
revertFlagRuleDeleted == SqlSetRule(row, "unset")
revertFlagRuleEnvStateUpdated(e) == SqlSetRule(row, e.old)

\* The handler the registry has for the entry's action.
Reverted(e, seen) ==
  CASE e.action = "flag.archived" -> revertFlagArchived
    [] e.action = "flag.restored" -> revertFlagRestored
    [] e.action = "flag.toggled"  -> revertFlagToggled(e, seen)
    [] e.action = "flag.queued_for_deletion" -> revertFlagQueuedForDeletion
    [] e.action = "flag.env_state.updated" -> revertFlagEnvStateUpdated(e)
    [] e.action = "flag.rule.created" -> revertFlagRuleCreated
    [] e.action = "flag.rule.deleted" -> revertFlagRuleDeleted
    [] e.action = "flag.rule.env_state.updated" -> revertFlagRuleEnvStateUpdated(e)

\* AddRule of a rule that exists again is refused by the primary key; the
\* state of a rule that is gone by its foreign key.
Refused(e) ==
  \/ e.action = "flag.rule.deleted" /\ row.rule # None
  \/ e.action = "flag.rule.env_state.updated" /\ row.rule = None

\* The handler's write and the entry the trail gets for it, which has no
\* handler of its own.
ApplyRevert(c) ==
  /\ cl[c].pc = "revert"
  /\ LET e == cl[c].entry IN
     IF Refused(e) THEN UNCHANGED <<row, turn>>
     ELSE row' = Reverted(e, cl[c].seen) /\ turn' = -e.id
  /\ cl' = [cl EXCEPT ![c] = [pc |-> "idle"]]
  /\ UNCHANGED <<log, begun>>

Next == \E c \in Clients :
  \/ updateFlag(c) \/ toggleFlag(c) \/ archiveFlag(c) \/ restoreFlag(c)
  \/ queueFlagDeletion(c) \/ setFlagEnvState(c) \/ addRule(c) \/ deleteRule(c)
  \/ setRuleEnvState(c)
  \/ Write(c) \/ WriteAudit(c) \/ RecordTestFailure(c) \/ Abandon(c)
  \/ CheckRevert(c) \/ Reread(c) \/ ApplyRevert(c)

Spec == Init /\ [][Next]_vars

-----------------------------------------------------------------------------
(* Properties                                                               *)

TypeOK ==
  /\ row \in RowType /\ begun \in 0 .. MaxOps
  /\ \A i \in DOMAIN log : log[i].action \in Actions

\* A revert that meets nobody between the operation's read and its own write
\* puts the column back to what it was before an operation that changed it.
RevertRestoresStep ==
  \A c \in Clients :
    LET e == cl[c].entry IN
    ( /\ cl[c].pc = "revert" /\ cl'[c].pc = "idle" /\ turn' = -e.id
      /\ turn = e.id /\ e.seen = e.before
      /\ Field(e.action, e.before) # Field(e.action, e.after) )
    => Field(e.action, row') = Field(e.action, e.before)
RevertRestores == [][RevertRestoresStep]_vars

\* Two requests that revert the same entry, however they interleave, undo it
\* once: the second changes nothing of the column when only the first came
\* before it.
RevertTwiceIsOnceStep ==
  \A c \in Clients :
    ( /\ cl[c].pc = "revert" /\ cl'[c].pc = "idle"
      /\ turn = -cl[c].entry.id )
    => Field(cl[c].entry.action, row') = Field(cl[c].entry.action, row)
RevertTwiceIsOnce == [][RevertTwiceIsOnceStep]_vars
=============================================================================
