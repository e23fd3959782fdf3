--------------------------- MODULE DeploymentState ---------------------------
(***************************************************************************)
(* The deployment row and its status state machine                         *)
(* (internal/models/deployment.go).  Timestamps are abstracted to whether  *)
(* they are set; identifiers, artifact and version play no part in any     *)
(* decision and are left out.                                              *)
(***************************************************************************)
EXTENDS Integers

\* The terminal statuses (IsTerminal).
TerminalStatus == {"completed", "failed", "rolled_back", "cancelled"}

\* DeployStatus.
DeployStatus == {"pending", "running", "paused", "promoting"} \cup TerminalStatus

\* The transition table; a status maps to the statuses it may move to.
validTransitions ==
    [s \in DeployStatus |->
        CASE s = "pending"   -> {"running", "cancelled"}
          [] s = "running"   -> {"paused", "promoting"} \cup TerminalStatus
          [] s = "paused"    -> {"running", "rolled_back", "cancelled"}
          [] s = "promoting" -> {"completed", "failed", "rolled_back"}
          [] OTHER           -> {}]

\* What a client may ask for in traffic.
Percent == 0..100

\* The columns UpdateDeployment persists: status, traffic_percent and whether
\* started_at and completed_at are set.
Row == [status : DeployStatus, traffic : Percent, started : BOOLEAN, completed : BOOLEAN]

\* "absent" stands for a row that has not been inserted.
Absent == [status |-> "absent", traffic |-> 0, started |-> FALSE, completed |-> FALSE]

ValidateTransition(d, target) == target \in validTransitions[d.status]

\* Mutant: completed_at is never set.
TransitionTo_ForgetsCompletedAt(d, target) ==
    [d EXCEPT !.status = target, !.started = @ \/ target = "running"]

\* TransitionTo when ValidateTransition succeeds: the status moves, started_at
\* is set on the first "running" and completed_at on a terminal target.
TransitionTo(d, target) ==
    [status    |-> target,
     traffic   |-> d.traffic,
     started   |-> d.started \/ target = "running",
     completed |-> d.completed \/ target \in TerminalStatus]
=============================================================================
