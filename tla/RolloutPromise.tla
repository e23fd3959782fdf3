---------------------------- MODULE RolloutPromise ----------------------------
(***************************************************************************)
(* What a rollout promises, whatever carries it out: the exposure of its   *)
(* target only grows, all the way before it succeeds, and goes back in one *)
(* step to where it was, after the rollout was declared rolled back.       *)
(* RolloutEngine implements this with rows, messages, drivers and crashes. *)
(***************************************************************************)
EXTENDS Integers

CONSTANTS Live,       \* statuses of a rollout that has not ended
          Previous    \* the target's percentage before the rollout

VARIABLES status, exposed

Init == status \in Live /\ exposed = Previous

\* The target is shown to more users.
Expose == status \in Live /\ exposed' \in exposed .. 100 /\ UNCHANGED status

\* The rollout waits, or goes on.
Move == status \in Live /\ status' \in Live /\ UNCHANGED exposed

Succeed == status \in Live /\ exposed = 100 /\ status' = "succeeded" /\ UNCHANGED exposed

RollBack == status \in Live /\ status' = "rolled_back" /\ UNCHANGED exposed

Revert == status = "rolled_back" /\ exposed' = Previous /\ UNCHANGED status

Next == Expose \/ Move \/ Succeed \/ RollBack \/ Revert

Spec == Init /\ [][Next]_<<status, exposed>>
===============================================================================
