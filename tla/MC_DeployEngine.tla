--------------------------- MODULE MC_DeployEngine ---------------------------
(* Instances of DeployEngine for TLC. *)
EXTENDS DeployEngine, TLC

\* Drivers and requests are interchangeable.
Symmetry == Permutations(Drivers) \cup Permutations(Callers)

\* Two automatic steps.
AutoSteps == <<[pct |-> 5, auto |-> TRUE], [pct |-> 100, auto |-> TRUE]>>

\* A manual gate between two automatic steps.
GatedSteps == <<[pct |-> 5, auto |-> TRUE], [pct |-> 50, auto |-> FALSE],
                [pct |-> 100, auto |-> TRUE]>>

\* One gate and the final step.
ShortGatedSteps == <<[pct |-> 5, auto |-> FALSE], [pct |-> 100, auto |-> TRUE]>>

Canary == [record |-> FALSE, canary |-> TRUE, rollout |-> FALSE]
CanaryOnly == {Canary}

\* A canary, a rolling deployment and a recorded one.
AnyRequest == {Canary, [Canary EXCEPT !.canary = FALSE], [Canary EXCEPT !.record = TRUE]}

WithRollout == {[record |-> FALSE, canary |-> TRUE, rollout |-> TRUE]}

EveryRequest == AnyRequest \cup WithRollout

NoPcts == {}
Pcts == {0, 10}

NoOps == {}
GateOps == Operations \ {"setTraffic", "pause"}
AdvanceOps == {"advance"}
=============================================================================
