-------------------------- MODULE MC_RolloutEngine --------------------------
(***************************************************************************)
(* Instances of RolloutEngine.  Health is 0 or 1 against a threshold of 1; *)
(* the error rate trips the abort condition at 2.                          *)
(***************************************************************************)
EXTENDS RolloutEngine

Sig(score, errors) ==
    [m \in Metric |-> IF m = "score" THEN score ELSE IF m = "error_rate" THEN errors ELSE 0]

MC_Healthy == {Sig(1, 0)}
MC_Signals == {Sig(1, 0), Sig(0, 0), Sig(1, 2)}

Abort == {[metric |-> "error_rate", op |-> ">", threshold |-> 1],
          [metric |-> "custom", op |-> "!=", threshold |-> 0]}

Step(p, min, bake, max, aborts, gate) ==
    [pct |-> p, min |-> min, bake |-> bake, max |-> max, threshold |-> NoOverride,
     aborts |-> aborts, approval |-> gate]

\* Two steps up from 10 percent, one with an abort condition and an override.
MC_Ramp == <<Step(20, 1, 1, 2, Abort, FALSE),
             [Step(100, 0, 1, 2, {}, FALSE) EXCEPT !.threshold = 1]>>
\* Three short steps.
MC_Ramp3 == <<Step(20, 0, 0, 1, Abort, FALSE), Step(50, 0, 0, 1, {}, FALSE),
              Step(100, 0, 0, 1, {}, FALSE)>>
\* A ramp whose second step needs an approval.
MC_Gated == <<Step(20, 0, 0, 1, {}, FALSE), Step(50, 0, 0, 1, {}, TRUE),
              Step(100, 0, 0, 1, {}, FALSE)>>

MC_NoControls == {}
MC_Approve == {"approve"}
=============================================================================
