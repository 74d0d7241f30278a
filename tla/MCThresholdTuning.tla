------------------------- MODULE MCThresholdTuning -------------------------
(***************************************************************************)
(* Instances of ThresholdTuning for TLC.                                   *)
(***************************************************************************)
EXTENDS ThresholdTuning

Shipped == [p \in Priorities |-> 90]
Measured == {100}
\* The step of ComputeProposedValue: never more than the delta, towards the mean
\* and not past it, and a percentage again, over windows of up to three verdicts
\* and every length of the tail.
Rules(w, c, d) == INSTANCE ThresholdRules WITH Window <- w, Consecutive <- c, MaxDelta <- d
ASSUME StepsAreClamped ==
  \A w \in 1..3, d \in {1, 5} : \A c \in 1..w, s \in [1..w -> [coverage : {0, 49, 50, 93, 100}]],
     now \in {0, 50, 95, 100} :
    Rules(w, c, d)!StepIsClamped(s, now)

UserSymmetry == Permutations(Users)
ByHand == {90, None}
=============================================================================
