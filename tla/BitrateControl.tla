--------------------------- MODULE BitrateControl ---------------------------
(* How apps/exp/metrics_adaptive.cpp adjusts its target: rates in whole bits *)
(* per second, compared in tenths, for a step of a tenth of the target.      *)
EXTENDS Integers

CONSTANTS min_bitrate, max_bitrate

\* The command line takes any pair; a minimum above the maximum is a mistake of
\* its user, for whom nothing is promised.
ASSUME BitrateAssumption ==
  /\ min_bitrate \in Nat /\ max_bitrate \in Nat
  /\ min_bitrate <= max_bitrate

\* AdaptiveConfig's other fields: adjustment_step is 0.1, one tenth
Smaller(a, b) == IF a <= b THEN a ELSE b
Larger(a, b) == IF a <= b THEN b ELSE a

HighLoss(lost, packets) == 20 * lost > packets /\ packets > 0
LowLoss(lost, packets) == 100 * lost < packets \/ packets = 0

\* In tenths of the target
Adjustment(target, current, lost, packets) ==
  IF HighLoss(lost, packets) THEN -1
  ELSE IF LowLoss(lost, packets) /\ current < target THEN 1
  ELSE 0

Raised(target, adjustment) == \* mutant: the wrong sign
  Larger(10 * min_bitrate, Smaller(10 * max_bitrate, target * (10 - adjustment)))
new_bitrate(target, adjustment) ==
  Larger(10 * min_bitrate, Smaller(10 * max_bitrate, target * (10 + adjustment)))

FarFrom(new, target) == new - 10 * target > 10000 \/ 10 * target - new > 10000

\* A change of 1000 bits per second or less is not made.
apply_adaptive_adjustments(target, current, lost, packets) ==
  LET new == new_bitrate(target, Adjustment(target, current, lost, packets))
  IN  IF FarFrom(new, target) THEN new \div 10 ELSE target
=============================================================================
