----------------------------- MODULE MCOnboarding -----------------------------
(* Small instances of Onboarding for TLC.                                  *)
EXTENDS Onboarding, TLC

CONSTANTS t1, t2, t3, k1, k2, x1, x2

AllWatermark == [t \in Tables |-> "WATERMARK"]
AllHybrid    == [t \in Tables |-> "HYBRID"]
OwnTargets   == [t \in Tables |-> IF t = t1 THEN x1 ELSE x2]
TwoShareOne  == [t \in Tables |-> IF t = t3 THEN x2 ELSE x1]
OnePart      == [k \in Keys |-> 1]
PartPerKey   == [k \in Keys |-> IF k = k1 THEN 1 ELSE 2]

\* No action tells apart the two that share a target.
ShareSymmetry == Permutations({t1, t2})

=============================================================================
