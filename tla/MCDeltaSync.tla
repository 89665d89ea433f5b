----------------------------- MODULE MCDeltaSync -----------------------------
(* Small instances of DeltaSync for TLC.                                   *)
EXTENDS DeltaSync, TLC

CONSTANTS t1, t2, k1, k2

AllHybrid    == [t \in Tables |-> "HYBRID"]
AllWatermark == [t \in Tables |-> "WATERMARK"]
FullLoadAndPrimaryKey ==
    [t \in Tables |-> IF t = t1 THEN "FULL_LOAD" ELSE "PRIMARY_KEY"]

\* Keys are interchangeable: no action tells them apart.
KeySymmetry == Permutations(Keys)

=============================================================================
