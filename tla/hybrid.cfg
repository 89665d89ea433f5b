SPECIFICATION Spec
CONSTANTS
    t1 = t1
    t2 = t2
    k1 = k1
    k2 = k2
    Tables = {t1}
    Keys = {k1, k2}
    NoTable = NoTable
    Strategy <- AllHybrid
    HardDelete = {}
    Repairs = TRUE
    ReservedRuns = 0
    MaxStamp = 3
    MaxInitialStamp = 1
    MaxRuns = 2
    MaxFaults = 2
    MaxEdits = 0
SYMMETRY KeySymmetry
INVARIANTS
    TypeOK
    CheckpointCovers
    CheckpointTraceable
PROPERTIES
    SurplusMeansDeletes
    IsCheckpointedReplica
\* The run ends when its bounds are spent; the real trigger keeps firing.
CHECK_DEADLOCK FALSE
