SPECIFICATION Spec
CONSTANTS
    t1 = t1
    k1 = k1
    Tables = {t1}
    Keys = {k1}
    NoTable = NoTable
    Strategy <- AllHybrid
    HardDelete = {}
    Apart = {"load"}
    Repairs = TRUE
    MaxStamp = 3
    MaxLoads = 2
    MaxSyncs = 2
    MaxFaults = 1
    MaxEdits = 0
INVARIANTS
    CheckpointCovers
PROPERTIES
    IsCheckpointedReplica
\* The run ends when its bounds are spent.
CHECK_DEADLOCK FALSE
