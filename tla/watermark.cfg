SPECIFICATION FairSpec
CONSTANTS
    t1 = t1
    t2 = t2
    k1 = k1
    k2 = k2
    Tables = {t1}
    Keys = {k1, k2}
    NoTable = NoTable
    Strategy <- AllWatermark
    HardDelete = {}
    Repairs = FALSE
    ReservedRuns = 2
    MaxStamp = 3
    MaxInitialStamp = 1
    MaxRuns = 3
    MaxFaults = 1
    MaxEdits = 1
INVARIANTS
    CheckpointCovers
    NoDuplicates
    IntervalsDisjoint
    FinalizationKeepsCheckpoint
    BoundaryAdvances
PROPERTIES
    CatchesUp
\* The run ends when its bounds are spent; the real trigger keeps firing.
CHECK_DEADLOCK FALSE
