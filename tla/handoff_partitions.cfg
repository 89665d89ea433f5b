SPECIFICATION Spec
CONSTANTS
    t1 = t1
    t2 = t2
    t3 = t3
    k1 = k1
    k2 = k2
    x1 = x1
    x2 = x2
    Tables = {t1}
    Keys = {k1, k2}
    Targets = {x1}
    TargetOf <- OwnTargets
    Detected <- AllHybrid
    Partitioned = {t1}
    Parts = {1, 2}
    PartOf <- PartPerKey
    Metadata = {"AUTO"}
    Lag = 0
    NoTable = NoTable
    Repairs = FALSE
    LostRunIds = {}
    MaxStamp = 3
    MaxRuns = 1
    MaxFaults = 0
    MaxEdits = 0
INVARIANTS
    SeedCovers
\* The run ends when its bounds are spent.
CHECK_DEADLOCK FALSE
