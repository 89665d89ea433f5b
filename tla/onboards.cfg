SPECIFICATION FairSpec
CONSTANTS
    t1 = t1
    t2 = t2
    t3 = t3
    k1 = k1
    k2 = k2
    x1 = x1
    x2 = x2
    Tables = {t1, t2}
    Keys = {k1}
    Targets = {x1, x2}
    TargetOf <- OwnTargets
    Detected <- AllWatermark
    Partitioned = {}
    Parts = {1}
    PartOf <- OnePart
    Metadata = {"AUTO"}
    Lag = 0
    NoTable = NoTable
    Repairs = TRUE
    LostRunIds = {"inventory", "normalize", "map", "decide", "provision", "load", "recon", "commit"}
    MaxStamp = 2
    MaxRuns = 2
    MaxFaults = 1
    MaxEdits = 1
INVARIANTS
    TypeOK
    SeedCovers
PROPERTIES
    Onboards
\* The run ends when its bounds are spent.
CHECK_DEADLOCK FALSE
