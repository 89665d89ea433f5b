SPECIFICATION Spec
CONSTANTS
    t1 = t1
    t2 = t2
    t3 = t3
    k1 = k1
    k2 = k2
    x1 = x1
    x2 = x2
    Tables = {t1, t2, t3}
    Keys = {k1}
    Targets = {x1, x2}
    TargetOf <- TwoShareOne
    Detected <- AllWatermark
    Partitioned = {}
    Parts = {1}
    PartOf <- OnePart
    Metadata = {"AUTO", "REVIEW"}
    Lag = 0
    NoTable = NoTable
    Repairs = TRUE
    LostRunIds = {"inventory", "normalize", "map", "decide", "provision", "load"}
    MaxStamp = 0
    MaxRuns = 2
    MaxFaults = 1
    MaxEdits = 2
SYMMETRY ShareSymmetry
INVARIANTS
    StateBacked
    ReviewQueueAgrees
PROPERTIES
    LoadsAreCommitted
    ChecksReachLoad
\* The run ends when its bounds are spent.
CHECK_DEADLOCK FALSE
