SPECIFICATION FairSpec
CONSTANTS
    t1 = t1
    t2 = t2
    k1 = k1
    k2 = k2
    Tables = {t1, t2}
    Keys = {k1, k2}
    NoTable = NoTable
    Strategy <- FullLoadAndPrimaryKey
    HardDelete = {t2}
    Repairs = FALSE
    ReservedRuns = 2
    MaxStamp = 1
    MaxInitialStamp = 1
    MaxRuns = 3
    MaxFaults = 1
    MaxEdits = 0
INVARIANTS
    NoDuplicates
    RunsReportFailures
PROPERTIES
    NeverEmptied
    CatchesUp
\* The run ends when its bounds are spent; the real trigger keeps firing.
CHECK_DEADLOCK FALSE
