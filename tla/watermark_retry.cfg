SPECIFICATION Spec
CONSTANTS
    t1 = t1
    t2 = t2
    k1 = k1
    k2 = k2
    Tables = {t1}
    Keys = {k1, k2}
    NoTable = NoTable
    Strategy <- AllWatermark
    HardDelete = {}
    Repairs = TRUE
    ReservedRuns = 0
    MaxStamp = 2
    MaxInitialStamp = 1
    MaxRuns = 1
    MaxFaults = 2
    MaxEdits = 0
SYMMETRY KeySymmetry
INVARIANTS
    RetrySafe
\* The run ends when its bounds are spent; the real trigger keeps firing.
CHECK_DEADLOCK FALSE
