SPECIFICATION Spec
CONSTANTS
    k1 = k1
    k2 = k2
    Keys = {k1, k2}
    Families = {"TIMESTAMP", "DATE", "DATETIME2"}
    Micro = 3
    Coarse = 6
    Ties = FALSE
    None = None
    MaxInstant = 16
    MaxRepeats = 1
SYMMETRY KeySymmetry
INVARIANTS
    TypeOK
    NoCopies
    NothingSkipped
    RunIsComplete
\* The clock stops at MaxInstant.
CHECK_DEADLOCK FALSE
