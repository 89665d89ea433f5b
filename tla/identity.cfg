SPECIFICATION Spec
CONSTANTS
    r1 = r1
    r2 = r2
    s1 = s1
    Texts <- Letters
    Null = "NULL"
    Empty = ""
    Oracle = "oracle"
    Synonyms = {"mssql"}
    Trim <- MCTrim
    Lower <- MCLower
    Rows = {r1, r2}
    Seeds = {s1}
    SeedOf <- MCSeedOf
    Registrations <- MCRegistrations
    MaxRuns = 2
    MaxFaults = 1
INVARIANTS
    TypeOK
    IdentifiesItself
    RecordsOwnSource
    
PROPERTIES
    SeedsOnce
    IdsAreFinal
\* The run ends when its bounds are spent.
CHECK_DEADLOCK FALSE
