SPECIFICATION Spec
CONSTANTS
    c1 = c1
    c2 = c2
    c3 = c3
    Names = {c1, c2, c3}
    NoColumn = NoColumn
    Absent = Absent
    Semantic <- Named
    Ordinal <- Placed
    Shapes <- SmallShapes
INVARIANTS
    TypeOK
    LegalTypes
    MagnitudeKept
PROPERTIES
    CursorStays
    CursorIsReadable
