-------------------------------- MODULE Columns --------------------------------
(***************************************************************************)
(* One table from its catalog to its decision: the source alters columns    *)
(* and keys, an operator edits the configured watermark, NB01 detects the   *)
(* strategy from what it finds and from what it stored before, and NB03 and *)
(* NB07 map the columns and decide.  Onboarding has the failures between    *)
(* the notebooks; here they are one step over one reading of the catalog.   *)
(***************************************************************************)
EXTENDS ColumnRules, FiniteSets

CONSTANTS
    Names,      \* column names
    NoColumn,   \* no column
    Semantic,   \* Semantic[n]: 0 update or change, 1 create, 2 other name
    Ordinal,    \* Ordinal[n]: position in the table
    Shapes,     \* Shapes[d]: shapes columns of dialect d may have
    Absent      \* the table has no such column

ASSUME ColumnsAssumption ==
    /\ IsFiniteSet(Names) /\ NoColumn \notin Names
    /\ Semantic \in [Names -> 0 .. 2]
    /\ Ordinal \in [Names -> Nat]
    /\ \A m, n \in Names : Ordinal[m] = Ordinal[n] => m = n
    /\ \A d \in Dialects : Shapes[d] \subseteq Shape(d) /\ Absent \notin Shapes[d]

VARIABLES
    dialect,    \* source_system of the control row
    column,     \* the columns of the source table
    keyed,      \* the table has a primary key
    cursor,     \* watermark_column of the control row
    strategy    \* load_strategy of the control row

vars == <<dialect, column, keyed, cursor, strategy>>

Init ==
    /\ dialect \in Dialects
    /\ column \in [Names -> Shapes[dialect] \cup {Absent}]
    /\ keyed \in BOOLEAN
    /\ cursor \in Names \cup {NoColumn}
    /\ strategy = "NONE"

Present == {n \in Names : column[n] # Absent}

-----------------------------------------------------------------------------
(* NB01: resolve_watermark_decision.                                       *)

\* Mutation: any column of a type the other dialect calls temporal.
EligibleAnyDialect ==
    {n \in Present : /\ ~column[n].hidden /\ ~column[n].computed
                     /\ \E d \in Dialects : Supported(d, column[n].family)}

\* NB01 leaves hidden and computed columns out.
Eligible == {n \in Present : /\ ~column[n].hidden /\ ~column[n].computed
                             /\ Supported(dialect, column[n].family)}

SortKey(n) == <<TypeRank(dialect, column[n].family), Semantic[n],
                -EffectivePrecision(column[n]), Ordinal[n]>>

Before(a, b) == \E i \in 1 .. 4 : a[i] < b[i] /\ \A j \in 1 .. i - 1 : a[j] = b[j]

\* Mutation: the key of the best pair of the ranking is returned.
PickKey ==
    IF Eligible = {} THEN NoColumn
    ELSE SortKey(CHOOSE n \in Eligible : \A m \in Eligible \ {n} : Before(SortKey(n), SortKey(m)))

PickWatermark ==
    IF Eligible = {} THEN NoColumn
    ELSE CHOOSE n \in Eligible : \A m \in Eligible \ {n} : Before(SortKey(n), SortKey(m))

\* Mutation: always rank again.
RankAgain == PickWatermark

\* A stored watermark is kept as long as it is usable.
SelectWatermark == IF cursor \in Eligible THEN cursor ELSE PickWatermark

StrategyFor(wm) == CASE wm # NoColumn /\ keyed  -> "HYBRID"
                     [] wm # NoColumn /\ ~keyed -> "WATERMARK"
                     [] wm = NoColumn /\ keyed  -> "PRIMARY_KEY"
                     [] wm = NoColumn /\ ~keyed -> "FULL_LOAD"

\* A table without columns is INVENTORY_FAILED.
Inventory ==
    /\ Present # {}
    /\ cursor' = SelectWatermark
    /\ strategy' = StrategyFor(SelectWatermark)
    /\ UNCHANGED <<dialect, column, keyed>>

\* NB03 and NB07 over the columns NB01 found.
Mapping(n) == MapColumn(dialect, column[n])
AutoMigrates == \A n \in Present : Mapping(n).status = "AUTO"

-----------------------------------------------------------------------------

AlterColumn(n) ==
    /\ \E c \in Shapes[dialect] \cup {Absent} : column' = [column EXCEPT ![n] = c]
    /\ UNCHANGED <<dialect, keyed, cursor, strategy>>

AlterKey ==
    /\ keyed' = ~keyed
    /\ UNCHANGED <<dialect, column, cursor, strategy>>

Configure ==
    /\ cursor' \in Names \cup {NoColumn}
    /\ UNCHANGED <<dialect, column, keyed, strategy>>

Next == Inventory \/ AlterKey \/ Configure \/ \E n \in Names : AlterColumn(n)

Spec == Init /\ [][Next]_vars

-----------------------------------------------------------------------------
(* Properties.                                                             *)

TypeOK ==
    /\ dialect \in Dialects
    /\ column \in [Names -> Shapes[dialect] \cup {Absent}]
    /\ keyed \in BOOLEAN
    /\ cursor \in Names \cup {NoColumn}
    /\ strategy \in {"NONE", "FULL_LOAD", "WATERMARK", "PRIMARY_KEY", "HYBRID"}

\* The checkpoint belongs to one column.  Whatever better column an ALTER TABLE
\* adds, NB01 gives a configured watermark up only if the source dropped it, made
\* it hidden or computed, or gave it a type that is no date or timestamp in Delta.
CursorStays ==
    [][Inventory /\ cursor' # cursor /\ cursor \in Present
         => \/ column[cursor].hidden \/ column[cursor].computed
            \/ Mapping(cursor).type.base \notin {"TIMESTAMP", "DATE"}]_vars

\* NB10 and NB11b take MAX of the watermark column in the target: where NB07
\* lets a table migrate, the column NB01 selects arrives there as a temporal
\* type, in either dialect (SQL Server's timestamp does not).
CursorIsReadable ==
    [][Inventory /\ AutoMigrates /\ cursor' # NoColumn
         => Mapping(cursor').type.base \in {"TIMESTAMP", "DATE"}]_vars

\* NB08 can create every column that is mapped: a DECIMAL has at most 38 digits
\* and a scale within them, whatever precision and scale the catalog reports.
LegalTypes == \A n \in Present : Legal(Mapping(n))

\* No number is too large for the type it is mapped to without review.
MagnitudeKept == \A n \in Present : MagnitudeFits(column[n], Mapping(n))

=============================================================================
