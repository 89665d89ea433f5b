----------------------------- MODULE ColumnsProofs -----------------------------
(***************************************************************************)
(* For every set of names and every catalog the dialects allow: the columns *)
(* stay what the catalog can report, every DECIMAL the mapper writes is one *)
(* Delta accepts, no number outgrows an unreviewed type, and NB01 keeps a   *)
(* usable cursor.                                                          *)
(***************************************************************************)
EXTENDS Columns, FiniteSetTheorems, TLAPS

ColumnsTyped ==
    /\ dialect \in Dialects
    /\ column \in [Names -> Shapes[dialect] \cup {Absent}]

LEMMA InitTyped == ASSUME Init PROVE ColumnsTyped
  BY DEF Init, ColumnsTyped

LEMMA NextTyped == ASSUME ColumnsTyped, [Next]_vars PROVE ColumnsTyped'
  <1>1. CASE Inventory
    BY <1>1 DEF Inventory, ColumnsTyped
  <1>2. CASE AlterKey
    BY <1>2 DEF AlterKey, ColumnsTyped
  <1>3. CASE Configure
    BY <1>3 DEF Configure, ColumnsTyped
  <1>4. ASSUME NEW n \in Names, AlterColumn(n) PROVE ColumnsTyped'
    BY <1>4 DEF AlterColumn, ColumnsTyped
  <1>5. CASE UNCHANGED vars
    BY <1>5 DEF vars, ColumnsTyped
  <1> QED
    BY <1>1, <1>2, <1>3, <1>4, <1>5 DEF Next

\* What a present column can look like.
LEMMA PresentShape ==
  ASSUME ColumnsTyped, NEW n \in Present
  PROVE  column[n] \in Shape(dialect)
  <1>1. n \in Names /\ column[n] \in Shapes[dialect]
    BY DEF ColumnsTyped, Present
  <1> QED
    BY <1>1, ColumnsAssumption DEF ColumnsTyped

-----------------------------------------------------------------------------
(* The rules for numbers.                                                  *)

LEMMA WholeIs ==
  ASSUME NEW p \in Nat \ {0}, p <= MaxDeltaPrecision
  PROVE  /\ Whole(p).digits \in 1 .. MaxDeltaPrecision
         /\ Whole(p).digits >= p
         /\ Whole(p).scale = 0
  BY DEF Whole, Decimal, DeltaType, MaxDeltaPrecision

LEMMA NumberLegal ==
  ASSUME NEW p \in (Nat \ {0}) \cup {NONE}, NEW s \in Int
  PROVE  Legal(MapNumber(p, s))
  <1>0. NONE \in Int
    BY DEF NONE
  <1>1. CASE p # NONE /\ p <= MaxDeltaPrecision /\ s \in {NONE, 0}
    <2>1. MapNumber(p, s).type = Whole(p)
      BY <1>0, <1>1 DEF MapNumber, Exactly, Mapped, MaxDeltaPrecision
    <2> QED
      BY <1>0, <1>1, <2>1, WholeIs DEF Legal, MaxDeltaPrecision
  <1>2. CASE ~(p # NONE /\ p <= MaxDeltaPrecision /\ s \in {NONE, 0})
    BY <1>0, <1>2 DEF Legal, MapNumber, Exactly, Blocked, Plain, Mapped, Decimal, DeltaType,
        Smaller, MaxDeltaPrecision
  <1> QED
    BY <1>1, <1>2

LEMMA DecimalLegal ==
  ASSUME NEW p \in (Nat \ {0}) \cup {NONE}, NEW s \in Int
  PROVE  Legal(MapDecimal(p, s))
  BY DEF Legal, MapDecimal, Exactly, Blocked, Plain, Mapped, Decimal, DeltaType, Smaller,
      MaxDeltaPrecision, NONE

LEMMA NumberFits ==
  ASSUME NEW p \in Nat \ {0}, NEW s \in Int, s # NONE, MapNumber(p, s).status = "AUTO"
  PROVE  MapNumber(p, s).type.digits - MapNumber(p, s).type.scale >= p - s
  <1>0. p # NONE
    BY DEF NONE
  <1>1. CASE s = 0 /\ p <= MaxDeltaPrecision
    <2>1. MapNumber(p, s).type = Whole(p)
      BY <1>0, <1>1 DEF MapNumber, Exactly, Mapped, MaxDeltaPrecision
    <2> QED
      BY <1>1, <2>1, WholeIs DEF MaxDeltaPrecision
  <1>2. CASE ~(s = 0 /\ p <= MaxDeltaPrecision)
    BY <1>0, <1>2 DEF MapNumber, Exactly, Blocked, Plain, Mapped, Decimal, DeltaType, Smaller,
        MaxDeltaPrecision
  <1> QED
    BY <1>1, <1>2

LEMMA DecimalFits ==
  ASSUME NEW p \in Nat \ {0}, NEW s \in Nat, MapDecimal(p, s).status = "AUTO"
  PROVE  MapDecimal(p, s).type.digits - MapDecimal(p, s).type.scale >= p - s
  BY DEF MapDecimal, Exactly, Blocked, Plain, Mapped, Decimal, DeltaType, Smaller,
      MaxDeltaPrecision, NONE

-----------------------------------------------------------------------------
(* The mapper and NB03's policy.                                           *)

\* No flat rule is a DECIMAL.
LEMMA LookupLegal ==
  ASSUME NEW d \in Dialects, NEW f
  PROVE  Legal(Lookup(d, f))
  <1>1. \A r \in Rules[d] : r.mapped.type.base # "DECIMAL"
    <2>1. CASE d = "oracle"
      BY <2>1 DEF Rules, OracleRules, SqlServerRules, Rule, Mapped, Exactly,
          Blocked, Plain, MicroTimestamp, DeltaType
    <2>2. CASE d = "sqlserver"
      BY <2>2 DEF Rules, OracleRules, SqlServerRules, Rule, Mapped, Exactly,
          Blocked, Plain, MicroTimestamp, DeltaType
    <2> QED
      BY <2>1, <2>2 DEF Dialects
  <1>2. CASE \E r \in Rules[d] : r.family = f
    BY <1>1, <1>2 DEF Lookup, Legal
  <1>3. CASE ~\E r \in Rules[d] : r.family = f
    BY <1>3 DEF Lookup, Legal, Blocked, Mapped, Plain, DeltaType
  <1> QED
    BY <1>2, <1>3

LEMMA ShapeNumbers ==
  ASSUME NEW d \in Dialects, NEW c \in Shape(d)
  PROVE  /\ c.precision \in (Nat \ {0}) \cup {NONE}
         /\ c.scale \in Int
         /\ d = "sqlserver" => c.scale \in Nat \cup {NONE}
         /\ c.family = "NUMBER" => d = "oracle"
         /\ c.family = "DECIMAL" => d = "sqlserver"
  <1>1. c.family \in Families[d] /\ c.precision \in (Nat \ {0}) \cup {NONE}
    BY DEF Shape
  <1>2. c.scale \in IF d = "oracle" THEN Int ELSE Nat \cup {NONE}
    BY DEF Shape
  <1>3. "DECIMAL" \notin Families["oracle"] /\ "NUMBER" \notin Families["sqlserver"]
    BY DEF Families
  <1> QED
    BY <1>1, <1>2, <1>3 DEF Dialects, NONE

LEMMA SourceLegal ==
  ASSUME NEW d \in Dialects, NEW c \in Shape(d)
  PROVE  Legal(MapSource(d, c))
  BY ShapeNumbers, NumberLegal, DecimalLegal, LookupLegal DEF MapSource

\* The policy for hidden and computed columns leaves the type alone and makes
\* nothing AUTO.
LEMMA PolicyKeepsType ==
  ASSUME NEW d \in Dialects, NEW c
  PROVE  /\ MapColumn(d, c).type = MapSource(d, c).type
         /\ MapColumn(d, c).status = "AUTO" => MapSource(d, c).status = "AUTO"
  BY DEF MapColumn

LEMMA ColumnLegal ==
  ASSUME NEW d \in Dialects, NEW c \in Shape(d)
  PROVE  Legal(MapColumn(d, c))
  BY SourceLegal, PolicyKeepsType DEF Legal

LEMMA ColumnFits ==
  ASSUME NEW d \in Dialects, NEW c \in Shape(d)
  PROVE  MagnitudeFits(c, MapColumn(d, c))
  <1> SUFFICES ASSUME Numeric(c), MapColumn(d, c).status = "AUTO"
               PROVE  MapColumn(d, c).type.digits - MapColumn(d, c).type.scale
                        >= c.precision - c.scale
    BY DEF MagnitudeFits
  <1>1. /\ MapSource(d, c).status = "AUTO"
        /\ MapColumn(d, c).type = MapSource(d, c).type
    BY PolicyKeepsType
  <1>2. c.precision \in Nat \ {0} /\ c.scale # NONE
    BY ShapeNumbers DEF Numeric
  <1>3. CASE c.family = "NUMBER"
    BY <1>1, <1>2, <1>3, NumberFits, ShapeNumbers DEF MapSource
  <1>4. CASE c.family = "DECIMAL"
    BY <1>1, <1>2, <1>4, DecimalFits, ShapeNumbers DEF MapSource
  <1> QED
    BY <1>3, <1>4 DEF Numeric

-----------------------------------------------------------------------------

LEMMA Typed == Spec => []ColumnsTyped
  BY InitTyped, NextTyped, PTL DEF Spec

\* Whatever the catalog reports, NB08 never writes a DECIMAL Delta rejects.
THEOREM MapperIsLegal == Spec => []LegalTypes
  <1>1. ASSUME ColumnsTyped PROVE LegalTypes
    BY <1>1, PresentShape, ColumnLegal DEF LegalTypes, Mapping, ColumnsTyped
  <1> QED
    BY <1>1, Typed, PTL

\* Every number a source column can hold fits before the decimal point of the
\* type the mapper gives it without review.
THEOREM MapperKeepsMagnitude == Spec => []MagnitudeKept
  <1>1. ASSUME ColumnsTyped PROVE MagnitudeKept
    BY <1>1, PresentShape, ColumnFits DEF MagnitudeKept, Mapping, ColumnsTyped
  <1> QED
    BY <1>1, Typed, PTL

-----------------------------------------------------------------------------

\* The families that are timestamps or dates in Delta are those the policy of
\* the dialect accepts as a watermark.
LEMMA SupportedFamilies ==
  /\ \A f \in {"TIMESTAMPTZ", "TIMESTAMPLTZ", "TIMESTAMP", "DATE"} : Supported("oracle", f)
  /\ \A f \in {"DATETIMEOFFSET", "DATETIME2", "DATETIME", "SMALLDATETIME", "DATE"} :
        Supported("sqlserver", f)
  BY DEF Supported, Temporal, OracleTemporal, SqlServerTemporal

LEMMA TemporalRules ==
  ASSUME NEW d \in Dialects, NEW r \in Rules[d],
         r.mapped.type.base \in {"TIMESTAMP", "DATE"}
  PROVE  Supported(d, r.family)
  <1>1. CASE d = "oracle"
    <2>1. r.family \in {"TIMESTAMPTZ", "TIMESTAMPLTZ", "TIMESTAMP", "DATE"}
      BY <1>1 DEF Rules, OracleRules, SqlServerRules, Rule, Mapped, Exactly,
          Blocked, Plain, MicroTimestamp, DeltaType
    <2> QED
      BY <1>1, <2>1, SupportedFamilies
  <1>2. CASE d = "sqlserver"
    <2>1. r.family \in {"DATETIMEOFFSET", "DATETIME2", "DATETIME", "SMALLDATETIME", "DATE"}
      BY <1>2 DEF Rules, OracleRules, SqlServerRules, Rule, Mapped, Exactly,
          Blocked, Plain, MicroTimestamp, DeltaType
    <2> QED
      BY <1>2, <2>1, SupportedFamilies
  <1> QED
    BY <1>1, <1>2 DEF Dialects

LEMMA TemporalFamilies ==
  ASSUME NEW d \in Dialects, NEW c \in Shape(d),
         MapColumn(d, c).type.base \in {"TIMESTAMP", "DATE"}
  PROVE  Supported(d, c.family)
  <1>1. MapSource(d, c).type.base \in {"TIMESTAMP", "DATE"}
    BY PolicyKeepsType
  <1>2. \A p, s : /\ MapNumber(p, s).type.base \notin {"TIMESTAMP", "DATE"}
                  /\ MapDecimal(p, s).type.base \notin {"TIMESTAMP", "DATE"}
    BY DEF MapNumber, MapDecimal, Whole, Exactly, Blocked, Plain, Mapped, Decimal, DeltaType
  <1>3. Lookup(d, c.family).type.base \in {"TIMESTAMP", "DATE"}
    BY <1>1, <1>2 DEF MapSource
  <1>4. PICK r \in Rules[d] : r.family = c.family /\ r.mapped = Lookup(d, c.family)
    BY <1>3 DEF Lookup, Blocked, Mapped, Plain, DeltaType
  <1> QED
    BY <1>3, <1>4, TemporalRules

\* NB01 never trades a cursor that is still usable for another one.
THEOREM NB01KeepsCursor == Spec => CursorStays
  <1> DEFINE A == Inventory /\ cursor' # cursor /\ cursor \in Present
                  => \/ column[cursor].hidden \/ column[cursor].computed
                     \/ Mapping(cursor).type.base \notin {"TIMESTAMP", "DATE"}
  <1>1. ASSUME ColumnsTyped PROVE A
    <2> SUFFICES ASSUME Inventory, cursor \in Present,
                        ~column[cursor].hidden, ~column[cursor].computed,
                        Mapping(cursor).type.base \in {"TIMESTAMP", "DATE"}
                 PROVE  cursor' = cursor
      OBVIOUS
    <2>1. Supported(dialect, column[cursor].family)
      BY <1>1, PresentShape, TemporalFamilies DEF Mapping, ColumnsTyped
    <2>2. cursor \in Eligible
      BY <2>1 DEF Eligible
    <2> QED
      BY <2>2 DEF Inventory, SelectWatermark
  <1>2. ColumnsTyped => [A]_vars
    BY <1>1
  <1> QED
    BY <1>2, Typed, PTL DEF CursorStays

-----------------------------------------------------------------------------
(* The ranking.  The library's induction theorems take an operator; a       *)
(* smallest set without a least element serves instead.                    *)

\* A finite set that R orders strictly and totally has a least element.
LEMMA FiniteLeast ==
  ASSUME NEW S, IsFiniteSet(S), S # {}, NEW R,
         \A a, b, c \in S : <<a, b>> \in R /\ <<b, c>> \in R => <<a, c>> \in R,
         \A a, b \in S : a # b => <<a, b>> \in R \/ <<b, a>> \in R
  PROVE  \E n \in S : \A m \in S \ {n} : <<n, m>> \in R
  <1> DEFINE Least(T) == \E n \in T : \A m \in T \ {n} : <<n, m>> \in R
             Bad == {T \in SUBSET S : T # {} /\ ~Least(T)}
  <1> SUFFICES ASSUME ~Least(S) PROVE FALSE
    OBVIOUS
  <1>1. IsWellFoundedOn(StrictSubsetOrdering(S), SUBSET S)
    <2>1. IsWellFoundedOn(StrictSubsetOrdering(S), FiniteSubsetsOf(S))
      BY FS_StrictSubsetOrderingWellFounded
    <2>2. FiniteSubsetsOf(S) = SUBSET S
      BY FS_FiniteSubsetsOfFinite
    <2> QED
      BY <2>1, <2>2
  <1>2. Bad \subseteq SUBSET S /\ Bad # {}
    OBVIOUS
  <1>3. PICK T \in Bad : \A U \in Bad : ~(<<U, T>> \in StrictSubsetOrdering(S))
    <2> HIDE DEF Bad
    <2> QED
      BY <1>1, <1>2, WFMin
  <1>4. PICK x \in T : TRUE
    OBVIOUS
  <1> DEFINE U == T \ {x}
  <1>5. U \notin Bad
    <2>1. U \in SUBSET S /\ T \in SUBSET S /\ U \subseteq T /\ U # T
      BY <1>4
    <2>2. <<U, T>> \in StrictSubsetOrdering(S)
      <3> HIDE DEF U, Bad
      <3> QED
        BY <2>1 DEF StrictSubsetOrdering
    <2> QED
      BY <1>3, <2>2
  <1>6. U # {}
    BY <1>4
  <1>7. PICK n \in U : \A m \in U \ {n} : <<n, m>> \in R
    BY <1>5, <1>6
  <1>8. CASE <<n, x>> \in R
    BY <1>4, <1>7, <1>8
  <1>9. CASE <<x, n>> \in R
    <2>1. \A m \in T \ {x} : <<x, m>> \in R
      BY <1>4, <1>7, <1>9
    <2> QED
      BY <1>4, <2>1
  <1> QED
    BY <1>4, <1>7, <1>8, <1>9

LEMMA SortKeyTyped ==
  ASSUME ColumnsTyped, NEW n \in Eligible
  PROVE  /\ n \in Names
         /\ SortKey(n) = <<SortKey(n)[1], SortKey(n)[2], SortKey(n)[3], Ordinal[n]>>
         /\ SortKey(n)[1] \in Int /\ SortKey(n)[2] \in Int /\ SortKey(n)[3] \in Int
         /\ Ordinal[n] \in Nat
  <1>1. n \in Present /\ n \in Names /\ dialect \in Dialects
    BY DEF Eligible, Present, ColumnsTyped
  <1>2. TypeRank(dialect, column[n].family) \in Int
    <2>1. DOMAIN Temporal[dialect] \subseteq Int
      BY <1>1 DEF Dialects, Temporal, OracleTemporal, SqlServerTemporal
    <2> QED
      BY <2>1 DEF TypeRank, Supported
  <1>3. EffectivePrecision(column[n]) \in Int
    BY <1>1, PresentShape, ShapeNumbers DEF EffectivePrecision
  <1>4. Semantic[n] \in Int /\ Ordinal[n] \in Nat
    BY <1>1, ColumnsAssumption
  <1> QED
    BY <1>1, <1>2, <1>3, <1>4 DEF SortKey

\* Before, spelled out.
LEMMA BeforeIs ==
  ASSUME NEW a, NEW b
  PROVE  Before(a, b) <=> \/ a[1] < b[1]
                          \/ a[1] = b[1] /\ a[2] < b[2]
                          \/ a[1] = b[1] /\ a[2] = b[2] /\ a[3] < b[3]
                          \/ a[1] = b[1] /\ a[2] = b[2] /\ a[3] = b[3] /\ a[4] < b[4]
  <1>1. 1 .. 4 = {1, 2, 3, 4} /\ 1 .. 1 - 1 = {} /\ 1 .. 2 - 1 = {1}
        /\ 1 .. 3 - 1 = {1, 2} /\ 1 .. 4 - 1 = {1, 2, 3}
    OBVIOUS
  <1> QED
    BY <1>1 DEF Before

\* NB01's choice exists: the key ends in the position, which no two columns share.
LEMMA PickIsEligible ==
  ASSUME ColumnsTyped, Eligible # {}
  PROVE  PickWatermark \in Eligible
  <1> DEFINE R == {p \in Eligible \X Eligible : Before(SortKey(p[1]), SortKey(p[2]))}
  <1>1. \A a, b \in Eligible : <<a, b>> \in R <=> Before(SortKey(a), SortKey(b))
    OBVIOUS
  <1>2. IsFiniteSet(Eligible)
    <2>1. Eligible \subseteq Names
      BY DEF Eligible, Present
    <2> QED
      BY <2>1, ColumnsAssumption, FS_Subset
  <1>3. \A a, b, c \in Eligible : <<a, b>> \in R /\ <<b, c>> \in R => <<a, c>> \in R
    <2> SUFFICES ASSUME NEW a \in Eligible, NEW b \in Eligible, NEW c \in Eligible,
                        Before(SortKey(a), SortKey(b)), Before(SortKey(b), SortKey(c))
                 PROVE  Before(SortKey(a), SortKey(c))
      BY <1>1
    <2> QED
      BY SortKeyTyped, BeforeIs
  <1>4. \A a, b \in Eligible : a # b => <<a, b>> \in R \/ <<b, a>> \in R
    <2> SUFFICES ASSUME NEW a \in Eligible, NEW b \in Eligible, a # b
                 PROVE  Before(SortKey(a), SortKey(b)) \/ Before(SortKey(b), SortKey(a))
      BY <1>1
    <2>1. Ordinal[a] # Ordinal[b]
      BY SortKeyTyped, ColumnsAssumption
    <2> QED
      BY <2>1, SortKeyTyped, BeforeIs
  <1>5. \E n \in Eligible : \A m \in Eligible \ {n} : <<n, m>> \in R
    <2> HIDE DEF R
    <2> QED
      BY <1>2, <1>3, <1>4, FiniteLeast
  <1>6. \E n \in Eligible : \A m \in Eligible \ {n} : Before(SortKey(n), SortKey(m))
    BY <1>1, <1>5
  <1> QED
    BY <1>6 DEF PickWatermark

LEMMA SelectIs ==
  ASSUME ColumnsTyped
  PROVE  SelectWatermark \in Eligible \cup {NoColumn}
  BY PickIsEligible DEF SelectWatermark, PickWatermark

\* The cursor is one of the columns and the strategy one of the five, whatever is
\* altered between two runs of NB01.
THEOREM ColumnsTypeCorrect == Spec => []TypeOK
  <1>1. Init => TypeOK
    BY DEF Init, TypeOK
  <1>2. TypeOK /\ [Next]_vars => TypeOK'
    <2> SUFFICES ASSUME TypeOK, [Next]_vars PROVE TypeOK'
      OBVIOUS
    <2>0. ColumnsTyped /\ ColumnsTyped'
      BY NextTyped DEF TypeOK, ColumnsTyped
    <2>1. CASE Inventory
      <3>1. SelectWatermark \in Names \cup {NoColumn}
        BY <2>0, SelectIs DEF Eligible, Present
      <3>2. StrategyFor(SelectWatermark) \in {"FULL_LOAD", "WATERMARK", "PRIMARY_KEY", "HYBRID"}
        BY DEF StrategyFor, TypeOK
      <3> QED
        BY <2>0, <2>1, <3>1, <3>2 DEF Inventory, TypeOK, ColumnsTyped
    <2>2. CASE AlterKey
      BY <2>0, <2>2 DEF AlterKey, TypeOK, ColumnsTyped
    <2>3. CASE Configure
      BY <2>0, <2>3 DEF Configure, TypeOK, ColumnsTyped
    <2>4. ASSUME NEW n \in Names, AlterColumn(n) PROVE TypeOK'
      BY <2>0, <2>4 DEF AlterColumn, TypeOK, ColumnsTyped
    <2>5. CASE UNCHANGED vars
      BY <2>0, <2>5 DEF vars, TypeOK, ColumnsTyped
    <2> QED
      BY <2>1, <2>2, <2>3, <2>4, <2>5 DEF Next
  <1> QED
    BY <1>1, <1>2, PTL DEF Spec

-----------------------------------------------------------------------------

\* A family the policy accepts has one rule in the mapper, to a temporal type.
LEMMA SupportedIsTemporal ==
  ASSUME NEW d \in Dialects, NEW f, Supported(d, f)
  PROVE  /\ f \notin {"NUMBER", "DECIMAL"}
         /\ Lookup(d, f).type.base \in {"TIMESTAMP", "DATE"}
  <1>1. CASE d = "oracle"
    <2>1. f \in {"TIMESTAMPTZ", "TIMESTAMPLTZ", "TIMESTAMP", "DATE"}
      BY <1>1 DEF Supported, Temporal, OracleTemporal
    <2>2. \E r \in OracleRules : r.family = f
      BY <2>1 DEF OracleRules, Rule
    <2>3. \A r \in OracleRules : r.family = f => r.mapped.type.base = "TIMESTAMP"
      BY <2>1 DEF OracleRules, Rule, Mapped, Exactly, Blocked, Plain, MicroTimestamp, DeltaType
    <2>4. Rules[d] = OracleRules
      BY <1>1 DEF Rules
    <2> QED
      BY <2>1, <2>2, <2>3, <2>4 DEF Lookup
  <1>2. CASE d = "sqlserver"
    <2>1. f \in {"DATETIMEOFFSET", "DATETIME2", "DATETIME", "SMALLDATETIME", "DATE"}
      BY <1>2 DEF Supported, Temporal, SqlServerTemporal
    <2>2. \E r \in SqlServerRules : r.family = f
      BY <2>1 DEF SqlServerRules, Rule
    <2>3. \A r \in SqlServerRules : r.family = f => r.mapped.type.base \in {"TIMESTAMP", "DATE"}
      BY <2>1 DEF SqlServerRules, Rule, Mapped, Exactly, Blocked, Plain, MicroTimestamp,
          DeltaType
    <2>4. Rules[d] = SqlServerRules
      BY <1>2 DEF Rules
    <2> QED
      BY <2>1, <2>2, <2>3, <2>4 DEF Lookup
  <1> QED
    BY <1>1, <1>2 DEF Dialects

\* The column NB01 selects is a date or timestamp in Delta, if NB07 lets the
\* table migrate: the policies of strategy.py and the mapper agree this way too.
THEOREM CursorArrivesTemporal == Spec => CursorIsReadable
  <1> DEFINE A == Inventory /\ AutoMigrates /\ cursor' # NoColumn
                  => Mapping(cursor').type.base \in {"TIMESTAMP", "DATE"}
  <1>1. ASSUME ColumnsTyped PROVE A
    <2> SUFFICES ASSUME Inventory, cursor' # NoColumn
                 PROVE  Mapping(cursor').type.base \in {"TIMESTAMP", "DATE"}
      OBVIOUS
    <2>1. cursor' \in Eligible
      BY <1>1, SelectIs DEF Inventory
    <2>2. dialect \in Dialects /\ Supported(dialect, column[cursor'].family)
      BY <1>1, <2>1 DEF Eligible, ColumnsTyped
    <2>3. MapSource(dialect, column[cursor']).type.base \in {"TIMESTAMP", "DATE"}
      BY <2>2, SupportedIsTemporal DEF MapSource
    <2> QED
      BY <2>2, <2>3, PolicyKeepsType DEF Mapping
  <1>2. ColumnsTyped => [A]_vars
    BY <1>1
  <1> QED
    BY <1>2, Typed, PTL DEF CursorIsReadable

=============================================================================
