------------------------------ MODULE ColumnRules ------------------------------
(***************************************************************************)
(* What the accelerator makes of one source column: src/strategy.py and the *)
(* adapters' watermark policies say whether it can be a cursor and how it   *)
(* ranks, src/crosssourcetypemapper.py gives its Delta type with a status   *)
(* and a fidelity.  The families are those that differ in a rule; VARCHAR2, *)
(* LONG and BFILE (VARCHAR, TEXT and SQL_VARIANT) stand for the others that *)
(* are AUTO, REVIEW and BLOCKED, UDT for the types without a rule, and      *)
(* TIMESTAMPTZ and TIMESTAMPLTZ abbreviate WITH (LOCAL) TIME ZONE.          *)
(***************************************************************************)
EXTENDS Integers

Dialects == {"oracle", "sqlserver"}
NONE == -1000                 \* metadata that is absent

Families == [oracle    |-> {"NUMBER", "TIMESTAMPTZ", "TIMESTAMPLTZ", "TIMESTAMP", "DATE",
                            "VARCHAR2", "LONG", "BFILE", "UDT"},
             sqlserver |-> {"DECIMAL", "BIGINT", "DATETIMEOFFSET", "DATETIME2", "DATETIME",
                            "SMALLDATETIME", "DATE", "TIMESTAMP", "VARCHAR", "TEXT",
                            "SQL_VARIANT", "UDT"}]

\* A column as the catalog reports it.  The scale of a temporal column is its
\* number of fractional digits; only Oracle has negative scales.
Shape(d) == [family : Families[d], precision : (Nat \ {0}) \cup {NONE},
             scale : IF d = "oracle" THEN Int ELSE Nat \cup {NONE},
             hidden : BOOLEAN, computed : BOOLEAN]

-----------------------------------------------------------------------------
(* The watermark policies.                                                 *)

\* Families in the order of their ranks; any other family is no watermark and
\* ranks last.
OracleTemporal    == <<"TIMESTAMPTZ", "TIMESTAMPLTZ", "TIMESTAMP", "DATE">>
SqlServerTemporal == <<"DATETIMEOFFSET", "DATETIME2", "DATETIME", "SMALLDATETIME", "DATE">>
Temporal == [oracle |-> OracleTemporal, sqlserver |-> SqlServerTemporal]

Supported(d, f) == \E i \in DOMAIN Temporal[d] : Temporal[d][i] = f
TypeRank(d, f)  == IF Supported(d, f)
                   THEN CHOOSE i \in DOMAIN Temporal[d] : Temporal[d][i] = f
                   ELSE 99

\* Declared fractional digits; DATE, DATETIME and SMALLDATETIME declare none.
EffectivePrecision(c) ==
    IF c.family \in {"DATE", "DATETIME", "SMALLDATETIME"} \/ c.scale = NONE
    THEN 0 ELSE c.scale

-----------------------------------------------------------------------------
(* The type mapper.  A Delta type is its base, its decimal digits and how    *)
(* many of them are behind the point.                                      *)

DeltaType(base, digits, scale) == [base |-> base, digits |-> digits, scale |-> scale]
Decimal(p, s) == DeltaType("DECIMAL", p, s)
Plain(base)   == DeltaType(base, 0, 0)

Mapped(type, status, fidelity) == [type |-> type, status |-> status, fidelity |-> fidelity]
Exactly(type) == Mapped(type, "AUTO", "EXACT")
Blocked(type) == Mapped(type, "BLOCKED", "UNKNOWN")

MaxDeltaPrecision == 38
Smaller(a, b) == IF a <= b THEN a ELSE b

\* Mutation: INT for ten-digit numbers.
WholeWide(p) == IF p <= 10 THEN DeltaType("INT", 9, 0) ELSE Decimal(p, 0)

\* NUMBER(p, 0) with p <= 38.
Whole(p) == IF p <= 4 THEN DeltaType("SMALLINT", 4, 0)
            ELSE IF p <= 9  THEN DeltaType("INT", 9, 0)
            ELSE IF p <= 18 THEN DeltaType("BIGINT", 18, 0)
            ELSE Decimal(p, 0)

\* Mutation: a scale above the precision is kept.
MapNumberUnclamped(p, s) ==
    IF p = NONE THEN Exactly(Decimal(38, 0)) ELSE Exactly(Decimal(p, IF s = NONE THEN 0 ELSE s))

MapNumber(p, s) ==
    IF p = NONE
    THEN IF s = NONE THEN Exactly(Decimal(38, 0)) ELSE Mapped(Decimal(38, 10), "REVIEW", "WIDENED")
    ELSE IF p > MaxDeltaPrecision THEN Blocked(Plain("STRING"))
    ELSE IF s \in {NONE, 0} THEN Exactly(Whole(p))
    ELSE IF s < 0 THEN Mapped(Decimal(Smaller(p - s, MaxDeltaPrecision), 0), "REVIEW", "WIDENED")
    ELSE Exactly(Decimal(p, Smaller(s, p)))

\* SQL Server decimal and numeric default to (18,0).
MapDecimal(p, s) ==
    LET q == IF p = NONE THEN 18 ELSE p
        r == IF s = NONE THEN 0 ELSE s
    IN  IF q > MaxDeltaPrecision THEN Blocked(Plain("NONE"))
        ELSE Exactly(Decimal(q, IF r < 0 THEN 0 ELSE Smaller(r, q)))

\* Delta keeps six fractional digits of a TIMESTAMP.
MicroTimestamp == DeltaType("TIMESTAMP", 0, 6)

Rule(family, mapped) == [family |-> family, mapped |-> mapped]

\* The flat rules.  SQL Server's TIMESTAMP is rowversion.
OracleRules ==
    {Rule("DATE", Mapped(MicroTimestamp, "AUTO", "WIDENED")),
     Rule("TIMESTAMP", Exactly(MicroTimestamp)),
     Rule("TIMESTAMPTZ", Mapped(MicroTimestamp, "REVIEW", "LOSSY")),
     Rule("TIMESTAMPLTZ", Mapped(MicroTimestamp, "REVIEW", "LOSSY")),
     Rule("VARCHAR2", Exactly(Plain("STRING"))),
     Rule("LONG", Mapped(Plain("STRING"), "REVIEW", "LOSSY")),
     Rule("BFILE", Blocked(Plain("STRING")))}

SqlServerRules ==
    {Rule("BIGINT", Exactly(DeltaType("BIGINT", 18, 0))),
     Rule("DATE", Exactly(Plain("DATE"))),
     Rule("DATETIME", Mapped(MicroTimestamp, "AUTO", "WIDENED")),
     Rule("SMALLDATETIME", Mapped(MicroTimestamp, "AUTO", "WIDENED")),
     Rule("DATETIME2", Mapped(MicroTimestamp, "AUTO", "LOSSY")),
     Rule("DATETIMEOFFSET", Mapped(MicroTimestamp, "REVIEW", "LOSSY")),
     Rule("TIMESTAMP", Exactly(Plain("BINARY"))),
     Rule("VARCHAR", Exactly(Plain("STRING"))),
     Rule("TEXT", Mapped(Plain("STRING"), "REVIEW", "LOSSY")),
     Rule("SQL_VARIANT", Blocked(Plain("NONE")))}

Rules == [oracle |-> OracleRules, sqlserver |-> SqlServerRules]

\* A type without a rule, such as a user-defined one, is blocked.
Lookup(d, f) == IF \E r \in Rules[d] : r.family = f
                THEN (CHOOSE r \in Rules[d] : r.family = f).mapped
                ELSE Blocked(Plain("NONE"))

MapSource(d, c) == IF c.family = "NUMBER" THEN MapNumber(c.precision, c.scale)
                   ELSE IF c.family = "DECIMAL" THEN MapDecimal(c.precision, c.scale)
                   ELSE Lookup(d, c.family)

\* NB03: SQL Server's hidden columns are blocked and computed ones reviewed.
MapColumn(d, c) ==
    IF d = "sqlserver" /\ c.hidden
    THEN [MapSource(d, c) EXCEPT !.status = "BLOCKED", !.fidelity = "UNKNOWN"]
    ELSE IF d = "sqlserver" /\ c.computed
    THEN [MapSource(d, c) EXCEPT !.status = "REVIEW", !.fidelity = "UNKNOWN"]
    ELSE MapSource(d, c)

-----------------------------------------------------------------------------
(* What a mapping promises.                                                *)

\* The type is one Delta accepts.
Legal(m) == m.type.base = "DECIMAL" =>
    m.type.digits \in 1 .. MaxDeltaPrecision /\ m.type.scale \in 0 .. m.type.digits

\* A number of precision p and scale s has at most p - s digits before the point
\* and s behind it; absent metadata promises nothing.
Numeric(c) == c.family \in {"NUMBER", "DECIMAL"} /\ c.precision # NONE /\ c.scale # NONE

MagnitudeFits(c, m) ==
    Numeric(c) /\ m.status = "AUTO" => m.type.digits - m.type.scale >= c.precision - c.scale

=============================================================================
