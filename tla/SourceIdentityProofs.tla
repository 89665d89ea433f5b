-------------------------- MODULE SourceIdentityProofs --------------------------
(***************************************************************************)
(* Proofs about SourceIdentity, for every set of texts, rows and seeds,     *)
(* every registration and every bound.                                      *)
(***************************************************************************)
EXTENDS SourceIdentity, TLAPS

-----------------------------------------------------------------------------
(* The inductive invariant.                                                *)

\* A row with an id has the id of its own columns; what was recorded in it was
\* recorded under that id.
Agrees(row) ==
    /\ row.id # NoId => row.id = IdOf(row)
    /\ row.inventoried \in {NoId, row.id}

\* Collected rows are stale, and agree all the same; a row in NB01's hands has
\* an id.
IInv ==
    /\ TypeOK
    /\ \A r \in Rows \cup Seeds : Agrees(control[r])
    /\ \A b \in todo \cup current : Agrees(b)
    /\ \A b \in current : b.id # NoId

-----------------------------------------------------------------------------
(* Lemmas about identities.                                                *)

LEMMA OrOracleTwice ==
    ASSUME NEW v \in Texts
    PROVE  /\ OrOracle(v) \in Texts
           /\ OrOracle(OrOracle(v)) = OrOracle(v)
BY TextsAssumption DEF OrOracle

\* An id is computed for a computable row only.
LEMMA IdOfTyped ==
    ASSUME NEW c, c.system \in Texts, c.server \in Texts, c.database \in Texts,
           c.schema \in Texts, c.table \in Texts, Computable(c)
    PROVE  IdOf(c) \in Ids
<1>1. System(OrOracle(c.system)) \in {"oracle", "sqlserver"}
  BY DEF Computable, System
<1>2. Folded(c.server) \in Texts /\ Folded(c.database) \in Texts
  BY TextsAssumption DEF Folded
<1>3. Trim[c.schema] \in Name /\ Trim[c.table] \in Name
  BY TextsAssumption DEF Computable, Named, Name
<1> QED
  BY <1>1, <1>2, <1>3 DEF IdOf, Ids

LEMMA NoIdIsNone == NoId \notin Ids
BY DEF NoId, Ids

\* The id depends on the place and the system read as 'oracle' where missing.
LEMMA SameIdentity ==
    ASSUME NEW c, NEW d, SamePlace(c, d), OrOracle(c.system) = OrOracle(d.system)
    PROVE  IdOf(c) = IdOf(d)
BY DEF IdOf, SamePlace

\* A row whose id is the one of its columns is computable.
LEMMA AgreesComputable ==
    ASSUME NEW b \in ControlRows, Agrees(b), b.id # NoId
    PROVE  IdOf(b) \in Ids /\ b.id = IdOf(b)
BY DEF Agrees, ControlRows

-----------------------------------------------------------------------------
(* What each UPDATE leaves behind.                                         *)

LEMMA BackfilledKept ==
    ASSUME IInv, NEW b \in todo, Computable(b)
    PROVE  /\ BackfilledBy(b) \in [Rows \cup Seeds -> ControlRows]
           /\ \A r \in Rows \cup Seeds : Agrees(BackfilledBy(b)[r])
<1> DEFINE ctl == BackfilledBy(b)
<1>1. b \in ControlRows /\ control \in [Rows \cup Seeds -> ControlRows]
  BY DEF IInv, TypeOK
<1>2. IdOf(b) \in Ids
  BY <1>1, IdOfTyped DEF ControlRows
<1>3. OrOracle(b.system) \in Texts /\ OrOracle(OrOracle(b.system)) = OrOracle(b.system)
  BY <1>1, OrOracleTwice DEF ControlRows
<1>4. ASSUME NEW r \in Rows \cup Seeds
      PROVE  ctl[r] \in ControlRows /\ Agrees(ctl[r])
  <2>1. control[r] \in ControlRows /\ Agrees(control[r])
    BY <1>1 DEF IInv
  <2>2. CASE ctl[r] = control[r]
    BY <2>1, <2>2
  <2>3. CASE ctl[r] # control[r]
    <3> DEFINE row == [control[r] EXCEPT !.id = IdOf(b), !.system = OrOracle(b.system)]
    <3>1. /\ ctl[r] = row
          /\ control[r].id = NoId
          /\ SamePlace(control[r], b)
      BY <1>1, <2>3 DEF BackfilledBy
    <3>2. row \in ControlRows
      BY <1>2, <1>3, <2>1 DEF ControlRows
    <3>3. row.id = IdOf(b) /\ row.system = OrOracle(b.system) /\ SamePlace(row, b)
          /\ row.inventoried = control[r].inventoried
      BY <2>1, <3>1 DEF ControlRows, SamePlace
    <3>4. IdOf(row) = IdOf(b)
      BY <1>3, <3>3, SameIdentity
    <3>5. control[r].inventoried = NoId
      BY <2>1, <3>1 DEF Agrees
    <3> HIDE DEF row
    <3> QED
      BY <3>1, <3>2, <3>3, <3>4, <3>5 DEF Agrees
  <2> QED
    BY <2>2, <2>3
<1>5. ctl = [r \in Rows \cup Seeds |-> ctl[r]]
  BY <1>1 DEF BackfilledBy
<1> QED
  BY <1>4, <1>5

LEMMA IdentifiedKept ==
    ASSUME IInv, NEW b \in todo, Computable(b)
    PROVE  /\ IdentifiedBy(b) \in [Rows \cup Seeds -> ControlRows]
           /\ \A r \in Rows \cup Seeds : Agrees(IdentifiedBy(b)[r])
<1> DEFINE ctl == IdentifiedBy(b)
<1>1. b \in ControlRows /\ control \in [Rows \cup Seeds -> ControlRows]
  BY DEF IInv, TypeOK
<1>2. IdOf(b) \in Ids
  BY <1>1, IdOfTyped DEF ControlRows
<1>3. OrOracle(OrOracle(b.system)) = OrOracle(b.system)
  BY <1>1, OrOracleTwice DEF ControlRows
<1>4. ASSUME NEW r \in Rows \cup Seeds
      PROVE  ctl[r] \in ControlRows /\ Agrees(ctl[r])
  <2>1. control[r] \in ControlRows /\ Agrees(control[r])
    BY <1>1 DEF IInv
  <2>2. CASE ctl[r] = control[r]
    BY <2>1, <2>2
  <2>3. CASE ctl[r] # control[r]
    <3> DEFINE row == [control[r] EXCEPT !.id = IdOf(b)]
    <3>1. /\ ctl[r] = row
          /\ SamePlace(control[r], b)
          /\ control[r].system = OrOracle(b.system)
      BY <1>1, <2>3 DEF IdentifiedBy
    <3>2. row \in ControlRows
      BY <1>2, <2>1 DEF ControlRows
    <3>3. row.id = IdOf(b) /\ row.system = OrOracle(b.system) /\ SamePlace(row, b)
          /\ row.inventoried = control[r].inventoried
      BY <2>1, <3>1 DEF ControlRows, SamePlace
    <3> HIDE DEF row
    <3>4. IdOf(row) = IdOf(b)
      BY <1>3, <3>3, SameIdentity
    <3>5. IdOf(control[r]) = IdOf(b)
      BY <1>3, <3>1, SameIdentity
    <3>6. control[r].inventoried \in {NoId, IdOf(b)}
      BY <2>1, <3>5 DEF Agrees
    <3> QED
      BY <3>1, <3>2, <3>3, <3>4, <3>6 DEF Agrees
  <2> QED
    BY <2>2, <2>3
<1>5. ctl = [r \in Rows \cup Seeds |-> ctl[r]]
  BY <1>1 DEF IdentifiedBy
<1> QED
  BY <1>4, <1>5

LEMMA RecordedKept ==
    ASSUME IInv, NEW b \in current
    PROVE  /\ RecordedFor(b) \in [Rows \cup Seeds -> ControlRows]
           /\ \A r \in Rows \cup Seeds : Agrees(RecordedFor(b)[r])
<1> DEFINE ctl == RecordedFor(b)
<1>1. b \in ControlRows /\ control \in [Rows \cup Seeds -> ControlRows] /\ run \in 0 .. MaxRuns
  BY DEF IInv, TypeOK
<1>2. IdOf(b) \in Ids /\ b.id = IdOf(b)
  BY <1>1, AgreesComputable DEF IInv
<1>3. ASSUME NEW r \in Rows \cup Seeds
      PROVE  ctl[r] \in ControlRows /\ Agrees(ctl[r])
  <2>1. control[r] \in ControlRows /\ Agrees(control[r])
    BY <1>1 DEF IInv
  <2>2. CASE ctl[r] = control[r]
    BY <2>1, <2>2
  <2>3. CASE ctl[r] # control[r]
    <3> DEFINE row == [control[r] EXCEPT !.inventoried = IdOf(b), !.asOf = run]
    <3>1. ctl[r] = row /\ control[r].id = IdOf(b)
      BY <1>1, <1>2, <2>3 DEF RecordedFor
    <3>2. row \in ControlRows
      BY <1>1, <1>2, <2>1 DEF ControlRows
    <3>3. row.id = IdOf(b) /\ row.inventoried = IdOf(b)
          /\ SamePlace(row, control[r]) /\ row.system = control[r].system
      BY <2>1, <3>1 DEF ControlRows, SamePlace
    <3>4. IdOf(row) = IdOf(control[r])
      BY <3>3, SameIdentity
    <3>5. IdOf(control[r]) = IdOf(b)
      BY <1>2, <2>1, <3>1, NoIdIsNone DEF Agrees
    <3> HIDE DEF row
    <3> QED
      BY <3>1, <3>2, <3>3, <3>4, <3>5 DEF Agrees
  <2> QED
    BY <2>2, <2>3
<1>4. ctl = [r \in Rows \cup Seeds |-> ctl[r]]
  BY <1>1 DEF RecordedFor
<1> QED
  BY <1>3, <1>4

\* A fresh row, with no id or with the one of its columns.
LEMMA RowKept ==
    ASSUME NEW c \in Columns, NEW id, id = NoId \/ (id = IdOf(c) /\ id \in Ids)
    PROVE  Row(c, id) \in ControlRows /\ Agrees(Row(c, id))
<1>1. Row(c, id) \in ControlRows
  BY BoundsAssumption DEF Row, ControlRows, Columns
<1>2. SamePlace(Row(c, id), c) /\ Row(c, id).system = c.system /\ Row(c, id).id = id
      /\ Row(c, id).inventoried = NoId
  BY DEF Row, SamePlace, Columns
<1>3. IdOf(Row(c, id)) = IdOf(c)
  BY <1>2, SameIdentity
<1> QED
  BY <1>1, <1>2, <1>3 DEF Agrees

-----------------------------------------------------------------------------
(* The invariant is inductive.                                             *)

LEMMA InitIInv == Init => IInv
<1> SUFFICES ASSUME Init PROVE IInv
  OBVIOUS
<1>1. PICK columns \in [Rows -> Registrations] :
         control = [r \in Rows \cup Seeds |->
                      Row(IF r \in Rows THEN columns[r] ELSE SeedOf[r], NoId)]
  BY DEF Init
<1>2. ASSUME NEW r \in Rows \cup Seeds
      PROVE  control[r] \in ControlRows /\ Agrees(control[r])
  <2> DEFINE c == IF r \in Rows THEN columns[r] ELSE SeedOf[r]
  <2>1. c \in Columns
    BY <1>1, RowsAssumption
  <2>2. control[r] = Row(c, NoId)
    BY <1>1
  <2> HIDE DEF c
  <2> QED
    BY <2>1, <2>2, RowKept
<1>3. control \in [Rows \cup Seeds -> ControlRows]
  BY <1>1, <1>2
<1> QED
  BY <1>2, <1>3, BoundsAssumption DEF Init, IInv, TypeOK

LEMMA NextIInv == IInv /\ [Next]_vars => IInv'
<1> SUFFICES ASSUME IInv, [Next]_vars PROVE IInv'
  OBVIOUS
<1> USE DEF IInv, TypeOK
<1>1. ASSUME NEW r \in Rows, Register(r) PROVE IInv'
  BY <1>1 DEF Register
<1>2. CASE StartRun
  <2> DEFINE collected == {control[r] : r \in {q \in registered : /\ control[q].id = NoId
                                                                 /\ control[q].schema # Null
                                                                 /\ control[q].table # Null}}
  <2>1. collected \subseteq {control[r] : r \in Rows \cup Seeds}
    OBVIOUS
  <2>2. todo' \in SUBSET ControlRows /\ \A b \in todo' : Agrees(b)
    BY <1>2, <2>1 DEF StartRun
  <2>3. run' \in 0 .. MaxRuns
    BY <1>2, BoundsAssumption DEF StartRun
  <2>4. /\ control' = control /\ registered' = registered /\ current' = current
        /\ faults' = faults /\ phase' = "backfill" /\ late' = {} /\ handled' = {}
    BY <1>2 DEF StartRun
  <2> QED
    BY <2>2, <2>3, <2>4
<1>3. ASSUME NEW b \in todo, Backfill(b) PROVE IInv'
  <2>1. /\ todo' = todo \ {b}
        /\ UNCHANGED <<registered, late, phase, run, current, handled, faults>>
    BY <1>3 DEF Backfill
  <2>2. /\ control' \in [Rows \cup Seeds -> ControlRows]
        /\ \A r \in Rows \cup Seeds : Agrees(control'[r])
    <3>1. CASE Computable(b)
      BY <1>3, <3>1, BackfilledKept DEF Backfill
    <3>2. CASE ~Computable(b)
      BY <1>3, <3>2 DEF Backfill
    <3> QED
      BY <3>1, <3>2
  <2> QED
    BY <2>1, <2>2
<1>4. CASE Seed
  <2>1. ASSUME NEW r \in Rows \cup Seeds
        PROVE  control'[r] \in ControlRows /\ Agrees(control'[r])
    <3>1. CASE r \in Unmatched
      <4>1. r \in Seeds /\ SeedOf[r] \in Columns /\ Computable(SeedOf[r])
        BY <3>1, RowsAssumption, SeedsAssumption DEF Unmatched
      <4>2. IdOf(SeedOf[r]) \in Ids
        BY <4>1, IdOfTyped DEF Columns
      <4>3. control'[r] = Row(SeedOf[r], IdOf(SeedOf[r]))
        BY <1>4, <3>1 DEF Seed
      <4> QED
        BY <4>1, <4>2, <4>3, RowKept
    <3>2. CASE r \notin Unmatched
      BY <1>4, <3>2 DEF Seed
    <3> QED
      BY <3>1, <3>2
  <2>2. control' \in [Rows \cup Seeds -> ControlRows]
    BY <1>4, <2>1 DEF Seed
  <2>3. registered' \subseteq Rows \cup Seeds
    BY <1>4 DEF Seed, Unmatched
  <2>4. /\ phase' = "seeded"
        /\ UNCHANGED <<late, run, todo, current, handled, faults>>
    BY <1>4 DEF Seed
  <2> QED
    BY <2>1, <2>2, <2>3, <2>4
<1>5. CASE ReadActive
  <2>1. todo' \in SUBSET ControlRows /\ \A b \in todo' : Agrees(b)
    BY <1>5 DEF ReadActive
  <2>2. /\ phase' = "inventory" /\ handled' = registered
        /\ UNCHANGED <<control, registered, late, run, current, faults>>
    BY <1>5 DEF ReadActive
  <2> QED
    BY <2>1, <2>2
<1>6. ASSUME NEW b \in todo, Identify(b) PROVE IInv'
  <2>1. /\ todo' = todo \ {b}
        /\ UNCHANGED <<registered, late, phase, run, handled, faults>>
    BY <1>6 DEF Identify
  <2>2. CASE b.id = NoId /\ ~Computable(b)
    BY <1>6, <2>1, <2>2 DEF Identify
  <2>3. CASE b.id # NoId
    <3>1. control' = control
      BY <1>6, <2>3 DEF Identify
    <3>2. current' = {b}
      BY <1>6, <2>3 DEF Identify, ControlRows
    <3> QED
      BY <2>1, <2>3, <3>1, <3>2
  <2>4. CASE b.id = NoId /\ Computable(b)
    <3> DEFINE given == [b EXCEPT !.id = IdOf(b)]
    <3>1. IdOf(b) \in Ids /\ IdOf(b) # NoId
      BY <2>4, IdOfTyped, NoIdIsNone DEF ControlRows
    <3>2. given \in ControlRows /\ given.id = IdOf(b) /\ given.inventoried = b.inventoried
          /\ SamePlace(given, b) /\ given.system = b.system
      BY <3>1 DEF ControlRows, SamePlace
    <3>3. IdOf(given) = IdOf(b)
      BY <3>2, SameIdentity
    <3>4. Agrees(given)
      BY <2>4, <3>2, <3>3 DEF Agrees
    <3>5. current' = {given}
      BY <1>6, <2>4 DEF Identify
    <3>6. /\ control' \in [Rows \cup Seeds -> ControlRows]
          /\ \A r \in Rows \cup Seeds : Agrees(control'[r])
      BY <1>6, <2>4, IdentifiedKept DEF Identify
    <3> HIDE DEF given
    <3> QED
      BY <2>1, <3>1, <3>2, <3>4, <3>5, <3>6
  <2> QED
    BY <2>2, <2>3, <2>4
<1>7. CASE Record
  <2>1. PICK b \in current : control' = RecordedFor(b)
    BY <1>7 DEF Record
  <2>2. /\ control' \in [Rows \cup Seeds -> ControlRows]
        /\ \A r \in Rows \cup Seeds : Agrees(control'[r])
    BY <2>1, RecordedKept
  <2> QED
    BY <1>7, <2>2 DEF Record
<1>8. CASE EndRun
  BY <1>8 DEF EndRun
<1>9. CASE Fail
  BY <1>9, BoundsAssumption DEF Fail
<1>10. CASE UNCHANGED vars
  BY <1>10 DEF vars
<1> QED
  BY <1>1, <1>2, <1>3, <1>4, <1>5, <1>6, <1>7, <1>8, <1>9, <1>10 DEF Next

LEMMA Inductive == Spec => []IInv
BY InitIInv, NextIInv, PTL DEF Spec

-----------------------------------------------------------------------------
(* Seeding.                                                                *)

\* While NB00 backfills, a row it must give an id to still has a collected row
\* at its place; rows nobody registered have no id.
Awaited(r) ==
    \/ control[r].id # NoId
    \/ \E b \in todo : SamePlace(control[r], b) /\ Computable(b)

SeedInv ==
    /\ phase = "backfill" => \A r \in registered \ late : Computable(control[r]) => Awaited(r)
    /\ \A r \in Rows \ registered : control[r].id = NoId

LEMMA InitSeedInv == Init => SeedInv
<1> SUFFICES ASSUME Init, NEW r \in Rows PROVE control[r].id = NoId
  BY DEF SeedInv, Init
<1> QED
  BY DEF Init, Row

LEMMA NextSeedInv == IInv /\ SeedInv /\ [Next]_vars => SeedInv'
<1> SUFFICES ASSUME IInv, SeedInv, [Next]_vars PROVE SeedInv'
  OBVIOUS
<1>0. /\ control \in [Rows \cup Seeds -> ControlRows]
      /\ registered \subseteq Rows \cup Seeds
      /\ todo \subseteq ControlRows
  BY DEF IInv, TypeOK
<1>1. ASSUME NEW r \in Rows, Register(r) PROVE SeedInv'
  BY <1>1 DEF Register, SeedInv, Awaited
<1>2. CASE StartRun
  <2>1. /\ control' = control /\ registered' = registered /\ late' = {}
        /\ todo' = {control[r] : r \in {q \in registered : /\ control[q].id = NoId
                                                           /\ control[q].schema # Null
                                                           /\ control[q].table # Null}}
    BY <1>2 DEF StartRun
  <2>2. ASSUME NEW r \in registered, Computable(control[r]) PROVE Awaited(r)'
    <3>1. control[r].schema # Null /\ control[r].table # Null
      BY <2>2 DEF Computable, Named
    <3>2. control[r].id = NoId => control[r] \in todo'
      BY <2>1, <3>1
    <3>3. SamePlace(control[r], control[r])
      BY DEF SamePlace
    <3> QED
      BY <2>1, <2>2, <3>2, <3>3 DEF Awaited
  <2> QED
    BY <2>1, <2>2 DEF SeedInv
<1>3. ASSUME NEW b \in todo, Backfill(b) PROVE SeedInv'
  <2>1. /\ todo' = todo \ {b} /\ phase = "backfill"
        /\ registered' = registered /\ late' = late
        /\ control' = IF Computable(b) THEN BackfilledBy(b) ELSE control
    BY <1>3 DEF Backfill
  <2>2. ASSUME NEW r \in registered \ late, Computable(control'[r]) PROVE Awaited(r)'
    <3>1. CASE control'[r] = control[r]
      <4>1. Awaited(r)
        BY <2>1, <2>2, <3>1 DEF SeedInv
      <4>2. CASE control[r].id # NoId
        BY <3>1, <4>2 DEF Awaited
      <4>3. CASE control[r].id = NoId
        <5>1. PICK d \in todo : SamePlace(control[r], d) /\ Computable(d)
          BY <4>1, <4>3 DEF Awaited
        <5>2. CASE d # b
          BY <2>1, <3>1, <5>1, <5>2 DEF Awaited
        <5>3. CASE d = b
          <6>1. control'[r] = [control[r] EXCEPT !.id = IdOf(b), !.system = OrOracle(b.system)]
            BY <1>0, <2>1, <4>3, <5>1, <5>3 DEF BackfilledBy
          <6>2. control'[r].id = IdOf(b)
            BY <1>0, <6>1 DEF ControlRows
          <6>3. IdOf(b) # NoId
            BY <1>0, <5>1, <5>3, IdOfTyped, NoIdIsNone DEF ControlRows
          <6> QED
            BY <6>2, <6>3 DEF Awaited
        <5> QED
          BY <5>2, <5>3
      <4> QED
        BY <4>2, <4>3
    <3>2. CASE control'[r] # control[r]
      <4>1. /\ Computable(b)
            /\ control'[r] = [control[r] EXCEPT !.id = IdOf(b), !.system = OrOracle(b.system)]
        BY <1>0, <2>1, <3>2 DEF BackfilledBy
      <4>2. control'[r].id = IdOf(b)
        BY <1>0, <4>1 DEF ControlRows
      <4>3. IdOf(b) # NoId
        BY <1>0, <4>1, IdOfTyped, NoIdIsNone DEF ControlRows
      <4> QED
        BY <4>2, <4>3 DEF Awaited
    <3> QED
      BY <3>1, <3>2
  <2>3. \A r \in Rows \ registered : control'[r] = control[r]
    BY <1>0, <2>1 DEF BackfilledBy
  <2> QED
    BY <2>1, <2>2, <2>3 DEF SeedInv
<1>4. CASE Seed
  <2>1. \A r \in Rows : control'[r] = control[r]
    BY <1>0, <1>4, RowsAssumption DEF Seed, Unmatched
  <2> QED
    BY <1>4, <2>1 DEF Seed, SeedInv
<1>5. CASE ReadActive
  BY <1>5 DEF ReadActive, SeedInv
<1>6. ASSUME NEW b \in todo, Identify(b) PROVE SeedInv'
  <2>1. \A r \in Rows \ registered : control'[r] = control[r]
    BY <1>0, <1>6 DEF Identify, IdentifiedBy
  <2> QED
    BY <1>6, <2>1 DEF Identify, SeedInv
<1>7. CASE Record
  <2>1. \A r \in Rows \ registered : control'[r] = control[r]
    BY <1>0, <1>7 DEF Record, RecordedFor
  <2> QED
    BY <1>7, <2>1 DEF Record, SeedInv
<1>8. CASE EndRun
  BY <1>8 DEF EndRun, SeedInv
<1>9. CASE Fail
  BY <1>9 DEF Fail, SeedInv
<1>10. CASE UNCHANGED vars
  BY <1>10 DEF vars, SeedInv, Awaited
<1> QED
  BY <1>1, <1>2, <1>3, <1>4, <1>5, <1>6, <1>7, <1>8, <1>9, <1>10 DEF Next

\* What a step may seed.
SeedsOnceStep ==
    \A s \in registered' \ registered, r \in registered \ late :
       Computable(control[r]) => IdOf(control[r]) # control'[s].id

LEMMA StepSeedsOnce == IInv /\ SeedInv /\ [Next]_vars => SeedsOnceStep
<1> SUFFICES ASSUME IInv, SeedInv, [Next]_vars,
                    NEW s \in registered' \ registered, NEW r \in registered \ late,
                    Computable(control[r])
             PROVE  IdOf(control[r]) # control'[s].id
  BY DEF SeedsOnceStep
<1>0. control \in [Rows \cup Seeds -> ControlRows] /\ registered \subseteq Rows \cup Seeds
  BY DEF IInv, TypeOK
<1>1. IdOf(control[r]) \in Ids
  BY <1>0, IdOfTyped DEF ControlRows
<1>2. ASSUME NEW q \in Rows, Register(q) PROVE IdOf(control[r]) # control'[s].id
  <2>1. s = q /\ control' = control
    BY <1>2 DEF Register
  <2>2. control[s].id = NoId
    BY <2>1 DEF SeedInv
  <2> QED
    BY <1>1, <2>1, <2>2, NoIdIsNone
<1>3. CASE Seed
  <2>1. s \in Unmatched /\ control'[s] = Row(SeedOf[s], IdOf(SeedOf[s]))
    BY <1>0, <1>3, RowsAssumption DEF Seed, Unmatched
  <2>2. control'[s].id = IdOf(SeedOf[s])
    BY <2>1 DEF Row
  <2>3. control[r].id # NoId
    BY <1>3 DEF Seed, SeedInv, Awaited
  <2>4. control[r].id = IdOf(control[r])
    BY <1>0, <2>3 DEF IInv, Agrees
  <2> QED
    BY <2>1, <2>2, <2>4 DEF Unmatched
<1>4. CASE registered' = registered
  BY <1>4
<1>5. Seed \/ registered' = registered \/ \E q \in Rows : Register(q)
  BY DEF Next, StartRun, Backfill, ReadActive, Identify, Record, EndRun, Fail, vars
<1> QED
  BY <1>2, <1>3, <1>4, <1>5

-----------------------------------------------------------------------------
(* NB01's rows.                                                            *)

\* What the UPDATEs of NB01 look at besides the id.
SameColumns(c, d) == SamePlace(c, d) /\ c.system = d.system

\* NB01's work on b ends in r: by id, or by identity where b came without one.
Reaches(b, r) ==
    /\ b.id # NoId => control[r].id = b.id
    /\ b.id = NoId => /\ Computable(b)
                      /\ SamePlace(control[r], b)
                      /\ control[r].system = OrOracle(b.system)

Answered(r) ==
    \/ control[r].asOf = run
    \/ ~Computable(control[r])
    \/ control[r].system \in {Null, Empty}

\* A handled row has its answer, or what NB01 still holds reaches it.
HandledInv ==
    /\ handled \subseteq registered
    /\ \A b, c \in current : b = c
    /\ phase = "inventory" =>
          \A r \in handled : Answered(r) \/ \E b \in todo \cup current : Reaches(b, r)

\* An id is never taken away, and never replaced by another one.
LEMMA IdentifyKeeps ==
    ASSUME IInv, NEW b \in todo, Identify(b), NEW r \in Rows \cup Seeds
    PROVE  /\ SameColumns(control'[r], control[r])
           /\ control'[r].asOf = control[r].asOf
           /\ control[r].id # NoId => control'[r].id = control[r].id
           /\ b.id = NoId /\ r \in registered /\ Reaches(b, r) => control'[r].id = IdOf(b)
<1>0. /\ control \in [Rows \cup Seeds -> ControlRows] /\ control[r] \in ControlRows
      /\ b \in ControlRows /\ Agrees(control[r])
  BY DEF IInv, TypeOK
<1>1. CASE control' = control /\ (b.id = NoId => ~Computable(b))
  BY <1>1 DEF SameColumns, SamePlace, Reaches
<1>2. CASE b.id = NoId /\ control' = IdentifiedBy(b)
  <2>1. CASE control'[r] = control[r]
    <3>1. r \in registered /\ Reaches(b, r) => control'[r] = [control[r] EXCEPT !.id = IdOf(b)]
      BY <1>0, <1>2 DEF IdentifiedBy, Reaches
    <3>2. [control[r] EXCEPT !.id = IdOf(b)].id = IdOf(b)
      BY <1>0 DEF ControlRows
    <3> QED
      BY <2>1, <3>1, <3>2 DEF SameColumns, SamePlace
  <2>2. CASE control'[r] # control[r]
    <3> DEFINE row == [control[r] EXCEPT !.id = IdOf(b)]
    <3>1. /\ control'[r] = row /\ SamePlace(control[r], b)
          /\ control[r].system = OrOracle(b.system)
      BY <1>0, <1>2, <2>2 DEF IdentifiedBy
    <3>2. /\ row.id = IdOf(b) /\ row.asOf = control[r].asOf
          /\ SameColumns(row, control[r])
      BY <1>0 DEF ControlRows, SameColumns, SamePlace
    <3>3. OrOracle(OrOracle(b.system)) = OrOracle(b.system)
      BY <1>0, OrOracleTwice DEF ControlRows
    <3>4. IdOf(control[r]) = IdOf(b)
      BY <3>1, <3>3, SameIdentity
    <3>5. control[r].id # NoId => control[r].id = IdOf(b)
      BY <1>0, <3>4 DEF Agrees
    <3> HIDE DEF row
    <3> QED
      BY <3>1, <3>2, <3>5
  <2> QED
    BY <2>1, <2>2
<1>3. \/ control' = control /\ (b.id = NoId => ~Computable(b))
      \/ b.id = NoId /\ control' = IdentifiedBy(b)
  <2>1. CASE b.id = NoId /\ ~Computable(b)
    BY <2>1 DEF Identify
  <2>2. CASE b.id = NoId /\ Computable(b)
    BY <2>2 DEF Identify
  <2>3. CASE b.id # NoId
    BY <2>3 DEF Identify
  <2> QED
    BY <2>1, <2>2, <2>3
<1> QED
  BY <1>1, <1>2, <1>3

LEMMA IdentifyHandles ==
    ASSUME IInv, HandledInv, NEW b \in todo, Identify(b)
    PROVE  HandledInv'
<1>0. /\ registered \subseteq Rows \cup Seeds /\ b \in ControlRows
      /\ todo \subseteq ControlRows /\ handled \subseteq registered
  BY DEF IInv, TypeOK, HandledInv
<1>1. /\ phase = "inventory" /\ current = {} /\ todo' = todo \ {b}
      /\ registered' = registered /\ run' = run /\ handled' = handled
  BY DEF Identify
<1>2. ASSUME NEW r \in handled
      PROVE  Answered(r)' \/ \E c \in todo' \cup current' : Reaches(c, r)'
  <2>1. /\ SameColumns(control'[r], control[r])
        /\ control'[r].asOf = control[r].asOf
        /\ control[r].id # NoId => control'[r].id = control[r].id
        /\ b.id = NoId /\ r \in registered /\ Reaches(b, r) => control'[r].id = IdOf(b)
    BY <1>0, IdentifyKeeps
  <2>2. CASE Answered(r)
    <3>1. Computable(control'[r]) => Computable(control[r])
      BY <2>1 DEF SameColumns, SamePlace, Computable
    <3> QED
      BY <1>1, <2>1, <2>2, <3>1 DEF Answered, SameColumns
  <2>3. ASSUME NEW c \in todo \ {b}, Reaches(c, r)
        PROVE  Reaches(c, r)'
    BY <2>1, <2>3 DEF Reaches, SameColumns, SamePlace
  <2>4. CASE Reaches(b, r)
    <3>1. CASE b.id # NoId
      <4>1. current' = {b}
        BY <1>0, <3>1 DEF Identify, ControlRows
      <4>2. Reaches(b, r)'
        BY <2>1, <2>4, <3>1 DEF Reaches
      <4> QED
        BY <4>1, <4>2
    <3>2. CASE b.id = NoId
      <4> DEFINE given == [b EXCEPT !.id = IdOf(b)]
      <4>1. Computable(b)
        BY <2>4, <3>2 DEF Reaches
      <4>2. current' = {given}
        BY <3>2, <4>1 DEF Identify
      <4>3. given.id = IdOf(b)
        BY <1>0 DEF ControlRows
      <4>4. IdOf(b) # NoId
        BY <1>0, <4>1, IdOfTyped, NoIdIsNone DEF ControlRows
      <4>5. control'[r].id = IdOf(b)
        BY <1>0, <2>1, <2>4, <3>2
      <4> HIDE DEF given
      <4>6. Reaches(given, r)'
        BY <4>3, <4>4, <4>5 DEF Reaches
      <4> QED
        BY <4>2, <4>6
    <3> QED
      BY <3>1, <3>2
  <2> QED
    BY <1>1, <2>2, <2>3, <2>4 DEF HandledInv
<1>3. \A c, d \in current' : c = d
  BY <1>1 DEF Identify
<1> QED
  BY <1>0, <1>1, <1>2, <1>3 DEF HandledInv

LEMMA RecordHandles ==
    ASSUME IInv, HandledInv, Record
    PROVE  HandledInv'
<1>0. /\ control \in [Rows \cup Seeds -> ControlRows]
      /\ registered \subseteq Rows \cup Seeds /\ handled \subseteq registered
  BY DEF IInv, TypeOK, HandledInv
<1>1. PICK b \in current : control' = RecordedFor(b)
  BY DEF Record
<1>2. /\ phase = "inventory" /\ current' = {} /\ todo' = todo
      /\ registered' = registered /\ run' = run /\ handled' = handled
  BY DEF Record
<1>3. ASSUME NEW r \in handled
      PROVE  Answered(r)' \/ \E c \in todo' \cup current' : Reaches(c, r)'
  <2> DEFINE row == [control[r] EXCEPT !.inventoried = IdOf(b), !.asOf = run]
  <2>1. control[r] \in ControlRows
    BY <1>0
  <2>2. /\ row.asOf = run /\ row.id = control[r].id /\ SameColumns(row, control[r])
    BY <2>1 DEF ControlRows, SameColumns, SamePlace
  <2>3. /\ control'[r] \in {control[r], row}
        /\ control[r].id = b.id => control'[r] = row
    BY <1>0, <1>1 DEF RecordedFor
  <2> HIDE DEF row
  <2>4. \/ control'[r].asOf = run
        \/ control'[r] = control[r] /\ control[r].id # b.id
    BY <2>2, <2>3
  <2>5. CASE control'[r].asOf = run
    BY <1>2, <2>5 DEF Answered
  <2>6. CASE control'[r] = control[r] /\ control[r].id # b.id
    <3>1. CASE Answered(r)
      BY <1>2, <2>6, <3>1 DEF Answered
    <3>2. ASSUME NEW c \in todo \cup current, Reaches(c, r)
          PROVE  \E d \in todo' \cup current' : Reaches(d, r)'
      <4>1. b.id # NoId
        BY DEF IInv
      <4>2. c # b
        BY <2>6, <3>2, <4>1 DEF Reaches
      <4>3. c \in todo
        BY <4>2 DEF HandledInv
      <4> QED
        BY <1>2, <2>6, <3>2, <4>3 DEF Reaches
    <3> QED
      BY <1>2, <3>1, <3>2 DEF HandledInv
  <2> QED
    BY <2>4, <2>5, <2>6
<1> QED
  BY <1>0, <1>2, <1>3 DEF HandledInv

LEMMA NextHandledInv == IInv /\ HandledInv /\ [Next]_vars => HandledInv'
<1> SUFFICES ASSUME IInv, HandledInv, [Next]_vars PROVE HandledInv'
  OBVIOUS
<1>1. ASSUME NEW r \in Rows, Register(r) PROVE HandledInv'
  BY <1>1 DEF Register, HandledInv, Answered, Reaches
<1>2. CASE ReadActive
  <2>1. /\ handled' = registered /\ registered' = registered /\ control' = control
        /\ current' = current /\ todo' = {control[r] : r \in registered}
    BY <1>2 DEF ReadActive
  <2>2. ASSUME NEW r \in registered
        PROVE  Answered(r)' \/ \E b \in todo' \cup current' : Reaches(b, r)'
    <3>1. control[r] \in todo'
      BY <2>1
    <3>2. SamePlace(control[r], control[r])
      BY DEF SamePlace
    <3>3. OrOracle(control[r].system) \in {control[r].system, Oracle}
          /\ (control[r].system \notin {Null, Empty}
                => OrOracle(control[r].system) = control[r].system)
      BY DEF OrOracle
    <3> QED
      BY <2>1, <3>1, <3>2, <3>3 DEF Answered, Reaches
  <2> QED
    BY <2>1, <2>2 DEF HandledInv
<1>3. ASSUME NEW b \in todo, Identify(b) PROVE HandledInv'
  BY <1>3, IdentifyHandles
<1>4. CASE Record
  BY <1>4, RecordHandles
<1>5. CASE StartRun
  BY <1>5 DEF StartRun, HandledInv
<1>6. ASSUME NEW b \in todo, Backfill(b) PROVE HandledInv'
  BY <1>6 DEF Backfill, HandledInv
<1>7. CASE Seed
  BY <1>7 DEF Seed, HandledInv
<1>8. CASE EndRun \/ Fail
  BY <1>8 DEF EndRun, Fail, HandledInv
<1>9. CASE UNCHANGED vars
  BY <1>9 DEF vars, HandledInv, Answered, Reaches
<1> QED
  BY <1>1, <1>2, <1>3, <1>4, <1>5, <1>6, <1>7, <1>8, <1>9 DEF Next

-----------------------------------------------------------------------------
(* Ids that are there.                                                     *)

\* A seed in the table has the id NB00 gave it.
SeededInv ==
    \A s \in Seeds \cap registered : control[s].id = IdOf(SeedOf[s])

LEMMA SeedIds == \A s \in Seeds : IdOf(SeedOf[s]) # NoId
BY SeedsAssumption, RowsAssumption, IdOfTyped, NoIdIsNone DEF Columns

IdsAreFinalStep ==
    \A r \in registered : control[r].id # NoId =>
       /\ control'[r].id = control[r].id
       /\ SourceOf(control'[r]) = SourceOf(control[r])

LEMMA StepIdsAreFinal == IInv /\ SeededInv /\ [Next]_vars => IdsAreFinalStep
<1> SUFFICES ASSUME IInv, SeededInv, [Next]_vars,
                    NEW r \in registered, control[r].id # NoId
             PROVE  /\ control'[r].id = control[r].id
                    /\ SourceOf(control'[r]) = SourceOf(control[r])
  BY DEF IdsAreFinalStep
<1>0. /\ control \in [Rows \cup Seeds -> ControlRows] /\ registered \subseteq Rows \cup Seeds
      /\ r \in Rows \cup Seeds
  BY DEF IInv, TypeOK
<1>1. CASE control'[r] = control[r]
  BY <1>1
<1>2. ASSUME NEW b \in todo, Backfill(b) PROVE control'[r] = control[r]
  BY <1>0, <1>2 DEF Backfill, BackfilledBy
<1>3. CASE Seed
  <2>1. r \notin Unmatched
    BY DEF Unmatched, SeededInv
  <2> QED
    BY <1>0, <1>1, <1>3, <2>1 DEF Seed
<1>4. ASSUME NEW b \in todo, Identify(b)
      PROVE  /\ control'[r].id = control[r].id
             /\ SourceOf(control'[r]) = SourceOf(control[r])
  <2>1. /\ SameColumns(control'[r], control[r])
        /\ control[r].id # NoId => control'[r].id = control[r].id
    BY <1>0, <1>4, IdentifyKeeps
  <2> QED
    BY <2>1 DEF SameColumns, SamePlace, SourceOf
<1>5. CASE Record
  <2>1. PICK b \in current : control' = RecordedFor(b)
    BY <1>5 DEF Record
  <2>2. \/ control'[r] = control[r]
        \/ control'[r] = [control[r] EXCEPT !.inventoried = IdOf(b), !.asOf = run]
    BY <1>0, <2>1 DEF RecordedFor
  <2>3. control[r] \in ControlRows
    BY <1>0
  <2> QED
    BY <2>2, <2>3 DEF ControlRows, SourceOf
<1>6. \/ \E b \in todo : Backfill(b) \/ Identify(b)
      \/ Seed \/ Record \/ control' = control
  BY DEF Next, Register, StartRun, ReadActive, EndRun, Fail, vars
<1> QED
  BY <1>1, <1>2, <1>3, <1>4, <1>5, <1>6

LEMMA NextSeededInv == IInv /\ SeededInv /\ [Next]_vars => SeededInv'
<1> SUFFICES ASSUME IInv, SeededInv, [Next]_vars, NEW s \in Seeds \cap registered'
             PROVE  control'[s].id = IdOf(SeedOf[s])'
  BY DEF SeededInv
<1>1. CASE s \in registered
  <2>1. control[s].id = IdOf(SeedOf[s]) /\ control[s].id # NoId
    BY <1>1, SeedIds DEF SeededInv
  <2> QED
    BY <1>1, <2>1, StepIdsAreFinal DEF IdsAreFinalStep
<1>2. CASE s \notin registered
  <2>1. CASE Seed
    <3>1. control'[s] = Row(SeedOf[s], IdOf(SeedOf[s]))
      BY <1>2, <2>1 DEF Seed, IInv, TypeOK
    <3> QED
      BY <3>1 DEF Row
  <2>2. Seed
    BY <1>2, RowsAssumption DEF Next, Register, StartRun, Backfill, ReadActive, Identify,
       Record, EndRun, Fail, vars
  <2> QED
    BY <2>1, <2>2
<1> QED
  BY <1>1, <1>2

-----------------------------------------------------------------------------
(* The theorems.                                                           *)

\* The state keeps its types: in particular no id is ever made of an
\* unsupported system or of a blank name, by NB00 or by NB01.
THEOREM TypeCorrect == Spec => []TypeOK
<1>1. IInv => TypeOK
  BY DEF IInv
<1> QED
  BY <1>1, Inductive, PTL

\* NB00's and NB01's UPDATEs leave in every row the id of its own columns,
\* whatever rows agree on, however they are written and wherever a run dies.
THEOREM IdsAreOwn == Spec => []IdentifiesItself
<1>1. IInv => IdentifiesItself
  BY DEF IInv, IdentifiesItself, Agrees, TypeOK
<1> QED
  BY <1>1, Inductive, PTL

\* Writing by id never puts what was read from one source into the row of
\* another.
THEOREM SourcesAreKeptApart == Spec => []RecordsOwnSource
<1>1. IInv => RecordsOwnSource
  BY DEF IInv, RecordsOwnSource, Agrees, TypeOK
<1> QED
  BY <1>1, Inductive, PTL

\* NB00's MERGE never seeds a table registered before NB00 collected the rows
\* without an id: when it runs, the backfill has given each of them the id the
\* MERGE compares with, in whatever order, and wherever earlier runs died.
THEOREM NeverSeededTwice == Spec => SeedsOnce
<1>1. IInv /\ SeedInv /\ [Next]_vars => [SeedsOnceStep]_vars
  BY StepSeedsOnce
<1>2. Spec => []SeedInv
  BY InitSeedInv, NextSeedInv, Inductive, PTL DEF Spec
<1>3. Spec => [][SeedsOnceStep]_vars
  BY <1>1, <1>2, Inductive, PTL DEF Spec
<1> QED
  BY <1>3 DEF SeedsOnce, SeedsOnceStep

\* An id that NB00 or NB01 has written is never changed by a later statement of
\* either, and neither are the columns it is made of: not by the backfill of a row
\* of another system at the same place, not by NB01's UPDATE by identity, which
\* looks at no id, and not by seeding again.
THEOREM IdsNeverChange == Spec => IdsAreFinal
<1>1. Init => SeededInv
  BY RowsAssumption DEF Init, SeededInv
<1>2. IInv /\ SeededInv /\ [Next]_vars => [IdsAreFinalStep]_vars
  BY StepIdsAreFinal
<1>3. Spec => []SeededInv
  BY <1>1, NextSeededInv, Inductive, PTL DEF Spec
<1>4. Spec => [][IdsAreFinalStep]_vars
  BY <1>2, <1>3, Inductive, PTL DEF Spec
<1> QED
  BY <1>4 DEF IdsAreFinal, IdsAreFinalStep

\* When NB01 ends, every row it went through has its outcome of this run, though
\* NB01 works from stale rows, one UPDATE may reach many rows, and a row without
\* an id is only found by its columns: but for rows no id can be computed for,
\* and rows that name no system, which that UPDATE misses.
THEOREM EveryRowAnswers == Spec => []HandledRowsAnswer
<1>1. Init => HandledInv
  BY DEF Init, HandledInv
<1>2. IInv /\ HandledInv => HandledRowsAnswer
  BY DEF HandledInv, HandledRowsAnswer, Answered
<1> QED
  BY <1>1, <1>2, NextHandledInv, Inductive, PTL DEF Spec

=============================================================================
