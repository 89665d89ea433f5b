-------------------------- MODULE DeltaSyncRefinement --------------------------
(* NB11b stores no row twice, and a table merged by primary key implements   *)
(* the abstract replica.                                                    *)
EXTENDS DeltaSyncProofs, FiniteSetTheorems

\* The cached slice holds rows of the interval only.
SliceSelected ==
    \A t \in Tables : current = t /\ step \in {"overwrite", "delete", "append", "merge"} =>
        \A k \in Keys : slice[k] # 0 => Selected(t, slice[k])

\* Between its DELETE and its append the interval is empty.
IntervalEmptied ==
    \A t \in Tables : current = t /\ step = "append" =>
        \A k \in Keys, s \in Stamps : Selected(t, s) => target[t][k][s] = 0

DupInv == CoverInv /\ NoDuplicates /\ SliceSelected /\ IntervalEmptied

LEMMA DupInit == Init => DupInv
<1> SUFFICES ASSUME Init PROVE DupInv
    OBVIOUS
<1>1. SliceSelected /\ IntervalEmptied
    BY ConstantsAssumption DEF Init, SliceSelected, IntervalEmptied
<1>2. NoDuplicates
    BY DEF Init, NoDuplicates, Holding
<1>3. QED
    BY <1>1, <1>2, CoverInit DEF DupInv

\* The rows of a cached slice are versions of the source.
LEMMA SliceIsTyped ==
    ASSUME CoverInv, NEW k \in Keys
    PROVE  slice[k] \in Int /\ (slice[k] # 0 => slice[k] \in Stamps)
BY ConstantsAssumption DEF CoverInv, TypeOK, MemoryTypeOK, Versions, Stamps

\* A step that writes no target starts no item in the middle: what is cached
\* and what is empty stays so.
LEMMA DupQuiet ==
    ASSUME DupInv, CoverInv',
           \A t \in Tables : target'[t] = target[t],
           \/ UNCHANGED <<current, step, slice, queue, run>>
           \/ current' = NoTable
           \/ step' \in {"none", "read", "audit", "commit", "finalize"}
    PROVE  DupInv'
<1>1. NoDuplicates'
    BY DEF DupInv, NoDuplicates
<1>2. SliceSelected' /\ IntervalEmptied'
    BY ConstantsAssumption DEF DupInv, SliceSelected, IntervalEmptied, Selected
<1>3. QED
    BY <1>1, <1>2 DEF DupInv

\* ReadSlice caches rows of the interval.
LEMMA DupRead ==
    ASSUME DupInv, CoverInv', NEW t \in Tables, ReadSlice(t)
    PROVE  DupInv'
<1>1. /\ slice' = [k \in Keys |-> IF Selected(t, source[t][k]) THEN source[t][k] ELSE 0]
      /\ UNCHANGED <<target, queue, run, current>> /\ current = t /\ step' # "append"
    BY DEF ReadSlice, storeVars, jobVars
<1>2. NoDuplicates' /\ IntervalEmptied'
    BY <1>1 DEF DupInv, NoDuplicates, IntervalEmptied
<1>3. SliceSelected'
    BY <1>1 DEF SliceSelected, Selected
<1>4. QED
    BY <1>2, <1>3 DEF DupInv

\* The write of an item keeps the other tables, so its own rows are what
\* matters.
LEMMA DupWrite ==
    ASSUME DupInv, CoverInv', NEW t \in Tables, NEW rows, NEW next,
           current = t, step \in {"overwrite", "delete", "append", "merge"},
           Writes(t, rows, next),
           \/ next = "audit"
           \/ next = "append" /\ \A k \in Keys, s \in Stamps : Selected(t, s) => rows[k][s] = 0,
           \A k \in Keys, s \in Stamps : rows[k][s] <= 1,
           t \in Keyed => \A k \in Keys, s, u \in Stamps :
                             rows[k][s] > 0 /\ rows[k][u] > 0 => s = u
    PROVE  DupInv'
<1>1. /\ target' = [target EXCEPT ![t] = rows]
      /\ UNCHANGED <<queue, run, current, slice>> /\ step' = next
    BY DEF Writes, jobVars
<1>2. \A u \in Tables : target'[u] = IF u = t THEN rows ELSE target[u]
    BY <1>1 DEF DupInv, CoverInv, TypeOK, StoreTypeOK
<1>3. NoDuplicates'
    BY <1>2 DEF DupInv, NoDuplicates, Keyed
<1>4. SliceSelected' /\ IntervalEmptied'
    BY <1>1, <1>2 DEF DupInv, SliceSelected, IntervalEmptied, Selected
<1>5. QED
    BY <1>3, <1>4 DEF DupInv

\* The four statements that write a target.
LEMMA DupStatements ==
    ASSUME DupInv, CoverInv', NEW t \in Tables,
           OverwriteTarget(t) \/ DeleteInterval(t) \/ AppendSlice(t) \/ MergeSlice(t)
    PROVE  DupInv'
<1>1. \A k \in Keys, s \in Stamps : target[t][k][s] \in Nat
    BY DEF DupInv, CoverInv, TypeOK, StoreTypeOK
<1>2. \A k \in Keys, s \in Stamps : target[t][k][s] <= 1
    BY DEF DupInv, NoDuplicates
<1>3. CASE OverwriteTarget(t)
    BY <1>3, DupWrite DEF OverwriteTarget, Holding
<1>4. CASE DeleteInterval(t)
    <2> DEFINE rows == [k \in Keys |-> [s \in Stamps |->
                           IF Selected(t, s) THEN 0 ELSE target[t][k][s]]]
    <2>1. current = t /\ step = "delete" /\ Writes(t, rows, "append")
        BY <1>4 DEF DeleteInterval
    <2>2. t \notin Keyed
        BY <2>1 DEF DupInv, CoverInv, StepFitsStrategy, Keyed
    <2>3. \A k \in Keys, s \in Stamps : /\ rows[k][s] <= 1
                                        /\ Selected(t, s) => rows[k][s] = 0
        BY <1>2
    <2>4. QED
        BY <2>1, <2>2, <2>3, DupWrite
<1>5. CASE AppendSlice(t)
    <2> DEFINE rows == [k \in Keys |-> [s \in Stamps |->
                           target[t][k][s] + (IF slice[k] = s THEN 1 ELSE 0)]]
    <2>1. current = t /\ step = "append" /\ Writes(t, rows, "audit")
        BY <1>5 DEF AppendSlice
    <2>2. t \notin Keyed
        BY <2>1 DEF DupInv, CoverInv, StepFitsStrategy, Keyed
    <2>3. ASSUME NEW k \in Keys, NEW s \in Stamps PROVE rows[k][s] <= 1
        <3>1. CASE slice[k] = s
            <4>1. s # 0
                BY ConstantsAssumption DEF Stamps
            <4>2. target[t][k][s] = 0
                BY <2>1, <3>1, <4>1 DEF DupInv, SliceSelected, IntervalEmptied
            <4>3. QED
                BY <3>1, <4>2
        <3>2. CASE slice[k] # s
            BY <1>1, <1>2, <3>2
        <3>3. QED
            BY <3>1, <3>2
    <2>4. QED
        BY <2>1, <2>2, <2>3, DupWrite
<1>6. CASE MergeSlice(t)
    <2> DEFINE rows == [k \in Keys |-> IF slice[k] # 0 \/ DeletesUnmatched(t)
                                       THEN Holding(slice)[k] ELSE target[t][k]]
    <2>1. current = t /\ step = "merge" /\ Writes(t, rows, "audit")
        BY <1>6 DEF MergeSlice
    <2>2. ASSUME NEW k \in Keys, NEW s \in Stamps PROVE rows[k][s] <= 1
        BY <1>2 DEF Holding
    <2>3. ASSUME t \in Keyed, NEW k \in Keys, NEW s \in Stamps, NEW u \in Stamps,
                 rows[k][s] > 0, rows[k][u] > 0
          PROVE  s = u
        <3>1. CASE slice[k] # 0 \/ DeletesUnmatched(t)
            BY <2>3, <3>1 DEF Holding
        <3>2. CASE ~(slice[k] # 0 \/ DeletesUnmatched(t))
            BY <2>3, <3>2 DEF DupInv, NoDuplicates
        <3>3. QED
            BY <3>1, <3>2
    <2>4. QED
        BY <2>1, <2>2, <2>3, DupWrite
<1>7. QED
    BY <1>3, <1>4, <1>5, <1>6

\* Every other step leaves the item alone, moves it past its write or ends it.
LEMMA ItemMoves ==
    ASSUME CoverInv, [Next]_vars,
           \A t \in Tables : ~ReadSlice(t) /\ ~OverwriteTarget(t) /\ ~DeleteInterval(t)
                             /\ ~AppendSlice(t) /\ ~MergeSlice(t)
    PROVE  \/ UNCHANGED <<current, step, slice, queue, run>>
           \/ current' = NoTable
           \/ step' \in {"none", "read", "audit", "commit", "finalize"}
<1> USE DEF sourceVars, storeVars, jobVars, prepVars, itemVars, budgetVars
<1>1. phase # "apply" => current = NoTable
    BY DEF CoverInv, TypeOK, PositionOK
<1>2. CASE Environment \/ SourceStops \/ StartRun \/ Prep \/ UNCHANGED vars
    BY <1>1, <1>2
    DEF Environment, SourceWrite, SourceDelete, EditControl, SourceStops, StartRun,
        StartRunOver, Prep,
        Prepares, PrepNoColumns, PrepConfigError, PrepNoSourceWatermark, PrepNoChanges,
        QueueInterval, QueueSnapshot, WriteQueue, vars
<1>3. CASE Apply
    BY <1>1, <1>3
    DEF Apply, BeginApply, TakeItem, AuditSuccess, CommitCheckpoint, FinalizeQueue, EndsItem,
        FinishApply
<1>4. CASE Reconcile
    BY <1>4 DEF Reconcile, ReconcileTable, Reconciles, FinishReconcile
<1>5. CASE Failure
    BY <1>5
    DEF Failure, BeginApplyWithoutRunId, ReconcileWithoutRunId, PrepFails, Prepares,
        ApplyFails, CheckpointFails, FinalizeFails, ItemFails, EndsItem, ReconcileFails,
        Reconciles, Crash
<1>6. CASE \E r \in Runs : RepairRun(r)
    BY <1>1, <1>6 DEF RepairRun
<1>7. QED
    BY <1>2, <1>3, <1>4, <1>5, <1>6 DEF Next, Job

LEMMA DupStep == DupInv /\ [Next]_vars => DupInv'
<1> SUFFICES ASSUME DupInv, [Next]_vars PROVE DupInv'
    OBVIOUS
<1>1. CoverInv'
    BY CoverStep DEF DupInv
<1>2. ASSUME NEW t \in Tables, ReadSlice(t) PROVE DupInv'
    BY <1>1, <1>2, DupRead
<1>3. ASSUME NEW t \in Tables,
             OverwriteTarget(t) \/ DeleteInterval(t) \/ AppendSlice(t) \/ MergeSlice(t)
      PROVE  DupInv'
    BY <1>1, <1>3, DupStatements
<1>4. CASE \A t \in Tables : ~ReadSlice(t) /\ ~OverwriteTarget(t) /\ ~DeleteInterval(t)
                             /\ ~AppendSlice(t) /\ ~MergeSlice(t)
    BY <1>1, <1>4, ItemMoves, WhoWritesTargets, DupQuiet DEF DupInv
<1>5. QED
    BY <1>2, <1>3, <1>4

\* NeverDuplicated: no step of NB11b, no failure, crash or repair ever stores a
\* row version twice, or two versions of a key in a table merged by primary
\* key: the DELETE of a WATERMARK item empties exactly the interval its cached
\* slice was selected from.
THEOREM NeverDuplicated == Spec => []NoDuplicates
<1>1. DupInv => NoDuplicates
    BY DEF DupInv
<1>2. QED
    BY DupInit, DupStep, <1>1, PTL DEF Spec

-----------------------------------------------------------------------------
(* What NB12 may conclude from a surplus.                                  *)

\* A key that is stored once and still has its source row counts once on either
\* side, so such a target has no more rows than its source.
LEMMA NoSurplus ==
    ASSUME IsFiniteSet(Keys), TypeOK, NoDuplicates, NEW t \in Keyed,
           \A k \in Keys, s \in Stamps : target[t][k][s] > 0 => source[t][k] # 0
    PROVE  ~(TargetRows(t) > SourceRows(t))
<1> DEFINE Live == {k \in Keys : source[t][k] # 0}
           KeyOf == [r \in StoredRows(t) |-> r[1][1]]
<1>1. t \in Tables
    BY DEF Keyed
<1>2. IsFiniteSet(Live) /\ Cardinality(Live) \in Nat
    BY FS_Subset, FS_CardinalityType
<1>3. ASSUME NEW r \in StoredRows(t)
      PROVE  \E k \in Keys, s \in Stamps :
                 r = <<<<k, s>>, 1>> /\ target[t][k][s] > 0 /\ k \in Live
    <2>1. PICK k \in Keys, s \in Stamps : r \in {<<k, s>>} \X (1 .. target[t][k][s])
        BY <1>3 DEF StoredRows
    <2>2. target[t][k][s] \in Nat
        BY <1>1, <2>1 DEF TypeOK, StoreTypeOK
    <2>3. target[t][k][s] <= 1
        BY <1>1, <2>1 DEF NoDuplicates
    <2>4. PICK n \in 1 .. target[t][k][s] : r = <<<<k, s>>, n>>
        BY <2>1
    <2>5. n = 1 /\ target[t][k][s] > 0
        BY <2>2, <2>3, <2>4
    <2>6. QED
        BY <2>1, <2>4, <2>5
<1>4. KeyOf \in Injection(StoredRows(t), Live)
    <2>1. \A r \in StoredRows(t) : r[1][1] \in Live
        BY <1>3
    <2>2. ASSUME NEW q \in StoredRows(t), NEW r \in StoredRows(t), q[1][1] = r[1][1]
          PROVE  q = r
        <3>1. PICK k \in Keys, s \in Stamps : q = <<<<k, s>>, 1>> /\ target[t][k][s] > 0
            BY <1>3
        <3>2. PICK l \in Keys, u \in Stamps : r = <<<<l, u>>, 1>> /\ target[t][l][u] > 0
            BY <1>3
        <3>3. l = k
            BY <2>2, <3>1, <3>2
        <3>4. u = s
            BY <1>1, <3>1, <3>2, <3>3 DEF NoDuplicates
        <3>5. QED
            BY <3>1, <3>2, <3>3, <3>4
    <2>3. QED
        BY <2>1, <2>2 DEF Injection, IsInjective
<1>5. IsFiniteSet(StoredRows(t)) /\ Cardinality(StoredRows(t)) <= Cardinality(Live)
    BY <1>2, <1>4, FS_Injection
<1>6. Cardinality(StoredRows(t)) \in Nat
    BY <1>5, FS_CardinalityType
<1>7. QED
    BY <1>2, <1>5, <1>6 DEF TargetRows, SourceRows

\* SurplusIsDeletes: what NB12 says of a surplus is true of every table that is
\* merged or fully refreshed, for any finite set of keys and through every
\* failure, crash and repair: a target that counts more rows than its source
\* holds a row whose key the source has deleted. Interval replacement keeps the
\* old version of an updated row, and there TLC refutes it.
THEOREM SurplusIsDeletes ==
    IsFiniteSet(Keys) /\ (\A t \in Tables : Strategy[t] # "WATERMARK")
        => (Spec => SurplusMeansDeletes)
<1> SUFFICES ASSUME IsFiniteSet(Keys), \A t \in Tables : Strategy[t] # "WATERMARK"
             PROVE  Spec => SurplusMeansDeletes
    OBVIOUS
<1>1. ASSUME TypeOK, NoDuplicates, NEW t \in Tables, Counts(t).surplus
      PROVE  \E k \in Keys, s \in Stamps : source[t][k] = 0 /\ target[t][k][s] > 0
    <2>1. Strategy[t] # "FULL_LOAD" /\ TargetRows(t) > SourceRows(t)
        BY <1>1 DEF Counts, NoResult
    <2>2. t \in Keyed
        BY <2>1, ConstantsAssumption DEF Keyed, Strategies
    <2>3. QED
        BY <1>1, <2>1, <2>2, NoSurplus
<1>2. TypeOK /\ NoDuplicates =>
          [\A t \in Tables : ReconcileTable(t) /\ Counts(t).surplus =>
               \E k \in Keys, s \in Stamps : source[t][k] = 0 /\ target[t][k][s] > 0]_vars
    BY <1>1
<1>3. QED
    BY <1>2, TypeCorrect, NeverDuplicated, PTL DEF SurplusMeansDeletes

-----------------------------------------------------------------------------
(* The refinement.                                                         *)

\* A merged table holds everything up to the bound it has reached.
LEMMA ReachedIsCovered ==
    ASSUME DupInv, NEW t \in Merged
    PROVE  Covered(t, Reached(t)) /\ Reached(t) \in Marks /\ Reached(t) <= horizon[t]
<1>1. t \in Protected /\ t \in Tables
    BY DEF Merged, Protected, Temporal
<1>2. current = t => run \in Runs
    BY <1>1, ConstantsAssumption
    DEF DupInv, CoverInv, TypeOK, JobTypeOK, PositionOK, Runs
<1>3. QED
    BY <1>1, <1>2, MarksAreIntegers
    DEF DupInv, CoverInv, BoundsCovered, WrittenCovered, BelowHorizon, Reached

\* For a table that stores one version of a key, covered is caught up.
LEMMA CoveredIsCaughtUp ==
    ASSUME DupInv, NEW t \in Merged, NEW b \in Marks, Covered(t, b)
    PROVE  Replica!CaughtUp(t, b)
<1>1. t \in Keyed /\ t \in Tables
    BY DEF Merged, Keyed
<1> SUFFICES ASSUME NEW k \in Keys, source[t][k] \in 1 .. b
             PROVE  StoredVersions(t, k) = {source[t][k]} /\ source[t][k] # 0
    BY <1>1 DEF Replica!CaughtUp, Replica!Row
<1>2. source[t][k] \in Stamps /\ source[t][k] # 0 /\ source[t][k] <= b
    BY <1>1, StampsAreIntegers DEF DupInv
<1>3. target[t][k][source[t][k]] > 0
    BY <1>2 DEF Covered
<1>4. QED
    BY <1>1, <1>2, <1>3 DEF StoredVersions, DupInv, NoDuplicates

LEMMA ReplicaInit == Init => Replica!Init
<1> SUFFICES ASSUME Init PROVE Replica!Init
    OBVIOUS
<1>1. DupInv /\ TypeOK /\ Merged \subseteq Tables
    BY DupInit, TypeInit DEF Merged
<1>2. [t \in Merged |-> source[t]] \in [Merged -> [Keys -> Versions]]
    BY <1>1 DEF TypeOK, SourceTypeOK
<1>3. [t \in Merged |-> [k \in Keys |-> StoredVersions(t, k)]]
          \in [Merged -> [Keys -> SUBSET Stamps]]
    BY DEF StoredVersions
<1>4. \A t \in Merged : Reached(t) \in Marks /\ Replica!CaughtUp(t, Reached(t))
    BY <1>1, ReachedIsCovered, CoveredIsCaughtUp
<1>5. QED
    BY <1>2, <1>3, <1>4
    DEF Replica!Init, Replica!Versions, Replica!Marks, Replica!Stamps, Replica!CaughtUp,
        Versions, Marks, Stamps

\* A source change is one of the replica's, or concerns another table.
LEMMA ChangeMaps ==
    ASSUME DupInv, DupInv', NEW t \in Tables, SourceWrite(t) \/ SourceDelete(t)
    PROVE  [Replica!Next]_(Replica!vars)
<1>1. UNCHANGED <<target, control, current, step, queue, run>>
    BY DEF SourceWrite, SourceDelete, storeVars, itemVars, jobVars
<1>2. \A u \in Merged : Reached(u)' = Reached(u)
    BY <1>1 DEF Reached
<1>3. \A u \in Merged, k \in Keys : StoredVersions(u, k)' = StoredVersions(u, k)
    BY <1>1 DEF StoredVersions
<1>4. PICK k \in Keys, v \in Versions : /\ source' = [source EXCEPT ![t][k] = v]
                                        /\ v = 0 \/ v > horizon[t]
    <2>1. CASE SourceWrite(t)
        <3>1. PICK k \in Keys, v \in Stamps :
                  v > horizon[t] /\ source' = [source EXCEPT ![t][k] = v]
            BY <2>1, Zenon DEF SourceWrite
        <3>2. v \in Versions
            BY DEF Stamps, Versions
        <3>3. QED
            BY <3>1, <3>2, Zenon
    <2>2. CASE SourceDelete(t)
        <3>1. PICK k \in Keys : source' = [source EXCEPT ![t][k] = 0]
            BY <2>2, Zenon DEF SourceDelete
        <3>2. 0 \in Versions
            BY ConstantsAssumption DEF Versions
        <3>3. QED
            BY <3>1, <3>2, Zenon
    <2>3. QED
        BY <2>1, <2>2
<1>5. /\ \A u \in Tables : u # t => source'[u] = source[u]
      /\ source'[t] = [source[t] EXCEPT ![k] = v]
    BY <1>4 DEF DupInv, CoverInv, TypeOK, SourceTypeOK
<1>6. CASE t \in Merged
    <2>1. v = 0 \/ v > Reached(t)
        BY <1>4, <1>6, ReachedIsCovered, ConstantsAssumption
        DEF Versions, Marks, DupInv, CoverInv, TypeOK, SourceTypeOK
    <2>2. [u \in Merged |-> source'[u]]
              = [[u \in Merged |-> source[u]] EXCEPT ![t][k] = v]
        BY <1>5, <1>6 DEF Merged
    <2>3. v = 0 \/ v > [u \in Merged |-> Reached(u)][t]
        BY <1>6, <2>1
    <2>4. /\ [u \in Merged |-> [j \in Keys |-> StoredVersions(u, j)]]'
                = [u \in Merged |-> [j \in Keys |-> StoredVersions(u, j)]]
          /\ [u \in Merged |-> Reached(u)]' = [u \in Merged |-> Reached(u)]
        BY <1>2, <1>3
    <2>5. v \in Replica!Versions
        BY DEF Replica!Versions, Versions
    <2>6. Replica!Change(t)
        BY <2>2, <2>3, <2>4, <2>5 DEF Replica!Change
    <2>7. QED
        BY <1>6, <2>6 DEF Replica!Next
<1>7. CASE t \notin Merged
    <2>1. \A u \in Merged : source'[u] = source[u]
        BY <1>5, <1>7 DEF Merged
    <2>2. QED
        BY <1>2, <1>3, <2>1 DEF Replica!vars
<1>8. QED
    BY <1>6, <1>7

\* The MERGE of an item is the moment its interval arrives.
LEMMA MergeMaps ==
    ASSUME DupInv, DupInv', NEW t \in Merged, MergeSlice(t)
    PROVE  Replica!CatchUp(t)
<1> DEFINE rows  == [k \in Keys |-> IF slice[k] # 0 \/ DeletesUnmatched(t)
                                    THEN Holding(slice)[k] ELSE target[t][k]]
           lower == queue[run][t].lower
           upper == queue[run][t].upper
<1>1. /\ current = t /\ step = "merge" /\ Writes(t, rows, "audit")
      /\ t \in Tables /\ t \in Temporal /\ t \in Protected /\ ~DeletesUnmatched(t)
    BY DEF MergeSlice, Merged, Temporal, Protected, DeletesUnmatched
<1>2. /\ \A u \in Tables : target'[u] = IF u = t THEN rows ELSE target[u]
      /\ UNCHANGED <<source, control, queue, run, current>> /\ step' = "audit"
    BY <1>1 DEF Writes, sourceVars, jobVars, DupInv, CoverInv, TypeOK, StoreTypeOK
<1>3. run \in Runs /\ lower \in Marks /\ upper \in Marks /\ upper <= horizon[t]
    <2>1. run \in Runs
        BY <1>1, ConstantsAssumption
        DEF DupInv, CoverInv, TypeOK, JobTypeOK, PositionOK, Runs
    <2>2. QED
        BY <1>1, <2>1, MarksAreIntegers DEF DupInv, CoverInv, BelowHorizon
<1>4. Reached(t)' = upper
    BY <1>1, <1>2 DEF Reached
<1>5. \A u \in Merged \ {t} : /\ Reached(u)' = Reached(u)
                              /\ \A k \in Keys : StoredVersions(u, k)' = StoredVersions(u, k)
    BY <1>1, <1>2 DEF Reached, StoredVersions, Merged
<1>6. Replica!CaughtUp(t, lower)
    BY <1>1, <1>3, CoveredIsCaughtUp DEF DupInv, CoverInv, BoundsCovered
<1>7. ASSUME NEW k \in Keys, slice[k] # 0
      PROVE  StoredVersions(t, k)' = {slice[k]} /\ slice[k] \in Stamps
             /\ lower < slice[k] /\ slice[k] <= upper
    <2>1. slice[k] \in Stamps
        BY <1>7, SliceIsTyped DEF DupInv
    <2>2. \A s \in Stamps : target'[t][k][s] = IF slice[k] = s THEN 1 ELSE 0
        BY <1>1, <1>2, <1>7 DEF Holding
    <2>3. Selected(t, slice[k])
        BY <1>1, <1>7 DEF DupInv, SliceSelected
    <2>4. QED
        BY <1>1, <2>1, <2>2, <2>3 DEF StoredVersions, Selected
<1>8. ASSUME NEW k \in Keys, slice[k] = 0
      PROVE  StoredVersions(t, k)' = StoredVersions(t, k)
    BY <1>1, <1>2, <1>8 DEF StoredVersions
<1>9. ASSUME NEW k \in Keys, source[t][k] # 0, source[t][k] <= horizon[t]
      PROVE  slice[k] = IF lower < source[t][k] /\ source[t][k] <= upper
                        THEN source[t][k] ELSE 0
    BY <1>1, <1>9 DEF DupInv, CoverInv, SliceIsCurrent, Selected
<1>10. ASSUME NEW k \in Keys
       PROVE  LET arrives(v) == v \in Stamps /\ lower < v /\ v <= upper
              IN  \/ arrives(source[t][k]) /\ StoredVersions(t, k)' = {source[t][k]}
                  \/ ~arrives(source[t][k]) /\ StoredVersions(t, k)' = StoredVersions(t, k)
                  \/ /\ source[t][k] = 0 \/ source[t][k] > upper
                     /\ \E v \in Stamps : arrives(v) /\ StoredVersions(t, k)' = {v}
    <2>1. /\ source[t][k] \in Int /\ horizon[t] \in Int /\ lower \in Int /\ upper \in Int
          /\ source[t][k] # 0 => source[t][k] \in Stamps
          /\ 0 \notin Stamps
        BY <1>1, <1>3, StampsAreIntegers, ConstantsAssumption DEF DupInv, Stamps
    <2>2. CASE source[t][k] # 0 /\ source[t][k] <= horizon[t]
        BY <1>3, <1>7, <1>8, <1>9, <2>1, <2>2
    <2>3. CASE ~(source[t][k] # 0 /\ source[t][k] <= horizon[t])
        BY <1>3, <1>7, <1>8, <2>1, <2>3
    <2>4. QED
        BY <2>2, <2>3
<1>11. [u \in Merged |-> Reached(u)'] \in [Merged -> Replica!Marks]
    <2>1. \A u \in Merged : Reached(u) \in Marks
        BY ReachedIsCovered
    <2>2. \A u \in Merged : Reached(u)' \in Marks
        BY <1>3, <1>4, <1>5, <2>1
    <2>3. QED
        BY <2>2 DEF Replica!Marks, Marks
<1>12. QED
    BY <1>1, <1>2, <1>3, <1>4, <1>5, <1>6, <1>10, <1>11
    DEF Replica!CatchUp, Replica!Touches, Replica!Marks, Replica!Stamps, Marks, Stamps

\* Only a commit moves a checkpoint, one item is in hand at a time, and only the
\* environment changes the source.
LEMMA WhatMoves ==
    ASSUME CoverInv, [Next]_vars
    PROVE  /\ SameCheckpoints \/ \E t \in Tables : CommitCheckpoint(t)
           /\ current' = current \/ current = NoTable \/ current' = NoTable
           /\ UNCHANGED source \/ \E t \in Tables : SourceWrite(t) \/ SourceDelete(t)
<1> USE DEF sourceVars, storeVars, jobVars, prepVars, itemVars, budgetVars
<1>1. phase # "apply" => current = NoTable
    BY DEF CoverInv, TypeOK, PositionOK
<1>2. ASSUME \/ UNCHANGED control
             \/ \E t \in Tables, s \in Statuses : Status(t, s)
      PROVE  SameCheckpoints
    BY <1>2, StatusKeepsCheckpoints DEF SameCheckpoints, CoverInv
<1>3. ASSUME NEW t \in Tables, EditControl(t) PROVE SameCheckpoints
    <2> SUFFICES ASSUME NEW u \in Tables PROVE control'[u].last = control[u].last
        BY DEF SameCheckpoints
    <2>1. control[u] \in ControlRow
        BY DEF CoverInv, TypeOK, StoreTypeOK
    <2>2. PICK a \in BOOLEAN, c \in Configs :
              control' = [control EXCEPT ![t].active = a, ![t].config = c]
        BY <1>3 DEF EditControl
    <2>3. control'[u] = IF u = t THEN [control[u] EXCEPT !.active = a, !.config = c]
                                 ELSE control[u]
        BY <2>2 DEF CoverInv, TypeOK, StoreTypeOK
    <2>4. QED
        BY <2>1, <2>3 DEF ControlRow
<1>4. CASE Environment \/ SourceStops \/ StartRun \/ WriteQueue \/ UNCHANGED vars
    BY <1>2, <1>3, <1>4
    DEF Environment, SourceWrite, SourceDelete, EditControl, SourceStops, StartRun,
        StartRunOver, WriteQueue, vars
<1>5. ASSUME NEW t \in Tables,
             \/ PrepNoColumns(t) \/ PrepConfigError(t) \/ PrepNoSourceWatermark(t)
             \/ PrepNoChanges(t) \/ QueueInterval(t) \/ QueueSnapshot(t) \/ PrepFails(t)
      PROVE  SameCheckpoints /\ UNCHANGED <<source, current>>
    <2>1. \/ UNCHANGED control
          \/ \E s \in Statuses : Status(t, s)
        BY <1>5 DEF PrepNoColumns, PrepConfigError, PrepNoSourceWatermark, PrepNoChanges,
                    QueueInterval, QueueSnapshot, PrepFails, Statuses
    <2>2. UNCHANGED <<source, current>>
        BY <1>5 DEF PrepNoColumns, PrepConfigError, PrepNoSourceWatermark, PrepNoChanges,
                    QueueInterval, QueueSnapshot, PrepFails, Prepares
    <2>3. QED
        BY <1>2, <2>1, <2>2
<1>6. CASE Apply
    BY <1>1, <1>2, <1>6
    DEF Apply, BeginApply, TakeItem, ReadSlice, OverwriteTarget, DeleteInterval, AppendSlice,
        MergeSlice, Writes, AuditSuccess, CommitCheckpoint, FinalizeQueue, EndsItem,
        FinishApply
<1>7. CASE Reconcile
    BY <1>2, <1>7 DEF Reconcile, ReconcileTable, Reconciles, FinishReconcile
<1>8. ASSUME NEW t \in Tables, ApplyFails(t) \/ CheckpointFails(t) \/ FinalizeFails(t)
      PROVE  SameCheckpoints /\ UNCHANGED source /\ current' = NoTable
    <2>1. \/ UNCHANGED control
          \/ \E s \in Statuses : Status(t, s)
        BY <1>8 DEF ApplyFails, CheckpointFails, FinalizeFails, ItemFails, Statuses
    <2>2. UNCHANGED source /\ current' = NoTable
        BY <1>8 DEF ApplyFails, CheckpointFails, FinalizeFails, ItemFails, EndsItem
    <2>3. QED
        BY <1>2, <2>1, <2>2
<1>9. CASE \/ BeginApplyWithoutRunId \/ ReconcileWithoutRunId \/ Crash
           \/ \E t \in Tables : ReconcileFails(t)
           \/ \E r \in Runs : RepairRun(r)
    BY <1>2, <1>9
    DEF BeginApplyWithoutRunId, ReconcileWithoutRunId, Crash, ReconcileFails, Reconciles,
        RepairRun
<1>10. QED
    BY <1>4, <1>5, <1>6, <1>7, <1>8, <1>9 DEF Next, Job, Prep, Failure


\* The replica has everything its cursor has passed.
LEMMA ReachedIsCaughtUp == DupInv => \A t \in Merged : Covered(t, Reached(t))
BY ReachedIsCovered

\* A step that leaves source and targets alone moves at most the cursor of the
\* table in hand, to where the target has caught up.
LEMMA CursorMaps ==
    ASSUME DupInv, DupInv', SameCheckpoints, UNCHANGED source,
           current' = current \/ current = NoTable \/ current' = NoTable,
           \A t \in Merged : target'[t] = target[t]
    PROVE  [Replica!Next]_(Replica!vars)
<1>0. PICK x : x = IF current = NoTable THEN current' ELSE current
    OBVIOUS
<1>1. ASSUME NEW u \in Merged, u # x PROVE Reached(u)' = Reached(u)
    <2>1. u # current /\ u # current' /\ u \in Tables
        BY <1>0, <1>1, ConstantsAssumption DEF Merged
    <2>2. QED
        BY <2>1 DEF Reached, SameCheckpoints
<1>2. \A u \in Merged, j \in Keys : StoredVersions(u, j)' = StoredVersions(u, j)
    BY DEF StoredVersions
<1>3. UNCHANGED [u \in Merged |-> [j \in Keys |-> StoredVersions(u, j)]]
    BY <1>2
<1>4. CASE x \notin Merged
    <2>1. \A u \in Merged : Reached(u)' = Reached(u)
        BY <1>1, <1>4
    <2>2. QED
        BY <1>3, <2>1 DEF Replica!vars
<1>5. CASE x \in Merged
    <2>1. \A u \in Merged : Covered(u, Reached(u))' /\ Reached(u)' \in Marks
        <3>1. DupInv' => (\A t \in Merged : Covered(t, Reached(t)))'
            BY ReachedIsCaughtUp, PTL
        <3>2. \A u \in Merged : Reached(u)' \in Marks
            <4>1. \A u \in Merged : u \in Tables
                BY DEF Merged
            <4>2. \A u \in Merged : control'[u].last \in Marks
                <5>1. control' \in [Tables -> ControlRow]
                    BY DEF DupInv, CoverInv, TypeOK, StoreTypeOK
                <5>2. QED
                    BY <4>1, <5>1 DEF ControlRow
            <4>3. \A u \in Merged : current' = u => queue'[run'][u].upper \in Marks
                <5>1. queue' \in [Runs -> [Tables -> QueueRow]]
                    BY DEF DupInv, CoverInv, TypeOK, StoreTypeOK
                <5>2. \A u \in Merged : current' = u => run' \in Runs
                    BY <4>1, ConstantsAssumption
                    DEF DupInv, CoverInv, TypeOK, JobTypeOK, PositionOK, Runs
                <5>3. QED
                    BY <4>1, <5>1, <5>2 DEF QueueRow
            <4>4. QED
                BY <4>2, <4>3 DEF Reached
        <3>3. QED
            BY <3>1, <3>2
    <2>2. Covered(x, Reached(x)')
        <3>1. x \in Tables
            BY <1>5 DEF Merged
        <3>2. QED
            BY <1>5, <2>1, <3>1 DEF Covered
    <2>3. Replica!CaughtUp(x, Reached(x)')
        BY <1>5, <2>1, <2>2, CoveredIsCaughtUp
    <2>4. Replica!Touches(x)
        BY <1>1, <1>2, <1>5, <2>1 DEF Replica!Touches, Replica!Marks, Marks
    <2>5. Replica!Reposition(x)
        BY <1>3, <1>5, <2>3, <2>4 DEF Replica!Reposition
    <2>6. QED
        BY <1>5, <2>5 DEF Replica!Next
<1>6. QED
    BY <1>4, <1>5

\* Every step of the job is a step of the replica or leaves it alone.
LEMMA ReplicaStep == DupInv /\ DupInv' /\ [Next]_vars => [Replica!Next]_(Replica!vars)
<1> SUFFICES ASSUME DupInv, DupInv', [Next]_vars PROVE [Replica!Next]_(Replica!vars)
    OBVIOUS
<1>1. ASSUME NEW t \in Tables, SourceWrite(t) \/ SourceDelete(t)
      PROVE  [Replica!Next]_(Replica!vars)
    BY <1>1, ChangeMaps
<1>2. ASSUME NEW t \in Merged, MergeSlice(t) PROVE [Replica!Next]_(Replica!vars)
    BY <1>2, MergeMaps DEF Replica!Next
<1>3. ASSUME NEW t \in Tables, CommitCheckpoint(t) PROVE [Replica!Next]_(Replica!vars)
    <2>1. /\ current = t /\ step = "commit" /\ step' = "finalize"
          /\ UNCHANGED <<source, target, queue, run, current>>
        BY <1>3 DEF CommitCheckpoint, sourceVars, jobVars
    <2>2. ASSUME NEW u \in Merged PROVE Reached(u)' = Reached(u)
        <3>1. u \in Tables /\ u \in Temporal /\ control[u] \in ControlRow
            BY DEF Merged, Temporal, DupInv, CoverInv, TypeOK, StoreTypeOK
        <3>2. control'[u].last = IF u = t THEN queue[run][u].upper ELSE control[u].last
            BY <1>3, <3>1 DEF CommitCheckpoint, ControlRow, DupInv, CoverInv, TypeOK, StoreTypeOK
        <3>3. QED
            BY <2>1, <3>2 DEF Reached
    <2>3. \A u \in Merged, j \in Keys : StoredVersions(u, j)' = StoredVersions(u, j)
        BY <2>1 DEF StoredVersions
    <2>4. QED
        BY <2>1, <2>2, <2>3 DEF Replica!vars
<1>4. CASE /\ UNCHANGED source
           /\ \A t \in Tables : ~CommitCheckpoint(t)
           /\ \A t \in Merged : ~MergeSlice(t)
    <2>1. ASSUME NEW t \in Merged PROVE target'[t] = target[t]
        <3>1. t \in Tables
            BY DEF Merged
        <3>2. CASE target'[t] # target[t]
            BY <1>4, <3>1, <3>2, WhoWritesTargets
            DEF DupInv, CoverInv, StepFitsStrategy, OverwriteTarget, DeleteInterval,
                AppendSlice, Merged
        <3>3. QED
            BY <3>2
    <2>2. QED
        BY <1>4, <2>1, WhatMoves, CursorMaps DEF DupInv
<1>5. QED
    BY <1>1, <1>2, <1>3, <1>4, WhatMoves DEF DupInv

\* ReplicaImplemented: NB11a, NB11b and NB12, with every crash, outage, lost
\* run_id and repair, implement the checkpointed replica for HYBRID tables: the
\* frozen interval arrives atomically with the bound, and a failure moves that
\* bound back at most to where the target has caught up anyway.
THEOREM ReplicaImplemented == Spec => IsCheckpointedReplica
<1>1. Spec => []DupInv
    BY DupInit, DupStep, PTL DEF Spec
<1>2. QED
    BY <1>1, ReplicaInit, ReplicaStep, PTL DEF Spec, IsCheckpointedReplica, Replica!Spec

=============================================================================
