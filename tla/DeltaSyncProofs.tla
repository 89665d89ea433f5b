--------------------------- MODULE DeltaSyncProofs ---------------------------
(* Theorems of DeltaSync for every value of its constants: its types, what *)
(* checkpoints cover, and what the records of JOB02 say of each other.     *)
EXTENDS DeltaSync, TLAPS

\* The state NB10 leaves is well typed.
LEMMA TypeInit == Init => TypeOK
<1> SUFFICES ASSUME Init PROVE TypeOK
    OBVIOUS
<1>1. control \in [Tables -> ControlRow]
    <2>1. NULL .. MaxInitialStamp \subseteq Marks
        BY ConstantsAssumption DEF Marks, NULL
    <2>2. 0 \in 0 .. MaxRuns
        BY ConstantsAssumption
    <2>3. [active : {TRUE}, config : {"ok"}, last : NULL .. MaxInitialStamp, run : {0},
           status : {"LOADED"}] \subseteq ControlRow
        BY <2>1, <2>2 DEF ControlRow, Configs, Statuses
    <2>4. QED
        BY <2>3 DEF Init
<1>2. SourceTypeOK
    <2>1. source \in [Tables -> [Keys -> Versions]]
        BY ConstantsAssumption DEF Init, Versions
    <2>2. horizon \in [Tables -> Marks]
        BY <1>1 DEF Init, ControlRow
    <2>3. QED
        BY <2>1, <2>2 DEF Init, SourceTypeOK
<1>3. StoreTypeOK
    <2>1. target \in [Tables -> [Keys -> [Stamps -> Nat]]]
        BY DEF Init, Holding
    <2>2. NoRow \in QueueRow /\ NoResult \in ReconRow
        BY ConstantsAssumption DEF NoRow, QueueRow, Marking, Marks, NULL, NoResult, ReconRow
    <2>3. QED
        BY <1>1, <2>1, <2>2 DEF Init, StoreTypeOK, NoRows, NoResults
<1>4. JobTypeOK
    BY ConstantsAssumption DEF Init, JobTypeOK, Outcomes
<1>5. MemoryTypeOK
    <2>1. NoRow \in QueueRow /\ NoResult \in ReconRow
        BY ConstantsAssumption DEF NoRow, QueueRow, Marking, Marks, NULL, NoResult, ReconRow
    <2>2. NotSeen \in [Tables -> [config : Configs, last : Marks]]
        BY ConstantsAssumption DEF NotSeen, Configs, Marks, NULL
    <2>3. NoSlice \in [Keys -> Versions]
        BY ConstantsAssumption DEF NoSlice, Versions
    <2>4. QED
        BY <2>1, <2>2, <2>3 DEF Init, MemoryTypeOK, NoRows, NoResults, Steps
<1>6. PositionOK
    BY DEF Init, PositionOK
<1>7. QED
    BY <1>2, <1>3, <1>4, <1>5, <1>6 DEF TypeOK

\* A status written to a control row leaves the control table well typed.
LEMMA StatusType ==
    ASSUME StoreTypeOK, NEW t \in Tables, NEW s \in Statuses, Status(t, s)
    PROVE  control' \in [Tables -> ControlRow]
<1>1. [control[t] EXCEPT !.status = s] \in ControlRow
    BY DEF StoreTypeOK, ControlRow
<1>2. control' = [control EXCEPT ![t] = [control[t] EXCEPT !.status = s]]
    BY DEF Status
<1>3. QED
    BY <1>1, <1>2 DEF StoreTypeOK

\* A status written to a queue row leaves the queue well typed.
LEMMA MarkType ==
    ASSUME StoreTypeOK, NEW t \in Tables, NEW s \in Marking, MarkQueue(t, s),
           run \in Runs
    PROVE  queue' \in [Runs -> [Tables -> QueueRow]]
<1>1. queue[run][t] \in QueueRow
    BY DEF StoreTypeOK
<1>2. [queue[run][t] EXCEPT !.status = s] \in QueueRow
    BY <1>1 DEF QueueRow
<1>3. queue' = [queue EXCEPT ![run] =
                  [queue[run] EXCEPT ![t] = [queue[run][t] EXCEPT !.status = s]]]
    BY DEF MarkQueue
<1>4. QED
    BY <1>2, <1>3 DEF StoreTypeOK

\* An item that ends leaves the loop of NB11b in order.
LEMMA EndsItemType ==
    ASSUME TypeOK, NEW t \in Tables, EndsItem(t)
    PROVE  /\ run \in Runs
           /\ todo' = todo /\ seen' = seen /\ staged' = staged /\ work' = work
           /\ current' = NoTable /\ step' = "none"
           /\ slice' \in [Keys -> Versions]
           /\ results' = results
           /\ SourceTypeOK' /\ PositionOK'
           /\ target' = target /\ audit' = audit /\ recon' = recon
           /\ phase' = phase /\ run' = run /\ started' = started /\ outcome' = outcome
<1>1. t # NoTable
    BY ConstantsAssumption
<1>2. QED
    BY <1>1, ConstantsAssumption
    DEF EndsItem, TypeOK, SourceTypeOK, JobTypeOK, MemoryTypeOK, PositionOK, sourceVars,
        jobVars, prepVars, Runs, NoSlice, Versions

\* The failure budget keeps its type.
LEMMA FaultType ==
    ASSUME JobTypeOK, Fault \/ NoFault
    PROVE  faults' \in 0 .. MaxFaults /\ edits' \in 0 .. MaxEdits
BY ConstantsAssumption DEF JobTypeOK, Fault, NoFault, budgetVars

\* An iteration of NB11a keeps the types if its own writes do.
LEMMA PreparesType ==
    ASSUME TypeOK, NEW t \in Tables, Prepares(t), Fault \/ NoFault,
           control' \in [Tables -> ControlRow],
           horizon' \in [Tables -> Marks],
           staged' \in [Tables -> QueueRow]
    PROVE  TypeOK'
<1>1. faults' \in 0 .. MaxFaults /\ edits' \in 0 .. MaxEdits
    BY FaultType DEF TypeOK
<1>2. QED
    BY <1>1
    DEF Prepares, jobVars, itemVars, TypeOK, SourceTypeOK, StoreTypeOK, JobTypeOK,
        MemoryTypeOK, PositionOK

\* A failed item keeps the types.
LEMMA ItemFailsType ==
    ASSUME TypeOK, NEW t \in Tables, NEW ms \in SUBSET Marking, NEW s \in Statuses,
           ItemFails(t, ms, s)
    PROVE  TypeOK'
<1>1. run \in Runs
    BY EndsItemType DEF ItemFails
<1>2. queue' \in [Runs -> [Tables -> QueueRow]]
    BY <1>1, MarkType DEF ItemFails, TypeOK, StoreTypeOK
<1>3. control' \in [Tables -> ControlRow]
    BY StatusType DEF ItemFails, TypeOK, StoreTypeOK
<1>4. faults' \in 0 .. MaxFaults /\ edits' \in 0 .. MaxEdits
    BY FaultType DEF ItemFails, TypeOK
<1>5. failed' = TRUE
    BY DEF ItemFails
<1>6. QED
    BY <1>2, <1>3, <1>4, <1>5, EndsItemType
    DEF ItemFails, TypeOK, StoreTypeOK, JobTypeOK, MemoryTypeOK, Steps

\* Every step keeps the types.
LEMMA TypeStep == TypeOK /\ [Next]_vars => TypeOK'
<1> SUFFICES ASSUME TypeOK, [Next]_vars PROVE TypeOK'
    OBVIOUS
<1> USE ConstantsAssumption
    DEF sourceVars, storeVars, jobVars, prepVars, itemVars, budgetVars
<1>1. ASSUME NEW t \in Tables, SourceWrite(t) PROVE TypeOK'
    BY <1>1 DEF SourceWrite, TypeOK, SourceTypeOK, StoreTypeOK, JobTypeOK,
        MemoryTypeOK, PositionOK, Stamps, Versions
<1>2. ASSUME NEW t \in Tables, SourceDelete(t) PROVE TypeOK'
    BY <1>2 DEF SourceDelete, TypeOK, SourceTypeOK, StoreTypeOK, JobTypeOK,
        MemoryTypeOK, PositionOK, Versions
<1>3. CASE SourceStops
    BY <1>3 DEF SourceStops, TypeOK, SourceTypeOK, StoreTypeOK, JobTypeOK,
        MemoryTypeOK, PositionOK
<1>4. ASSUME NEW t \in Tables, EditControl(t) PROVE TypeOK'
    <2>1. PICK a \in BOOLEAN, c \in Configs :
              control' = [control EXCEPT ![t].active = a, ![t].config = c]
        BY <1>4 DEF EditControl
    <2>2. control' \in [Tables -> ControlRow]
        BY <2>1 DEF TypeOK, StoreTypeOK, ControlRow
    <2>3. QED
        BY <1>4, <2>2 DEF EditControl, TypeOK, SourceTypeOK, StoreTypeOK, JobTypeOK,
           MemoryTypeOK,
               PositionOK
<1>5. CASE StartRun
    BY <1>5 DEF StartRun, StartRunOver, TypeOK, SourceTypeOK, StoreTypeOK, JobTypeOK,
        MemoryTypeOK, PositionOK, ControlRow, Runs
<1>6. ASSUME NEW t \in Tables, PrepNoColumns(t) PROVE TypeOK'
    <2>1. control' \in [Tables -> ControlRow]
        BY <1>6, StatusType DEF PrepNoColumns, Statuses, TypeOK
    <2>2. QED
        BY <1>6, <2>1, PreparesType
        DEF PrepNoColumns, TypeOK, SourceTypeOK, MemoryTypeOK
<1>7. ASSUME NEW t \in Tables, PrepConfigError(t) PROVE TypeOK'
    <2>1. control' \in [Tables -> ControlRow]
        BY <1>7, StatusType DEF PrepConfigError, Statuses, TypeOK
    <2>2. QED
        BY <1>7, <2>1, PreparesType
        DEF PrepConfigError, TypeOK, SourceTypeOK, MemoryTypeOK
<1>8. ASSUME NEW t \in Tables, PrepNoSourceWatermark(t) PROVE TypeOK'
    <2>1. control' \in [Tables -> ControlRow]
        BY <1>8, StatusType DEF PrepNoSourceWatermark, Statuses, TypeOK
    <2>2. QED
        BY <1>8, <2>1, PreparesType
        DEF PrepNoSourceWatermark, TypeOK, SourceTypeOK, MemoryTypeOK
<1>9. ASSUME NEW t \in Tables, PrepNoChanges(t) PROVE TypeOK'
    <2>1. control' \in [Tables -> ControlRow]
        BY <1>9, StatusType DEF PrepNoChanges, Statuses, TypeOK
    <2>2. QED
        BY <1>9, <2>1, PreparesType
        DEF PrepNoChanges, TypeOK, SourceTypeOK, MemoryTypeOK
<1>10. ASSUME NEW t \in Tables, QueueInterval(t) PROVE TypeOK'
    <2>1. PICK m \in Stamps :
              /\ staged' = [staged EXCEPT ![t] =
                     [status |-> "QUEUED", lower |-> seen[t].last, upper |-> m]]
              /\ horizon' = [horizon EXCEPT ![t] = IF m > horizon[t] THEN m ELSE horizon[t]]
        BY <1>10 DEF QueueInterval
    <2>2. m \in Marks /\ seen[t].last \in Marks
        BY DEF TypeOK, MemoryTypeOK, Marks, Stamps
    <2>3. staged' \in [Tables -> QueueRow]
        BY <2>1, <2>2 DEF TypeOK, MemoryTypeOK, QueueRow, Marking
    <2>4. horizon' \in [Tables -> Marks]
        BY <2>1, <2>2 DEF TypeOK, SourceTypeOK
    <2>5. control' \in [Tables -> ControlRow]
        BY <1>10, StatusType DEF QueueInterval, Statuses, TypeOK
    <2>6. QED
        BY <1>10, <2>3, <2>4, <2>5, PreparesType DEF QueueInterval
<1>11. ASSUME NEW t \in Tables, QueueSnapshot(t) PROVE TypeOK'
    <2>1. staged' \in [Tables -> QueueRow]
        BY <1>11 DEF QueueSnapshot, TypeOK, MemoryTypeOK, NoRow, QueueRow, Marking, Marks, NULL
    <2>2. control' \in [Tables -> ControlRow]
        BY <1>11, StatusType DEF QueueSnapshot, Statuses, TypeOK
    <2>3. QED
        BY <1>11, <2>1, <2>2, PreparesType DEF QueueSnapshot, TypeOK, SourceTypeOK
<1>12. ASSUME NEW t \in Tables, PrepFails(t) PROVE TypeOK'
    <2>1. control' \in [Tables -> ControlRow]
        BY <1>12, StatusType DEF PrepFails, Statuses, TypeOK, StoreTypeOK
    <2>2. QED
        BY <1>12, <2>1, PreparesType DEF PrepFails, TypeOK, SourceTypeOK, MemoryTypeOK
<1>13. CASE WriteQueue
    BY <1>13 DEF WriteQueue, TypeOK, SourceTypeOK, StoreTypeOK, JobTypeOK,
        MemoryTypeOK, PositionOK, Runs, NotSeen, NoRows, NoRow, QueueRow,
        Marking, Marks, NULL, Configs
<1>14. CASE BeginApply
    BY <1>14 DEF BeginApply, TypeOK, SourceTypeOK, StoreTypeOK, JobTypeOK,
        MemoryTypeOK, PositionOK
<1>15. CASE BeginApplyWithoutRunId
    BY <1>15 DEF BeginApplyWithoutRunId, TypeOK, SourceTypeOK, StoreTypeOK,
        JobTypeOK, MemoryTypeOK, PositionOK, Fault
<1>16. ASSUME NEW t \in Tables, TakeItem(t) PROVE TypeOK'
    BY <1>16 DEF TakeItem, TypeOK, SourceTypeOK, StoreTypeOK, JobTypeOK,
        MemoryTypeOK, PositionOK, Steps
<1>17. ASSUME NEW t \in Tables, ReadSlice(t) PROVE TypeOK'
    BY <1>17 DEF ReadSlice, TypeOK, SourceTypeOK, StoreTypeOK, JobTypeOK,
        MemoryTypeOK, PositionOK, Steps, Versions
<1>18. ASSUME NEW t \in Tables, OverwriteTarget(t) PROVE TypeOK'
    BY <1>18 DEF OverwriteTarget, TypeOK, SourceTypeOK, StoreTypeOK, JobTypeOK,
        MemoryTypeOK, PositionOK, Writes, Holding, Steps
<1>19. ASSUME NEW t \in Tables, DeleteInterval(t) PROVE TypeOK'
    BY <1>19 DEF DeleteInterval, TypeOK, SourceTypeOK, StoreTypeOK, JobTypeOK,
        MemoryTypeOK, PositionOK, Writes, Holding, Steps
<1>20. ASSUME NEW t \in Tables, AppendSlice(t) PROVE TypeOK'
    BY <1>20 DEF AppendSlice, TypeOK, SourceTypeOK, StoreTypeOK, JobTypeOK,
        MemoryTypeOK, PositionOK, Writes, Holding, Steps
<1>21. ASSUME NEW t \in Tables, MergeSlice(t) PROVE TypeOK'
    BY <1>21 DEF MergeSlice, TypeOK, SourceTypeOK, StoreTypeOK, JobTypeOK,
        MemoryTypeOK, PositionOK, Writes, Holding, Steps
<1>22. ASSUME NEW t \in Tables, AuditSuccess(t) PROVE TypeOK'
    BY <1>22 DEF AuditSuccess, TypeOK, SourceTypeOK, StoreTypeOK, JobTypeOK,
        MemoryTypeOK, PositionOK, Runs, Steps
<1>23. ASSUME NEW t \in Tables, CommitCheckpoint(t) PROVE TypeOK'
    <2>1. run \in Runs
        BY <1>23 DEF CommitCheckpoint, TypeOK, JobTypeOK, PositionOK, Runs
    <2>2. queue[run][t].upper \in Marks /\ control[t].last \in Marks
        BY <2>1 DEF TypeOK, StoreTypeOK, ControlRow, QueueRow
    <2>3. control' \in [Tables -> ControlRow]
        <3> DEFINE m == IF t \in Temporal THEN queue[run][t].upper ELSE control[t].last
                   s == IF Strategy[t] = "FULL_LOAD"
                        THEN "DELTA_FULL_REFRESH_SUCCEEDED" ELSE "DELTA_SYNCED"
                   row == [control[t] EXCEPT !.run = run, !.last = m, !.status = s]
        <3>1. row \in ControlRow
            BY <2>2 DEF TypeOK, StoreTypeOK, JobTypeOK, ControlRow, Statuses
        <3>2. control' = [control EXCEPT ![t] = row]
            BY <1>23 DEF CommitCheckpoint
        <3>3. QED
            BY <3>1, <3>2 DEF TypeOK, StoreTypeOK
    <2>4. QED
        BY <1>23, <2>3 DEF CommitCheckpoint, Steps, TypeOK, SourceTypeOK, StoreTypeOK,
           JobTypeOK,
               MemoryTypeOK, PositionOK
<1>24. ASSUME NEW t \in Tables, FinalizeQueue(t) PROVE TypeOK'
    <2>1. run \in Runs
        BY <1>24, EndsItemType DEF FinalizeQueue
    <2>2. queue' \in [Runs -> [Tables -> QueueRow]]
        BY <1>24, <2>1, MarkType DEF FinalizeQueue, Marking, TypeOK
    <2>3. QED
        BY <1>24, <2>2, EndsItemType
        DEF FinalizeQueue, NoFault, TypeOK, StoreTypeOK, JobTypeOK, MemoryTypeOK, Steps
<1>25. ASSUME NEW t \in Tables, ApplyFails(t) PROVE TypeOK'
    BY <1>25, ItemFailsType DEF ApplyFails, Marking, Statuses
<1>26. ASSUME NEW t \in Tables, CheckpointFails(t) PROVE TypeOK'
    BY <1>26, ItemFailsType DEF CheckpointFails, Marking, Statuses
<1>27. ASSUME NEW t \in Tables, FinalizeFails(t) PROVE TypeOK'
    BY <1>27, ItemFailsType DEF FinalizeFails, Marking, Statuses
<1>28. CASE FinishApply
    BY <1>28 DEF FinishApply, TypeOK, SourceTypeOK, StoreTypeOK, JobTypeOK,
        MemoryTypeOK, PositionOK, Outcomes, Runs
<1>29. ASSUME NEW t \in Tables, ReconcileTable(t) PROVE TypeOK'
    <2>1. Counts(t) \in ReconRow
        BY DEF Counts, CountStatus, NoResult, ReconRow
    <2>2. QED
        BY <1>29, <2>1 DEF ReconcileTable, Reconciles, ReconRow, NoFault, TypeOK,
           SourceTypeOK, StoreTypeOK,
               JobTypeOK, MemoryTypeOK, PositionOK
<1>30. ASSUME NEW t \in Tables, ReconcileFails(t) PROVE TypeOK'
    <2>1. [NoResult EXCEPT !.status = "FAIL"] \in ReconRow
        BY DEF NoResult, ReconRow
    <2>2. faults' \in 0 .. MaxFaults /\ edits' \in 0 .. MaxEdits
        BY <1>30, FaultType DEF ReconcileFails, TypeOK
    <2>3. QED
        BY <1>30, <2>1, <2>2 DEF ReconcileFails, Reconciles, ReconRow, Fault, TypeOK,
           SourceTypeOK,
               StoreTypeOK, JobTypeOK, MemoryTypeOK, PositionOK
<1>31. CASE FinishReconcile
    <2>1. run \in Runs
        BY <1>31 DEF FinishReconcile, TypeOK, JobTypeOK, PositionOK, Runs
    <2>2. ASSUME NEW t \in Tables
          PROVE  [results[t] EXCEPT !.boundary = Boundary(t)] \in ReconRow
        BY DEF Boundary, TypeOK, MemoryTypeOK, ReconRow
    <2>3. recon' \in [Tables -> ReconRow]
        BY <1>31, <2>2 DEF FinishReconcile, TypeOK, StoreTypeOK
    <2>4. NoResults \in [Tables -> ReconRow]
        BY DEF NoResults, NoResult, ReconRow
    <2>5. outcome' \in [Runs -> Outcomes]
        BY <1>31, <2>1 DEF FinishReconcile, TypeOK, JobTypeOK, Outcomes
    <2>6. QED
        BY <1>31, <2>3, <2>4, <2>5 DEF FinishReconcile, TypeOK, SourceTypeOK, StoreTypeOK,
               JobTypeOK, MemoryTypeOK, PositionOK
<1>32. CASE Crash
    <2>1. NoRow \in QueueRow /\ NoResult \in ReconRow
        BY DEF NoRow, QueueRow, Marking, Marks, NULL, NoResult, ReconRow
    <2>2. /\ seen' \in [Tables -> [config : Configs, last : Marks]]
          /\ staged' \in [Tables -> QueueRow] /\ results' \in [Tables -> ReconRow]
          /\ slice' \in [Keys -> Versions]
        BY <1>32, <2>1 DEF Crash, NotSeen, NoRows, NoResults, NoSlice, Configs, Marks, NULL,
           Versions
    <2>3. outcome' \in [Runs -> Outcomes]
        BY <1>32 DEF Crash, TypeOK, JobTypeOK, Outcomes
    <2>4. faults' \in 0 .. MaxFaults /\ edits' \in 0 .. MaxEdits
        BY <1>32, FaultType DEF Crash, TypeOK
    <2>5. QED
        BY <1>32, <2>2, <2>3, <2>4 DEF Crash, Steps, TypeOK, SourceTypeOK, StoreTypeOK,
           JobTypeOK,
               MemoryTypeOK, PositionOK
<1>33. ASSUME NEW r \in Runs, RepairRun(r) PROVE TypeOK'
    <2>1. /\ run' \in 0 .. MaxRuns /\ run' # 0
          /\ phase' \in {"queued", "recon"}
          /\ todo' \in SUBSET Tables
        <3>1. run' \in 0 .. MaxRuns /\ run' # 0
            BY <1>33 DEF RepairRun, Runs
        <3>2. CASE outcome[r] = "apply_failed"
            BY <1>33, <3>1, <3>2 DEF RepairRun, TypeOK, MemoryTypeOK
        <3>3. CASE outcome[r] # "apply_failed"
            BY <1>33, <3>1, <3>3 DEF RepairRun, TypeOK, MemoryTypeOK
        <3>4. QED
            BY <3>2, <3>3
    <2>2. current = NoTable
        BY <1>33 DEF RepairRun, TypeOK, PositionOK
    <2>3. QED
        BY <1>33, <2>1, <2>2 DEF RepairRun, TypeOK, SourceTypeOK, StoreTypeOK, JobTypeOK,
           MemoryTypeOK, PositionOK
<1>34. CASE ReconcileWithoutRunId
    BY <1>34 DEF ReconcileWithoutRunId, Fault, TypeOK, SourceTypeOK, StoreTypeOK,
        JobTypeOK, MemoryTypeOK, PositionOK
<1>35. CASE UNCHANGED vars
    BY <1>35 DEF vars, TypeOK, SourceTypeOK, StoreTypeOK, JobTypeOK,
        MemoryTypeOK, PositionOK
<1>36. QED
    BY <1>1, <1>2, <1>3, <1>4, <1>5, <1>6, <1>7, <1>8, <1>9, <1>10, <1>11, <1>12, <1>13,
       <1>14, <1>15, <1>16, <1>17, <1>18, <1>19, <1>20, <1>21, <1>22, <1>23, <1>24, <1>25,
       <1>26, <1>27, <1>28, <1>29, <1>30, <1>31, <1>32, <1>33, <1>34, <1>35
    DEF Next, Environment, Job, Prep, Apply, Reconcile, Failure

\* TypeCorrect: every reachable state is well typed, and NB11b holds an item
\* only inside the apply task of some run.
THEOREM TypeCorrect == Spec => []TypeOK
BY TypeInit, TypeStep, PTL DEF Spec

\* A status moves neither the run nor the checkpoint of a control row.
LEMMA StatusKeepsTrace ==
    ASSUME TypeOK, NEW t \in Tables, NEW s, Status(t, s), NEW u \in Tables
    PROVE  control'[u].run = control[u].run /\ control'[u].last = control[u].last
<1>1. control[u] \in ControlRow
    BY DEF TypeOK, StoreTypeOK
<1>2. control'[u] = IF u = t THEN [control[u] EXCEPT !.status = s] ELSE control[u]
    BY DEF Status, TypeOK, StoreTypeOK
<1>3. QED
    BY <1>1, <1>2 DEF ControlRow

\* Marking a queue row leaves every interval as it was queued.
LEMMA MarkKeepsBounds ==
    ASSUME TypeOK, run \in Runs, NEW t \in Tables, NEW s, MarkQueue(t, s),
           NEW r \in Runs, NEW u \in Tables
    PROVE  queue'[r][u].lower = queue[r][u].lower /\ queue'[r][u].upper = queue[r][u].upper
<1>1. queue[r][u] \in QueueRow
    BY DEF TypeOK, StoreTypeOK
<1>2. queue'[r][u] = IF r = run /\ u = t THEN [queue[r][u] EXCEPT !.status = s]
                                         ELSE queue[r][u]
    BY DEF MarkQueue, TypeOK, StoreTypeOK
<1>3. QED
    BY <1>1, <1>2 DEF QueueRow

-----------------------------------------------------------------------------
(* The inductive invariant behind CheckpointCovers.                        *)

\* The tables CheckpointCovers speaks of.
Protected == {t \in Temporal : Strategy[t] = "HYBRID" \/ ~Repairs}

\* The next statement of NB11b belongs to the strategy of the item.
StepFitsStrategy ==
    \A t \in Tables : current = t =>
        /\ step = "overwrite" => Strategy[t] = "FULL_LOAD"
        /\ step \in {"delete", "append"} => Strategy[t] = "WATERMARK"
        /\ step = "merge" => t \in Keyed

\* A notebook's memory is empty unless it runs; an item taken has left the loop.
MemoryCleared ==
    /\ phase # "prep" => seen = NotSeen /\ staged = NoRows
    /\ phase # "apply" => work = {}
    /\ current \notin work

\* No watermark the job holds is above the largest one it captured.
BelowHorizon ==
    \A t \in Tables :
        /\ control[t].last <= horizon[t]
        /\ seen[t].last <= horizon[t]
        /\ staged[t].lower <= horizon[t] /\ staged[t].upper <= horizon[t]
        /\ \A r \in Runs : /\ queue[r][t].lower <= horizon[t]
                           /\ queue[r][t].upper <= horizon[t]

\* The target holds everything below each watermark an interval starts at.
BoundsCovered ==
    \A t \in Protected :
        /\ Covered(t, control[t].last)
        /\ Covered(t, seen[t].last)
        /\ Covered(t, staged[t].lower)
        /\ \A r \in Runs : Covered(t, queue[r][t].lower)

\* The slice is what the query would select now, but for rows written since.
SliceIsCurrent ==
    \A t \in Protected : current = t /\ step \in {"delete", "append", "merge"} =>
        \A k \in Keys : source[t][k] # 0 /\ source[t][k] <= horizon[t] =>
            slice[k] = IF Selected(t, source[t][k]) THEN source[t][k] ELSE 0

\* Once written, the item covers its interval.
WrittenCovered ==
    \A t \in Protected : current = t /\ step \in {"audit", "commit"} =>
        Covered(t, queue[run][t].upper)

\* The queue row of t still has to be applied and committed.
Pending(t) ==
    \/ phase = "queued" /\ queue[run][t].status = "QUEUED"
    \/ t \in work
    \/ current = t /\ step # "finalize"

\* An interval handed from one stage to the next starts at the checkpoint.
Adjacent(t, row) == row.lower = control[t].last /\ row.lower <= row.upper

\* Without repairs no interval starts above the checkpoint, and the one to be
\* applied next starts exactly there.
StartsAtCheckpoint ==
    ~Repairs => \A t \in Temporal :
        /\ \A r \in Runs : queue[r][t].lower <= control[t].last
        /\ phase = "prep" => /\ seen[t].last = control[t].last
                             /\ staged[t] = NoRow \/ Adjacent(t, staged[t])
        /\ Pending(t) => Adjacent(t, queue[run][t])

CoverInv ==
    /\ TypeOK
    /\ StepFitsStrategy
    /\ MemoryCleared
    /\ BelowHorizon
    /\ BoundsCovered
    /\ SliceIsCurrent
    /\ WrittenCovered
    /\ StartsAtCheckpoint

\* No step but a commit moves a checkpoint.
SameCheckpoints == \A t \in Tables : control'[t].last = control[t].last

\* A step that touches none of the state the invariant relates keeps it.
LEMMA QuietStep ==
    ASSUME CoverInv, TypeOK', SameCheckpoints,
           UNCHANGED <<source, horizon, target, queue, phase, run, seen, staged, work,
                       current, step, slice>>
    PROVE  CoverInv'
<1> USE DEF CoverInv, SameCheckpoints, Temporal, Protected
<1>1. StepFitsStrategy'
    BY DEF StepFitsStrategy, Keyed
<1>2. MemoryCleared'
    BY DEF MemoryCleared
<1>3. BelowHorizon'
    BY DEF BelowHorizon
<1>4. BoundsCovered'
    BY DEF BoundsCovered, Covered
<1>5. SliceIsCurrent'
    BY DEF SliceIsCurrent, Selected
<1>6. WrittenCovered'
    BY DEF WrittenCovered, Covered
<1>7. StartsAtCheckpoint'
    BY DEF StartsAtCheckpoint, Pending, Adjacent
<1>8. QED
    BY <1>1, <1>2, <1>3, <1>4, <1>5, <1>6, <1>7

\* The initial state satisfies the invariant: the targets are copies of the
\* sources, and nothing is in flight.
LEMMA CoverInit == Init => CoverInv
<1> SUFFICES ASSUME Init PROVE CoverInv
    OBVIOUS
<1>1. TypeOK
    BY TypeInit
<1>2. StepFitsStrategy /\ MemoryCleared /\ SliceIsCurrent /\ WrittenCovered
    BY ConstantsAssumption
    DEF Init, StepFitsStrategy, MemoryCleared, SliceIsCurrent, WrittenCovered, NoRows,
        Protected, Temporal
<1>3. ASSUME NEW t \in Tables, NEW b PROVE Covered(t, b)
    <2> SUFFICES ASSUME NEW k \in Keys, source[t][k] # 0
                 PROVE  target[t][k][source[t][k]] > 0
        BY DEF Covered
    <2>1. source[t][k] \in Stamps
        BY <1>1 DEF TypeOK, SourceTypeOK, Versions, Stamps
    <2>2. QED
        BY <2>1 DEF Init, Holding
<1>4. BoundsCovered
    BY <1>3 DEF BoundsCovered, Protected, Temporal
<1>5. \A t \in Tables : NULL <= horizon[t]
    BY <1>1 DEF TypeOK, SourceTypeOK, Marks, NULL
<1>6. BelowHorizon
    BY <1>1, <1>5
    DEF Init, BelowHorizon, NotSeen, NoRows, NoRow, TypeOK, StoreTypeOK, ControlRow, Marks
<1>7. StartsAtCheckpoint
    <2>1. ASSUME NEW t \in Tables PROVE ~Pending(t) /\ NULL <= control[t].last
        BY <1>1, ConstantsAssumption
        DEF Init, Pending, NoRows, NoRow, TypeOK, StoreTypeOK, ControlRow, Marks, NULL
    <2>2. QED
        BY <2>1 DEF Init, StartsAtCheckpoint, NoRows, NoRow, Temporal
<1>8. QED
    BY <1>1, <1>2, <1>4, <1>6, <1>7 DEF CoverInv

\* The watermarks of the job are integers.
LEMMA MarksAreIntegers ==
    ASSUME TypeOK, NEW t \in Tables
    PROVE  /\ horizon[t] \in Marks /\ control[t].last \in Marks /\ seen[t].last \in Marks
           /\ staged[t].lower \in Marks /\ staged[t].upper \in Marks
           /\ \A r \in Runs : queue[r][t].lower \in Marks /\ queue[r][t].upper \in Marks
<1>1. horizon[t] \in Marks
    BY DEF TypeOK, SourceTypeOK
<1>2. control[t] \in ControlRow /\ staged[t] \in QueueRow
    BY DEF TypeOK, StoreTypeOK, MemoryTypeOK
<1>3. \A r \in Runs : queue[r][t] \in QueueRow
    BY DEF TypeOK, StoreTypeOK
<1>4. seen[t] \in [config : Configs, last : Marks]
    BY DEF TypeOK, MemoryTypeOK
<1>5. QED
    BY <1>1, <1>2, <1>3, <1>4 DEF ControlRow, QueueRow

\* Source changes disturb nothing: a row written after MAX was captured is
\* above every watermark the job holds, and a deleted row needs no cover.
LEMMA SourceStep ==
    ASSUME CoverInv, TypeOK', NEW t \in Tables, SourceWrite(t) \/ SourceDelete(t)
    PROVE  CoverInv'
<1> USE DEF Protected, Temporal
<1>1. UNCHANGED <<horizon, target, control, queue, phase, run, seen, staged, work, current,
                  step, slice>>
    BY DEF SourceWrite, SourceDelete, storeVars, jobVars, prepVars, itemVars
<1>2. ASSUME NEW u \in Tables, NEW k \in Keys
      PROVE  source'[u][k] \in {0, source[u][k]} \/ source'[u][k] > horizon[u]
    BY DEF SourceWrite, SourceDelete, CoverInv, TypeOK, SourceTypeOK
<1>3. ASSUME NEW u \in Tables, NEW b \in Marks, b <= horizon[u], Covered(u, b)
      PROVE  Covered(u, b)'
    <2> SUFFICES ASSUME NEW k \in Keys, source'[u][k] # 0, source'[u][k] <= b
                 PROVE  target'[u][k][source'[u][k]] > 0
        BY DEF Covered
    <2>1. horizon[u] \in Int /\ b \in Int /\ source'[u][k] \in Int
        BY ConstantsAssumption DEF CoverInv, TypeOK, SourceTypeOK, Marks, Versions
    <2>2. source'[u][k] = source[u][k]
        BY <1>2, <1>3, <2>1
    <2>3. QED
        BY <1>1, <1>3, <2>2 DEF Covered
<1>4. StepFitsStrategy' /\ MemoryCleared'
    BY <1>1 DEF CoverInv, StepFitsStrategy, MemoryCleared, Keyed
<1>5. BelowHorizon'
    BY <1>1 DEF CoverInv, BelowHorizon
<1>6. BoundsCovered'
    <2> SUFFICES ASSUME NEW u \in Protected
                 PROVE  /\ Covered(u, control[u].last)'
                        /\ Covered(u, seen[u].last)'
                        /\ Covered(u, staged[u].lower)'
                        /\ \A r \in Runs : Covered(u, queue[r][u].lower)'
        BY DEF BoundsCovered
    <2> USE <1>1, <1>3, MarksAreIntegers DEF CoverInv, BoundsCovered, BelowHorizon, Covered
    <2>1. Covered(u, control[u].last)'
        OBVIOUS
    <2>2. Covered(u, seen[u].last)'
        OBVIOUS
    <2>3. Covered(u, staged[u].lower)'
        OBVIOUS
    <2>4. ASSUME NEW r \in Runs PROVE Covered(u, queue[r][u].lower)'
        OBVIOUS
    <2>5. QED
        BY <2>1, <2>2, <2>3, <2>4
<1>7. SliceIsCurrent'
    <2> SUFFICES ASSUME NEW u \in Protected, current = u,
                        step \in {"delete", "append", "merge"},
                        NEW k \in Keys, source'[u][k] # 0, source'[u][k] <= horizon[u]
                 PROVE  slice[k] = IF Selected(u, source'[u][k]) THEN source'[u][k] ELSE 0
        BY <1>1 DEF SliceIsCurrent, Selected
    <2>1. horizon[u] \in Int /\ source'[u][k] \in Int
        BY ConstantsAssumption DEF CoverInv, TypeOK, SourceTypeOK, Marks, Versions
    <2>2. source'[u][k] = source[u][k]
        BY <1>2, <2>1
    <2>3. QED
        BY <2>2 DEF CoverInv, SliceIsCurrent
<1>8. WrittenCovered'
    <2> SUFFICES ASSUME NEW u \in Protected, current = u, step \in {"audit", "commit"}
                 PROVE  Covered(u, queue[run][u].upper)'
        BY <1>1 DEF WrittenCovered
    <2>1. run \in Runs
        BY ConstantsAssumption DEF CoverInv, TypeOK, JobTypeOK, PositionOK, Runs
    <2>2. Covered(u, queue[run][u].upper)
        BY DEF CoverInv, WrittenCovered
    <2>3. QED
        BY <1>1, <1>3, <2>1, <2>2, MarksAreIntegers DEF CoverInv, BelowHorizon, Covered
<1>9. StartsAtCheckpoint'
    BY <1>1 DEF CoverInv, StartsAtCheckpoint, Pending, Adjacent
<1>10. QED
    BY <1>4, <1>5, <1>6, <1>7, <1>8, <1>9 DEF CoverInv

\* A step after which no item is being applied, and which moves neither the
\* data nor a checkpoint, keeps the invariant if each watermark it hands on
\* was held by the previous stage.
HandsOn ==
    /\ current' = NoTable
    /\ UNCHANGED <<source, target>>
    /\ SameCheckpoints
    /\ \A t \in Tables :
          /\ horizon'[t] >= horizon[t]
          /\ seen'[t].last \in {NULL, seen[t].last, control[t].last}
          /\ staged'[t].lower \in {NULL, staged[t].lower, seen[t].last}
          /\ staged'[t].upper <= horizon'[t]
          /\ \A r \in Runs :
                /\ queue'[r][t].lower \in {queue[r][t].lower, staged[t].lower}
                /\ queue'[r][t].upper \in {queue[r][t].upper, staged[t].upper}

LEMMA HandOver ==
    ASSUME CoverInv, TypeOK', HandsOn, MemoryCleared', StartsAtCheckpoint'
    PROVE  CoverInv'
<1> USE DEF Protected, Temporal
<1>1. StepFitsStrategy' /\ SliceIsCurrent' /\ WrittenCovered'
    BY ConstantsAssumption
    DEF HandsOn, StepFitsStrategy, SliceIsCurrent, WrittenCovered
<1>2. BelowHorizon'
    <2> SUFFICES ASSUME NEW t \in Tables
                 PROVE  /\ control'[t].last <= horizon'[t]
                        /\ seen'[t].last <= horizon'[t]
                        /\ staged'[t].lower <= horizon'[t]
                        /\ staged'[t].upper <= horizon'[t]
                        /\ \A r \in Runs : /\ queue'[r][t].lower <= horizon'[t]
                                           /\ queue'[r][t].upper <= horizon'[t]
        BY DEF BelowHorizon
    <2>1. horizon'[t] \in Int /\ horizon'[t] >= horizon[t] /\ NULL <= horizon'[t]
        BY DEF HandsOn, TypeOK, SourceTypeOK, Marks, NULL
    <2>2. ASSUME NEW m \in Marks, m <= horizon[t] PROVE m <= horizon'[t]
        BY <2>1, <2>2 DEF CoverInv, TypeOK, SourceTypeOK, Marks
    <2>3. control'[t].last <= horizon'[t] /\ seen'[t].last <= horizon'[t]
        BY <2>1, <2>2, MarksAreIntegers DEF HandsOn, SameCheckpoints, CoverInv, BelowHorizon
    <2>4. staged'[t].lower <= horizon'[t] /\ staged'[t].upper <= horizon'[t]
        BY <2>1, <2>2, MarksAreIntegers DEF HandsOn, CoverInv, BelowHorizon
    <2>5. ASSUME NEW r \in Runs
          PROVE  queue'[r][t].lower <= horizon'[t] /\ queue'[r][t].upper <= horizon'[t]
        BY <2>1, <2>2, MarksAreIntegers DEF HandsOn, CoverInv, BelowHorizon
    <2>6. QED
        BY <2>3, <2>4, <2>5
<1>3. BoundsCovered'
    <2> SUFFICES ASSUME NEW t \in Protected
                 PROVE  /\ Covered(t, control[t].last)'
                        /\ Covered(t, seen[t].last)'
                        /\ Covered(t, staged[t].lower)'
                        /\ \A r \in Runs : Covered(t, queue[r][t].lower)'
        BY DEF BoundsCovered
    <2>1. Covered(t, NULL)
        BY ConstantsAssumption DEF Covered, NULL, CoverInv, TypeOK, SourceTypeOK, Versions
    <2> USE <2>1 DEF CoverInv, BoundsCovered, HandsOn, SameCheckpoints, Covered
    <2>2. Covered(t, control[t].last)'
        OBVIOUS
    <2>3. Covered(t, seen[t].last)'
        OBVIOUS
    <2>4. Covered(t, staged[t].lower)'
        OBVIOUS
    <2>5. ASSUME NEW r \in Runs PROVE Covered(t, queue[r][t].lower)'
        OBVIOUS
    <2>6. QED
        BY <2>2, <2>3, <2>4, <2>5
<1>4. QED
    BY <1>1, <1>2, <1>3 DEF CoverInv

\* Nothing is pending when the job neither waits to apply nor applies.
LEMMA NothingPending ==
    ASSUME CoverInv, NEW t \in Tables, phase \notin {"queued", "apply"}
    PROVE  ~Pending(t) /\ current = NoTable
BY ConstantsAssumption DEF CoverInv, MemoryCleared, Pending, TypeOK, PositionOK

\* StartRun: a new run reads the checkpoints it will start its intervals at.
LEMMA StartRunCovers ==
    ASSUME CoverInv, TypeOK', StartRun
    PROVE  CoverInv'
<1> USE DEF StartRun, StartRunOver, sourceVars, storeVars, jobVars, itemVars
<1>1. current = NoTable
    BY DEF CoverInv, TypeOK, PositionOK
<1>2. staged = NoRows /\ work = {}
    BY DEF CoverInv, MemoryCleared
<1>3. MemoryCleared'
    BY <1>1, <1>2 DEF MemoryCleared
<1>4. StartsAtCheckpoint'
    <2>1. ASSUME NEW t \in Tables PROVE ~Pending(t)'
        BY <1>1, <1>2, ConstantsAssumption DEF Pending
    <2>2. QED
        BY <1>2, <2>1 DEF CoverInv, StartsAtCheckpoint, Temporal, NoRows
<1>5. HandsOn
    <2>1. \A t \in Tables : horizon'[t] >= horizon[t] /\ staged'[t].upper <= horizon'[t]
        BY MarksAreIntegers DEF CoverInv, BelowHorizon, Marks
    <2>2. QED
        BY <1>1, <2>1 DEF HandsOn, SameCheckpoints
<1>6. QED
    BY <1>3, <1>4, <1>5, HandOver

\* A status moves no checkpoint.
LEMMA StatusKeepsCheckpoints ==
    ASSUME TypeOK, NEW t \in Tables, NEW s, Status(t, s)
    PROVE  SameCheckpoints
BY StatusKeepsTrace DEF SameCheckpoints

\* An iteration of NB11a that only records a status keeps the invariant.
LEMMA StatusStep ==
    ASSUME CoverInv, TypeOK', NEW t \in Tables, Prepares(t),
           UNCHANGED <<horizon, staged>>,
           UNCHANGED control \/ \E s \in Statuses : Status(t, s)
    PROVE  CoverInv'
<1>1. SameCheckpoints
    <2>1. CASE UNCHANGED control
        BY <2>1 DEF SameCheckpoints
    <2>2. ASSUME NEW s \in Statuses, Status(t, s) PROVE SameCheckpoints
        BY <2>2, StatusKeepsCheckpoints DEF CoverInv
    <2>3. QED
        BY <2>1, <2>2
<1>2. UNCHANGED <<source, horizon, target, queue, phase, run, seen, staged, work, current,
                  step, slice>>
    BY DEF Prepares, jobVars, itemVars
<1>3. QED
    BY <1>1, <1>2, QuietStep

\* QueueInterval: the queued interval starts at the checkpoint NB11a read and
\* ends at the largest watermark captured.
LEMMA QueueIntervalCovers ==
    ASSUME CoverInv, TypeOK', NEW t \in Tables, QueueInterval(t)
    PROVE  CoverInv'
<1> USE DEF jobVars, itemVars
<1>1. PICK m \in Stamps :
          /\ m > seen[t].last
          /\ staged' = [staged EXCEPT ![t] =
                 [status |-> "QUEUED", lower |-> seen[t].last, upper |-> m]]
          /\ horizon' = [horizon EXCEPT ![t] = IF m > horizon[t] THEN m ELSE horizon[t]]
    BY DEF QueueInterval
<1>2. /\ phase = "prep" /\ current = NoTable
      /\ UNCHANGED <<source, target, queue, phase, run, seen, work, current, step, slice>>
    BY DEF QueueInterval, Prepares, CoverInv, TypeOK, PositionOK
<1>3. SameCheckpoints
    BY DEF SameCheckpoints, QueueInterval, Status, CoverInv, TypeOK, StoreTypeOK, ControlRow
<1>4. MemoryCleared'
    BY <1>2 DEF CoverInv, MemoryCleared
<1>5. HandsOn
    <2>1. ASSUME NEW u \in Tables
          PROVE  /\ horizon'[u] >= horizon[u] /\ staged'[u].upper <= horizon'[u]
                 /\ staged'[u].lower \in {staged[u].lower, seen[u].last}
        <3>1. CASE u = t
            BY <1>1, <3>1, MarksAreIntegers
            DEF CoverInv, TypeOK, SourceTypeOK, MemoryTypeOK, Stamps, Marks
        <3>2. CASE u # t
            BY <1>1, <3>2, MarksAreIntegers
            DEF CoverInv, BelowHorizon, TypeOK, SourceTypeOK, MemoryTypeOK, Marks
        <3>3. QED
            BY <3>1, <3>2
    <2>2. QED
        BY <1>2, <1>3, <2>1 DEF HandsOn
<1>6. StartsAtCheckpoint'
    <2> SUFFICES ASSUME ~Repairs, NEW u \in Temporal
                 PROVE  /\ \A r \in Runs : queue'[r][u].lower <= control'[u].last
                        /\ seen'[u].last = control'[u].last
                        /\ (staged[u] = NoRow \/ Adjacent(u, staged[u]))'
                        /\ ~Pending(u)'
        BY DEF StartsAtCheckpoint, Temporal
    <2>1. u \in Tables /\ control'[u].last = control[u].last
        BY <1>3 DEF Temporal, SameCheckpoints
    <2>2. seen[u].last = control[u].last
        BY <1>2 DEF CoverInv, StartsAtCheckpoint
    <2>3. \A r \in Runs : queue'[r][u].lower <= control'[u].last
        BY <1>2, <2>1 DEF CoverInv, StartsAtCheckpoint
    <2>4. ~Pending(u)'
        BY <1>2, <2>1, NothingPending DEF Pending
    <2>5. (staged[u] = NoRow \/ Adjacent(u, staged[u]))'
        <3>1. CASE u = t
            BY <1>1, <2>1, <2>2, <3>1, MarksAreIntegers
            DEF Adjacent, CoverInv, TypeOK, MemoryTypeOK, Marks, Stamps
        <3>2. CASE u # t
            <4>1. staged'[u] = staged[u]
                BY <1>1, <2>1, <3>2 DEF CoverInv, TypeOK, MemoryTypeOK
            <4>2. QED
                BY <1>2, <2>1, <4>1 DEF CoverInv, StartsAtCheckpoint, Adjacent
        <3>3. QED
            BY <3>1, <3>2
    <2>6. QED
        BY <1>2, <2>1, <2>2, <2>3, <2>4, <2>5
<1>7. QED
    BY <1>4, <1>5, <1>6, HandOver

\* QueueSnapshot: a complete extract has no bounds.
LEMMA QueueSnapshotCovers ==
    ASSUME CoverInv, TypeOK', NEW t \in Tables, QueueSnapshot(t)
    PROVE  CoverInv'
<1> USE DEF jobVars, itemVars
<1>1. /\ phase = "prep" /\ current = NoTable /\ t \notin Temporal
      /\ UNCHANGED <<source, target, horizon, queue, phase, run, seen, work, current, step,
                     slice>>
      /\ staged' = [staged EXCEPT ![t] = [NoRow EXCEPT !.status = "QUEUED"]]
    BY DEF QueueSnapshot, Prepares, CoverInv, TypeOK, PositionOK
<1>2. SameCheckpoints
    BY DEF SameCheckpoints, QueueSnapshot, Status, CoverInv, TypeOK, StoreTypeOK, ControlRow
<1>3. MemoryCleared'
    BY <1>1 DEF CoverInv, MemoryCleared
<1>4. HandsOn
    <2>1. ASSUME NEW u \in Tables
          PROVE  /\ horizon'[u] >= horizon[u] /\ staged'[u].upper <= horizon'[u]
                 /\ staged'[u].lower \in {NULL, staged[u].lower}
        <3>1. CASE u = t
            BY <1>1, <3>1, MarksAreIntegers
            DEF CoverInv, TypeOK, MemoryTypeOK, NoRow, Marks, NULL
        <3>2. CASE u # t
            BY <1>1, <3>2, MarksAreIntegers
            DEF CoverInv, BelowHorizon, TypeOK, MemoryTypeOK, Marks
        <3>3. QED
            BY <3>1, <3>2
    <2>2. QED
        BY <1>1, <1>2, <2>1 DEF HandsOn
<1>5. StartsAtCheckpoint'
    <2>1. ASSUME NEW u \in Temporal PROVE ~Pending(u)' /\ staged'[u] = staged[u]
        BY <1>1, NothingPending DEF Pending, Temporal, CoverInv, TypeOK, MemoryTypeOK
    <2>2. QED
        BY <1>1, <1>2, <2>1
        DEF CoverInv, StartsAtCheckpoint, SameCheckpoints, Adjacent, Temporal
<1>6. QED
    BY <1>3, <1>4, <1>5, HandOver

\* WriteQueue: the run's rows are the staged ones.
LEMMA WriteQueueCovers ==
    ASSUME CoverInv, TypeOK', WriteQueue
    PROVE  CoverInv'
<1> USE DEF WriteQueue, sourceVars, itemVars
<1>1. current = NoTable /\ run \in Runs /\ work = {}
    BY DEF CoverInv, TypeOK, JobTypeOK, PositionOK, MemoryCleared, Runs
<1>2. /\ queue'[run] = staged
      /\ \A r \in Runs : r # run => queue'[r] = queue[r]
    BY <1>1 DEF CoverInv, TypeOK, StoreTypeOK
<1>3. MemoryCleared'
    BY <1>1 DEF MemoryCleared
<1>4. HandsOn
    <2>1. \A t \in Tables : horizon'[t] >= horizon[t] /\ NULL <= horizon'[t]
        BY MarksAreIntegers DEF CoverInv, Marks, NULL
    <2>2. QED
        BY <1>1, <1>2, <2>1 DEF HandsOn, SameCheckpoints, NotSeen, NoRows, NoRow
<1>5. StartsAtCheckpoint'
    <2> SUFFICES ASSUME ~Repairs, NEW t \in Temporal
                 PROVE  /\ \A r \in Runs : queue'[r][t].lower <= control[t].last
                        /\ Pending(t)' => Adjacent(t, queue[run][t])'
        BY DEF StartsAtCheckpoint, Temporal
    <2>1. t \in Tables /\ (staged[t] = NoRow \/ Adjacent(t, staged[t]))
        BY DEF CoverInv, StartsAtCheckpoint, Temporal
    <2>2. staged[t].lower <= control[t].last
        BY <2>1, MarksAreIntegers DEF CoverInv, NoRow, Adjacent, Marks, NULL
    <2>3. \A r \in Runs : queue'[r][t].lower <= control[t].last
        BY <1>2, <2>2 DEF CoverInv, StartsAtCheckpoint
    <2>4. ASSUME Pending(t)' PROVE Adjacent(t, queue[run][t])'
        <3>1. queue'[run][t].status = "QUEUED"
            BY <1>1, <2>1, <2>4, ConstantsAssumption DEF Pending
        <3>2. staged[t] # NoRow
            BY <1>2, <3>1 DEF NoRow
        <3>3. QED
            BY <1>2, <2>1, <3>2 DEF Adjacent
    <2>5. QED
        BY <2>3, <2>4
<1>6. QED
    BY <1>3, <1>4, <1>5, HandOver

\* BeginApply: what becomes work was queued for the run.
LEMMA BeginApplyCovers ==
    ASSUME CoverInv, TypeOK', BeginApply \/ BeginApplyWithoutRunId
    PROVE  CoverInv'
<1>1. /\ phase = "queued" /\ phase' = "apply" /\ current = NoTable
      /\ work' \subseteq {t \in Tables : queue[run][t].status = "QUEUED"}
      /\ UNCHANGED <<source, horizon, target, control, queue, run, seen, staged, current,
                     step, slice>>
    BY DEF BeginApply, BeginApplyWithoutRunId, sourceVars, storeVars, prepVars, itemVars,
           CoverInv, TypeOK, PositionOK
<1>2. MemoryCleared'
    BY <1>1, ConstantsAssumption DEF CoverInv, MemoryCleared
<1>3. HandsOn
    <2>1. \A t \in Tables : horizon'[t] >= horizon[t] /\ staged'[t].upper <= horizon'[t]
        BY <1>1, MarksAreIntegers DEF CoverInv, BelowHorizon, Marks
    <2>2. QED
        BY <1>1, <2>1 DEF HandsOn, SameCheckpoints
<1>4. StartsAtCheckpoint'
    <2>1. ASSUME NEW t \in Tables, Pending(t)' PROVE Pending(t)
        BY <1>1, <2>1, ConstantsAssumption DEF Pending
    <2>2. QED
        BY <1>1, <2>1 DEF CoverInv, StartsAtCheckpoint, Adjacent, Temporal
<1>5. QED
    BY <1>2, <1>3, <1>4, HandOver

\* The job comes to rest, or goes on to reconcile: nothing is pending.
LEMMA RestCovers ==
    ASSUME CoverInv, TypeOK', FinishApply \/ FinishReconcile \/ Crash
    PROVE  CoverInv'
<1>1. /\ phase' \in {"idle", "recon"} /\ current' = NoTable /\ work' = {}
      /\ UNCHANGED <<source, horizon, target, control, queue>>
      /\ seen' = NotSeen /\ staged' = NoRows
    BY DEF FinishApply, FinishReconcile, Crash, sourceVars, storeVars, prepVars, itemVars,
           CoverInv, TypeOK, PositionOK, MemoryCleared
<1>2. MemoryCleared'
    BY <1>1 DEF MemoryCleared
<1>3. HandsOn
    <2>1. \A t \in Tables : horizon'[t] >= horizon[t] /\ NULL <= horizon'[t]
        BY <1>1, MarksAreIntegers DEF CoverInv, Marks, NULL
    <2>2. QED
        BY <1>1, <2>1 DEF HandsOn, SameCheckpoints, NotSeen, NoRows, NoRow
<1>4. StartsAtCheckpoint'
    <2>1. ASSUME NEW t \in Tables PROVE ~Pending(t)'
        BY <1>1, ConstantsAssumption DEF Pending
    <2>2. QED
        BY <1>1, <2>1 DEF CoverInv, StartsAtCheckpoint, Temporal
<1>5. QED
    BY <1>2, <1>3, <1>4, HandOver

\* RepairRun: a repaired run may start anywhere, which is why nothing is
\* claimed of where its intervals start.
LEMMA RepairRunCovers ==
    ASSUME CoverInv, TypeOK', NEW r \in Runs, RepairRun(r)
    PROVE  CoverInv'
<1>1. /\ Repairs /\ phase = "idle" /\ current' = NoTable
      /\ UNCHANGED <<source, horizon, target, control, queue, seen, staged, work>>
    BY DEF RepairRun, sourceVars, storeVars, prepVars, itemVars, CoverInv, TypeOK, PositionOK
<1>2. seen = NotSeen /\ staged = NoRows /\ work = {}
    BY <1>1 DEF CoverInv, MemoryCleared
<1>3. MemoryCleared'
    BY <1>1, <1>2 DEF MemoryCleared
<1>4. HandsOn
    <2>1. \A t \in Tables : horizon'[t] >= horizon[t] /\ NULL <= horizon'[t]
        BY <1>1, MarksAreIntegers DEF CoverInv, Marks, NULL
    <2>2. QED
        BY <1>1, <1>2, <2>1 DEF HandsOn, SameCheckpoints, NotSeen, NoRows, NoRow
<1>5. StartsAtCheckpoint'
    BY <1>1 DEF StartsAtCheckpoint
<1>6. QED
    BY <1>3, <1>4, <1>5, HandOver

\* TakeItem: the row leaves the loop and is now the current item.
LEMMA TakeItemCovers ==
    ASSUME CoverInv, TypeOK', NEW t \in Tables, TakeItem(t)
    PROVE  CoverInv'
<1> USE DEF Protected, Temporal
<1>1. /\ phase = "apply" /\ current = NoTable /\ current' = t /\ step' = "read"
      /\ t \in work /\ work' = work \ {t}
      /\ UNCHANGED <<source, horizon, target, control, queue, phase, run, seen, staged>>
    BY DEF TakeItem, sourceVars, storeVars, jobVars, prepVars
<1>2. StepFitsStrategy' /\ SliceIsCurrent' /\ WrittenCovered'
    BY <1>1 DEF StepFitsStrategy, SliceIsCurrent, WrittenCovered
<1>3. MemoryCleared'
    BY <1>1 DEF CoverInv, MemoryCleared
<1>4. BelowHorizon' /\ BoundsCovered'
    BY <1>1 DEF CoverInv, BelowHorizon, BoundsCovered, Covered
<1>5. StartsAtCheckpoint'
    <2>1. ASSUME NEW u \in Tables, Pending(u)' PROVE Pending(u)
        BY <1>1, <2>1 DEF Pending
    <2>2. QED
        BY <1>1, <2>1 DEF CoverInv, StartsAtCheckpoint, Adjacent
<1>6. QED
    BY <1>2, <1>3, <1>4, <1>5 DEF CoverInv

\* A statement of the item moves nothing but the target, the slice and the
\* position.
LEMMA StatementFrame ==
    ASSUME CoverInv, NEW t \in Tables, current = t, step # "finalize",
           UNCHANGED <<source, horizon, control, queue, phase, run, seen, staged, work,
                       current>>
    PROVE  MemoryCleared' /\ BelowHorizon' /\ StartsAtCheckpoint'
<1>1. MemoryCleared' /\ BelowHorizon'
    BY DEF CoverInv, MemoryCleared, BelowHorizon
<1>2. ASSUME NEW u \in Tables, Pending(u)' PROVE Pending(u)
    BY <1>2 DEF Pending
<1>3. StartsAtCheckpoint'
    BY <1>2 DEF CoverInv, StartsAtCheckpoint, Adjacent, Temporal
<1>4. QED
    BY <1>1, <1>3

\* ReadSlice: the slice is what the query selects.
LEMMA ReadSliceCovers ==
    ASSUME CoverInv, TypeOK', NEW t \in Tables, ReadSlice(t)
    PROVE  CoverInv'
<1> USE DEF Protected, Temporal
<1>1. /\ current = t /\ step = "read"
      /\ slice' = [k \in Keys |-> IF Selected(t, source[t][k]) THEN source[t][k] ELSE 0]
      /\ UNCHANGED <<source, horizon, target, control, queue, phase, run, seen, staged, work,
                     current>>
    BY DEF ReadSlice, sourceVars, storeVars, jobVars, prepVars
<1>2. MemoryCleared' /\ BelowHorizon' /\ StartsAtCheckpoint'
    BY <1>1, StatementFrame
<1>3. step' = CASE Strategy[t] = "FULL_LOAD" -> "overwrite"
                [] Strategy[t] = "WATERMARK" -> "delete"
                [] OTHER                     -> "merge"
    BY DEF ReadSlice
<1>4. StepFitsStrategy'
    BY <1>1, <1>3, ConstantsAssumption DEF StepFitsStrategy, Strategies, Keyed
<1>5. SliceIsCurrent'
    BY <1>1 DEF SliceIsCurrent, Selected
<1>6. WrittenCovered'
    BY <1>1, <1>3 DEF WrittenCovered
<1>7. BoundsCovered'
    BY <1>1 DEF CoverInv, BoundsCovered, Covered
<1>8. QED
    BY <1>2, <1>4, <1>5, <1>6, <1>7 DEF CoverInv

\* The watermarks the invariant says are covered.
Bounds(t) == {control[t].last, seen[t].last, staged[t].lower} \cup
             {queue[r][t].lower : r \in Runs}

\* A statement that rewrites the target keeps the invariant if it uncovers no
\* bound and, when it is the last one, covers the item's interval.
LEMMA WriteKeeps ==
    ASSUME CoverInv, TypeOK', NEW t \in Tables, NEW rows, NEW next,
           current = t, step \in {"overwrite", "delete", "append", "merge"},
           Writes(t, rows, next),
           \/ next = "audit"
           \/ next = "append" /\ step = "delete",
           t \in Protected => \A b \in Bounds(t) : Covered(t, b) => Covered(t, b)',
           t \in Protected /\ next = "audit" => Covered(t, queue[run][t].upper)'
    PROVE  CoverInv'
<1> USE DEF Temporal, Protected
<1>1. /\ UNCHANGED <<source, horizon, control, queue, phase, run, seen, staged, work,
                     current, slice>>
      /\ step' = next
    BY DEF Writes, sourceVars, jobVars, prepVars
<1>2. \A u \in Tables : u # t => target'[u] = target[u]
    BY DEF Writes, CoverInv, TypeOK, StoreTypeOK
<1>3. MemoryCleared' /\ BelowHorizon' /\ StartsAtCheckpoint'
    BY <1>1, StatementFrame
<1>4. StepFitsStrategy'
    BY <1>1 DEF CoverInv, StepFitsStrategy
<1>5. SliceIsCurrent'
    BY <1>1 DEF CoverInv, SliceIsCurrent, Selected
<1>6. WrittenCovered'
    BY <1>1 DEF WrittenCovered
<1>7. ASSUME NEW u \in Protected, NEW b \in Bounds(u), Covered(u, b) PROVE Covered(u, b)'
    <2>1. CASE u = t
        BY <1>7, <2>1
    <2>2. CASE u # t
        BY <1>1, <1>2, <1>7, <2>2 DEF Covered
    <2>3. QED
        BY <2>1, <2>2
<1>8. BoundsCovered'
    <2> SUFFICES ASSUME NEW u \in Protected
                 PROVE  /\ Covered(u, control[u].last)'
                        /\ Covered(u, seen[u].last)'
                        /\ Covered(u, staged[u].lower)'
                        /\ \A r \in Runs : Covered(u, queue[r][u].lower)'
        BY DEF BoundsCovered
    <2>1. ASSUME NEW b \in Bounds(u) PROVE Covered(u, b)'
        <3>1. Covered(u, b)
            BY DEF CoverInv, BoundsCovered, Bounds
        <3>2. QED
            BY <1>7, <3>1
    <2>2. QED
        BY <1>1, <2>1 DEF Bounds, Covered
<1>9. QED
    BY <1>3, <1>4, <1>5, <1>6, <1>8 DEF CoverInv

\* Every bound is a watermark that was captured.
LEMMA BoundsBelowHorizon ==
    ASSUME CoverInv, NEW t \in Tables, NEW b \in Bounds(t)
    PROVE  b \in Marks /\ b <= horizon[t]
BY MarksAreIntegers DEF CoverInv, BelowHorizon, Bounds

\* What SMT needs to know to compare stamps.
LEMMA StampsAreIntegers ==
    ASSUME CoverInv, NEW t \in Tables, NEW k \in Keys
    PROVE  /\ source[t][k] \in Int /\ horizon[t] \in Int
           /\ source[t][k] # 0 => source[t][k] \in Stamps
           /\ \A r \in Runs : queue[r][t].lower \in Int /\ queue[r][t].upper \in Int
           /\ \A b \in Marks : b \in Int
BY MarksAreIntegers, ConstantsAssumption
DEF CoverInv, TypeOK, SourceTypeOK, Versions, Stamps, Marks

\* OverwriteTarget concerns no table with a checkpoint.
LEMMA OverwriteCovers ==
    ASSUME CoverInv, TypeOK', NEW t \in Tables, OverwriteTarget(t)
    PROVE  CoverInv'
<1>1. t \notin Protected
    BY DEF OverwriteTarget, CoverInv, StepFitsStrategy, Protected, Temporal
<1>2. QED
    BY <1>1, WriteKeeps DEF OverwriteTarget

\* DeleteInterval uncovers nothing below the interval, and without repairs
\* every bound is below it.
LEMMA DeleteCovers ==
    ASSUME CoverInv, TypeOK', NEW t \in Tables, DeleteInterval(t)
    PROVE  CoverInv'
<1> DEFINE rows == [k \in Keys |-> [s \in Stamps |->
                       IF Selected(t, s) THEN 0 ELSE target[t][k][s]]]
<1>1. current = t /\ step = "delete" /\ Writes(t, rows, "append")
    BY DEF DeleteInterval
<1>2. target'[t] = rows /\ UNCHANGED source
    BY <1>1 DEF Writes, sourceVars, CoverInv, TypeOK, StoreTypeOK
<1>3. ASSUME t \in Protected, NEW b \in Bounds(t), Covered(t, b) PROVE Covered(t, b)'
    <2>1. ~Repairs /\ t \in Temporal /\ phase = "apply" /\ run \in Runs
        BY <1>1, <1>3, ConstantsAssumption
        DEF CoverInv, StepFitsStrategy, Protected, Temporal, TypeOK, JobTypeOK, PositionOK, Runs
    <2>2. queue[run][t].lower = control[t].last
        BY <1>1, <2>1 DEF CoverInv, StartsAtCheckpoint, Pending, Adjacent
    <2>3. b <= queue[run][t].lower
        <3>1. seen[t].last = NULL /\ staged[t].lower = NULL
            BY <2>1 DEF CoverInv, MemoryCleared, NotSeen, NoRows, NoRow
        <3>2. NULL <= control[t].last /\ control[t].last <= control[t].last
            BY MarksAreIntegers DEF CoverInv, Marks, NULL
        <3>3. QED
            BY <2>1, <2>2, <3>1, <3>2 DEF CoverInv, StartsAtCheckpoint, Bounds
    <2> SUFFICES ASSUME NEW k \in Keys, source[t][k] # 0, source[t][k] <= b
                 PROVE  rows[k][source[t][k]] > 0
        BY <1>2 DEF Covered
    <2>4. target[t][k][source[t][k]] > 0
        BY <1>3 DEF Covered
    <2>5. ~Selected(t, source[t][k])
        BY <2>1, <2>3, StampsAreIntegers, BoundsBelowHorizon DEF Selected
    <2>6. QED
        BY <2>4, <2>5, StampsAreIntegers
<1>4. QED
    BY <1>1, <1>3, WriteKeeps

\* AppendSlice completes the interval.
LEMMA AppendCovers ==
    ASSUME CoverInv, TypeOK', NEW t \in Tables, AppendSlice(t)
    PROVE  CoverInv'
<1> DEFINE rows == [k \in Keys |-> [s \in Stamps |->
                       target[t][k][s] + (IF slice[k] = s THEN 1 ELSE 0)]]
<1>1. current = t /\ step = "append" /\ Writes(t, rows, "audit")
    BY DEF AppendSlice
<1>2. target'[t] = rows /\ UNCHANGED <<source, queue, run>>
    BY <1>1 DEF Writes, sourceVars, jobVars, CoverInv, TypeOK, StoreTypeOK
<1>3. ASSUME NEW k \in Keys, source[t][k] # 0
      PROVE  /\ target[t][k][source[t][k]] \in Nat
             /\ rows[k][source[t][k]] = target[t][k][source[t][k]] +
                                        (IF slice[k] = source[t][k] THEN 1 ELSE 0)
    BY <1>3, StampsAreIntegers DEF CoverInv, TypeOK, StoreTypeOK
<1>4. ASSUME NEW b, Covered(t, b) PROVE Covered(t, b)'
    BY <1>2, <1>3, <1>4 DEF Covered
<1>5. ASSUME t \in Protected PROVE Covered(t, queue[run][t].upper)'
    <2>1. run \in Runs /\ t \in Temporal
        BY <1>1, <1>5, ConstantsAssumption
        DEF CoverInv, TypeOK, JobTypeOK, PositionOK, Runs, Protected
    <2> SUFFICES ASSUME NEW k \in Keys, source[t][k] # 0,
                        source[t][k] <= queue[run][t].upper
                 PROVE  rows[k][source[t][k]] > 0
        BY <1>2 DEF Covered
    <2>2. CASE source[t][k] <= queue[run][t].lower
        <3>1. target[t][k][source[t][k]] > 0
            BY <1>5, <2>1, <2>2 DEF CoverInv, BoundsCovered, Covered
        <3>2. QED
            BY <1>3, <3>1
    <2>3. CASE ~(source[t][k] <= queue[run][t].lower)
        <3>1. queue[run][t].lower < source[t][k] /\ source[t][k] <= horizon[t]
            BY <2>1, <2>3, StampsAreIntegers DEF CoverInv, BelowHorizon
        <3>2. slice[k] = source[t][k]
            BY <1>1, <1>5, <3>1 DEF CoverInv, SliceIsCurrent, Selected
        <3>3. QED
            BY <1>3, <3>2
    <2>4. QED
        BY <2>2, <2>3
<1>6. QED
    BY <1>1, <1>4, <1>5, WriteKeeps

\* MergeSlice replaces a row by the version the slice holds, which is the
\* source's unless the row was written since and lies above every bound.
LEMMA MergeCovers ==
    ASSUME CoverInv, TypeOK', NEW t \in Tables, MergeSlice(t)
    PROVE  CoverInv'
<1> DEFINE rows == [k \in Keys |-> IF slice[k] # 0 \/ DeletesUnmatched(t)
                                   THEN Holding(slice)[k] ELSE target[t][k]]
<1>1. current = t /\ step = "merge" /\ Writes(t, rows, "audit")
    BY DEF MergeSlice
<1>2. target'[t] = rows /\ UNCHANGED <<source, queue, run>>
    BY <1>1 DEF Writes, sourceVars, jobVars, CoverInv, TypeOK, StoreTypeOK
<1>3. ASSUME t \in Protected, NEW k \in Keys, source[t][k] # 0, source[t][k] <= horizon[t]
      PROVE  /\ slice[k] = IF Selected(t, source[t][k]) THEN source[t][k] ELSE 0
             /\ rows[k][source[t][k]] = IF slice[k] # 0 THEN 1
                                        ELSE target[t][k][source[t][k]]
    <2>1. slice[k] = IF Selected(t, source[t][k]) THEN source[t][k] ELSE 0
        BY <1>1, <1>3 DEF CoverInv, SliceIsCurrent
    <2>2. ~DeletesUnmatched(t)
        BY <1>3 DEF DeletesUnmatched, Protected, Temporal
    <2>3. QED
        BY <1>3, <2>1, <2>2, StampsAreIntegers DEF Holding
<1>4. ASSUME t \in Protected, NEW b \in Bounds(t), Covered(t, b) PROVE Covered(t, b)'
    <2> SUFFICES ASSUME NEW k \in Keys, source[t][k] # 0, source[t][k] <= b
                 PROVE  rows[k][source[t][k]] > 0
        BY <1>2 DEF Covered
    <2>1. source[t][k] <= horizon[t]
        BY BoundsBelowHorizon, StampsAreIntegers
    <2>2. QED
        BY <1>3, <1>4, <2>1 DEF Covered
<1>5. ASSUME t \in Protected PROVE Covered(t, queue[run][t].upper)'
    <2>1. run \in Runs /\ t \in Temporal
        BY <1>1, <1>5, ConstantsAssumption
        DEF CoverInv, TypeOK, JobTypeOK, PositionOK, Runs, Protected
    <2> SUFFICES ASSUME NEW k \in Keys, source[t][k] # 0,
                        source[t][k] <= queue[run][t].upper
                 PROVE  rows[k][source[t][k]] > 0
        BY <1>2 DEF Covered
    <2>2. source[t][k] <= horizon[t]
        BY <2>1, StampsAreIntegers DEF CoverInv, BelowHorizon
    <2>3. CASE source[t][k] <= queue[run][t].lower
        <3>1. target[t][k][source[t][k]] > 0
            BY <1>5, <2>1, <2>3 DEF CoverInv, BoundsCovered, Covered
        <3>2. QED
            BY <1>3, <1>5, <2>2, <3>1
    <2>4. CASE ~(source[t][k] <= queue[run][t].lower)
        <3>1. Selected(t, source[t][k])
            BY <2>1, <2>4, StampsAreIntegers DEF Selected
        <3>2. QED
            BY <1>3, <1>5, <2>2, <3>1
    <2>5. QED
        BY <2>3, <2>4
<1>6. QED
    BY <1>1, <1>4, <1>5, WriteKeeps

\* AuditSuccess: the item's interval stays covered until it is committed.
LEMMA AuditCovers ==
    ASSUME CoverInv, TypeOK', NEW t \in Tables, AuditSuccess(t)
    PROVE  CoverInv'
<1> USE DEF Protected, Temporal
<1>1. /\ current = t /\ step = "audit" /\ step' = "commit"
      /\ UNCHANGED <<source, horizon, target, control, queue, phase, run, seen, staged,
                     work, current, slice>>
    BY DEF AuditSuccess, sourceVars, jobVars, prepVars
<1>2. MemoryCleared' /\ BelowHorizon' /\ StartsAtCheckpoint'
    BY <1>1, StatementFrame
<1>3. StepFitsStrategy' /\ SliceIsCurrent'
    BY <1>1 DEF StepFitsStrategy, SliceIsCurrent
<1>4. BoundsCovered' /\ WrittenCovered'
    BY <1>1 DEF CoverInv, BoundsCovered, WrittenCovered, Covered
<1>5. QED
    BY <1>2, <1>3, <1>4 DEF CoverInv

\* CommitCheckpoint: the new checkpoint is the upper bound just covered, and it
\* is not below the old one unless the run is a repaired one.
LEMMA CommitCovers ==
    ASSUME CoverInv, TypeOK', NEW t \in Tables, CommitCheckpoint(t)
    PROVE  CoverInv'
<1> USE DEF Protected, Temporal
<1>1. /\ current = t /\ step = "commit" /\ step' = "finalize"
      /\ UNCHANGED <<source, horizon, target, queue, phase, run, seen, staged, work,
                     current, slice>>
    BY DEF CommitCheckpoint, sourceVars, jobVars, prepVars
<1>2. phase = "apply" /\ run \in Runs
    BY <1>1, ConstantsAssumption DEF CoverInv, TypeOK, JobTypeOK, PositionOK, Runs
<1>3. ASSUME NEW u \in Tables
      PROVE  control'[u].last = IF u = t /\ t \in Temporal THEN queue[run][t].upper
                                ELSE control[u].last
    <2>1. control[u] \in ControlRow
        BY DEF CoverInv, TypeOK, StoreTypeOK
    <2>2. CASE u = t
        BY <2>1, <2>2 DEF CommitCheckpoint, CoverInv, TypeOK, StoreTypeOK, ControlRow
    <2>3. CASE u # t
        BY <2>3 DEF CommitCheckpoint, CoverInv, TypeOK, StoreTypeOK
    <2>4. QED
        BY <2>2, <2>3
<1>4. MemoryCleared' /\ StepFitsStrategy' /\ SliceIsCurrent' /\ WrittenCovered'
    BY <1>1
    DEF CoverInv, MemoryCleared, StepFitsStrategy, SliceIsCurrent, WrittenCovered
<1>5. BelowHorizon'
    BY <1>1, <1>2, <1>3 DEF CoverInv, BelowHorizon
<1>6. BoundsCovered'
    <2>1. t \in Protected => Covered(t, queue[run][t].upper)
        BY <1>1 DEF CoverInv, WrittenCovered
    <2>2. QED
        BY <1>1, <1>3, <2>1 DEF CoverInv, BoundsCovered, Covered
<1>7. StartsAtCheckpoint'
    <2> SUFFICES ASSUME ~Repairs, NEW u \in Temporal
                 PROVE  /\ \A r \in Runs : queue[r][u].lower <= control'[u].last
                        /\ Pending(u)' => Adjacent(u, queue[run][u])'
        BY <1>1, <1>2 DEF StartsAtCheckpoint
    <2>1. CASE u = t
        <3>1. ~Pending(u)'
            BY <1>1, <1>2, <2>1 DEF CoverInv, MemoryCleared, Pending
        <3>2. /\ queue[run][t].lower = control[t].last
              /\ queue[run][t].lower <= queue[run][t].upper
              /\ \A r \in Runs : queue[r][t].lower <= control[t].last
            BY <1>1, <2>1 DEF CoverInv, StartsAtCheckpoint, Pending, Adjacent
        <3>3. ASSUME NEW r \in Runs PROVE queue[r][t].lower <= control'[t].last
            <4>1. /\ queue[r][t].lower \in Int /\ queue[run][t].upper \in Int
                  /\ control[t].last \in Int
                BY <1>2, MarksAreIntegers, ConstantsAssumption DEF CoverInv, Marks
            <4>2. QED
                BY <1>3, <2>1, <3>2, <4>1
        <3>4. QED
            BY <2>1, <3>1, <3>3
    <2>2. CASE u # t
        <3>1. Pending(u)' => Pending(u)
            BY <1>1, <2>2 DEF Pending
        <3>2. QED
            BY <1>1, <1>3, <2>2, <3>1 DEF CoverInv, StartsAtCheckpoint, Adjacent
    <2>3. QED
        BY <2>1, <2>2
<1>8. QED
    BY <1>4, <1>5, <1>6, <1>7 DEF CoverInv

\* An item that ends, in success or in a handler, moves no watermark.
LEMMA EndsItemCovers ==
    ASSUME CoverInv, TypeOK', NEW t \in Tables, EndsItem(t),
           UNCHANGED queue \/ \E s \in Marking : MarkQueue(t, s),
           UNCHANGED control \/ \E s \in Statuses : Status(t, s)
    PROVE  CoverInv'
<1>1. /\ current = t /\ current' = NoTable
      /\ UNCHANGED <<source, horizon, target, phase, run, seen, staged, work>>
    BY DEF EndsItem, sourceVars, jobVars, prepVars
<1>2. phase = "apply" /\ run \in Runs
    BY <1>1, ConstantsAssumption DEF CoverInv, TypeOK, JobTypeOK, PositionOK, Runs
<1>3. SameCheckpoints
    <2>1. CASE UNCHANGED control
        BY <2>1 DEF SameCheckpoints
    <2>2. ASSUME NEW s \in Statuses, Status(t, s) PROVE SameCheckpoints
        BY <2>2, StatusKeepsCheckpoints DEF CoverInv
    <2>3. QED
        BY <2>1, <2>2
<1>4. ASSUME NEW r \in Runs, NEW u \in Tables
      PROVE  queue'[r][u].lower = queue[r][u].lower /\ queue'[r][u].upper = queue[r][u].upper
    BY <1>2, MarkKeepsBounds DEF CoverInv
<1>5. MemoryCleared'
    BY <1>1, ConstantsAssumption DEF CoverInv, MemoryCleared, TypeOK, MemoryTypeOK
<1>6. HandsOn
    <2>1. \A u \in Tables : horizon'[u] >= horizon[u] /\ staged'[u].upper <= horizon'[u]
        BY <1>1, MarksAreIntegers, ConstantsAssumption DEF CoverInv, BelowHorizon, Marks
    <2>2. QED
        BY <1>1, <1>3, <1>4, <2>1 DEF HandsOn
<1>7. StartsAtCheckpoint'
    <2>1. ASSUME NEW u \in Tables, Pending(u)' PROVE Pending(u)
        BY <1>1, <1>2, <2>1, ConstantsAssumption DEF Pending
    <2>2. QED
        BY <1>1, <1>2, <1>3, <1>4, <2>1
        DEF CoverInv, StartsAtCheckpoint, SameCheckpoints, Adjacent, Temporal
<1>8. QED
    BY <1>5, <1>6, <1>7, HandOver

\* Every step keeps the invariant.
LEMMA CoverStep == CoverInv /\ [Next]_vars => CoverInv'
<1> SUFFICES ASSUME CoverInv, [Next]_vars PROVE CoverInv'
    OBVIOUS
<1>1. TypeOK'
    BY TypeStep DEF CoverInv
<1>2. ASSUME NEW t \in Tables, SourceWrite(t) \/ SourceDelete(t) PROVE CoverInv'
    BY <1>1, <1>2, SourceStep
<1>3. ASSUME NEW t \in Tables, EditControl(t) PROVE CoverInv'
    <2>1. SameCheckpoints
        <3> SUFFICES ASSUME NEW u \in Tables PROVE control'[u].last = control[u].last
            BY DEF SameCheckpoints
        <3>1. control[u] \in ControlRow
            BY DEF CoverInv, TypeOK, StoreTypeOK
        <3>2. PICK a \in BOOLEAN, c \in Configs :
                  control' = [control EXCEPT ![t].active = a, ![t].config = c]
            BY <1>3 DEF EditControl
        <3>3. control'[u] = IF u = t
                            THEN [control[u] EXCEPT !.active = a, !.config = c]
                            ELSE control[u]
            BY <3>2 DEF CoverInv, TypeOK, StoreTypeOK
        <3>4. QED
            BY <3>1, <3>3 DEF ControlRow
    <2>2. UNCHANGED <<source, horizon, target, queue, phase, run, seen, staged, work,
                      current, step, slice>>
        BY <1>3 DEF EditControl, sourceVars, jobVars, prepVars, itemVars
    <2>3. QED
        BY <1>1, <2>1, <2>2, QuietStep
<1>4. CASE SourceStops \/ UNCHANGED vars
    <2>1. /\ SameCheckpoints
          /\ UNCHANGED <<source, horizon, target, queue, phase, run, seen, staged, work,
                         current, step, slice>>
        BY <1>4 DEF SourceStops, vars, sourceVars, storeVars, jobVars, prepVars, itemVars,
                    SameCheckpoints
    <2>2. QED
        BY <1>1, <2>1, QuietStep
<1>5. CASE StartRun
    BY <1>1, <1>5, StartRunCovers
<1>6. ASSUME NEW t \in Tables,
             \/ PrepNoColumns(t) \/ PrepConfigError(t)
             \/ PrepNoSourceWatermark(t) \/ PrepNoChanges(t) \/ PrepFails(t)
      PROVE  CoverInv'
    <2>1. /\ Prepares(t) /\ UNCHANGED <<horizon, staged>>
          /\ UNCHANGED control \/ \E s \in Statuses : Status(t, s)
        BY <1>6 DEF PrepNoColumns, PrepConfigError, PrepNoSourceWatermark, PrepNoChanges,
                    PrepFails, Statuses
    <2>2. QED
        BY <1>1, <2>1, StatusStep
<1>7. ASSUME NEW t \in Tables, QueueInterval(t) PROVE CoverInv'
    BY <1>1, <1>7, QueueIntervalCovers
<1>8. ASSUME NEW t \in Tables, QueueSnapshot(t) PROVE CoverInv'
    BY <1>1, <1>8, QueueSnapshotCovers
<1>9. CASE WriteQueue
    BY <1>1, <1>9, WriteQueueCovers
<1>10. CASE BeginApply \/ BeginApplyWithoutRunId
    BY <1>1, <1>10, BeginApplyCovers
<1>11. ASSUME NEW t \in Tables, TakeItem(t) PROVE CoverInv'
    BY <1>1, <1>11, TakeItemCovers
<1>12. ASSUME NEW t \in Tables, ReadSlice(t) PROVE CoverInv'
    BY <1>1, <1>12, ReadSliceCovers
<1>13. ASSUME NEW t \in Tables, OverwriteTarget(t) PROVE CoverInv'
    BY <1>1, <1>13, OverwriteCovers
<1>14. ASSUME NEW t \in Tables, DeleteInterval(t) PROVE CoverInv'
    BY <1>1, <1>14, DeleteCovers
<1>15. ASSUME NEW t \in Tables, AppendSlice(t) PROVE CoverInv'
    BY <1>1, <1>15, AppendCovers
<1>16. ASSUME NEW t \in Tables, MergeSlice(t) PROVE CoverInv'
    BY <1>1, <1>16, MergeCovers
<1>17. ASSUME NEW t \in Tables, AuditSuccess(t) PROVE CoverInv'
    BY <1>1, <1>17, AuditCovers
<1>18. ASSUME NEW t \in Tables, CommitCheckpoint(t) PROVE CoverInv'
    BY <1>1, <1>18, CommitCovers
<1>19. ASSUME NEW t \in Tables, FinalizeQueue(t) PROVE CoverInv'
    BY <1>1, <1>19, EndsItemCovers DEF FinalizeQueue, Marking
<1>20. ASSUME NEW t \in Tables, NEW ms \in SUBSET Marking, NEW s \in Statuses,
              ItemFails(t, ms, s)
       PROVE  CoverInv'
    BY <1>1, <1>20, EndsItemCovers DEF ItemFails
<1>21. ASSUME NEW t \in Tables, ApplyFails(t) \/ CheckpointFails(t) \/ FinalizeFails(t)
       PROVE  CoverInv'
    BY <1>20, <1>21 DEF ApplyFails, CheckpointFails, FinalizeFails, Marking, Statuses
<1>22. CASE FinishApply \/ FinishReconcile \/ Crash
    BY <1>1, <1>22, RestCovers
<1>23. ASSUME \/ \E t \in Tables : ReconcileTable(t) \/ ReconcileFails(t)
              \/ ReconcileWithoutRunId
       PROVE  CoverInv'
    <2>1. /\ SameCheckpoints
          /\ UNCHANGED <<source, horizon, target, queue, phase, run, seen, staged, work,
                         current, step, slice>>
        BY <1>23 DEF ReconcileTable, ReconcileFails, Reconciles, ReconcileWithoutRunId,
           sourceVars, storeVars,
                     jobVars, prepVars, itemVars, SameCheckpoints
    <2>2. QED
        BY <1>1, <2>1, QuietStep
<1>24. ASSUME NEW r \in Runs, RepairRun(r) PROVE CoverInv'
    BY <1>1, <1>24, RepairRunCovers
<1>25. QED
    BY <1>2, <1>3, <1>4, <1>5, <1>6, <1>7, <1>8, <1>9, <1>10, <1>11, <1>12, <1>13, <1>14,
       <1>15, <1>16, <1>17, <1>18, <1>19, <1>21, <1>22, <1>23, <1>24
    DEF Next, Environment, Job, Prep, Apply, Reconcile, Failure

\* CheckpointNeverAhead: in every reachable state the target holds every source
\* row at or below last_watermark_value.  For HYBRID this survives crashes,
\* failures and repairs of any run; for WATERMARK it needs that no failed run
\* is repaired (NB11b deletes before it appends).
THEOREM CheckpointNeverAhead == Spec => []CheckpointCovers
<1>1. CoverInv => CheckpointCovers
    BY DEF CoverInv, BoundsCovered, CheckpointCovers, Protected
<1>2. QED
    BY CoverInit, CoverStep, <1>1, PTL DEF Spec

-----------------------------------------------------------------------------
(* What a MERGE may not do.                                                *)

\* Only the four statements of the strategies touch a target.
LEMMA WhoWritesTargets ==
    ASSUME CoverInv, [Next]_vars, NEW t \in Tables, target'[t] # target[t]
    PROVE  /\ current = t
           /\ OverwriteTarget(t) \/ DeleteInterval(t) \/ AppendSlice(t) \/ MergeSlice(t)
<1> USE DEF sourceVars, storeVars, jobVars, prepVars, itemVars, budgetVars
<1>1. ASSUME NEW u \in Tables, NEW rows, NEW next, Writes(u, rows, next)
      PROVE  u = t
    BY <1>1 DEF Writes, CoverInv, TypeOK, StoreTypeOK
<1>2. CASE \E u \in Tables : OverwriteTarget(u) \/ DeleteInterval(u) \/ AppendSlice(u)
                             \/ MergeSlice(u)
    <2>1. PICK u \in Tables : OverwriteTarget(u) \/ DeleteInterval(u) \/ AppendSlice(u)
                              \/ MergeSlice(u)
        BY <1>2
    <2>2. u = t /\ current = t
        BY <2>1, <1>1 DEF OverwriteTarget, DeleteInterval, AppendSlice, MergeSlice
    <2>3. QED
        BY <2>1, <2>2
<1>3. CASE UNCHANGED target
    BY <1>3
<1>4. QED
    <2>1. Environment => UNCHANGED target
        BY DEF Environment, SourceWrite, SourceDelete, EditControl
    <2>2. StartRun \/ Prep => UNCHANGED target
        BY DEF StartRun, StartRunOver, Prep, Prepares, PrepNoColumns, PrepConfigError,
               PrepNoSourceWatermark, PrepNoChanges, QueueInterval, QueueSnapshot, WriteQueue
    <2>3. Apply => \/ UNCHANGED target
                   \/ \E u \in Tables : OverwriteTarget(u) \/ DeleteInterval(u)
                                        \/ AppendSlice(u) \/ MergeSlice(u)
        BY DEF Apply, BeginApply, TakeItem, ReadSlice, AuditSuccess, CommitCheckpoint,
               FinalizeQueue, EndsItem, FinishApply
    <2>4. Reconcile => UNCHANGED target
        BY DEF Reconcile, ReconcileTable, Reconciles, FinishReconcile
    <2>5. Failure => UNCHANGED target
        BY DEF Failure, BeginApplyWithoutRunId, ReconcileWithoutRunId, PrepFails, Prepares,
               ApplyFails, CheckpointFails, FinalizeFails, ItemFails, EndsItem,
               ReconcileFails, Reconciles, Crash
    <2>6. SourceStops \/ (\E r \in Runs : RepairRun(r)) \/ UNCHANGED vars
          => UNCHANGED target
        BY DEF SourceStops, RepairRun, vars
    <2>7. QED
        BY <1>2, <1>3, <2>1, <2>2, <2>3, <2>4, <2>5, <2>6 DEF Next, Job

\* NonEmptyStays: whatever the source delivers, no step of the job leaves a
\* PRIMARY_KEY target empty that held rows, HARD_DELETE policy included: NB11b
\* deletes unmatched rows only with a slice that has rows.
THEOREM NonEmptyStays == Spec => NeverEmptied
<1>1. ASSUME CoverInv, [Next]_vars, NEW t \in Tables, Strategy[t] = "PRIMARY_KEY", ~IsEmpty(t)
      PROVE  ~IsEmpty(t)'
    <2>1. CASE target'[t] = target[t]
        BY <1>1, <2>1 DEF IsEmpty
    <2>2. CASE target'[t] # target[t]
        <3>1. current = t /\ MergeSlice(t)
            BY <1>1, <2>2, WhoWritesTargets
            DEF CoverInv, StepFitsStrategy, OverwriteTarget, DeleteInterval, AppendSlice
        <3>2. target'[t] = [k \in Keys |-> IF slice[k] # 0 \/ DeletesUnmatched(t)
                                           THEN Holding(slice)[k] ELSE target[t][k]]
            BY <1>1, <3>1 DEF MergeSlice, Writes, CoverInv, TypeOK, StoreTypeOK
        <3>3. CASE \E k \in Keys : slice[k] # 0
            <4>1. PICK k \in Keys : slice[k] # 0
                BY <3>3
            <4>2. slice[k] \in Stamps
                BY <1>1, <4>1, ConstantsAssumption
                DEF CoverInv, TypeOK, MemoryTypeOK, Versions, Stamps
            <4>3. target'[t][k][slice[k]] = 1
                BY <3>2, <4>1, <4>2 DEF Holding
            <4>4. QED
                BY <4>2, <4>3 DEF IsEmpty
        <3>4. CASE ~ \E k \in Keys : slice[k] # 0
            <4>1. PICK k \in Keys, s \in Stamps : target[t][k][s] # 0
                BY <1>1 DEF IsEmpty
            <4>2. target'[t][k] = target[t][k]
                BY <3>2, <3>4 DEF DeletesUnmatched
            <4>3. QED
                BY <4>1, <4>2 DEF IsEmpty
        <3>5. QED
            BY <3>3, <3>4
    <2>3. QED
        BY <2>1, <2>2
<1>2. CoverInv /\ [Next]_vars =>
          [\A t \in Tables : Strategy[t] = "PRIMARY_KEY" /\ ~IsEmpty(t) => ~IsEmpty(t)']_vars
    BY <1>1
<1>3. QED
    BY CoverInit, CoverStep, <1>2, PTL DEF Spec, NeverEmptied

-----------------------------------------------------------------------------
(* The control row vouches for what happened.                              *)

\* Runs are numbered as they start, a run that is being prepared has left no
\* trace yet, and an item is logged before it is committed.
TraceInv ==
    /\ TypeOK
    /\ run <= started
    /\ \A r \in Runs : outcome[r] # "none" => r <= started
    /\ \A t \in Tables : control[t].run <= started
    /\ phase = "prep" => run = started /\ \A t \in Tables : control[t].run # run
    /\ step = "commit" => <<run, current>> \in audit
    /\ CheckpointTraceable

\* Nothing that CheckpointTraceable relates has moved.
SameTrace ==
    \A t \in Tables :
        /\ control'[t].run = control[t].run
        /\ control'[t].last = control[t].last
        /\ \A r \in Runs : r = control[t].run => queue'[r][t].upper = queue[r][t].upper

LEMMA TraceKept ==
    ASSUME TraceInv, TypeOK', SameTrace, audit \subseteq audit'
    PROVE  CheckpointTraceable'
<1> SUFFICES ASSUME NEW t \in Tables, control'[t].run # 0
             PROVE  /\ <<control'[t].run, t>> \in audit'
                    /\ t \in Temporal =>
                          control'[t].last = queue'[control'[t].run][t].upper
    BY DEF CheckpointTraceable, Temporal
<1>1. control[t].run \in Runs /\ control'[t].run = control[t].run
    <2>1. control[t] \in ControlRow
        BY DEF TraceInv, TypeOK, StoreTypeOK
    <2>2. control'[t].run = control[t].run
        BY DEF SameTrace
    <2>3. QED
        BY <2>1, <2>2, ConstantsAssumption DEF ControlRow, Runs
<1>2. QED
    BY <1>1 DEF TraceInv, SameTrace, CheckpointTraceable

\* A step that leaves the runs, the audit log and the traces alone, and does
\* not bring an item before its commit, keeps the invariant.
LEMMA TraceQuiet ==
    ASSUME TraceInv, TypeOK', SameTrace, UNCHANGED <<run, started, audit>>,
           outcome' = outcome \/ \E o \in Outcomes : run \in Runs /\
                                     outcome' = [outcome EXCEPT ![run] = o],
           phase' = "prep" => phase = "prep",
           step' = "commit" => step = "commit" /\ current' = current
    PROVE  TraceInv'
<1>1. CheckpointTraceable'
    BY TraceKept
<1>2. \A r \in Runs : outcome'[r] # "none" => r <= started
    BY DEF TraceInv, TypeOK, JobTypeOK
<1>3. \A t \in Tables : control'[t].run = control[t].run
    BY DEF SameTrace
<1>4. QED
    BY <1>1, <1>2, <1>3 DEF TraceInv

\* Steps that move no control row and no queue row.
LEMMA SameStores ==
    ASSUME UNCHANGED <<control, queue>>
    PROVE  SameTrace
BY DEF SameTrace

\* An iteration of NB11a leaves no trace.
LEMMA TracePrep ==
    ASSUME TraceInv, TypeOK', NEW t \in Tables, Prepares(t),
           UNCHANGED control \/ \E s \in Statuses : Status(t, s)
    PROVE  TraceInv'
<1>1. UNCHANGED <<queue, run, started, audit, outcome, phase, current, step>>
    BY DEF Prepares, jobVars, itemVars
<1>2. SameTrace
    <2>1. CASE UNCHANGED control
        BY <1>1, <2>1, SameStores
    <2>2. ASSUME NEW s \in Statuses, Status(t, s) PROVE SameTrace
        BY <1>1, <2>2, StatusKeepsTrace DEF SameTrace, TraceInv
    <2>3. QED
        BY <2>1, <2>2
<1>3. QED
    BY <1>1, <1>2, TraceQuiet

\* An item that ends, in success or in a handler, keeps the trace.
LEMMA TraceEndsItem ==
    ASSUME TraceInv, TypeOK', NEW t \in Tables, EndsItem(t),
           UNCHANGED queue \/ \E s \in Marking : MarkQueue(t, s),
           UNCHANGED control \/ \E s \in Statuses : Status(t, s)
    PROVE  TraceInv'
<1>1. /\ run \in Runs /\ step' = "none"
      /\ UNCHANGED <<run, started, audit, outcome, phase>>
    BY EndsItemType DEF TraceInv, EndsItem, jobVars
<1>2. ASSUME NEW u \in Tables
      PROVE  control'[u].run = control[u].run /\ control'[u].last = control[u].last
    BY StatusKeepsTrace DEF TraceInv
<1>3. ASSUME NEW r \in Runs, NEW u \in Tables PROVE queue'[r][u].upper = queue[r][u].upper
    BY <1>1, MarkKeepsBounds DEF TraceInv
<1>4. SameTrace
    BY <1>2, <1>3 DEF SameTrace
<1>5. QED
    BY <1>1, <1>4, TraceQuiet

\* WriteQueue writes the rows of a run no control row names.
LEMMA TraceWriteQueue ==
    ASSUME TraceInv, TypeOK', WriteQueue
    PROVE  TraceInv'
<1>1. /\ phase = "prep" /\ phase' = "queued" /\ queue' = [queue EXCEPT ![run] = staged]
      /\ UNCHANGED <<control, run, started, audit, outcome, current, step>>
    BY DEF WriteQueue, itemVars
<1>2. SameTrace
    BY <1>1 DEF SameTrace, TraceInv, TypeOK, StoreTypeOK
<1>3. QED
    BY <1>1, <1>2, TraceQuiet

\* CommitCheckpoint names the run that logged the item, with its upper bound.
LEMMA TraceCommit ==
    ASSUME TraceInv, TypeOK', NEW t \in Tables, CommitCheckpoint(t)
    PROVE  TraceInv'
<1>1. /\ current = t /\ step = "commit" /\ step' = "finalize"
      /\ UNCHANGED <<queue, run, started, audit, outcome, phase>>
    BY DEF CommitCheckpoint, jobVars
<1>2. run \in Runs /\ phase = "apply"
    BY <1>1, ConstantsAssumption DEF TraceInv, TypeOK, JobTypeOK, PositionOK, Runs
<1>3. /\ control'[t].run = run
      /\ t \in Temporal => control'[t].last = queue[run][t].upper
    <2>1. control[t] \in ControlRow
        BY DEF TraceInv, TypeOK, StoreTypeOK
    <2>2. QED
        BY <2>1 DEF CommitCheckpoint, TraceInv, TypeOK, StoreTypeOK, ControlRow
<1>4. \A u \in Tables : u # t => control'[u] = control[u]
    BY DEF CommitCheckpoint, TraceInv, TypeOK, StoreTypeOK
<1>5. CheckpointTraceable'
    <2> SUFFICES ASSUME NEW u \in Tables, control'[u].run # 0
                 PROVE  /\ <<control'[u].run, u>> \in audit
                        /\ u \in Temporal => control'[u].last = queue[control'[u].run][u].upper
        BY <1>1 DEF CheckpointTraceable, Temporal
    <2>1. CASE u = t
        BY <1>1, <1>3, <2>1 DEF TraceInv
    <2>2. CASE u # t
        BY <1>4, <2>2 DEF TraceInv, CheckpointTraceable
    <2>3. QED
        BY <2>1, <2>2
<1>6. \A u \in Tables : control'[u].run <= started
    BY <1>3, <1>4 DEF TraceInv
<1>7. QED
    BY <1>1, <1>2, <1>5, <1>6 DEF TraceInv

\* Every step keeps the trace.
LEMMA TraceStep == TraceInv /\ [Next]_vars => TraceInv'
<1> SUFFICES ASSUME TraceInv, [Next]_vars PROVE TraceInv'
    OBVIOUS
<1> USE DEF sourceVars, storeVars, jobVars, prepVars, itemVars
<1>1. TypeOK'
    BY TypeStep DEF TraceInv
<1>2. CASE \/ SourceStops \/ BeginApply \/ BeginApplyWithoutRunId \/ ReconcileWithoutRunId
           \/ UNCHANGED vars
           \/ \E t \in Tables : \/ SourceWrite(t) \/ SourceDelete(t)
                                \/ ReconcileTable(t) \/ ReconcileFails(t)
    <2>1. /\ UNCHANGED <<control, queue, run, started, audit, outcome, current, step>>
          /\ phase' = phase \/ phase' = "apply"
        BY <1>2 DEF SourceStops, BeginApply, BeginApplyWithoutRunId, ReconcileWithoutRunId,
            vars, SourceWrite, SourceDelete, ReconcileTable, ReconcileFails, Reconciles
    <2>2. QED
        BY <1>1, <2>1, SameStores, TraceQuiet
<1>3. ASSUME NEW t \in Tables, EditControl(t) PROVE TraceInv'
    <2>1. PICK a \in BOOLEAN, c \in Configs :
              control' = [control EXCEPT ![t].active = a, ![t].config = c]
        BY <1>3 DEF EditControl
    <2>2. UNCHANGED <<queue, run, started, audit, outcome, phase, current, step>>
        BY <1>3 DEF EditControl
    <2>3. ASSUME NEW u \in Tables
          PROVE  control'[u].run = control[u].run /\ control'[u].last = control[u].last
        <3>1. control[u] \in ControlRow
            BY DEF TraceInv, TypeOK, StoreTypeOK
        <3>2. control'[u] = IF u = t THEN [control[u] EXCEPT !.active = a, !.config = c]
                                     ELSE control[u]
            BY <2>1 DEF TraceInv, TypeOK, StoreTypeOK
        <3>3. QED
            BY <3>1, <3>2 DEF ControlRow
    <2>4. QED
        BY <1>1, <2>2, <2>3, TraceQuiet DEF SameTrace
<1>4. CASE StartRun
    <2>1. /\ run' = started + 1 /\ started' = started + 1 /\ phase' = "prep"
          /\ UNCHANGED <<control, queue, audit, outcome, current, step>> /\ phase = "idle"
        BY <1>4 DEF StartRun, StartRunOver
    <2>2. CheckpointTraceable'
        BY <1>1, <2>1, SameStores, TraceKept
    <2>3. started \in Int /\ \A t \in Tables : control[t].run \in Int
        BY ConstantsAssumption DEF TraceInv, TypeOK, JobTypeOK, StoreTypeOK, ControlRow
    <2>4. /\ \A t \in Tables : control[t].run <= started + 1 /\ control[t].run # started + 1
          /\ \A r \in Runs : outcome[r] # "none" => r <= started + 1
        BY <2>3, ConstantsAssumption DEF TraceInv, Runs
    <2>5. step # "commit"
        BY <2>1 DEF TraceInv, TypeOK, PositionOK
    <2>6. QED
        BY <1>1, <2>1, <2>2, <2>3, <2>4, <2>5 DEF TraceInv
<1>5. ASSUME NEW t \in Tables,
             \/ PrepNoColumns(t) \/ PrepConfigError(t) \/ PrepNoSourceWatermark(t)
             \/ PrepNoChanges(t) \/ QueueInterval(t) \/ QueueSnapshot(t) \/ PrepFails(t)
      PROVE  TraceInv'
    <2>1. Prepares(t) /\ (UNCHANGED control \/ \E s \in Statuses : Status(t, s))
        BY <1>5 DEF PrepNoColumns, PrepConfigError, PrepNoSourceWatermark, PrepNoChanges,
                    QueueInterval, QueueSnapshot, PrepFails, Statuses
    <2>2. QED
        BY <1>1, <2>1, TracePrep
<1>6. CASE WriteQueue
    BY <1>1, <1>6, TraceWriteQueue
<1>7. ASSUME NEW t \in Tables,
             \/ TakeItem(t) \/ ReadSlice(t) \/ OverwriteTarget(t) \/ DeleteInterval(t)
             \/ AppendSlice(t) \/ MergeSlice(t)
      PROVE  TraceInv'
    <2>1. /\ UNCHANGED <<control, queue, run, started, audit, outcome, phase>>
          /\ step' # "commit"
        BY <1>7 DEF TakeItem, ReadSlice, OverwriteTarget, DeleteInterval, AppendSlice,
                    MergeSlice, Writes
    <2>2. QED
        BY <1>1, <2>1, SameStores, TraceQuiet
<1>8. ASSUME NEW t \in Tables, AuditSuccess(t) PROVE TraceInv'
    <2>1. /\ UNCHANGED <<control, queue, run, started, outcome, phase>>
          /\ current' = t /\ audit' = audit \cup {<<run, t>>}
        BY <1>8 DEF AuditSuccess
    <2>2. CheckpointTraceable'
        BY <1>1, <2>1, SameStores, TraceKept
    <2>3. QED
        BY <1>1, <2>1, <2>2 DEF TraceInv
<1>9. ASSUME NEW t \in Tables, CommitCheckpoint(t) PROVE TraceInv'
    BY <1>1, <1>9, TraceCommit
<1>10. ASSUME NEW t \in Tables,
              FinalizeQueue(t) \/ ApplyFails(t) \/ CheckpointFails(t) \/ FinalizeFails(t)
       PROVE  TraceInv'
    <2>1. /\ EndsItem(t)
          /\ UNCHANGED queue \/ \E s \in Marking : MarkQueue(t, s)
          /\ UNCHANGED control \/ \E s \in Statuses : Status(t, s)
        BY <1>10 DEF FinalizeQueue, ApplyFails, CheckpointFails, FinalizeFails, ItemFails,
                     Marking, Statuses
    <2>2. QED
        BY <1>1, <2>1, TraceEndsItem
<1>11. CASE FinishApply \/ FinishReconcile \/ Crash
    <2>1. /\ UNCHANGED <<control, queue, run, started, audit>>
          /\ phase' # "prep" /\ step' # "commit"
        BY <1>11 DEF FinishApply, FinishReconcile, Crash, TraceInv, TypeOK, PositionOK
    <2>2. run \in Runs
        BY <1>11, ConstantsAssumption
        DEF FinishApply, FinishReconcile, Crash, TraceInv, TypeOK, JobTypeOK, PositionOK, Runs
    <2>3. outcome' = outcome \/ \E o \in Outcomes : outcome' = [outcome EXCEPT ![run] = o]
        <3>1. FinishApply => \/ outcome' = outcome
                             \/ outcome' = [outcome EXCEPT ![run] = "apply_failed"]
            BY DEF FinishApply
        <3>2. FinishReconcile => \/ outcome' = [outcome EXCEPT ![run] = "recon_failed"]
                                 \/ outcome' = [outcome EXCEPT ![run] = "succeeded"]
            BY DEF FinishReconcile
        <3>3. Crash => \/ outcome' = [outcome EXCEPT ![run] = "prep_failed"]
                       \/ outcome' = [outcome EXCEPT ![run] = "recon_failed"]
                       \/ outcome' = [outcome EXCEPT ![run] = "apply_failed"]
            BY DEF Crash
        <3>4. QED
            BY <1>11, <3>1, <3>2, <3>3 DEF Outcomes
    <2>4. QED
        BY <1>1, <2>1, <2>2, <2>3, SameStores, TraceQuiet
<1>12. ASSUME NEW r \in Runs, RepairRun(r) PROVE TraceInv'
    <2>1. /\ UNCHANGED <<control, queue, started, audit, outcome, current, step>>
          /\ run' = r /\ outcome[r] # "none" /\ phase = "idle"
        BY <1>12 DEF RepairRun
    <2>2. phase' # "prep"
        <3>1. CASE outcome[r] = "apply_failed"
            BY <1>12, <3>1 DEF RepairRun
        <3>2. CASE outcome[r] # "apply_failed"
            BY <1>12, <3>2 DEF RepairRun
        <3>3. QED
            BY <3>1, <3>2
    <2>3. CheckpointTraceable'
        BY <1>1, <2>1, SameStores, TraceKept
    <2>4. step # "commit"
        BY <2>1 DEF TraceInv, TypeOK, PositionOK
    <2>5. QED
        BY <1>1, <2>1, <2>2, <2>3, <2>4 DEF TraceInv
<1>13. QED
    BY <1>2, <1>3, <1>4, <1>5, <1>6, <1>7, <1>8, <1>9, <1>10, <1>11, <1>12
    DEF Next, Environment, Job, Prep, Apply, Reconcile, Failure

\* ControlRowVouches: last_successful_run_id always names a run that logged the
\* table SUCCEEDED, and last_watermark_value is the upper bound that run froze;
\* failures, lost answers and repairs of any run included.
THEOREM ControlRowVouches == Spec => []CheckpointTraceable
<1>1. Init => TraceInv
    <2> SUFFICES ASSUME Init PROVE TraceInv
        OBVIOUS
    <2>1. TypeOK
        BY TypeInit
    <2>2. \A t \in Tables : control[t].run = 0
        BY DEF Init
    <2>3. QED
        BY <2>1, <2>2 DEF Init, TraceInv, CheckpointTraceable
<1>2. TraceInv => CheckpointTraceable
    BY DEF TraceInv
<1>3. QED
    BY <1>1, <1>2, TraceStep, PTL DEF Spec

-----------------------------------------------------------------------------
(***************************************************************************)
(* What queue, control table and outcome of a run say of each other, as long *)
(* as no failed run is repaired.                                           *)
(***************************************************************************)

\* Runs follow each other: none but the latest is touched again, and what has
\* not happened has left no record.
RunsInOrder ==
    /\ run = started
    /\ \A r \in Runs : r > started \/ (r = run /\ phase = "prep")
          => \A t \in Tables : queue[r][t].status = "NONE"
    /\ \A r \in Runs : r > started \/ (r = run /\ phase # "idle") => outcome[r] = "none"

\* The rows the job still has in hand, by stage.
InHand(t) ==
    \/ phase = "prep" /\ staged[t].status = "QUEUED"
    \/ phase = "queued" /\ queue[run][t].status = "QUEUED"
    \/ phase = "apply" /\ (t \in work \/ current = t)

\* They are QUEUED, and their control rows say so until they are done.
InHandIsQueued ==
    \A t \in Tables :
        /\ staged[t].status \in {"NONE", "QUEUED"}
        /\ t \in work \/ current = t => queue[run][t].status = "QUEUED"
        /\ InHand(t) => control[t].status # "QUEUE_FINALIZATION_FAILED"
        /\ current = t /\ step = "finalize" => control[t].run = run

\* A committed interval is behind the checkpoint; the latest one ends at it.
CommittedIsBehind ==
    \A t \in Temporal, r \in Runs :
        /\ queue[r][t].status \in {"SUCCEEDED", "FAILED_FINALIZATION"}
              => queue[r][t].upper <= control[t].last
        /\ r = run /\ queue[r][t].status = "SUCCEEDED"
              => queue[r][t].upper = control[t].last

\* An unfinalized row was committed by a run.
FinalizationCommitted ==
    \A t \in Tables : control[t].status = "QUEUE_FINALIZATION_FAILED" =>
        /\ control[t].run \in Runs
        /\ queue[control[t].run][t].status \in {"QUEUED", "SUCCEEDED", "FAILED_FINALIZATION"}

\* NB11b has lost its run_id, or applies one queued row after the other.
Lost == work = {} /\ current = NoTable /\ \A t \in Tables : queue[run][t].status \in {"NONE", "QUEUED"}
Applying ==
    \A t \in Tables : \/ queue[run][t].status \in {"NONE", "SUCCEEDED"}
                      \/ queue[run][t].status = "QUEUED" /\ (t \in work \/ current = t)
Uniform(r) == \E done \in {"SUCCEEDED", "QUEUED"} :
                 \A t \in Tables : queue[r][t].status \in {"NONE", done}
UnfailedIsUniform ==
    /\ phase = "queued" => \A t \in Tables : queue[run][t].status \in {"NONE", "QUEUED"}
    /\ phase = "apply" /\ ~failed => Lost \/ Applying
    /\ phase = "recon" => Uniform(run)

RecordsInv ==
    /\ RunsInOrder
    /\ InHandIsQueued
    /\ CommittedIsBehind
    /\ FinalizationCommitted
    /\ UnfailedIsUniform
    /\ IntervalsDisjoint
    /\ BoundaryAdvances
    /\ RunsReportFailures

\* What the proofs take from the other invariants.
Known == CoverInv /\ TraceInv /\ RecordsInv /\ ~Repairs

LEMMA RecordsInit == Init => RecordsInv
<1> SUFFICES ASSUME Init PROVE RecordsInv
    OBVIOUS
<1>1. /\ phase = "idle" /\ run = 0 /\ started = 0 /\ work = {} /\ current = NoTable
      /\ \A t \in Tables : current # t /\ staged[t].status = "NONE"
      /\ \A r \in Runs : outcome[r] = "none" /\ \A t \in Tables : queue[r][t].status = "NONE"
    BY ConstantsAssumption DEF Init, NoRows, NoRow
<1>2. \A t \in Tables : control[t].status = "LOADED" /\ recon[t].boundary = "NONE"
    BY DEF Init, NoResults, NoResult
<1>3. RunsInOrder /\ InHandIsQueued /\ FinalizationCommitted
    BY <1>1, <1>2 DEF RunsInOrder, InHandIsQueued, InHand, FinalizationCommitted
<1>4. CommittedIsBehind /\ IntervalsDisjoint
    BY <1>1 DEF CommittedIsBehind, IntervalsDisjoint, Temporal
<1>5. UnfailedIsUniform /\ BoundaryAdvances /\ RunsReportFailures
    BY <1>1, <1>2 DEF UnfailedIsUniform, BoundaryAdvances, RunsReportFailures
<1>6. QED
    BY <1>3, <1>4, <1>5 DEF RecordsInv

\* The run of a task that is running.
LEMMA RunningRun ==
    ASSUME TypeOK, phase # "idle"
    PROVE  run \in Runs
BY ConstantsAssumption DEF TypeOK, JobTypeOK, PositionOK, Runs

\* No control row gets an unfinalized status.
KeepsVouching ==
    \A t \in Tables :
        /\ control'[t].run = control[t].run
        /\ control'[t].last = control[t].last
        /\ \/ control'[t].status = control[t].status
           \/ control'[t].status # "QUEUE_FINALIZATION_FAILED"

LEMMA StatusVouches ==
    ASSUME TypeOK, NEW t \in Tables, NEW s, s # "QUEUE_FINALIZATION_FAILED",
           Status(t, s) \/ UNCHANGED control
    PROVE  KeepsVouching
<1>1. CASE UNCHANGED control
    BY <1>1 DEF KeepsVouching
<1>2. CASE Status(t, s)
    <2>1. ASSUME NEW u \in Tables
          PROVE  /\ control'[u].run = control[u].run /\ control'[u].last = control[u].last
                 /\ control'[u].status = IF u = t THEN s ELSE control[u].status
        <3>1. control[u] \in ControlRow
            BY DEF TypeOK, StoreTypeOK
        <3>2. control'[u] = IF u = t THEN [control[u] EXCEPT !.status = s] ELSE control[u]
            BY <1>2 DEF Status, TypeOK, StoreTypeOK
        <3>3. QED
            BY <3>1, <3>2 DEF ControlRow
    <2>2. QED
        BY <2>1 DEF KeepsVouching
<1>3. QED
    BY <1>1, <1>2

\* A step that changes no queue row, run, item or result keeps the records.
LEMMA RecordsQuiet ==
    ASSUME Known, KeepsVouching,
           UNCHANGED <<queue, phase, run, started, outcome, work, current, recon>>,
           step' = "finalize" => step = "finalize",
           phase = "apply" => failed' = failed,
           \A t \in Tables : \/ staged'[t].status = staged[t].status
                             \/ /\ staged'[t].status = "QUEUED"
                                /\ control'[t].status # "QUEUE_FINALIZATION_FAILED"
    PROVE  RecordsInv'
<1> USE DEF Known, RecordsInv, KeepsVouching
<1>1. RunsInOrder'
    BY DEF RunsInOrder
<1>2. InHandIsQueued'
    BY DEF InHandIsQueued, InHand
<1>3. CommittedIsBehind' /\ IntervalsDisjoint'
    BY DEF CommittedIsBehind, IntervalsDisjoint, Temporal
<1>4. FinalizationCommitted'
    BY DEF FinalizationCommitted
<1>5. UnfailedIsUniform'
    BY DEF UnfailedIsUniform, Lost, Applying, Uniform
<1>6. BoundaryAdvances' /\ RunsReportFailures'
    BY DEF BoundaryAdvances, RunsReportFailures
<1>7. QED
    BY <1>1, <1>2, <1>3, <1>4, <1>5, <1>6

\* A new run has no records.
LEMMA StartRunRecords ==
    ASSUME Known, TypeOK', StartRun
    PROVE  RecordsInv'
<1> USE DEF Known, RecordsInv
<1>1. /\ phase = "idle" /\ phase' = "prep" /\ run' = started + 1 /\ started' = started + 1
      /\ UNCHANGED <<control, queue, recon, outcome, staged, work, current, step>>
    BY DEF StartRun, StartRunOver, storeVars, itemVars
<1>2. run = started /\ started \in Nat /\ run \in Nat /\ Runs \subseteq Nat
    BY ConstantsAssumption DEF RunsInOrder, TraceInv, TypeOK, JobTypeOK, Runs
<1>3. current = NoTable /\ work = {} /\ staged = NoRows
    BY <1>1 DEF CoverInv, MemoryCleared, TypeOK, PositionOK
<1>4. \A r \in Runs : r > started + 1 \/ r = started + 1 => r > started
    BY <1>2
<1>5. RunsInOrder'
    BY <1>1, <1>2, <1>4 DEF RunsInOrder
<1>6. InHandIsQueued'
    BY <1>1, <1>3, ConstantsAssumption DEF InHandIsQueued, InHand, NoRows, NoRow
<1>7. CommittedIsBehind'
    <2>1. \A r \in Runs : r = run' => \A t \in Tables : queue[r][t].status = "NONE"
        BY <1>1, <1>4 DEF RunsInOrder
    <2>2. QED
        BY <1>1, <2>1 DEF CommittedIsBehind, Temporal
<1>8. FinalizationCommitted' /\ UnfailedIsUniform' /\ IntervalsDisjoint'
    BY <1>1 DEF FinalizationCommitted, UnfailedIsUniform, IntervalsDisjoint, Temporal
<1>9. BoundaryAdvances' /\ RunsReportFailures'
    BY <1>1 DEF BoundaryAdvances, RunsReportFailures
<1>10. QED
    BY <1>5, <1>6, <1>7, <1>8, <1>9

\* NB11a queues intervals that start at the checkpoint, which no committed
\* interval has passed.
LEMMA WriteQueueRecords ==
    ASSUME Known, TypeOK', WriteQueue
    PROVE  RecordsInv'
<1> USE DEF Known, RecordsInv
<1>1. /\ phase = "prep" /\ phase' = "queued" /\ queue' = [queue EXCEPT ![run] = staged]
      /\ UNCHANGED <<control, recon, run, started, outcome, work, current, step>>
      /\ staged' = NoRows
    BY DEF WriteQueue, itemVars
<1>2. run \in Runs /\ run = started
    BY <1>1, RunningRun DEF RunsInOrder, TraceInv
<1>3. \A r \in Runs : queue'[r] = IF r = run THEN staged ELSE queue[r]
    BY <1>1 DEF TraceInv, TypeOK, StoreTypeOK
<1>4. \A t \in Tables : t \notin work /\ current # t
    BY <1>1, ConstantsAssumption DEF CoverInv, MemoryCleared, TypeOK, PositionOK
<1>5. Runs \subseteq Int
    BY ConstantsAssumption DEF Runs
<1>6. RunsInOrder'
    BY <1>1, <1>2, <1>3, <1>5 DEF RunsInOrder
<1>7. InHandIsQueued'
    BY <1>1, <1>2, <1>3, <1>4 DEF InHandIsQueued, InHand, NoRows, NoRow
<1>8. CommittedIsBehind'
    BY <1>1, <1>2, <1>3 DEF CommittedIsBehind, InHandIsQueued, Temporal
<1>9. FinalizationCommitted'
    BY <1>1, <1>3 DEF FinalizationCommitted, TraceInv
<1>10. UnfailedIsUniform'
    BY <1>1, <1>2, <1>3 DEF UnfailedIsUniform, InHandIsQueued
<1>11. IntervalsDisjoint'
    <2> SUFFICES ASSUME NEW t \in Temporal, NEW r1 \in Runs, NEW r2 \in Runs, r1 < r2,
                        queue'[r1][t].status \in {"SUCCEEDED", "FAILED_FINALIZATION"},
                        queue'[r2][t].status # "NONE"
                 PROVE  queue'[r1][t].upper <= queue'[r2][t].lower
        BY DEF IntervalsDisjoint, Temporal
    <2>1. t \in Tables
        BY DEF Temporal
    <2>2. r1 # run /\ queue'[r1] = queue[r1]
        BY <1>3, <2>1 DEF InHandIsQueued
    <2>3. CASE r2 = run
        <3>1. staged[t].lower = control[t].last
            BY <1>1, <1>3, <2>1, <2>3 DEF CoverInv, StartsAtCheckpoint, Adjacent, NoRow
        <3>2. queue[r1][t].upper <= control[t].last
            BY <2>2 DEF CommittedIsBehind
        <3>3. QED
            BY <1>3, <2>2, <2>3, <3>1, <3>2
    <2>4. CASE r2 # run
        BY <1>3, <2>2, <2>4 DEF IntervalsDisjoint
    <2>5. QED
        BY <2>3, <2>4
<1>12. BoundaryAdvances'
    BY <1>1 DEF BoundaryAdvances
<1>13. RunsReportFailures'
    BY <1>1, <1>3 DEF RunsReportFailures, RunsInOrder
<1>14. QED
    BY <1>6, <1>7, <1>8, <1>9, <1>10, <1>11, <1>12, <1>13

\* NB11b starts with the queued rows of its run, or with none.
LEMMA BeginApplyRecords ==
    ASSUME Known, BeginApply \/ BeginApplyWithoutRunId
    PROVE  RecordsInv'
<1> USE DEF Known, RecordsInv
<1>1. /\ phase = "queued" /\ phase' = "apply"
      /\ UNCHANGED <<control, queue, recon, run, started, outcome, staged, current, step>>
      /\ work' = {} \/ work' = {t \in Tables : queue[run][t].status = "QUEUED"}
    BY DEF BeginApply, BeginApplyWithoutRunId, storeVars, prepVars, itemVars
<1>2. current = NoTable /\ \A t \in Tables : current # t
    BY <1>1, ConstantsAssumption DEF TraceInv, TypeOK, PositionOK
<1>3. RunsInOrder'
    BY <1>1 DEF RunsInOrder
<1>4. InHandIsQueued'
    BY <1>1, <1>2 DEF InHandIsQueued, InHand
<1>5. UnfailedIsUniform'
    BY <1>1, <1>2 DEF UnfailedIsUniform, Lost, Applying
<1>6. CommittedIsBehind' /\ IntervalsDisjoint' /\ FinalizationCommitted'
    BY <1>1 DEF CommittedIsBehind, IntervalsDisjoint, FinalizationCommitted, Temporal
<1>7. BoundaryAdvances' /\ RunsReportFailures'
    BY <1>1 DEF BoundaryAdvances, RunsReportFailures
<1>8. QED
    BY <1>3, <1>4, <1>5, <1>6, <1>7

LEMMA TakeItemRecords ==
    ASSUME Known, NEW t \in Tables, TakeItem(t)
    PROVE  RecordsInv'
<1> USE DEF Known, RecordsInv
<1>1. /\ phase = "apply" /\ current = NoTable /\ t \in work /\ work' = work \ {t}
      /\ current' = t /\ step' = "read"
      /\ UNCHANGED <<control, queue, recon, phase, run, started, outcome, staged, failed>>
    BY DEF TakeItem, storeVars, jobVars, prepVars
<1>2. RunsInOrder'
    BY <1>1 DEF RunsInOrder
<1>3. InHandIsQueued'
    BY <1>1 DEF InHandIsQueued, InHand
<1>4. UnfailedIsUniform'
    BY <1>1, ConstantsAssumption DEF UnfailedIsUniform, Lost, Applying
<1>5. CommittedIsBehind' /\ IntervalsDisjoint' /\ FinalizationCommitted'
    BY <1>1 DEF CommittedIsBehind, IntervalsDisjoint, FinalizationCommitted, Temporal
<1>6. BoundaryAdvances' /\ RunsReportFailures'
    BY <1>1 DEF BoundaryAdvances, RunsReportFailures
<1>7. QED
    BY <1>2, <1>3, <1>4, <1>5, <1>6

\* A mark changes the status of one queue row.
LEMMA MarkedRow ==
    ASSUME TypeOK, run \in Runs, NEW t \in Tables, NEW s \in Marking, MarkQueue(t, s)
    PROVE  \A r \in Runs, u \in Tables :
              queue'[r][u].status = IF r = run /\ u = t THEN s ELSE queue[r][u].status
<1> SUFFICES ASSUME NEW r \in Runs, NEW u \in Tables
             PROVE  queue'[r][u].status = IF r = run /\ u = t THEN s ELSE queue[r][u].status
    OBVIOUS
<1>1. queue[r][u] \in QueueRow
    BY DEF TypeOK, StoreTypeOK
<1>2. queue'[r][u] = IF r = run /\ u = t THEN [queue[r][u] EXCEPT !.status = s]
                                         ELSE queue[r][u]
    BY DEF MarkQueue, TypeOK, StoreTypeOK
<1>3. QED
    BY <1>1, <1>2 DEF QueueRow

\* The row of the item that ends is marked as committed only at its last
\* statement, and the item counts as failed unless it succeeded.
EndsInOrder(t) ==
    LET mark == queue'[run][t].status
    IN  /\ \A r \in Runs, u \in Tables :
              /\ queue'[r][u].upper = queue[r][u].upper
              /\ queue'[r][u].lower = queue[r][u].lower
              /\ r # run \/ u # t => queue'[r][u].status = queue[r][u].status
        /\ mark # "NONE"
        /\ mark \in {"SUCCEEDED", "FAILED_FINALIZATION"} => step = "finalize"
        /\ failed' \/ (failed' = failed /\ mark = "SUCCEEDED")
        /\ \A u \in Tables : /\ control'[u].run = control[u].run
                             /\ control'[u].last = control[u].last
                             /\ u # t => control'[u].status = control[u].status
        /\ control'[t].status = "QUEUE_FINALIZATION_FAILED"
              => step = "finalize" /\ mark \in {"QUEUED", "SUCCEEDED", "FAILED_FINALIZATION"}

LEMMA ItemEndsRecords ==
    ASSUME Known, NEW t \in Tables, EndsItem(t), EndsInOrder(t)
    PROVE  RecordsInv'
<1> USE DEF Known, RecordsInv
<1>1. /\ current = t /\ current' = NoTable /\ step' = "none" /\ t # NoTable
      /\ UNCHANGED <<recon, phase, run, started, outcome, staged, work>>
    BY ConstantsAssumption DEF EndsItem, jobVars, prepVars
<1>2. phase = "apply" /\ run \in Runs /\ run = started
    BY <1>1, RunningRun DEF TraceInv, TypeOK, PositionOK, RunsInOrder
<1>3. Runs \subseteq Int
    BY ConstantsAssumption DEF Runs
<1>4. queue[run][t].status = "QUEUED"
    BY <1>1 DEF InHandIsQueued
<1>5. RunsInOrder'
    BY <1>1, <1>2, <1>3 DEF RunsInOrder, EndsInOrder
<1>6. t \notin work
    BY <1>1 DEF CoverInv, MemoryCleared
<1>7. InHandIsQueued'
    BY <1>1, <1>2, <1>6, ConstantsAssumption DEF InHandIsQueued, InHand, EndsInOrder
<1>8. step = "finalize" => /\ control[t].run = run
                           /\ t \in Temporal => control[t].last = queue[run][t].upper
    <2>1. step = "finalize" => control[t].run = run
        BY <1>1 DEF InHandIsQueued
    <2>2. run # 0
        BY <1>2, ConstantsAssumption DEF Runs
    <2>3. QED
        BY <2>1, <2>2 DEF TraceInv, CheckpointTraceable
<1>9. CommittedIsBehind'
    <2> SUFFICES ASSUME NEW u \in Temporal, NEW r \in Runs
                 PROVE  /\ queue'[r][u].status \in {"SUCCEEDED", "FAILED_FINALIZATION"}
                              => queue'[r][u].upper <= control'[u].last
                        /\ r = run /\ queue'[r][u].status = "SUCCEEDED"
                              => queue'[r][u].upper = control'[u].last
        BY <1>1 DEF CommittedIsBehind, Temporal
    <2>1. u \in Tables
        BY DEF Temporal
    <2>2. CASE r = run /\ u = t
        <3>1. queue[run][t].upper \in Int
            BY <1>2, MarksAreIntegers, ConstantsAssumption DEF CoverInv, Marks
        <3>2. QED
            BY <1>8, <2>1, <2>2, <3>1 DEF EndsInOrder
    <2>3. CASE r # run \/ u # t
        BY <2>1, <2>3 DEF CommittedIsBehind, EndsInOrder
    <2>4. QED
        BY <2>2, <2>3
<1>10. FinalizationCommitted'
    <2> SUFFICES ASSUME NEW u \in Tables, control'[u].status = "QUEUE_FINALIZATION_FAILED"
                 PROVE  /\ control'[u].run \in Runs
                        /\ queue'[control'[u].run][u].status
                              \in {"QUEUED", "SUCCEEDED", "FAILED_FINALIZATION"}
        BY DEF FinalizationCommitted
    <2>1. CASE u = t
        BY <1>2, <1>8, <2>1 DEF EndsInOrder
    <2>2. CASE u # t
        BY <2>2 DEF FinalizationCommitted, EndsInOrder
    <2>3. QED
        BY <2>1, <2>2
<1>11. UnfailedIsUniform'
    <2>1. ASSUME ~failed' PROVE (Lost \/ Applying)'
        <3>1. ~failed /\ queue'[run][t].status = "SUCCEEDED"
            BY <2>1 DEF EndsInOrder
        <3>2. Applying
            BY <1>1, <1>2, <3>1 DEF UnfailedIsUniform, Lost
        <3>3. ASSUME NEW u \in Tables
              PROVE  \/ queue'[run][u].status \in {"NONE", "SUCCEEDED"}
                     \/ queue'[run][u].status = "QUEUED" /\ u \in work
            BY <1>1, <1>2, <3>1, <3>2 DEF Applying, EndsInOrder
        <3>4. QED
            BY <1>1, <3>3 DEF Applying
    <2>2. QED
        BY <1>1, <1>2, <2>1 DEF UnfailedIsUniform
<1>12. IntervalsDisjoint'
    <2> SUFFICES ASSUME NEW u \in Temporal, NEW r1 \in Runs, NEW r2 \in Runs, r1 < r2,
                        queue'[r1][u].status \in {"SUCCEEDED", "FAILED_FINALIZATION"},
                        queue'[r2][u].status # "NONE"
                 PROVE  queue'[r1][u].upper <= queue'[r2][u].lower
        BY DEF IntervalsDisjoint, Temporal
    <2>1. u \in Tables
        BY DEF Temporal
    <2>2. queue[r2][u].status # "NONE"
        BY <1>4, <2>1 DEF EndsInOrder
    <2>3. ~(r2 > started)
        BY <2>1, <2>2 DEF RunsInOrder
    <2>4. r1 # run
        BY <1>2, <1>3, <2>3
    <2>5. QED
        BY <2>1, <2>2, <2>4 DEF IntervalsDisjoint, EndsInOrder
<1>13. BoundaryAdvances'
    BY <1>1 DEF BoundaryAdvances
<1>14. RunsReportFailures'
    <2>1. \A r \in Runs : outcome[r] = "succeeded" => r # run
        BY <1>2 DEF RunsInOrder
    <2>2. QED
        BY <1>1, <2>1 DEF RunsReportFailures, EndsInOrder
<1>15. QED
    BY <1>5, <1>7, <1>9, <1>10, <1>11, <1>12, <1>13, <1>14

\* FinalizeQueue marks SUCCEEDED and leaves the control row alone.
LEMMA FinalizeRecords ==
    ASSUME Known, NEW t \in Tables, FinalizeQueue(t)
    PROVE  RecordsInv'
<1> USE DEF Known, RecordsInv
<1>1. /\ EndsItem(t) /\ step = "finalize" /\ MarkQueue(t, "SUCCEEDED")
      /\ UNCHANGED <<control, failed>> /\ current = t
    BY DEF FinalizeQueue, EndsItem
<1>2. run \in Runs /\ phase = "apply"
    BY <1>1, RunningRun, ConstantsAssumption DEF TraceInv, TypeOK, PositionOK
<1>3. control[t].status # "QUEUE_FINALIZATION_FAILED"
    BY <1>1, <1>2 DEF InHandIsQueued, InHand
<1>4. \A r \in Runs, u \in Tables :
          queue'[r][u].status = IF r = run /\ u = t THEN "SUCCEEDED" ELSE queue[r][u].status
    BY <1>1, <1>2, MarkedRow DEF TraceInv, Marking
<1>5. \A r \in Runs, u \in Tables : /\ queue'[r][u].upper = queue[r][u].upper
                                    /\ queue'[r][u].lower = queue[r][u].lower
    BY <1>1, <1>2, MarkKeepsBounds DEF TraceInv
<1>6. EndsInOrder(t)
    BY <1>1, <1>2, <1>3, <1>4, <1>5 DEF EndsInOrder
<1>7. QED
    BY <1>1, <1>6, ItemEndsRecords

\* A failed item is counted; only the handler of the last statement leaves a
\* committed mark or an unfinalized status.
LEMMA ItemFailsRecords ==
    ASSUME Known, NEW t \in Tables, NEW ms \in SUBSET Marking, NEW s \in Statuses,
           ItemFails(t, ms, s), "NONE" \notin ms,
           ms \cap {"SUCCEEDED", "FAILED_FINALIZATION"} # {} => step = "finalize",
           s = "QUEUE_FINALIZATION_FAILED" => step = "finalize" /\ "FAILED" \notin ms
    PROVE  RecordsInv'
<1> USE DEF Known, RecordsInv
<1>1. /\ EndsItem(t) /\ failed' = TRUE /\ current = t
      /\ UNCHANGED queue \/ \E m \in ms : MarkQueue(t, m)
      /\ UNCHANGED control \/ Status(t, s)
    BY DEF ItemFails, EndsItem
<1>2. run \in Runs /\ phase = "apply"
    BY <1>1, RunningRun, ConstantsAssumption DEF TraceInv, TypeOK, PositionOK
<1>3. control[t].status # "QUEUE_FINALIZATION_FAILED" /\ queue[run][t].status = "QUEUED"
    BY <1>1, <1>2 DEF InHandIsQueued, InHand
<1>4. \A r \in Runs, u \in Tables : /\ queue'[r][u].upper = queue[r][u].upper
                                    /\ queue'[r][u].lower = queue[r][u].lower
    BY <1>1, <1>2, MarkKeepsBounds DEF TraceInv
<1>5. /\ \A r \in Runs, u \in Tables :
            r # run \/ u # t => queue'[r][u].status = queue[r][u].status
      /\ queue'[run][t].status \in ms \cup {"QUEUED"}
    <2>1. CASE UNCHANGED queue
        BY <1>3, <2>1
    <2>2. ASSUME NEW m \in ms, MarkQueue(t, m) PROVE <1>5
        BY <1>2, <2>2, MarkedRow DEF TraceInv
    <2>3. QED
        BY <1>1, <2>1, <2>2
<1>6. /\ \A u \in Tables : /\ control'[u].run = control[u].run
                           /\ control'[u].last = control[u].last
                           /\ u # t => control'[u].status = control[u].status
      /\ control'[t].status \in {s, control[t].status}
    <2>1. CASE UNCHANGED control
        BY <2>1
    <2>2. CASE Status(t, s)
        <3>1. \A u \in Tables : u # t => control'[u] = control[u]
            BY <2>2 DEF Status, TraceInv, TypeOK, StoreTypeOK
        <3>2. control'[t] = [control[t] EXCEPT !.status = s] /\ control[t] \in ControlRow
            BY <2>2 DEF Status, TraceInv, TypeOK, StoreTypeOK
        <3>3. control'[t].status = s
            BY <3>2 DEF ControlRow
        <3>4. \A u \in Tables : /\ control'[u].run = control[u].run
                                /\ control'[u].last = control[u].last
            BY <2>2, StatusKeepsTrace DEF TraceInv
        <3>5. QED
            BY <3>1, <3>3, <3>4
    <2>3. QED
        BY <1>1, <2>1, <2>2
<1>7. ms \subseteq {"QUEUED", "SUCCEEDED", "FAILED", "FAILED_FINALIZATION"}
    BY DEF Marking
<1>8. EndsInOrder(t)
    BY <1>1, <1>3, <1>4, <1>5, <1>6, <1>7 DEF EndsInOrder
<1>9. QED
    BY <1>1, <1>8, ItemEndsRecords

\* A commit moves the checkpoint up to the end of its own interval, and names
\* the run that queued it.
LEMMA CommitRecords ==
    ASSUME Known, NEW t \in Tables, CommitCheckpoint(t)
    PROVE  RecordsInv'
<1> USE DEF Known, RecordsInv
<1>1. /\ current = t /\ step = "commit" /\ step' = "finalize"
      /\ UNCHANGED <<queue, recon, phase, run, started, outcome, staged, work, current,
                     failed>>
    BY DEF CommitCheckpoint, jobVars, prepVars
<1>2. phase = "apply" /\ run \in Runs /\ run = started
    BY <1>1, RunningRun, ConstantsAssumption DEF TraceInv, TypeOK, PositionOK, RunsInOrder
<1>3. Runs \subseteq Int
    BY ConstantsAssumption DEF Runs
<1>4. /\ control'[t].run = run
      /\ control'[t].last = IF t \in Temporal THEN queue[run][t].upper ELSE control[t].last
      /\ control'[t].status # "QUEUE_FINALIZATION_FAILED"
      /\ \A u \in Tables : u # t => control'[u] = control[u]
    <2>1. control[t] \in ControlRow
        BY DEF TraceInv, TypeOK, StoreTypeOK
    <2>2. \A u \in Tables : u # t => control'[u] = control[u]
        BY DEF CommitCheckpoint, TraceInv, TypeOK, StoreTypeOK
    <2> DEFINE m == IF t \in Temporal THEN queue[run][t].upper ELSE control[t].last
               s == IF Strategy[t] = "FULL_LOAD"
                    THEN "DELTA_FULL_REFRESH_SUCCEEDED" ELSE "DELTA_SYNCED"
    <2>3. control'[t] = [control[t] EXCEPT !.run = run, !.last = m, !.status = s]
        BY DEF CommitCheckpoint, TraceInv, TypeOK, StoreTypeOK
    <2>4. s # "QUEUE_FINALIZATION_FAILED"
        OBVIOUS
    <2> HIDE DEF m, s
    <2>5. control'[t].run = run /\ control'[t].last = m /\ control'[t].status = s
        BY <2>1, <2>3 DEF ControlRow
    <2>6. QED
        BY <2>2, <2>4, <2>5 DEF m
<1>5. queue[run][t].status = "QUEUED"
    BY <1>1 DEF InHandIsQueued
<1>6. RunsInOrder' /\ BoundaryAdvances' /\ RunsReportFailures' /\ IntervalsDisjoint'
    BY <1>1 DEF RunsInOrder, BoundaryAdvances, RunsReportFailures, IntervalsDisjoint, Temporal
<1>7. InHandIsQueued'
    BY <1>1, <1>4 DEF InHandIsQueued, InHand
<1>8. UnfailedIsUniform'
    BY <1>1 DEF UnfailedIsUniform, Lost, Applying, Uniform
<1>9. FinalizationCommitted'
    BY <1>1, <1>4 DEF FinalizationCommitted
<1>10. CommittedIsBehind'
    <2> SUFFICES ASSUME NEW u \in Temporal, NEW r \in Runs
                 PROVE  /\ queue[r][u].status \in {"SUCCEEDED", "FAILED_FINALIZATION"}
                              => queue[r][u].upper <= control'[u].last
                        /\ r = run /\ queue[r][u].status = "SUCCEEDED"
                              => queue[r][u].upper = control'[u].last
        BY <1>1 DEF CommittedIsBehind, Temporal
    <2>1. u \in Tables
        BY DEF Temporal
    <2>2. CASE u = t
        <3>1. /\ queue[run][t].lower = control[t].last
              /\ queue[run][t].lower <= queue[run][t].upper
            BY <1>1, <2>2 DEF CoverInv, StartsAtCheckpoint, Pending, Adjacent
        <3>2. /\ queue[r][t].upper \in Int /\ queue[run][t].upper \in Int
              /\ control[t].last \in Int
            BY <1>2, MarksAreIntegers, ConstantsAssumption DEF CoverInv, Marks
        <3>3. queue[r][u].status \in {"SUCCEEDED", "FAILED_FINALIZATION"}
                 => queue[r][u].upper <= control[u].last
            BY DEF CommittedIsBehind
        <3>4. QED
            BY <1>4, <1>5, <2>2, <3>1, <3>2, <3>3
    <2>3. CASE u # t
        BY <1>4, <2>1, <2>3 DEF CommittedIsBehind
    <2>4. QED
        BY <2>2, <2>3
<1>11. QED
    BY <1>6, <1>7, <1>8, <1>9, <1>10

\* What a task leaves when it ends.
LEMMA TaskEnds ==
    ASSUME Known, phase # "idle", UNCHANGED <<control, queue, run, started>>,
           phase' \in {"idle", "recon"}, work' = {}, current' = NoTable,
           \A t \in Tables : staged'[t].status = "NONE",
           phase' = "recon" => outcome' = outcome /\ Uniform(run),
           NEW o \in Outcomes,
           outcome' = outcome \/ outcome' = [outcome EXCEPT ![run] = o],
           o = "succeeded" => Uniform(run),
           \A t \in Tables : recon'[t].boundary # "WARN"
    PROVE  RecordsInv'
<1> USE DEF Known, RecordsInv
<1>1. run \in Runs /\ run = started /\ Runs \subseteq Int
    BY RunningRun, ConstantsAssumption DEF TraceInv, RunsInOrder, Runs
<1>2. \A r \in Runs : outcome'[r] = IF outcome' = outcome \/ r # run THEN outcome[r] ELSE o
    BY DEF TraceInv, TypeOK, JobTypeOK
<1>3. RunsInOrder'
    <2>1. \A r \in Runs : r > started => \A t \in Tables : queue[r][t].status = "NONE"
        BY DEF RunsInOrder
    <2>2. \A r \in Runs : r > started => outcome'[r] = "none"
        BY <1>1, <1>2 DEF RunsInOrder
    <2>3. phase' # "idle" => outcome'[run] = "none"
        BY <1>1 DEF RunsInOrder
    <2>4. run = started /\ phase' # "prep"
        BY <1>1
    <2>5. QED
        BY <2>1, <2>2, <2>3, <2>4 DEF RunsInOrder
<1>4. InHandIsQueued'
    BY ConstantsAssumption DEF InHandIsQueued, InHand
<1>5. CommittedIsBehind' /\ FinalizationCommitted' /\ IntervalsDisjoint'
    BY DEF CommittedIsBehind, FinalizationCommitted, IntervalsDisjoint, Temporal
<1>6. UnfailedIsUniform'
    BY DEF UnfailedIsUniform, Uniform
<1>7. BoundaryAdvances'
    BY DEF BoundaryAdvances
<1>8. RunsReportFailures'
    BY <1>2 DEF RunsReportFailures, Uniform
<1>9. QED
    BY <1>3, <1>4, <1>5, <1>6, <1>7, <1>8

LEMMA FinishApplyRecords ==
    ASSUME Known, FinishApply
    PROVE  RecordsInv'
<1> USE DEF Known, RecordsInv
<1>1. /\ phase = "apply" /\ work = {} /\ current = NoTable
      /\ UNCHANGED <<control, queue, recon, run, started, staged, work, current>>
    BY DEF FinishApply, storeVars, prepVars, itemVars
<1>2. \A t \in Tables : staged'[t].status = "NONE" /\ recon'[t].boundary # "WARN"
    BY <1>1 DEF CoverInv, MemoryCleared, NoRows, NoRow, BoundaryAdvances
<1>3. CASE failed
    <2>1. phase' = "idle" /\ outcome' = [outcome EXCEPT ![run] = "apply_failed"]
        BY <1>3 DEF FinishApply
    <2>2. QED
        BY <1>1, <1>2, <2>1, TaskEnds DEF Outcomes
<1>4. CASE ~failed
    <2>1. phase' = "recon" /\ outcome' = outcome
        BY <1>4 DEF FinishApply
    <2>2. Lost \/ Applying
        BY <1>1, <1>4 DEF UnfailedIsUniform
    <2>3. Uniform(run)
        BY <1>1, <2>2, ConstantsAssumption DEF Lost, Applying, Uniform
    <2>4. QED
        BY <1>1, <1>2, <2>1, <2>3, TaskEnds DEF Outcomes
<1>5. QED
    BY <1>3, <1>4

\* NB12 reads the checkpoint its run committed.
LEMMA FinishReconcileRecords ==
    ASSUME Known, FinishReconcile
    PROVE  RecordsInv'
<1> USE DEF Known, RecordsInv
<1>1. /\ phase = "recon" /\ phase' = "idle"
      /\ UNCHANGED <<control, queue, run, started, staged, work, current>>
    BY DEF FinishReconcile, prepVars, itemVars
<1>2. /\ work = {} /\ current = NoTable
      /\ \A t \in Tables : staged[t].status = "NONE"
    BY <1>1 DEF CoverInv, MemoryCleared, TypeOK, PositionOK, NoRows, NoRow
<1>3. run \in Runs
    BY <1>1, RunningRun DEF TraceInv
<1>4. ASSUME NEW t \in Tables PROVE recon'[t].boundary # "WARN"
    <2>1. Boundary(t) # "WARN"
        BY <1>3 DEF Boundary, CommittedIsBehind
    <2>2. results[t] \in ReconRow
        BY DEF TraceInv, TypeOK, MemoryTypeOK
    <2>3. [results[t] EXCEPT !.boundary = Boundary(t)].boundary = Boundary(t)
        BY <2>2 DEF ReconRow
    <2>4. recon'[t] = IF results[t] = NoResult THEN recon[t]
                      ELSE [results[t] EXCEPT !.boundary = Boundary(t)]
        BY DEF FinishReconcile
    <2>5. QED
        BY <2>1, <2>3, <2>4 DEF BoundaryAdvances
<1>5. Uniform(run)
    BY <1>1 DEF UnfailedIsUniform
<1>6. \/ outcome' = [outcome EXCEPT ![run] = "recon_failed"]
      \/ outcome' = [outcome EXCEPT ![run] = "succeeded"]
    BY DEF FinishReconcile
<1>7. QED
    BY <1>1, <1>2, <1>4, <1>5, <1>6, TaskEnds DEF Outcomes

LEMMA CrashRecords ==
    ASSUME Known, Crash
    PROVE  RecordsInv'
<1> USE DEF Known, RecordsInv
<1>1. /\ phase # "idle" /\ phase' = "idle" /\ work' = {} /\ current' = NoTable
      /\ staged' = NoRows
      /\ UNCHANGED <<control, queue, recon, run, started>>
    BY DEF Crash, storeVars
<1>2. \/ outcome' = [outcome EXCEPT ![run] = "prep_failed"]
      \/ outcome' = [outcome EXCEPT ![run] = "recon_failed"]
      \/ outcome' = [outcome EXCEPT ![run] = "apply_failed"]
    BY DEF Crash
<1>3. \A t \in Tables : staged'[t].status = "NONE" /\ recon'[t].boundary # "WARN"
    BY <1>1 DEF NoRows, NoRow, BoundaryAdvances
<1>4. QED
    BY <1>1, <1>2, <1>3, TaskEnds DEF Outcomes

\* An iteration of NB11a that queues nothing.
LEMMA PrepStatusRecords ==
    ASSUME Known, NEW t \in Tables, Prepares(t), UNCHANGED staged,
           NEW s, s # "QUEUE_FINALIZATION_FAILED", Status(t, s) \/ UNCHANGED control
    PROVE  RecordsInv'
<1>1. KeepsVouching
    BY StatusVouches DEF Known, TraceInv
<1>2. UNCHANGED <<queue, recon, phase, run, started, outcome, work, current, step, failed>>
    BY DEF Prepares, jobVars, itemVars
<1>3. QED
    BY <1>1, <1>2, RecordsQuiet

\* An iteration of NB11a that queues a row gives its control row a new status.
LEMMA PrepQueueRecords ==
    ASSUME Known, NEW t \in Tables, Prepares(t), NEW row, row.status = "QUEUED",
           staged' = [staged EXCEPT ![t] = row],
           NEW s, s # "QUEUE_FINALIZATION_FAILED", Status(t, s)
    PROVE  RecordsInv'
<1>1. KeepsVouching
    BY StatusVouches DEF Known, TraceInv
<1>2. UNCHANGED <<queue, recon, phase, run, started, outcome, work, current, step, failed>>
    BY DEF Prepares, jobVars, itemVars
<1>3. control'[t].status = s
    <2>1. control'[t] = [control[t] EXCEPT !.status = s] /\ control[t] \in ControlRow
        BY DEF Status, Known, TraceInv, TypeOK, StoreTypeOK
    <2>2. QED
        BY <2>1 DEF ControlRow
<1>4. \A u \in Tables : staged'[u] = IF u = t THEN row ELSE staged[u]
    BY DEF Known, TraceInv, TypeOK, MemoryTypeOK
<1>5. \A u \in Tables : \/ staged'[u].status = staged[u].status
                        \/ /\ staged'[u].status = "QUEUED"
                           /\ control'[u].status # "QUEUE_FINALIZATION_FAILED"
    BY <1>3, <1>4
<1>6. QED
    BY <1>1, <1>2, <1>5, RecordsQuiet

\* Every step keeps the records.
LEMMA RecordsStep == Known /\ [Next]_vars => RecordsInv'
<1> SUFFICES ASSUME Known, [Next]_vars PROVE RecordsInv'
    OBVIOUS
<1> USE DEF sourceVars, storeVars, jobVars, prepVars, itemVars, budgetVars
<1>1. TypeOK'
    BY TypeStep DEF Known, TraceInv
<1>2. CASE \/ SourceStops \/ UNCHANGED vars
           \/ \E t \in Tables : \/ SourceWrite(t) \/ SourceDelete(t)
                                \/ ReconcileTable(t) \/ ReconcileFails(t)
           \/ ReconcileWithoutRunId
    <2>1. /\ UNCHANGED <<control, queue, recon, phase, run, started, outcome, staged, work,
                         current, step>>
          /\ phase = "apply" => failed' = failed
        BY <1>2 DEF SourceStops, vars, SourceWrite, SourceDelete, ReconcileTable,
                    ReconcileFails, Reconciles, ReconcileWithoutRunId
    <2>2. KeepsVouching
        BY <2>1 DEF KeepsVouching
    <2>3. QED
        BY <2>1, <2>2, RecordsQuiet
<1>3. ASSUME NEW t \in Tables, EditControl(t) PROVE RecordsInv'
    <2>1. UNCHANGED <<queue, recon, phase, run, started, outcome, staged, work, current,
                      step, failed>>
        BY <1>3 DEF EditControl
    <2>2. PICK a \in BOOLEAN, c \in Configs :
              control' = [control EXCEPT ![t].active = a, ![t].config = c]
        BY <1>3 DEF EditControl
    <2>3. ASSUME NEW u \in Tables
          PROVE  /\ control'[u].run = control[u].run /\ control'[u].last = control[u].last
                 /\ control'[u].status = control[u].status
        <3>1. control[u] \in ControlRow
            BY DEF Known, TraceInv, TypeOK, StoreTypeOK
        <3>2. control'[u] = IF u = t THEN [control[u] EXCEPT !.active = a, !.config = c]
                                     ELSE control[u]
            BY <2>2 DEF Known, TraceInv, TypeOK, StoreTypeOK
        <3>3. QED
            BY <3>1, <3>2 DEF ControlRow
    <2>4. KeepsVouching
        BY <2>3 DEF KeepsVouching
    <2>5. QED
        BY <2>1, <2>4, RecordsQuiet
<1>4. CASE StartRun
    BY <1>1, <1>4, StartRunRecords
<1>5. ASSUME NEW t \in Tables,
             \/ PrepNoColumns(t) \/ PrepConfigError(t) \/ PrepNoSourceWatermark(t)
             \/ PrepNoChanges(t) \/ PrepFails(t)
      PROVE  RecordsInv'
    <2>1. /\ Prepares(t) /\ UNCHANGED staged
          /\ \E s \in {"DELTA_PREP_FAILED", "DELTA_CONFIG_ERROR", "NO_SOURCE_WATERMARK",
                       "NO_CHANGES"} : Status(t, s) \/ UNCHANGED control
        BY <1>5 DEF PrepNoColumns, PrepConfigError, PrepNoSourceWatermark, PrepNoChanges,
                    PrepFails
    <2>2. QED
        BY <2>1, PrepStatusRecords
<1>6. ASSUME NEW t \in Tables, QueueInterval(t) PROVE RecordsInv'
    <2>1. PICK m \in Stamps :
              staged' = [staged EXCEPT ![t] =
                           [status |-> "QUEUED", lower |-> seen[t].last, upper |-> m]]
        BY <1>6 DEF QueueInterval
    <2>2. Prepares(t) /\ Status(t, "DELTA_QUEUED")
        BY <1>6 DEF QueueInterval
    <2>3. QED
        BY <2>1, <2>2, PrepQueueRecords
<1>7. ASSUME NEW t \in Tables, QueueSnapshot(t) PROVE RecordsInv'
    <2>1. /\ Prepares(t) /\ staged' = [staged EXCEPT ![t] = [NoRow EXCEPT !.status = "QUEUED"]]
          /\ \/ Status(t, "DELTA_FULL_REFRESH_QUEUED")
             \/ Status(t, "DELTA_QUEUED")
        BY <1>7 DEF QueueSnapshot
    <2>2. [NoRow EXCEPT !.status = "QUEUED"].status = "QUEUED"
        BY DEF NoRow
    <2>3. QED
        BY <2>1, <2>2, PrepQueueRecords
<1>8. CASE WriteQueue
    BY <1>1, <1>8, WriteQueueRecords
<1>9. CASE BeginApply \/ BeginApplyWithoutRunId
    BY <1>9, BeginApplyRecords
<1>10. ASSUME NEW t \in Tables, TakeItem(t) PROVE RecordsInv'
    BY <1>10, TakeItemRecords
<1>11. ASSUME NEW t \in Tables,
              \/ ReadSlice(t) \/ OverwriteTarget(t) \/ DeleteInterval(t)
              \/ AppendSlice(t) \/ MergeSlice(t) \/ AuditSuccess(t)
       PROVE  RecordsInv'
    <2>1. /\ UNCHANGED <<control, queue, recon, phase, run, started, outcome, staged, work,
                         current, failed>>
          /\ step' # "finalize"
        BY <1>11 DEF ReadSlice, OverwriteTarget, DeleteInterval, AppendSlice, MergeSlice,
                     Writes, AuditSuccess
    <2>2. KeepsVouching
        BY <2>1 DEF KeepsVouching
    <2>3. QED
        BY <2>1, <2>2, RecordsQuiet
<1>12. ASSUME NEW t \in Tables, CommitCheckpoint(t) PROVE RecordsInv'
    BY <1>12, CommitRecords
<1>13. ASSUME NEW t \in Tables, FinalizeQueue(t) PROVE RecordsInv'
    BY <1>13, FinalizeRecords
<1>14. ASSUME NEW t \in Tables, ApplyFails(t) \/ CheckpointFails(t) PROVE RecordsInv'
    BY <1>14, ItemFailsRecords DEF ApplyFails, CheckpointFails, Marking, Statuses
<1>15. ASSUME NEW t \in Tables, FinalizeFails(t) PROVE RecordsInv'
    BY <1>15, ItemFailsRecords DEF FinalizeFails, Marking, Statuses
<1>16. CASE FinishApply
    BY <1>16, FinishApplyRecords
<1>17. CASE FinishReconcile
    BY <1>17, FinishReconcileRecords
<1>18. CASE Crash
    BY <1>18, CrashRecords
<1>19. ASSUME NEW r \in Runs, RepairRun(r) PROVE RecordsInv'
    BY <1>19 DEF RepairRun, Known
<1>20. QED
    BY <1>2, <1>3, <1>4, <1>5, <1>6, <1>7, <1>8, <1>9, <1>10, <1>11, <1>12, <1>13, <1>14,
       <1>15, <1>16, <1>17, <1>18, <1>19
    DEF Next, Environment, Job, Prep, Apply, Reconcile, Failure

LEMMA TraceInit == Init => TraceInv
<1> SUFFICES ASSUME Init PROVE TraceInv
    OBVIOUS
<1>1. TypeOK
    BY TypeInit
<1>2. \A t \in Tables : control[t].run = 0
    BY DEF Init
<1>3. QED
    BY <1>1, <1>2 DEF Init, TraceInv, CheckpointTraceable

\* All of it holds throughout, as long as no failed run is repaired.
LEMMA RecordsAlways == ~Repairs => (Spec => []Known)
<1> SUFFICES ASSUME ~Repairs PROVE Spec => []Known
    OBVIOUS
<1>1. Init => Known
    BY CoverInit, TraceInit, RecordsInit DEF Known
<1>2. Known /\ [Next]_vars => Known'
    BY CoverStep, TraceStep, RecordsStep DEF Known
<1>3. QED
    BY <1>1, <1>2, PTL DEF Spec

\* IntervalsNeverOverlap: as long as no failed run is repaired, an interval
\* that was committed, finalized in the queue or not, is never extracted again;
\* whatever fails or crashes, each later interval of the table starts at or
\* above its upper bound.
THEOREM IntervalsNeverOverlap == ~Repairs => (Spec => []IntervalsDisjoint)
<1> SUFFICES ASSUME ~Repairs PROVE Spec => []IntervalsDisjoint
    OBVIOUS
<1>1. Known => IntervalsDisjoint
    BY DEF Known, RecordsInv
<1>2. QED
    BY RecordsAlways, <1>1, PTL

\* UnfinalizedIsCommitted: as long as no failed run is repaired, a control row
\* in QUEUE_FINALIZATION_FAILED names a run whose checkpoint stands and whose
\* queue row no handler of NB11b marked FAILED.
THEOREM UnfinalizedIsCommitted == ~Repairs => (Spec => []FinalizationKeepsCheckpoint)
<1> SUFFICES ASSUME ~Repairs PROVE Spec => []FinalizationKeepsCheckpoint
    OBVIOUS
<1>1. Known => FinalizationKeepsCheckpoint
    <2>1. 0 \notin Runs
        BY ConstantsAssumption DEF Runs
    <2>2. QED
        BY <2>1 DEF Known, RecordsInv, TraceInv, FinalizationCommitted, CheckpointTraceable,
                    FinalizationKeepsCheckpoint
<1>2. QED
    BY RecordsAlways, <1>1, PTL

\* BoundaryNeverWarns: as long as no failed run is repaired, NB12's boundary
\* report of a finished item is never WARN: nothing moves the checkpoint
\* between the commit of a run and its reconciliation.
THEOREM BoundaryNeverWarns == ~Repairs => (Spec => []BoundaryAdvances)
<1> SUFFICES ASSUME ~Repairs PROVE Spec => []BoundaryAdvances
    OBVIOUS
<1>1. Known => BoundaryAdvances
    BY DEF Known, RecordsInv
<1>2. QED
    BY RecordsAlways, <1>1, PTL

\* SuccessIsUniform: as long as no failed run is repaired, a run that reports
\* success has applied every row it queued, or, having lost its run_id, none.
THEOREM SuccessIsUniform == ~Repairs => (Spec => []RunsReportFailures)
<1> SUFFICES ASSUME ~Repairs PROVE Spec => []RunsReportFailures
    OBVIOUS
<1>1. Known => RunsReportFailures
    BY DEF Known, RecordsInv
<1>2. QED
    BY RecordsAlways, <1>1, PTL

=============================================================================
