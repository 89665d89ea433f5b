------------------------------ MODULE DeltaSync ------------------------------
(***************************************************************************)
(* JOB02_INCREMENTAL_SYNC: NB11a_DeltaSyncPrep freezes one extraction       *)
(* interval per table and queues it, NB11b_DeltaSyncApply writes the        *)
(* interval to the Delta target and commits the watermark checkpoint, NB12  *)
(* in mode=delta counts both sides.  The source keeps changing meanwhile,   *)
(* the driver may die between any two steps, every write may fail, and a    *)
(* failed run may be repaired (its failed task re-run under its run_id).    *)
(*                                                                         *)
(* A row is its primary key and its watermark stamp; the other columns of   *)
(* a row are a function of the two.  Version 0 means the key is absent.     *)
(***************************************************************************)
EXTENDS Integers, FiniteSets

CONSTANTS
    Tables,          \* the registered tables: rows of source_table_control
    Keys,            \* primary keys of source rows
    NoTable,         \* no item is being applied
    Strategy,        \* Strategy[t]: the row's load_strategy
    HardDelete,      \* the tables whose delete_policy is HARD_DELETE
    Repairs,         \* may an operator repair a failed run?
    ReservedRuns,    \* runs that start only when the source is quiet
    \* Bounds on otherwise unbounded counters.
    MaxStamp,        \* watermark stamps the source hands out
    MaxInitialStamp, \* stamps present at the initial full load
    MaxRuns,         \* runs of the job
    MaxFaults,       \* failures: driver crashes and storage outages
    MaxEdits         \* operator edits of control rows

Strategies == {"FULL_LOAD", "WATERMARK", "PRIMARY_KEY", "HYBRID"}

ASSUME ConstantsAssumption ==
    /\ NoTable \notin Tables
    /\ Strategy \in [Tables -> Strategies]
    /\ HardDelete \subseteq Tables
    /\ Repairs \in BOOLEAN
    /\ MaxStamp \in Nat
    /\ MaxInitialStamp \in 0 .. MaxStamp
    /\ MaxRuns \in Nat
    /\ ReservedRuns \in Nat
    /\ MaxFaults \in Nat
    /\ MaxEdits \in Nat

NULL     == -1                \* an absent watermark
Stamps   == 1 .. MaxStamp
Versions == 0 .. MaxStamp     \* 0: no row
Marks    == -1 .. MaxStamp    \* 0: the 1900-01-01 bootstrap checkpoint
Runs     == 1 .. MaxRuns

VARIABLES
    \* The source database.
    source,    \* source[t][k]: the stamp of the row with key k, 0 if none
    horizon,   \* horizon[t]: the largest watermark captured from t, or NULL
    open,      \* is the source still changing?
    \* Unity Catalog: the target tables and the control schema.
    target,    \* target[t][k][s]: how many rows of key k and stamp s
    control,   \* source_table_control
    queue,     \* delta_sync_queue, by run_id and source_table_id
    audit,     \* table_run_log: the <<run, table>> logged SUCCEEDED
    recon,     \* reconciliation_results: the latest result of each table
    \* The job scheduler.
    phase,     \* what the job is doing
    run,       \* the run_id the tasks share
    started,   \* runs started so far
    outcome,   \* how each run ended
    \* Driver memory of the notebook that is running.
    todo,      \* NB11a, NB12: collected rows the loop has not reached
    seen,      \* NB11a: the control rows as the eligible query returned them
    staged,    \* NB11a: the in-memory queue list
    work,      \* NB11b: collected queue rows the loop has not reached
    current,   \* NB11b: the item being applied
    step,      \* NB11b: its next statement
    slice,     \* NB11b: its cached source slice
    failed,    \* NB11b: failed > 0; NB12: any_fail
    results,   \* NB12: the results not written yet
    \* Budgets.
    faults, edits

sourceVars  == <<source, horizon, open>>
storeVars   == <<target, control, queue, audit, recon>>
jobVars     == <<phase, run, started, outcome>>
prepVars    == <<seen, staged>>
itemVars    == <<current, step, slice>>
budgetVars  == <<faults, edits>>
vars == <<sourceVars, storeVars, jobVars, todo, prepVars, work, itemVars,
          failed, results, budgetVars>>

-----------------------------------------------------------------------------
(* Tables and rows.                                                        *)

Temporal == {t \in Tables : Strategy[t] \in {"WATERMARK", "HYBRID"}}
Keyed    == {t \in Tables : Strategy[t] \in {"PRIMARY_KEY", "HYBRID"}}

Configs == {"ok", "no_columns", "no_primary_key", "no_watermark", "non_temporal"}

Statuses == {"LOADED", "DELTA_CONFIG_ERROR", "NO_SOURCE_WATERMARK", "NO_CHANGES",
             "DELTA_QUEUED", "DELTA_FULL_REFRESH_QUEUED", "DELTA_PREP_FAILED",
             "DELTA_SYNCED", "DELTA_FULL_REFRESH_SUCCEEDED", "DELTA_FAILED",
             "CHECKPOINT_COMMIT_FAILED", "QUEUE_FINALIZATION_FAILED"}
Marking  == {"NONE", "QUEUED", "SUCCEEDED", "FAILED", "FAILED_FINALIZATION"}

ControlRow == [active : BOOLEAN, config : Configs, last : Marks, run : 0 .. MaxRuns,
               status : Statuses]
QueueRow == [status : Marking, lower : Marks, upper : Marks]
ReconRow == [status : {"NONE", "PASS", "WARN", "FAIL"}, surplus : BOOLEAN,
             boundary : {"NONE", "PASS", "WARN"}]
Outcomes == {"none", "prep_failed", "apply_failed", "recon_failed", "succeeded"}
Steps == {"none", "read", "overwrite", "delete", "append", "merge", "audit",
          "commit", "finalize"}

NoRow    == [status |-> "NONE", lower |-> NULL, upper |-> NULL]
NoSlice  == [k \in Keys |-> 0]
NoResult == [status |-> "NONE", surplus |-> FALSE, boundary |-> "NONE"]
NoResults == [t \in Tables |-> NoResult]
NotSeen  == [t \in Tables |-> [config |-> "ok", last |-> NULL]]
NoRows   == [t \in Tables |-> NoRow]

\* m is MAX(watermark) of a source table that has rows.
IsSourceMax(t, m) ==
    /\ m # 0
    /\ \E k \in Keys : source[t][k] = m
    /\ \A k \in Keys : source[t][k] <= m

\* A table that holds exactly the rows of sl.
Holding(sl) == [k \in Keys |-> [s \in Stamps |-> IF sl[k] = s THEN 1 ELSE 0]]

SourceRows(t) == Cardinality({k \in Keys : source[t][k] # 0})

\* The rows of t's target, a repeated one as often as it is there.
StoredRows(t) == UNION {{r} \X (1 .. target[t][r[1]][r[2]]) : r \in Keys \X Stamps}
TargetRows(t) == Cardinality(StoredRows(t))

Fault   == /\ faults < MaxFaults
           /\ faults' = faults + 1
           /\ UNCHANGED edits
NoFault == UNCHANGED budgetVars

-----------------------------------------------------------------------------
(* Initially every table was loaded and handed over by NB10: the target is  *)
(* a copy of the source, and last_watermark_value is the largest loaded     *)
(* watermark, the bootstrap value of an empty table, or still NULL because  *)
(* re-inventory gave the loaded table a temporal strategy.                  *)

InitialMark(t, m) ==
    \/ m = NULL
    \/ /\ t \in Temporal
       /\ \/ IsSourceMax(t, m)
          \/ m = 0 /\ \A k \in Keys : source[t][k] = 0

Init ==
    /\ source \in [Tables -> [Keys -> 0 .. MaxInitialStamp]]
    /\ open = TRUE
    /\ target = [t \in Tables |-> Holding(source[t])]
    /\ control \in [Tables -> [active : {TRUE}, config : {"ok"},
                               last : NULL .. MaxInitialStamp, run : {0},
                               status : {"LOADED"}]]
    /\ \A t \in Tables : InitialMark(t, control[t].last)
    /\ horizon = [t \in Tables |-> control[t].last]
    /\ queue = [r \in Runs |-> NoRows]
    /\ audit = {}
    /\ recon = NoResults
    /\ phase = "idle" /\ run = 0 /\ started = 0
    /\ outcome = [r \in Runs |-> "none"]
    /\ todo = {} /\ seen = NotSeen /\ staged = NoRows
    /\ work = {} /\ current = NoTable /\ step = "none" /\ slice = NoSlice
    /\ failed = FALSE /\ results = NoResults
    /\ faults = 0 /\ edits = 0

-----------------------------------------------------------------------------
(* The environment: source applications and operators.  A row committed     *)
(* after MAX was captured carries a larger stamp than that MAX: without it  *)
(* no interval cursor can be complete.                                      *)

SourceWrite(t) ==
    /\ open
    /\ \E k \in Keys, s \in Stamps :
          /\ s > horizon[t] /\ s # source[t][k]
          /\ source' = [source EXCEPT ![t][k] = s]
    /\ UNCHANGED <<horizon, open, storeVars, jobVars, todo, prepVars,
                   work, itemVars, failed, results, budgetVars>>

SourceDelete(t) ==
    /\ open
    /\ \E k \in Keys :
          /\ source[t][k] # 0
          /\ source' = [source EXCEPT ![t][k] = 0]
    /\ UNCHANGED <<horizon, open, storeVars, jobVars, todo, prepVars,
                   work, itemVars, failed, results, budgetVars>>

SourceStops ==
    /\ open
    /\ open' = FALSE
    /\ UNCHANGED <<source, horizon, storeVars, jobVars, todo, prepVars,
                   work, itemVars, failed, results, budgetVars>>

EditControl(t) ==
    /\ open
    /\ edits < MaxEdits
    /\ \E a \in BOOLEAN, c \in Configs :
          control' = [control EXCEPT ![t].active = a, ![t].config = c]
    /\ edits' = edits + 1
    /\ UNCHANGED <<sourceVars, target, queue, audit, recon, jobVars, todo,
                   prepVars, work, itemVars, failed, results, faults>>

-----------------------------------------------------------------------------
(* NB11a_DeltaSyncPrep                                                     *)

\* A trigger fires; the job runs one run at a time.  The eligible rows are
\* collected once.
StartRunOver(eligible) ==
    /\ phase = "idle"
    /\ started < MaxRuns - (IF open THEN ReservedRuns ELSE 0)
    /\ phase' = "prep"
    /\ started' = started + 1
    /\ run' = started + 1
    /\ todo' = eligible
    /\ seen' = [t \in Tables |-> [config |-> control[t].config,
                                  last |-> control[t].last]]
    /\ UNCHANGED <<sourceVars, storeVars, outcome, staged, work, itemVars,
                   failed, results, budgetVars>>

\* Mutation: a run waits until nothing is queued.
StartRunWhenDrained ==
    /\ \A r \in Runs, t \in Tables : queue[r][t].status # "QUEUED"
    /\ StartRunOver({t \in Tables : control[t].active})

\* Every table here has been loaded and approved (Pipelines has the rest).
StartRun == StartRunOver({t \in Tables : control[t].active})

\* One iteration of the loop ends with a status in the control row.
Prepares(t) == /\ phase = "prep"
               /\ t \in todo
               /\ todo' = todo \ {t}
               /\ UNCHANGED <<source, open, target, queue, audit,
                              recon, jobVars, seen, work, itemVars, failed, results>>

Status(t, s) == control' = [control EXCEPT ![t].status = s]

ConfigError(t) ==
    \/ t \in Keyed /\ seen[t].config = "no_primary_key"
    \/ t \in Temporal /\ \/ seen[t].config \in {"no_watermark", "non_temporal"}
                         \/ seen[t].last = NULL

\* The row is well configured and its columns are approved.
Usable(t) == seen[t].config # "no_columns" /\ ~ConfigError(t)

PrepConfigError(t) ==
    /\ Prepares(t)
    /\ seen[t].config # "no_columns" /\ ConfigError(t)
    /\ Status(t, "DELTA_CONFIG_ERROR")
    /\ UNCHANGED <<horizon, staged>> /\ NoFault

PrepNoSourceWatermark(t) ==
    /\ Prepares(t)
    /\ Usable(t) /\ t \in Temporal
    /\ \A k \in Keys : source[t][k] = 0
    /\ Status(t, "NO_SOURCE_WATERMARK")
    /\ UNCHANGED <<horizon, staged>> /\ NoFault

PrepNoChanges(t) ==
    /\ Prepares(t)
    /\ Usable(t) /\ t \in Temporal
    /\ \E m \in Stamps : IsSourceMax(t, m) /\ ~(m > seen[t].last)
    /\ Status(t, "NO_CHANGES")
    /\ UNCHANGED <<horizon, staged>> /\ NoFault

\* Mutation: the interval starts at the last captured MAX, committed or not.
QueueFromLastCapture(t) ==
    /\ Prepares(t)
    /\ Usable(t) /\ t \in Temporal
    /\ \E m \in Stamps :
          /\ IsSourceMax(t, m) /\ m > seen[t].last
          /\ staged' = [staged EXCEPT ![t] =
                          [status |-> "QUEUED", lower |-> horizon[t], upper |-> m]]
          /\ horizon' = [horizon EXCEPT ![t] = IF m > @ THEN m ELSE @]
    /\ Status(t, "DELTA_QUEUED")
    /\ NoFault

\* WATERMARK and HYBRID queue the frozen interval (last, MAX].
QueueInterval(t) ==
    /\ Prepares(t)
    /\ Usable(t) /\ t \in Temporal
    /\ \E m \in Stamps :
          /\ IsSourceMax(t, m) /\ m > seen[t].last
          /\ staged' = [staged EXCEPT ![t] =
                          [status |-> "QUEUED", lower |-> seen[t].last, upper |-> m]]
          /\ horizon' = [horizon EXCEPT ![t] = IF m > @ THEN m ELSE @]
    /\ Status(t, "DELTA_QUEUED")
    /\ NoFault

\* FULL_LOAD and PRIMARY_KEY queue a complete extract.
QueueSnapshot(t) ==
    /\ Prepares(t)
    /\ Usable(t) /\ t \notin Temporal
    /\ staged' = [staged EXCEPT ![t] = [NoRow EXCEPT !.status = "QUEUED"]]
    /\ Status(t, IF Strategy[t] = "FULL_LOAD" THEN "DELTA_FULL_REFRESH_QUEUED"
                                              ELSE "DELTA_QUEUED")
    /\ UNCHANGED horizon /\ NoFault

\* No approved AUTO columns: the iteration raises.
PrepNoColumns(t) ==
    /\ Prepares(t)
    /\ seen[t].config = "no_columns"
    /\ Status(t, "DELTA_PREP_FAILED")
    /\ UNCHANGED <<horizon, staged>> /\ NoFault

\* The source or the control table does not answer; recording that is best
\* effort.
PrepFails(t) ==
    /\ Prepares(t)
    /\ Fault
    /\ Status(t, "DELTA_PREP_FAILED") \/ UNCHANGED control
    /\ UNCHANGED <<horizon, staged>>

\* The whole list is appended to delta_sync_queue in one Delta commit.
WriteQueue ==
    /\ phase = "prep" /\ todo = {}
    /\ queue' = [queue EXCEPT ![run] = staged]
    /\ phase' = "queued"
    /\ seen' = NotSeen /\ staged' = NoRows
    /\ UNCHANGED <<sourceVars, target, control, audit, recon, run, started,
                   outcome, todo, work, itemVars, failed, results, budgetVars>>

-----------------------------------------------------------------------------
(* NB11b_DeltaSyncApply                                                    *)

BeginApply ==
    /\ phase = "queued"
    /\ phase' = "apply"
    /\ work' = {t \in Tables : queue[run][t].status = "QUEUED"}
    /\ UNCHANGED <<sourceVars, storeVars, run, started, outcome, todo, prepVars,
                   itemVars, failed, results, budgetVars>>

\* get_run_id swallows a failed task-value read and invents a fresh run_id:
\* NB11b finds no queued rows.
BeginApplyWithoutRunId ==
    /\ phase = "queued"
    /\ Fault
    /\ phase' = "apply"
    /\ work' = {}
    /\ UNCHANGED <<sourceVars, storeVars, run, started, outcome, todo, prepVars,
                   itemVars, failed, results>>

TakeItem(t) ==
    /\ phase = "apply" /\ current = NoTable
    /\ t \in work
    /\ work' = work \ {t}
    /\ current' = t
    /\ step' = "read"
    /\ UNCHANGED <<sourceVars, storeVars, jobVars, todo, prepVars, slice,
                   failed, results, budgetVars>>

\* Mutation: the upper bound is exclusive.
SelectedBelowUpper(t, v) ==
    \/ t \notin Temporal
    \/ queue[run][t].lower < v /\ v < queue[run][t].upper

\* The rows the queued source_query selects.
Selected(t, v) ==
    \/ t \notin Temporal
    \/ queue[run][t].lower < v /\ v <= queue[run][t].upper

ReadSlice(t) ==
    /\ current = t /\ step = "read"
    /\ slice' = [k \in Keys |-> IF Selected(t, source[t][k]) THEN source[t][k] ELSE 0]
    /\ step' = CASE Strategy[t] = "FULL_LOAD" -> "overwrite"
                 [] Strategy[t] = "WATERMARK" -> "delete"
                 [] OTHER                     -> "merge"
    /\ UNCHANGED <<sourceVars, storeVars, jobVars, todo, prepVars, work, current,
                   failed, results, budgetVars>>

\* A statement that rewrites the target table; one Delta commit.
Writes(t, rows, next) ==
    /\ target' = [target EXCEPT ![t] = rows]
    /\ step' = next
    /\ UNCHANGED <<sourceVars, control, queue, audit, recon, jobVars, todo,
                   prepVars, work, current, slice, failed, results, budgetVars>>

\* Mutation: the refresh appends.
AppendRefresh(t) ==
    /\ current = t /\ step = "overwrite"
    /\ Writes(t, [k \in Keys |-> [s \in Stamps |->
                    target[t][k][s] + Holding(slice)[k][s]]], "audit")

OverwriteTarget(t) ==
    /\ current = t /\ step = "overwrite"
    /\ Writes(t, Holding(slice), "audit")

\* Mutation: the lower bound is inclusive.
DeleteFromLower(t) ==
    /\ current = t /\ step = "delete"
    /\ Writes(t, [k \in Keys |-> [s \in Stamps |->
                    IF Selected(t, s) \/ s = queue[run][t].lower
                    THEN 0 ELSE target[t][k][s]]], "append")

\* Mutation: the upper bound is exclusive.
DeleteBelowUpper(t) ==
    /\ current = t /\ step = "delete"
    /\ Writes(t, [k \in Keys |-> [s \in Stamps |->
                    IF SelectedBelowUpper(t, s) THEN 0 ELSE target[t][k][s]]], "append")

\* WATERMARK replaces the interval in two commits: DELETE, then append.
DeleteInterval(t) ==
    /\ current = t /\ step = "delete"
    /\ Writes(t, [k \in Keys |-> [s \in Stamps |->
                    IF Selected(t, s) THEN 0 ELSE target[t][k][s]]], "append")

AppendSlice(t) ==
    /\ current = t /\ step = "append"
    /\ Writes(t, [k \in Keys |-> [s \in Stamps |->
                    target[t][k][s] + (IF slice[k] = s THEN 1 ELSE 0)]], "audit")

\* Mutation: an empty extract deletes too.
DeletesUnmatchedAlways(t) == Strategy[t] = "PRIMARY_KEY" /\ t \in HardDelete

\* Mutation: the delete_policy is not looked at.
DeletesNothing(t) == FALSE

\* PRIMARY_KEY and HYBRID: overwrite the stage table, MERGE it, drop it.  Only
\* a complete and non-empty PRIMARY_KEY extract may delete unmatched rows.
DeletesUnmatched(t) ==
    /\ Strategy[t] = "PRIMARY_KEY"
    /\ t \in HardDelete
    /\ \E k \in Keys : slice[k] # 0

\* Mutation: MERGE without its WHEN MATCHED branch.
InsertSlice(t) ==
    /\ current = t /\ step = "merge"
    /\ Writes(t, [k \in Keys |-> [s \in Stamps |->
                    target[t][k][s] + Holding(slice)[k][s]]], "audit")

MergeSlice(t) ==
    /\ current = t /\ step = "merge"
    /\ Writes(t, [k \in Keys |->
                    IF slice[k] # 0 \/ DeletesUnmatched(t)
                    THEN Holding(slice)[k] ELSE target[t][k]], "audit")

\* The row counts and the SUCCEEDED row of table_run_log.
AuditSuccess(t) ==
    /\ current = t /\ step = "audit"
    /\ audit' = audit \cup {<<run, t>>}
    /\ step' = "commit"
    /\ UNCHANGED <<sourceVars, target, control, queue, recon, jobVars, todo,
                   prepVars, work, current, slice, failed, results, budgetVars>>

\* Mutation: the checkpoint is the source's MAX at commit time.
CommitFreshMax(t) ==
    /\ current = t /\ step = "commit"
    /\ \E m \in Versions :
          /\ IsSourceMax(t, m) \/ (m = 0 /\ \A k \in Keys : source[t][k] = 0)
          /\ control' = [control EXCEPT ![t].run = run, ![t].last = m,
                                        ![t].status = "DELTA_SYNCED"]
    /\ step' = "finalize"
    /\ UNCHANGED <<sourceVars, target, queue, audit, recon, jobVars, todo,
                   prepVars, work, current, slice, failed, results, budgetVars>>

\* Mutation: the checkpoint is not advanced.
CommitRunOnly(t) ==
    /\ current = t /\ step = "commit"
    /\ control' = [control EXCEPT ![t].run = run, ![t].status = "DELTA_SYNCED"]
    /\ step' = "finalize"
    /\ UNCHANGED <<sourceVars, target, queue, audit, recon, jobVars, todo,
                   prepVars, work, current, slice, failed, results, budgetVars>>

CommitCheckpoint(t) ==
    /\ current = t /\ step = "commit"
    /\ control' = [control EXCEPT
          ![t].run = run,
          ![t].last = IF t \in Temporal THEN queue[run][t].upper ELSE @,
          ![t].status = IF Strategy[t] = "FULL_LOAD"
                        THEN "DELTA_FULL_REFRESH_SUCCEEDED" ELSE "DELTA_SYNCED"]
    /\ step' = "finalize"
    /\ UNCHANGED <<sourceVars, target, queue, audit, recon, jobVars, todo,
                   prepVars, work, current, slice, failed, results, budgetVars>>

\* Mutation: the item's position survives it.
EndsItemMidway(t) ==
    /\ current = t
    /\ current' = NoTable /\ step' = step /\ slice' = NoSlice
    /\ UNCHANGED <<sourceVars, target, audit, recon, jobVars, todo, prepVars, work, results>>

\* The iteration ends: the slice is unpersisted, the loop goes on.
EndsItem(t) ==
    /\ current = t
    /\ current' = NoTable /\ step' = "none" /\ slice' = NoSlice
    /\ UNCHANGED <<sourceVars, target, audit, recon, jobVars, todo, prepVars, work, results>>

MarkQueue(t, s) == queue' = [queue EXCEPT ![run][t].status = s]

FinalizeQueue(t) ==
    /\ EndsItem(t) /\ step = "finalize"
    /\ MarkQueue(t, "SUCCEEDED")
    /\ UNCHANGED <<control, failed, results>> /\ NoFault

\* Mutation: the failure is not counted.
ItemFailsUncounted(t, marks, status) ==
    /\ EndsItem(t)
    /\ Fault
    /\ UNCHANGED queue \/ \E m \in marks : MarkQueue(t, m)
    /\ Status(t, status) \/ UNCHANGED control
    /\ UNCHANGED failed

\* A failed statement ends the item in the handler of its stage.  The handler
\* writes to the queue and to the control row, each write best effort: the
\* outage that raised the error may swallow them too.
ItemFails(t, marks, status) ==
    /\ EndsItem(t)
    /\ Fault
    /\ failed' = TRUE
    /\ UNCHANGED queue \/ \E m \in marks : MarkQueue(t, m)
    /\ Status(t, status) \/ UNCHANGED control

\* A statement may have taken effect although it raised: each handler also
\* answers when its last statement is already done.
ApplyFails(t) ==
    /\ step \in {"read", "overwrite", "delete", "append", "merge", "audit", "commit"}
    /\ ItemFails(t, {"FAILED"}, "DELTA_FAILED")

CheckpointFails(t) ==
    /\ step \in {"commit", "finalize"}
    /\ ItemFails(t, {"FAILED"}, "CHECKPOINT_COMMIT_FAILED")

\* Mutation: an unfinalized row is treated as a data failure.
FinalizeFailsAsData(t) ==
    /\ step = "finalize"
    /\ ItemFails(t, {"FAILED"}, "QUEUE_FINALIZATION_FAILED")

FinalizeFails(t) ==
    /\ step = "finalize"
    /\ ItemFails(t, {"SUCCEEDED", "FAILED_FINALIZATION"}, "QUEUE_FINALIZATION_FAILED")

\* NB11b raises if any item failed; otherwise NB12 collects the tables the
\* run logged SUCCEEDED.
FinishApply ==
    /\ phase = "apply" /\ work = {} /\ current = NoTable
    /\ IF failed
       THEN /\ phase' = "idle"
            /\ outcome' = [outcome EXCEPT ![run] = "apply_failed"]
            /\ UNCHANGED todo
       ELSE /\ phase' = "recon"
            /\ todo' = {t \in Tables : <<run, t>> \in audit}
            /\ UNCHANGED outcome
    /\ failed' = FALSE
    /\ UNCHANGED <<sourceVars, storeVars, run, started, prepVars, work, itemVars,
                   budgetVars, results>>

-----------------------------------------------------------------------------
(* NB12_ValidationAndReconciliation, mode=delta                            *)

CountStatus(src, tgt) == IF tgt = 0 /\ src > 0 THEN "FAIL"
                         ELSE IF tgt >= src THEN "PASS" ELSE "WARN"

\* A full refresh compares its logged counts, which NB11b made equal.
Counts(t) ==
    [NoResult EXCEPT
        !.status  = IF Strategy[t] = "FULL_LOAD" THEN "PASS"
                    ELSE CountStatus(SourceRows(t), TargetRows(t)),
        !.surplus = Strategy[t] # "FULL_LOAD" /\ TargetRows(t) > SourceRows(t)]

Reconciles(t, result) ==
    /\ phase = "recon" /\ t \in todo
    /\ todo' = todo \ {t}
    /\ results' = [results EXCEPT ![t] = result]
    /\ failed' = (failed \/ result.status = "FAIL")
    /\ UNCHANGED <<sourceVars, storeVars, jobVars, prepVars, work, itemVars>>

ReconcileTable(t) == Reconciles(t, Counts(t)) /\ NoFault

\* RECON_ERROR: one of the counts cannot be taken.
ReconcileFails(t) == Reconciles(t, [NoResult EXCEPT !.status = "FAIL"]) /\ Fault

\* NB12 loses the run_id before it collects: it finds no table to reconcile.
ReconcileWithoutRunId ==
    /\ phase = "recon" /\ results = NoResults
    /\ Fault
    /\ todo' = {}
    /\ UNCHANGED <<sourceVars, storeVars, jobVars, prepVars, work, itemVars, failed, results>>

\* The boundary rows report whether the committed watermark is the captured one.
Boundary(t) ==
    IF t \in Temporal /\ queue[run][t].status = "SUCCEEDED"
    THEN IF control[t].last = queue[run][t].upper THEN "PASS" ELSE "WARN"
    ELSE "NONE"

\* All results are appended in one commit; NB12 raises if any is FAIL.
FinishReconcile ==
    /\ phase = "recon" /\ todo = {}
    /\ phase' = "idle"
    /\ recon' = [t \in Tables |-> IF results[t] = NoResult THEN recon[t]
                                  ELSE [results[t] EXCEPT !.boundary = Boundary(t)]]
    /\ outcome' = [outcome EXCEPT ![run] = IF failed THEN "recon_failed" ELSE "succeeded"]
    /\ failed' = FALSE /\ results' = NoResults
    /\ UNCHANGED <<sourceVars, target, control, queue, audit, run, started, todo,
                   prepVars, work, itemVars, budgetVars>>

-----------------------------------------------------------------------------
(* The driver dies: the task fails and its memory is gone.                 *)

Crash ==
    /\ phase # "idle"
    /\ Fault
    /\ phase' = "idle"
    /\ outcome' = [outcome EXCEPT ![run] =
                     CASE phase = "prep"  -> "prep_failed"
                       [] phase = "recon" -> "recon_failed"
                       [] OTHER           -> "apply_failed"]
    /\ todo' = {} /\ seen' = NotSeen /\ staged' = NoRows
    /\ work' = {} /\ current' = NoTable /\ step' = "none" /\ slice' = NoSlice
    /\ failed' = FALSE /\ results' = NoResults
    /\ UNCHANGED <<sourceVars, storeVars, run, started>>

\* An operator re-runs the failed task of a run, and what depends on it, with
\* the task values of the run: its run_id.
RepairRun(r) ==
    /\ Repairs
    /\ phase = "idle"
    /\ outcome[r] \in {"apply_failed", "recon_failed"}
    /\ run' = r
    /\ IF outcome[r] = "apply_failed"
       THEN phase' = "queued" /\ UNCHANGED todo
       ELSE phase' = "recon" /\ todo' = {t \in Tables : <<r, t>> \in audit}
    /\ UNCHANGED <<sourceVars, storeVars, started, outcome, prepVars, work,
                   itemVars, failed, results, budgetVars>>

-----------------------------------------------------------------------------

Environment == \E t \in Tables : SourceWrite(t) \/ SourceDelete(t) \/ EditControl(t)

Prep ==
    \/ \E t \in Tables :
          \/ PrepNoColumns(t) \/ PrepConfigError(t)
          \/ PrepNoSourceWatermark(t) \/ PrepNoChanges(t)
          \/ QueueInterval(t) \/ QueueSnapshot(t)
    \/ WriteQueue

Apply ==
    \/ BeginApply
    \/ \E t \in Tables :
          \/ TakeItem(t) \/ ReadSlice(t)
          \/ OverwriteTarget(t) \/ DeleteInterval(t) \/ AppendSlice(t) \/ MergeSlice(t)
          \/ AuditSuccess(t) \/ CommitCheckpoint(t) \/ FinalizeQueue(t)
    \/ FinishApply

Reconcile == (\E t \in Tables : ReconcileTable(t)) \/ FinishReconcile

\* What the job does without anything failing.
Job == StartRun \/ Prep \/ Apply \/ Reconcile

Failure ==
    \/ BeginApplyWithoutRunId \/ ReconcileWithoutRunId
    \/ \E t \in Tables : \/ PrepFails(t) \/ ApplyFails(t) \/ CheckpointFails(t)
                         \/ FinalizeFails(t) \/ ReconcileFails(t)
    \/ Crash

Next == \/ Environment
        \/ SourceStops
        \/ Job
        \/ Failure
        \/ \E r \in Runs : RepairRun(r)

Spec == Init /\ [][Next]_vars

\* The trigger keeps firing and a running task makes progress; the source
\* eventually rests.  Nothing is assumed of failures and repairs.
FairSpec == Spec /\ WF_vars(Job) /\ WF_vars(SourceStops)

-----------------------------------------------------------------------------
(* Properties.                                                             *)

SourceTypeOK ==
    /\ source \in [Tables -> [Keys -> Versions]]
    /\ horizon \in [Tables -> Marks]
    /\ open \in BOOLEAN

StoreTypeOK ==
    /\ target \in [Tables -> [Keys -> [Stamps -> Nat]]]
    /\ control \in [Tables -> ControlRow]
    /\ queue \in [Runs -> [Tables -> QueueRow]]
    /\ audit \in SUBSET (Runs \X Tables)
    /\ recon \in [Tables -> ReconRow]

JobTypeOK ==
    /\ phase \in {"idle", "prep", "queued", "apply", "recon"}
    /\ run \in 0 .. MaxRuns
    /\ started \in 0 .. MaxRuns
    /\ outcome \in [Runs -> Outcomes]
    /\ faults \in 0 .. MaxFaults
    /\ edits \in 0 .. MaxEdits

MemoryTypeOK ==
    /\ todo \in SUBSET Tables
    /\ seen \in [Tables -> [config : Configs, last : Marks]]
    /\ staged \in [Tables -> QueueRow]
    /\ work \in SUBSET Tables
    /\ current \in Tables \cup {NoTable}
    /\ step \in Steps
    /\ slice \in [Keys -> Versions]
    /\ failed \in BOOLEAN
    /\ results \in [Tables -> ReconRow]

\* Items are applied by the NB11b of a run only, one at a time.
PositionOK ==
    /\ phase # "idle" => run # 0
    /\ current # NoTable => phase = "apply"
    /\ (current = NoTable) = (step = "none")

TypeOK == SourceTypeOK /\ StoreTypeOK /\ JobTypeOK /\ MemoryTypeOK /\ PositionOK

\* Every source row with a stamp up to b is in the target, in its version.
Covered(t, b) ==
    \A k \in Keys : source[t][k] # 0 /\ source[t][k] <= b
                     => target[t][k][source[t][k]] > 0

\* The checkpoint never runs ahead of the data: NB11a will never again ask for
\* the rows at or below last_watermark_value, so all of them that the source
\* still holds are in the target, at every moment.  MERGE keeps this even when
\* failed runs are repaired; the two-commit interval replacement of WATERMARK
\* keeps it as long as no run is.
CheckpointCovers ==
    \A t \in Temporal : Strategy[t] = "HYBRID" \/ ~Repairs
                         => Covered(t, control[t].last)

\* NB11b calls the interval replacement "retry-safe": whenever the job is at
\* rest, retries included, the checkpoint covers the target.
RetrySafe ==
    phase = "idle" => \A t \in Temporal : Covered(t, control[t].last)

\* Re-extracting rows never duplicates them: a row version is stored at most
\* once, and a keyed table stores one version of a key.
NoDuplicates ==
    \A t \in Tables, k \in Keys :
        /\ \A s \in Stamps : target[t][k][s] <= 1
        /\ t \in Keyed => \A s, u \in Stamps :
                             target[t][k][s] > 0 /\ target[t][k][u] > 0 => s = u

\* An interval that was committed is never extracted again: every later run
\* starts at or above its upper bound, also when the queue row could only be
\* marked FAILED_FINALIZATION.
IntervalsDisjoint ==
    \A t \in Temporal, r1, r2 \in Runs :
        /\ r1 < r2
        /\ queue[r1][t].status \in {"SUCCEEDED", "FAILED_FINALIZATION"}
        /\ queue[r2][t].status # "NONE"
        => queue[r1][t].upper <= queue[r2][t].lower

\* A control row vouches only for what happened: its last_successful_run_id
\* names a run that logged the table SUCCEEDED, and the checkpoint is the upper
\* bound that run queued.
CheckpointTraceable ==
    \A t \in Tables : control[t].run # 0 =>
        /\ <<control[t].run, t>> \in audit
        /\ t \in Temporal => control[t].last = queue[control[t].run][t].upper

\* A queue row that could not be finalized is no data failure (NB11b: "must NOT
\* clear the committed watermark"): the status names a run whose checkpoint
\* stands and whose queue row is not FAILED.
FinalizationKeepsCheckpoint ==
    \A t \in Tables : control[t].status = "QUEUE_FINALIZATION_FAILED" =>
        LET row == queue[control[t].run][t]
        IN  /\ row.status \in {"QUEUED", "SUCCEEDED", "FAILED_FINALIZATION"}
            /\ t \in Temporal => control[t].last = row.upper

\* A run that reports success has applied every row it queued, or none because
\* it lost its run_id; a row left FAILED or half of the rows left QUEUED fails
\* the run.
RunsReportFailures ==
    \A r \in Runs : outcome[r] = "succeeded" =>
        \E done \in {"SUCCEEDED", "QUEUED"} :
            \A t \in Tables : queue[r][t].status \in {"NONE", done}

\* NB12's boundary report of a finished item is never WARN: nothing moves the
\* checkpoint between the commit of a run and its reconciliation.
BoundaryAdvances == \A t \in Tables : recon[t].boundary # "WARN"

\* NB12 says of a delta table that it holds more rows than the source "only if
\* the source had hard deletes": a surplus it counts comes with a target row
\* whose key the source no longer has.
SurplusMeansDeletes ==
    [][\A t \in Tables : ReconcileTable(t) /\ Counts(t).surplus =>
          \E k \in Keys, s \in Stamps : source[t][k] = 0 /\ target[t][k][s] > 0]_vars

\* An empty extract never empties a PRIMARY_KEY target, HARD_DELETE or not.
IsEmpty(t) == \A k \in Keys, s \in Stamps : target[t][k][s] = 0
NeverEmptied ==
    [][\A t \in Tables : Strategy[t] = "PRIMARY_KEY" /\ ~IsEmpty(t) => ~IsEmpty(t)']_vars

\* Once the source rests, every eligible table ends up in sync whatever failed
\* before: no failure makes the pipeline skip a change for good.
Eligible(t) ==
    /\ control[t].active
    /\ control[t].config = "ok"
    /\ t \in Temporal => control[t].last # NULL
InSync(t) ==
    CASE Strategy[t] = "FULL_LOAD" -> target[t] = Holding(source[t])
      [] Strategy[t] = "PRIMARY_KEY" /\ t \in HardDelete /\ SourceRows(t) > 0 ->
            target[t] = Holding(source[t])
      [] OTHER -> Covered(t, MaxStamp)
CatchesUp == <>[](\A t \in Tables : Eligible(t) => InSync(t))

\* A table merged by primary key under a watermark is a replica with a cursor
\* (CheckpointedReplica): NB11a, NB11b, their failures, crashes and repairs look
\* like one atomic step per applied interval, and the only thing a failure can
\* undo is the record of it.  The interval arrives with the MERGE; until the
\* checkpoint is committed the queue row is that record.
Merged == {t \in Tables : Strategy[t] = "HYBRID"}
StoredVersions(t, k) == {s \in Stamps : target[t][k][s] > 0}
Reached(t) == IF current = t /\ step \in {"audit", "commit"}
              THEN queue[run][t].upper ELSE control[t].last

Replica == INSTANCE CheckpointedReplica WITH
    Tables  <- Merged,
    source  <- [t \in Merged |-> source[t]],
    replica <- [t \in Merged |-> [k \in Keys |-> StoredVersions(t, k)]],
    cursor  <- [t \in Merged |-> Reached(t)]

IsCheckpointedReplica == Replica!Spec

=============================================================================
