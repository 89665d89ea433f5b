# Oracle / SQL Server to Databricks: verification project

This directory holds TLA+ models of the migration accelerator in this
repository, the TLC configurations that check them on small instances, and
theorems that TLAPS proves for every value of the constants. The code is the
reference: each definition of a model stands for lines of `src/` that
`PROJECT.json` names under `map`.

    tlc -config hybrid.cfg MCDeltaSync.tla      # one run
    tlapm DeltaSyncProofs.tla                   # the proofs about JOB02
    tlapm DeltaSyncRefinement.tla               # JOB02 implements the replica
    tlapm OnboardingProofs.tla                  # the proofs about JOB01
    tlapm PipelinesProofs.tla                   # both jobs side by side
    tlapm WatermarksProofs.tla                  # the proofs about precision
    tlapm ColumnsProofs.tla                     # the proofs about columns
    tlapm SourceIdentityProofs.tla              # the proofs about ids

## 1. The system

Two Databricks jobs copy tables from Oracle and SQL Server into Delta tables.
All durable state is in the Delta tables of Unity Catalog. Each task is a
notebook: a sequential driver program that reads rows, loops over tables, and
writes one Delta commit per statement. There is no transaction over two tables
and no lock.

* **JOB01_ONBOARD_AND_FULL_LOAD** creates the control tables (NB00), reads the
  source metadata and picks a load strategy (NB01), maps the column types
  (NB02, NB03, NB04), decides per table (NB07), creates the targets (NB08),
  overwrites them with a full extract (NB09), compares row counts (NB12,
  mode=full) and commits the initial state (NB10).
* **JOB02_INCREMENTAL_SYNC** freezes one extraction interval per table and
  queues it (NB11a), applies the queue (NB11b) and counts both sides (NB12,
  mode=delta).

### Components

| Component | Durable state | Operations | Talks to |
|---|---|---|---|
| Control tables, NB00, `source_identity` | `source_table_control` and nine more | create, seed, backfill canonical ids | every notebook |
| Control repository | none of its own | `update_control` (by id), `update_control_by_identity`, `log_table_run` | `source_table_control`, `table_run_log` |
| Inventory NB01, `strategy` | `source_inventory`; strategy, keys, watermark column of a control row | detect the strategy, keep or replace a configured watermark | source catalogs |
| Type mapping NB02-NB04, `crosssourcetypemapper` | `resolved_column_mappings` and two more | normalise, map, validate | `source_inventory` |
| Decisions NB07 | `table_load_decisions`, `review_queue`, `table_decision` | AUTO_MIGRATE / MANUAL_REVIEW / BLOCKED | mappings |
| Provisioning NB08, `ddl_builder` | target tables | collision guard, CREATE IF NOT EXISTS | mappings |
| Full load NB09, `partitioning` | target tables, `table_run_log` | partition plan, read, overwrite, count | sources |
| State commit NB10 | `initial_load_completed`, `last_watermark_value` | seed the checkpoint | targets, reconciliation |
| Prep NB11a | `delta_sync_queue` | eligible query, configuration checks, capture MAX, queue | sources, control |
| Apply NB11b | targets, `table_run_log`, control, queue | read, write by strategy, audit, commit, finalize | sources |
| Reconciliation NB12 | `reconciliation_results` | counts, boundary report, verdict | sources, targets |
| Jobs and run identity | task values, task states | task chain, `get_run_id`, repair | all |
| Source adapters, identifiers | none | SQL text, quoting, JDBC options | sources |

### What is hard

* **The source never stops.** NB11a captures `MAX(watermark)` minutes before
  NB11b reads the interval `(last, MAX]`; NB12 counts later still.
* **Four records per item, four commits.** Target, `table_run_log`,
  `source_table_control` and `delta_sync_queue` are written one after another.
  The driver may die between any two, a write may fail, and a write may take
  effect although its answer is lost. Three handlers deal with three stages,
  and each write of a handler is best effort too.
* **WATERMARK replacement is two commits**: a DELETE of the interval and an
  append.
* **Nothing retries a queue row.** Failed and orphaned rows are superseded by
  a later interval from the unchanged checkpoint; a repaired run re-applies
  what is still QUEUED under its old run_id.
* **`get_run_id` hides failure**: if the task value cannot be read it invents
  a run_id and the task finds no work.
* **The handoff from JOB01 to JOB02**, and the two jobs side by side.

### What makes each component correct

* Prep, apply, checkpoint: no source row the checkpoint has passed is missing
  in the target; a later interval starts where the last one ended; re-extracted
  rows are not duplicated; the control row vouches only for what happened; a
  run reports success only if no row was left unapplied; once the source rests
  every eligible table converges.
* Reconciliation: what its comments conclude from two counts is true.
* Handoff: the seed covers no row the full load has not read; a control row is
  committed only over a load that was logged and reconciled.
* Provisioning and decisions: two sources never share a target and only tables
  whose columns are all approved are loaded (of which the code keeps what NB08
  has checked, section 3); one bad table does not stop the others; no failure
  leaves a table that can never be onboarded.
* Strategy: only a column that is a date or timestamp in the target is a
  cursor, and a cursor is not changed without need.
* Types: a mapped type is legal and no number outgrows it.
* Precision: the same watermark compared at the source, in the control table and
  in Delta leads to the same rows.
* Identity: a row's id is the one its own columns give, and what is read from a
  source is recorded in that source's row.
* Both jobs together: re-loading and syncing a table keep one promise.

`PROJECT.json` lists the hazards with their lines and the properties that catch
them.

## 2. Modules

| Module | What it is |
|---|---|
| `DeltaSync` | JOB02: NB11a, NB11b, NB12 mode=delta, run identity, crashes, outages, repairs, the changing source |
| `CheckpointedReplica` | the abstract promise about a table merged by primary key: a replica and a cursor |
| `Pipelines` | `Onboarding` and `DeltaSync` composed: both jobs on one source, target and control row |
| `Watermarks` | one watermark through five precisions: source column, predicate, extract, control table, Delta |
| `SourceIdentity` | canonical ids, NB00's backfill and seeding, NB01's identity and recording, repeated |
| `DeltaSyncProofs`, `DeltaSyncRefinement` | theorems about `DeltaSync`: its checkpoints and targets, its records, and that it implements `CheckpointedReplica` |
| `CheckpointedReplicaProofs` | the replica keeps its promise |
| `Onboarding` | JOB01: NB01, NB02/NB03, NB07, NB08, NB09, NB12 mode=full, NB10, lost run ids, crashes, repairs, the changing source |
| `OnboardingProofs` | theorems about `Onboarding`: its seeds and commits, its review queue, its runs and what they may load |
| `PipelinesProofs` | theorems about `Pipelines`: both jobs keep one checkpoint, and implement `CheckpointedReplica` together |
| `WatermarksProofs` | theorems about `Watermarks` |
| `ColumnRules` | one column as a pure function: watermark policies, type mapper, the policy of NB03 |
| `Columns` | one table between ALTER TABLE, key changes, operator edits and NB01 / NB03 / NB07 |
| `ColumnsProofs` | theorems about `Columns` |
| `SourceIdentityProofs` | theorems about `SourceIdentity` |
| `MCDeltaSync`, `MCOnboarding`, `MCColumns`, `MCPipelines`, `MCWatermarks`, `MCSourceIdentity` | constant values for TLC |

`Columns` opens what `Onboarding` keeps closed: there a table has one verdict and
`Detected` its strategy, here both follow from the columns. They meet in NB07's
decision and share no state otherwise. `Watermarks` opens the stamps of
`DeltaSync` and `Onboarding`, which both compare exactly. `SourceIdentity` says
where the ids come from that every other module takes as `Tables`.
`Pipelines` instantiates the two job modules over shared variables; its `Init`
is the state before the first load, so a synchronised table is one that JOB01
has loaded there.

### State of `DeltaSync` and the code

| Variables | Code |
|---|---|
| `source`, `horizon`, `open` | a source table as key -> stamp; the largest MAX captured so far; whether applications still write |
| `target` | how often each row version is stored in the Delta table |
| `control` | `is_active`, the configuration columns, `last_watermark_value`, `last_successful_run_id`, `last_extract_status` |
| `queue` | `delta_sync_queue`: status and bounds by run_id and source_table_id |
| `audit`, `recon` | SUCCEEDED rows of `table_run_log`; `reconciliation_results` |
| `phase`, `run`, `started`, `outcome` | the scheduler: running task, its run_id, number of runs, how each ended |
| `todo`, `seen`, `staged` | NB11a: rows not yet visited, the rows as collected, the in-memory queue list |
| `work`, `current`, `step`, `slice`, `failed` | NB11b: rows not yet visited, the item, its next statement, its cached extract, `failed > 0` |
| `results` | NB12: results not yet appended |
| `faults`, `edits` | budgets |

| Actions | Code |
|---|---|
| `StartRun` ... `WriteQueue` | NB11a: the eligible query, one action per outcome of an iteration, the batch append |
| `BeginApply`, `TakeItem`, `ReadSlice` | NB11b:25-125 |
| `OverwriteTarget`, `DeleteInterval`, `AppendSlice`, `MergeSlice` | the write of each strategy, one action per Delta commit |
| `AuditSuccess`, `CommitCheckpoint`, `FinalizeQueue` | NB11b:168-217 |
| `ApplyFails`, `CheckpointFails`, `FinalizeFails` | the three handlers, NB11b:191-264 |
| `FinishApply`, `ReconcileTable`, `ReconcileFails`, `FinishReconcile` | end of NB11b; NB12 |
| `BeginApplyWithoutRunId`, `ReconcileWithoutRunId` | `get_run_id` in `_common.py` |
| `Crash`, `RepairRun` | loss of the driver; re-running the failed task |
| `SourceWrite`, `SourceDelete`, `EditControl` | source applications and operators |

Abstractions:

* A row is its primary key and its stamp. The other columns are a function of
  the two, so "the version is stored" means the row is right.
* `-1` is an absent watermark and `0` the 1900-01-01 bootstrap value.
* The stage table of a MERGE is written, merged and dropped inside one item and
  read by nobody else, so staging and MERGE are one action; a failure before it
  covers a failure while staging.
* The extract is cached, so count and write see the same rows. Losing a cached
  block and recomputing it from the source is not modelled.
* A source statement sees one state of its table.
* A row written after MAX was captured carries a larger stamp. Ties at the bound
  are a parameter of `Watermarks` and `Onboarding`; NULL stamps and transactions
  that commit late are listed as hazards.
* The statuses of a control row are those JOB02 writes. Nothing in JOB02 reads
  them back.

### State of `Onboarding` and the code

| Variables | Code |
|---|---|
| `source`, `horizon` | a source table as key -> stamp; the largest stamp visible at the latest read |
| `target` | how often each row version is stored in a Delta table, by target name |
| `control` | `is_active`, `last_watermark_value`, `last_successful_run_id` |
| `setup` | `initial_load_completed`, `table_decision`, `load_strategy` |
| `review` | `review_queue.review_status` |
| `columns` | the rows of each run_id in `source_inventory`, `normalized_source_inventory`, `resolved_column_mappings` |
| `log`, `passed` | SUCCEEDED full loads of `table_run_log`; ROW_COUNT PASS rows of `reconciliation_results` |
| `phase`, `run`, `started`, `halted`, `succeeded` | the scheduler: running task, its run_id, number of runs, the task at which each failed run stopped, runs that succeeded |
| `checked` | auxiliary: the rows NB08 of each run was through with when it ended well; no action reads it |
| `step`, `rows`, `todo` | the notebook: its next statement, the rows it collected, those its loop has not reached |
| `staged` | NB01: `inventory_rows` |
| `current`, `pending`, `slice`, `seed` | NB09 and NB10: the table in hand, JDBC partitions not read, the cached extract, the watermark to commit |
| `failed`, `faults`, `edits` | `failed > 0`; budgets |

| Actions | Code |
|---|---|
| `StartRun`, `NextTask`, `StopTask` | the task chain of JOB01; a notebook that raises after its loop stops it |
| `InventoryTable`, `InventoryFails`, `WriteInventory` | NB01: an iteration, its handler, the batch append |
| `Normalize`, `MapColumns` | NB02, NB03: read this run's rows, append one copy of them |
| `DecideTable`, `QueueReviews`, `ResolveReviews` | NB07: the decision per table and the two MERGEs after the loop |
| `ProvisionTable` | NB08: collision guard, mapping checks, CREATE IF NOT EXISTS |
| `BeginLoad`, `RejectLoad`, `ReadPartition`, `OverwriteTarget`, `LogLoad`, `LoadFails` | NB09 |
| `Reconcile` | NB12 in mode=full |
| `ReadSeed`, `CommitState`, `CommitFails` | NB10 |
| `LoseRunId` | `get_run_id` in `_common.py`, for the tasks in `LostRunIds` |
| `Crash`, `RepairRun` | loss of the driver; re-running the task at which any failed run stopped, under its run_id (`get_run_id`), and those after it |
| `SourceWrite`, `SourceDelete`, `EditActive` | source applications and operators |

Abstractions:

* The columns of a table are one item. Its verdict is the verdict of the worst
  column, chosen anew by every run from `Metadata`, since the source schema and
  the mapping rules may change between runs. What matters to NB07 and NB08 is
  which verdicts occur and in how many copies.
* `Detected` gives the strategy NB01 finds; `Columns` has the detection itself.
* `Lag` is the assumption about the source's clock. With 0, a row that becomes
  visible after a read is newer than everything the read saw; 1 admits ties (a
  DATE column); more admits transactions that commit late.
* A run that failed may be repaired at any later time, after newer runs as well.
  It then meets what they have decided and loaded with the mappings of its own
  run_id. As in `DeltaSync`, runs of one job do not overlap.
* `Partitioned` are the tables NB09 reads in partitions (NB09:138-171: exactly one
  primary-key column, integral), `Parts` and `PartOf` their JDBC partitions. Each is
  a query of its own, and the source may change between two of them. Every other
  table is read by one query (`ReadTogether`). A WATERMARK table has no primary key
  and is never among them.
* NB12 in mode=full writes no FAIL here: it compares counts NB09 has logged, and
  NB09 logs SUCCEEDED only when they are equal.
* `current_status`, `table_load_decisions` and NB04's findings are written and
  never read, so they are left out.

### State of `Columns` and the code

| Variables | Code |
|---|---|
| `dialect` | `source_system` of the control row |
| `column`, `keyed` | the columns and the primary key in the source's catalog |
| `cursor`, `strategy` | `watermark_column`, `load_strategy` of the control row |

| Actions | Code |
|---|---|
| `Inventory` | NB01:64-134 with `resolve_watermark_decision`; `Mapping` and `AutoMigrates` are what NB03 and NB07 make of the same columns |
| `AlterColumn`, `AlterKey` | DDL at the source |
| `Configure` | an operator writes `watermark_column` |

Abstractions:

* A column has a family, a precision, a scale and the flags `hidden` and
  `computed`. The families are those that differ in a rule; one family stands for
  all that are plain AUTO, one for REVIEW, one for BLOCKED, one for the types
  without a rule.
* A Delta type is a base, a number of decimal digits and a scale. SMALLINT, INT
  and BIGINT count as the 4, 9 and 18 digits that always fit.
* A name is an identity with a semantic score and an ordinal; tokenising names
  and comparing them without regard to case is left out. Ordinals are distinct,
  so the name itself never breaks a tie.
* The failures between NB01, NB03 and NB07 are in `Onboarding`.

### `CheckpointedReplica` and the code

`replica` is the set of versions a target stores under a key, `cursor` how far
it has caught up. `Change` is a source application, `CatchUp` an item of NB11b
seen as one step, `Reposition` what a failure or a repair does to the checkpoint
alone, `Reload` an overwrite by NB09. The refinement of `DeltaSync` maps the
cursor to `Reached`: `last_watermark_value`, except between the MERGE of an
item and the commit of its checkpoint, where the replica is already at the
upper bound in the queue. So `CatchUp` is the MERGE, the commit is a stutter, and
an item that dies between the two is a `Reposition` back.

### State of `Pipelines` and the code

The variables of both job modules; the source, targets, `source_table_control`
(split in `control` and `setup`) and the budgets are shared, and those of the
notebooks' memory carry 1 or 2 for the job.

| Actions | Code |
|---|---|
| `LoadStep` | every action of `Onboarding` that is not the environment's |
| `SyncStep` | every action of `DeltaSync` that is not, `StartSync` with NB11a's whole eligible query |
| environment | that of `Onboarding`; it writes the one source |

`Apart` names the tasks of JOB01 that an operator keeps JOB02 away from. No table
is read in partitions there; finding 2 is what that would add.

### State of `Watermarks` and the code

| Variables | Code |
|---|---|
| `family`, `strategy` | `watermark_data_type` and `load_strategy` of the control row |
| `now`, `source` | the source's clock; when each row was written last |
| `target` | copies of each version in the Delta table |
| `last`, `upper` | `last_watermark_value`; `upper_watermark_value` of the queue row |
| `phase`, `slice` | which statements of NB09-NB11b are done; the cached extract |
| `captured`, `highest`, `repeats` | what the latest MAX or full read saw; budget |

Time is counted in instants, `Micro` of which make a microsecond and `Coarse` the
tick of a DATE column. `Stamp` is what the source column keeps, `SixDigits` the
`CAST AS datetime2(6)` that `sqlserver_sql_builder` puts into MAX, predicate and
both projections, `InDelta` the microseconds of Delta, `Canonical` the string in
the control table, `Literal` that string in a query of the family.
`Load`, `Capture`, `Read`, `DeleteInterval`, `AppendSlice`, `Merge` and `Commit` are the
statements of NB09/NB10, NB11a and NB11b for one table; `Repeat` is a repair that
finds the queue row still QUEUED. Other failures are in `DeltaSync`.

### State of `SourceIdentity` and the code

| Variables | Code |
|---|---|
| `control`, `registered` | `source_table_control`: the five source columns, the id, and the source and run NB01 last recorded in the row |
| `late` | rows registered since NB00 collected those without an id |
| `phase`, `run`, `todo`, `current`, `handled` | the running notebook, collected rows, the row in hand |
| `faults` | budget |

| Actions | Code |
|---|---|
| `Register` | an operator inserts a row, in any spelling, at any moment |
| `StartRun`, `Backfill`, `Seed` | NB00:245-276 and the MERGE of the seeds |
| `ReadActive`, `Identify`, `Record`, `EndRun` | NB01: id of a row, then its outcome by id |
| `Fail` | the notebook dies at any statement; the next run starts over |

A text is a value with a trimmed and a lower-case form; the hash of the five parts
is the five parts, that is, SHA-256 has no collision. A text that is NULL and one
that is empty are different values and match as SQL matches them. Every row is
active. Rows that differ in nothing but the system are among the registrations.

## 3. Runs

Every bound is a constant named in the cfg. Deadlock checking is on in
`columns` only: the others end when `MaxRuns` is spent or the clock stops, while
the real trigger keeps firing.
One fault is one crash, one outage or one lost answer at any statement. Stamps
up to 3 allow an initial load and two later changes, which is what it takes to
have an interval, a change above it and a later interval.

| Run | Instance | Question |
|---|---|---|
| `hybrid` | 1 table, 2 keys, 3 stamps, 2 runs, 2 faults, repairs | does the checkpoint ever run ahead of MERGEd data, whatever is repaired; can the control row vouch for something that did not happen; does a surplus mean deletes; is the table a replica with a cursor |
| `watermark` | 1 table, 2 keys, 3 stamps, 3 runs of which 2 are reserved for a quiet source, 1 fault, 1 edit, no repairs | loss, duplicates and overlapping intervals of DELETE + append; are the records of a failed finalization consistent; does the boundary report ever warn; does every failure heal |
| `snapshots` | FULL_LOAD and PRIMARY_KEY HARD_DELETE, 2 keys, 1 stamp, 3 runs of which 2 are reserved, 1 fault | do refreshes accumulate; can an empty extract empty a target; does a run that reports success leave a row behind when one of two tables fails; does every failure heal |
| `onboards` | 2 WATERMARK tables, 1 key, 2 stamps, 2 runs, 1 fault, 1 edit, repairs of either run, lost run ids, `Lag` 0, no partitions | does the seed ever cover a row that was not loaded; does every table get onboarded in the end |
| `approval` | 3 tables of which two share a target, 1 key, no rows, AUTO or REVIEW, 2 runs, 1 fault, 2 edits, repairs of either run, lost run ids up to NB09 | does what NB08 has checked still hold when NB09 overwrites; is a committed state backed by a load; does a successful run commit all it loaded; do the queue and the decisions agree |
| `pipelines` | 1 HYBRID table, 1 key, 3 stamps, 2 loads and 2 syncs in any order and interleaving but for a sync during NB09, 1 fault, repairs | does a re-load, a reseed or a repaired sync ever put the checkpoint ahead of the data; do both jobs together implement the replica |
| `columns` | 3 columns out of 9 Oracle or 8 SQL Server shapes, any key, any configured watermark | is a usable cursor ever given up, or one chosen that the target cannot read; is a mapped DECIMAL ever illegal or too small |
| `identity` | 2 rows of 60 spellings and 1 seed, 2 runs, 1 fault | are ids and inventories the rows' own; is an id ever changed; is a registered table seeded again; is a row left without an answer |
| `precision` | 2 keys, six-digit TIMESTAMP, DATE and DATETIME2, microseconds of 3 instants, ticks of 2 microseconds, 10 instants, 1 repeat, no ties | is a row skipped, doubled or late because one watermark is compared in several precisions |
| `watermark_retry` | as `watermark` with 2 stamps, 1 run, 2 faults, repairs | finding 1 |
| `handoff_partitions` | 1 HYBRID table, 2 keys in 2 partitions, 3 stamps, 1 run, no fault | finding 2 |
| `precision_boundary` | as `precision` for TIMESTAMP(9), no repeat | finding 3 |

Two tables interact only through the flag `failed`, the order of the loop, a
shared target and the run, so the data runs have one table each and the others
carry as little data as they can: `approval` asks nothing about rows, and has
none. `snapshots` has versions 0 and 1 only: FULL_LOAD and PRIMARY_KEY select by
no stamp, so what matters is whether a row exists. `approval` leaves the run ids of NB12 and NB10 alone
because `LoadsAreCommitted` excludes them: a task that lost its run_id finds
nothing to commit and succeeds. Its two edits are what it takes to deactivate a
row and activate it again, its two runs what it takes to repair an older one, and
`t1` and `t2`, which share a target, are interchangeable (`ShareSymmetry`; the run has
no liveness property). Three columns are what a choice takes: the
cursor, a column that would rank above it and one that ranks below. The shapes
have a temporal family at three ranks and a number at each edge of the mapper;
the theorems of section 4 cover all the others. In `precision` a microsecond of
three instants is the smallest one whose last digit rounds both down and up, and
ten instants are three microseconds or a tick and a half: a load, a row at the
boundary and one on either side of it. `pipelines` has one key because the
replica is a property per key, and two runs of each job because a re-load under a
synchronised table followed by a sync takes load, sync, load, sync.

**Fairness.** In `DeltaSync`, `FairSpec` assumes `WF(Job)`: the schedule keeps
firing and a running notebook makes progress, which is what the job definition
and a sequential driver give. `Job` holds no failure and no repair.
`WF(SourceStops)` says that the source rests at some point; without it no copy
of a changing table ever converges. `ReservedRuns` keeps two runs for that time:
without them the bound `MaxRuns` would end the job before the source rests.

In `Onboarding`, `FairSpec` assumes `WF(Job)` and `SF(StartRun)`. JOB01 has no
schedule; an operator starts it. Strong fairness says that he does not repair
one run forever. Weak fairness is not enough: NB02 and NB03 append, so a run
whose NB02 was repaired after its append has every column twice and NB08 fails
it in every further repair. A new run reads only its own rows.

### Findings

1. **Interval replacement is not safe under repair** (`watermark_retry`).
   NB11b:140 calls it a "Retry-safe replacement of exactly the frozen source
   interval". If the checkpoint is committed and the queue row stays QUEUED (the
   driver dies, or finalization and its handler fail), a repair of the run
   deletes that interval again. If the append then fails, the rows are gone and
   `last_watermark_value` is past them, so no later run extracts them.
2. **A partitioned full load can seed past an update** (`handoff_partitions`).
   NB09 splits the read of a table whose primary key is one integral column; with
   a watermark it is HYBRID.
   NB10:5-7 says that seeding from the snapshot NB09 wrote "prevents rows
   arriving at the source after the full-load read from being skipped". The read
   is several queries. An update in a partition that was read, then a later one
   in a partition that was not, puts MAX of the target above the first.
3. **The checkpoint row of a TIMESTAMP(9) is stored twice** (`precision_boundary`).
   The mapper calls `TIMESTAMP(7..9)` AUTO and EXACT, and its MAX is stored with
   six digits. The row that was MAX lies above that literal, so the next run
   extracts it again; its copy in Delta has six digits and does not, so the
   "Retry-safe replacement" of NB11b:140 does not delete it and the append adds
   another. `sqlserver_sql_builder.py:299-303` casts datetime2(7) for this reason.
   Nothing is lost: `NothingSkipped` holds for TIMESTAMP(9) as well.

Seen while modelling, where no run shows it:

* The collision guard sees approved rows only. `README.md:92` says that rows that
  resolve to one target are an error "instead of allowing an overwrite
  collision". A loaded row that is back under review is not compared (NB08:22),
  and another row overwrites its target in a later run. Within a run the guard is
  evaded too: NB09 collects the approved rows again (NB09:50), so a row that is
  inactive while NB08 runs and active again when NB09 starts is loaded beside
  another one with its target. TLC finds it with two edits.
* A repaired run may load under mappings nobody approved. `README.md:237` says that
  "Only approved `AUTO` mappings are selected for automatic extraction". NB09 looks
  at no `mapping_status` (NB09:117-125) and takes today's decision (NB09:50). Run 1
  leaves `t` under review and stops at NB09; run 2 finds all columns of `t` AUTO; the
  repair of run 1 collects `t` and overwrites its target by the mappings of run 1.
  TLC finds it with two runs, one crash and no edit.
* A repaired run may succeed with a load uncommitted. Run 1 loads `t` and stops at
  NB10; run 2 sends `t` to review; the repair of run 1 finds nothing eligible (NB10:33)
  and succeeds. NB10:24 says "Only AUTO_MIGRATE tables [...] are eligible", so
  `LoadsAreCommitted` speaks of the tables that may migrate when the run ends. The
  target holds the new load, and the control row and the checkpoint those of before.
* One failed inventory stops the run. NB01:41-42 says that a bad row "isolates
  only this row". The row keeps the AUTO_MIGRATE decision of an earlier run and
  has no mappings in this one, so NB08 fails it and raises (NB08:74, 105), and no
  table of the run is loaded.
* With `Apart = {}` `CheckpointCovers` of `Pipelines` fails: NB09 reads, JOB02
  merges and commits a newer row, NB09 overwrites it with what it had read. No
  line of the repository says that the jobs may overlap or may not.
* A WATERMARK table needs more kept apart. With `Apart = {"load"}` and no repairs
  `CheckpointCovers` fails: NB11b has committed its DELETE, NB10 seeds the checkpoint
  with a newer row of the target, the append fails, and the next interval starts above
  the rows that are gone. With `Apart = {"load", "commit"}` it still fails: the
  append fails during NB12-full, the source deletes a row that was loaded, and
  NB10 then takes MAX of the target from that row. With
  `Apart = {"load", "recon", "commit"}` TLC finds no violation on one table with one key
  and 3 stamps or two keys and 2 stamps, 2 runs of each job and 1 fault.
* The backfill does not keep the systems apart. NB00:262 says that its UPDATE
  matches "the full identity", and `README.md:63` that the id "keeps Oracle and SQL
  Server tables separate". The UPDATE sets `source_system` and does not compare it, so
  a row `mssql` and one without a system at the same server, database, schema and
  table, both without an id, become whichever is handled first. `IdsAreFinal` and
  `IdentifiesItself` hold all the same: rows that have an id are spared, and the ids
  of the two rows agree with the columns they are left with.
* `update_control_by_identity` compares the system with 'oracle' where the row has
  none, so a row registered without one after NB00 has collected gets neither id
  nor outcome in that run. The next backfill reaches it.
* A row registered between NB00's query and its seeding is not seen by either: its
  table may be seeded beside it under the same id.
* With `Ties` and a DATE watermark `NothingSkipped` fails, and `SeedCovers` with
  `Lag` 1: the interval is open below, and DATE or SMALLDATETIME hand out a value
  twice. With TIMESTAMP(9) `RunIsComplete` fails: the row that was MAX is above the
  literal of its own run and is applied by the next.
* NB12:89 says that a target holds more rows than its source "only if the source
  had hard deletes". A WATERMARK append keeps the old version of an updated row,
  so a missing row can hide behind the surplus. `SurplusMeansDeletes` is checked
  for HYBRID (`hybrid`) and fails for WATERMARK.
* A repaired NB02 doubles the columns of its run, although NB02:6 says
  "Idempotent per run_id".
* `NUMBER(2,5)` becomes `DECIMAL(2,2)`, AUTO and EXACT, and loses its digits
  (mapper:451; `type_rules_oracle.yaml:16` says "scale > 0 -> DECIMAL(p,s)").
  `TIMESTAMP(9)` is EXACT too, while a Delta TIMESTAMP has microseconds.
* A computed SQL Server column is REVIEW whatever its type (NB03:59), so it
  lifts a type the mapper blocks; NB08 still refuses it.
* The ranking puts the type before the name: a `TIMESTAMP` of any meaning beats
  a `DATE` called `UPDATED_AT`.

## 4. Proofs

`DeltaSyncProofs` proves, from `ConstantsAssumption` alone (strategies are
strategies, bounds are naturals, `NoTable` is no table), for any sets of tables
and keys and any bounds:

* **`TypeCorrect`**: `Spec => []TypeOK`.
* **`CheckpointNeverAhead`**: `Spec => []CheckpointCovers`.
* **`NonEmptyStays`**: `Spec => NeverEmptied`. Only `MergeSlice` can remove rows
  of a PRIMARY_KEY target, and it deletes only when the slice, which it has just
  merged, is not empty.
* **`ControlRowVouches`**: `Spec => []CheckpointTraceable`.

`CheckpointCovers` is not inductive. `CommitCheckpoint` moves the checkpoint to
the queued upper bound and touches no data, so the data must have been known to
be covered before it. `CoverInv` carries that fact through the item:

* `BelowHorizon`: checkpoints and bounds never exceed the largest captured MAX,
  so a later source write is above every bound;
* `BoundsCovered`, `StartsAtCheckpoint`: whatever lies at or below the lower
  bound of an item that may still be applied is already in the target;
* `SliceIsCurrent`: a row of the interval that the source still holds is in the
  cached slice in the same version: an update since the read has lifted it above
  the bound;
* `WrittenCovered`: once the write is done, everything up to the upper bound is
  in the target;
* `StepFitsStrategy`, `MemoryCleared`: which statements an item of a strategy
  can reach, and that nothing of an item survives it.

For WATERMARK tables these facts need runs that are not repaired (a repair can
apply an interval below the checkpoint, finding 1). For HYBRID tables MERGE
never removes a version without storing the newer one, so they hold under
repairs as well.

`TraceInv`, for `ControlRowVouches`, adds that run ids are handed out in order,
that a run that is being prepared is named by no control row (so that
`WriteQueue` cannot change the bounds a control row points to), and that the
audit row precedes the commit.

and, as long as no failed run is repaired (`~Repairs`):

* **`IntervalsNeverOverlap`**: `Spec => []IntervalsDisjoint`.
* **`UnfinalizedIsCommitted`**: `Spec => []FinalizationKeepsCheckpoint`.
* **`BoundaryNeverWarns`**: `Spec => []BoundaryAdvances`.
* **`SuccessIsUniform`**: `Spec => []RunsReportFailures`.

Their common invariant is `Known`: `CoverInv`, `TraceInv` and `RecordsInv`, which
says how the four records of an item stand to each other at every statement of
NB11b. `InHandIsQueued`: until an item ends its queue row is QUEUED and its control
row is not unfinalized. `CommittedIsBehind`: a committed interval ends at or below
the checkpoint, so the next one, which starts there (`StartsAtCheckpoint`), is
above it; the latest one ends exactly at it, which is what NB12 reports.
`UnfailedIsUniform`: while `failed > 0` is false, every row of the run is done or
still in hand, or the run_id was lost and none is. TLC violates all four with
repairs, so the hypothesis is needed: a repair applies the rows of an older run
after a newer one has moved the checkpoint, and skips the rows its first attempt
marked FAILED.

`DeltaSyncRefinement` proves, from the same assumption:

* **`NeverDuplicated`**: `Spec => []NoDuplicates`.
* **`ReplicaImplemented`**: `Spec => IsCheckpointedReplica`, that is, for every set
  of HYBRID tables `DeltaSync` implements `CheckpointedReplica` under repairs, crashes
  and lost answers.
* **`SurplusIsDeletes`**: `Spec => SurplusMeansDeletes`, if `Keys` is finite and no
  table is WATERMARK. Where no target row has lost its key at the source, mapping
  each stored row to its key is an injection into the source's keys
  (`NoSurplus`), because a key is stored once (`NoDuplicates`).

`NoDuplicates` is not inductive: an append may double what is there. `DupInv`
adds to `CoverInv` that a cached slice holds rows of its interval only
(`SliceSelected`) and that between its DELETE and its append that interval is
empty in the target (`IntervalEmptied`). The refinement shows that a source
change is a `Change` (`ChangeMaps`), that MERGE is a `CatchUp` from the lower bound
of the queue row, which `BoundsCovered` has covered (`MergeMaps`), and that every
other step leaves the replica alone and moves the cursor, if at all, to a mark
that is covered, which is a `Reposition` or a stutter (`WhatMoves`, `CursorMaps`).
One version per key (`NoDuplicates`) is what turns "covered" into "caught up"
(`CoveredIsCaughtUp`). `CheckpointedReplicaProofs` proves of the abstract module:

* **`PromiseKept`**: `MaxStamp \in Nat => (Spec => []AlwaysCaughtUp)`.

`OnboardingProofs` proves, from `OnboardingAssumption` alone (functions have
their ranges, bounds are naturals, `NoTable` is no table), for any tables, keys,
targets and bounds:

* **`OnboardingTypeCorrect`**: `Spec => []TypeOK`.
* **`CommitsAreBacked`**: `Spec => []StateBacked`. `CommitBacked` carries the
  log and the reconciliation from the query that opens NB10 to its commit;
  nothing takes either back.

and, under the further hypothesis `CleanHandoff`,

* **`SeedNeverAhead`**: `Spec => []SeedCovers`.

`CleanHandoff` says that `Lag = 0`, that no table is read in partitions (or there is
one partition only) and that no two rows share a target. The second is needed by finding 2, the first by the
ties above, the third because a shared target is overwritten with the rows of
another source. `SeedCovers` is not inductive: `CommitState` moves the
checkpoint and touches no data. `SeedInv` adds

* `TargetComplete`: everything up to the newest row of a target is in it, so the
  MAX that `ReadSeed` takes is covered (`SeedReady`);
* `ExtractComplete`: the cached extract holds every row that was visible when it
  was read, or the row has been lifted above the horizon since. Overwriting a
  target with it therefore also keeps what an earlier seed covers;
* `BelowHorizon`: neither a seed nor a loaded row is newer than the latest read.

It also proves, again from `OnboardingAssumption` alone, with repairs:

* **`ReviewsAgree`**: `Spec => []ReviewQueueAgrees`. NB07 queues what its mappings
  block before it resolves the others (`DecidedByMappings`), and starts over when it
  is repeated, so nothing an interrupted NB07 left behind survives.
* **`SuccessMeansCommitted`**: `Spec => LoadsAreCommitted`. What a run has logged is
  reconciled when its NB10 starts (`ReconciledFirst`). While NB10 runs, each load it
  logged of a table that may migrate is still to do, in hand, failed or committed under
  its run_id (`CommitsInHand`); nothing changes a decision meanwhile, and
  whatever newer runs have put into the control row is overwritten. Where NB12 or NB10
  may lose its run_id the property says nothing, and the proof splits on that.
* **`ChecksStand`**: `Spec => ChecksReachLoad`.

NB08 checks once, over the rows it has collected, and NB09 collects its own rows
later, in the same run or in a repair of it, possibly after newer runs; it looks
neither at the status of a mapping nor at the targets of its other rows. What carries
the checks over is `ProvisionedSoFar` (while NB08 has failed on nothing, what it is done
with has its mappings and, among the rows it collected, its target for itself) and
`ChecksHold`, which says the same of `checked` for ever after: a run that is past NB08
never writes mappings again (`CheckedIsPast`), and a newer run writes only its own.
The theorem needs no hypothesis on edits or repairs, and it says nothing of rows
NB08 has not seen: section 3 describes how those come to be loaded.

`PipelinesProofs` proves, from `PipelinesAssumption` (strategies are strategies,
bounds are naturals, `NoTable` is no table) and `"load" \in Apart`, for any tables,
keys and bounds:

* **`PipelinesCover`**: `Spec => []CheckpointCovers`, if no table is WATERMARK.
* **`PipelinesReplica`**: `Spec => IsCheckpointedReplica`, whatever the strategies.

Nothing else has to be kept apart for these tables: NB10 may reseed one while NB11b
applies it. The first hypothesis is needed by what section 3 says of `Apart = {}`,
the second because an interval replacement that fails between its two commits
leaves a gap, which a seed by NB10 (section 3) or a repair (finding 1) skips for
good. TLC finds these violations.

A checkpoint of `Pipelines` moves in three ways, and none of them touches data:
NB10 seeds it, NB11b advances it, a repaired NB11b puts an older bound back. So
`CoverInv` says that every number that is a checkpoint or may become one is
`Kept`: not above the horizon, and covered by the target. These are

* the checkpoint itself, what NB11a has seen of it, the lower bounds that are staged
  or queued (`BoundsKept`), and the upper bound of an interval once it is merged
  (`WrittenKept`);
* the seed NB10 has read (`SeedKept`) and, since NB10 reads MAX of the target, the stamp
  of every stored row (`RowsKept`, which also says that a key has one version);

and, for the data in a notebook's memory, that NB09's extract and NB11b's slice are
complete up to the horizon (`ExtractComplete`, `SliceCurrent`): a row that has changed
since it was read carries a stamp above it. That is why an overwrite by NB09 keeps
what a sync had covered, and a MERGE what a load had. While NB09 is between its
read and its overwrite the horizon stands still, because only NB11a and NB09 move
it and NB11a is apart. Tables without a watermark never get a checkpoint
(`Unmarked`).

The refinement maps the overwrite of NB09 to a `Reload` (`ReloadMaps`), the MERGE of NB11b
to a `CatchUp` (`MergeMaps`), a source write to a `Change` (`ChangeMaps`), and every step
that writes no rows to a `Reposition` or a stutter (`LoadReached`, `SyncReached`,
`CursorMaps`). It needs no hypothesis about WATERMARK tables: they are not merged,
and what happens to them leaves the replica alone (`OtherTargets`).

`WatermarksProofs` proves, from `WatermarksAssumption`, for any rows, any number of
instants in a microsecond and any tick of a DATE:

* **`WatermarksTypeCorrect`**: `Spec => []TypeOK`.
* **`NeverTwice`**: `Spec => []NoCopies`, if TIMESTAMP(9) is not among the families.
* **`NeverSkipped`**: `Spec => []NothingSkipped`, if moreover no row gets the stamp of a
  maximum after it was captured (`~Ties`).
* **`RunsAreComplete`**: `Spec => []RunIsComplete`, under the same two hypotheses.

The argument is that every precision a watermark passes through is monotone, and
that for all families but TIMESTAMP(9) the literal of a checkpoint is the checkpoint
(`Placed`), so the interval that Delta deletes is the one that was read. The invariants
are in three layers. `TypeInv` adds to the types what each phase says of the checkpoint
and the interval (`Phased`). `CopiesInv` adds to `NoCopies` and `Placed` that the interval
is empty between DELETE and append (`Cleared`) and that the slice lies in it
(`SliceBetween`). `CursorInv` says that the greatest captured stamp divides the
rows into those that were there then and those written since (`Cursor`, `Divided`),
that rows up to the checkpoint are stored (`Settled`), and that the slice, and later the
target, has every row of the interval (`SliceComplete`, `SliceOld`, `Complete`).

The attempt at `TypeOK` showed that the checkpoint may exceed the source's clock:
`CAST AS datetime2(6)` rounds to the nearest microsecond, so a MAX in its second
half is stored up to half a microsecond ahead of the moment it was taken. `TypeOK`
(`Checkpoints`) allows for that rounding and for no more.

`ColumnsProofs` proves, from `ColumnsAssumption` alone (the columns are finitely many
and their shapes are those a catalog of the dialect can report), for any columns
and any alterations:

* **`ColumnsTypeCorrect`**: `Spec => []TypeOK`.
* **`MapperIsLegal`**: `Spec => []LegalTypes`.
* **`MapperKeepsMagnitude`**: `Spec => []MagnitudeKept`.
* **`NB01KeepsCursor`**: `Spec => CursorStays`.
* **`CursorArrivesTemporal`**: `Spec => CursorIsReadable`.

Two of them lift lemmas about `MapNumber` and `MapDecimal` for every precision
and scale through the rule tables and NB03's policy. `NB01KeepsCursor` needs
`TemporalFamilies`: the types that are dates or timestamps in the mapper's tables
are those the watermark policies accept, in each dialect. `CursorArrivesTemporal`
needs the converse and that the column NB01 picks is one of those it ranked, so
that a best one exists. That a finite ranking has a least element (`FiniteLeast`) is
not an induction over data here: strict inclusion of finite sets is well-founded
by a theorem of the library, so among the sets of columns without a least element
there would be a smallest one, and taking a column from it gives the element.

`SourceIdentityProofs` proves, from the assumptions on texts, rows, seeds and
bounds, for any texts, any `Trim` and `Lower` and any registrations:

* **`TypeCorrect`**: `Spec => []TypeOK`: ids are made of a supported system and
  of names that are not blank.
* **`IdsAreOwn`**: `Spec => []IdentifiesItself`.
* **`SourcesAreKeptApart`**: `Spec => []RecordsOwnSource`.
* **`NeverSeededTwice`**: `Spec => SeedsOnce`.
* **`IdsNeverChange`**: `Spec => IdsAreFinal`.
* **`EveryRowAnswers`**: `Spec => []HandledRowsAnswer`.

The invariant says that a row with an id `Agrees`: its id is the one its columns
give, what is recorded in it was read from the source of that id, and the same
holds for every collected row. The argument for the backfill is that it writes
id and system together, so the id stays the row's own even where the system
changes (`BackfilledKept`); for the rows NB01 reaches, that equal ids mean equal
sources (`RecordedKept`). `SeedInv` adds for the seeds that, while NB00 backfills, a
row it must give an id to still has a collected row at its place, so none is left
when the MERGE compares ids. `SeededInv` adds for the ids that a seed in the table has the
id NB00 gave it, so seeding again does not touch it; the backfill spares rows with an
id, and what NB01 writes by identity is the id that is there (`IdentifyKeeps`).
`HandledInv`, for the answers, says of each row NB01 has been through that it has its
outcome, or is one of the two exceptions of the property, or something NB01 still
holds will reach it: a collected row or the row in hand with its id, or with its
place while it has none. An UPDATE gives answers and takes none back, and an id that
is there is never replaced by another (`IdentifyKeeps`).

Every strengthening was checked with TLC on the instances of the safety runs
before it was proved.

Only model-checked:

* `CatchesUp` and `Onboards`, whose fairness is out of the prover's reach;
* `CheckpointCovers` of `Pipelines` for WATERMARK tables (no run has one there).

Every other property of a run that passes is stated by a theorem.

## 5. Not modelled

* Connection tests, JDBC options, SQL quoting and rendering, and the adapters'
  dispatch are input and output without a state of their own. NB04 writes findings
  that nothing reads.
* `partitioning`: pure functions that decide how a read is split. Spark leaves the
  first and the last range of a JDBC read open, so no bound of theirs adds or
  loses a row; a wrong one costs time. What partitions do to the data, being read
  at different moments, is `Partitioned` and `Parts` in `Onboarding`.
* Schema drift: NB09 and NB11b select the columns approved over all runs
  (NB11a:126) and cast them to the target that NB08 created first. A column that
  was dropped at the source fails the extract; a type that changed is cast. No
  line of the repository says what should happen, and the failure is one that
  `ApplyFails` has.
* Time zones: every family with a time zone is REVIEW and is not loaded by JOB01
  as it stands.
* NULL watermarks and source transactions that commit late: what is lost then
  follows from the query alone, and no line of the repository says otherwise.

## 6. Plan

In this order:

1. `CheckpointCovers` of `Pipelines` for WATERMARK tables, without repairs and with
   `{"load", "recon", "commit"} \subseteq Apart`: the interval that is empty between
   DELETE and append joins `CoverInv`, and so does that the rows NB09 has loaded are
   not above the horizon until NB10 has read MAX of them.
