------------------------------ MODULE Onboarding ------------------------------
(***************************************************************************)
(* JOB01_ONBOARD_AND_FULL_LOAD: NB01 reads the source metadata, NB02 and    *)
(* NB03 derive the column mappings, NB07 decides per table, NB08 provisions *)
(* the targets, NB09 overwrites them with a full extract, NB12 in mode=full *)
(* compares the logged counts and NB10 commits the initial state and seeds  *)
(* the watermark.  The source keeps changing, every write may fail, the     *)
(* driver may die, and any failed run may be repaired under its run_id, an  *)
(* older one after newer ones too.                                          *)
(*                                                                         *)
(* A row is its primary key and its watermark stamp.  The columns of a      *)
(* table are one item with the verdict of its worst column.                 *)
(***************************************************************************)
EXTENDS Integers, FiniteSets

LOCAL INSTANCE FiniteSetsExt

CONSTANTS
    Tables,          \* rows of source_table_control
    Keys,            \* primary keys of source rows
    Targets,         \* fully qualified target names
    TargetOf,        \* TargetOf[t]: the name the row of t resolves to
    Detected,        \* Detected[t]: the strategy NB01 detects for t
    Partitioned,     \* tables read in partitions: one integral primary-key column
    Parts,           \* JDBC partitions of such a read
    PartOf,          \* PartOf[k]: the partition that reads key k
    Metadata,        \* verdicts the source columns may lead to
    Lag,             \* how far a new stamp may be behind what is visible
    NoTable,         \* no table is being handled
    Repairs,         \* may an operator repair failed runs?
    LostRunIds,      \* the tasks that may fail to read the task values
    \* Bounds on otherwise unbounded counters.
    MaxStamp,        \* watermark stamps the source hands out
    MaxRuns,         \* runs of the job
    MaxFaults,       \* failures
    MaxEdits         \* operator edits of is_active

Strategies == {"FULL_LOAD", "WATERMARK", "PRIMARY_KEY", "HYBRID"}
Verdicts   == {"AUTO", "REVIEW", "BLOCKED"}
Tasks == {"inventory", "normalize", "map", "decide", "provision", "load", "recon", "commit"}

ASSUME OnboardingAssumption ==
    /\ TargetOf \in [Tables -> Targets]
    /\ Detected \in [Tables -> Strategies]
    /\ Partitioned \subseteq {t \in Tables : Detected[t] \in {"PRIMARY_KEY", "HYBRID"}}
    /\ PartOf \in [Keys -> Parts]
    /\ Metadata \subseteq Verdicts
    /\ Lag \in Nat
    /\ NoTable \notin Tables
    /\ Repairs \in BOOLEAN /\ LostRunIds \subseteq Tasks
    /\ MaxStamp \in Nat /\ MaxRuns \in Nat /\ MaxFaults \in Nat /\ MaxEdits \in Nat

NULL     == -1                \* an absent watermark
Stamps   == 1 .. MaxStamp
Versions == 0 .. MaxStamp     \* 0: no row
Marks    == -1 .. MaxStamp    \* 0: the 1900-01-01 bootstrap checkpoint
Runs     == 1 .. MaxRuns

VARIABLES
    \* The source database.
    source,    \* source[t][k]: the stamp of the row with key k, 0 if none
    horizon,   \* horizon[t]: the largest stamp visible at the latest read of t
    \* Unity Catalog: the target tables and the control schema.
    target,    \* target[x][k][s]: how many rows of key k and stamp s
    control,   \* is_active, last_watermark_value, last_successful_run_id
    setup,     \* initial_load_completed, table_decision, load_strategy
    review,    \* review_queue: review_status
    columns,   \* columns[r]: rows of run r in the three column tables, by verdict
    log,       \* table_run_log: the <<run, table>> loads logged SUCCEEDED
    passed,    \* reconciliation_results: the <<run, table>> with ROW_COUNT PASS
    \* The job scheduler.
    phase,     \* the task that is running
    run,       \* the run_id it has, or the last task had
    started,   \* runs started
    halted,    \* halted[r]: the task at which run r stopped, if it failed
    succeeded, \* the runs that succeeded
    checked,   \* checked[r]: the rows NB08 of run r was through with (auxiliary)
    \* Driver memory of the notebook that is running.
    step,      \* its next statement
    rows,      \* the rows it collected
    todo,      \* those its loop has not reached
    staged,    \* NB01: inventory_rows
    current,   \* NB09, NB10: the table being handled
    pending,   \* NB09: partitions not read yet
    slice,     \* NB09: the cached extract
    seed,      \* NB10: the watermark to commit
    failed,    \* failed > 0
    \* Budgets.
    faults, edits

sourceVars == <<source, horizon>>
storeVars  == <<target, control, setup, review, columns, log, passed>>
jobVars    == <<phase, run, started, halted, succeeded, checked>>
loopVars   == <<step, rows, todo>>
itemVars   == <<current, pending, slice, seed>>
vars == <<sourceVars, storeVars, jobVars, loopVars, staged, itemVars, failed, faults, edits>>

-----------------------------------------------------------------------------

\* depends_on of JOB01.  NB04 only writes findings nobody reads.
Following == [inventory |-> "normalize", normalize |-> "map", map |-> "decide",
              decide |-> "provision", provision |-> "load", load |-> "recon",
              recon |-> "commit", commit |-> "idle"]

\* The statement after which a notebook is done.
LastStep == [inventory |-> "written", normalize |-> "written", map |-> "written",
             decide |-> "resolved", provision |-> "loop", load |-> "loop",
             recon |-> "written", commit |-> "loop"]

Layers    == {"inventory", "normalized", "mapped"}
NoColumns == [t \in Tables |-> [v \in Verdicts |-> 0]]
NoSlice   == [k \in Keys |-> 0]

Added(b, c) == [t \in Tables |-> [v \in Verdicts |-> b[t][v] + c[t][v]]]

\* How often the columns of t stand in the mappings of run r.
AllOf(count) == MapThenSumSet(LAMBDA v : count[v], Verdicts)
Copies(r, t) == AllOf(columns[r].mapped[t])

Temporal(t) == setup[t].strategy \in {"WATERMARK", "HYBRID"}

Holding(sl) == [k \in Keys |-> [s \in Stamps |-> IF sl[k] = s THEN 1 ELSE 0]]

\* m is the largest member of S, 0 if there is none.
IsMax(m, S) == m \in S \cup {0} /\ \A n \in S : n <= m

SourceStamps(t) == {source[t][k] : k \in Keys}
TargetStamps(x) == {s \in Stamps : \E k \in Keys : target[x][k][s] > 0}
TargetRows(x) == MapThenSumSet(LAMBDA r : target[x][r[1]][r[2]], Keys \X Stamps)

Fault == faults < MaxFaults /\ faults' = faults + 1

Init ==
    /\ source \in [Tables -> [Keys -> Versions]]
    /\ horizon = [t \in Tables |-> 0]
    /\ target = [x \in Targets |-> Holding(NoSlice)]
    /\ control = [t \in Tables |-> [active |-> TRUE, last |-> NULL, run |-> 0]]
    /\ setup = [t \in Tables |-> [loaded |-> FALSE, decision |-> "NONE", strategy |-> "NONE"]]
    /\ review = [t \in Tables |-> "NONE"]
    /\ columns = [r \in Runs |-> [l \in Layers |-> NoColumns]]
    /\ log = {} /\ passed = {}
    /\ phase = "idle" /\ run = 0 /\ started = 0 /\ succeeded = {}
    /\ halted = [r \in Runs |-> "none"] /\ checked = [r \in Runs |-> {}]
    /\ step = "loop" /\ rows = {} /\ todo = {} /\ staged = NoColumns
    /\ current = NoTable /\ pending = {} /\ slice = NoSlice /\ seed = NULL
    /\ failed = FALSE /\ faults = 0 /\ edits = 0

-----------------------------------------------------------------------------
(* The environment.  With Lag = 0 a row that becomes visible after a read   *)
(* carries a larger stamp than everything that was visible then.  Lag = 1   *)
(* admits ties (coarse stamps); a larger Lag admits late commits.           *)

SourceWrite(t) ==
    /\ \E k \in Keys, s \in Stamps :
          /\ s > horizon[t] - Lag /\ s # source[t][k]
          /\ source' = [source EXCEPT ![t][k] = s]
    /\ UNCHANGED <<horizon, storeVars, jobVars, loopVars, staged, itemVars, failed,
                   faults, edits>>

SourceDelete(t) ==
    /\ \E k \in Keys : source[t][k] # 0 /\ source' = [source EXCEPT ![t][k] = 0]
    /\ UNCHANGED <<horizon, storeVars, jobVars, loopVars, staged, itemVars, failed,
                   faults, edits>>

EditActive(t) ==
    /\ edits < MaxEdits
    /\ edits' = edits + 1
    /\ control' = [control EXCEPT ![t].active = ~@]
    /\ UNCHANGED <<sourceVars, target, setup, review, columns, log, passed, jobVars,
                   loopVars, staged, itemVars, failed, faults>>

-----------------------------------------------------------------------------
(* Tasks.  A notebook collects its rows once, loops over them and writes.   *)

Approved == {t \in Tables : control[t].active /\ setup[t].decision = "AUTO_MIGRATE"}

\* Mutation: NB10 looks at the decision only.
AllApproved(r) == {t \in Tables : setup[t].decision = "AUTO_MIGRATE"}

\* Loads of run r with a ROW_COUNT PASS.  A FAIL needs a load logged
\* SUCCEEDED with unequal counts, which NB09 never writes.
Committable(r) == {t \in Tables : /\ <<r, t>> \in log /\ <<r, t>> \in passed
                                  /\ setup[t].decision = "AUTO_MIGRATE"}

Collected(p, r) ==
    CASE p = "inventory" -> {t \in Tables : control[t].active}
      [] p = "decide"    -> {t \in Tables : Copies(r, t) > 0}
      [] p \in {"provision", "load"} -> Approved
      [] p = "commit"    -> Committable(r)
      [] OTHER           -> {}

\* A task of run r starts, or none.
Enter(p, r) == /\ phase' = p /\ step' = "loop" /\ run' = r
               /\ rows' = Collected(p, r) /\ todo' = Collected(p, r)

\* Mutation: a run finds the column rows of the run before it.
StartRunOverOldRows ==
    /\ phase = "idle" /\ started < MaxRuns
    /\ started' = started + 1
    /\ Enter("inventory", started + 1)
    /\ columns' = [columns EXCEPT ![started + 1] = IF started = 0 THEN @ ELSE columns[started]]
    /\ UNCHANGED <<sourceVars, target, control, setup, review, log, passed, halted,
                   succeeded, checked, staged, itemVars, failed, faults, edits>>

StartRun ==
    /\ phase = "idle" /\ started < MaxRuns
    /\ started' = started + 1
    /\ Enter("inventory", started + 1)
    /\ UNCHANGED <<sourceVars, storeVars, halted, succeeded, checked, staged, itemVars,
                   failed, faults, edits>>

Finished == /\ phase # "idle" /\ step = LastStep[phase]
            /\ todo = {} /\ current = NoTable

\* The notebook exits; the next task starts.
NextTask ==
    /\ Finished /\ ~failed
    /\ Enter(Following[phase], run)
    /\ succeeded' = IF phase = "commit" THEN succeeded \cup {run} ELSE succeeded
    /\ checked' = IF phase = "provision" THEN [checked EXCEPT ![run] = rows] ELSE checked
    /\ UNCHANGED <<sourceVars, storeVars, started, halted, staged, itemVars, failed,
                   faults, edits>>

\* The notebook raises because some of its tables failed.
StopTask ==
    /\ Finished /\ failed
    /\ Enter("idle", run) /\ halted' = [halted EXCEPT ![run] = phase] /\ failed' = FALSE
    /\ UNCHANGED <<sourceVars, storeVars, started, succeeded, checked, staged, itemVars,
                   faults, edits>>

\* The statement at step from is done.
Advances(p, from, to) ==
    /\ phase = p /\ step = from /\ step' = to
    /\ UNCHANGED <<sourceVars, jobVars, rows, itemVars, faults, edits>>

\* The loop is done with t.
Passes(p, t) ==
    /\ phase = p /\ step = "loop" /\ current = NoTable
    /\ t \in todo /\ todo' = todo \ {t}
    /\ UNCHANGED <<jobVars, rows, step>>

-----------------------------------------------------------------------------
(* NB01 to NB03: the columns of a table.                                   *)

Stages(t) == \E v \in Metadata : staged' = [staged EXCEPT ![t][v] = @ + 1]
Detects(t) == setup' = [setup EXCEPT ![t].strategy = Detected[t]]

InventoryTable(t) ==
    /\ Passes("inventory", t)
    /\ Stages(t) /\ Detects(t)
    /\ UNCHANGED <<sourceVars, target, control, review, columns, log, passed, itemVars,
                   failed, faults, edits>>

\* The columns are staged before the control row is updated, so a failure
\* leaves either, both or none; the run does not fail.
InventoryFails(t) ==
    /\ Passes("inventory", t) /\ Fault
    /\ Stages(t) \/ UNCHANGED staged
    /\ Detects(t) \/ UNCHANGED setup
    /\ UNCHANGED <<sourceVars, target, control, review, columns, log, passed, itemVars,
                   failed, edits>>

WriteInventory ==
    /\ Advances("inventory", "loop", "written") /\ todo = {}
    /\ columns' = [columns EXCEPT ![run].inventory = Added(@, staged)]
    /\ staged' = NoColumns
    /\ UNCHANGED <<target, control, setup, review, log, passed, todo, failed>>

Normalize ==
    /\ Advances("normalize", "loop", "written")
    /\ columns' = [columns EXCEPT ![run].normalized = Added(@, columns[run].inventory)]
    /\ UNCHANGED <<target, control, setup, review, log, passed, todo, staged, failed>>

MapColumns ==
    /\ Advances("map", "loop", "written")
    /\ columns' = [columns EXCEPT ![run].mapped = Added(@, columns[run].normalized)]
    /\ UNCHANGED <<target, control, setup, review, log, passed, todo, staged, failed>>

-----------------------------------------------------------------------------
(* NB07_TableDecisionGeneration                                            *)

Decision(t) == IF columns[run].mapped[t]["BLOCKED"] > 0 THEN "BLOCKED"
               ELSE IF columns[run].mapped[t]["REVIEW"] > 0 THEN "MANUAL_REVIEW"
               ELSE "AUTO_MIGRATE"

DecideTable(t) ==
    /\ Passes("decide", t)
    /\ setup' = [setup EXCEPT ![t].decision = Decision(t)]
    /\ UNCHANGED <<sourceVars, target, control, review, columns, log, passed, staged,
                   itemVars, failed, faults, edits>>

\* The two MERGEs into review_queue.
QueueReviews ==
    /\ Advances("decide", "loop", "queued") /\ todo = {}
    /\ review' = [t \in Tables |-> IF t \in rows /\ Decision(t) # "AUTO_MIGRATE"
                                   THEN "PENDING_REVIEW" ELSE review[t]]
    /\ UNCHANGED <<target, control, setup, columns, log, passed, todo, staged, failed>>

\* Mutation: resolved tables stay in the queue.
KeepReviews ==
    /\ Advances("decide", "queued", "resolved")
    /\ UNCHANGED <<storeVars, todo, staged, failed>>

ResolveReviews ==
    /\ Advances("decide", "queued", "resolved")
    /\ review' = [t \in Tables |-> IF /\ t \in rows /\ Decision(t) = "AUTO_MIGRATE"
                                      /\ review[t] # "NONE"
                                   THEN "RESOLVED" ELSE review[t]]
    /\ UNCHANGED <<target, control, setup, columns, log, passed, todo, staged, failed>>

-----------------------------------------------------------------------------
(* NB08_TargetProvisioning                                                 *)

\* Mutation: no collision guard.
NeverCollides(t) == FALSE

Collides(t) == \E u \in rows \ {t} : TargetOf[u] = TargetOf[t]

\* Mutation: the statuses of the mappings are not looked at.
MappedOnce(t) == Copies(run, t) = 1

\* The mappings of this run exist, all of them AUTO; CREATE TABLE does not
\* accept a column twice.
Provisionable(t) == columns[run].mapped[t]["AUTO"] = 1 /\ Copies(run, t) = 1

\* The target exists after it (CREATE IF NOT EXISTS), its rows unchanged.
ProvisionTable(t) ==
    /\ Passes("provision", t)
    /\ failed' = (failed \/ Collides(t) \/ ~Provisionable(t))
    /\ UNCHANGED <<sourceVars, storeVars, staged, itemVars, faults, edits>>

-----------------------------------------------------------------------------
(* NB09_FullLoad                                                           *)

BeginLoad(t) ==
    /\ phase = "load" /\ step = "loop" /\ current = NoTable
    /\ t \in todo /\ Copies(run, t) = 1
    /\ todo' = todo \ {t}
    /\ current' = t /\ step' = "read"
    /\ pending' = Parts
    /\ UNCHANGED <<sourceVars, storeVars, jobVars, rows, staged, slice, seed, failed,
                   faults, edits>>

\* No mappings under this run_id, or repeated ones: NB08 has not seen the row.
RejectLoad(t) ==
    /\ Passes("load", t) /\ Copies(run, t) # 1
    /\ failed' = TRUE
    /\ UNCHANGED <<sourceVars, storeVars, staged, itemVars, faults, edits>>

\* Each JDBC partition is a query of its own; other tables are read by one.
ReadTogether(t, p) == IF t \in Partitioned THEN {p} ELSE Parts

ReadPartition(t) ==
    /\ current = t /\ step = "read"
    /\ \E p \in pending :
          /\ pending' = pending \ ReadTogether(t, p)
          /\ slice' = [k \in Keys |-> IF PartOf[k] \in ReadTogether(t, p)
                                      THEN source[t][k] ELSE slice[k]]
          /\ step' = IF pending' = {} THEN "overwrite" ELSE "read"
    /\ \E m \in Versions :
          /\ IsMax(m, SourceStamps(t))
          /\ horizon' = [horizon EXCEPT ![t] = IF m > @ THEN m ELSE @]
    /\ UNCHANGED <<source, storeVars, jobVars, rows, todo, staged, current, seed, failed,
                   faults, edits>>

OverwriteTarget(t) ==
    /\ phase = "load" /\ current = t /\ step = "overwrite"
    /\ target' = [target EXCEPT ![TargetOf[t]] = Holding(slice)]
    /\ step' = "log"
    /\ UNCHANGED <<sourceVars, control, setup, review, columns, log, passed, jobVars,
                   rows, todo, staged, itemVars, failed, faults, edits>>

EndsItem(t) ==
    /\ current = t /\ current' = NoTable /\ step' = "loop"
    /\ pending' = {} /\ slice' = NoSlice /\ seed' = NULL
    /\ UNCHANGED <<sourceVars, target, setup, review, columns, passed, jobVars, rows, todo,
                   staged, edits>>

\* SUCCEEDED if the target has as many rows as the cached extract.
LogLoad(t) ==
    /\ phase = "load" /\ step = "log" /\ EndsItem(t)
    /\ IF TargetRows(TargetOf[t]) = Cardinality({k \in Keys : slice[k] # 0})
       THEN log' = log \cup {<<run, t>>} /\ UNCHANGED failed
       ELSE failed' = TRUE /\ UNCHANGED log
    /\ UNCHANGED <<control, faults>>

\* Any statement raises; the last one may have taken effect.
LoadFails(t) ==
    /\ phase = "load" /\ EndsItem(t) /\ Fault
    /\ failed' = TRUE
    /\ \/ UNCHANGED log
       \/ step = "log" /\ log' = log \cup {<<run, t>>}
    /\ UNCHANGED control

-----------------------------------------------------------------------------
(* NB12 in mode=full and NB10_PostFullLoadState                            *)

Reconcile ==
    /\ Advances("recon", "loop", "written")
    /\ passed' = passed \cup {e \in log : e[1] = run}
    /\ UNCHANGED <<target, control, setup, review, columns, log, todo, staged, failed>>

\* Mutation: the seed is the source's MAX when NB10 runs.
ReadSourceSeed(t) ==
    /\ phase = "commit" /\ step = "loop" /\ current = NoTable
    /\ t \in todo /\ todo' = todo \ {t}
    /\ current' = t /\ step' = "commit"
    /\ \E m \in Versions : /\ IsMax(m, SourceStamps(t))
                            /\ seed' = IF Temporal(t) THEN m ELSE NULL
    /\ UNCHANGED <<sourceVars, storeVars, jobVars, rows, staged, pending, slice, failed,
                   faults, edits>>

\* Mutation: the seed is the first value that is not loaded.
ReadNextSeed(t) ==
    /\ phase = "commit" /\ step = "loop" /\ current = NoTable
    /\ t \in todo /\ todo' = todo \ {t}
    /\ current' = t /\ step' = "commit"
    /\ \E m \in Versions : /\ IsMax(m, TargetStamps(TargetOf[t]))
                            /\ seed' = IF Temporal(t) THEN m + 1 ELSE NULL
    /\ UNCHANGED <<sourceVars, storeVars, jobVars, rows, staged, pending, slice, failed,
                   faults, edits>>

\* The seed is MAX of the loaded target, not of the source.
ReadSeed(t) ==
    /\ phase = "commit" /\ step = "loop" /\ current = NoTable
    /\ t \in todo /\ todo' = todo \ {t}
    /\ current' = t /\ step' = "commit"
    /\ \E m \in Versions : /\ IsMax(m, TargetStamps(TargetOf[t]))
                            /\ seed' = IF Temporal(t) THEN m ELSE NULL
    /\ UNCHANGED <<sourceVars, storeVars, jobVars, rows, staged, pending, slice, failed,
                   faults, edits>>

Committed(t) ==
    /\ control' = [control EXCEPT ![t].last = seed, ![t].run = run]
    /\ setup' = [setup EXCEPT ![t].loaded = TRUE]

EndsCommit(t) ==
    /\ phase = "commit" /\ current = t /\ step = "commit"
    /\ current' = NoTable /\ step' = "loop" /\ seed' = NULL
    /\ UNCHANGED <<sourceVars, target, review, columns, log, passed, jobVars, rows, todo,
                   staged, pending, slice, edits>>

CommitState(t) ==
    /\ EndsCommit(t) /\ Committed(t)
    /\ UNCHANGED <<failed, faults>>

\* Mutation: the failure is not counted.
CommitFailsUncounted(t) ==
    /\ EndsCommit(t) /\ Fault
    /\ UNCHANGED failed
    /\ Committed(t) \/ UNCHANGED <<control, setup>>

CommitFails(t) ==
    /\ EndsCommit(t) /\ Fault
    /\ failed' = TRUE
    /\ Committed(t) \/ UNCHANGED <<control, setup>>

-----------------------------------------------------------------------------
(* Lost run ids, crashes and repairs.                                      *)

\* get_run_id invents a run_id: a notebook finds nothing of this run.  NB08
\* and NB09 fail on every row, NB01 writes its rows elsewhere, the others
\* succeed without doing anything.
LoseRunId ==
    /\ phase \in LostRunIds /\ step = "loop" /\ current = NoTable /\ ~failed
    /\ IF phase = "inventory" THEN todo = {} ELSE todo = rows
    /\ Fault
    /\ failed' = (phase \in {"provision", "load"} /\ todo # {})
    /\ rows' = {} /\ todo' = {} /\ step' = LastStep[phase] /\ staged' = NoColumns
    /\ UNCHANGED <<sourceVars, storeVars, jobVars, itemVars, edits>>

Crash ==
    /\ phase # "idle" /\ Fault
    /\ Enter("idle", run) /\ halted' = [halted EXCEPT ![run] = phase]
    /\ staged' = NoColumns /\ failed' = FALSE
    /\ current' = NoTable /\ pending' = {} /\ slice' = NoSlice /\ seed' = NULL
    /\ UNCHANGED <<sourceVars, storeVars, started, succeeded, checked, edits>>

\* The failed task of run r runs again under its run_id, then the tasks that
\* depend on it, whatever newer runs have decided and loaded since.
RepairRun(r) ==
    /\ Repairs
    /\ phase = "idle" /\ halted[r] # "none"
    /\ Enter(halted[r], r) /\ halted' = [halted EXCEPT ![r] = "none"]
    /\ UNCHANGED <<sourceVars, storeVars, started, succeeded, checked, staged, itemVars,
                   failed, faults, edits>>

-----------------------------------------------------------------------------

Environment == \E t \in Tables : SourceWrite(t) \/ SourceDelete(t) \/ EditActive(t)

Job ==
    \/ StartRun \/ NextTask \/ StopTask
    \/ WriteInventory \/ Normalize \/ MapColumns
    \/ QueueReviews \/ ResolveReviews \/ Reconcile
    \/ \E t \in Tables :
          \/ InventoryTable(t) \/ DecideTable(t) \/ ProvisionTable(t)
          \/ BeginLoad(t) \/ RejectLoad(t) \/ ReadPartition(t)
          \/ OverwriteTarget(t) \/ LogLoad(t)
          \/ ReadSeed(t) \/ CommitState(t)

Failure ==
    \/ LoseRunId \/ Crash
    \/ \E t \in Tables : InventoryFails(t) \/ LoadFails(t) \/ CommitFails(t)

Next == Environment \/ Job \/ Failure \/ \E r \in Runs : RepairRun(r)

Spec == Init /\ [][Next]_vars

\* A running task makes progress, and the job is started again as long as runs
\* are left: an operator who only repairs the same run may do so forever, since
\* a column appended twice stays in the mappings of its run_id.
FairSpec == Spec /\ WF_vars(Job) /\ SF_vars(StartRun)

-----------------------------------------------------------------------------
(* Properties.                                                             *)

Setup == [loaded : BOOLEAN, decision : {"NONE", "AUTO_MIGRATE", "MANUAL_REVIEW", "BLOCKED"},
          strategy : Strategies \cup {"NONE"}]
ColumnRows == [Tables -> [Verdicts -> Nat]]

TypeOK ==
    /\ source \in [Tables -> [Keys -> Versions]]
    /\ horizon \in [Tables -> Versions]
    /\ target \in [Targets -> [Keys -> [Stamps -> Nat]]]
    /\ control \in [Tables -> [active : BOOLEAN, last : Marks, run : 0 .. MaxRuns]]
    /\ setup \in [Tables -> Setup]
    /\ review \in [Tables -> {"NONE", "PENDING_REVIEW", "RESOLVED"}]
    /\ columns \in [Runs -> [Layers -> ColumnRows]] /\ staged \in ColumnRows
    /\ log \subseteq Runs \X Tables /\ passed \subseteq Runs \X Tables
    /\ phase \in Tasks \cup {"idle"} /\ halted \in [Runs -> Tasks \cup {"none"}]
    /\ run \in 0 .. started /\ started \in 0 .. MaxRuns /\ succeeded \subseteq Runs
    /\ checked \in [Runs -> SUBSET Tables]
    /\ step \in {"loop", "written", "queued", "resolved", "read", "overwrite", "log", "commit"}
    /\ rows \subseteq Tables /\ todo \subseteq rows
    /\ current \in Tables \cup {NoTable} /\ pending \subseteq Parts
    /\ slice \in [Keys -> Versions] /\ seed \in Marks
    /\ failed \in BOOLEAN /\ faults \in 0 .. MaxFaults /\ edits \in 0 .. MaxEdits

\* Every source row with a stamp up to b is in t's target, in its version.
Covered(t, b) ==
    \A k \in Keys : source[t][k] # 0 /\ source[t][k] <= b
                     => target[TargetOf[t]][k][source[t][k]] > 0

\* The handoff skips no row (NB10: seeding from the loaded target "prevents rows
\* arriving at the source after the full-load read from being skipped"): JOB02
\* asks only for rows above the seed, so everything up to it must be loaded, at
\* every later moment and through every re-run of the job.
SeedCovers == \A t \in Tables : Covered(t, control[t].last)

\* What NB08 has checked for a run holds when NB09 overwrites a target: the row
\* is mapped AUTO and no other checked row has its target, whatever crashes,
\* newer runs and repairs came in between.  NB09 relies on it: it looks at no
\* mapping_status and at no other row.  Rows NB08 has not seen are not covered.
ChecksReachLoad ==
    [][\A t \in Tables : OverwriteTarget(t) /\ t \in checked[run] =>
          /\ columns[run].mapped[t]["AUTO"] = 1
          /\ \A u \in checked[run] \ {t} : TargetOf[u] # TargetOf[t]]_vars

\* NB10 "commits bootstrap state AFTER a successful, validated full load": the
\* run a control row names logged the load and reconciled it.
StateBacked ==
    \A t \in Tables : control[t].run # 0 =>
        /\ <<control[t].run, t>> \in log \cap passed
        /\ setup[t].loaded

\* A run that succeeds commits every load it has logged, through failures and
\* repairs, and of tables a newer run has taken over as well; unless it may not
\* migrate now (NB10: "only AUTO_MIGRATE tables [...] are eligible"), or NB12 or
\* NB10 lost its run_id: they find nothing to do then and succeed.
LoadsAreCommitted ==
    [][/\ run \in succeeded' \ succeeded
       /\ rows # {} \/ LostRunIds \cap {"recon", "commit"} = {}
       => \A t \in Tables : <<run, t>> \in log /\ setup[t].decision = "AUTO_MIGRATE" =>
             control[t].run = run /\ setup[t].loaded]_vars

\* After NB07 the review queue agrees with the decisions it made, whatever an
\* interrupted NB07 left behind: exactly the tables that may not migrate wait.
ReviewQueueAgrees ==
    step = "resolved" => \A t \in rows :
        (setup[t].decision = "AUTO_MIGRATE") = (review[t] # "PENDING_REVIEW")

\* As long as the job is started again and nobody deactivates a row, every table
\* gets onboarded, whatever failed before: no failure leaves a table in a state
\* the job cannot leave.
Onboards == [](edits = 0) => <>(\A t \in Tables : setup[t].loaded)

=============================================================================
