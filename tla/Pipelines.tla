------------------------------- MODULE Pipelines -------------------------------
(***************************************************************************)
(* The two jobs on one source and one control schema: JOB01 (Onboarding)    *)
(* loads and re-loads tables, JOB02 (DeltaSync) keeps loaded tables in      *)
(* sync.  They share the targets and source_table_control; either may run   *)
(* at any moment, since each job limits only its own runs.  What an         *)
(* operator has to keep apart is the constant Apart.                        *)
(***************************************************************************)
EXTENDS Integers, FiniteSets

CONSTANTS
    Tables,       \* rows of source_table_control, each with a target of its own
    Keys,         \* primary keys of source rows
    NoTable,      \* no table is being handled
    Strategy,     \* Strategy[t]: the strategy NB01 detects for t
    HardDelete,   \* the tables whose delete_policy is HARD_DELETE
    Apart,        \* JOB01 tasks no run of JOB02 overlaps with
    Repairs,      \* may an operator repair failed runs?
    \* Bounds on otherwise unbounded counters.
    MaxStamp,     \* watermark stamps the source hands out
    MaxLoads,     \* runs of JOB01
    MaxSyncs,     \* runs of JOB02
    MaxFaults,    \* failures in either job
    MaxEdits      \* operator edits of is_active

VARIABLES
    \* Shared: the source, the targets and the control table.
    source, horizon, target, control, setup,
    \* JOB01: its tables, its scheduler, the memory of its notebooks.
    review, columns, log, passed,
    task1, run1, started1, halted, succeeded, checked1,
    step1, rows1, todo1, staged1, current1, pending, slice1, seed, failed1,
    \* JOB02.  The source never closes.
    open, queue, audit, recon,
    phase2, run2, started, outcome,
    todo2, seen, staged2, work, current2, step2, slice2, failed2, results,
    \* Budgets.
    faults, edits

sharedVars == <<source, horizon, target, control, setup, faults, edits>>
loadVars   == <<review, columns, log, passed, task1, run1, started1, halted, succeeded, checked1,
                step1, rows1, todo1, staged1, current1, pending, slice1, seed, failed1>>
syncVars   == <<open, queue, audit, recon, phase2, run2, started, outcome, todo2, seen, staged2,
                work, current2, step2, slice2, failed2, results>>
vars == <<sharedVars, loadVars, syncVars>>

Load == INSTANCE Onboarding WITH
    Targets <- Tables, TargetOf <- [t \in Tables |-> t], Detected <- Strategy,
    Partitioned <- {}, Parts <- {1}, PartOf <- [k \in Keys |-> 1], Metadata <- {"AUTO"},
    Lag <- 0, LostRunIds <- {}, MaxRuns <- MaxLoads,
    phase <- task1, run <- run1, started <- started1, checked <- checked1, step <- step1,
    rows <- rows1, todo <- todo1, staged <- staged1, current <- current1, slice <- slice1,
    failed <- failed1

Sync == INSTANCE DeltaSync WITH
    ReservedRuns <- 0, MaxInitialStamp <- 0, MaxRuns <- MaxSyncs,
    phase <- phase2, run <- run2, todo <- todo2, staged <- staged2,
    current <- current2, step <- step2, slice <- slice2, failed <- failed2

ASSUME PipelinesAssumption ==
    /\ NoTable \notin Tables
    /\ Strategy \in [Tables -> Sync!Strategies]
    /\ HardDelete \subseteq Tables
    /\ Repairs \in BOOLEAN
    /\ MaxStamp \in Nat /\ MaxLoads \in Nat /\ MaxSyncs \in Nat
    /\ MaxFaults \in Nat /\ MaxEdits \in Nat

-----------------------------------------------------------------------------

\* Tables are registered, nothing has run.
Init ==
    /\ source \in [Tables -> [Keys -> 0 .. MaxStamp]]
    /\ horizon = [t \in Tables |-> 0]
    /\ target = [t \in Tables |-> Sync!Holding(Sync!NoSlice)]
    /\ control = [t \in Tables |-> [active |-> TRUE, config |-> "ok", last |-> -1,
                                    run |-> 0, status |-> "LOADED"]]
    /\ setup = [t \in Tables |-> [loaded |-> FALSE, decision |-> "NONE", strategy |-> "NONE"]]
    /\ review = [t \in Tables |-> "NONE"]
    /\ columns = [r \in 1 .. MaxLoads |-> [l \in Load!Layers |-> Load!NoColumns]]
    /\ log = {} /\ passed = {}
    /\ task1 = "idle" /\ run1 = 0 /\ started1 = 0 /\ succeeded = {}
    /\ halted = [r \in 1 .. MaxLoads |-> "none"] /\ checked1 = [r \in 1 .. MaxLoads |-> {}]
    /\ step1 = "loop" /\ rows1 = {} /\ todo1 = {} /\ staged1 = Load!NoColumns
    /\ current1 = NoTable /\ pending = {} /\ slice1 = Load!NoSlice /\ seed = -1
    /\ failed1 = FALSE
    /\ open = TRUE
    /\ queue = [r \in 1 .. MaxSyncs |-> Sync!NoRows]
    /\ audit = {} /\ recon = Sync!NoResults
    /\ phase2 = "idle" /\ run2 = 0 /\ started = 0
    /\ outcome = [r \in 1 .. MaxSyncs |-> "none"]
    /\ todo2 = {} /\ seen = Sync!NotSeen /\ staged2 = Sync!NoRows
    /\ work = {} /\ current2 = NoTable /\ step2 = "none" /\ slice2 = Sync!NoSlice
    /\ failed2 = FALSE /\ results = Sync!NoResults
    /\ faults = 0 /\ edits = 0

\* NB11a's eligible query.
EligibleTables ==
    {t \in Tables : /\ control[t].active
                    /\ setup[t].loaded
                    /\ setup[t].decision = "AUTO_MIGRATE"
                    /\ setup[t].strategy # "NONE"}

StartSync == Sync!StartRunOver(EligibleTables)

\* The operator keeps JOB02 away from the tasks in Apart.
KeptApart == task1' \in Apart => phase2' = "idle"

LoadStep ==
    /\ UNCHANGED syncVars
    /\ \/ Load!Job
       \/ Load!Failure
       \/ \E r \in 1 .. MaxLoads : Load!RepairRun(r)
    /\ KeptApart

SyncStep ==
    /\ UNCHANGED <<setup, loadVars>>
    /\ \/ StartSync
       \/ Sync!Prep \/ Sync!Apply \/ Sync!Reconcile
       \/ Sync!Failure
       \/ \E r \in 1 .. MaxSyncs : Sync!RepairRun(r)
    /\ KeptApart

Next == \/ LoadStep
        \/ SyncStep
        \/ Load!Environment /\ UNCHANGED syncVars

Spec == Init /\ [][Next]_vars

-----------------------------------------------------------------------------
(* Properties.                                                             *)

\* From the first load on, through syncs, re-loads, failures and repairs of
\* either job, the checkpoint never covers a row the target lacks: NB10 may
\* reseed what NB11b has advanced, and NB09 may replace what it has merged.
CheckpointCovers ==
    \A t \in Tables : Sync!Covered(t, control[t].last)

\* The two jobs together are one replica with a cursor for each table merged by
\* primary key: NB09 replaces its rows, NB10 repositions the cursor, and JOB02
\* catches up, no matter which of the jobs ran last, failed or is repaired.
IsCheckpointedReplica == Sync!IsCheckpointedReplica

=============================================================================
