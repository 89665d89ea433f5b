---------------------------- MODULE PipelinesProofs ----------------------------
(* JOB01 and JOB02 on one table: whatever either job does, fails at or        *)
(* repeats, the checkpoint of a table never covers a row its target lacks,    *)
(* provided that no run of JOB02 overlaps with NB09.                          *)
EXTENDS Pipelines, TLAPS

ControlRow == [active : BOOLEAN, config : Sync!Configs, last : Sync!Marks, run : Nat,
               status : Sync!Statuses]

\* Between two items a notebook of JOB01 is at one of these statements.
LoopSteps == {"loop", "written", "queued", "resolved"}

SharedTyped ==
    /\ source \in [Tables -> [Keys -> Sync!Versions]]
    /\ horizon \in [Tables -> Sync!Versions]
    /\ target \in [Tables -> [Keys -> [Sync!Stamps -> Nat]]]
    /\ control \in [Tables -> ControlRow]

\* NB01 detects one strategy for a table.
SetupTyped ==
    /\ setup \in [Tables -> Load!Setup]
    /\ \A t \in Tables : setup[t].strategy \in {"NONE", Strategy[t]}

\* NB09 and NB10 handle one table at a time, each in its own task.
LoadTyped ==
    /\ run1 \in 0 .. MaxLoads /\ started1 \in 0 .. MaxLoads
    /\ current1 \in Tables \cup {NoTable}
    /\ pending \subseteq {1}
    /\ slice1 \in [Keys -> Sync!Versions]
    /\ seed \in Sync!Marks
    /\ current1 = NoTable => step1 \in LoopSteps
    /\ current1 # NoTable => step1 \in {"read", "overwrite", "log", "commit"}
    /\ step1 \in {"read", "overwrite", "log"} => task1 = "load"
    /\ step1 = "commit" => task1 = "commit"

\* NB11b applies one table at a time, by the statement of its strategy.
SyncTyped ==
    /\ run2 \in 0 .. MaxSyncs /\ started \in 0 .. MaxSyncs
    /\ queue \in [1 .. MaxSyncs -> [Tables -> Sync!QueueRow]]
    /\ seen \in [Tables -> [config : Sync!Configs, last : Sync!Marks]]
    /\ staged2 \in [Tables -> Sync!QueueRow]
    /\ current2 \in Tables \cup {NoTable}
    /\ slice2 \in [Keys -> Sync!Versions]
    /\ phase2 # "idle" => run2 # 0
    /\ current2 # NoTable => phase2 = "apply"
    /\ current2 = NoTable => step2 = "none"
    /\ current2 # NoTable => step2 # "none"
    /\ step2 = "overwrite" => Strategy[current2] = "FULL_LOAD"
    /\ step2 \in {"delete", "append"} => Strategy[current2] = "WATERMARK"

\* What the operator keeps apart stays apart.
StaysApart == task1 \in Apart => phase2 = "idle"

TypeInv == SharedTyped /\ SetupTyped /\ LoadTyped /\ SyncTyped /\ StaysApart

LEMMA Numbers ==
    /\ Sync!Stamps \subseteq Sync!Versions /\ Sync!Versions \subseteq Sync!Marks
    /\ Sync!Marks \subseteq Int /\ Sync!Versions \subseteq Nat
    /\ 0 \in Sync!Versions /\ -1 \in Sync!Marks /\ 0 \in Sync!Marks
    /\ Sync!NULL = -1 /\ Load!NULL = -1
    /\ Sync!Runs = 1 .. MaxSyncs
    /\ \A v \in Sync!Versions : v # 0 => v \in Sync!Stamps
    /\ \A s \in Sync!Stamps : s > 0
    /\ Load!Versions = Sync!Versions /\ Load!Stamps = Sync!Stamps /\ Load!Marks = Sync!Marks
BY PipelinesAssumption
DEF Sync!Stamps, Sync!Versions, Sync!Marks, Sync!NULL, Load!NULL, Sync!Runs,
    Load!Versions, Load!Stamps, Load!Marks

LEMMA HoldingTyped ==
    ASSUME NEW sl
    PROVE  /\ Sync!Holding(sl) \in [Keys -> [Sync!Stamps -> Nat]]
           /\ Load!Holding(sl) = Sync!Holding(sl)
           /\ \A k \in Keys, s \in Sync!Stamps :
                 Sync!Holding(sl)[k][s] = IF sl[k] = s THEN 1 ELSE 0
BY Numbers DEF Sync!Holding, Load!Holding

LEMMA TypeInit == Init => TypeInv
<1> SUFFICES ASSUME Init PROVE TypeInv
    OBVIOUS
<1> USE PipelinesAssumption, Numbers
<1>1. SharedTyped
    <2>1. target \in [Tables -> [Keys -> [Sync!Stamps -> Nat]]]
        BY HoldingTyped DEF Init
    <2>2. control \in [Tables -> ControlRow]
        BY DEF Init, ControlRow, Sync!Configs, Sync!Statuses
    <2>3. source \in [Tables -> [Keys -> Sync!Versions]]
        BY DEF Init, Sync!Versions
    <2>4. horizon \in [Tables -> Sync!Versions]
        BY DEF Init
    <2>5. QED
        BY <2>1, <2>2, <2>3, <2>4 DEF SharedTyped
<1>2. SetupTyped
    BY DEF Init, SetupTyped, Load!Setup, Load!Strategies
<1>3. LoadTyped
    BY DEF Init, LoadTyped, Load!NoSlice, LoopSteps
<1>4. SyncTyped
    <2>1. Sync!NoRow \in Sync!QueueRow
        BY DEF Sync!NoRow, Sync!QueueRow, Sync!Marking
    <2>2. /\ queue \in [1 .. MaxSyncs -> [Tables -> Sync!QueueRow]]
          /\ staged2 \in [Tables -> Sync!QueueRow]
        BY <2>1 DEF Init, Sync!NoRows
    <2>3. seen \in [Tables -> [config : Sync!Configs, last : Sync!Marks]]
        BY DEF Init, Sync!NotSeen, Sync!Configs
    <2>4. QED
        BY <2>2, <2>3 DEF Init, SyncTyped, Sync!NoSlice
<1>5. StaysApart
    BY DEF Init, StaysApart
<1>6. QED
    BY <1>1, <1>2, <1>3, <1>4, <1>5 DEF TypeInv

-----------------------------------------------------------------------------
(* What the steps of JOB01 do to what both jobs know.  Most of them end or    *)
(* pass over an item: they move no data and hold nothing afterwards.          *)

SetupKept == SetupTyped'

LoadRests ==
    /\ UNCHANGED <<source, horizon, target, control>>
    /\ SetupKept
    /\ current1' = NoTable /\ step1' \in LoopSteps
    /\ pending' \in {pending, {}} /\ slice1' \in {slice1, Load!NoSlice} /\ seed' \in {seed, -1}
    /\ run1' \in 0 .. MaxLoads /\ started1' \in 0 .. MaxLoads

\* NB09 and NB10 are the tasks that handle tables.
LEMMA NothingInHand ==
    ASSUME TypeInv, task1 \notin {"load", "commit"} \/ step1 \in LoopSteps
    PROVE  current1 = NoTable
BY DEF TypeInv, LoadTyped, LoopSteps

LEMMA SetupUnchanged == ASSUME TypeInv, UNCHANGED setup PROVE SetupKept
BY DEF TypeInv, SetupTyped, SetupKept

LEMMA SetupChanges ==
    ASSUME TypeInv, NEW t \in Tables,
           \/ Load!Detects(t)
           \/ setup' = [setup EXCEPT ![t].decision = Load!Decision(t)]
           \/ setup' = [setup EXCEPT ![t].loaded = TRUE]
    PROVE  SetupKept
<1> USE PipelinesAssumption
<1>1. setup \in [Tables -> Load!Setup] /\ \A u \in Tables : setup[u].strategy \in {"NONE", Strategy[u]}
    BY DEF TypeInv, SetupTyped
<1>2. \A u \in Tables : setup[u] \in Load!Setup
    BY <1>1
<1>3. CASE Load!Detects(t)
    <2>1. \A u \in Tables : setup'[u] = IF u = t THEN [setup[u] EXCEPT !.strategy = Strategy[u]]
                                       ELSE setup[u]
        BY <1>1, <1>3 DEF Load!Detects
    <2>2. Strategy[t] \in Load!Strategies
        BY DEF Load!Strategies, Sync!Strategies
    <2>3. \A u \in Tables : setup'[u] \in Load!Setup /\ setup'[u].strategy \in {"NONE", Strategy[u]}
        <3>1. ASSUME NEW r \in Load!Setup
              PROVE  /\ [r EXCEPT !.strategy = Strategy[t]] \in Load!Setup
                     /\ [r EXCEPT !.strategy = Strategy[t]].strategy = Strategy[t]
            BY <2>2 DEF Load!Setup
        <3>2. setup'[t] \in Load!Setup /\ setup'[t].strategy = Strategy[t]
            <4>1. setup'[t] = [setup[t] EXCEPT !.strategy = Strategy[t]]
                BY <2>1
            <4>2. setup[t] \in Load!Setup
                BY <1>2
            <4>3. QED
                BY <3>1, <4>1, <4>2, Zenon
        <3>3. \A u \in Tables : u # t => setup'[u] = setup[u]
            BY <2>1
        <3>4. QED
            BY <1>1, <1>2, <3>2, <3>3
    <2>4. setup' = [u \in Tables |-> setup'[u]]
        BY <1>1, <1>3 DEF Load!Detects
    <2>5. QED
        BY <2>3, <2>4 DEF SetupKept, SetupTyped
<1>4. CASE setup' = [setup EXCEPT ![t].decision = Load!Decision(t)]
    <2>1. \A u \in Tables : setup'[u] = IF u = t THEN [setup[u] EXCEPT !.decision = Load!Decision(t)]
                                       ELSE setup[u]
        BY <1>1, <1>4
    <2>2. Load!Decision(t) \in {"AUTO_MIGRATE", "MANUAL_REVIEW", "BLOCKED"}
        BY DEF Load!Decision
    <2>3. \A u \in Tables : setup'[u] \in Load!Setup /\ setup'[u].strategy \in {"NONE", Strategy[u]}
        BY <1>1, <1>2, <2>1, <2>2 DEF Load!Setup
    <2>4. setup' = [u \in Tables |-> setup'[u]]
        BY <1>1, <1>4
    <2>5. QED
        BY <2>3, <2>4 DEF SetupKept, SetupTyped
<1>5. CASE setup' = [setup EXCEPT ![t].loaded = TRUE]
    <2>1. \A u \in Tables : setup'[u] = IF u = t THEN [setup[u] EXCEPT !.loaded = TRUE]
                                       ELSE setup[u]
        BY <1>1, <1>5
    <2>2. \A u \in Tables : setup'[u] \in Load!Setup /\ setup'[u].strategy \in {"NONE", Strategy[u]}
        BY <1>1, <1>2, <2>1 DEF Load!Setup
    <2>3. setup' = [u \in Tables |-> setup'[u]]
        BY <1>1, <1>5
    <2>4. QED
        BY <2>2, <2>3 DEF SetupKept, SetupTyped
<1>6. QED
    BY <1>3, <1>4, <1>5

\* The tasks before NB09, and NB12.
LEMMA TaskSteps ==
    ASSUME TypeInv,
           \/ Load!WriteInventory \/ Load!Normalize \/ Load!MapColumns
           \/ Load!QueueReviews \/ Load!ResolveReviews \/ Load!Reconcile
    PROVE  LoadRests
<1>1. current1 = NoTable
    BY NothingInHand
    DEF Load!WriteInventory, Load!Normalize, Load!MapColumns, Load!QueueReviews,
        Load!ResolveReviews, Load!Reconcile, Load!Advances, LoopSteps
<1>2. /\ UNCHANGED <<source, horizon, target, control, setup, current1, pending, slice1,
                     seed, run1, started1>>
      /\ step1' \in LoopSteps
    BY DEF Load!WriteInventory, Load!Normalize, Load!MapColumns, Load!QueueReviews,
           Load!ResolveReviews, Load!Reconcile, Load!Advances, Load!sourceVars,
           Load!jobVars, Load!itemVars, LoopSteps
<1>3. QED
    BY <1>1, <1>2, SetupUnchanged DEF LoadRests, TypeInv, LoadTyped

\* The loops over tables outside NB09's and NB10's items.
LEMMA LoopSteps1 ==
    ASSUME TypeInv, NEW t \in Tables,
           \/ Load!InventoryTable(t) \/ Load!InventoryFails(t) \/ Load!DecideTable(t)
           \/ Load!ProvisionTable(t) \/ Load!RejectLoad(t)
    PROVE  LoadRests
<1>1. /\ UNCHANGED <<source, horizon, target, control, current1, pending, slice1, seed,
                     run1, started1>>
      /\ current1 = NoTable /\ step1 = "loop" /\ step1' = "loop"
    BY DEF Load!InventoryTable, Load!InventoryFails, Load!DecideTable, Load!ProvisionTable,
           Load!RejectLoad, Load!Passes, Load!sourceVars, Load!storeVars, Load!jobVars,
           Load!itemVars
<1>2. SetupKept
    BY SetupUnchanged, SetupChanges
    DEF Load!InventoryTable, Load!InventoryFails, Load!DecideTable, Load!ProvisionTable,
        Load!RejectLoad, Load!storeVars
<1>3. QED
    BY <1>1, <1>2 DEF LoadRests, TypeInv, LoadTyped, LoopSteps

\* The scheduler, lost run ids, crashes and repairs.
LEMMA SchedulerSteps ==
    ASSUME TypeInv,
           \/ Load!StartRun \/ Load!NextTask \/ Load!StopTask \/ Load!LoseRunId \/ Load!Crash
           \/ \E r \in 1 .. MaxLoads : Load!RepairRun(r)
    PROVE  LoadRests
<1>1. CASE Load!Crash
    BY <1>1, SetupUnchanged
    DEF Load!Crash, Load!Enter, Load!sourceVars, Load!storeVars, LoadRests, LoopSteps,
        Load!NULL, TypeInv, LoadTyped
<1>2. CASE Load!StartRun
    <2>1. current1 = NoTable
        BY <1>2, NothingInHand DEF Load!StartRun
    <2>2. run1' \in 0 .. MaxLoads /\ started1' \in 0 .. MaxLoads
        BY <1>2, PipelinesAssumption DEF Load!StartRun, Load!Enter, TypeInv, LoadTyped
    <2>3. QED
        BY <1>2, <2>1, <2>2, SetupUnchanged
        DEF Load!StartRun, Load!Enter, Load!sourceVars, Load!storeVars, Load!itemVars,
            LoadRests, LoopSteps
<1>3. CASE Load!NextTask \/ Load!StopTask
    BY <1>3, SetupUnchanged
    DEF Load!NextTask, Load!StopTask, Load!Finished, Load!Enter, Load!sourceVars,
        Load!storeVars, Load!itemVars, LoadRests, LoopSteps, TypeInv, LoadTyped
<1>4. CASE Load!LoseRunId
    BY <1>4 DEF Load!LoseRunId
<1>5. CASE \E r \in 1 .. MaxLoads : Load!RepairRun(r)
    <2>1. current1 = NoTable
        BY <1>5, NothingInHand DEF Load!RepairRun
    <2>2. QED
        BY <1>5, <2>1, SetupUnchanged, PipelinesAssumption
        DEF Load!RepairRun, Load!Enter, Load!sourceVars, Load!storeVars, Load!itemVars,
            LoadRests, LoopSteps, TypeInv, LoadTyped
<1>6. QED
    BY <1>1, <1>2, <1>3, <1>4, <1>5

\* NB09 ends an item.
LEMMA LoadEnds ==
    ASSUME TypeInv, NEW t \in Tables, Load!LogLoad(t) \/ Load!LoadFails(t)
    PROVE  LoadRests
BY SetupUnchanged
DEF Load!LogLoad, Load!LoadFails, Load!EndsItem, Load!sourceVars, Load!jobVars,
    LoadRests, LoopSteps, Load!NULL, TypeInv, LoadTyped

\* The steps of JOB01 that take, move or commit something.
LEMMA LoadSteps ==
    ASSUME TypeInv,
           Load!Job \/ Load!Failure \/ \E r \in 1 .. MaxLoads : Load!RepairRun(r)
    PROVE  \/ LoadRests
           \/ \E t \in Tables : \/ Load!BeginLoad(t) \/ Load!ReadPartition(t)
                                \/ Load!OverwriteTarget(t) \/ Load!ReadSeed(t)
                                \/ Load!CommitState(t) \/ Load!CommitFails(t)
<1>1. CASE Load!Job
    BY <1>1, TaskSteps, LoopSteps1, SchedulerSteps, LoadEnds DEF Load!Job
<1>2. CASE Load!Failure
    BY <1>2, LoopSteps1, SchedulerSteps, LoadEnds DEF Load!Failure
<1>3. CASE \E r \in 1 .. MaxLoads : Load!RepairRun(r)
    BY <1>3, SchedulerSteps
<1>4. QED
    BY <1>1, <1>2, <1>3

-----------------------------------------------------------------------------
(* What the steps of JOB02 do.  Most of them move no data and no checkpoint,  *)
(* and hand a bound on from one place to the next.                           *)

ControlKept ==
    /\ control' \in [Tables -> ControlRow]
    /\ \A t \in Tables : control'[t].last = control[t].last

SameBounds(q, r) == q.lower = r.lower /\ q.upper = r.upper
NoBounds(q) == q.lower = -1 /\ q.upper = -1

SyncRests ==
    /\ UNCHANGED <<source, horizon, target>>
    /\ ControlKept
    /\ SyncTyped'
    /\ \A t \in Tables :
          /\ seen'[t].last \in {seen[t].last, control[t].last, -1}
          /\ SameBounds(staged2'[t], staged2[t]) \/ NoBounds(staged2'[t])
          /\ \A r \in 1 .. MaxSyncs : SameBounds(queue'[r][t], queue[r][t])
                                      \/ SameBounds(queue'[r][t], staged2[t])
    /\ \/ step2' \notin {"merge", "audit", "commit"}
       \/ /\ UNCHANGED <<current2, run2, queue>>
          /\ step2 = "audit" /\ step2' = "commit"

LEMMA ControlUnchanged == ASSUME TypeInv, UNCHANGED control PROVE ControlKept
BY DEF TypeInv, SharedTyped, ControlKept

\* A status leaves the checkpoint alone.
LEMMA StatusKeeps ==
    ASSUME TypeInv, NEW t \in Tables, NEW s \in Sync!Statuses, Sync!Status(t, s)
    PROVE  ControlKept
<1>1. control \in [Tables -> ControlRow]
    BY DEF TypeInv, SharedTyped
<1>2. \A u \in Tables : control'[u] = IF u = t THEN [control[u] EXCEPT !.status = s]
                                     ELSE control[u]
    BY <1>1 DEF Sync!Status
<1>3. ASSUME NEW u \in Tables PROVE control'[u] \in ControlRow /\ control'[u].last = control[u].last
    <2>1. control[u] \in ControlRow
        BY <1>1
    <2>2. QED
        BY <1>2, <2>1 DEF ControlRow
<1>4. control' = [u \in Tables |-> control'[u]]
    BY <1>1 DEF Sync!Status
<1>5. QED
    BY <1>3, <1>4 DEF ControlKept

\* NB11a passes over a table, or queues a snapshot of it.
LEMMA PrepSteps ==
    ASSUME TypeInv, NEW t \in Tables,
           \/ Sync!PrepNoColumns(t) \/ Sync!PrepConfigError(t)
           \/ Sync!PrepNoSourceWatermark(t) \/ Sync!PrepNoChanges(t)
           \/ Sync!QueueSnapshot(t) \/ Sync!PrepFails(t)
    PROVE  SyncRests
<1> USE PipelinesAssumption, Numbers
<1> USE DEF Sync!PrepNoColumns, Sync!PrepConfigError, Sync!PrepNoSourceWatermark,
            Sync!PrepNoChanges, Sync!QueueSnapshot, Sync!PrepFails
<1>1. Sync!Prepares(t)
    OBVIOUS
<1>2. /\ UNCHANGED <<source, target, queue, seen, run2, started, phase2, current2, step2, slice2>>
      /\ phase2 = "prep"
    BY <1>1 DEF Sync!Prepares, Sync!jobVars, Sync!itemVars
<1>3. UNCHANGED horizon
    OBVIOUS
<1>4. ControlKept
    BY StatusKeeps, ControlUnchanged DEF Sync!Statuses
<1>5. step2 = "none"
    BY <1>2 DEF TypeInv, SyncTyped
<1>6. CASE UNCHANGED staged2
    BY <1>2, <1>3, <1>4, <1>5, <1>6 DEF SyncRests, TypeInv, SyncTyped, SameBounds
<1>7. CASE staged2' = [staged2 EXCEPT ![t] = [Sync!NoRow EXCEPT !.status = "QUEUED"]]
    <2>1. [Sync!NoRow EXCEPT !.status = "QUEUED"] = [status |-> "QUEUED", lower |-> -1, upper |-> -1]
        BY DEF Sync!NoRow
    <2>2. [status |-> "QUEUED", lower |-> -1, upper |-> -1] \in Sync!QueueRow
        BY DEF Sync!QueueRow, Sync!Marking
    <2>3. /\ staged2' \in [Tables -> Sync!QueueRow]
          /\ \A u \in Tables : SameBounds(staged2'[u], staged2[u]) \/ NoBounds(staged2'[u])
        BY <1>7, <2>1, <2>2 DEF TypeInv, SyncTyped, SameBounds, NoBounds
    <2>4. SyncTyped'
        BY <1>2, <2>3 DEF TypeInv, SyncTyped
    <2>5. QED
        BY <1>2, <1>3, <1>4, <1>5, <2>3, <2>4 DEF SyncRests, SameBounds
<1>8. QED
    BY <1>6, <1>7

\* A run starts, the queue is written, the notebooks follow each other.
LEMMA StartRests == ASSUME TypeInv, StartSync PROVE SyncRests
<1> USE PipelinesAssumption, Numbers DEF StartSync, Sync!StartRunOver
<1>1. /\ UNCHANGED <<source, horizon, target, control, queue, staged2, current2, step2, slice2>>
      /\ phase2 = "idle" /\ run2' = started + 1 /\ started' = started + 1 /\ started < MaxSyncs
      /\ seen' = [t \in Tables |-> [config |-> control[t].config, last |-> control[t].last]]
    BY DEF Sync!sourceVars, Sync!storeVars, Sync!itemVars
<1>2. step2 = "none" /\ current2 = NoTable
    BY <1>1 DEF TypeInv, SyncTyped
<1>3. \A t \in Tables : /\ [config |-> control[t].config, last |-> control[t].last]
                                \in [config : Sync!Configs, last : Sync!Marks]
                        /\ seen'[t].last = control[t].last
    <2> SUFFICES ASSUME NEW t \in Tables
                 PROVE  /\ [config |-> control[t].config, last |-> control[t].last]
                                \in [config : Sync!Configs, last : Sync!Marks]
                        /\ seen'[t].last = control[t].last
        OBVIOUS
    <2>1. control[t] \in ControlRow
        BY DEF TypeInv, SharedTyped
    <2>2. QED
        BY <1>1, <2>1 DEF ControlRow
<1>4. run2' \in 0 .. MaxSyncs /\ started' \in 0 .. MaxSyncs /\ run2' # 0
    BY <1>1 DEF TypeInv, SyncTyped
<1>5. seen' \in [Tables -> [config : Sync!Configs, last : Sync!Marks]]
    BY <1>1, <1>3
<1>6. SyncTyped'
    BY <1>1, <1>2, <1>4, <1>5 DEF TypeInv, SyncTyped
<1>7. QED
    BY <1>1, <1>2, <1>3, <1>6, ControlUnchanged DEF SyncRests, SameBounds

LEMMA WriteRests == ASSUME TypeInv, Sync!WriteQueue PROVE SyncRests
<1> USE PipelinesAssumption, Numbers
<1>1. /\ UNCHANGED <<source, horizon, target, control, run2, started, current2, step2, slice2>>
      /\ phase2 = "prep" /\ phase2' = "queued"
      /\ queue' = [queue EXCEPT ![run2] = staged2]
      /\ seen' = Sync!NotSeen /\ staged2' = Sync!NoRows
    BY DEF Sync!WriteQueue, Sync!sourceVars, Sync!itemVars
<1>2. step2 = "none" /\ current2 = NoTable
    BY <1>1 DEF TypeInv, SyncTyped
<1>3. /\ seen' \in [Tables -> [config : Sync!Configs, last : Sync!Marks]]
      /\ \A t \in Tables : seen'[t].last = -1
    BY <1>1 DEF Sync!NotSeen, Sync!Configs
<1>4. /\ staged2' \in [Tables -> Sync!QueueRow]
      /\ \A t \in Tables : NoBounds(staged2'[t])
    <2>1. Sync!NoRow \in Sync!QueueRow /\ NoBounds(Sync!NoRow)
        BY DEF Sync!NoRow, Sync!QueueRow, Sync!Marking, NoBounds
    <2>2. QED
        BY <1>1, <2>1 DEF Sync!NoRows
<1>5. /\ queue' \in [1 .. MaxSyncs -> [Tables -> Sync!QueueRow]]
      /\ \A r \in 1 .. MaxSyncs : queue'[r] \in {queue[r], staged2}
    BY <1>1 DEF TypeInv, SyncTyped
<1>6. SyncTyped'
    BY <1>1, <1>2, <1>3, <1>4, <1>5 DEF TypeInv, SyncTyped
<1>7. \A t \in Tables, r \in 1 .. MaxSyncs :
         SameBounds(queue'[r][t], queue[r][t]) \/ SameBounds(queue'[r][t], staged2[t])
    BY <1>5 DEF SameBounds
<1>8. QED
    BY <1>1, <1>2, <1>3, <1>4, <1>6, <1>7, ControlUnchanged DEF SyncRests

\* The scheduler of JOB02, NB12, and the deaths that leave nothing in hand.
LEMMA SyncSchedulerSteps ==
    ASSUME TypeInv,
           \/ Sync!BeginApply \/ Sync!BeginApplyWithoutRunId \/ Sync!FinishApply
           \/ Sync!FinishReconcile \/ Sync!ReconcileWithoutRunId \/ Sync!Crash
           \/ \E t \in Tables : Sync!ReconcileTable(t) \/ Sync!ReconcileFails(t)
           \/ \E r \in 1 .. MaxSyncs : Sync!RepairRun(r)
    PROVE  SyncRests
<1> USE PipelinesAssumption, Numbers
<1> USE DEF Sync!sourceVars, Sync!storeVars, Sync!jobVars, Sync!prepVars, Sync!itemVars
<1>1. UNCHANGED <<source, horizon, target, control, queue, started>>
    BY DEF Sync!BeginApply, Sync!BeginApplyWithoutRunId, Sync!FinishApply,
           Sync!FinishReconcile, Sync!ReconcileWithoutRunId, Sync!Crash, Sync!ReconcileTable,
           Sync!ReconcileFails, Sync!Reconciles, Sync!RepairRun
<1>2. current2' = NoTable /\ step2' = "none" /\ slice2' \in [Keys -> Sync!Versions]
    <2>1. CASE Sync!Crash
        BY <2>1 DEF Sync!Crash, Sync!NoSlice
    <2>2. CASE Sync!FinishApply
        BY <2>2 DEF Sync!FinishApply, TypeInv, SyncTyped
    <2>3. CASE ~Sync!Crash /\ ~Sync!FinishApply
        BY <2>3
        DEF Sync!BeginApply, Sync!BeginApplyWithoutRunId,
            Sync!FinishReconcile, Sync!ReconcileWithoutRunId, Sync!ReconcileTable,
            Sync!ReconcileFails, Sync!Reconciles, Sync!RepairRun, TypeInv, SyncTyped
    <2>4. QED
        BY <2>1, <2>2, <2>3
<1>3. run2' \in 0 .. MaxSyncs /\ (phase2' # "idle" => run2' # 0)
    BY DEF Sync!BeginApply, Sync!BeginApplyWithoutRunId, Sync!FinishApply,
           Sync!FinishReconcile, Sync!ReconcileWithoutRunId, Sync!Crash, Sync!ReconcileTable,
           Sync!ReconcileFails, Sync!Reconciles, Sync!RepairRun, TypeInv, SyncTyped
<1>4. UNCHANGED <<seen, staged2>> \/ (seen' = Sync!NotSeen /\ staged2' = Sync!NoRows)
    BY DEF Sync!BeginApply, Sync!BeginApplyWithoutRunId, Sync!FinishApply,
           Sync!FinishReconcile, Sync!ReconcileWithoutRunId, Sync!Crash, Sync!ReconcileTable,
           Sync!ReconcileFails, Sync!Reconciles, Sync!RepairRun
<1>5. /\ seen' \in [Tables -> [config : Sync!Configs, last : Sync!Marks]]
      /\ staged2' \in [Tables -> Sync!QueueRow]
      /\ \A t \in Tables : /\ seen'[t].last \in {seen[t].last, -1}
                           /\ SameBounds(staged2'[t], staged2[t]) \/ NoBounds(staged2'[t])
    <2>1. /\ Sync!NotSeen \in [Tables -> [config : Sync!Configs, last : Sync!Marks]]
          /\ \A t \in Tables : Sync!NotSeen[t].last = -1
        BY DEF Sync!NotSeen, Sync!Configs
    <2>2. Sync!NoRow \in Sync!QueueRow /\ NoBounds(Sync!NoRow)
        BY DEF Sync!NoRow, Sync!QueueRow, Sync!Marking, NoBounds
    <2>3. /\ Sync!NoRows \in [Tables -> Sync!QueueRow]
          /\ \A t \in Tables : NoBounds(Sync!NoRows[t])
        BY <2>2 DEF Sync!NoRows
    <2>4. QED
        BY <1>4, <2>1, <2>3 DEF TypeInv, SyncTyped, SameBounds
<1>6. SyncTyped'
    BY <1>1, <1>2, <1>3, <1>5 DEF TypeInv, SyncTyped
<1>7. QED
    BY <1>1, <1>2, <1>5, <1>6, ControlUnchanged DEF SyncRests, SameBounds

\* A queue row that is marked keeps its interval.
LEMMA MarkKeeps ==
    ASSUME TypeInv, NEW t \in Tables, run2 \in 1 .. MaxSyncs, NEW s \in Sync!Marking,
           Sync!MarkQueue(t, s)
    PROVE  /\ queue' \in [1 .. MaxSyncs -> [Tables -> Sync!QueueRow]]
           /\ \A u \in Tables, r \in 1 .. MaxSyncs : SameBounds(queue'[r][u], queue[r][u])
<1>1. queue \in [1 .. MaxSyncs -> [Tables -> Sync!QueueRow]]
    BY DEF TypeInv, SyncTyped
<1>2. queue' = [queue EXCEPT ![run2] = [queue[run2] EXCEPT ![t] = [queue[run2][t] EXCEPT !.status = s]]]
    BY DEF Sync!MarkQueue
<1>3. queue[run2] \in [Tables -> Sync!QueueRow] /\ queue[run2][t] \in Sync!QueueRow
    BY <1>1
<1>4. /\ [queue[run2][t] EXCEPT !.status = s] \in Sync!QueueRow
      /\ SameBounds([queue[run2][t] EXCEPT !.status = s], queue[run2][t])
    BY <1>3 DEF Sync!QueueRow, SameBounds
<1> DEFINE row == [queue[run2][t] EXCEPT !.status = s]
<1> HIDE DEF row
<1>5. /\ queue' = [queue EXCEPT ![run2] = [queue[run2] EXCEPT ![t] = row]]
      /\ row \in Sync!QueueRow /\ SameBounds(row, queue[run2][t])
    BY <1>2, <1>4 DEF row
<1>6. [queue[run2] EXCEPT ![t] = row] \in [Tables -> Sync!QueueRow]
    BY <1>3, <1>5
<1>7. queue' \in [1 .. MaxSyncs -> [Tables -> Sync!QueueRow]]
    BY <1>1, <1>5, <1>6
<1>8. ASSUME NEW u \in Tables, NEW r \in 1 .. MaxSyncs PROVE SameBounds(queue'[r][u], queue[r][u])
    <2>1. queue'[r][u] = IF r = run2 /\ u = t THEN row ELSE queue[r][u]
        BY <1>1, <1>3, <1>5
    <2>2. QED
        BY <1>5, <2>1 DEF SameBounds
<1>9. QED
    BY <1>7, <1>8

\* NB11b ends an item, whatever its handlers manage to record.
LEMMA ItemEnds ==
    ASSUME TypeInv, NEW t \in Tables,
           \/ Sync!FinalizeQueue(t) \/ Sync!ApplyFails(t) \/ Sync!CheckpointFails(t)
           \/ Sync!FinalizeFails(t)
    PROVE  SyncRests
<1> USE PipelinesAssumption, Numbers
<1>1. Sync!EndsItem(t)
    BY DEF Sync!FinalizeQueue, Sync!ApplyFails, Sync!CheckpointFails, Sync!FinalizeFails,
           Sync!ItemFails
<1>2. /\ UNCHANGED <<source, horizon, target, run2, started, phase2, seen, staged2>>
      /\ current2 = t /\ current2' = NoTable /\ step2' = "none" /\ slice2' = Sync!NoSlice
    BY <1>1 DEF Sync!EndsItem, Sync!sourceVars, Sync!jobVars, Sync!prepVars
<1>3. run2 \in 1 .. MaxSyncs
    BY <1>2 DEF TypeInv, SyncTyped
<1>4. UNCHANGED queue \/ \E m \in Sync!Marking : Sync!MarkQueue(t, m)
    BY DEF Sync!FinalizeQueue, Sync!ApplyFails, Sync!CheckpointFails, Sync!FinalizeFails,
           Sync!ItemFails, Sync!Marking
<1>5. UNCHANGED control \/ \E s \in Sync!Statuses : Sync!Status(t, s)
    BY DEF Sync!FinalizeQueue, Sync!ApplyFails, Sync!CheckpointFails, Sync!FinalizeFails,
           Sync!ItemFails, Sync!Statuses
<1>6. ControlKept
    BY <1>5, ControlUnchanged, StatusKeeps
<1>7. /\ queue' \in [1 .. MaxSyncs -> [Tables -> Sync!QueueRow]]
      /\ \A u \in Tables, r \in 1 .. MaxSyncs : SameBounds(queue'[r][u], queue[r][u])
    BY <1>3, <1>4, MarkKeeps DEF TypeInv, SyncTyped, SameBounds
<1>8. slice2' \in [Keys -> Sync!Versions]
    BY <1>2 DEF Sync!NoSlice
<1>9. SyncTyped'
    BY <1>2, <1>7, <1>8 DEF TypeInv, SyncTyped
<1>10. QED
    BY <1>2, <1>6, <1>7, <1>9 DEF SyncRests, SameBounds

LEMMA SliceTyped ==
    ASSUME TypeInv, NEW t \in Tables, Sync!ReadSlice(t)
    PROVE  slice2' \in [Keys -> Sync!Versions]
<1>1. slice2' = [k \in Keys |-> IF Sync!Selected(t, source[t][k]) THEN source[t][k] ELSE 0]
    BY Zenon DEF Sync!ReadSlice
<1>2. \A k \in Keys : source[t][k] \in Sync!Versions
    BY DEF TypeInv, SharedTyped
<1>3. QED
    BY <1>1, <1>2, Numbers

\* NB11b takes an item, reads one that is replaced, or logs it.
LEMMA ItemSteps ==
    ASSUME TypeInv, NEW t \in Tables,
           \/ Sync!TakeItem(t) \/ Sync!AuditSuccess(t)
           \/ Sync!ReadSlice(t) /\ Strategy[t] \in {"FULL_LOAD", "WATERMARK"}
    PROVE  SyncRests
<1> USE PipelinesAssumption, Numbers
<1> USE DEF Sync!sourceVars, Sync!storeVars, Sync!jobVars, Sync!prepVars
<1>1. UNCHANGED <<source, horizon, target, control, queue, run2, started, phase2, seen, staged2>>
    BY DEF Sync!TakeItem, Sync!AuditSuccess, Sync!ReadSlice
<1>2. slice2' \in [Keys -> Sync!Versions]
    BY SliceTyped DEF Sync!TakeItem, Sync!AuditSuccess, TypeInv, SyncTyped
<1>3. /\ current2' = t /\ phase2 = "apply"
      /\ \/ step2' = "read"
         \/ step2' = "overwrite" /\ Strategy[t] = "FULL_LOAD"
         \/ step2' = "delete" /\ Strategy[t] = "WATERMARK"
         \/ current2 = t /\ step2 = "audit" /\ step2' = "commit"
    BY DEF Sync!TakeItem, Sync!AuditSuccess, Sync!ReadSlice, TypeInv, SyncTyped
<1>4. SyncTyped'
    BY <1>1, <1>2, <1>3 DEF TypeInv, SyncTyped
<1>5. QED
    BY <1>1, <1>3, <1>4, ControlUnchanged DEF SyncRests, SameBounds

\* The steps of JOB02 that capture, read, move or commit something.
LEMMA SyncSteps ==
    ASSUME TypeInv,
           \/ StartSync \/ Sync!Prep \/ Sync!Apply \/ Sync!Reconcile \/ Sync!Failure
           \/ \E r \in 1 .. MaxSyncs : Sync!RepairRun(r)
    PROVE  \/ SyncRests
           \/ \E t \in Tables : \/ Sync!QueueInterval(t)
                                \/ Sync!ReadSlice(t) /\ Strategy[t] \notin {"FULL_LOAD", "WATERMARK"}
                                \/ Sync!OverwriteTarget(t) \/ Sync!DeleteInterval(t)
                                \/ Sync!AppendSlice(t) \/ Sync!MergeSlice(t)
                                \/ Sync!CommitCheckpoint(t)
<1>1. CASE StartSync \/ Sync!Reconcile \/ \E r \in 1 .. MaxSyncs : Sync!RepairRun(r)
    BY <1>1, StartRests, SyncSchedulerSteps DEF Sync!Reconcile
<1>2. CASE Sync!Prep
    BY <1>2, PrepSteps, WriteRests DEF Sync!Prep
<1>3. CASE Sync!Apply
    BY <1>3, SyncSchedulerSteps, ItemSteps, ItemEnds DEF Sync!Apply
<1>4. CASE Sync!Failure
    BY <1>4, SyncSchedulerSteps, PrepSteps, ItemEnds DEF Sync!Failure
<1>5. QED
    BY <1>1, <1>2, <1>3, <1>4

-----------------------------------------------------------------------------
(* Types are kept.                                                         *)

\* An extract of one query holds what it saw, and all of it is below the
\* horizon afterwards.
LEMMA ReadEffect ==
    ASSUME TypeInv, NEW t \in Tables, Load!ReadPartition(t)
    PROVE  /\ UNCHANGED <<source, target, control, setup, seed, run1, started1, task1, current1>>
           /\ current1 = t /\ step1 = "read" /\ step1' = "overwrite" /\ pending' = {}
           /\ slice1' = [k \in Keys |-> source[t][k]]
           /\ horizon' \in [Tables -> Sync!Versions]
           /\ \A u \in Tables : u # t => horizon'[u] = horizon[u]
           /\ horizon'[t] >= horizon[t]
           /\ \A k \in Keys : source[t][k] <= horizon'[t]
<1> USE PipelinesAssumption, Numbers
<1>1. /\ UNCHANGED <<source, target, control, setup, seed, run1, started1, task1, current1>>
      /\ current1 = t /\ step1 = "read"
    BY DEF Load!ReadPartition, Load!storeVars, Load!jobVars
<1>2. PICK p \in pending :
         /\ pending' = pending \ Load!ReadTogether(t, p)
         /\ slice1' = [k \in Keys |-> IF [j \in Keys |-> 1][k] \in Load!ReadTogether(t, p)
                                      THEN source[t][k] ELSE slice1[k]]
         /\ step1' = IF pending' = {} THEN "overwrite" ELSE "read"
    BY DEF Load!ReadPartition
<1>3. pending' = {} /\ Load!ReadTogether(t, p) = {1}
    BY <1>2 DEF TypeInv, LoadTyped, Load!ReadTogether
<1>4. slice1' = [k \in Keys |-> source[t][k]]
    BY <1>2, <1>3
<1>5. PICK m \in Load!Versions :
         /\ Load!IsMax(m, Load!SourceStamps(t))
         /\ horizon' = [horizon EXCEPT ![t] = IF m > @ THEN m ELSE @]
    BY DEF Load!ReadPartition
<1>6. horizon[t] \in Nat /\ m \in Nat /\ horizon[t] \in Sync!Versions /\ m \in Sync!Versions
    BY DEF TypeInv, SharedTyped
<1>7. /\ horizon' \in [Tables -> Sync!Versions]
      /\ \A u \in Tables : u # t => horizon'[u] = horizon[u]
      /\ horizon'[t] = IF m > horizon[t] THEN m ELSE horizon[t]
    BY <1>5, <1>6 DEF TypeInv, SharedTyped
<1>8. horizon'[t] >= horizon[t] /\ horizon'[t] >= m
    BY <1>6, <1>7
<1>9. ASSUME NEW k \in Keys PROVE source[t][k] <= horizon'[t]
    <2>1. source[t][k] \in Load!SourceStamps(t)
        BY DEF Load!SourceStamps
    <2>2. source[t][k] <= m
        BY <1>5, <2>1 DEF Load!IsMax
    <2>3. source[t][k] \in Nat /\ horizon'[t] \in Nat
        <3>1. source[t][k] \in Sync!Versions
            BY DEF TypeInv, SharedTyped
        <3>2. horizon'[t] \in Sync!Versions
            BY <1>7
        <3>3. QED
            BY <3>1, <3>2
    <2>4. QED
        BY <1>6, <1>8, <2>2, <2>3
<1>10. QED
    BY <1>1, <1>2, <1>3, <1>4, <1>7, <1>8, <1>9

\* NB10 commits its seed, or fails before or after.
LEMMA CommitEffect ==
    ASSUME TypeInv, NEW t \in Tables, Load!CommitState(t) \/ Load!CommitFails(t)
    PROVE  /\ UNCHANGED <<source, horizon, target, slice1, pending, run1, started1, task1>>
           /\ current1 = t /\ step1 = "commit" /\ current1' = NoTable /\ step1' = "loop"
           /\ seed' = -1 /\ SetupKept
           /\ control' \in [Tables -> ControlRow]
           /\ \A u \in Tables : u # t => control'[u].last = control[u].last
           /\ control'[t].last \in {control[t].last, seed}
<1> USE PipelinesAssumption, Numbers
<1>1. Load!EndsCommit(t) /\ (Load!Committed(t) \/ UNCHANGED <<control, setup>>)
    BY DEF Load!CommitState, Load!CommitFails
<1>2. /\ UNCHANGED <<source, horizon, target, slice1, pending, run1, started1, task1>>
      /\ current1 = t /\ step1 = "commit" /\ current1' = NoTable /\ step1' = "loop"
      /\ seed' = -1
    BY <1>1 DEF Load!EndsCommit, Load!sourceVars, Load!jobVars
<1>3. control \in [Tables -> ControlRow]
    BY DEF TypeInv, SharedTyped
<1>4. CASE UNCHANGED <<control, setup>>
    BY <1>2, <1>3, <1>4, SetupUnchanged
<1>5. CASE Load!Committed(t)
    <2>1. SetupKept
        BY <1>5, SetupChanges DEF Load!Committed
    <2>2. control' = [control EXCEPT ![t] = [control[t] EXCEPT !.last = seed, !.run = run1]]
        BY <1>5 DEF Load!Committed
    <2>3. control[t] \in ControlRow /\ seed \in Sync!Marks /\ run1 \in Nat
        BY <1>3 DEF TypeInv, LoadTyped
    <2>4. /\ [control[t] EXCEPT !.last = seed, !.run = run1] \in ControlRow
          /\ [control[t] EXCEPT !.last = seed, !.run = run1].last = seed
        BY <2>3 DEF ControlRow
    <2>5. /\ control' \in [Tables -> ControlRow]
          /\ control'[t].last = seed
          /\ \A u \in Tables : u # t => control'[u].last = control[u].last
        BY <1>3, <2>2, <2>4
    <2>6. QED
        BY <1>2, <2>1, <2>5
<1>6. QED
    BY <1>1, <1>4, <1>5

\* NB11b commits the interval it applied.
LEMMA CheckpointEffect ==
    ASSUME TypeInv, NEW t \in Tables, Sync!CommitCheckpoint(t)
    PROVE  /\ UNCHANGED <<source, horizon, target, queue, run2, started, phase2, seen, staged2,
                          current2, slice2>>
           /\ current2 = t /\ step2 = "commit" /\ step2' = "finalize"
           /\ run2 \in 1 .. MaxSyncs
           /\ control' \in [Tables -> ControlRow]
           /\ \A u \in Tables : u # t => control'[u].last = control[u].last
           /\ control'[t].last = IF t \in Sync!Temporal THEN queue[run2][t].upper
                                                        ELSE control[t].last
<1> USE PipelinesAssumption, Numbers
<1>1. /\ UNCHANGED <<source, horizon, target, queue, run2, started, phase2, seen, staged2,
                     current2, slice2>>
      /\ current2 = t /\ step2 = "commit" /\ step2' = "finalize"
    BY DEF Sync!CommitCheckpoint, Sync!sourceVars, Sync!jobVars, Sync!prepVars
<1>2. run2 \in 1 .. MaxSyncs
    BY <1>1 DEF TypeInv, SyncTyped
<1> DEFINE last == IF t \in Sync!Temporal THEN queue[run2][t].upper ELSE control[t].last
           status == IF Strategy[t] = "FULL_LOAD" THEN "DELTA_FULL_REFRESH_SUCCEEDED"
                                                  ELSE "DELTA_SYNCED"
           row == [control[t] EXCEPT !.run = run2, !.last = last, !.status = status]
<1>3. control \in [Tables -> ControlRow] /\ control[t] \in ControlRow
    BY DEF TypeInv, SharedTyped
<1>4. control' = [control EXCEPT ![t] = row]
    BY DEF Sync!CommitCheckpoint
<1>5. last \in Sync!Marks /\ status \in Sync!Statuses /\ run2 \in Nat
    <2>1. queue[run2][t].upper \in Sync!Marks
        BY <1>2 DEF TypeInv, SyncTyped, Sync!QueueRow
    <2>2. control[t].last \in Sync!Marks
        BY <1>3 DEF ControlRow
    <2>3. QED
        BY <1>2, <2>1, <2>2 DEF Sync!Statuses
<1> HIDE DEF last, status
<1>6. row \in ControlRow /\ row.last = last
    BY <1>3, <1>5 DEF ControlRow
<1> HIDE DEF row
<1>7. /\ control' \in [Tables -> ControlRow] /\ control'[t].last = last
      /\ \A u \in Tables : u # t => control'[u].last = control[u].last
    BY <1>3, <1>4, <1>6
<1>8. QED
    BY <1>1, <1>2, <1>7 DEF last

\* NB11a freezes an interval.
LEMMA IntervalEffect ==
    ASSUME TypeInv, NEW t \in Tables, Sync!QueueInterval(t)
    PROVE  /\ UNCHANGED <<source, target, queue, run2, started, phase2, seen, current2,
                          step2, slice2>>
           /\ phase2 = "prep" /\ ControlKept /\ t \in Sync!Temporal
           /\ staged2' \in [Tables -> Sync!QueueRow]
           /\ \A u \in Tables : u # t => staged2'[u] = staged2[u]
           /\ staged2'[t].lower = seen[t].last
           /\ horizon' \in [Tables -> Sync!Versions]
           /\ \A u \in Tables : u # t => horizon'[u] = horizon[u]
           /\ horizon'[t] >= horizon[t] /\ staged2'[t].upper <= horizon'[t]
<1> USE PipelinesAssumption, Numbers
<1>1. /\ UNCHANGED <<source, target, queue, run2, started, phase2, seen, current2, step2,
                     slice2>>
      /\ phase2 = "prep" /\ t \in Sync!Temporal
    BY DEF Sync!QueueInterval, Sync!Prepares, Sync!jobVars, Sync!itemVars
<1>2. ControlKept
    BY StatusKeeps DEF Sync!QueueInterval, Sync!Statuses
<1>3. PICK m \in Sync!Stamps :
         /\ staged2' = [staged2 EXCEPT ![t] =
                          [status |-> "QUEUED", lower |-> seen[t].last, upper |-> m]]
         /\ horizon' = [horizon EXCEPT ![t] = IF m > @ THEN m ELSE @]
    BY DEF Sync!QueueInterval
<1>4. [status |-> "QUEUED", lower |-> seen[t].last, upper |-> m] \in Sync!QueueRow
    BY DEF TypeInv, SyncTyped, Sync!QueueRow, Sync!Marking
<1>5. /\ staged2' \in [Tables -> Sync!QueueRow]
      /\ \A u \in Tables : u # t => staged2'[u] = staged2[u]
      /\ staged2'[t].lower = seen[t].last /\ staged2'[t].upper = m
    BY <1>3, <1>4 DEF TypeInv, SyncTyped
<1>6. horizon[t] \in Nat /\ m \in Nat /\ m \in Sync!Versions /\ horizon[t] \in Sync!Versions
    BY DEF TypeInv, SharedTyped
<1>7. /\ horizon' \in [Tables -> Sync!Versions]
      /\ \A u \in Tables : u # t => horizon'[u] = horizon[u]
      /\ horizon'[t] = IF m > horizon[t] THEN m ELSE horizon[t]
    BY <1>3, <1>6 DEF TypeInv, SharedTyped
<1>8. horizon'[t] >= horizon[t] /\ horizon'[t] >= m
    BY <1>6, <1>7
<1>9. QED
    BY <1>1, <1>2, <1>5, <1>7, <1>8

\* A statement of NB11b rewrites one target.
WritesOf(t) ==
    \/ Sync!OverwriteTarget(t) \/ Sync!DeleteInterval(t)
    \/ Sync!AppendSlice(t) \/ Sync!MergeSlice(t)

LEMMA WriteEffect ==
    ASSUME TypeInv, NEW t \in Tables, WritesOf(t)
    PROVE  /\ UNCHANGED <<source, horizon, control, queue, run2, started, phase2, seen, staged2,
                          current2, slice2>>
           /\ current2 = t /\ step2' \in {"append", "audit"}
           /\ target' \in [Tables -> [Keys -> [Sync!Stamps -> Nat]]]
           /\ \A u \in Tables : u # t => target'[u] = target[u]
           /\ step2' = "append" => Strategy[t] = "WATERMARK"
           /\ Strategy[t] = "HYBRID" =>
                 /\ step2 = "merge"
                 /\ target'[t] = [k \in Keys |-> IF slice2[k] # 0 THEN Sync!Holding(slice2)[k]
                                                                  ELSE target[t][k]]
<1> USE PipelinesAssumption, Numbers
<1>1. /\ target[t] \in [Keys -> [Sync!Stamps -> Nat]]
      /\ target \in [Tables -> [Keys -> [Sync!Stamps -> Nat]]]
    BY DEF TypeInv, SharedTyped
<1>2. Sync!Holding(slice2) \in [Keys -> [Sync!Stamps -> Nat]]
    BY HoldingTyped
<1>3. ASSUME NEW rows, NEW next, Sync!Writes(t, rows, next), current2 = t,
             rows \in [Keys -> [Sync!Stamps -> Nat]]
      PROVE  /\ UNCHANGED <<source, horizon, control, queue, run2, started, phase2, seen,
                            staged2, current2, slice2>>
             /\ current2 = t /\ step2' = next
             /\ target' \in [Tables -> [Keys -> [Sync!Stamps -> Nat]]]
             /\ \A u \in Tables : u # t => target'[u] = target[u]
             /\ target'[t] = rows
    BY <1>1, <1>3 DEF Sync!Writes, Sync!sourceVars, Sync!jobVars, Sync!prepVars
<1>4. CASE Sync!OverwriteTarget(t)
    BY <1>2, <1>3, <1>4 DEF Sync!OverwriteTarget, TypeInv, SyncTyped
<1>5. CASE Sync!DeleteInterval(t)
    <2> DEFINE rows == [k \in Keys |-> [s \in Sync!Stamps |->
                           IF Sync!Selected(t, s) THEN 0 ELSE target[t][k][s]]]
    <2>1. current2 = t /\ step2 = "delete" /\ Sync!Writes(t, rows, "append")
        BY <1>5 DEF Sync!DeleteInterval
    <2>2. rows \in [Keys -> [Sync!Stamps -> Nat]]
        BY <1>1
    <2>3. Strategy[t] = "WATERMARK"
        BY <2>1 DEF TypeInv, SyncTyped
    <2> HIDE DEF rows
    <2>4. QED
        BY <1>3, <2>1, <2>2, <2>3
<1>6. CASE Sync!AppendSlice(t)
    <2> DEFINE rows == [k \in Keys |-> [s \in Sync!Stamps |->
                           target[t][k][s] + (IF slice2[k] = s THEN 1 ELSE 0)]]
    <2>1. current2 = t /\ step2 = "append" /\ Sync!Writes(t, rows, "audit")
        BY <1>6 DEF Sync!AppendSlice
    <2>2. rows \in [Keys -> [Sync!Stamps -> Nat]]
        BY <1>1
    <2>3. Strategy[t] = "WATERMARK"
        BY <2>1 DEF TypeInv, SyncTyped
    <2> HIDE DEF rows
    <2>4. QED
        BY <1>3, <2>1, <2>2, <2>3
<1>7. CASE Sync!MergeSlice(t)
    <2> DEFINE rows == [k \in Keys |-> IF slice2[k] # 0 \/ Sync!DeletesUnmatched(t)
                                       THEN Sync!Holding(slice2)[k] ELSE target[t][k]]
    <2>1. current2 = t /\ step2 = "merge" /\ Sync!Writes(t, rows, "audit")
        BY <1>7 DEF Sync!MergeSlice
    <2>2. rows \in [Keys -> [Sync!Stamps -> Nat]]
        BY <1>1, <1>2
    <2>3. Strategy[t] = "HYBRID" =>
             rows = [k \in Keys |-> IF slice2[k] # 0 THEN Sync!Holding(slice2)[k]
                                                     ELSE target[t][k]]
        BY DEF Sync!DeletesUnmatched
    <2> HIDE DEF rows
    <2>4. /\ UNCHANGED <<source, horizon, control, queue, run2, started, phase2, seen,
                         staged2, current2, slice2>>
          /\ step2' = "audit"
          /\ target' \in [Tables -> [Keys -> [Sync!Stamps -> Nat]]]
          /\ \A u \in Tables : u # t => target'[u] = target[u]
          /\ target'[t] = rows
        BY <1>3, <2>1, <2>2
    <2>5. QED
        BY <2>1, <2>3, <2>4
<1>8. QED
    BY <1>4, <1>5, <1>6, <1>7 DEF WritesOf

\* The environment: applications change a row, an operator edits is_active.
LEMMA SourceEffect ==
    ASSUME TypeInv, NEW t \in Tables, Load!SourceWrite(t) \/ Load!SourceDelete(t)
    PROVE  /\ UNCHANGED <<horizon, target, control, setup, task1, run1, started1, step1, current1, pending,
                          slice1, seed>>
           /\ \E k \in Keys, v \in Sync!Versions :
                 /\ v = 0 \/ v > horizon[t]
                 /\ source' = [source EXCEPT ![t][k] = v]
<1>1. UNCHANGED <<horizon, target, control, setup, task1, run1, started1, step1, current1, pending,
                  slice1, seed>>
    BY DEF Load!SourceWrite, Load!SourceDelete, Load!storeVars, Load!jobVars, Load!loopVars,
           Load!itemVars
<1>2. CASE Load!SourceWrite(t)
    <2>1. PICK k \in Keys, s \in Load!Stamps :
              s > horizon[t] - 0 /\ source' = [source EXCEPT ![t][k] = s]
        BY <1>2, Zenon DEF Load!SourceWrite
    <2>2. horizon[t] \in Int
        BY Numbers DEF TypeInv, SharedTyped
    <2>3. s > horizon[t] /\ s \in Sync!Versions
        BY <2>1, <2>2, Numbers
    <2>4. QED
        BY <1>1, <2>1, <2>3, Zenon
<1>3. CASE Load!SourceDelete(t)
    <2>1. PICK k \in Keys : source' = [source EXCEPT ![t][k] = 0]
        BY <1>3, Zenon DEF Load!SourceDelete
    <2>2. 0 \in Sync!Versions
        BY Numbers
    <2>3. QED
        BY <1>1, <2>1, <2>2, Zenon
<1>4. QED
    BY <1>2, <1>3

LEMMA EditEffect ==
    ASSUME TypeInv, NEW t \in Tables, Load!EditActive(t)
    PROVE  /\ UNCHANGED <<source, horizon, target, setup, task1, run1, started1, step1, current1, pending,
                          slice1, seed>>
           /\ ControlKept
<1>1. UNCHANGED <<source, horizon, target, setup, task1, run1, started1, step1, current1, pending,
                  slice1, seed>>
    BY DEF Load!EditActive, Load!sourceVars, Load!jobVars, Load!loopVars, Load!itemVars
<1>2. control \in [Tables -> ControlRow] /\ control[t] \in ControlRow
    BY DEF TypeInv, SharedTyped
<1> DEFINE row == [control[t] EXCEPT !.active = ~control[t].active]
<1>3. control' = [control EXCEPT ![t] = row]
    BY DEF Load!EditActive
<1>4. row \in ControlRow /\ row.last = control[t].last
    BY <1>2 DEF ControlRow
<1> HIDE DEF row
<1>5. control' \in [Tables -> ControlRow] /\ \A u \in Tables : control'[u].last = control[u].last
    BY <1>2, <1>3, <1>4
<1>6. QED
    BY <1>1, <1>5 DEF ControlKept

\* NB10 reads MAX of the loaded target.
LEMMA SeedEffect ==
    ASSUME TypeInv, NEW t \in Tables, Load!ReadSeed(t)
    PROVE  /\ UNCHANGED <<source, horizon, target, control, setup, task1, run1, started1, pending, slice1>>
           /\ current1' = t /\ step1' = "commit" /\ task1 = "commit"
           /\ \/ ~Load!Temporal(t) /\ seed' = -1
              \/ /\ Load!Temporal(t) /\ seed' \in Sync!Versions
                 /\ seed' # 0 => \E k \in Keys : target[t][k][seed'] > 0
<1>1. /\ UNCHANGED <<source, horizon, target, control, setup, task1, run1, started1, pending, slice1>>
      /\ current1' = t /\ step1' = "commit" /\ task1 = "commit"
    BY DEF Load!ReadSeed, Load!sourceVars, Load!storeVars, Load!jobVars
<1>2. PICK m \in Load!Versions :
         /\ Load!IsMax(m, Load!TargetStamps([u \in Tables |-> u][t]))
         /\ seed' = IF Load!Temporal(t) THEN m ELSE Load!NULL
    BY Zenon DEF Load!ReadSeed
<1>3. m # 0 => \E k \in Keys : target[t][k][m] > 0
    BY <1>2 DEF Load!IsMax, Load!TargetStamps
<1>4. QED
    BY <1>1, <1>2, <1>3, Numbers

LEMMA LoadKeepsTypes == ASSUME TypeInv, LoadStep PROVE TypeInv'
<1> USE PipelinesAssumption, Numbers
<1>1. SyncTyped'
    BY DEF LoadStep, syncVars, TypeInv, SyncTyped
<1>2. StaysApart'
    BY DEF LoadStep, KeptApart, StaysApart
<1>3. SharedTyped' /\ SetupTyped' /\ LoadTyped'
    <2>1. CASE LoadRests
        <3>1. Load!NoSlice \in [Keys -> Sync!Versions]
            BY DEF Load!NoSlice
        <3>2. LoadTyped'
            BY <2>1, <3>1 DEF LoadRests, TypeInv, LoadTyped, LoopSteps
        <3>3. QED
            BY <2>1, <3>2 DEF LoadRests, SetupKept, TypeInv, SharedTyped
    <2>2. ASSUME NEW t \in Tables, Load!BeginLoad(t)
          PROVE  SharedTyped' /\ SetupTyped' /\ LoadTyped'
        <3>1. /\ UNCHANGED <<source, horizon, target, control, setup, run1, started1, task1, slice1, seed>>
              /\ task1 = "load" /\ current1' = t /\ step1' = "read" /\ pending' = {1}
            BY <2>2 DEF Load!BeginLoad, Load!sourceVars, Load!storeVars, Load!jobVars
        <3>2. QED
            BY <3>1 DEF TypeInv, SharedTyped, SetupTyped, LoadTyped
    <2>3. ASSUME NEW t \in Tables, Load!ReadPartition(t)
          PROVE  SharedTyped' /\ SetupTyped' /\ LoadTyped'
        <3>1. slice1' \in [Keys -> Sync!Versions]
            BY <2>3, ReadEffect DEF TypeInv, SharedTyped
        <3>2. QED
            BY <2>3, <3>1, ReadEffect DEF TypeInv, SharedTyped, SetupTyped, LoadTyped
    <2>4. ASSUME NEW t \in Tables, Load!OverwriteTarget(t)
          PROVE  SharedTyped' /\ SetupTyped' /\ LoadTyped'
        <3>1. /\ UNCHANGED <<source, horizon, control, setup, run1, started1, task1, slice1, seed, current1,
                             pending>>
              /\ step1 = "overwrite" /\ step1' = "log" /\ task1 = "load"
              /\ target' = [target EXCEPT ![t] = Load!Holding(slice1)]
            BY <2>4 DEF Load!OverwriteTarget, Load!sourceVars, Load!jobVars, Load!itemVars
        <3>2. target' \in [Tables -> [Keys -> [Sync!Stamps -> Nat]]]
            BY <3>1, HoldingTyped DEF TypeInv, SharedTyped
        <3>3. QED
            BY <3>1, <3>2 DEF TypeInv, SharedTyped, SetupTyped, LoadTyped, LoopSteps
    <2>5. ASSUME NEW t \in Tables, Load!ReadSeed(t)
          PROVE  SharedTyped' /\ SetupTyped' /\ LoadTyped'
        <3>1. seed' \in Sync!Marks
            BY <2>5, SeedEffect
        <3>2. QED
            BY <2>5, <3>1, SeedEffect DEF TypeInv, SharedTyped, SetupTyped, LoadTyped
    <2>6. ASSUME NEW t \in Tables, Load!CommitState(t) \/ Load!CommitFails(t)
          PROVE  SharedTyped' /\ SetupTyped' /\ LoadTyped'
        BY <2>6, CommitEffect DEF TypeInv, SharedTyped, SetupKept, LoadTyped, LoopSteps
    <2>7. QED
        BY <2>1, <2>2, <2>3, <2>4, <2>5, <2>6, LoadSteps DEF LoadStep
<1>4. QED
    BY <1>1, <1>2, <1>3 DEF TypeInv

LEMMA SyncKeepsTypes == ASSUME TypeInv, SyncStep PROVE TypeInv'
<1> USE PipelinesAssumption, Numbers
<1>1. SetupTyped' /\ LoadTyped'
    BY DEF SyncStep, loadVars, TypeInv, SetupTyped, LoadTyped
<1>2. StaysApart'
    BY DEF SyncStep, KeptApart, StaysApart
<1>3. SharedTyped' /\ SyncTyped'
    <2>1. CASE SyncRests
        BY <2>1 DEF SyncRests, ControlKept, TypeInv, SharedTyped
    <2>2. ASSUME NEW t \in Tables, Sync!QueueInterval(t) PROVE SharedTyped' /\ SyncTyped'
        BY <2>2, IntervalEffect DEF ControlKept, TypeInv, SharedTyped, SyncTyped
    <2>3. ASSUME NEW t \in Tables, Sync!ReadSlice(t), Strategy[t] \notin {"FULL_LOAD", "WATERMARK"}
          PROVE  SharedTyped' /\ SyncTyped'
        <3>1. /\ UNCHANGED <<source, horizon, target, control, queue, run2, started, phase2, seen,
                             staged2, current2>>
              /\ current2 = t /\ step2 = "read" /\ step2' = "merge"
            BY <2>3 DEF Sync!ReadSlice, Sync!sourceVars, Sync!storeVars, Sync!jobVars, Sync!prepVars
        <3>2. QED
            BY <2>3, <3>1, SliceTyped DEF TypeInv, SharedTyped, SyncTyped
    <2>4. ASSUME NEW t \in Tables, WritesOf(t) PROVE SharedTyped' /\ SyncTyped'
        BY <2>4, WriteEffect DEF TypeInv, SharedTyped, SyncTyped
    <2>5. ASSUME NEW t \in Tables, Sync!CommitCheckpoint(t) PROVE SharedTyped' /\ SyncTyped'
        BY <2>5, CheckpointEffect DEF TypeInv, SharedTyped, SyncTyped
    <2>6. QED
        BY <2>1, <2>2, <2>3, <2>4, <2>5, SyncSteps DEF SyncStep, WritesOf
<1>4. QED
    BY <1>1, <1>2, <1>3 DEF TypeInv

LEMMA TypeStep == TypeInv /\ [Next]_vars => TypeInv'
<1> SUFFICES ASSUME TypeInv, [Next]_vars PROVE TypeInv'
    OBVIOUS
<1>1. CASE LoadStep
    BY <1>1, LoadKeepsTypes
<1>2. CASE SyncStep
    BY <1>2, SyncKeepsTypes
<1>3. CASE Load!Environment /\ UNCHANGED syncVars
    <2>1. SyncTyped' /\ UNCHANGED phase2
        BY <1>3 DEF syncVars, TypeInv, SyncTyped
    <2>2. ASSUME NEW t \in Tables, Load!SourceWrite(t) \/ Load!SourceDelete(t) PROVE TypeInv'
        <3>1. PICK k \in Keys, v \in Sync!Versions : source' = [source EXCEPT ![t][k] = v]
            BY <2>2, SourceEffect
        <3>2. source' \in [Tables -> [Keys -> Sync!Versions]]
            BY <3>1 DEF TypeInv, SharedTyped
        <3>3. UNCHANGED <<horizon, target, control, setup, task1, run1, started1, step1, current1, pending,
                          slice1, seed>>
            BY <2>2, SourceEffect
        <3>4. QED
            BY <2>1, <3>2, <3>3 DEF TypeInv, SharedTyped, SetupTyped, LoadTyped, StaysApart
    <2>3. ASSUME NEW t \in Tables, Load!EditActive(t) PROVE TypeInv'
        BY <2>1, <2>3, EditEffect
        DEF ControlKept, TypeInv, SharedTyped, SetupTyped, LoadTyped, StaysApart
    <2>4. QED
        BY <1>3, <2>2, <2>3 DEF Load!Environment
<1>4. CASE UNCHANGED vars
    BY <1>4 DEF vars, sharedVars, loadVars, syncVars, TypeInv, SharedTyped, SetupTyped,
                LoadTyped, SyncTyped, StaysApart
<1>5. QED
    BY <1>1, <1>2, <1>3, <1>4 DEF Next

-----------------------------------------------------------------------------
(* What covers the checkpoint.  Every bound that is a checkpoint, may become  *)
(* one or is the lower end of an interval still to be applied is Kept: known  *)
(* to the source's clock and covered by the target.  NB10 seeds from the      *)
(* target, so the stamp of every stored row has to be Kept as well.           *)

Kept(t, b) == b <= horizon[t] /\ Sync!Covered(t, b)

BoundsKept(t) ==
    /\ Kept(t, control[t].last)
    /\ Kept(t, seen[t].last)
    /\ Kept(t, staged2[t].lower) /\ staged2[t].upper <= horizon[t]
    /\ \A r \in 1 .. MaxSyncs :
          Kept(t, queue[r][t].lower) /\ queue[r][t].upper <= horizon[t]

\* The interval that is merged and not yet committed.
WrittenKept(t) ==
    current2 = t /\ step2 \in {"audit", "commit"} => Kept(t, queue[run2][t].upper)

SeedKept(t) == current1 = t /\ step1 = "commit" => Kept(t, seed)

\* Every stored row is a possible seed; a key has one version.
RowsKept(t) ==
    \A k \in Keys, s \in Sync!Stamps : target[t][k][s] > 0 =>
        /\ Kept(t, s)
        /\ \A u \in Sync!Stamps : target[t][k][u] > 0 => s = u

\* NB09's complete extract: a row that changed since it was read carries a stamp
\* above the horizon.
ExtractComplete(t) ==
    current1 = t /\ step1 = "overwrite" =>
        \A k \in Keys :
            /\ slice1[k] <= horizon[t]
            /\ source[t][k] # 0 /\ source[t][k] <= horizon[t] => slice1[k] = source[t][k]

\* NB11b's cached slice, likewise.
SliceCurrent(t) ==
    current2 = t /\ step2 = "merge" =>
        \A k \in Keys :
            /\ slice2[k] # 0 => Sync!Selected(t, slice2[k])
            /\ source[t][k] # 0 /\ source[t][k] <= horizon[t] =>
                  slice2[k] = IF Sync!Selected(t, source[t][k]) THEN source[t][k] ELSE 0

MergedInv(t) ==
    BoundsKept(t) /\ WrittenKept(t) /\ SeedKept(t) /\ RowsKept(t)
    /\ ExtractComplete(t) /\ SliceCurrent(t)

\* A table without a watermark never gets a checkpoint.
Plain == {t \in Tables : Strategy[t] \in {"FULL_LOAD", "PRIMARY_KEY"}}
Unmarked(t) == control[t].last = -1 /\ (current1 = t /\ step1 = "commit" => seed = -1)

CoverInv == /\ TypeInv
            /\ \A t \in Sync!Merged : MergedInv(t)
            /\ \A t \in Plain : Unmarked(t)

\* The numbers of one table.
LEMMA TableNumbers ==
    ASSUME TypeInv, NEW t \in Tables
    PROVE  /\ horizon[t] \in Nat /\ horizon[t] \in Sync!Versions
           /\ \A k \in Keys : source[t][k] \in Nat /\ source[t][k] \in Sync!Versions
           /\ control[t].last \in Int /\ control[t].last \in Sync!Marks
           /\ seen[t].last \in Int /\ seen[t].last \in Sync!Marks
           /\ staged2[t].lower \in Int /\ staged2[t].lower \in Sync!Marks
           /\ staged2[t].upper \in Int /\ staged2[t].upper \in Sync!Marks
           /\ \A r \in 1 .. MaxSyncs :
                 /\ queue[r][t].lower \in Int /\ queue[r][t].lower \in Sync!Marks
                 /\ queue[r][t].upper \in Int /\ queue[r][t].upper \in Sync!Marks
           /\ seed \in Int /\ seed \in Sync!Marks
           /\ \A k \in Keys : slice1[k] \in Nat /\ slice2[k] \in Nat
<1>1. horizon[t] \in Sync!Versions /\ \A k \in Keys : source[t][k] \in Sync!Versions
    BY DEF TypeInv, SharedTyped
<1>2. control[t].last \in Sync!Marks
    <2>1. control[t] \in ControlRow
        BY DEF TypeInv, SharedTyped
    <2>2. QED
        BY <2>1 DEF ControlRow
<1>3. seen[t].last \in Sync!Marks
    <2>1. seen[t] \in [config : Sync!Configs, last : Sync!Marks]
        BY DEF TypeInv, SyncTyped
    <2>2. QED
        BY <2>1
<1>4. staged2[t].lower \in Sync!Marks /\ staged2[t].upper \in Sync!Marks
    <2>1. staged2[t] \in Sync!QueueRow
        BY DEF TypeInv, SyncTyped
    <2>2. QED
        BY <2>1 DEF Sync!QueueRow
<1>5. ASSUME NEW r \in 1 .. MaxSyncs
      PROVE  queue[r][t].lower \in Sync!Marks /\ queue[r][t].upper \in Sync!Marks
    <2>1. queue[r][t] \in Sync!QueueRow
        BY DEF TypeInv, SyncTyped
    <2>2. QED
        BY <2>1 DEF Sync!QueueRow
<1>6. seed \in Sync!Marks /\ \A k \in Keys : slice1[k] \in Sync!Versions /\ slice2[k] \in Sync!Versions
    BY DEF TypeInv, LoadTyped, SyncTyped
<1>7. QED
    BY <1>1, <1>2, <1>3, <1>4, <1>5, <1>6, Numbers

\* Nothing is below the first stamp.
LEMMA NothingBelow ==
    ASSUME TypeInv, NEW t \in Tables
    PROVE  Kept(t, -1) /\ Kept(t, 0)
BY TableNumbers DEF Kept, Sync!Covered

LEMMA CoverInit == Init => CoverInv
<1> SUFFICES ASSUME Init PROVE CoverInv
    OBVIOUS
<1>1. TypeInv
    BY TypeInit
<1>2. ASSUME NEW t \in Tables
      PROVE  /\ control[t].last = -1 /\ current1 # t /\ current2 # t /\ seen[t].last = -1
             /\ NoBounds(staged2[t]) /\ \A r \in 1 .. MaxSyncs : NoBounds(queue[r][t])
             /\ \A k \in Keys, s \in Sync!Stamps : target[t][k][s] = 0
    <2>1. control[t].last = -1 /\ current1 # t /\ current2 # t
        BY PipelinesAssumption DEF Init
    <2>2. seen[t].last = -1
        BY Numbers DEF Init, Sync!NotSeen
    <2>3. NoBounds(staged2[t]) /\ \A r \in 1 .. MaxSyncs : NoBounds(queue[r][t])
        BY Numbers DEF Init, Sync!NoRows, Sync!NoRow, NoBounds
    <2>4. \A k \in Keys, s \in Sync!Stamps : target[t][k][s] = 0
        BY Numbers, HoldingTyped DEF Init, Sync!NoSlice
    <2>5. QED
        BY <2>1, <2>2, <2>3, <2>4
<1>3. ASSUME NEW t \in Tables PROVE MergedInv(t) /\ Unmarked(t)
    <2>1. BoundsKept(t)
        BY <1>1, <1>2, NothingBelow, TableNumbers DEF BoundsKept, NoBounds
    <2>2. QED
        BY <1>2, <2>1
        DEF MergedInv, WrittenKept, SeedKept, RowsKept, ExtractComplete, SliceCurrent, Unmarked
<1>4. QED
    BY <1>1, <1>3 DEF CoverInv, Sync!Merged, Plain

\* Kept in the next state, of a bound known now.
KeptAfter(t, b) ==
    /\ b <= horizon'[t]
    /\ \A k \in Keys : source'[t][k] # 0 /\ source'[t][k] <= b
                          => target'[t][k][source'[t][k]] > 0

\* No bound of t is lost.
KeepsBounds(t) ==
    /\ horizon'[t] >= horizon[t]
    /\ \A b \in Sync!Marks : Kept(t, b) => KeptAfter(t, b)

SameData(t) ==
    source'[t] = source[t] /\ target'[t] = target[t] /\ horizon'[t] = horizon[t]

LEMMA DataKeepsBounds ==
    ASSUME TypeInv, NEW t \in Tables, SameData(t)
    PROVE  KeepsBounds(t)
BY TableNumbers DEF SameData, KeepsBounds, Kept, KeptAfter, Sync!Covered

LEMMA LaterHorizonKeepsBounds ==
    ASSUME TypeInv, TypeInv', NEW t \in Tables, source'[t] = source[t], target'[t] = target[t],
           horizon'[t] >= horizon[t]
    PROVE  KeepsBounds(t)
<1>1. horizon[t] \in Int /\ horizon'[t] \in Int
    BY Numbers DEF TypeInv, SharedTyped
<1>2. \A b \in Sync!Marks : b \in Int
    BY Numbers
<1>3. QED
    BY <1>1, <1>2 DEF KeepsBounds, Kept, KeptAfter, Sync!Covered

\* The bounds of t stay where they are.
LEMMA BoundsStay ==
    ASSUME TypeInv, TypeInv', NEW t \in Tables, MergedInv(t), KeepsBounds(t),
           control'[t].last = control[t].last, seen'[t] = seen[t], staged2'[t] = staged2[t],
           UNCHANGED queue
    PROVE  BoundsKept(t)'
<1>1. /\ horizon[t] \in Int /\ horizon'[t] \in Int /\ horizon'[t] >= horizon[t]
      /\ \A b \in Sync!Marks : Kept(t, b) => KeptAfter(t, b)
    BY Numbers DEF TypeInv, SharedTyped, KeepsBounds
<1>2. BoundsKept(t)
    BY DEF MergedInv
<1>3. KeptAfter(t, control[t].last) /\ KeptAfter(t, seen[t].last) /\ KeptAfter(t, staged2[t].lower)
    BY <1>1, <1>2, TableNumbers DEF BoundsKept
<1>4. staged2[t].upper <= horizon'[t]
    BY <1>1, <1>2, TableNumbers DEF BoundsKept
<1>5. \A r \in 1 .. MaxSyncs :
         KeptAfter(t, queue[r][t].lower) /\ queue[r][t].upper <= horizon'[t]
    BY <1>1, <1>2, TableNumbers DEF BoundsKept
<1>6. QED
    BY <1>3, <1>4, <1>5 DEF BoundsKept, Kept, KeptAfter, Sync!Covered

\* So do the item of NB11b and the item of NB10.
LEMMA WrittenStays ==
    ASSUME TypeInv, NEW t \in Tables, MergedInv(t), KeepsBounds(t),
           UNCHANGED <<current2, step2, run2, queue>>
    PROVE  WrittenKept(t)'
<1> SUFFICES ASSUME current2 = t, step2 \in {"audit", "commit"}
             PROVE  KeptAfter(t, queue[run2][t].upper)
    BY DEF WrittenKept, Kept, KeptAfter, Sync!Covered
<1>1. Kept(t, queue[run2][t].upper)
    BY DEF MergedInv, WrittenKept
<1>2. run2 \in 1 .. MaxSyncs
    BY PipelinesAssumption DEF TypeInv, SyncTyped
<1>3. QED
    BY <1>1, <1>2, TableNumbers DEF KeepsBounds

LEMMA SeedStays ==
    ASSUME TypeInv, NEW t \in Tables, MergedInv(t), KeepsBounds(t),
           UNCHANGED <<current1, step1, seed>>
    PROVE  SeedKept(t)'
<1> SUFFICES ASSUME current1 = t, step1 = "commit" PROVE KeptAfter(t, seed)
    BY DEF SeedKept, Kept, KeptAfter, Sync!Covered
<1>1. Kept(t, seed)
    BY DEF MergedInv, SeedKept
<1>2. QED
    BY <1>1, TableNumbers DEF KeepsBounds

LEMMA RowsStay ==
    ASSUME TypeInv, NEW t \in Tables, MergedInv(t), KeepsBounds(t), target'[t] = target[t]
    PROVE  RowsKept(t)'
<1> SUFFICES ASSUME NEW k \in Keys, NEW s \in Sync!Stamps, target[t][k][s] > 0
             PROVE  /\ KeptAfter(t, s)
                    /\ \A u \in Sync!Stamps : target[t][k][u] > 0 => s = u
    BY DEF RowsKept, Kept, KeptAfter, Sync!Covered
<1>1. s \in Sync!Marks
    BY Numbers
<1>2. QED
    BY <1>1 DEF MergedInv, RowsKept, KeepsBounds

LEMMA ExtractStays ==
    ASSUME NEW t \in Tables, MergedInv(t), SameData(t), UNCHANGED <<current1, step1, slice1>>
    PROVE  ExtractComplete(t)'
BY DEF MergedInv, ExtractComplete, SameData

LEMMA SliceStays ==
    ASSUME TypeInv, NEW t \in Tables, MergedInv(t), SameData(t),
           UNCHANGED <<current2, step2, slice2, queue, run2>>
    PROVE  SliceCurrent(t)'
BY DEF MergedInv, SliceCurrent, SameData, Sync!Selected

\* A step that is about other tables, or about none.
LEMMA OtherTable ==
    ASSUME TypeInv, TypeInv', NEW t \in Tables, MergedInv(t), SameData(t),
           control'[t].last = control[t].last, seen'[t] = seen[t], staged2'[t] = staged2[t],
           UNCHANGED <<queue, run2>>,
           \/ UNCHANGED <<current1, step1, slice1, seed>>
           \/ current1' # t
           \/ step1' \notin {"overwrite", "commit"},
           \/ UNCHANGED <<current2, step2, slice2>>
           \/ current2' # t
           \/ step2' \notin {"merge", "audit", "commit"}
    PROVE  MergedInv(t)'
<1>1. KeepsBounds(t)
    BY DataKeepsBounds
<1>2. BoundsKept(t)' /\ RowsKept(t)'
    BY <1>1, BoundsStay, RowsStay DEF SameData
<1>3. SeedKept(t)' /\ ExtractComplete(t)'
    <2>1. CASE UNCHANGED <<current1, step1, slice1, seed>>
        BY <1>1, <2>1, SeedStays, ExtractStays
    <2>2. CASE current1' # t \/ step1' \notin {"overwrite", "commit"}
        BY <2>2 DEF SeedKept, ExtractComplete
    <2>3. QED
        BY <2>1, <2>2
<1>4. WrittenKept(t)' /\ SliceCurrent(t)'
    <2>1. CASE UNCHANGED <<current2, step2, slice2>>
        BY <1>1, <2>1, WrittenStays, SliceStays
    <2>2. CASE current2' # t \/ step2' \notin {"merge", "audit", "commit"}
        BY <2>2 DEF WrittenKept, SliceCurrent
    <2>3. QED
        BY <2>1, <2>2
<1>5. QED
    BY <1>2, <1>3, <1>4 DEF MergedInv

-----------------------------------------------------------------------------
(* JOB01.                                                                  *)

LEMMA MergedIsTemporal ==
    ASSUME NEW t \in Sync!Merged
    PROVE  t \in Tables /\ Strategy[t] = "HYBRID" /\ t \in Sync!Temporal
BY DEF Sync!Merged, Sync!Temporal

\* While NB09 runs, no run of JOB02 has an item in hand.
LEMMA LoadIsAlone ==
    ASSUME TypeInv, "load" \in Apart, task1 = "load"
    PROVE  phase2 = "idle" /\ current2 = NoTable
BY DEF TypeInv, StaysApart, SyncTyped

\* A new extract.
LEMMA ReadKeeps ==
    ASSUME CoverInv, TypeInv', "load" \in Apart, UNCHANGED syncVars,
           NEW t \in Sync!Merged, Load!ReadPartition(t)
    PROVE  MergedInv(t)'
<1>1. TypeInv /\ MergedInv(t) /\ t \in Tables
    BY MergedIsTemporal DEF CoverInv
<1>2. current2' = NoTable /\ current2' # t
    BY <1>1, LoadIsAlone, ReadEffect, PipelinesAssumption DEF TypeInv, LoadTyped, syncVars
<1>3. KeepsBounds(t)
    BY <1>1, LaterHorizonKeepsBounds, ReadEffect
<1>4. BoundsKept(t)' /\ RowsKept(t)'
    BY <1>1, <1>3, BoundsStay, RowsStay, ReadEffect DEF syncVars
<1>5. SeedKept(t)' /\ WrittenKept(t)' /\ SliceCurrent(t)'
    BY <1>1, <1>2, ReadEffect DEF SeedKept, WrittenKept, SliceCurrent
<1>6. ExtractComplete(t)'
    BY <1>1, ReadEffect DEF ExtractComplete
<1>7. QED
    BY <1>4, <1>5, <1>6 DEF MergedInv

\* The extract replaces the target: it has everything up to the horizon, so no
\* bound that JOB02 left behind is lost.
LEMMA OverwriteKeeps ==
    ASSUME CoverInv, TypeInv', "load" \in Apart, UNCHANGED syncVars,
           NEW t \in Sync!Merged, Load!OverwriteTarget(t)
    PROVE  MergedInv(t)'
<1>1. TypeInv /\ MergedInv(t) /\ t \in Tables
    BY MergedIsTemporal DEF CoverInv
<1>2. /\ UNCHANGED <<source, horizon, control, slice1>>
      /\ current1 = t /\ step1 = "overwrite" /\ step1' = "log" /\ task1 = "load"
      /\ target' = [target EXCEPT ![t] = Load!Holding(slice1)]
    BY <1>1 DEF Load!OverwriteTarget, Load!sourceVars, Load!itemVars
<1>3. current2' # t
    BY <1>1, <1>2, LoadIsAlone, PipelinesAssumption DEF syncVars
<1>4. \A k \in Keys, s \in Sync!Stamps : target'[t][k][s] = IF slice1[k] = s THEN 1 ELSE 0
    BY <1>1, <1>2, HoldingTyped DEF TypeInv, SharedTyped
<1>5. \A k \in Keys :
         /\ slice1[k] <= horizon[t]
         /\ source[t][k] # 0 /\ source[t][k] <= horizon[t] => slice1[k] = source[t][k]
    BY <1>1, <1>2 DEF MergedInv, ExtractComplete
<1>6. ASSUME NEW b \in Int, b <= horizon[t] PROVE KeptAfter(t, b)
    <2> SUFFICES ASSUME NEW k \in Keys, source[t][k] # 0, source[t][k] <= b
                 PROVE  target'[t][k][source[t][k]] > 0
        BY <1>2, <1>6 DEF KeptAfter
    <2>1. source[t][k] \in Nat /\ source[t][k] \in Sync!Stamps /\ horizon[t] \in Nat
        BY <1>1, TableNumbers, Numbers
    <2>2. slice1[k] = source[t][k]
        BY <1>5, <1>6, <2>1
    <2>3. QED
        BY <1>4, <2>1, <2>2
<1>7. KeepsBounds(t)
    BY <1>1, <1>2, <1>6, Numbers, TableNumbers DEF KeepsBounds, Kept
<1>8. BoundsKept(t)'
    BY <1>1, <1>2, <1>7, BoundsStay DEF syncVars
<1>9. RowsKept(t)'
    <2> SUFFICES ASSUME NEW k \in Keys, NEW s \in Sync!Stamps, target'[t][k][s] > 0
                 PROVE  /\ KeptAfter(t, s)
                        /\ \A u \in Sync!Stamps : target'[t][k][u] > 0 => s = u
        BY DEF RowsKept, Kept, KeptAfter, Sync!Covered
    <2>1. slice1[k] = s
        BY <1>4
    <2>2. s \in Int /\ s <= horizon[t]
        BY <1>5, <2>1, Numbers
    <2>3. QED
        BY <1>4, <1>6, <2>1, <2>2
<1>10. SeedKept(t)' /\ ExtractComplete(t)' /\ WrittenKept(t)' /\ SliceCurrent(t)'
    BY <1>2, <1>3 DEF SeedKept, ExtractComplete, WrittenKept, SliceCurrent
<1>11. QED
    BY <1>8, <1>9, <1>10 DEF MergedInv

\* NB10 reads its seed from the target.
LEMMA SeedKeeps ==
    ASSUME CoverInv, TypeInv', UNCHANGED syncVars, NEW t \in Sync!Merged, Load!ReadSeed(t)
    PROVE  MergedInv(t)'
<1>1. TypeInv /\ MergedInv(t) /\ t \in Tables
    BY MergedIsTemporal DEF CoverInv
<1>2. SameData(t) /\ UNCHANGED control
    BY <1>1, SeedEffect DEF SameData
<1>3. KeepsBounds(t)
    BY <1>1, <1>2, DataKeepsBounds
<1>4. BoundsKept(t)' /\ RowsKept(t)' /\ WrittenKept(t)' /\ SliceCurrent(t)'
    BY <1>1, <1>2, <1>3, BoundsStay, RowsStay, WrittenStays, SliceStays DEF SameData, syncVars
<1>5. \E b \in Sync!Marks : b = seed' /\ Kept(t, b)
    <2>1. CASE seed' = -1 \/ seed' = 0
        BY <1>1, <2>1, NothingBelow, Numbers
    <2>2. CASE ~(seed' = -1 \/ seed' = 0)
        <3>1. seed' \in Sync!Versions /\ \E k \in Keys : target[t][k][seed'] > 0
            BY <1>1, <2>2, SeedEffect
        <3>2. seed' \in Sync!Stamps
            BY <2>2, <3>1, Numbers
        <3>3. QED
            BY <1>1, <3>1, <3>2, Numbers DEF MergedInv, RowsKept
    <2>3. QED
        BY <2>1, <2>2
<1>6. KeptAfter(t, seed')
    BY <1>3, <1>5 DEF KeepsBounds
<1>7. SeedKept(t)'
    BY <1>6 DEF SeedKept, Kept, KeptAfter, Sync!Covered
<1>8. ExtractComplete(t)'
    BY <1>1, SeedEffect DEF ExtractComplete
<1>9. QED
    BY <1>4, <1>7, <1>8 DEF MergedInv

\* NB10 replaces the checkpoint, even one that JOB02 has moved meanwhile.
LEMMA CommitKeeps ==
    ASSUME CoverInv, TypeInv', UNCHANGED syncVars, NEW t \in Sync!Merged,
           Load!CommitState(t) \/ Load!CommitFails(t)
    PROVE  MergedInv(t)'
<1>1. TypeInv /\ MergedInv(t) /\ t \in Tables
    BY MergedIsTemporal DEF CoverInv
<1>2. SameData(t)
    BY <1>1, CommitEffect DEF SameData
<1>3. KeepsBounds(t)
    BY <1>1, <1>2, DataKeepsBounds
<1>4. RowsKept(t)' /\ WrittenKept(t)' /\ SliceCurrent(t)'
    BY <1>1, <1>2, <1>3, RowsStay, WrittenStays, SliceStays DEF SameData, syncVars
<1>5. SeedKept(t)' /\ ExtractComplete(t)'
    BY <1>1, CommitEffect DEF SeedKept, ExtractComplete
<1>6. KeptAfter(t, control[t].last) /\ KeptAfter(t, seed)
    <2>1. Kept(t, control[t].last) /\ Kept(t, seed)
        BY <1>1, CommitEffect DEF MergedInv, BoundsKept, SeedKept
    <2>2. QED
        BY <1>1, <1>3, <2>1, TableNumbers DEF KeepsBounds
<1>7. KeptAfter(t, control'[t].last)
    BY <1>1, <1>6, CommitEffect
<1>8. BoundsKept(t)'
    <2>1. /\ BoundsKept(t) /\ SameData(t) /\ UNCHANGED <<seen, staged2, queue>>
        BY <1>1, <1>2 DEF MergedInv, syncVars
    <2>2. QED
        BY <1>7, <2>1 DEF BoundsKept, Kept, KeptAfter, Sync!Covered, SameData
<1>9. QED
    BY <1>4, <1>5, <1>8 DEF MergedInv

LEMMA LoadKeepsMerged ==
    ASSUME CoverInv, TypeInv', "load" \in Apart, LoadStep, NEW t \in Sync!Merged
    PROVE  MergedInv(t)'
<1>1. TypeInv /\ MergedInv(t) /\ t \in Tables /\ UNCHANGED syncVars
    BY MergedIsTemporal DEF CoverInv, LoadStep
<1>2. UNCHANGED <<seen, staged2, queue, run2, current2, step2, slice2>>
    BY <1>1 DEF syncVars
<1>3. CASE LoadRests
    <2>1. SameData(t) /\ UNCHANGED control /\ step1' \notin {"overwrite", "commit"}
        BY <1>3 DEF LoadRests, SameData, LoopSteps
    <2>2. QED
        BY <1>1, <1>2, <2>1, OtherTable
<1>4. ASSUME NEW u \in Tables, Load!BeginLoad(u) PROVE MergedInv(t)'
    <2>1. UNCHANGED <<source, horizon, target, control>> /\ step1' = "read"
        BY <1>4 DEF Load!BeginLoad, Load!sourceVars, Load!storeVars
    <2>2. SameData(t)
        BY <2>1 DEF SameData
    <2>3. QED
        BY <1>1, <1>2, <2>1, <2>2, OtherTable
<1>5. ASSUME NEW u \in Tables, u # t,
             \/ Load!ReadPartition(u) \/ Load!OverwriteTarget(u) \/ Load!ReadSeed(u)
             \/ Load!CommitState(u) \/ Load!CommitFails(u)
      PROVE  MergedInv(t)'
    <2>1. CASE Load!ReadPartition(u)
        <3>1. SameData(t) /\ UNCHANGED control /\ current1' # t
            BY <1>1, <1>5, <2>1, ReadEffect DEF SameData
        <3>2. QED
            BY <1>1, <1>2, <3>1, OtherTable
    <2>2. CASE Load!OverwriteTarget(u)
        <3>1. /\ UNCHANGED <<source, horizon, control, current1>> /\ current1 = u
              /\ target' = [target EXCEPT ![u] = Load!Holding(slice1)]
            BY <2>2 DEF Load!OverwriteTarget, Load!sourceVars, Load!itemVars
        <3>2. SameData(t) /\ current1' # t
            BY <1>1, <1>5, <3>1 DEF SameData, TypeInv, SharedTyped
        <3>3. QED
            BY <1>1, <1>2, <3>1, <3>2, OtherTable
    <2>3. CASE Load!ReadSeed(u)
        <3>1. SameData(t) /\ UNCHANGED control /\ current1' # t
            BY <1>1, <1>5, <2>3, SeedEffect DEF SameData
        <3>2. QED
            BY <1>1, <1>2, <3>1, OtherTable
    <2>4. CASE Load!CommitState(u) \/ Load!CommitFails(u)
        <3>1. SameData(t) /\ control'[t].last = control[t].last /\ step1' = "loop"
            BY <1>1, <1>5, <2>4, CommitEffect DEF SameData
        <3>2. QED
            BY <1>1, <1>2, <3>1, OtherTable
    <2>5. QED
        BY <1>5, <2>1, <2>2, <2>3, <2>4
<1>6. ASSUME \/ Load!ReadPartition(t) \/ Load!OverwriteTarget(t) \/ Load!ReadSeed(t)
             \/ Load!CommitState(t) \/ Load!CommitFails(t)
      PROVE  MergedInv(t)'
    BY <1>1, <1>6, ReadKeeps, OverwriteKeeps, SeedKeeps, CommitKeeps
<1>7. QED
    BY <1>1, <1>3, <1>4, <1>5, <1>6, LoadSteps DEF LoadStep

-----------------------------------------------------------------------------
(* JOB02.                                                                  *)

\* A bound that is handed on was kept where it was.
LEMMA RestsKeepMerged ==
    ASSUME CoverInv, TypeInv', SyncRests, UNCHANGED loadVars, NEW t \in Sync!Merged
    PROVE  MergedInv(t)'
<1>1. TypeInv /\ MergedInv(t) /\ t \in Tables
    BY MergedIsTemporal DEF CoverInv
<1>2. SameData(t) /\ control'[t].last = control[t].last
    BY <1>1 DEF SyncRests, ControlKept, SameData
<1>3. KeepsBounds(t)
    BY <1>1, <1>2, DataKeepsBounds
<1>4. SeedKept(t)' /\ RowsKept(t)' /\ ExtractComplete(t)'
    BY <1>1, <1>2, <1>3, SeedStays, RowsStay, ExtractStays DEF SameData, loadVars
<1>5. step2' # "merge"
    BY DEF SyncRests
<1>6. SliceCurrent(t)'
    BY <1>5 DEF SliceCurrent
<1>7. WrittenKept(t)'
    <2>1. CASE step2' \notin {"audit", "commit"}
        BY <2>1 DEF WrittenKept
    <2>2. CASE UNCHANGED <<current2, run2, queue>> /\ step2 = "audit" /\ step2' = "commit"
        <3>1. SUFFICES ASSUME current2 = t PROVE KeptAfter(t, queue[run2][t].upper)
            BY <2>2 DEF WrittenKept, Kept, KeptAfter, Sync!Covered
        <3>2. Kept(t, queue[run2][t].upper) /\ run2 \in 1 .. MaxSyncs
            BY <1>1, <2>2, <3>1, PipelinesAssumption
            DEF MergedInv, WrittenKept, TypeInv, SyncTyped
        <3>3. QED
            BY <1>1, <1>3, <3>2, TableNumbers DEF KeepsBounds
    <2>3. QED
        BY <2>1, <2>2 DEF SyncRests
<1>8. KeptAfter(t, -1)
    BY <1>1, <1>3, NothingBelow, Numbers DEF KeepsBounds
<1>9. BoundsKept(t)
    BY <1>1 DEF MergedInv
<1>10. KeptAfter(t, control[t].last) /\ KeptAfter(t, seen[t].last) /\ KeptAfter(t, staged2[t].lower)
    BY <1>1, <1>3, <1>9, TableNumbers DEF KeepsBounds, BoundsKept
<1>11. \A r \in 1 .. MaxSyncs : KeptAfter(t, queue[r][t].lower)
    BY <1>1, <1>3, <1>9, TableNumbers DEF KeepsBounds, BoundsKept
<1>12. KeptAfter(t, control'[t].last) /\ KeptAfter(t, seen'[t].last) /\ KeptAfter(t, staged2'[t].lower)
    <2>1. seen'[t].last \in {seen[t].last, control[t].last, -1}
        BY <1>1 DEF SyncRests
    <2>2. staged2'[t].lower \in {staged2[t].lower, -1}
        BY <1>1 DEF SyncRests, SameBounds, NoBounds
    <2>3. QED
        BY <1>2, <1>8, <1>10, <2>1, <2>2
<1>13. staged2'[t].upper <= horizon'[t]
    <2>1. staged2'[t].upper \in {staged2[t].upper, -1}
        BY <1>1 DEF SyncRests, SameBounds, NoBounds
    <2>2. -1 <= horizon[t]
        BY <1>1, TableNumbers
    <2>3. QED
        BY <1>2, <1>9, <2>1, <2>2 DEF SameData, BoundsKept
<1>14. ASSUME NEW r \in 1 .. MaxSyncs
       PROVE  KeptAfter(t, queue'[r][t].lower) /\ queue'[r][t].upper <= horizon'[t]
    <2>1. SameBounds(queue'[r][t], queue[r][t]) \/ SameBounds(queue'[r][t], staged2[t])
        BY <1>1 DEF SyncRests
    <2>2. \/ queue'[r][t].lower = queue[r][t].lower /\ queue'[r][t].upper = queue[r][t].upper
          \/ queue'[r][t].lower = staged2[t].lower /\ queue'[r][t].upper = staged2[t].upper
        BY <2>1 DEF SameBounds
    <2>3. queue[r][t].upper <= horizon[t] /\ staged2[t].upper <= horizon[t]
        BY <1>9 DEF BoundsKept
    <2>4. QED
        BY <1>2, <1>10, <1>11, <2>2, <2>3 DEF SameData
<1>15. BoundsKept(t)'
    BY <1>12, <1>13, <1>14 DEF BoundsKept, Kept, KeptAfter, Sync!Covered
<1>16. QED
    BY <1>4, <1>6, <1>7, <1>15 DEF MergedInv

\* A new interval begins at the checkpoint NB11a has seen.
LEMMA IntervalKeeps ==
    ASSUME CoverInv, TypeInv', "load" \in Apart, UNCHANGED loadVars,
           NEW t \in Sync!Merged, Sync!QueueInterval(t)
    PROVE  MergedInv(t)'
<1>1. TypeInv /\ MergedInv(t) /\ t \in Tables
    BY MergedIsTemporal DEF CoverInv
<1>2. phase2 = "prep" /\ current2 = NoTable /\ current2' # t /\ step1' # "overwrite"
    <2>1. phase2 = "prep" /\ current2' = current2
        BY <1>1, IntervalEffect
    <2>2. current2 = NoTable /\ task1 # "load"
        BY <1>1, <2>1 DEF TypeInv, SyncTyped, StaysApart
    <2>3. step1 # "overwrite"
        BY <1>1, <2>2 DEF TypeInv, LoadTyped
    <2>4. QED
        BY <1>1, <2>1, <2>2, <2>3, PipelinesAssumption DEF loadVars
<1>3. KeepsBounds(t)
    BY <1>1, LaterHorizonKeepsBounds, IntervalEffect
<1>4. SeedKept(t)' /\ RowsKept(t)'
    BY <1>1, <1>3, SeedStays, RowsStay, IntervalEffect DEF loadVars
<1>5. WrittenKept(t)' /\ SliceCurrent(t)' /\ ExtractComplete(t)'
    BY <1>2 DEF WrittenKept, SliceCurrent, ExtractComplete
<1>6. BoundsKept(t)
    BY <1>1 DEF MergedInv
<1>7. KeptAfter(t, control[t].last) /\ KeptAfter(t, seen[t].last)
    BY <1>1, <1>3, <1>6, TableNumbers DEF KeepsBounds, BoundsKept
<1>8. \A r \in 1 .. MaxSyncs : KeptAfter(t, queue[r][t].lower)
    BY <1>1, <1>3, <1>6, TableNumbers DEF KeepsBounds, BoundsKept
<1>9. ASSUME NEW r \in 1 .. MaxSyncs PROVE queue[r][t].upper <= horizon'[t]
    <2>1. queue[r][t].upper <= horizon[t] /\ horizon[t] <= horizon'[t]
        BY <1>3, <1>6 DEF BoundsKept, KeepsBounds
    <2>2. horizon[t] \in Int /\ horizon'[t] \in Int /\ queue[r][t].upper \in Int
        BY <1>1, TableNumbers, Numbers DEF TypeInv, SharedTyped
    <2>3. QED
        BY <2>1, <2>2
<1>10. /\ control'[t].last = control[t].last /\ seen' = seen /\ queue' = queue
       /\ staged2'[t].lower = seen[t].last /\ staged2'[t].upper <= horizon'[t]
    BY <1>1, IntervalEffect DEF ControlKept
<1>11. BoundsKept(t)'
    BY <1>7, <1>8, <1>9, <1>10 DEF BoundsKept, Kept, KeptAfter, Sync!Covered
<1>12. QED
    BY <1>4, <1>5, <1>11 DEF MergedInv

\* NB11b reads a slice.
LEMMA SliceKeeps ==
    ASSUME CoverInv, TypeInv', UNCHANGED loadVars, NEW t \in Sync!Merged, Sync!ReadSlice(t)
    PROVE  MergedInv(t)'
<1>1. TypeInv /\ MergedInv(t) /\ t \in Tables
    BY MergedIsTemporal DEF CoverInv
<1>2. /\ UNCHANGED <<source, horizon, target, control, queue, run2, seen, staged2, current2>>
      /\ current2 = t /\ step2' = "merge"
      /\ slice2' = [k \in Keys |-> IF Sync!Selected(t, source[t][k]) THEN source[t][k] ELSE 0]
    BY MergedIsTemporal
    DEF Sync!ReadSlice, Sync!sourceVars, Sync!storeVars, Sync!jobVars, Sync!prepVars
<1>3. SameData(t)
    BY <1>2 DEF SameData
<1>4. KeepsBounds(t)
    BY <1>1, <1>3, DataKeepsBounds
<1>5. BoundsKept(t)' /\ RowsKept(t)' /\ SeedKept(t)' /\ ExtractComplete(t)'
    BY <1>1, <1>2, <1>3, <1>4, BoundsStay, RowsStay, SeedStays, ExtractStays DEF loadVars
<1>6. WrittenKept(t)'
    BY <1>2 DEF WrittenKept
<1>7. SliceCurrent(t)'
    BY <1>2 DEF SliceCurrent, Sync!Selected
<1>8. QED
    BY <1>5, <1>6, <1>7 DEF MergedInv

\* NB11b merges it: what was covered stays covered, and so is the interval.
LEMMA MergeKeeps ==
    ASSUME CoverInv, TypeInv', UNCHANGED loadVars, NEW t \in Sync!Merged, WritesOf(t)
    PROVE  MergedInv(t)'
<1>1. TypeInv /\ MergedInv(t) /\ t \in Tables /\ Strategy[t] = "HYBRID" /\ t \in Sync!Temporal
    BY MergedIsTemporal DEF CoverInv
<1> DEFINE lower == queue[run2][t].lower
           upper == queue[run2][t].upper
<1>2. /\ UNCHANGED <<source, horizon, control, queue, run2, seen, staged2, current2, slice2>>
      /\ current2 = t /\ step2 = "merge" /\ step2' = "audit"
      /\ target'[t] = [k \in Keys |-> IF slice2[k] # 0 THEN Sync!Holding(slice2)[k]
                                                       ELSE target[t][k]]
    BY <1>1, WriteEffect
<1>3. /\ run2 \in 1 .. MaxSyncs /\ lower \in Int /\ upper \in Int /\ upper \in Sync!Marks
      /\ Kept(t, lower) /\ upper <= horizon[t]
    <2>1. run2 \in 1 .. MaxSyncs
        BY <1>1, <1>2, PipelinesAssumption DEF TypeInv, SyncTyped
    <2>2. QED
        BY <1>1, <2>1, TableNumbers DEF MergedInv, BoundsKept
<1>4. \A v : Sync!Selected(t, v) <=> lower < v /\ v <= upper
    BY <1>1 DEF Sync!Selected
<1>5. \A k \in Keys :
         /\ slice2[k] # 0 => lower < slice2[k] /\ slice2[k] <= upper
         /\ source[t][k] # 0 /\ source[t][k] <= horizon[t] =>
               slice2[k] = IF lower < source[t][k] /\ source[t][k] <= upper
                           THEN source[t][k] ELSE 0
    BY <1>1, <1>2, <1>4 DEF MergedInv, SliceCurrent
<1> HIDE DEF lower, upper
<1>6. \A k \in Keys, s \in Sync!Stamps :
         target'[t][k][s] = IF slice2[k] # 0 THEN (IF slice2[k] = s THEN 1 ELSE 0)
                                             ELSE target[t][k][s]
    BY <1>2, HoldingTyped
<1>7. ASSUME NEW b \in Int, b <= horizon[t], Sync!Covered(t, b) \/ b = upper
      PROVE  KeptAfter(t, b)
    <2> SUFFICES ASSUME NEW k \in Keys, source[t][k] # 0, source[t][k] <= b
                 PROVE  target'[t][k][source[t][k]] > 0
        BY <1>2, <1>7 DEF KeptAfter
    <2>1. source[t][k] \in Nat /\ source[t][k] \in Sync!Stamps /\ horizon[t] \in Nat
        BY <1>1, TableNumbers, Numbers
    <2>2. slice2[k] = IF lower < source[t][k] /\ source[t][k] <= upper
                      THEN source[t][k] ELSE 0
        BY <1>5, <1>7, <2>1
    <2>3. CASE slice2[k] # 0
        BY <1>6, <2>1, <2>2, <2>3
    <2>4. CASE slice2[k] = 0
        <3>1. ~(lower < source[t][k] /\ source[t][k] <= upper)
            BY <2>2, <2>4
        <3>2. target[t][k][source[t][k]] > 0
            <4>1. CASE Sync!Covered(t, b)
                BY <4>1 DEF Sync!Covered
            <4>2. CASE b = upper
                <5>1. source[t][k] <= lower
                    BY <1>3, <2>1, <3>1, <4>2
                <5>2. QED
                    BY <1>3, <5>1 DEF Kept, Sync!Covered
            <4>3. QED
                BY <1>7, <4>1, <4>2
        <3>3. QED
            BY <1>6, <2>1, <2>4, <3>2
    <2>5. QED
        BY <2>3, <2>4
<1>8. KeepsBounds(t)
    BY <1>1, <1>2, <1>7, Numbers, TableNumbers DEF KeepsBounds, Kept
<1>9. BoundsKept(t)' /\ SeedKept(t)'
    BY <1>1, <1>2, <1>8, BoundsStay, SeedStays DEF loadVars
<1>10. WrittenKept(t)'
    <2>1. KeptAfter(t, upper)
        BY <1>3, <1>7
    <2>2. upper = queue'[run2'][t].upper
        BY <1>2 DEF upper
    <2>3. QED
        BY <2>1, <2>2 DEF WrittenKept, Kept, KeptAfter, Sync!Covered
<1>11. RowsKept(t)'
    <2> SUFFICES ASSUME NEW k \in Keys, NEW s \in Sync!Stamps, target'[t][k][s] > 0
                 PROVE  /\ KeptAfter(t, s)
                        /\ \A u \in Sync!Stamps : target'[t][k][u] > 0 => s = u
        BY DEF RowsKept, Kept, KeptAfter, Sync!Covered
    <2>1. s \in Int /\ s \in Sync!Marks
        BY Numbers
    <2>2. CASE slice2[k] # 0
        <3>1. slice2[k] = s
            BY <1>6, <2>2
        <3>2. s <= upper
            BY <1>5, <2>2, <3>1
        <3>3. KeptAfter(t, upper) /\ horizon[t] \in Int
            BY <1>1, <1>3, <1>7, TableNumbers
        <3>4. KeptAfter(t, s)
            <4> SUFFICES ASSUME NEW j \in Keys, source[t][j] # 0, source[t][j] <= s
                         PROVE  target'[t][j][source[t][j]] > 0
                BY <1>2, <1>3, <2>1, <3>2, <3>3 DEF KeptAfter
            <4>1. source[t][j] <= upper
                BY <1>1, <1>3, <2>1, <3>2, TableNumbers
            <4>2. QED
                BY <1>2, <3>3, <4>1 DEF KeptAfter
        <3>5. QED
            BY <1>6, <2>2, <3>1, <3>4
    <2>3. CASE slice2[k] = 0
        <3>1. /\ \A u \in Sync!Stamps : target'[t][k][u] = target[t][k][u]
              /\ target[t][k][s] > 0
            BY <1>6, <2>3
        <3>2. Kept(t, s) /\ \A u \in Sync!Stamps : target[t][k][u] > 0 => s = u
            BY <1>1, <3>1 DEF MergedInv, RowsKept
        <3>3. QED
            BY <1>8, <2>1, <3>1, <3>2 DEF KeepsBounds
    <2>4. QED
        BY <2>2, <2>3
<1>12. ExtractComplete(t)'
    BY <1>1, <1>2 DEF MergedInv, ExtractComplete, loadVars
<1>13. SliceCurrent(t)'
    BY <1>2 DEF SliceCurrent
<1>14. QED
    BY <1>9, <1>10, <1>11, <1>12, <1>13 DEF MergedInv

\* NB11b commits the bound it merged up to.
LEMMA CheckpointKeeps ==
    ASSUME CoverInv, TypeInv', UNCHANGED loadVars, NEW t \in Sync!Merged,
           Sync!CommitCheckpoint(t)
    PROVE  MergedInv(t)'
<1>1. TypeInv /\ MergedInv(t) /\ t \in Tables /\ t \in Sync!Temporal
    BY MergedIsTemporal DEF CoverInv
<1>2. SameData(t)
    BY <1>1, CheckpointEffect DEF SameData
<1>3. KeepsBounds(t)
    BY <1>1, <1>2, DataKeepsBounds
<1>4. RowsKept(t)' /\ SeedKept(t)' /\ ExtractComplete(t)'
    BY <1>1, <1>2, <1>3, RowsStay, SeedStays, ExtractStays DEF SameData, loadVars
<1>5. WrittenKept(t)' /\ SliceCurrent(t)'
    BY <1>1, CheckpointEffect DEF WrittenKept, SliceCurrent
<1>6. KeptAfter(t, control'[t].last)
    <2>1. control'[t].last = queue[run2][t].upper /\ Kept(t, queue[run2][t].upper)
          /\ run2 \in 1 .. MaxSyncs
        BY <1>1, CheckpointEffect DEF MergedInv, WrittenKept
    <2>2. QED
        BY <1>1, <1>3, <2>1, TableNumbers DEF KeepsBounds
<1>7. BoundsKept(t)'
    <2>1. BoundsKept(t) /\ UNCHANGED <<seen, staged2, queue>>
        BY <1>1, CheckpointEffect DEF MergedInv
    <2>2. QED
        BY <1>2, <1>6, <2>1 DEF BoundsKept, Kept, KeptAfter, Sync!Covered, SameData
<1>8. QED
    BY <1>4, <1>5, <1>7 DEF MergedInv

LEMMA SyncKeepsMerged ==
    ASSUME CoverInv, TypeInv', "load" \in Apart, SyncStep, NEW t \in Sync!Merged
    PROVE  MergedInv(t)'
<1>1. TypeInv /\ MergedInv(t) /\ t \in Tables /\ UNCHANGED loadVars
    BY MergedIsTemporal DEF CoverInv, SyncStep
<1>2. UNCHANGED <<current1, step1, slice1, seed>>
    BY <1>1 DEF loadVars
<1>3. CASE SyncRests
    BY <1>1, <1>3, RestsKeepMerged
<1>4. ASSUME NEW u \in Tables, u # t,
             \/ Sync!QueueInterval(u)
             \/ Sync!ReadSlice(u) /\ Strategy[u] \notin {"FULL_LOAD", "WATERMARK"}
             \/ WritesOf(u) \/ Sync!CommitCheckpoint(u)
      PROVE  MergedInv(t)'
    <2>1. CASE Sync!QueueInterval(u)
        <3>1. /\ SameData(t) /\ control'[t].last = control[t].last /\ staged2'[t] = staged2[t]
              /\ UNCHANGED <<seen, queue, run2, current2, step2, slice2>>
            BY <1>1, <1>4, <2>1, IntervalEffect DEF SameData, ControlKept
        <3>2. QED
            BY <1>1, <1>2, <3>1, OtherTable
    <2>2. CASE Sync!ReadSlice(u)
        <3>1. /\ UNCHANGED <<source, horizon, target, control, queue, run2, seen, staged2>>
              /\ current2' = u
            BY <2>2 DEF Sync!ReadSlice, Sync!sourceVars, Sync!storeVars, Sync!jobVars,
                        Sync!prepVars
        <3>2. SameData(t) /\ current2' # t
            BY <1>4, <3>1 DEF SameData
        <3>3. QED
            BY <1>1, <1>2, <3>1, <3>2, OtherTable
    <2>3. CASE WritesOf(u)
        <3>1. /\ SameData(t) /\ current2' # t
              /\ UNCHANGED <<control, queue, run2, seen, staged2>>
            BY <1>1, <1>4, <2>3, WriteEffect DEF SameData
        <3>2. QED
            BY <1>1, <1>2, <3>1, OtherTable
    <2>4. CASE Sync!CommitCheckpoint(u)
        <3>1. /\ SameData(t) /\ current2' # t /\ control'[t].last = control[t].last
              /\ UNCHANGED <<queue, run2, seen, staged2>>
            BY <1>1, <1>4, <2>4, CheckpointEffect DEF SameData
        <3>2. QED
            BY <1>1, <1>2, <3>1, OtherTable
    <2>5. QED
        BY <1>4, <2>1, <2>2, <2>3, <2>4
<1>5. ASSUME \/ Sync!QueueInterval(t) \/ Sync!ReadSlice(t)
             \/ WritesOf(t) \/ Sync!CommitCheckpoint(t)
      PROVE  MergedInv(t)'
    BY <1>1, <1>5, IntervalKeeps, SliceKeeps, MergeKeeps, CheckpointKeeps
<1>6. QED
    BY <1>1, <1>3, <1>4, <1>5, SyncSteps DEF SyncStep, WritesOf

-----------------------------------------------------------------------------
(* The environment, and the tables without a watermark.                      *)

\* A row written now is above every bound anybody knows.
LEMMA SourceKeepsMerged ==
    ASSUME CoverInv, TypeInv', UNCHANGED syncVars, NEW t \in Sync!Merged, NEW u \in Tables,
           Load!SourceWrite(u) \/ Load!SourceDelete(u)
    PROVE  MergedInv(t)'
<1>1. TypeInv /\ MergedInv(t) /\ t \in Tables
    BY MergedIsTemporal DEF CoverInv
<1>2. UNCHANGED <<horizon, target, control, step1, current1, slice1, seed, seen, staged2, queue,
                  run2, current2, step2, slice2>>
    BY <1>1, SourceEffect DEF syncVars
<1>3. PICK k \in Keys, v \in Sync!Versions :
          (v = 0 \/ v > horizon[u]) /\ source' = [source EXCEPT ![u][k] = v]
    BY <1>1, SourceEffect
<1>4. \A j \in Keys : \/ source'[t][j] = source[t][j]
                      \/ source'[t][j] = 0
                      \/ source'[t][j] > horizon[t]
    <2>1. source' = [source EXCEPT ![u] = [source[u] EXCEPT ![k] = v]]
        BY <1>3
    <2>2. source[u] \in [Keys -> Sync!Versions] /\ source \in [Tables -> [Keys -> Sync!Versions]]
        BY <1>1 DEF TypeInv, SharedTyped
    <2>3. QED
        BY <1>1, <1>3, <2>1, <2>2
<1>5. \A j \in Keys : source'[t][j] \in Nat
    BY <1>1, Numbers DEF TypeInv, SharedTyped
<1>6. KeepsBounds(t)
    <2>1. horizon[t] \in Nat /\ \A b \in Sync!Marks : b \in Int
        BY <1>1, TableNumbers, Numbers
    <2>2. QED
        BY <1>2, <1>4, <1>5, <2>1 DEF KeepsBounds, Kept, KeptAfter, Sync!Covered
<1>7. BoundsKept(t)' /\ RowsKept(t)' /\ WrittenKept(t)' /\ SeedKept(t)'
    BY <1>1, <1>2, <1>6, BoundsStay, RowsStay, WrittenStays, SeedStays
<1>8. ExtractComplete(t)'
    <2>1. SUFFICES ASSUME current1 = t, step1 = "overwrite", NEW j \in Keys
                   PROVE  /\ slice1[j] <= horizon[t]
                          /\ source'[t][j] # 0 /\ source'[t][j] <= horizon[t]
                                => slice1[j] = source'[t][j]
        BY <1>2 DEF ExtractComplete
    <2>2. /\ slice1[j] <= horizon[t]
          /\ source[t][j] # 0 /\ source[t][j] <= horizon[t] => slice1[j] = source[t][j]
        BY <1>1, <2>1 DEF MergedInv, ExtractComplete
    <2>3. QED
        BY <1>1, <1>4, <1>5, <2>2, TableNumbers
<1>9. SliceCurrent(t)'
    <2>1. SUFFICES ASSUME current2 = t, step2 = "merge", NEW j \in Keys
                   PROVE  /\ slice2[j] # 0 => Sync!Selected(t, slice2[j])
                          /\ source'[t][j] # 0 /\ source'[t][j] <= horizon[t] =>
                                slice2[j] = IF Sync!Selected(t, source'[t][j])
                                            THEN source'[t][j] ELSE 0
        BY <1>2 DEF SliceCurrent, Sync!Selected
    <2>2. /\ slice2[j] # 0 => Sync!Selected(t, slice2[j])
          /\ source[t][j] # 0 /\ source[t][j] <= horizon[t] =>
                slice2[j] = IF Sync!Selected(t, source[t][j]) THEN source[t][j] ELSE 0
        BY <1>1, <2>1 DEF MergedInv, SliceCurrent
    <2>3. source'[t][j] # 0 /\ source'[t][j] <= horizon[t] => source'[t][j] = source[t][j]
        BY <1>1, <1>4, <1>5, TableNumbers
    <2>4. QED
        BY <2>2, <2>3
<1>10. QED
    BY <1>7, <1>8, <1>9 DEF MergedInv

LEMMA EnvironmentKeepsMerged ==
    ASSUME CoverInv, TypeInv', Load!Environment, UNCHANGED syncVars, NEW t \in Sync!Merged
    PROVE  MergedInv(t)'
<1>1. TypeInv /\ MergedInv(t) /\ t \in Tables
    BY MergedIsTemporal DEF CoverInv
<1>2. ASSUME NEW u \in Tables, Load!EditActive(u) PROVE MergedInv(t)'
    <2>1. /\ SameData(t) /\ control'[t].last = control[t].last
          /\ UNCHANGED <<current1, step1, slice1, seed>>
        BY <1>1, <1>2, EditEffect DEF SameData, ControlKept
    <2>2. UNCHANGED <<seen, staged2, queue, run2, current2, step2, slice2>>
        BY DEF syncVars
    <2>3. QED
        BY <1>1, <2>1, <2>2, OtherTable
<1>3. QED
    BY <1>2, SourceKeepsMerged DEF Load!Environment

\* Nothing seeds or advances the checkpoint of a table without a watermark.
LEMMA PlainStays ==
    ASSUME CoverInv, TypeInv', Next, NEW t \in Plain
    PROVE  Unmarked(t)'
<1>1. TypeInv /\ Unmarked(t) /\ t \in Tables /\ t \notin Sync!Temporal
    BY DEF CoverInv, Plain, Sync!Temporal
<1>2. ~Load!Temporal(t)
    BY <1>1 DEF TypeInv, SetupTyped, Load!Temporal, Plain
<1>3. CASE LoadStep
    <2>1. CASE LoadRests
        BY <1>1, <2>1 DEF LoadRests, LoopSteps, Unmarked
    <2>2. ASSUME NEW u \in Tables, Load!BeginLoad(u) PROVE Unmarked(t)'
        BY <1>1, <2>2 DEF Load!BeginLoad, Load!storeVars, Unmarked
    <2>3. ASSUME NEW u \in Tables, Load!ReadPartition(u) PROVE Unmarked(t)'
        BY <1>1, <2>3, ReadEffect DEF Unmarked
    <2>4. ASSUME NEW u \in Tables, Load!OverwriteTarget(u) PROVE Unmarked(t)'
        BY <1>1, <2>4 DEF Load!OverwriteTarget, Unmarked
    <2>5. ASSUME NEW u \in Tables, Load!ReadSeed(u) PROVE Unmarked(t)'
        BY <1>1, <1>2, <2>5, SeedEffect DEF Unmarked
    <2>6. ASSUME NEW u \in Tables, Load!CommitState(u) \/ Load!CommitFails(u)
          PROVE  Unmarked(t)'
        BY <1>1, <2>6, CommitEffect DEF Unmarked
    <2>7. QED
        BY <1>1, <1>3, <2>1, <2>2, <2>3, <2>4, <2>5, <2>6, LoadSteps DEF LoadStep
<1>4. CASE SyncStep
    <2>1. UNCHANGED <<current1, step1, seed>>
        BY <1>4 DEF SyncStep, loadVars
    <2>2. control'[t].last = control[t].last
        <3>1. CASE SyncRests
            BY <1>1, <3>1 DEF SyncRests, ControlKept
        <3>2. ASSUME NEW u \in Tables, Sync!QueueInterval(u)
              PROVE  control'[t].last = control[t].last
            BY <1>1, <3>2, IntervalEffect DEF ControlKept
        <3>3. ASSUME NEW u \in Tables, Sync!ReadSlice(u) PROVE control'[t].last = control[t].last
            BY <3>3 DEF Sync!ReadSlice, Sync!storeVars
        <3>4. ASSUME NEW u \in Tables, WritesOf(u) PROVE control'[t].last = control[t].last
            BY <1>1, <3>4, WriteEffect
        <3>5. ASSUME NEW u \in Tables, Sync!CommitCheckpoint(u)
              PROVE  control'[t].last = control[t].last
            BY <1>1, <3>5, CheckpointEffect
        <3>6. QED
            BY <1>1, <1>4, <3>1, <3>2, <3>3, <3>4, <3>5, SyncSteps DEF SyncStep, WritesOf
    <2>3. QED
        BY <1>1, <2>1, <2>2 DEF Unmarked
<1>5. CASE Load!Environment
    <2>1. ASSUME NEW u \in Tables, Load!SourceWrite(u) \/ Load!SourceDelete(u)
          PROVE  Unmarked(t)'
        BY <1>1, <2>1, SourceEffect DEF Unmarked
    <2>2. ASSUME NEW u \in Tables, Load!EditActive(u) PROVE Unmarked(t)'
        BY <1>1, <2>2, EditEffect DEF ControlKept, Unmarked
    <2>3. QED
        BY <1>5, <2>1, <2>2 DEF Load!Environment
<1>6. QED
    BY <1>3, <1>4, <1>5 DEF Next

LEMMA CoverStep ==
    ASSUME "load" \in Apart
    PROVE  CoverInv /\ [Next]_vars => CoverInv'
<1> SUFFICES ASSUME CoverInv, [Next]_vars PROVE CoverInv'
    OBVIOUS
<1>1. TypeInv'
    BY TypeStep DEF CoverInv
<1>2. CASE UNCHANGED vars
    <2> USE <1>2 DEF vars, sharedVars, loadVars, syncVars
    <2>1. ASSUME NEW t \in Sync!Merged PROVE MergedInv(t)'
        <3>1. TypeInv /\ MergedInv(t) /\ t \in Tables
            BY MergedIsTemporal DEF CoverInv
        <3>2. SameData(t)
            BY DEF SameData
        <3>3. QED
            BY <1>1, <3>1, <3>2, OtherTable
    <2>2. ASSUME NEW t \in Plain PROVE Unmarked(t)'
        BY DEF CoverInv, Unmarked
    <2>3. QED
        BY <1>1, <2>1, <2>2 DEF CoverInv, Sync!Merged
<1>3. CASE Next
    <2>1. ASSUME NEW t \in Sync!Merged PROVE MergedInv(t)'
        BY <1>1, <1>3, <2>1, LoadKeepsMerged, SyncKeepsMerged, EnvironmentKeepsMerged DEF Next
    <2>2. ASSUME NEW t \in Plain PROVE Unmarked(t)'
        BY <1>1, <1>3, <2>2, PlainStays
    <2>3. QED
        BY <1>1, <2>1, <2>2 DEF CoverInv, Sync!Merged
<1>4. QED
    BY <1>2, <1>3

\* PipelinesCover: through first loads, re-loads, syncs, failures and repairs of
\* both jobs, in whatever order and with NB10 and NB11b overlapping freely, the
\* checkpoint of a table without the two-commit interval replacement never
\* covers a source row its target lacks, as long as no run of JOB02 overlaps
\* with NB09.
THEOREM PipelinesCover ==
    ASSUME "load" \in Apart, \A t \in Tables : Strategy[t] # "WATERMARK"
    PROVE  Spec => []CheckpointCovers
<1>1. CoverInv => CheckpointCovers
    <2> SUFFICES ASSUME CoverInv, NEW t \in Tables PROVE Sync!Covered(t, control[t].last)
        BY DEF CheckpointCovers
    <2>1. TypeInv
        BY DEF CoverInv
    <2>2. CASE t \in Sync!Merged
        BY <2>2 DEF CoverInv, MergedInv, BoundsKept, Kept
    <2>3. CASE t \notin Sync!Merged
        <3>1. t \in Plain
            BY <2>3, PipelinesAssumption DEF Sync!Merged, Plain, Sync!Strategies
        <3>2. control[t].last = -1
            BY <3>1 DEF CoverInv, Unmarked
        <3>3. QED
            BY <2>1, <3>2, NothingBelow DEF Kept
    <2>4. QED
        BY <2>2, <2>3
<1>2. QED
    BY CoverInit, CoverStep, <1>1, PTL DEF Spec

-----------------------------------------------------------------------------
(* The refinement.                                                         *)

\* A merged table has reached a bound it covers.
LEMMA ReachedIsKept ==
    ASSUME CoverInv, NEW t \in Sync!Merged
    PROVE  /\ Kept(t, Sync!Reached(t)) /\ Sync!Reached(t) \in Sync!Marks
           /\ t \in Tables
<1>1. TypeInv /\ MergedInv(t) /\ t \in Tables
    BY MergedIsTemporal DEF CoverInv
<1>2. current2 = t => run2 \in 1 .. MaxSyncs
    BY <1>1, PipelinesAssumption DEF TypeInv, SyncTyped
<1>3. QED
    BY <1>1, <1>2, TableNumbers DEF MergedInv, BoundsKept, WrittenKept, Sync!Reached

\* A key has one version, so covered is caught up.
LEMMA KeptIsCaughtUp ==
    ASSUME CoverInv, NEW t \in Sync!Merged, NEW b \in Sync!Marks, Sync!Covered(t, b)
    PROVE  Sync!Replica!CaughtUp(t, b)
<1>1. TypeInv /\ MergedInv(t) /\ t \in Tables
    BY MergedIsTemporal DEF CoverInv
<1> SUFFICES ASSUME NEW k \in Keys, source[t][k] \in 1 .. b
             PROVE  Sync!StoredVersions(t, k) = {source[t][k]} /\ source[t][k] # 0
    BY DEF Sync!Replica!CaughtUp, Sync!Replica!Row
<1>2. source[t][k] \in Sync!Stamps /\ source[t][k] # 0 /\ source[t][k] <= b
    BY <1>1, TableNumbers, Numbers
<1>3. target[t][k][source[t][k]] > 0
    BY <1>2 DEF Sync!Covered
<1>4. QED
    BY <1>1, <1>2, <1>3 DEF Sync!StoredVersions, MergedInv, RowsKept

LEMMA ReplicaInit == Init => Sync!Replica!Init
<1> SUFFICES ASSUME Init PROVE Sync!Replica!Init
    OBVIOUS
<1>1. CoverInv /\ TypeInv /\ Sync!Merged \subseteq Tables
    BY CoverInit DEF CoverInv, Sync!Merged
<1>2. [t \in Sync!Merged |-> source[t]] \in [Sync!Merged -> [Keys -> Sync!Versions]]
    BY <1>1 DEF TypeInv, SharedTyped
<1>3. [t \in Sync!Merged |-> [k \in Keys |-> Sync!StoredVersions(t, k)]]
          \in [Sync!Merged -> [Keys -> SUBSET Sync!Stamps]]
    BY DEF Sync!StoredVersions
<1>4. \A t \in Sync!Merged :
         Sync!Reached(t) \in Sync!Marks /\ Sync!Replica!CaughtUp(t, Sync!Reached(t))
    BY <1>1, ReachedIsKept, KeptIsCaughtUp DEF Kept
<1>5. QED
    BY <1>2, <1>3, <1>4
    DEF Sync!Replica!Init, Sync!Replica!Versions, Sync!Replica!Marks, Sync!Replica!Stamps,
        Sync!Replica!CaughtUp, Sync!Versions, Sync!Marks, Sync!Stamps

LEMMA AllReachedAreKept ==
    CoverInv => \A t \in Sync!Merged : /\ Sync!Covered(t, Sync!Reached(t))
                                       /\ Sync!Reached(t) \in Sync!Marks
BY ReachedIsKept DEF Kept

\* A step that leaves the rows of both sides alone moves at most the cursor of
\* one table, to where its target has caught up.
LEMMA CursorMaps ==
    ASSUME CoverInv, CoverInv', NEW x,
           \A u \in Sync!Merged : source'[u] = source[u] /\ target'[u] = target[u],
           \A u \in Sync!Merged : u # x => Sync!Reached(u)' = Sync!Reached(u)
    PROVE  [Sync!Replica!Next]_(Sync!Replica!vars)
<1>1. \A u \in Sync!Merged, j \in Keys : Sync!StoredVersions(u, j)' = Sync!StoredVersions(u, j)
    BY DEF Sync!StoredVersions
<1>2. /\ UNCHANGED [u \in Sync!Merged |-> [j \in Keys |-> Sync!StoredVersions(u, j)]]
      /\ UNCHANGED [u \in Sync!Merged |-> source[u]]
    BY <1>1
<1>3. CASE x \notin Sync!Merged
    <2>1. UNCHANGED [u \in Sync!Merged |-> Sync!Reached(u)]
        BY <1>3
    <2>2. QED
        BY <1>2, <2>1 DEF Sync!Replica!vars
<1>4. CASE x \in Sync!Merged
    <2>1. \A u \in Sync!Merged : Sync!Covered(u, Sync!Reached(u))' /\ Sync!Reached(u)' \in Sync!Marks
        <3>1. CoverInv' => (\A t \in Sync!Merged : /\ Sync!Covered(t, Sync!Reached(t))
                                                   /\ Sync!Reached(t) \in Sync!Marks)'
            BY AllReachedAreKept, PTL
        <3>2. QED
            BY <3>1 DEF Sync!Marks
    <2>2. Sync!Covered(x, Sync!Reached(x)')
        BY <1>4, <2>1 DEF Sync!Covered
    <2>3. Sync!Replica!CaughtUp(x, Sync!Reached(x)')
        BY <1>4, <2>1, <2>2, KeptIsCaughtUp
    <2>4. Sync!Replica!Touches(x)
        BY <1>1, <1>4, <2>1 DEF Sync!Replica!Touches, Sync!Replica!Marks, Sync!Marks
    <2>5. Sync!Replica!Reposition(x)
        BY <1>2, <1>4, <2>3, <2>4 DEF Sync!Replica!Reposition
    <2>6. QED
        BY <1>4, <2>5 DEF Sync!Replica!Next
<1>5. QED
    BY <1>3, <1>4

\* The steps of JOB02 that move no rows.
LEMMA SyncReached ==
    ASSUME CoverInv, NEW t \in Tables,
           \/ SyncRests \/ Sync!QueueInterval(t)
           \/ Sync!ReadSlice(t) /\ Strategy[t] \notin {"FULL_LOAD", "WATERMARK"}
           \/ Sync!CommitCheckpoint(t)
    PROVE  /\ source' = source /\ target' = target
           /\ \E x : \A u \in Sync!Merged : u # x => Sync!Reached(u)' = Sync!Reached(u)
<1>1. TypeInv /\ Sync!Merged \subseteq Tables
    BY DEF CoverInv, Sync!Merged
<1>2. CASE SyncRests
    <2>1. ASSUME NEW u \in Sync!Merged, u # current2
          PROVE  Sync!Reached(u)' = Sync!Reached(u)
        <3>1. control'[u].last = control[u].last
            BY <1>1, <1>2 DEF SyncRests, ControlKept
        <3>2. current2' = u => step2' \notin {"audit", "commit"}
            BY <1>2, <2>1 DEF SyncRests
        <3>3. QED
            BY <2>1, <3>1, <3>2 DEF Sync!Reached
    <2>2. QED
        BY <1>2, <2>1 DEF SyncRests
<1>3. CASE Sync!QueueInterval(t)
    <2>1. /\ UNCHANGED <<source, target, current2, step2, queue, run2>>
          /\ \A u \in Tables : control'[u].last = control[u].last
        BY <1>1, <1>3, IntervalEffect DEF ControlKept
    <2>2. \A u \in Sync!Merged : Sync!Reached(u)' = Sync!Reached(u)
        BY <1>1, <2>1 DEF Sync!Reached
    <2>3. QED
        BY <2>1, <2>2
<1>4. CASE Sync!ReadSlice(t) /\ Strategy[t] \notin {"FULL_LOAD", "WATERMARK"}
    <2>1. /\ UNCHANGED <<source, target, control, current2>>
          /\ step2 = "read" /\ step2' = "merge"
        BY <1>4 DEF Sync!ReadSlice, Sync!sourceVars, Sync!storeVars
    <2>2. \A u \in Sync!Merged : Sync!Reached(u)' = Sync!Reached(u)
        BY <2>1 DEF Sync!Reached
    <2>3. QED
        BY <2>1, <2>2
<1>5. CASE Sync!CommitCheckpoint(t)
    <2>1. ASSUME NEW u \in Sync!Merged, u # t
          PROVE  Sync!Reached(u)' = Sync!Reached(u)
        BY <1>1, <1>5, <2>1, CheckpointEffect DEF Sync!Reached
    <2>2. QED
        BY <1>1, <1>5, <2>1, CheckpointEffect
<1>6. QED
    BY <1>2, <1>3, <1>4, <1>5

\* The steps of JOB01 that move no rows; NB10 moves the cursor of one table.
LEMMA LoadReached ==
    ASSUME CoverInv, UNCHANGED syncVars, NEW t \in Tables,
           \/ LoadRests \/ Load!BeginLoad(t) \/ Load!ReadPartition(t) \/ Load!ReadSeed(t)
           \/ Load!CommitState(t) \/ Load!CommitFails(t)
    PROVE  /\ source' = source /\ target' = target
           /\ \A u \in Sync!Merged : u # t => Sync!Reached(u)' = Sync!Reached(u)
<1>1. TypeInv /\ Sync!Merged \subseteq Tables
    BY DEF CoverInv, Sync!Merged
<1>2. source' = source /\ target' = target
    BY <1>1, ReadEffect, SeedEffect, CommitEffect
    DEF LoadRests, Load!BeginLoad, Load!sourceVars, Load!storeVars
<1>3. \A u \in Tables : u # t => control'[u].last = control[u].last
    BY <1>1, ReadEffect, SeedEffect, CommitEffect
    DEF LoadRests, Load!BeginLoad, Load!sourceVars, Load!storeVars
<1>4. UNCHANGED <<current2, step2, queue, run2>>
    BY DEF syncVars
<1>5. QED
    BY <1>1, <1>2, <1>3, <1>4 DEF Sync!Reached

\* In the next state, too, a merged table has reached a bound it covers.
LEMMA ReachedAfter ==
    ASSUME CoverInv'
    PROVE  \A u \in Sync!Merged : Sync!Reached(u)' \in Sync!Marks /\ Sync!Covered(u, Sync!Reached(u))'
<1>1. CoverInv' => (\A t \in Sync!Merged : /\ Sync!Covered(t, Sync!Reached(t))
                                           /\ Sync!Reached(t) \in Sync!Marks)'
    BY AllReachedAreKept, PTL
<1>2. QED
    BY <1>1 DEF Sync!Marks

\* NB09 replaces the rows by one version a key and leaves the cursor alone.
LEMMA ReloadMaps ==
    ASSUME CoverInv, CoverInv', "load" \in Apart, UNCHANGED syncVars,
           NEW t \in Sync!Merged, Load!OverwriteTarget(t)
    PROVE  Sync!Replica!Reload(t)
<1>1. TypeInv /\ t \in Tables /\ Sync!Merged \subseteq Tables
    BY MergedIsTemporal DEF CoverInv
<1>2. /\ UNCHANGED <<source, horizon, control, slice1>>
      /\ current1 = t /\ step1 = "overwrite" /\ task1 = "load"
      /\ target' = [target EXCEPT ![t] = Load!Holding(slice1)]
    BY <1>1 DEF Load!OverwriteTarget, Load!sourceVars, Load!itemVars
<1>3. /\ \A u \in Tables : u # t => target'[u] = target[u]
      /\ \A k \in Keys, s \in Sync!Stamps : target'[t][k][s] = IF slice1[k] = s THEN 1 ELSE 0
    BY <1>1, <1>2, HoldingTyped DEF TypeInv, SharedTyped
<1>4. \A u \in Sync!Merged : Sync!Reached(u)' = Sync!Reached(u)
    BY <1>2 DEF Sync!Reached, syncVars
<1>5. \A u \in Sync!Merged, k \in Keys :
         u # t => Sync!StoredVersions(u, k)' = Sync!StoredVersions(u, k)
    BY <1>1, <1>3 DEF Sync!StoredVersions
<1>6. \A u \in Sync!Merged : Sync!Reached(u)' \in Sync!Marks
    BY ReachedAfter
<1>7. Sync!Replica!Touches(t)
    BY <1>4, <1>5, <1>6 DEF Sync!Replica!Touches, Sync!Replica!Marks, Sync!Marks
<1>8. ASSUME NEW k \in Keys
      PROVE  \E v \in Sync!Versions : Sync!StoredVersions(t, k)' = Sync!Replica!Row(v)
    <2>1. slice1[k] \in Sync!Versions
        BY <1>1 DEF TypeInv, LoadTyped
    <2>2. slice1[k] # 0 => slice1[k] \in Sync!Stamps
        BY <2>1, Numbers
    <2>3. Sync!StoredVersions(t, k)' = Sync!Replica!Row(slice1[k])
        BY <1>3, <2>2, Numbers DEF Sync!StoredVersions, Sync!Replica!Row
    <2>4. QED
        BY <2>1, <2>3
<1>9. ASSUME NEW k \in Keys, source[t][k] \in 1 .. Sync!Reached(t)
      PROVE  Sync!StoredVersions(t, k)' = Sync!Replica!Row(source[t][k])
    <2>1. Sync!Covered(t, Sync!Reached(t))'
        BY ReachedAfter
    <2>2. source[t][k] \in Sync!Stamps /\ source[t][k] # 0 /\ source[t][k] <= Sync!Reached(t)
        <3>1. source[t][k] \in Sync!Versions
            BY <1>1, TableNumbers
        <3>2. Sync!Reached(t) \in Int
            BY ReachedIsKept, Numbers
        <3>3. QED
            BY <1>9, <3>1, <3>2, Numbers
    <2>3. target'[t][k][source[t][k]] > 0
        BY <1>2, <1>4, <1>9, <2>1, <2>2 DEF Sync!Covered
    <2>4. slice1[k] = source[t][k]
        BY <1>3, <2>2, <2>3
    <2>5. QED
        BY <1>3, <2>2, <2>4 DEF Sync!StoredVersions, Sync!Replica!Row
<1>10. UNCHANGED [u \in Sync!Merged |-> source[u]]
    BY <1>2
<1>11. Sync!Replica!CaughtUp(t, [u \in Sync!Merged |-> Sync!Reached(u)][t])'
    BY <1>2, <1>4, <1>9 DEF Sync!Replica!CaughtUp
<1>12. QED
    BY <1>4, <1>7, <1>8, <1>10, <1>11
    DEF Sync!Replica!Reload, Sync!Replica!Versions, Sync!Versions

\* The MERGE of an item is the moment its interval arrives.
LEMMA MergeMaps ==
    ASSUME CoverInv, CoverInv', NEW t \in Sync!Merged, WritesOf(t)
    PROVE  Sync!Replica!CatchUp(t)
<1>1. TypeInv /\ MergedInv(t) /\ t \in Tables /\ Strategy[t] = "HYBRID" /\ t \in Sync!Temporal
      /\ Sync!Merged \subseteq Tables
    BY MergedIsTemporal DEF CoverInv, Sync!Merged
<1> DEFINE lower == queue[run2][t].lower
           upper == queue[run2][t].upper
<1>2. /\ UNCHANGED <<source, horizon, control, queue, run2, current2, slice2>>
      /\ current2 = t /\ step2 = "merge" /\ step2' = "audit"
      /\ \A u \in Tables : u # t => target'[u] = target[u]
      /\ target'[t] = [k \in Keys |-> IF slice2[k] # 0 THEN Sync!Holding(slice2)[k]
                                                       ELSE target[t][k]]
    BY <1>1, WriteEffect
<1>3. /\ lower \in Int /\ upper \in Int /\ lower \in Sync!Marks /\ upper \in Sync!Marks
      /\ Kept(t, lower) /\ upper <= horizon[t]
    <2>1. run2 \in 1 .. MaxSyncs
        BY <1>1, <1>2, PipelinesAssumption DEF TypeInv, SyncTyped
    <2>2. QED
        BY <1>1, <2>1, TableNumbers DEF MergedInv, BoundsKept
<1>4. \A k \in Keys :
         /\ slice2[k] # 0 => lower < slice2[k] /\ slice2[k] <= upper
         /\ source[t][k] # 0 /\ source[t][k] <= horizon[t] =>
               slice2[k] = IF lower < source[t][k] /\ source[t][k] <= upper
                           THEN source[t][k] ELSE 0
    <2>1. \A v : Sync!Selected(t, v) <=> lower < v /\ v <= upper
        BY <1>1 DEF Sync!Selected
    <2>2. QED
        BY <1>1, <1>2, <2>1 DEF MergedInv, SliceCurrent
<1>5. /\ Sync!Reached(t)' = upper
      /\ \A u \in Sync!Merged : u # t => Sync!Reached(u)' = Sync!Reached(u)
    BY <1>2 DEF Sync!Reached
<1> HIDE DEF lower, upper
<1>6. /\ \A u \in Sync!Merged, k \in Keys :
            u # t => Sync!StoredVersions(u, k)' = Sync!StoredVersions(u, k)
      /\ \A k \in Keys : Sync!StoredVersions(t, k)' =
                            IF slice2[k] # 0 THEN {slice2[k]} ELSE Sync!StoredVersions(t, k)
    <2>1. \A u \in Sync!Merged, k \in Keys :
             u # t => Sync!StoredVersions(u, k)' = Sync!StoredVersions(u, k)
        BY <1>1, <1>2 DEF Sync!StoredVersions
    <2>2. \A k \in Keys : slice2[k] # 0 => slice2[k] \in Sync!Stamps
        BY <1>1, Numbers DEF TypeInv, SyncTyped
    <2>3. ASSUME NEW k \in Keys
          PROVE  Sync!StoredVersions(t, k)' =
                    IF slice2[k] # 0 THEN {slice2[k]} ELSE Sync!StoredVersions(t, k)
        <3>1. \A s \in Sync!Stamps :
                 target'[t][k][s] = IF slice2[k] # 0 THEN (IF slice2[k] = s THEN 1 ELSE 0)
                                                     ELSE target[t][k][s]
            BY <1>2, HoldingTyped
        <3>2. QED
            BY <2>2, <3>1 DEF Sync!StoredVersions
    <2>4. QED
        BY <2>1, <2>3
<1>7. Sync!Replica!CaughtUp(t, lower)
    BY <1>3, KeptIsCaughtUp DEF Kept
<1>8. ASSUME NEW k \in Keys
      PROVE  LET arrives(v) == v \in Sync!Stamps /\ lower < v /\ v <= upper
             IN  \/ /\ arrives(source[t][k])
                    /\ Sync!StoredVersions(t, k)' = {source[t][k]}
                 \/ /\ ~arrives(source[t][k])
                    /\ Sync!StoredVersions(t, k)' = Sync!StoredVersions(t, k)
                 \/ /\ source[t][k] = 0 \/ source[t][k] > upper
                    /\ \E v \in Sync!Stamps : arrives(v) /\ Sync!StoredVersions(t, k)' = {v}
    <2>1. /\ source[t][k] \in Int /\ horizon[t] \in Int
          /\ source[t][k] # 0 => source[t][k] \in Sync!Stamps
          /\ 0 \notin Sync!Stamps
          /\ slice2[k] # 0 => slice2[k] \in Sync!Stamps
        BY <1>1, TableNumbers, Numbers DEF TypeInv, SyncTyped
    <2>2. CASE source[t][k] # 0 /\ source[t][k] <= horizon[t]
        BY <1>3, <1>4, <1>6, <2>1, <2>2
    <2>3. CASE ~(source[t][k] # 0 /\ source[t][k] <= horizon[t])
        BY <1>3, <1>4, <1>6, <2>1, <2>3
    <2>4. QED
        BY <2>2, <2>3
<1>9. Sync!Replica!Touches(t)
    <2>1. \A u \in Sync!Merged : Sync!Reached(u)' \in Sync!Marks
        BY ReachedAfter
    <2>2. QED
        BY <1>5, <1>6, <2>1 DEF Sync!Replica!Touches, Sync!Replica!Marks, Sync!Marks
<1>10. UNCHANGED [u \in Sync!Merged |-> source[u]]
    BY <1>2
<1>11. QED
    BY <1>3, <1>5, <1>7, <1>8, <1>9, <1>10
    DEF Sync!Replica!CatchUp, Sync!Replica!Marks, Sync!Replica!Stamps, Sync!Marks, Sync!Stamps

\* A source change is one of the replica's, or concerns another table.
LEMMA ChangeMaps ==
    ASSUME CoverInv, UNCHANGED syncVars, NEW t \in Tables,
           Load!SourceWrite(t) \/ Load!SourceDelete(t)
    PROVE  [Sync!Replica!Next]_(Sync!Replica!vars)
<1>1. TypeInv /\ Sync!Merged \subseteq Tables
    BY DEF CoverInv, Sync!Merged
<1>2. UNCHANGED <<horizon, target, control, current2, step2, queue, run2>>
    BY <1>1, SourceEffect DEF syncVars
<1>3. /\ UNCHANGED [u \in Sync!Merged |-> Sync!Reached(u)]
      /\ UNCHANGED [u \in Sync!Merged |-> [j \in Keys |-> Sync!StoredVersions(u, j)]]
    BY <1>2 DEF Sync!Reached, Sync!StoredVersions
<1>4. PICK k \in Keys, v \in Sync!Versions :
          (v = 0 \/ v > horizon[t]) /\ source' = [source EXCEPT ![t][k] = v]
    BY <1>1, SourceEffect
<1>5. /\ \A u \in Tables : u # t => source'[u] = source[u]
      /\ source'[t] = [source[t] EXCEPT ![k] = v]
    BY <1>1, <1>4 DEF TypeInv, SharedTyped
<1>6. CASE t \in Sync!Merged
    <2>1. v = 0 \/ v > Sync!Reached(t)
        <3>1. Sync!Reached(t) <= horizon[t] /\ Sync!Reached(t) \in Int
            BY <1>6, ReachedIsKept, Numbers DEF Kept
        <3>2. horizon[t] \in Int /\ v \in Int
            BY <1>1, TableNumbers, Numbers
        <3>3. QED
            BY <1>4, <3>1, <3>2
    <2>2. [u \in Sync!Merged |-> source'[u]]
              = [[u \in Sync!Merged |-> source[u]] EXCEPT ![t][k] = v]
        BY <1>1, <1>5, <1>6
    <2>3. v = 0 \/ v > [u \in Sync!Merged |-> Sync!Reached(u)][t]
        BY <1>6, <2>1
    <2>4. v \in Sync!Replica!Versions
        BY DEF Sync!Replica!Versions, Sync!Versions
    <2>5. Sync!Replica!Change(t)
        BY <1>3, <2>2, <2>3, <2>4 DEF Sync!Replica!Change
    <2>6. QED
        BY <1>6, <2>5 DEF Sync!Replica!Next
<1>7. CASE t \notin Sync!Merged
    <2>1. UNCHANGED [u \in Sync!Merged |-> source[u]]
        BY <1>1, <1>5, <1>7
    <2>2. QED
        BY <1>3, <2>1 DEF Sync!Replica!vars
<1>8. QED
    BY <1>6, <1>7

\* A statement that rewrites the target of a table merged by no key moves no
\* cursor.
LEMMA OtherTargets ==
    ASSUME TypeInv, NEW t \in Tables, t \notin Sync!Merged,
           WritesOf(t) \/ (Load!OverwriteTarget(t) /\ UNCHANGED syncVars)
    PROVE  /\ \A u \in Sync!Merged : source'[u] = source[u] /\ target'[u] = target[u]
           /\ \A u \in Sync!Merged : Sync!Reached(u)' = Sync!Reached(u)
<1>1. \A u \in Sync!Merged : u \in Tables /\ u # t
    BY DEF Sync!Merged
<1>2. CASE WritesOf(t)
    <2>1. /\ UNCHANGED <<source, control, current2>> /\ current2 = t
          /\ \A u \in Tables : u # t => target'[u] = target[u]
        BY <1>2, WriteEffect
    <2>2. QED
        BY <1>1, <2>1 DEF Sync!Reached
<1>3. CASE Load!OverwriteTarget(t) /\ UNCHANGED syncVars
    <2>1. /\ UNCHANGED <<source, control, current2, step2, queue, run2>>
          /\ target' = [target EXCEPT ![t] = Load!Holding(slice1)]
        BY <1>3 DEF Load!OverwriteTarget, Load!sourceVars, Load!itemVars, syncVars
    <2>2. QED
        BY <1>1, <2>1 DEF Sync!Reached, TypeInv, SharedTyped
<1>4. QED
    BY <1>2, <1>3

\* Every step of either job is a step of the replica or leaves it alone.
LEMMA ReplicaStep ==
    ASSUME "load" \in Apart
    PROVE  CoverInv /\ CoverInv' /\ [Next]_vars => [Sync!Replica!Next]_(Sync!Replica!vars)
<1> SUFFICES ASSUME CoverInv, CoverInv', [Next]_vars
             PROVE  [Sync!Replica!Next]_(Sync!Replica!vars)
    OBVIOUS
<1>1. TypeInv /\ Sync!Merged \subseteq Tables
    BY DEF CoverInv, Sync!Merged
<1>2. ASSUME NEW t \in Tables, t \notin Sync!Merged,
             WritesOf(t) \/ (Load!OverwriteTarget(t) /\ UNCHANGED syncVars)
      PROVE  [Sync!Replica!Next]_(Sync!Replica!vars)
    BY <1>1, <1>2, OtherTargets, CursorMaps
<1>3. CASE LoadStep
    <2>1. UNCHANGED syncVars
        BY <1>3 DEF LoadStep
    <2>2. CASE \E t \in Tables : Load!OverwriteTarget(t)
        <3>1. PICK t \in Tables : Load!OverwriteTarget(t)
            BY <2>2
        <3>2. CASE t \in Sync!Merged
            <4>1. Sync!Replica!Reload(t)
                BY <2>1, <3>1, <3>2, ReloadMaps
            <4>2. QED
                BY <3>2, <4>1 DEF Sync!Replica!Next
        <3>3. QED
            BY <1>2, <2>1, <3>1, <3>2
    <2>3. CASE \E t \in Tables :
                  \/ LoadRests \/ Load!BeginLoad(t) \/ Load!ReadPartition(t) \/ Load!ReadSeed(t)
                  \/ Load!CommitState(t) \/ Load!CommitFails(t)
        <3>1. PICK t \in Tables :
                  \/ LoadRests \/ Load!BeginLoad(t) \/ Load!ReadPartition(t) \/ Load!ReadSeed(t)
                  \/ Load!CommitState(t) \/ Load!CommitFails(t)
            BY <2>3
        <3>2. /\ source' = source /\ target' = target
              /\ \A u \in Sync!Merged : u # t => Sync!Reached(u)' = Sync!Reached(u)
            BY <2>1, <3>1, LoadReached
        <3>3. QED
            BY <3>2, CursorMaps
    <2>4. CASE LoadRests /\ Tables = {}
        BY <1>1, <2>4 DEF Sync!Replica!vars
    <2>5. QED
        BY <1>1, <1>3, <2>2, <2>3, <2>4, LoadSteps DEF LoadStep
<1>4. CASE SyncStep
    <2>1. CASE \E t \in Tables : WritesOf(t)
        <3>1. PICK t \in Tables : WritesOf(t)
            BY <2>1
        <3>2. CASE t \in Sync!Merged
            <4>1. Sync!Replica!CatchUp(t)
                BY <3>1, <3>2, MergeMaps
            <4>2. QED
                BY <3>2, <4>1 DEF Sync!Replica!Next
        <3>3. QED
            BY <1>2, <3>1, <3>2
    <2>2. CASE \E t \in Tables :
                  \/ SyncRests \/ Sync!QueueInterval(t)
                  \/ Sync!ReadSlice(t) /\ Strategy[t] \notin {"FULL_LOAD", "WATERMARK"}
                  \/ Sync!CommitCheckpoint(t)
        <3>1. PICK t \in Tables :
                  \/ SyncRests \/ Sync!QueueInterval(t)
                  \/ Sync!ReadSlice(t) /\ Strategy[t] \notin {"FULL_LOAD", "WATERMARK"}
                  \/ Sync!CommitCheckpoint(t)
            BY <2>2
        <3>2. /\ source' = source /\ target' = target
              /\ \E x : \A u \in Sync!Merged : u # x => Sync!Reached(u)' = Sync!Reached(u)
            BY <3>1, SyncReached
        <3>3. QED
            BY <3>2, CursorMaps
    <2>3. CASE SyncRests /\ Tables = {}
        BY <1>1, <2>3 DEF Sync!Replica!vars
    <2>4. QED
        BY <1>1, <1>4, <2>1, <2>2, <2>3, SyncSteps DEF SyncStep, WritesOf
<1>5. CASE Load!Environment /\ UNCHANGED syncVars
    <2>1. ASSUME NEW t \in Tables, Load!EditActive(t)
          PROVE  [Sync!Replica!Next]_(Sync!Replica!vars)
        <3>1. /\ source' = source /\ target' = target
              /\ \A u \in Tables : control'[u].last = control[u].last
            BY <1>1, <2>1, EditEffect DEF ControlKept
        <3>2. UNCHANGED <<current2, step2, queue, run2>>
            BY <1>5 DEF syncVars
        <3>3. \A u \in Sync!Merged : Sync!Reached(u)' = Sync!Reached(u)
            BY <1>1, <3>1, <3>2 DEF Sync!Reached
        <3>4. QED
            BY <3>1, <3>3, CursorMaps
    <2>2. QED
        BY <1>5, <2>1, ChangeMaps DEF Load!Environment
<1>6. CASE UNCHANGED vars
    <2>1. UNCHANGED <<source, target, control, current2, step2, queue, run2>>
        BY <1>6 DEF vars, sharedVars, syncVars
    <2>2. QED
        BY <2>1 DEF Sync!Replica!vars, Sync!Reached, Sync!StoredVersions
<1>7. QED
    BY <1>3, <1>4, <1>5, <1>6 DEF Next

\* PipelinesReplica: JOB01 and JOB02 together implement the checkpointed replica
\* for HYBRID tables, however their runs interleave, fail and are repaired, as
\* long as no run of JOB02 overlaps with NB09: a re-load replaces the rows under
\* a cursor they have caught up with, NB10 repositions the cursor, and an
\* interval of NB11b arrives at once.
THEOREM PipelinesReplica ==
    ASSUME "load" \in Apart
    PROVE  Spec => IsCheckpointedReplica
<1>1. Spec => []CoverInv
    BY CoverInit, CoverStep, PTL DEF Spec
<1>2. QED
    BY <1>1, ReplicaInit, ReplicaStep, PTL
    DEF Spec, IsCheckpointedReplica, Sync!IsCheckpointedReplica, Sync!Replica!Spec

=============================================================================
