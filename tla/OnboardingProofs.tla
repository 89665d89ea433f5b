--------------------------- MODULE OnboardingProofs ---------------------------
(* Theorems of Onboarding for every value of its constants: its types, the *)
(* seeds NB10 commits, and what the records of JOB01 say of each other.    *)
EXTENDS Onboarding, TLAPS

\* A run is under way whenever a task is, and a task may be repaired only if it
\* belongs to a run: NB09 and NB10 log and commit under a run_id that exists.
RunExists ==
    /\ phase # "idle" => run \in Runs
    /\ \A r \in Runs : halted[r] # "none" => r <= started

TypeInv == TypeOK /\ RunExists

LEMMA TypeInit == Init => TypeInv
<1> SUFFICES ASSUME Init PROVE TypeInv
    OBVIOUS
<1> USE OnboardingAssumption
<1>1. NoColumns \in ColumnRows
    BY DEF NoColumns, ColumnRows
<1>2. NoSlice \in [Keys -> Versions] /\ NULL \in Marks
    BY DEF NoSlice, Versions, NULL, Marks
<1>3. horizon \in [Tables -> Versions]
    BY DEF Init, Versions
<1>4. target \in [Targets -> [Keys -> [Stamps -> Nat]]]
    BY DEF Init, Holding
<1>5. control \in [Tables -> [active : BOOLEAN, last : Marks, run : 0 .. MaxRuns]]
    BY <1>2 DEF Init
<1>6. setup \in [Tables -> Setup]
    BY DEF Init, Setup
<1>7. columns \in [Runs -> [Layers -> ColumnRows]] /\ staged \in ColumnRows
    BY <1>1 DEF Init
<1>8. /\ run = 0 /\ started = 0 /\ phase = "idle" /\ step = "loop"
      /\ faults = 0 /\ edits = 0
    BY DEF Init
<1>9. 0 \in 0 .. MaxRuns /\ 0 \in 0 .. MaxFaults /\ 0 \in 0 .. MaxEdits
    OBVIOUS
<1>10. /\ halted \in [Runs -> Tasks \cup {"none"}] /\ checked \in [Runs -> SUBSET Tables]
       /\ \A r \in Runs : halted[r] = "none"
    BY DEF Init
<1>11. run \in 0 .. started /\ started \in 0 .. MaxRuns
    BY <1>8, <1>9
<1>12. TypeOK
    BY <1>2, <1>3, <1>4, <1>5, <1>6, <1>7, <1>9, <1>10, <1>11 DEF Init, TypeOK
<1>13. QED
    BY <1>8, <1>10, <1>12 DEF TypeInv, RunExists

\* Appending column rows to a table of column rows.
LEMMA AddedType ==
    ASSUME NEW b \in ColumnRows, NEW c \in ColumnRows
    PROVE  Added(b, c) \in ColumnRows
BY DEF Added, ColumnRows

\* Appending column rows to a layer of a run.
LEMMA ColumnsType ==
    ASSUME TypeOK, run \in Runs, NEW l \in Layers, NEW b \in ColumnRows,
           columns' = [columns EXCEPT ![run][l] = Added(@, b)]
    PROVE  columns' \in [Runs -> [Layers -> ColumnRows]]
<1>1. columns' = [columns EXCEPT ![run] = [columns[run] EXCEPT ![l] = Added(columns[run][l], b)]]
    OBVIOUS
<1>2. columns[run] \in [Layers -> ColumnRows] /\ columns[run][l] \in ColumnRows
    BY DEF TypeOK
<1>3. Added(columns[run][l], b) \in ColumnRows
    BY <1>2, AddedType
<1>4. [columns[run] EXCEPT ![l] = Added(columns[run][l], b)] \in [Layers -> ColumnRows]
    BY <1>2, <1>3
<1>5. QED
    BY <1>1, <1>4 DEF TypeOK

\* A run that stops remembers its task.
LEMMA HaltedType ==
    ASSUME TypeOK, NEW r \in Runs, NEW p \in Tasks \cup {"none"},
           halted' = [halted EXCEPT ![r] = p]
    PROVE  halted' \in [Runs -> Tasks \cup {"none"}]
BY DEF TypeOK

\* Staging a column of a table.
LEMMA StagesType ==
    ASSUME TypeOK, NEW t \in Tables, Stages(t) \/ UNCHANGED staged
    PROVE  staged' \in ColumnRows
<1>1. staged \in [Tables -> [Verdicts -> Nat]]
    BY DEF TypeOK, ColumnRows
<1>2. CASE Stages(t)
    <2>1. PICK v \in Metadata : staged' = [staged EXCEPT ![t][v] = @ + 1]
        BY <1>2 DEF Stages
    <2>2. v \in Verdicts
        BY OnboardingAssumption
    <2>3. staged' = [staged EXCEPT ![t] = [staged[t] EXCEPT ![v] = staged[t][v] + 1]]
        BY <2>1
    <2>4. staged[t] \in [Verdicts -> Nat]
        BY <1>1
    <2>5. [staged[t] EXCEPT ![v] = staged[t][v] + 1] \in [Verdicts -> Nat]
        BY <2>2, <2>4
    <2>6. QED
        BY <1>1, <2>3, <2>5 DEF ColumnRows
<1>3. QED
    BY <1>2 DEF TypeOK

\* Detecting a strategy.
LEMMA DetectsType ==
    ASSUME TypeOK, NEW t \in Tables, Detects(t) \/ UNCHANGED setup
    PROVE  setup' \in [Tables -> Setup]
<1>1. CASE Detects(t)
    <2>1. setup' = [setup EXCEPT ![t] = [setup[t] EXCEPT !.strategy = Detected[t]]]
        BY <1>1 DEF Detects
    <2>2. setup[t] \in Setup /\ Detected[t] \in Strategies
        BY OnboardingAssumption DEF TypeOK
    <2>3. [setup[t] EXCEPT !.strategy = Detected[t]] \in Setup
        BY <2>2 DEF Setup
    <2>4. QED
        BY <2>1, <2>3 DEF TypeOK
<1>2. QED
    BY <1>1 DEF TypeOK

\* A source row written or removed.
LEMMA SourceType ==
    ASSUME TypeOK, NEW t \in Tables, NEW k \in Keys, NEW s \in Versions,
           source' = [source EXCEPT ![t][k] = s]
    PROVE  source' \in [Tables -> [Keys -> Versions]]
<1>1. source' = [source EXCEPT ![t] = [source[t] EXCEPT ![k] = s]]
    OBVIOUS
<1>2. [source[t] EXCEPT ![k] = s] \in [Keys -> Versions]
    BY DEF TypeOK
<1>3. QED
    BY <1>1, <1>2 DEF TypeOK

\* The failure budget.
LEMMA FaultType ==
    ASSUME TypeOK, Fault
    PROVE  faults' \in 0 .. MaxFaults
BY OnboardingAssumption DEF TypeOK, Fault

\* A notebook starts with the rows it collects.
LEMMA EnterType ==
    ASSUME NEW p \in Tasks \cup {"idle"}, NEW r, Enter(p, r)
    PROVE  /\ phase' = p /\ step' = "loop" /\ run' = r
           /\ rows' \subseteq Tables /\ todo' \subseteq rows'
BY DEF Enter, Collected, Tasks, Approved, Committable

LEMMA TypeStep == TypeInv /\ [Next]_vars => TypeInv'
<1> SUFFICES ASSUME TypeInv, [Next]_vars PROVE TypeInv'
    OBVIOUS
<1> USE OnboardingAssumption
    DEF TypeInv, RunExists, sourceVars, storeVars, jobVars, loopVars, itemVars
<1>0. TypeOK
    OBVIOUS
<1>a. NoColumns \in ColumnRows /\ NoSlice \in [Keys -> Versions] /\ NULL \in Marks
    BY DEF NoColumns, ColumnRows, NoSlice, Versions, NULL, Marks
<1>1. ASSUME NEW t \in Tables, SourceWrite(t) PROVE TypeInv'
    <2>1. PICK k \in Keys, s \in Stamps : source' = [source EXCEPT ![t][k] = s]
        BY <1>1 DEF SourceWrite
    <2>2. source' \in [Tables -> [Keys -> Versions]]
        <3>1. s \in Versions
            BY DEF Stamps, Versions
        <3>2. QED
            BY <1>0, <2>1, <3>1, SourceType
    <2>3. QED
        BY <1>1, <2>2 DEF SourceWrite, TypeOK
<1>2. ASSUME NEW t \in Tables, SourceDelete(t) PROVE TypeInv'
    <2>1. PICK k \in Keys : source' = [source EXCEPT ![t][k] = 0]
        BY <1>2 DEF SourceDelete
    <2>2. source' \in [Tables -> [Keys -> Versions]]
        <3>1. 0 \in Versions
            BY DEF Versions
        <3>2. QED
            BY <1>0, <2>1, <3>1, SourceType
    <2>3. QED
        BY <1>2, <2>2 DEF SourceDelete, TypeOK
<1>3. ASSUME NEW t \in Tables, EditActive(t) PROVE TypeInv'
    <2>1. control' = [control EXCEPT ![t] =
                        [control[t] EXCEPT !.active = ~control[t].active]]
        BY <1>3 DEF EditActive
    <2>2. control[t] \in [active : BOOLEAN, last : Marks, run : 0 .. MaxRuns]
        BY DEF TypeOK
    <2>3. (~control[t].active) \in BOOLEAN
        OBVIOUS
    <2>4. [control[t] EXCEPT !.active = ~control[t].active]
             \in [active : BOOLEAN, last : Marks, run : 0 .. MaxRuns]
        BY <2>2, <2>3
    <2>5. control' \in [Tables -> [active : BOOLEAN, last : Marks, run : 0 .. MaxRuns]]
        BY <2>1, <2>4 DEF TypeOK
    <2>6. edits' \in 0 .. MaxEdits
        BY <1>3 DEF EditActive, TypeOK
    <2>7. QED
        BY <1>3, <2>5, <2>6 DEF EditActive, TypeOK
<1>4. ASSUME StartRun PROVE TypeInv'
    <2>1. /\ phase' = "inventory" /\ step' = "loop" /\ run' = started + 1
          /\ rows' \subseteq Tables /\ todo' \subseteq rows'
        BY <1>4, EnterType DEF StartRun, Tasks
    <2>2. run' \in Runs /\ run' \in 0 .. started' /\ started' \in 0 .. MaxRuns
        BY <1>4, <2>1 DEF StartRun, TypeOK, Runs
    <2>3. \A r \in Runs : halted[r] # "none" => r <= started'
        BY <1>4, <1>0 DEF StartRun, TypeOK, Runs
    <2>4. control' = control /\ halted' = halted
        BY <1>4 DEF StartRun
    <2>5. QED
        BY <1>4, <2>1, <2>2, <2>3, <2>4 DEF StartRun, TypeOK, Runs, Tasks
<1>5. ASSUME NextTask PROVE TypeInv'
    <2>1. phase \in Tasks /\ Following[phase] \in Tasks \cup {"idle"}
        BY <1>5 DEF NextTask, Finished, TypeOK, Tasks, Following
    <2>2. /\ phase' \in Tasks \cup {"idle"} /\ step' = "loop" /\ run' = run
          /\ rows' \subseteq Tables /\ todo' \subseteq rows'
        BY <1>5, <2>1, EnterType DEF NextTask
    <2>3. run \in Runs
        BY <2>1 DEF Tasks
    <2>4. succeeded' \subseteq Runs /\ checked' \in [Runs -> SUBSET Tables]
        BY <1>5, <2>3 DEF NextTask, TypeOK
    <2>5. QED
        BY <1>5, <2>2, <2>3, <2>4 DEF NextTask, TypeOK
<1>6. ASSUME StopTask PROVE TypeInv'
    <2>1. phase \in Tasks /\ run \in Runs
        BY <1>6 DEF StopTask, Finished, TypeOK
    <2>2. /\ phase' = "idle" /\ step' = "loop" /\ run' = run
          /\ rows' \subseteq Tables /\ todo' \subseteq rows'
        BY <1>6, EnterType DEF StopTask
    <2>3. halted' = [halted EXCEPT ![run] = phase] /\ started' = started
        BY <1>6 DEF StopTask
    <2>4. halted' \in [Runs -> Tasks \cup {"none"}]
        BY <1>0, <2>1, <2>3, HaltedType
    <2>5. \A r \in Runs : halted'[r] # "none" => r <= started'
        BY <1>0, <2>1, <2>3 DEF TypeOK, Runs
    <2>6. QED
        BY <1>6, <2>1, <2>2, <2>3, <2>4, <2>5 DEF StopTask, TypeOK
<1>7. ASSUME WriteInventory PROVE TypeInv'
    <2>1. columns' \in [Runs -> [Layers -> ColumnRows]]
        <3>1. /\ run \in Runs /\ staged \in ColumnRows /\ "inventory" \in Layers
              /\ columns' = [columns EXCEPT ![run]["inventory"] = Added(@, staged)]
            BY <1>7 DEF WriteInventory, Advances, TypeOK, Layers
        <3>2. QED
            BY <1>0, <3>1, ColumnsType
    <2>2. QED
        BY <1>7, <1>a, <2>1 DEF WriteInventory, Advances, TypeOK
<1>8. ASSUME Normalize PROVE TypeInv'
    <2>1. columns' \in [Runs -> [Layers -> ColumnRows]]
        <3>1. /\ run \in Runs /\ "normalized" \in Layers
              /\ columns' = [columns EXCEPT ![run]["normalized"] = Added(@, columns[run].inventory)]
            BY <1>8 DEF Normalize, Advances, Layers
        <3>2. columns[run].inventory \in ColumnRows
            BY <1>0, <3>1 DEF TypeOK, Layers
        <3>3. QED
            BY <1>0, <3>1, <3>2, ColumnsType
    <2>2. QED
        BY <1>8, <2>1 DEF Normalize, Advances, TypeOK
<1>9. ASSUME MapColumns PROVE TypeInv'
    <2>1. columns' \in [Runs -> [Layers -> ColumnRows]]
        <3>1. /\ run \in Runs /\ "mapped" \in Layers
              /\ columns' = [columns EXCEPT ![run]["mapped"] = Added(@, columns[run].normalized)]
            BY <1>9 DEF MapColumns, Advances, Layers
        <3>2. columns[run].normalized \in ColumnRows
            BY <1>0, <3>1 DEF TypeOK, Layers
        <3>3. QED
            BY <1>0, <3>1, <3>2, ColumnsType
    <2>2. QED
        BY <1>9, <2>1 DEF MapColumns, Advances, TypeOK
<1>10. ASSUME QueueReviews PROVE TypeInv'
    BY <1>10 DEF QueueReviews, Advances, TypeOK
<1>11. ASSUME ResolveReviews PROVE TypeInv'
    BY <1>11 DEF ResolveReviews, Advances, TypeOK
<1>12. ASSUME Reconcile PROVE TypeInv'
    BY <1>12 DEF Reconcile, Advances, TypeOK
<1>13. ASSUME NEW t \in Tables, InventoryTable(t) PROVE TypeInv'
    <2>1. staged' \in ColumnRows /\ setup' \in [Tables -> Setup]
        BY <1>0, <1>13, StagesType, DetectsType DEF InventoryTable
    <2>2. QED
        BY <1>13, <2>1 DEF InventoryTable, Passes, TypeOK
<1>14. ASSUME NEW t \in Tables, DecideTable(t) PROVE TypeInv'
    <2>1. setup' \in [Tables -> Setup]
        <3>1. setup' = [setup EXCEPT ![t] = [setup[t] EXCEPT !.decision = Decision(t)]]
            BY <1>14 DEF DecideTable
        <3>2. /\ setup[t] \in Setup
              /\ Decision(t) \in {"AUTO_MIGRATE", "MANUAL_REVIEW", "BLOCKED"}
            BY DEF Decision, TypeOK
        <3>3. [setup[t] EXCEPT !.decision = Decision(t)] \in Setup
            BY <3>2 DEF Setup
        <3>4. QED
            BY <3>1, <3>3 DEF TypeOK
    <2>2. QED
        BY <1>14, <2>1 DEF DecideTable, Passes, TypeOK
<1>15. ASSUME NEW t \in Tables, ProvisionTable(t) PROVE TypeInv'
    <2>1. failed' \in BOOLEAN
        BY <1>15 DEF ProvisionTable
    <2>2. QED
        BY <1>15, <2>1 DEF ProvisionTable, Passes, TypeOK
<1>16. ASSUME NEW t \in Tables, BeginLoad(t) PROVE TypeInv'
    BY <1>16 DEF BeginLoad, TypeOK
<1>17. ASSUME NEW t \in Tables, RejectLoad(t) PROVE TypeInv'
    BY <1>17 DEF RejectLoad, Passes, TypeOK
<1>18. ASSUME NEW t \in Tables, ReadPartition(t) PROVE TypeInv'
    <2>1. slice' \in [Keys -> Versions] /\ pending' \subseteq Parts
        BY <1>18 DEF ReadPartition, TypeOK
    <2>2. horizon' \in [Tables -> Versions]
        <3>1. PICK m \in Versions :
                 horizon' = [horizon EXCEPT ![t] = IF m > @ THEN m ELSE @]
            BY <1>18 DEF ReadPartition
        <3>2. (IF m > horizon[t] THEN m ELSE horizon[t]) \in Versions
            BY DEF TypeOK
        <3>3. QED
            BY <3>1, <3>2 DEF TypeOK
    <2>3. step' \in {"overwrite", "read"}
        BY <1>18 DEF ReadPartition
    <2>4. QED
        BY <1>18, <2>1, <2>2, <2>3 DEF ReadPartition, TypeOK
<1>19. ASSUME NEW t \in Tables, OverwriteTarget(t) PROVE TypeInv'
    <2>1. Holding(slice) \in [Keys -> [Stamps -> Nat]]
        BY DEF Holding
    <2>2. target' \in [Targets -> [Keys -> [Stamps -> Nat]]]
        BY <1>19, <2>1 DEF OverwriteTarget, TypeOK
    <2>3. QED
        BY <1>19, <2>2 DEF OverwriteTarget, TypeOK
<1>20. ASSUME NEW t \in Tables, LogLoad(t) PROVE TypeInv'
    <2>1. run \in Runs
        BY <1>20 DEF LogLoad
    <2>2. log' \subseteq Runs \X Tables /\ failed' \in BOOLEAN
        <3>1. (log' = log \cup {<<run, t>>} /\ UNCHANGED failed)
                 \/ (failed' = TRUE /\ UNCHANGED log)
            BY <1>20 DEF LogLoad
        <3>2. log \subseteq Runs \X Tables /\ failed \in BOOLEAN
            BY DEF TypeOK
        <3>3. <<run, t>> \in Runs \X Tables
            BY <2>1
        <3>4. log' \subseteq Runs \X Tables
            BY <3>1, <3>2, <3>3
        <3>5. failed' \in BOOLEAN
            BY <3>1, <3>2, Zenon
        <3>6. QED
            BY <3>4, <3>5
    <2>3. QED
        BY <1>20, <1>a, <2>1, <2>2 DEF LogLoad, EndsItem, TypeOK
<1>21. ASSUME NEW t \in Tables, LoadFails(t) PROVE TypeInv'
    <2>1. run \in Runs
        BY <1>21 DEF LoadFails
    <2>2. log' \subseteq Runs \X Tables
        BY <1>21, <2>1 DEF LoadFails, TypeOK
    <2>3. faults' \in 0 .. MaxFaults
        BY <1>0, <1>21, FaultType DEF LoadFails
    <2>4. QED
        BY <1>21, <1>a, <2>1, <2>2, <2>3 DEF LoadFails, EndsItem, TypeOK
<1>22. ASSUME NEW t \in Tables, ReadSeed(t) PROVE TypeInv'
    <2>1. seed' \in Marks
        BY <1>22, <1>a DEF ReadSeed, Versions, Marks
    <2>2. QED
        BY <1>22, <2>1 DEF ReadSeed, TypeOK
<1>23. ASSUME NEW t \in Tables, Committed(t), run \in Runs
       PROVE  /\ control' \in [Tables -> [active : BOOLEAN, last : Marks, run : 0 .. MaxRuns]]
              /\ setup' \in [Tables -> Setup]
    <2>1. /\ control' = [control EXCEPT ![t] =
                            [control[t] EXCEPT !.last = seed, !.run = run]]
          /\ setup' = [setup EXCEPT ![t] = [setup[t] EXCEPT !.loaded = TRUE]]
        BY <1>23 DEF Committed
    <2>2. /\ control[t] \in [active : BOOLEAN, last : Marks, run : 0 .. MaxRuns]
          /\ setup[t] \in Setup /\ seed \in Marks /\ run \in 0 .. MaxRuns
        BY DEF TypeOK
    <2>3. [control[t] EXCEPT !.last = seed, !.run = run]
             \in [active : BOOLEAN, last : Marks, run : 0 .. MaxRuns]
        BY <2>2
    <2>4. [setup[t] EXCEPT !.loaded = TRUE] \in Setup
        BY <2>2 DEF Setup
    <2>5. QED
        BY <2>1, <2>3, <2>4 DEF TypeOK
<1>24. ASSUME NEW t \in Tables, CommitState(t) PROVE TypeInv'
    <2>1. run \in Runs
        BY <1>24 DEF CommitState, EndsCommit
    <2>2. QED
        BY <1>24, <1>a, <1>23, <2>1 DEF CommitState, EndsCommit, TypeOK
<1>25. ASSUME NEW t \in Tables, CommitFails(t) PROVE TypeInv'
    <2>1. run \in Runs
        BY <1>25 DEF CommitFails, EndsCommit
    <2>2. faults' \in 0 .. MaxFaults
        BY <1>0, <1>25, FaultType DEF CommitFails
    <2>3. /\ control' \in [Tables -> [active : BOOLEAN, last : Marks, run : 0 .. MaxRuns]]
          /\ setup' \in [Tables -> Setup]
        BY <1>25, <1>23, <2>1 DEF CommitFails, TypeOK
    <2>4. QED
        BY <1>25, <1>a, <2>1, <2>2, <2>3 DEF CommitFails, EndsCommit, TypeOK
<1>26. ASSUME NEW t \in Tables, InventoryFails(t) PROVE TypeInv'
    <2>1. staged' \in ColumnRows /\ setup' \in [Tables -> Setup]
        BY <1>0, <1>26, StagesType, DetectsType DEF InventoryFails
    <2>2. faults' \in 0 .. MaxFaults
        BY <1>0, <1>26, FaultType DEF InventoryFails
    <2>3. QED
        BY <1>26, <2>1, <2>2 DEF InventoryFails, Passes, TypeOK
<1>27. ASSUME LoseRunId PROVE TypeInv'
    <2>1. faults' \in 0 .. MaxFaults
        BY <1>0, <1>27, FaultType DEF LoseRunId
    <2>2. phase \in Tasks
        BY <1>27 DEF LoseRunId
    <2>3. step' \in {"written", "resolved", "loop"}
        BY <1>27, <2>2 DEF LoseRunId, LastStep, Tasks
    <2>4. failed' \in BOOLEAN
        BY <1>27 DEF LoseRunId
    <2>5. QED
        BY <1>27, <1>a, <2>1, <2>3, <2>4 DEF LoseRunId, TypeOK
<1>28. ASSUME Crash PROVE TypeInv'
    <2>1. faults' \in 0 .. MaxFaults
        BY <1>0, <1>28, FaultType DEF Crash
    <2>2. phase \in Tasks /\ run \in Runs
        BY <1>28 DEF Crash, TypeOK
    <2>3. /\ phase' = "idle" /\ step' = "loop" /\ run' = run
          /\ rows' \subseteq Tables /\ todo' \subseteq rows'
        BY <1>28, EnterType DEF Crash
    <2>4. halted' = [halted EXCEPT ![run] = phase] /\ started' = started
        BY <1>28 DEF Crash
    <2>5. halted' \in [Runs -> Tasks \cup {"none"}]
        BY <1>0, <2>2, <2>4, HaltedType
    <2>6. \A r \in Runs : halted'[r] # "none" => r <= started'
        BY <1>0, <2>2, <2>4 DEF TypeOK, Runs
    <2>7. QED
        BY <1>28, <1>a, <2>1, <2>2, <2>3, <2>4, <2>5, <2>6 DEF Crash, TypeOK
<1>29. ASSUME NEW r \in Runs, RepairRun(r) PROVE TypeInv'
    <2>1. halted[r] \in Tasks /\ r \in 0 .. started
        BY <1>29 DEF RepairRun, TypeOK, Runs
    <2>2. /\ phase' = halted[r] /\ step' = "loop" /\ run' = r
          /\ rows' \subseteq Tables /\ todo' \subseteq rows'
        BY <1>29, <2>1, EnterType DEF RepairRun
    <2>3. halted' = [halted EXCEPT ![r] = "none"] /\ started' = started
        BY <1>29 DEF RepairRun
    <2>4. halted' \in [Runs -> Tasks \cup {"none"}]
        BY <1>0, <2>3, HaltedType
    <2>5. \A q \in Runs : halted'[q] # "none" => q <= started'
        BY <2>3 DEF TypeOK
    <2>6. QED
        BY <1>29, <2>1, <2>2, <2>3, <2>4, <2>5 DEF RepairRun, TypeOK
<1>30. ASSUME UNCHANGED vars PROVE TypeInv'
    BY <1>30 DEF vars, TypeOK
<1>31. QED
    BY <1>1, <1>2, <1>3, <1>4, <1>5, <1>6, <1>7, <1>8, <1>9, <1>10, <1>11, <1>12, <1>13,
       <1>14, <1>15, <1>16, <1>17, <1>18, <1>19, <1>20, <1>21, <1>22, <1>24, <1>25,
       <1>26, <1>27, <1>28, <1>29, <1>30
    DEF Next, Environment, Job, Failure

\* The variables of JOB01 always have their types: counts are naturals, every
\* watermark is a stamp, the bootstrap value or absent, and every logged load,
\* reconciled load and committed state belongs to a run that was started.
THEOREM OnboardingTypeCorrect == Spec => []TypeOK
<1>1. Spec => []TypeInv
    BY TypeInit, TypeStep, PTL DEF Spec
<1>2. TypeInv => TypeOK
    BY DEF TypeInv
<1>3. QED
    BY <1>1, <1>2, PTL

-----------------------------------------------------------------------------
(* The handoff.  The seed is MAX of the loaded target.  It moves in NB10,   *)
(* which touches no data, so everything up to that MAX must be loaded       *)
(* before: TargetComplete.  A new load keeps TargetComplete because its     *)
(* extract holds all that was visible when it was read, and keeps what an   *)
(* earlier seed covers because that was visible too.                        *)

\* Nothing known to JOB01 is newer than the latest read of the source.
BelowHorizon ==
    \A t \in Tables :
        /\ control[t].last <= horizon[t]
        /\ \A s \in TargetStamps(TargetOf[t]) : s <= horizon[t]

\* Everything up to the newest row of a target is in it.
TargetComplete ==
    \A t \in Tables : \A s \in TargetStamps(TargetOf[t]) : Covered(t, s)

\* A complete extract holds every row that was visible when it was read; a row
\* that changed since carries a stamp above the horizon.
ExtractComplete ==
    step = "overwrite" =>
        \A k \in Keys :
            /\ slice[k] <= horizon[current]
            /\ source[current][k] # 0 /\ source[current][k] <= horizon[current]
                 => slice[k] = source[current][k]

\* The seed NB10 holds is covered.
SeedReady ==
    step = "commit" => seed <= horizon[current] /\ Covered(current, seed)

\* A statement belongs to an item.
ItemInHand == step \in {"overwrite", "commit"} => current \in Tables

SeedInv ==
    /\ TypeOK /\ BelowHorizon /\ SeedCovers /\ TargetComplete
    /\ ExtractComplete /\ SeedReady /\ ItemInHand

\* NB10's clock and layout assumptions: a row that becomes visible after a read
\* is newer than everything the read saw, an extract is one query, and no two
\* control rows resolve to one target.
CleanHandoff ==
    /\ Lag = 0
    /\ Partitioned = {} \/ \A p, q \in Parts : p = q
    /\ \A t, u \in Tables : TargetOf[t] = TargetOf[u] => t = u

LEMMA SeedInit == Init => SeedInv
<1> SUFFICES ASSUME Init PROVE SeedInv
    OBVIOUS
<1> USE OnboardingAssumption
<1>1. TypeOK
    BY TypeInit DEF TypeInv
<1>2. ASSUME NEW t \in Tables
      PROVE  TargetStamps(TargetOf[t]) = {}
    <2>1. \A k \in Keys, s \in Stamps : target[TargetOf[t]][k][s] = 0
        BY DEF Init, Holding, NoSlice, Stamps
    <2>2. QED
        BY <2>1 DEF TargetStamps
<1>3. \A t \in Tables : horizon[t] = 0 /\ control[t].last = -1
    BY DEF Init, NULL
<1>4. BelowHorizon
    BY <1>2, <1>3 DEF BelowHorizon
<1>5. SeedCovers
    <2>1. \A t \in Tables, k \in Keys : source[t][k] \in Nat
        BY DEF Init, Versions
    <2>2. QED
        BY <1>3, <2>1 DEF SeedCovers, Covered
<1>6. TargetComplete
    BY <1>2 DEF TargetComplete
<1>7. step = "loop"
    BY DEF Init
<1>8. QED
    BY <1>1, <1>4, <1>5, <1>6, <1>7 DEF SeedInv, ExtractComplete, SeedReady, ItemInHand

\* Most steps move neither the source nor what JOB01 stores, and hold neither a
\* complete extract nor a seed.
LEMMA QuietStep ==
    ASSUME SeedInv, TypeOK', UNCHANGED <<source, horizon, target, control>>,
           step' \notin {"overwrite", "commit"}
    PROVE  SeedInv'
<1>1. BelowHorizon'
    BY DEF SeedInv, BelowHorizon, TargetStamps
<1>2. SeedCovers' /\ TargetComplete'
    BY DEF SeedInv, SeedCovers, TargetComplete, Covered, TargetStamps
<1>3. QED
    BY <1>1, <1>2 DEF SeedInv, ExtractComplete, SeedReady, ItemInHand

\* A write at the source concerns no bound that is already known.
LEMMA SourceStep ==
    ASSUME SeedInv, TypeOK', NEW t \in Tables, NEW k \in Keys, NEW s \in Versions,
           s = 0 \/ s > horizon[t], source' = [source EXCEPT ![t][k] = s],
           UNCHANGED <<horizon, target, control, step, slice, current, seed>>
    PROVE  SeedInv'
<1>1. TypeOK
    BY DEF SeedInv
<1>2. ASSUME NEW u \in Tables, NEW j \in Keys
      PROVE  \/ source'[u][j] = source[u][j]
             \/ source'[u][j] = 0
             \/ source'[u][j] > horizon[u]
    <2>1. source' = [source EXCEPT ![t] = [source[t] EXCEPT ![k] = s]]
        OBVIOUS
    <2>2. source[t] \in [Keys -> Versions]
        BY <1>1 DEF TypeOK
    <2>3. QED
        BY <1>1, <2>1, <2>2 DEF TypeOK
<1>3. \A u \in Tables, j \in Keys : source[u][j] \in Int /\ source'[u][j] \in Int
    BY <1>1 DEF TypeOK, Versions
<1>4. \A u \in Tables : horizon[u] \in Int /\ control[u].last \in Int
    BY <1>1 DEF TypeOK, Versions, Marks
<1>5. ASSUME NEW u \in Tables, NEW b \in Int, b <= horizon[u], Covered(u, b)
      PROVE  \A j \in Keys : source'[u][j] # 0 /\ source'[u][j] <= b
                => target'[TargetOf[u]][j][source'[u][j]] > 0
    BY <1>2, <1>3, <1>4, <1>5 DEF Covered
<1>6. BelowHorizon'
    BY DEF SeedInv, BelowHorizon, TargetStamps
<1>7. SeedCovers'
    <2>1. \A u \in Tables : control[u].last <= horizon[u] /\ Covered(u, control[u].last)
        BY DEF SeedInv, BelowHorizon, SeedCovers
    <2>2. QED
        BY <1>4, <1>5, <2>1 DEF SeedCovers, Covered
<1>8. TargetComplete'
    <2>1. \A u \in Tables : \A b \in TargetStamps(TargetOf[u]) :
             b \in Int /\ b <= horizon[u] /\ Covered(u, b)
        BY DEF SeedInv, BelowHorizon, TargetComplete, TargetStamps, Stamps
    <2>2. \A u \in Tables : TargetStamps(TargetOf[u])' = TargetStamps(TargetOf[u])
        BY DEF TargetStamps
    <2>3. QED
        BY <1>5, <2>1, <2>2 DEF TargetComplete, Covered
<1>9. ExtractComplete'
    <2>1. SUFFICES ASSUME step = "overwrite"
                   PROVE  \A j \in Keys :
                             /\ slice[j] <= horizon[current]
                             /\ source'[current][j] # 0
                                /\ source'[current][j] <= horizon[current]
                                  => slice[j] = source'[current][j]
        BY DEF ExtractComplete
    <2>2. current \in Tables
        BY <2>1 DEF SeedInv, ItemInHand
    <2>3. QED
        BY <1>2, <1>3, <1>4, <2>1, <2>2 DEF SeedInv, ExtractComplete
<1>10. SeedReady'
    <2>1. SUFFICES ASSUME step = "commit"
                   PROVE  seed' <= horizon[current]' /\ Covered(current, seed)'
        BY DEF SeedReady
    <2>2. current \in Tables /\ seed \in Int
        BY <1>1, <2>1 DEF SeedInv, ItemInHand, TypeOK, Marks
    <2>3. seed <= horizon[current] /\ Covered(current, seed)
        BY <2>1 DEF SeedInv, SeedReady
    <2>4. QED
        BY <1>5, <2>2, <2>3 DEF Covered
<1>11. ItemInHand'
    BY DEF SeedInv, ItemInHand
<1>12. QED
    BY <1>6, <1>7, <1>8, <1>9, <1>10, <1>11 DEF SeedInv

\* An extract of one query holds what it saw.
LEMMA ReadStep ==
    ASSUME SeedInv, TypeOK', CleanHandoff, NEW t \in Tables, ReadPartition(t)
    PROVE  SeedInv'
<1> USE OnboardingAssumption
<1>1. TypeOK
    BY DEF SeedInv
<1>2. PICK m \in Versions :
         /\ IsMax(m, SourceStamps(t))
         /\ horizon' = [horizon EXCEPT ![t] = IF m > @ THEN m ELSE @]
    BY DEF ReadPartition
<1>3. \A u \in Tables : horizon[u] \in Int /\ horizon'[u] \in Int /\ horizon[u] <= horizon'[u]
    BY <1>1, <1>2 DEF TypeOK, Versions
<1>4. horizon'[t] >= m /\ m \in Int
    BY <1>1, <1>2 DEF TypeOK, Versions
<1>5. \A k \in Keys : source[t][k] \in Int /\ source[t][k] <= m
    <2>1. \A k \in Keys : source[t][k] \in SourceStamps(t)
        BY DEF SourceStamps
    <2>2. QED
        BY <1>1, <1>2, <2>1 DEF IsMax, TypeOK, Versions
<1>6. slice' = [k \in Keys |-> source[t][k]]
    <2>1. PICK p \in pending :
             slice' = [k \in Keys |-> IF PartOf[k] \in ReadTogether(t, p)
                                      THEN source[t][k] ELSE slice[k]]
        BY DEF ReadPartition
    <2>2. p \in Parts
        BY <1>1 DEF TypeOK
    <2>3. \A k \in Keys : PartOf[k] \in ReadTogether(t, p)
        BY <2>2 DEF CleanHandoff, ReadTogether
    <2>4. QED
        BY <2>1, <2>3
<1>7. /\ current' = t /\ source' = source /\ target' = target /\ control' = control
      /\ step' \in {"read", "overwrite"}
    BY DEF ReadPartition, storeVars
<1>8. BelowHorizon'
    <2>1. \A u \in Tables : control[u].last \in Int
        BY <1>1 DEF TypeOK, Marks
    <2>2. \A u \in Tables : TargetStamps(TargetOf[u])' = TargetStamps(TargetOf[u])
        BY <1>7 DEF TargetStamps
    <2>3. \A u \in Tables : \A s \in TargetStamps(TargetOf[u]) : s \in Int
        BY DEF TargetStamps, Stamps
    <2>4. QED
        BY <1>3, <1>7, <2>1, <2>2, <2>3 DEF SeedInv, BelowHorizon
<1>9. SeedCovers' /\ TargetComplete'
    BY <1>7 DEF SeedInv, SeedCovers, TargetComplete, Covered, TargetStamps
<1>10. ExtractComplete'
    BY <1>3, <1>4, <1>5, <1>6, <1>7 DEF ExtractComplete
<1>11. SeedReady' /\ ItemInHand'
    BY <1>7 DEF SeedReady, ItemInHand
<1>12. QED
    BY <1>8, <1>9, <1>10, <1>11 DEF SeedInv

\* Overwriting a target with a complete extract uncovers nothing.
LEMMA OverwriteStep ==
    ASSUME SeedInv, TypeOK', CleanHandoff, NEW t \in Tables, OverwriteTarget(t)
    PROVE  SeedInv'
<1> USE OnboardingAssumption
<1>1. TypeOK
    BY DEF SeedInv
<1>2. /\ current = t /\ step = "overwrite" /\ step' = "log"
      /\ source' = source /\ horizon' = horizon /\ control' = control
      /\ target' = [target EXCEPT ![TargetOf[t]] = Holding(slice)]
    BY DEF OverwriteTarget, sourceVars
<1>3. \A k \in Keys : /\ slice[k] <= horizon[t]
                      /\ source[t][k] # 0 /\ source[t][k] <= horizon[t]
                           => slice[k] = source[t][k]
    BY <1>2 DEF SeedInv, ExtractComplete
<1>4. TargetOf[t] \in Targets
    OBVIOUS
<1>5. \A k \in Keys, s \in Stamps : target'[TargetOf[t]][k][s] > 0 <=> slice[k] = s
    <2>1. target'[TargetOf[t]] = Holding(slice)
        BY <1>1, <1>2, <1>4 DEF TypeOK
    <2>2. QED
        BY <2>1 DEF Holding
<1>6. \A u \in Tables \ {t} : target'[TargetOf[u]] = target[TargetOf[u]]
    BY <1>1, <1>2 DEF TypeOK, CleanHandoff
<1>7. \A u \in Tables : horizon[u] \in Int /\ control[u].last \in Int
    BY <1>1 DEF TypeOK, Versions, Marks
<1>8. \A u \in Tables, k \in Keys : source[u][k] \in Versions
    BY <1>1 DEF TypeOK
<1>9. \A s \in TargetStamps(TargetOf[t])' : s \in Int /\ s <= horizon[t]
    BY <1>3, <1>5 DEF TargetStamps, Stamps
<1>10. ASSUME NEW b \in Int, b <= horizon[t]
       PROVE  \A k \in Keys : source[t][k] # 0 /\ source[t][k] <= b
                 => target'[TargetOf[t]][k][source[t][k]] > 0
    <2>1. ASSUME NEW k \in Keys, source[t][k] # 0, source[t][k] <= b
          PROVE  target'[TargetOf[t]][k][source[t][k]] > 0
        <3>1. source[t][k] \in Stamps
            BY <1>8, <2>1 DEF Versions, Stamps
        <3>2. source[t][k] <= horizon[t]
            BY <1>7, <1>10, <2>1, <3>1 DEF Stamps
        <3>3. QED
            BY <1>3, <1>5, <2>1, <3>1, <3>2
    <2>2. QED
        BY <2>1
<1>11. \A u \in Tables \ {t} : TargetStamps(TargetOf[u])' = TargetStamps(TargetOf[u])
    BY <1>6 DEF TargetStamps
<1>12. BelowHorizon'
    BY <1>2, <1>9, <1>11 DEF SeedInv, BelowHorizon
<1>13. SeedCovers'
    <2>1. \A k \in Keys : source[t][k] # 0 /\ source[t][k] <= control[t].last
             => target'[TargetOf[t]][k][source[t][k]] > 0
        BY <1>7, <1>10 DEF SeedInv, BelowHorizon
    <2>2. QED
        BY <1>2, <1>6, <2>1 DEF SeedInv, SeedCovers, Covered
<1>14. TargetComplete'
    <2>1. ASSUME NEW u \in Tables, NEW s \in TargetStamps(TargetOf[u])'
          PROVE  Covered(u, s)'
        <3>1. CASE u = t
            BY <1>2, <1>9, <1>10, <3>1 DEF Covered
        <3>2. CASE u # t
            BY <1>2, <1>6, <1>11, <3>2 DEF SeedInv, TargetComplete, Covered
        <3>3. QED
            BY <3>1, <3>2
    <2>2. QED
        BY <2>1 DEF TargetComplete
<1>15. QED
    BY <1>2, <1>12, <1>13, <1>14 DEF SeedInv, ExtractComplete, SeedReady, ItemInHand

\* MAX of a complete target is covered.
LEMMA ReadSeedStep ==
    ASSUME SeedInv, TypeOK', NEW t \in Tables, ReadSeed(t)
    PROVE  SeedInv'
<1> USE OnboardingAssumption
<1>1. TypeOK
    BY DEF SeedInv
<1>2. /\ current' = t /\ step' = "commit"
      /\ source' = source /\ horizon' = horizon /\ target' = target /\ control' = control
    BY DEF ReadSeed, sourceVars, storeVars
<1>3. PICK m \in Versions : /\ IsMax(m, TargetStamps(TargetOf[t]))
                            /\ seed' = IF Temporal(t) THEN m ELSE NULL
    BY DEF ReadSeed
<1>4. seed' \in TargetStamps(TargetOf[t]) \/ seed' = 0 \/ seed' = -1
    BY <1>3 DEF IsMax, NULL
<1>5. \A k \in Keys : source[t][k] \in Nat
    BY <1>1 DEF TypeOK, Versions
<1>6. horizon[t] \in Nat
    BY <1>1 DEF TypeOK, Versions
<1>7. SeedReady'
    <2>1. CASE seed' \in TargetStamps(TargetOf[t])
        BY <1>2, <2>1 DEF SeedInv, BelowHorizon, TargetComplete, SeedReady, Covered
    <2>2. CASE seed' = 0 \/ seed' = -1
        BY <1>2, <1>5, <1>6, <2>2 DEF SeedReady, Covered
    <2>3. QED
        BY <1>4, <2>1, <2>2
<1>8. BelowHorizon' /\ SeedCovers' /\ TargetComplete'
    BY <1>2 DEF SeedInv, BelowHorizon, SeedCovers, TargetComplete, Covered, TargetStamps
<1>9. QED
    BY <1>2, <1>7, <1>8 DEF SeedInv, ExtractComplete, ItemInHand

\* NB10 commits a seed that is covered, or nothing.
LEMMA CommitStep ==
    ASSUME SeedInv, TypeOK', NEW t \in Tables, EndsCommit(t),
           Committed(t) \/ UNCHANGED <<control, setup>>
    PROVE  SeedInv'
<1>1. TypeOK
    BY DEF SeedInv
<1>2. /\ current = t /\ step = "commit" /\ step' = "loop"
      /\ source' = source /\ horizon' = horizon /\ target' = target
    BY DEF EndsCommit, sourceVars
<1>3. CASE UNCHANGED <<control, setup>>
    BY <1>2, <1>3, QuietStep
<1>4. CASE Committed(t)
    <2>1. control' = [control EXCEPT ![t] = [control[t] EXCEPT !.last = seed, !.run = run]]
        BY <1>4 DEF Committed
    <2>2. control[t] \in [active : BOOLEAN, last : Marks, run : 0 .. MaxRuns]
        BY <1>1 DEF TypeOK
    <2>3. [control[t] EXCEPT !.last = seed, !.run = run].last = seed
        BY <2>2
    <2>4. \A u \in Tables : control'[u].last = IF u = t THEN seed ELSE control[u].last
        BY <1>1, <2>1, <2>3 DEF TypeOK
    <2>5. seed <= horizon[t] /\ Covered(t, seed)
        BY <1>2 DEF SeedInv, SeedReady
    <2>6. BelowHorizon'
        BY <1>2, <2>4, <2>5 DEF SeedInv, BelowHorizon, TargetStamps
    <2>7. SeedCovers'
        BY <1>2, <2>4, <2>5 DEF SeedInv, SeedCovers, Covered
    <2>8. TargetComplete'
        BY <1>2 DEF SeedInv, TargetComplete, Covered, TargetStamps
    <2>9. QED
        BY <1>2, <2>6, <2>7, <2>8 DEF SeedInv, ExtractComplete, SeedReady, ItemInHand
<1>5. QED
    BY <1>3, <1>4

LEMMA SeedStep == CleanHandoff /\ SeedInv /\ TypeOK' /\ [Next]_vars => SeedInv'
<1> SUFFICES ASSUME CleanHandoff, SeedInv, TypeOK', [Next]_vars PROVE SeedInv'
    OBVIOUS
<1> USE DEF sourceVars, storeVars, jobVars, loopVars, itemVars
<1>0. TypeOK
    BY DEF SeedInv
<1>1. ASSUME NEW t \in Tables, SourceWrite(t) PROVE SeedInv'
    <2>1. PICK k \in Keys, s \in Stamps :
             s > horizon[t] - Lag /\ source' = [source EXCEPT ![t][k] = s]
        BY <1>1 DEF SourceWrite
    <2>2. s \in Versions /\ s > horizon[t]
        BY <1>0, <2>1 DEF CleanHandoff, TypeOK, Stamps, Versions
    <2>3. QED
        BY <1>1, <2>1, <2>2, SourceStep DEF SourceWrite
<1>2. ASSUME NEW t \in Tables, SourceDelete(t) PROVE SeedInv'
    <2>1. PICK k \in Keys : source' = [source EXCEPT ![t][k] = 0]
        BY <1>2 DEF SourceDelete
    <2>2. 0 \in Versions
        BY OnboardingAssumption DEF Versions
    <2>3. QED
        BY <1>2, <2>1, <2>2, SourceStep DEF SourceDelete
<1>3. ASSUME NEW t \in Tables, EditActive(t) PROVE SeedInv'
    <2>1. control' = [control EXCEPT ![t] =
                        [control[t] EXCEPT !.active = ~control[t].active]]
        BY <1>3 DEF EditActive
    <2>2. control[t] \in [active : BOOLEAN, last : Marks, run : 0 .. MaxRuns]
        BY <1>0 DEF TypeOK
    <2>3. [control[t] EXCEPT !.active = ~control[t].active].last = control[t].last
        BY <2>2
    <2>4. \A u \in Tables : control'[u].last = control[u].last
        BY <1>0, <2>1, <2>3 DEF TypeOK
    <2>5. BelowHorizon'
        BY <1>3, <2>4 DEF EditActive, SeedInv, BelowHorizon, TargetStamps
    <2>6. SeedCovers' /\ TargetComplete'
        BY <1>3, <2>4 DEF EditActive, SeedInv, SeedCovers, TargetComplete, Covered, TargetStamps
    <2>7. ExtractComplete' /\ SeedReady' /\ ItemInHand'
        BY <1>3 DEF EditActive, SeedInv, ExtractComplete, SeedReady, ItemInHand, Covered
    <2>8. QED
        BY <2>5, <2>6, <2>7 DEF SeedInv
<1>4. ASSUME NextTask \/ StartRun \/ StopTask \/ Crash \/ \E r \in Runs : RepairRun(r)
      PROVE  SeedInv'
    BY <1>4, QuietStep DEF NextTask, StartRun, StopTask, RepairRun, Crash, Enter
<1>5. ASSUME \/ WriteInventory \/ Normalize \/ MapColumns
             \/ QueueReviews \/ ResolveReviews \/ Reconcile
      PROVE  SeedInv'
    BY <1>5, QuietStep
    DEF WriteInventory, Normalize, MapColumns, QueueReviews, ResolveReviews, Reconcile,
        Advances
<1>6. ASSUME NEW t \in Tables,
             \/ InventoryTable(t) \/ InventoryFails(t) \/ DecideTable(t)
             \/ ProvisionTable(t) \/ RejectLoad(t)
      PROVE  SeedInv'
    BY <1>6, QuietStep
    DEF InventoryTable, InventoryFails, DecideTable, ProvisionTable, RejectLoad, Passes
<1>7. ASSUME NEW t \in Tables, BeginLoad(t) PROVE SeedInv'
    BY <1>7, QuietStep DEF BeginLoad
<1>8. ASSUME NEW t \in Tables, LogLoad(t) \/ LoadFails(t) PROVE SeedInv'
    BY <1>8, QuietStep DEF LogLoad, LoadFails, EndsItem
<1>9. ASSUME NEW t \in Tables, ReadPartition(t) PROVE SeedInv'
    BY <1>9, ReadStep
<1>10. ASSUME NEW t \in Tables, OverwriteTarget(t) PROVE SeedInv'
    BY <1>10, OverwriteStep
<1>11. ASSUME NEW t \in Tables, ReadSeed(t) PROVE SeedInv'
    BY <1>11, ReadSeedStep
<1>12. ASSUME NEW t \in Tables, CommitState(t) \/ CommitFails(t) PROVE SeedInv'
    BY <1>12, CommitStep DEF CommitState, CommitFails
<1>13. ASSUME LoseRunId PROVE SeedInv'
    <2>1. step' \notin {"overwrite", "commit"}
        BY <1>0, <1>13, OnboardingAssumption DEF LoseRunId, LastStep, Tasks
    <2>2. QED
        BY <1>13, <2>1, QuietStep DEF LoseRunId
<1>14. ASSUME UNCHANGED vars PROVE SeedInv'
    BY <1>14
    DEF vars, SeedInv, BelowHorizon, SeedCovers, TargetComplete, ExtractComplete,
        SeedReady, ItemInHand, Covered, TargetStamps
<1>15. QED
    BY <1>1, <1>2, <1>3, <1>4, <1>5, <1>6, <1>7, <1>8, <1>9, <1>10, <1>11, <1>12, <1>13,
       <1>14
    DEF Next, Environment, Job, Failure

\* NB10 never seeds a checkpoint past a row that is missing in the target, at
\* every later moment and through every crash, repair and re-run of the job, if
\* stamps are handed out in the order rows become visible, an extract is one
\* query and targets are not shared.  Each condition is needed: a run refutes
\* the property for partitioned extracts.
THEOREM SeedNeverAhead ==
    ASSUME CleanHandoff
    PROVE  Spec => []SeedCovers
<1>1. Init => SeedInv
    BY SeedInit
<1>2. SeedInv /\ TypeOK' /\ [Next]_vars => SeedInv'
    BY SeedStep
<1>3. SeedInv => SeedCovers
    BY DEF SeedInv
<1>4. Spec => []TypeOK
    BY OnboardingTypeCorrect
<1>5. QED
    BY <1>1, <1>2, <1>3, <1>4, PTL DEF Spec

-----------------------------------------------------------------------------
(* The state NB10 commits.  Loads and verdicts are only ever added, and     *)
(* NB10 collects its rows from both.                                        *)

\* The rows NB10 has not reached and the one it holds are logged and reconciled.
CommitBacked ==
    /\ phase = "commit" => \A t \in todo : <<run, t>> \in log /\ <<run, t>> \in passed
    /\ step = "commit" => /\ current \in Tables
                          /\ <<run, current>> \in log /\ <<run, current>> \in passed

BackedInv == StateBacked /\ CommitBacked

\* Nothing takes back a load, a verdict or a committed state.
LEMMA BackedStays ==
    ASSUME StateBacked, log \subseteq log', passed \subseteq passed',
           \A t \in Tables : control'[t].run = control[t].run,
           \A t \in Tables : setup[t].loaded => setup'[t].loaded
    PROVE  StateBacked'
BY DEF StateBacked

LEMMA BackedStep == TypeInv /\ TypeInv' /\ BackedInv /\ [Next]_vars => BackedInv'
<1> SUFFICES ASSUME TypeInv, TypeInv', BackedInv, [Next]_vars PROVE BackedInv'
    OBVIOUS
<1> USE DEF sourceVars, storeVars, jobVars, loopVars, itemVars, BackedInv
<1>0. TypeOK /\ TypeOK'
    BY DEF TypeInv
<1>1. ASSUME NEW t \in Tables, SourceWrite(t) \/ SourceDelete(t) PROVE BackedInv'
    BY <1>1, BackedStays DEF SourceWrite, SourceDelete, CommitBacked
<1>2. ASSUME NEW t \in Tables, EditActive(t) PROVE BackedInv'
    <2>1. control' = [control EXCEPT ![t] =
                        [control[t] EXCEPT !.active = ~control[t].active]]
        BY <1>2 DEF EditActive
    <2>2. control[t] \in [active : BOOLEAN, last : Marks, run : 0 .. MaxRuns]
        BY <1>0 DEF TypeOK
    <2>3. [control[t] EXCEPT !.active = ~control[t].active].run = control[t].run
        BY <2>2
    <2>4. \A u \in Tables : control'[u].run = control[u].run
        BY <1>0, <2>1, <2>3 DEF TypeOK
    <2>5. QED
        BY <1>2, <2>4, BackedStays DEF EditActive, CommitBacked
<1>3. ASSUME \/ NextTask \/ Crash \/ StopTask \/ \E r \in Runs : RepairRun(r)
      PROVE  BackedInv'
    <2>1. /\ log' = log /\ passed' = passed /\ control' = control /\ setup' = setup
          /\ step' = "loop"
        BY <1>3 DEF NextTask, RepairRun, Crash, StopTask, Enter
    <2>2. phase' = "commit" => todo' = Committable(run')
        BY <1>3 DEF NextTask, RepairRun, Crash, StopTask, Enter, Collected
    <2>3. CommitBacked'
        BY <2>1, <2>2 DEF CommitBacked, Committable
    <2>4. QED
        BY <2>1, <2>3, BackedStays
<1>4. ASSUME StartRun PROVE BackedInv'
    BY <1>4, BackedStays DEF StartRun, Enter, CommitBacked
<1>5. ASSUME \/ WriteInventory \/ Normalize \/ MapColumns
             \/ QueueReviews \/ ResolveReviews \/ Reconcile
      PROVE  BackedInv'
    <2>1. /\ log' = log /\ passed \subseteq passed' /\ control' = control
          /\ setup' = setup /\ run' = run /\ todo' = todo
          /\ phase' # "commit" /\ step' # "commit"
        BY <1>5
        DEF WriteInventory, Normalize, MapColumns, QueueReviews, ResolveReviews, Reconcile,
            Advances
    <2>2. QED
        BY <2>1, BackedStays DEF CommitBacked
<1>6. ASSUME NEW t \in Tables, Detects(t) \/ UNCHANGED setup \/ DecideTable(t)
      PROVE  \A u \in Tables : setup'[u].loaded = setup[u].loaded
    <2>1. setup[t] \in Setup
        BY <1>0 DEF TypeOK
    <2>2. CASE Detects(t)
        <3>1. setup' = [setup EXCEPT ![t] = [setup[t] EXCEPT !.strategy = Detected[t]]]
            BY <2>2 DEF Detects
        <3>2. [setup[t] EXCEPT !.strategy = Detected[t]].loaded = setup[t].loaded
            BY <2>1 DEF Setup
        <3>3. QED
            BY <1>0, <3>1, <3>2 DEF TypeOK
    <2>3. CASE DecideTable(t)
        <3>1. setup' = [setup EXCEPT ![t] = [setup[t] EXCEPT !.decision = Decision(t)]]
            BY <2>3 DEF DecideTable
        <3>2. [setup[t] EXCEPT !.decision = Decision(t)].loaded = setup[t].loaded
            BY <2>1 DEF Setup
        <3>3. QED
            BY <1>0, <3>1, <3>2 DEF TypeOK
    <2>4. QED
        BY <1>6, <2>2, <2>3
<1>7. ASSUME NEW t \in Tables,
             InventoryTable(t) \/ InventoryFails(t) \/ DecideTable(t)
      PROVE  BackedInv'
    <2>1. /\ log' = log /\ passed' = passed /\ control' = control /\ run' = run
          /\ phase' # "commit" /\ step' # "commit"
        BY <1>7 DEF InventoryTable, InventoryFails, DecideTable, Passes
    <2>2. \A u \in Tables : setup'[u].loaded = setup[u].loaded
        BY <1>6, <1>7 DEF InventoryTable, InventoryFails
    <2>3. QED
        BY <2>1, <2>2, BackedStays DEF CommitBacked
<1>8. ASSUME NEW t \in Tables, ProvisionTable(t) \/ RejectLoad(t) \/ BeginLoad(t)
      PROVE  BackedInv'
    <2>1. /\ log' = log /\ passed' = passed /\ control' = control /\ setup' = setup
          /\ phase' # "commit" /\ step' # "commit"
        BY <1>8 DEF ProvisionTable, RejectLoad, BeginLoad, Passes
    <2>2. QED
        BY <2>1, BackedStays DEF CommitBacked
<1>9. ASSUME NEW t \in Tables,
             ReadPartition(t) \/ OverwriteTarget(t) \/ LogLoad(t) \/ LoadFails(t)
      PROVE  BackedInv'
    <2>1. /\ log \subseteq log' /\ passed' = passed /\ control' = control
          /\ setup' = setup /\ run' = run /\ todo' = todo /\ phase' = phase
          /\ step' # "commit"
        BY <1>9 DEF ReadPartition, OverwriteTarget, LogLoad, LoadFails, EndsItem
    <2>2. QED
        BY <2>1, BackedStays DEF CommitBacked
<1>10. ASSUME NEW t \in Tables, ReadSeed(t) PROVE BackedInv'
    <2>1. /\ log' = log /\ passed' = passed /\ control' = control /\ setup' = setup
          /\ run' = run /\ phase' = phase /\ phase = "commit"
          /\ current' = t /\ t \in todo /\ todo' = todo \ {t}
        BY <1>10 DEF ReadSeed
    <2>2. CommitBacked'
        BY <2>1 DEF CommitBacked
    <2>3. QED
        BY <2>1, <2>2, BackedStays
<1>11. ASSUME NEW t \in Tables, CommitState(t) \/ CommitFails(t) PROVE BackedInv'
    <2>1. /\ log' = log /\ passed' = passed /\ run' = run /\ todo' = todo /\ phase' = phase
          /\ current = t /\ step = "commit" /\ step' = "loop"
          /\ Committed(t) \/ UNCHANGED <<control, setup>>
        BY <1>11 DEF CommitState, CommitFails, EndsCommit
    <2>2. CommitBacked'
        BY <2>1 DEF CommitBacked
    <2>3. CASE UNCHANGED <<control, setup>>
        BY <2>1, <2>2, <2>3, BackedStays
    <2>4. CASE Committed(t)
        <3>1. /\ control' = [control EXCEPT ![t] =
                               [control[t] EXCEPT !.last = seed, !.run = run]]
              /\ setup' = [setup EXCEPT ![t] = [setup[t] EXCEPT !.loaded = TRUE]]
            BY <2>4 DEF Committed
        <3>2. /\ control[t] \in [active : BOOLEAN, last : Marks, run : 0 .. MaxRuns]
              /\ setup[t] \in Setup
            BY <1>0 DEF TypeOK
        <3>3. [control[t] EXCEPT !.last = seed, !.run = run].run = run
            BY <3>2
        <3>4. [setup[t] EXCEPT !.loaded = TRUE].loaded = TRUE
            BY <3>2 DEF Setup
        <3>5. /\ control'[t].run = run /\ setup'[t].loaded
              /\ \A u \in Tables \ {t} : control'[u] = control[u] /\ setup'[u] = setup[u]
            BY <1>0, <3>1, <3>3, <3>4 DEF TypeOK
        <3>6. <<run, t>> \in log /\ <<run, t>> \in passed
            BY <2>1 DEF CommitBacked
        <3>7. StateBacked'
            BY <2>1, <3>5, <3>6 DEF StateBacked
        <3>8. QED
            BY <2>2, <3>7
    <2>5. QED
        BY <2>1, <2>3, <2>4
<1>12. ASSUME LoseRunId PROVE BackedInv'
    <2>1. /\ log' = log /\ passed' = passed /\ control' = control /\ setup' = setup
          /\ todo' = {}
        BY <1>12 DEF LoseRunId
    <2>2. step' # "commit"
        BY <1>0, <1>12, OnboardingAssumption DEF LoseRunId, LastStep, Tasks
    <2>3. QED
        BY <2>1, <2>2, BackedStays DEF CommitBacked
<1>13. ASSUME UNCHANGED vars PROVE BackedInv'
    BY <1>13 DEF vars, StateBacked, CommitBacked
<1>14. QED
    BY <1>1, <1>2, <1>3, <1>4, <1>5, <1>7, <1>8, <1>9, <1>10, <1>11, <1>12, <1>13
    DEF Next, Environment, Job, Failure

\* NB10 commits bootstrap state only after a load that NB09 logged SUCCEEDED and
\* NB12 reconciled under the same run_id, whatever crashed, was repaired or was
\* started again in between, and nothing takes either record back.
THEOREM CommitsAreBacked == Spec => []StateBacked
<1>1. Init => BackedInv
    BY DEF Init, BackedInv, StateBacked, CommitBacked
<1>2. Spec => []TypeInv
    BY TypeInit, TypeStep, PTL DEF Spec
<1>3. BackedInv => StateBacked
    BY DEF BackedInv
<1>4. QED
    BY <1>1, <1>2, <1>3, BackedStep, PTL DEF Spec

-----------------------------------------------------------------------------
(***************************************************************************)
(* What decisions, review queue, loads and committed states of JOB01 say of *)
(* each other.                                                             *)
(***************************************************************************)

\* A statement belongs to the notebook that is running, and to a row it
\* collected.
StepFitsTask ==
    /\ step \in {"read", "overwrite", "log"} => phase = "load" /\ current \in rows
    /\ step = "commit" => phase = "commit" /\ current \in Tables
    /\ step \in {"queued", "resolved"} => phase = "decide" /\ todo = {}

\* NB07 decides by the mappings of its run, and queues what may not migrate.
DecidedByMappings ==
    /\ phase = "decide" => \A t \in rows \ todo : setup[t].decision = Decision(t)
    /\ step = "queued" => \A t \in rows :
          Decision(t) # "AUTO_MIGRATE" => review[t] = "PENDING_REVIEW"

ReviewInv == StepFitsTask /\ DecidedByMappings /\ ReviewQueueAgrees

-----------------------------------------------------------------------------
(* Statements and notebooks.                                               *)

LEMMA FitsStep == TypeInv /\ StepFitsTask /\ [Next]_vars => StepFitsTask'
<1> SUFFICES ASSUME TypeInv, StepFitsTask, [Next]_vars PROVE StepFitsTask'
    OBVIOUS
<1> USE DEF TypeInv, sourceVars, storeVars, jobVars, loopVars, itemVars, StepFitsTask
<1>1. ASSUME NEW t \in Tables, SourceWrite(t) \/ SourceDelete(t) \/ EditActive(t)
      PROVE  StepFitsTask'
    BY <1>1 DEF SourceWrite, SourceDelete, EditActive
<1>2. ASSUME StartRun \/ NextTask \/ StopTask \/ Crash \/ \E r \in Runs : RepairRun(r)
      PROVE  StepFitsTask'
    <2>1. step' = "loop"
        BY <1>2 DEF StartRun, NextTask, StopTask, Crash, RepairRun, Enter
    <2>2. QED
        BY <2>1
<1>3. ASSUME WriteInventory \/ Normalize \/ MapColumns \/ Reconcile PROVE StepFitsTask'
    <2>1. step' = "written"
        BY <1>3 DEF WriteInventory, Normalize, MapColumns, Reconcile, Advances
    <2>2. QED
        BY <2>1
<1>4. ASSUME QueueReviews \/ ResolveReviews PROVE StepFitsTask'
    BY <1>4 DEF QueueReviews, ResolveReviews, Advances
<1>5. ASSUME NEW t \in Tables,
             \/ InventoryTable(t) \/ InventoryFails(t) \/ DecideTable(t)
             \/ ProvisionTable(t) \/ RejectLoad(t)
      PROVE  StepFitsTask'
    <2>1. step' = "loop"
        BY <1>5 DEF InventoryTable, InventoryFails, DecideTable, ProvisionTable, RejectLoad,
                    Passes
    <2>2. QED
        BY <2>1
<1>6. ASSUME NEW t \in Tables, BeginLoad(t) PROVE StepFitsTask'
    BY <1>6 DEF BeginLoad, TypeOK
<1>7. ASSUME NEW t \in Tables, ReadPartition(t) PROVE StepFitsTask'
    <2>1. step' \in {"overwrite", "read"} /\ step = "read"
        BY <1>7 DEF ReadPartition
    <2>2. UNCHANGED <<phase, current, rows>>
        BY <1>7 DEF ReadPartition
    <2>3. QED
        BY <2>1, <2>2
<1>8. ASSUME NEW t \in Tables, OverwriteTarget(t) PROVE StepFitsTask'
    BY <1>8 DEF OverwriteTarget
<1>9. ASSUME NEW t \in Tables,
             LogLoad(t) \/ LoadFails(t) \/ CommitState(t) \/ CommitFails(t)
      PROVE  StepFitsTask'
    <2>1. step' = "loop"
        BY <1>9 DEF LogLoad, LoadFails, EndsItem, CommitState, CommitFails, EndsCommit
    <2>2. QED
        BY <2>1
<1>10. ASSUME NEW t \in Tables, ReadSeed(t) PROVE StepFitsTask'
    BY <1>10 DEF ReadSeed
<1>11. ASSUME LoseRunId PROVE StepFitsTask'
    <2>1. phase \in Tasks /\ step' = LastStep[phase] /\ todo' = {} /\ phase' = phase
        BY <1>11, OnboardingAssumption DEF LoseRunId
    <2>2. /\ step' \in {"written", "resolved", "loop"}
          /\ step' = "resolved" => phase = "decide"
        BY <2>1 DEF LastStep, Tasks
    <2>3. QED
        BY <2>1, <2>2
<1>12. ASSUME UNCHANGED vars PROVE StepFitsTask'
    BY <1>12 DEF vars
<1>13. QED
    BY <1>1, <1>2, <1>3, <1>4, <1>5, <1>6, <1>7, <1>8, <1>9, <1>10, <1>11, <1>12
    DEF Next, Environment, Job, Failure

-----------------------------------------------------------------------------
(* Decisions and the review queue.                                         *)

\* The decision NB07 writes is the decision of the row.
LEMMA DecisionWritten ==
    ASSUME TypeOK, NEW t \in Tables, DecideTable(t)
    PROVE  \A u \in Tables : setup'[u].decision = IF u = t THEN Decision(t)
                                                           ELSE setup[u].decision
<1>1. setup' = [setup EXCEPT ![t] = [setup[t] EXCEPT !.decision = Decision(t)]]
    BY DEF DecideTable
<1>2. setup[t] \in Setup
    BY DEF TypeOK
<1>3. [setup[t] EXCEPT !.decision = Decision(t)].decision = Decision(t)
    BY <1>2 DEF Setup
<1>4. QED
    BY <1>1, <1>3 DEF TypeOK

LEMMA ReviewStep == TypeInv /\ ReviewInv /\ [Next]_vars => ReviewInv'
<1> SUFFICES ASSUME TypeInv, ReviewInv, [Next]_vars PROVE ReviewInv'
    OBVIOUS
<1> USE DEF sourceVars, storeVars, jobVars, loopVars, itemVars
<1>1. StepFitsTask'
    BY FitsStep DEF ReviewInv
<1> SUFFICES DecidedByMappings' /\ ReviewQueueAgrees'
    BY <1>1 DEF ReviewInv
<1>2. TypeOK /\ StepFitsTask /\ DecidedByMappings /\ ReviewQueueAgrees
    BY DEF TypeInv, ReviewInv
<1> DEFINE Goal == DecidedByMappings' /\ ReviewQueueAgrees'
<1>3. ASSUME \/ UNCHANGED vars
             \/ \E t \in Tables : SourceWrite(t) \/ SourceDelete(t) \/ EditActive(t)
      PROVE  Goal
    <2>1. UNCHANGED <<phase, run, step, rows, todo, setup, columns, review>>
        BY <1>3 DEF vars, SourceWrite, SourceDelete, EditActive
    <2>2. QED
        BY <1>2, <2>1 DEF DecidedByMappings, ReviewQueueAgrees, Decision
<1>4. ASSUME StartRun \/ NextTask \/ StopTask \/ Crash \/ \E r \in Runs : RepairRun(r)
      PROVE  Goal
    <2>1. step' = "loop" /\ rows' = todo'
        BY <1>4 DEF StartRun, NextTask, StopTask, Crash, RepairRun, Enter
    <2>2. QED
        BY <2>1 DEF DecidedByMappings, ReviewQueueAgrees
<1>5. ASSUME phase # "decide", phase' = phase PROVE Goal
    BY <1>1, <1>5 DEF DecidedByMappings, ReviewQueueAgrees, StepFitsTask
<1>6. ASSUME \/ WriteInventory \/ Normalize \/ MapColumns \/ Reconcile
             \/ \E t \in Tables :
                   \/ InventoryTable(t) \/ InventoryFails(t) \/ ProvisionTable(t)
                   \/ BeginLoad(t) \/ RejectLoad(t) \/ ReadPartition(t)
                   \/ OverwriteTarget(t) \/ LogLoad(t) \/ LoadFails(t)
                   \/ ReadSeed(t) \/ CommitState(t) \/ CommitFails(t)
      PROVE  Goal
    <2>1. phase # "decide" /\ phase' = phase
        BY <1>2, <1>6
        DEF WriteInventory, Normalize, MapColumns, Reconcile, Advances, InventoryTable,
            InventoryFails, ProvisionTable, BeginLoad, RejectLoad, Passes, ReadPartition,
            OverwriteTarget, LogLoad, LoadFails, EndsItem, ReadSeed, CommitState,
            CommitFails, EndsCommit, StepFitsTask
    <2>2. QED
        BY <1>5, <2>1
<1>7. ASSUME NEW t \in Tables, DecideTable(t) PROVE Goal
    <2>1. /\ phase = "decide" /\ step = "loop" /\ todo' = todo \ {t}
          /\ UNCHANGED <<phase, run, step, rows, columns, review>>
        BY <1>7 DEF DecideTable, Passes
    <2>2. \A u \in Tables : Decision(u)' = Decision(u)
        BY <2>1 DEF Decision
    <2>3. rows \subseteq Tables
        BY <1>2 DEF TypeOK
    <2>4. QED
        BY <1>2, <1>7, <2>1, <2>2, <2>3, DecisionWritten
        DEF DecidedByMappings, ReviewQueueAgrees
<1>8. ASSUME QueueReviews PROVE Goal
    <2>1. /\ phase = "decide" /\ step' = "queued" /\ todo = {}
          /\ UNCHANGED <<phase, run, rows, todo, columns, setup>>
          /\ review' = [t \in Tables |-> IF t \in rows /\ Decision(t) # "AUTO_MIGRATE"
                                         THEN "PENDING_REVIEW" ELSE review[t]]
        BY <1>8 DEF QueueReviews, Advances
    <2>2. \A u \in Tables : Decision(u)' = Decision(u)
        BY <2>1 DEF Decision
    <2>3. rows \subseteq Tables
        BY <1>2 DEF TypeOK
    <2>4. QED
        BY <1>2, <2>1, <2>2, <2>3 DEF DecidedByMappings, ReviewQueueAgrees
<1>9. ASSUME ResolveReviews PROVE Goal
    <2>1. /\ phase = "decide" /\ step = "queued" /\ step' = "resolved" /\ todo = {}
          /\ UNCHANGED <<phase, run, rows, todo, columns, setup>>
          /\ review' = [t \in Tables |-> IF /\ t \in rows /\ Decision(t) = "AUTO_MIGRATE"
                                            /\ review[t] # "NONE"
                                         THEN "RESOLVED" ELSE review[t]]
        BY <1>2, <1>9 DEF ResolveReviews, Advances, StepFitsTask
    <2>2. \A u \in Tables : Decision(u)' = Decision(u)
        BY <2>1 DEF Decision
    <2>3. rows \subseteq Tables
        BY <1>2 DEF TypeOK
    <2>4. \A u \in rows : setup[u].decision = Decision(u)
        BY <1>2, <2>1 DEF DecidedByMappings
    <2>5. DecidedByMappings'
        BY <2>1, <2>2, <2>3, <2>4 DEF DecidedByMappings
    <2>6. ASSUME NEW u \in rows
          PROVE  (setup[u].decision = "AUTO_MIGRATE") = (review'[u] # "PENDING_REVIEW")
        <3>1. review'[u] = IF Decision(u) = "AUTO_MIGRATE" /\ review[u] # "NONE"
                           THEN "RESOLVED" ELSE review[u]
            BY <2>1, <2>3
        <3>2. Decision(u) # "AUTO_MIGRATE" => review[u] = "PENDING_REVIEW"
            BY <1>2, <2>1 DEF DecidedByMappings
        <3>3. QED
            BY <2>4, <3>1, <3>2
    <2>7. QED
        BY <2>1, <2>5, <2>6 DEF ReviewQueueAgrees
<1>10. ASSUME LoseRunId PROVE Goal
    <2>1. rows' = {} /\ phase' = phase
        BY <1>10 DEF LoseRunId
    <2>2. QED
        BY <2>1 DEF DecidedByMappings, ReviewQueueAgrees
<1>11. QED
    BY <1>3, <1>4, <1>6, <1>7, <1>8, <1>9, <1>10
    DEF Next, Environment, Job, Failure

\* ReviewsAgree: when NB07 has resolved its reviews, exactly the tables of its
\* run that may not migrate wait in review_queue, for any tables, mappings and
\* failures, and also when an earlier NB07 was interrupted or repaired.
THEOREM ReviewsAgree == Spec => []ReviewQueueAgrees
<1>1. Init => ReviewInv
    BY DEF Init, ReviewInv, StepFitsTask, DecidedByMappings, ReviewQueueAgrees
<1>2. ReviewInv => ReviewQueueAgrees
    BY DEF ReviewInv
<1>3. QED
    BY <1>1, <1>2, TypeInit, TypeStep, ReviewStep, PTL DEF Spec

-----------------------------------------------------------------------------
(* Loads and committed states.  A run is repaired where it stopped, perhaps  *)
(* after newer runs, so each fact is about a run of its own: it has no        *)
(* verdicts before NB12, NB12 passes all its loads at once, and NB10 has every *)
(* load of its run in its list, in hand, failed or committed.                *)

\* NB12 and NB10 know which run they belong to.
KeepIds == LostRunIds \cap {"recon", "commit"} = {}

\* Run r is in one of these tasks, or has stopped at one.
Stands(r, tasks) == (phase \in tasks /\ run = r) \/ halted[r] \in tasks

\* A run that may still log has no verdicts; NB12 passes all loads of a run.
PassedAfterLoads ==
    /\ phase # "idle" => halted[run] = "none"
    /\ \A r \in Runs, t \in Tables :
          <<r, t>> \in passed => r <= started /\ ~Stands(r, Tasks \ {"recon", "commit"})
    /\ \A r \in Runs, t, u \in Tables :
          <<r, t>> \in passed /\ <<r, u>> \in log => <<r, u>> \in passed

\* What a run has logged is reconciled before NB10 asks.
ReconciledFirst ==
    "recon" \notin LostRunIds => \A r \in Runs :
        (phase = "recon" /\ step = "written" /\ run = r) \/ Stands(r, {"commit"})
            => \A t \in Tables : <<r, t>> \in log => <<r, t>> \in passed

Done(t) == control[t].run = run /\ setup[t].loaded

CommitsInHand ==
    phase = "commit" /\ (rows # {} \/ KeepIds) =>
        \A t \in Tables : <<run, t>> \in log /\ setup[t].decision = "AUTO_MIGRATE" =>
            t \in todo \/ (step = "commit" /\ current = t) \/ failed \/ Done(t)

LoadsInv == StepFitsTask /\ PassedAfterLoads /\ ReconciledFirst /\ CommitsInHand

\* What a step that neither logs, reconciles, decides nor commits leaves alone.
SameRecords ==
    /\ log' = log /\ passed' = passed
    /\ \A t \in Tables : /\ control'[t].run = control[t].run
                         /\ setup'[t].decision = setup[t].decision
                         /\ setup'[t].loaded = setup[t].loaded

\* Detecting a strategy decides nothing.
LEMMA DetectsKeeps ==
    ASSUME TypeOK, NEW t \in Tables, Detects(t) \/ UNCHANGED setup
    PROVE  \A u \in Tables : /\ setup'[u].decision = setup[u].decision
                             /\ setup'[u].loaded = setup[u].loaded
<1>1. CASE Detects(t)
    <2>1. setup' = [setup EXCEPT ![t] = [setup[t] EXCEPT !.strategy = Detected[t]]]
        BY <1>1 DEF Detects
    <2>2. setup[t] \in Setup
        BY DEF TypeOK
    <2>3. /\ [setup[t] EXCEPT !.strategy = Detected[t]].decision = setup[t].decision
          /\ [setup[t] EXCEPT !.strategy = Detected[t]].loaded = setup[t].loaded
        BY <2>2 DEF Setup
    <2>4. QED
        BY <2>1, <2>3 DEF TypeOK
<1>2. QED
    BY <1>1

\* Activating a row or not says nothing of its run.
LEMMA EditKeeps ==
    ASSUME TypeOK, NEW t \in Tables, EditActive(t)
    PROVE  \A u \in Tables : control'[u].run = control[u].run
<1>1. control' = [control EXCEPT ![t] = [control[t] EXCEPT !.active = ~control[t].active]]
    BY DEF EditActive
<1>2. control[t] \in [active : BOOLEAN, last : Marks, run : 0 .. MaxRuns]
    BY DEF TypeOK
<1>3. [control[t] EXCEPT !.active = ~control[t].active].run = control[t].run
    BY <1>2
<1>4. QED
    BY <1>1, <1>3 DEF TypeOK

\* Inside a notebook nothing is forgotten: each load NB10 has in its list stays
\* there until it is in hand.
LEMMA QuietLoads ==
    ASSUME TypeOK, LoadsInv, StepFitsTask', SameRecords,
           UNCHANGED <<phase, run, halted, started>>,
           phase = "recon" /\ step' = "written" => step = "written",
           phase = "commit" => UNCHANGED <<step, rows, todo, current, failed>>
    PROVE  LoadsInv'
<1> USE DEF LoadsInv, SameRecords
<1>1. PassedAfterLoads'
    BY DEF PassedAfterLoads, Stands
<1>2. ReconciledFirst'
    BY DEF ReconciledFirst, Stands
<1>3. CommitsInHand'
    BY DEF CommitsInHand, Done
<1>4. QED
    BY <1>1, <1>2, <1>3

\* Runs are numbers.
LEMMA RunNumbers ==
    ASSUME TypeOK
    PROVE  /\ Runs \subseteq Int /\ run \in Int /\ started \in Int
           /\ log \subseteq Runs \X Tables /\ passed \subseteq Runs \X Tables
BY OnboardingAssumption DEF TypeOK, Runs

\* A new run has no verdicts.
LEMMA StartRunLoads ==
    ASSUME TypeInv, LoadsInv, StepFitsTask', StartRun
    PROVE  LoadsInv'
<1> USE DEF LoadsInv
<1>1. /\ run' = started + 1 /\ started' = started + 1 /\ phase = "idle"
      /\ phase' = "inventory"
      /\ UNCHANGED <<log, passed, halted>>
    BY DEF StartRun, storeVars, Enter
<1>2. TypeOK /\ run' \in Runs
    BY <1>1, OnboardingAssumption DEF TypeInv, StartRun, TypeOK, Runs
<1>3. halted[run'] = "none"
    BY <1>1, <1>2, RunNumbers DEF TypeInv, RunExists
<1>4. PassedAfterLoads'
    BY <1>1, <1>2, <1>3, RunNumbers DEF PassedAfterLoads, Stands
<1>5. ReconciledFirst' /\ CommitsInHand'
    BY <1>1 DEF ReconciledFirst, CommitsInHand, Stands
<1>6. QED
    BY <1>4, <1>5

\* NB10 collects what its run logged and NB12 passed, or nothing at all.
LEMMA CommitCollects ==
    ASSUME TypeOK, PassedAfterLoads, NEW r \in Runs, NEW t \in Tables,
           <<r, t>> \in log, setup[t].decision = "AUTO_MIGRATE",
           Committable(r) # {} \/ \A u \in Tables : <<r, u>> \in log => <<r, u>> \in passed
    PROVE  t \in Committable(r)
BY DEF PassedAfterLoads, Committable

LEMMA NextTaskLoads ==
    ASSUME TypeInv, LoadsInv, StepFitsTask', NextTask
    PROVE  LoadsInv'
<1> USE DEF LoadsInv
<1>1. /\ phase \in Tasks /\ run \in Runs /\ halted[run] = "none"
      /\ step = LastStep[phase] /\ phase' = Following[phase] /\ run' = run
      /\ rows' = Collected(phase', run) /\ todo' = rows' /\ step' = "loop"
      /\ UNCHANGED <<log, passed, control, setup, halted, started>>
    BY DEF NextTask, Finished, Enter, storeVars, TypeInv, TypeOK, RunExists,
           PassedAfterLoads, Collected
<1>2. /\ phase' = "commit" => phase = "recon" /\ step = "written"
      /\ phase' \in Tasks \ {"recon", "commit"} => phase \in Tasks \ {"recon", "commit"}
    BY <1>1 DEF Following, LastStep, Tasks
<1>3. PassedAfterLoads'
    <2>1. \A r \in Runs : Stands(r, Tasks \ {"recon", "commit"})'
                             => Stands(r, Tasks \ {"recon", "commit"})
        BY <1>1, <1>2 DEF Stands
    <2>2. QED
        BY <1>1, <2>1 DEF PassedAfterLoads
<1>4. ReconciledFirst'
    BY <1>1, <1>2 DEF ReconciledFirst, Stands
<1>5. CommitsInHand'
    <2> SUFFICES ASSUME phase' = "commit", rows' # {} \/ KeepIds,
                        NEW t \in Tables, <<run, t>> \in log,
                        setup[t].decision = "AUTO_MIGRATE"
                 PROVE  t \in todo'
        BY <1>1 DEF CommitsInHand
    <2>1. rows' = Committable(run)
        BY <1>1 DEF Collected
    <2>2. KeepIds => \A u \in Tables : <<run, u>> \in log => <<run, u>> \in passed
        BY <1>1, <1>2 DEF ReconciledFirst, KeepIds
    <2>3. TypeOK /\ PassedAfterLoads
        BY DEF TypeInv
    <2>4. t \in Committable(run)
        BY <1>1, <2>1, <2>2, <2>3, CommitCollects
    <2>5. QED
        BY <1>1, <2>1, <2>4
<1>6. QED
    BY <1>3, <1>4, <1>5

\* A run that stops remembers its task; a repair takes it up there.
LEMMA StopLoads ==
    ASSUME TypeInv, LoadsInv, StepFitsTask', StopTask \/ Crash
    PROVE  LoadsInv'
<1> USE DEF LoadsInv
<1>1. /\ phase \in Tasks /\ run \in Runs /\ phase' = "idle" /\ run' = run
      /\ halted' = [halted EXCEPT ![run] = phase] /\ halted \in [Runs -> Tasks \cup {"none"}]
      /\ UNCHANGED <<log, passed, control, setup, started>>
    BY DEF StopTask, Crash, Finished, Enter, storeVars, TypeInv, TypeOK, RunExists
<1>2. \A r \in Runs : halted'[r] = IF r = run THEN phase ELSE halted[r]
    BY <1>1
<1>3. "idle" \notin Tasks
    BY DEF Tasks
<1>4. \A r \in Runs, ts \in SUBSET Tasks : Stands(r, ts)' => Stands(r, ts)
    BY <1>1, <1>2, <1>3 DEF Stands
<1>5. PassedAfterLoads'
    <2>1. \A r \in Runs : Stands(r, Tasks \ {"recon", "commit"})'
                             => Stands(r, Tasks \ {"recon", "commit"})
        BY <1>4
    <2>2. QED
        BY <1>1, <2>1 DEF PassedAfterLoads
<1>6. ReconciledFirst'
    <2>1. \A r \in Runs : Stands(r, {"commit"})' => Stands(r, {"commit"})
        BY <1>4 DEF Tasks
    <2>2. QED
        BY <1>1, <2>1 DEF ReconciledFirst
<1>7. CommitsInHand'
    BY <1>1 DEF CommitsInHand
<1>8. QED
    BY <1>5, <1>6, <1>7

LEMMA RepairLoads ==
    ASSUME TypeInv, LoadsInv, StepFitsTask', NEW q \in Runs, RepairRun(q)
    PROVE  LoadsInv'
<1> USE DEF LoadsInv
<1>1. /\ halted[q] # "none" /\ halted \in [Runs -> Tasks \cup {"none"}]
      /\ phase = "idle" /\ phase' = halted[q] /\ run' = q
      /\ halted' = [halted EXCEPT ![q] = "none"]
      /\ rows' = Collected(phase', q) /\ todo' = rows' /\ step' = "loop"
      /\ UNCHANGED <<log, passed, control, setup, started>>
    BY DEF RepairRun, Enter, storeVars, Collected, TypeInv, TypeOK
<1>2. \A r \in Runs : halted'[r] = IF r = q THEN "none" ELSE halted[r]
    BY <1>1
<1>3. "none" \notin Tasks
    BY DEF Tasks
<1>4. \A r \in Runs, ts \in SUBSET Tasks : Stands(r, ts)' => Stands(r, ts)
    BY <1>1, <1>2, <1>3 DEF Stands
<1>5. PassedAfterLoads'
    <2>1. \A r \in Runs : Stands(r, Tasks \ {"recon", "commit"})'
                             => Stands(r, Tasks \ {"recon", "commit"})
        BY <1>4
    <2>2. halted'[run'] = "none"
        BY <1>1, <1>2
    <2>3. QED
        BY <1>1, <2>1, <2>2 DEF PassedAfterLoads
<1>6. ReconciledFirst'
    <2>1. \A r \in Runs : Stands(r, {"commit"})' => Stands(r, {"commit"})
        BY <1>4 DEF Tasks
    <2>2. QED
        BY <1>1, <2>1 DEF ReconciledFirst
<1>7. CommitsInHand'
    <2> SUFFICES ASSUME phase' = "commit", rows' # {} \/ KeepIds,
                        NEW t \in Tables, <<q, t>> \in log,
                        setup[t].decision = "AUTO_MIGRATE"
                 PROVE  t \in todo'
        BY <1>1 DEF CommitsInHand
    <2>1. rows' = Committable(q)
        BY <1>1 DEF Collected
    <2>2. KeepIds => \A u \in Tables : <<q, u>> \in log => <<q, u>> \in passed
        BY <1>1 DEF ReconciledFirst, KeepIds, Stands
    <2>3. TypeOK /\ PassedAfterLoads
        BY DEF TypeInv
    <2>4. t \in Committable(q)
        BY <2>1, <2>2, <2>3, CommitCollects
    <2>5. QED
        BY <1>1, <2>1, <2>4
<1>8. QED
    BY <1>5, <1>6, <1>7

\* NB09 logs for a run that has no verdicts yet.
LEMMA EndLoadLoads ==
    ASSUME TypeInv, LoadsInv, StepFitsTask', NEW t \in Tables, LogLoad(t) \/ LoadFails(t)
    PROVE  LoadsInv'
<1> USE DEF LoadsInv
<1>1. /\ phase = "load" /\ run \in Runs
      /\ UNCHANGED <<passed, control, setup, run, phase, halted, started>>
      /\ log' = log \/ log' = log \cup {<<run, t>>}
    BY DEF LogLoad, LoadFails, EndsItem, jobVars, TypeInv, RunExists
<1>2. \A r \in Runs, u \in Tables : <<r, u>> \in log' => <<r, u>> \in log \/ r = run
    BY <1>1
<1>3. Stands(run, Tasks \ {"recon", "commit"}) /\ ~Stands(run, {"commit"})
    BY <1>1 DEF Stands, Tasks, PassedAfterLoads
<1>4. PassedAfterLoads'
    <2>1. \A u \in Tables : <<run, u>> \notin passed
        BY <1>1, <1>3 DEF PassedAfterLoads
    <2>2. QED
        BY <1>1, <1>2, <2>1 DEF PassedAfterLoads, Stands
<1>5. ReconciledFirst'
    BY <1>1, <1>2, <1>3 DEF ReconciledFirst, Stands
<1>6. CommitsInHand'
    BY <1>1 DEF CommitsInHand
<1>7. QED
    BY <1>4, <1>5, <1>6

\* NB12 passes every load of its run.
LEMMA ReconcileLoads ==
    ASSUME TypeInv, LoadsInv, StepFitsTask', Reconcile
    PROVE  LoadsInv'
<1> USE DEF LoadsInv
<1>1. /\ phase = "recon" /\ run \in 0 .. started /\ halted[run] = "none"
      /\ passed' = passed \cup {e \in log : e[1] = run}
      /\ UNCHANGED <<log, control, setup, run, phase, halted, started>>
    BY DEF Reconcile, Advances, jobVars, TypeInv, TypeOK, PassedAfterLoads
<1>2. \A r \in Runs, t \in Tables :
          <<r, t>> \in passed' <=> <<r, t>> \in passed \/ (r = run /\ <<r, t>> \in log)
    BY <1>1
<1>3. run <= started /\ ~Stands(run, Tasks \ {"recon", "commit"})
    BY <1>1 DEF Stands, Tasks
<1>4. PassedAfterLoads'
    BY <1>1, <1>2, <1>3 DEF PassedAfterLoads, Stands
<1>5. ReconciledFirst' /\ CommitsInHand'
    BY <1>1, <1>2 DEF ReconciledFirst, CommitsInHand, Stands
<1>6. QED
    BY <1>4, <1>5

LEMMA ReadSeedLoads ==
    ASSUME TypeOK, LoadsInv, StepFitsTask', NEW t \in Tables, ReadSeed(t)
    PROVE  LoadsInv'
<1> USE DEF LoadsInv
<1>1. /\ phase = "commit" /\ step = "loop" /\ todo' = todo \ {t}
      /\ current' = t /\ step' = "commit"
      /\ UNCHANGED <<log, passed, control, setup, run, phase, halted, started, rows, failed>>
    BY DEF ReadSeed, jobVars, storeVars
<1>2. PassedAfterLoads' /\ ReconciledFirst'
    BY <1>1 DEF PassedAfterLoads, ReconciledFirst, Stands
<1>3. CommitsInHand'
    BY <1>1 DEF CommitsInHand, Done
<1>4. QED
    BY <1>2, <1>3

\* A commit names its run and leaves the decisions alone.
LEMMA CommittedRun ==
    ASSUME TypeOK, NEW t \in Tables, Committed(t)
    PROVE  /\ control'[t].run = run /\ setup'[t].loaded
           /\ \A u \in Tables \ {t} : /\ control'[u].run = control[u].run
                                      /\ setup'[u].loaded = setup[u].loaded
           /\ \A u \in Tables : setup'[u].decision = setup[u].decision
<1>1. /\ control' = [control EXCEPT ![t] = [control[t] EXCEPT !.last = seed, !.run = run]]
      /\ setup' = [setup EXCEPT ![t] = [setup[t] EXCEPT !.loaded = TRUE]]
    BY DEF Committed
<1>2. /\ control[t] \in [active : BOOLEAN, last : Marks, run : 0 .. MaxRuns]
      /\ setup[t] \in Setup
    BY DEF TypeOK
<1>3. /\ [control[t] EXCEPT !.last = seed, !.run = run].run = run
      /\ [setup[t] EXCEPT !.loaded = TRUE].decision = setup[t].decision
      /\ [setup[t] EXCEPT !.loaded = TRUE].loaded
    BY <1>2 DEF Setup
<1>4. QED
    BY <1>1, <1>3 DEF TypeOK

\* NB10 commits the row in hand for its run, or counts it as failed.
LEMMA CommitLoads ==
    ASSUME TypeOK, LoadsInv, StepFitsTask', NEW t \in Tables,
           CommitState(t) \/ CommitFails(t)
    PROVE  LoadsInv'
<1> USE DEF LoadsInv
<1>1. /\ phase = "commit" /\ current = t /\ step = "commit"
      /\ UNCHANGED <<log, passed, run, phase, halted, started, rows, todo>>
      /\ failed => failed'
      /\ Committed(t) \/ (failed' /\ UNCHANGED <<control, setup>>)
    BY DEF CommitState, CommitFails, EndsCommit, jobVars
<1>2. /\ \A u \in Tables \ {t} : Done(u) => Done(u)'
      /\ \A u \in Tables : setup'[u].decision = setup[u].decision
      /\ Done(t)' \/ failed'
    <2>1. CASE failed' /\ UNCHANGED <<control, setup>>
        BY <1>1, <2>1 DEF Done
    <2>2. CASE Committed(t)
        BY <1>1, <2>2, CommittedRun DEF Done
    <2>3. QED
        BY <1>1, <2>1, <2>2
<1>3. PassedAfterLoads' /\ ReconciledFirst'
    BY <1>1 DEF PassedAfterLoads, ReconciledFirst, Stands
<1>4. CommitsInHand'
    BY <1>1, <1>2 DEF CommitsInHand
<1>5. QED
    BY <1>3, <1>4

\* A notebook that lost its run_id does nothing: NB12 then passes nothing, NB10
\* commits nothing.
LEMMA LoseRunIdLoads ==
    ASSUME TypeOK, LoadsInv, StepFitsTask', LoseRunId
    PROVE  LoadsInv'
<1> USE DEF LoadsInv
<1>1. /\ SameRecords /\ UNCHANGED <<phase, run, halted, started>>
      /\ phase \in LostRunIds /\ rows' = {}
    BY DEF LoseRunId, SameRecords, jobVars, storeVars
<1>2. CASE phase \notin {"recon", "commit"}
    BY <1>1, <1>2, QuietLoads
<1>3. CASE phase \in {"recon", "commit"}
    <2>1. ~KeepIds
        BY <1>1, <1>3 DEF KeepIds
    <2>2. PassedAfterLoads' /\ CommitsInHand'
        BY <1>1, <2>1 DEF SameRecords, PassedAfterLoads, CommitsInHand, Stands
    <2>3. ReconciledFirst'
        BY <1>1, <1>3 DEF SameRecords, ReconciledFirst, Stands
    <2>4. QED
        BY <2>2, <2>3
<1>4. QED
    BY <1>2, <1>3

LEMMA LoadsStep == TypeInv /\ LoadsInv /\ [Next]_vars => LoadsInv'
<1> SUFFICES ASSUME TypeInv, LoadsInv, [Next]_vars PROVE LoadsInv'
    OBVIOUS
<1> USE DEF sourceVars, storeVars, jobVars, loopVars, itemVars
<1>1. TypeOK /\ StepFitsTask /\ StepFitsTask'
    BY FitsStep DEF TypeInv, LoadsInv
<1>2. ASSUME \/ UNCHANGED vars
             \/ \E t \in Tables : SourceWrite(t) \/ SourceDelete(t) \/ EditActive(t)
      PROVE  LoadsInv'
    <2>1. /\ SameRecords
          /\ UNCHANGED <<phase, run, halted, started, rows, step, current, todo, failed>>
        BY <1>1, <1>2, EditKeeps DEF vars, SourceWrite, SourceDelete, EditActive, SameRecords
    <2>2. QED
        BY <1>1, <2>1, QuietLoads
<1>3. CASE StartRun
    BY <1>1, <1>3, StartRunLoads
<1>4. CASE NextTask
    BY <1>1, <1>4, NextTaskLoads
<1>5. CASE StopTask \/ Crash
    BY <1>1, <1>5, StopLoads
<1>6. ASSUME NEW r \in Runs, RepairRun(r) PROVE LoadsInv'
    BY <1>1, <1>6, RepairLoads
<1>7. ASSUME \/ WriteInventory \/ Normalize \/ MapColumns \/ QueueReviews \/ ResolveReviews
      PROVE  LoadsInv'
    <2>1. /\ SameRecords /\ UNCHANGED <<phase, run, halted, started>>
          /\ phase # "recon" /\ phase # "commit"
        BY <1>7 DEF WriteInventory, Normalize, MapColumns, QueueReviews, ResolveReviews,
                    Advances, SameRecords
    <2>2. QED
        BY <1>1, <2>1, QuietLoads
<1>8. ASSUME NEW t \in Tables, InventoryTable(t) \/ InventoryFails(t) PROVE LoadsInv'
    <2>1. SameRecords
        BY <1>1, <1>8, DetectsKeeps DEF InventoryTable, InventoryFails, Passes, SameRecords
    <2>2. UNCHANGED <<phase, run, halted, started>> /\ phase = "inventory"
        BY <1>8 DEF InventoryTable, InventoryFails, Passes
    <2>3. QED
        BY <1>1, <2>1, <2>2, QuietLoads
<1>9. ASSUME NEW t \in Tables, DecideTable(t) PROVE LoadsInv'
    <2>1. UNCHANGED <<log, passed, run, phase, halted, started>> /\ phase = "decide"
        BY <1>9 DEF DecideTable, Passes
    <2>2. QED
        BY <1>1, <2>1
        DEF LoadsInv, PassedAfterLoads, ReconciledFirst, CommitsInHand, Stands
<1>10. ASSUME NEW t \in Tables,
              \/ ProvisionTable(t) \/ BeginLoad(t) \/ RejectLoad(t) \/ ReadPartition(t)
              \/ OverwriteTarget(t)
       PROVE  LoadsInv'
    <2>1. /\ SameRecords /\ UNCHANGED <<phase, run, halted, started>>
          /\ phase # "recon" /\ phase # "commit"
        BY <1>1, <1>10
        DEF ProvisionTable, BeginLoad, RejectLoad, ReadPartition, OverwriteTarget, Passes,
            SameRecords, StepFitsTask
    <2>2. QED
        BY <1>1, <2>1, QuietLoads
<1>11. ASSUME NEW t \in Tables, LogLoad(t) \/ LoadFails(t) PROVE LoadsInv'
    BY <1>1, <1>11, EndLoadLoads
<1>12. CASE Reconcile
    BY <1>1, <1>12, ReconcileLoads
<1>13. ASSUME NEW t \in Tables, ReadSeed(t) PROVE LoadsInv'
    BY <1>1, <1>13, ReadSeedLoads
<1>14. ASSUME NEW t \in Tables, CommitState(t) \/ CommitFails(t) PROVE LoadsInv'
    BY <1>1, <1>14, CommitLoads
<1>15. CASE LoseRunId
    BY <1>1, <1>15, LoseRunIdLoads
<1>16. QED
    BY <1>2, <1>3, <1>4, <1>5, <1>6, <1>7, <1>8, <1>9, <1>10, <1>11, <1>12, <1>13, <1>14,
       <1>15
    DEF Next, Environment, Job, Failure

\* A run succeeds in NextTask of NB10 and nowhere else.
LEMMA Succeeds ==
    ASSUME TypeInv, LoadsInv, [Next]_vars, run \in succeeded' \ succeeded
    PROVE  NextTask /\ phase = "commit"
<1> USE DEF sourceVars, storeVars, jobVars, loopVars, itemVars
<1>1. \/ succeeded' = succeeded \/ NextTask
    BY DEF Next, Environment, Job, Failure, vars, SourceWrite, SourceDelete, EditActive,
           StartRun, StopTask, WriteInventory, Normalize, MapColumns, QueueReviews,
           ResolveReviews, Reconcile, InventoryTable, DecideTable, ProvisionTable,
           BeginLoad, RejectLoad, ReadPartition, OverwriteTarget, LogLoad, ReadSeed,
           CommitState, CommitFails, LoadFails, InventoryFails, LoseRunId, Crash,
           RepairRun, Passes, Advances, EndsItem, EndsCommit
<1>2. QED
    BY <1>1 DEF NextTask

\* SuccessMeansCommitted: when a run of JOB01 succeeds, it has committed the
\* state of every table whose load it logged and that may migrate, whatever
\* failed, crashed, was deactivated or was repaired before, also where newer runs
\* have committed the table since; for any tables and targets.  Only a run in
\* which NB12 or NB10 lost its run_id, and so found no table at all, is excepted.
THEOREM SuccessMeansCommitted == Spec => LoadsAreCommitted
<1> DEFINE Commits ==
        /\ run \in succeeded' \ succeeded
        /\ rows # {} \/ LostRunIds \cap {"recon", "commit"} = {}
        => \A t \in Tables : <<run, t>> \in log /\ setup[t].decision = "AUTO_MIGRATE" =>
              control[t].run = run /\ setup[t].loaded
<1>1. Init => LoadsInv
    BY DEF Init, LoadsInv, StepFitsTask, PassedAfterLoads, ReconciledFirst, CommitsInHand
<1>2. ASSUME TypeInv, LoadsInv, [Next]_vars PROVE Commits
    <2> SUFFICES ASSUME run \in succeeded' \ succeeded, rows # {} \/ KeepIds
                 PROVE  \A t \in Tables :
                            <<run, t>> \in log /\ setup[t].decision = "AUTO_MIGRATE" => Done(t)
        BY DEF KeepIds, Done
    <2>1. /\ phase = "commit" /\ todo = {} /\ current = NoTable /\ ~failed
        BY <1>2, Succeeds DEF NextTask, Finished
    <2>2. QED
        BY <1>2, <2>1, OnboardingAssumption DEF LoadsInv, CommitsInHand
<1>3. TypeInv /\ LoadsInv /\ [Next]_vars => [Commits]_vars
    BY <1>2
<1>4. QED
    BY <1>1, <1>3, TypeInit, TypeStep, LoadsStep, PTL DEF Spec, LoadsAreCommitted

-----------------------------------------------------------------------------
(* NB08's checks reach NB09.  NB08 goes through the rows it has collected    *)
(* once; whatever a crash, a repair or a newer run does then, the mappings it *)
(* has looked at are those NB09 finds under the run_id.                      *)

BeforeLoad == {"inventory", "normalize", "map", "decide", "provision"}

\* NB08 has passed what it is done with.
ProvisionedSoFar ==
    phase = "provision" /\ ~failed =>
        \A t \in rows \ todo : Provisionable(t) /\ ~Collides(t)

\* Once NB08 is through, its run does not come back to it or to a task before it.
CheckedIsPast ==
    \A r \in Runs : checked[r] # {} => r <= started /\ ~Stands(r, BeforeLoad)

Vetted(r, t) ==
    /\ columns[r].mapped[t]["AUTO"] = 1
    /\ \A u \in checked[r] \ {t} : TargetOf[u] # TargetOf[t]

ChecksHold == \A r \in Runs : \A t \in checked[r] : Vetted(r, t)

ChecksInv == LoadsInv /\ ProvisionedSoFar /\ CheckedIsPast /\ ChecksHold

\* Steps that leave NB08 and the column rows alone.
LEMMA QuietChecks ==
    ASSUME ChecksInv, LoadsInv', UNCHANGED <<phase, run, halted, started, checked, columns>>,
           phase = "provision" => UNCHANGED <<rows, todo, failed>>
    PROVE  ChecksInv'
<1> USE DEF ChecksInv
<1>1. ProvisionedSoFar'
    BY DEF ProvisionedSoFar, Provisionable, Copies, Collides
<1>2. CheckedIsPast'
    BY DEF CheckedIsPast, Stands
<1>3. ChecksHold'
    BY DEF ChecksHold, Vetted
<1>4. QED
    BY <1>1, <1>2, <1>3

\* NB01 to NB03 append to the columns of their own run, which NB08 has not seen.
LEMMA ColumnsChecks ==
    ASSUME TypeInv, ChecksInv, LoadsInv', WriteInventory \/ Normalize \/ MapColumns
    PROVE  ChecksInv'
<1> USE DEF ChecksInv
<1>1. /\ phase \in BeforeLoad \ {"provision"} /\ run \in Runs
      /\ columns \in [Runs -> [Layers -> ColumnRows]]
      /\ UNCHANGED <<phase, run, halted, started, checked>>
    BY DEF WriteInventory, Normalize, MapColumns, Advances, jobVars, BeforeLoad,
           TypeInv, TypeOK, RunExists
<1>2. checked[run] = {}
    BY <1>1 DEF CheckedIsPast, Stands
<1>3. \A r \in Runs \ {run} : columns'[r] = columns[r]
    BY <1>1 DEF WriteInventory, Normalize, MapColumns
<1>4. ProvisionedSoFar' /\ CheckedIsPast'
    BY <1>1 DEF ProvisionedSoFar, CheckedIsPast, Stands
<1>5. ChecksHold'
    BY <1>1, <1>2, <1>3 DEF ChecksHold, Vetted
<1>6. QED
    BY <1>4, <1>5

\* Between tasks a run only moves on, is set aside or is taken up again.
LEMMA MovesOn ==
    ASSUME TypeInv, ChecksInv, LoadsInv',
           UNCHANGED <<started, checked, columns>>, phase' # "provision" \/ rows' = todo',
           \A r \in Runs : checked[r] # {} /\ Stands(r, BeforeLoad)' => Stands(r, BeforeLoad)
    PROVE  ChecksInv'
<1> USE DEF ChecksInv
<1>1. ProvisionedSoFar'
    BY DEF ProvisionedSoFar
<1>2. CheckedIsPast'
    BY DEF CheckedIsPast
<1>3. ChecksHold'
    BY DEF ChecksHold, Vetted
<1>4. QED
    BY <1>1, <1>2, <1>3

LEMMA StartRunChecks ==
    ASSUME TypeInv, ChecksInv, LoadsInv', StartRun
    PROVE  ChecksInv'
<1> USE DEF ChecksInv
<1>1. /\ run' = started + 1 /\ started' = started + 1 /\ phase' = "inventory"
      /\ phase = "idle" /\ UNCHANGED <<halted, checked, columns>>
    BY DEF StartRun, storeVars, Enter
<1>2. CheckedIsPast'
    <2>1. \A r \in Runs : r <= started => r # run' /\ r <= started'
        BY <1>1, RunNumbers DEF TypeInv
    <2>2. QED
        BY <1>1, <2>1 DEF CheckedIsPast, Stands
<1>3. ProvisionedSoFar' /\ ChecksHold'
    BY <1>1 DEF ProvisionedSoFar, ChecksHold, Vetted
<1>4. QED
    BY <1>2, <1>3

LEMMA HaltChecks ==
    ASSUME TypeInv, ChecksInv, LoadsInv',
           StopTask \/ Crash \/ \E r \in Runs : RepairRun(r)
    PROVE  ChecksInv'
<1> USE DEF ChecksInv
<1>1. CASE StopTask \/ Crash
    <2>1. /\ phase \in Tasks /\ run \in Runs /\ phase' = "idle" /\ run' = run
          /\ halted' = [halted EXCEPT ![run] = phase]
          /\ halted \in [Runs -> Tasks \cup {"none"}]
          /\ UNCHANGED <<started, checked, columns>>
        BY <1>1 DEF StopTask, Crash, Finished, Enter, storeVars, TypeInv, TypeOK, RunExists
    <2>2. \A r \in Runs : Stands(r, BeforeLoad)' => Stands(r, BeforeLoad)
        BY <2>1 DEF Stands, BeforeLoad
    <2>3. QED
        BY <2>1, <2>2, MovesOn
<1>2. ASSUME NEW q \in Runs, RepairRun(q) PROVE ChecksInv'
    <2>1. /\ phase = "idle" /\ phase' = halted[q] /\ run' = q
          /\ halted' = [halted EXCEPT ![q] = "none"]
          /\ halted \in [Runs -> Tasks \cup {"none"}]
          /\ rows' = todo' /\ UNCHANGED <<started, checked, columns>>
        BY <1>2 DEF RepairRun, Enter, storeVars, TypeInv, TypeOK
    <2>2. \A r \in Runs : Stands(r, BeforeLoad)' => Stands(r, BeforeLoad)
        BY <2>1 DEF Stands, BeforeLoad
    <2>3. QED
        BY <2>1, <2>2, MovesOn
<1>3. QED
    BY <1>1, <1>2

\* When NB08 is through, all it has collected is passed.
LEMMA NextTaskChecks ==
    ASSUME TypeInv, ChecksInv, LoadsInv', NextTask
    PROVE  ChecksInv'
<1> USE DEF ChecksInv
<1>1. /\ phase \in Tasks /\ run \in Runs /\ run <= started /\ halted[run] = "none"
      /\ todo = {} /\ ~failed /\ phase' = Following[phase] /\ run' = run
      /\ rows' = todo' /\ UNCHANGED <<columns, halted, started>>
      /\ checked \in [Runs -> SUBSET Tables] /\ rows \subseteq Tables
      /\ checked' = IF phase = "provision" THEN [checked EXCEPT ![run] = rows] ELSE checked
    BY RunNumbers DEF NextTask, Finished, Enter, storeVars, TypeInv, TypeOK, RunExists,
       LoadsInv, PassedAfterLoads
<1>2. \A r \in Runs : Stands(r, BeforeLoad)' => Stands(r, BeforeLoad)
    BY <1>1 DEF Stands, Following, Tasks, BeforeLoad
<1>3. CASE phase # "provision"
    BY <1>1, <1>2, <1>3, MovesOn
<1>4. CASE phase = "provision"
    <2>1. \A r \in Runs : checked'[r] = IF r = run THEN rows ELSE checked[r]
        BY <1>1, <1>4
    <2>2. phase' = "load"
        BY <1>1, <1>4 DEF Following
    <2>3. \A t \in rows : Provisionable(t) /\ ~Collides(t)
        BY <1>1, <1>4 DEF ProvisionedSoFar
    <2>4. CheckedIsPast'
        <3>1. ~Stands(run, BeforeLoad)'
            BY <1>1, <2>2 DEF Stands, BeforeLoad
        <3>2. QED
            BY <1>1, <1>2, <2>1, <3>1 DEF CheckedIsPast
    <2>5. ChecksHold'
        <3>1. \A t \in rows : /\ columns[run].mapped[t]["AUTO"] = 1
                              /\ \A u \in rows \ {t} : TargetOf[u] # TargetOf[t]
            BY <2>3 DEF Provisionable, Collides
        <3>2. QED
            BY <1>1, <2>1, <3>1 DEF ChecksHold, Vetted
    <2>6. ProvisionedSoFar'
        BY <2>2 DEF ProvisionedSoFar
    <2>7. QED
        BY <2>4, <2>5, <2>6
<1>5. QED
    BY <1>3, <1>4

\* NB08 checks a row against all rows it collected before it is done with it.
LEMMA ProvisionChecks ==
    ASSUME TypeInv, ChecksInv, LoadsInv', NEW t \in Tables, ProvisionTable(t)
    PROVE  ChecksInv'
<1> USE DEF ChecksInv
<1>1. /\ phase = "provision" /\ todo' = todo \ {t}
      /\ failed' = (failed \/ Collides(t) \/ ~Provisionable(t))
      /\ UNCHANGED <<columns, rows, phase, run, halted, started, checked>>
    BY DEF ProvisionTable, Passes, jobVars, storeVars
<1>2. \A u \in Tables : /\ Provisionable(u)' = Provisionable(u)
                        /\ Collides(u)' = Collides(u)
    BY <1>1 DEF Provisionable, Copies, Collides
<1>3. ProvisionedSoFar'
    <2> SUFFICES ASSUME ~failed, Provisionable(t), ~Collides(t), NEW u \in rows \ todo'
                 PROVE  Provisionable(u) /\ ~Collides(u)
        BY <1>1, <1>2 DEF ProvisionedSoFar, TypeInv, TypeOK
    <2>1. u = t \/ u \in rows \ todo
        BY <1>1
    <2>2. QED
        BY <1>1, <2>1 DEF ProvisionedSoFar
<1>4. CheckedIsPast' /\ ChecksHold'
    BY <1>1 DEF CheckedIsPast, ChecksHold, Vetted, Stands
<1>5. QED
    BY <1>3, <1>4

LEMMA LoseRunIdChecks ==
    ASSUME TypeInv, ChecksInv, LoadsInv', LoseRunId
    PROVE  ChecksInv'
<1> USE DEF ChecksInv
<1>1. rows' = {} /\ UNCHANGED <<columns, phase, run, halted, started, checked>>
    BY DEF LoseRunId, jobVars, storeVars
<1>2. QED
    BY <1>1 DEF ProvisionedSoFar, CheckedIsPast, ChecksHold, Vetted, Stands

LEMMA ChecksStep == TypeInv /\ ChecksInv /\ [Next]_vars => ChecksInv'
<1> SUFFICES ASSUME TypeInv, ChecksInv, [Next]_vars PROVE ChecksInv'
    OBVIOUS
<1> USE DEF sourceVars, storeVars, jobVars, loopVars, itemVars
<1>1. LoadsInv' /\ StepFitsTask
    BY LoadsStep DEF ChecksInv, LoadsInv
<1>2. ASSUME \/ UNCHANGED vars \/ QueueReviews \/ ResolveReviews \/ Reconcile
             \/ \E t \in Tables :
                   \/ SourceWrite(t) \/ SourceDelete(t) \/ EditActive(t)
                   \/ InventoryTable(t) \/ InventoryFails(t) \/ DecideTable(t)
                   \/ BeginLoad(t) \/ RejectLoad(t) \/ ReadPartition(t)
                   \/ OverwriteTarget(t) \/ LogLoad(t) \/ LoadFails(t)
                   \/ ReadSeed(t) \/ CommitState(t) \/ CommitFails(t)
      PROVE  ChecksInv'
    <2>1. UNCHANGED <<phase, run, halted, started, checked, columns>>
        BY <1>2
        DEF vars, QueueReviews, ResolveReviews, Reconcile, Advances, SourceWrite,
            SourceDelete, EditActive, InventoryTable, InventoryFails, DecideTable, Passes,
            BeginLoad, RejectLoad, ReadPartition, OverwriteTarget, LogLoad, LoadFails,
            EndsItem, ReadSeed, CommitState, CommitFails, EndsCommit
    <2>2. phase = "provision" => UNCHANGED <<rows, todo, failed>>
        BY <1>1, <1>2
        DEF vars, QueueReviews, ResolveReviews, Reconcile, Advances, SourceWrite,
            SourceDelete, EditActive, InventoryTable, InventoryFails, DecideTable, Passes,
            BeginLoad, RejectLoad, ReadPartition, OverwriteTarget, LogLoad, LoadFails,
            EndsItem, ReadSeed, CommitState, CommitFails, EndsCommit, StepFitsTask
    <2>3. QED
        BY <1>1, <2>1, <2>2, QuietChecks
<1>3. CASE StartRun
    BY <1>1, <1>3, StartRunChecks
<1>4. CASE NextTask
    BY <1>1, <1>4, NextTaskChecks
<1>5. ASSUME StopTask \/ Crash \/ \E r \in Runs : RepairRun(r) PROVE ChecksInv'
    BY <1>1, <1>5, HaltChecks
<1>6. CASE WriteInventory \/ Normalize \/ MapColumns
    BY <1>1, <1>6, ColumnsChecks
<1>7. ASSUME NEW t \in Tables, ProvisionTable(t) PROVE ChecksInv'
    BY <1>1, <1>7, ProvisionChecks
<1>8. CASE LoseRunId
    BY <1>1, <1>8, LoseRunIdChecks
<1>9. QED
    BY <1>2, <1>3, <1>4, <1>5, <1>6, <1>7, <1>8 DEF Next, Environment, Job, Failure

\* ChecksStand: when NB09 overwrites the target of a row that NB08 of its run
\* went through, the row is mapped AUTO and shares its target with no other row
\* NB08 went through, for any tables, targets, edits, failures and lost run_ids,
\* and however long after a repair takes the run up again: nothing appends to
\* the columns of a run that has passed NB08.
THEOREM ChecksStand == Spec => ChecksReachLoad
<1> DEFINE Stand(t) ==
        OverwriteTarget(t) /\ t \in checked[run] =>
            /\ columns[run].mapped[t]["AUTO"] = 1
            /\ \A u \in checked[run] \ {t} : TargetOf[u] # TargetOf[t]
<1>1. Init => ChecksInv
    BY DEF Init, ChecksInv, LoadsInv, StepFitsTask, PassedAfterLoads, ReconciledFirst,
           CommitsInHand, ProvisionedSoFar, CheckedIsPast, ChecksHold
<1>2. ASSUME TypeInv, ChecksInv, NEW t \in Tables PROVE Stand(t)
    <2>1. OverwriteTarget(t) => run \in Runs
        BY <1>2 DEF OverwriteTarget, TypeInv, RunExists
    <2>2. QED
        BY <1>2, <2>1 DEF ChecksInv, ChecksHold, Vetted
<1>3. TypeInv /\ ChecksInv => [\A t \in Tables : Stand(t)]_vars
    BY <1>2
<1>4. QED
    BY <1>1, <1>3, TypeInit, TypeStep, ChecksStep, PTL DEF Spec, ChecksReachLoad

=============================================================================
