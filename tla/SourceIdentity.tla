----------------------------- MODULE SourceIdentity -----------------------------
(***************************************************************************)
(* How rows of source_table_control get their source_table_id: NB00         *)
(* backfills rows registered before the column existed and seeds example    *)
(* rows, NB01 gives an id to the rows NB00 left without one and from then   *)
(* on writes by id.  NB00 and NB01 are the first two tasks of every JOB01   *)
(* run, so both repeat, after crashes too, and an operator registers rows   *)
(* between any two of their statements.                                     *)
(***************************************************************************)
EXTENDS Naturals

CONSTANTS
    Texts,          \* the values a text column may hold, Null among them
    Null, Empty,    \* NULL and the empty string
    Oracle,         \* the text 'oracle'
    Synonyms,       \* _SQLSERVER_SYNONYMS
    Trim, Lower,    \* str.strip and str.lower on Texts
    Rows,           \* rows operators register
    Seeds,          \* rows NB00 seeds
    SeedOf,         \* SeedOf[s]: the five source columns of seed s
    Registrations,  \* the five source columns operators register
    \* Bounds on otherwise unbounded counters.
    MaxRuns,        \* runs of JOB01
    MaxFaults       \* notebooks that die

Columns == [system : Texts, server : Texts, database : Texts, schema : Texts, table : Texts]

ASSUME TextsAssumption ==
    /\ {Null, Empty, Oracle} \subseteq Texts
    /\ Synonyms \subseteq Texts
    /\ Null \notin {Empty, Oracle}
    /\ Oracle # Empty
    /\ Trim \in [Texts -> Texts]
    /\ Lower \in [Texts -> Texts]

ASSUME RowsAssumption ==
    /\ Registrations \subseteq Columns
    /\ SeedOf \in [Seeds -> Columns]
    /\ Rows \cap Seeds = {}

ASSUME BoundsAssumption == MaxRuns \in Nat /\ MaxFaults \in Nat

VARIABLES
    control,     \* source_table_control: five source columns, the id, and
                 \* the source and the run NB01 last recorded in the row
    registered,  \* the rows source_table_control holds
    late,        \* rows registered since NB00 last collected those without an id
    phase,       \* what the run of JOB01 is doing
    run,         \* runs started
    todo,        \* rows collected and not handled yet
    current,     \* the row NB01 has given an id and not recorded yet
    handled,     \* rows NB01 has been through in this run
    faults

vars == <<control, registered, late, phase, run, todo, current, handled, faults>>

-----------------------------------------------------------------------------
(* source_identity.py                                                      *)

OrOracle(system) == IF system \in {Null, Empty} THEN Oracle ELSE system

\* None and blank both become ''.
Folded(value) == IF value = Null THEN Empty ELSE Lower[Trim[value]]

\* normalize_source_system; "unsupported" where it raises.
System(value) ==
    CASE value # Null /\ Folded(value) = Oracle         -> "oracle"
      [] value # Null /\ Folded(value) # Oracle
                      /\ Folded(value) \in Synonyms     -> "sqlserver"
      [] OTHER                                          -> "unsupported"

Named(value) == value # Null /\ Trim[value] # Empty

\* compute_source_table_id raises for every other row.
Computable(c) ==
    /\ System(OrOracle(c.system)) # "unsupported"
    /\ Named(c.schema)
    /\ Named(c.table)

\* compute_source_table_id: a hash of the canonical parts, here the parts.
IdOf(c) == <<System(OrOracle(c.system)), Folded(c.server), Folded(c.database),
             Trim[c.schema], Trim[c.table]>>

NoId == <<>>     \* NULL or ''
Name == Texts \ {Empty}
Ids  == {"oracle", "sqlserver"} \X Texts \X Texts \X Name \X Name

\* The example registrations are complete.
ASSUME SeedsAssumption == \A s \in Seeds : Computable(SeedOf[s])

SourceOf(row) == [system |-> row.system, server |-> row.server, database |-> row.database,
                  schema |-> row.schema, table |-> row.table]

\* Raw columns, NULL matching NULL, the system left out.
SamePlace(c, d) ==
    /\ c.server = d.server
    /\ c.database = d.database
    /\ c.schema = d.schema
    /\ c.table = d.table

-----------------------------------------------------------------------------
(* Registration.                                                           *)

Row(c, id) == [system |-> c.system, server |-> c.server, database |-> c.database,
               schema |-> c.schema, table |-> c.table, id |-> id,
               inventoried |-> NoId, asOf |-> 0]

\* Rows registered before the id existed.
Init ==
    /\ registered \in SUBSET Rows
    /\ \E columns \in [Rows -> Registrations] :
          control = [r \in Rows \cup Seeds |->
                        Row(IF r \in Rows THEN columns[r] ELSE SeedOf[r], NoId)]
    /\ late = {}
    /\ phase = "idle" /\ run = 0
    /\ todo = {} /\ current = {} /\ handled = {}
    /\ faults = 0

\* An operator inserts a row, without an id.
Register(r) ==
    /\ r \in Rows \ registered
    /\ registered' = registered \cup {r}
    /\ late' = late \cup {r}
    /\ UNCHANGED <<control, phase, run, todo, current, handled, faults>>

-----------------------------------------------------------------------------
(* NB00                                                                    *)

\* A run starts, and NB00 collects the rows without an id.
StartRun ==
    /\ phase = "idle"
    /\ run < MaxRuns
    /\ run' = run + 1
    /\ phase' = "backfill"
    /\ todo' = {control[r] : r \in {q \in registered : /\ control[q].id = NoId
                                                       /\ control[q].schema # Null
                                                       /\ control[q].table # Null}}
    /\ late' = {}
    /\ handled' = {}
    /\ UNCHANGED <<control, registered, current, faults>>

\* Plausible mistakes: schema and table alone; an equality NULL does not meet.
BackfilledByName(b) ==
    [r \in DOMAIN control |->
        IF /\ r \in registered
           /\ control[r].id = NoId
           /\ control[r].schema = b.schema
           /\ control[r].table = b.table
        THEN [control[r] EXCEPT !.id = IdOf(b), !.system = OrOracle(b.system)]
        ELSE control[r]]

BackfilledByEquality(b) ==
    [r \in DOMAIN control |->
        IF /\ r \in registered
           /\ control[r].id = NoId
           /\ SamePlace(control[r], b)
           /\ Null \notin {b.server, b.database}
        THEN [control[r] EXCEPT !.id = IdOf(b), !.system = OrOracle(b.system)]
        ELSE control[r]]

\* A plausible mistake: rows that have an id are not spared.
BackfilledOver(b) ==
    [r \in DOMAIN control |->
        IF r \in registered /\ SamePlace(control[r], b)
        THEN [control[r] EXCEPT !.id = IdOf(b), !.system = OrOracle(b.system)]
        ELSE control[r]]

\* The UPDATE for a collected row b: every row without an id at the same place.
BackfilledBy(b) ==
    [r \in DOMAIN control |->
        IF r \in registered /\ control[r].id = NoId /\ SamePlace(control[r], b)
        THEN [control[r] EXCEPT !.id = IdOf(b), !.system = OrOracle(b.system)]
        ELSE control[r]]

\* A plausible mistake: an identity that cannot be computed is not skipped.
BackfillUnchecked(b) ==
    /\ phase = "backfill"
    /\ b \in todo
    /\ todo' = todo \ {b}
    /\ control' = BackfilledBy(b)
    /\ UNCHANGED <<registered, late, phase, run, current, handled, faults>>

Backfill(b) ==
    /\ phase = "backfill"
    /\ b \in todo
    /\ todo' = todo \ {b}
    /\ control' = IF Computable(b) THEN BackfilledBy(b) ELSE control
    /\ UNCHANGED <<registered, late, phase, run, current, handled, faults>>

\* The seeds whose id no row has.
Unmatched == {s \in Seeds : \A r \in registered : control[r].id # IdOf(SeedOf[s])}

\* One MERGE inserts them, ids set.
Seed ==
    /\ phase = "backfill"
    /\ todo = {}
    /\ control' = [r \in DOMAIN control |->
                      IF r \in Unmatched THEN Row(SeedOf[r], IdOf(SeedOf[r])) ELSE control[r]]
    /\ registered' = registered \cup Unmatched
    /\ phase' = "seeded"
    /\ UNCHANGED <<late, run, todo, current, handled, faults>>

-----------------------------------------------------------------------------
(* NB01                                                                    *)

\* active_tables().collect().
ReadActive ==
    /\ phase = "seeded"
    /\ phase' = "inventory"
    /\ todo' = {control[r] : r \in registered}
    /\ handled' = registered
    /\ UNCHANGED <<control, registered, late, run, current, faults>>

\* A plausible mistake: an equality NULL does not meet.
IdentifiedByEquality(b) ==
    [r \in DOMAIN control |->
        IF /\ r \in registered
           /\ SamePlace(control[r], b)
           /\ Null \notin {b.server, b.database}
           /\ control[r].system = OrOracle(b.system)
        THEN [control[r] EXCEPT !.id = IdOf(b)]
        ELSE control[r]]

\* update_control_by_identity: raw columns, NULL matching NULL; the system is
\* 'oracle' where the row has none, which a row with none does not equal.
IdentifiedBy(b) ==
    [r \in DOMAIN control |->
        IF /\ r \in registered
           /\ SamePlace(control[r], b)
           /\ control[r].system = OrOracle(b.system)
        THEN [control[r] EXCEPT !.id = IdOf(b)]
        ELSE control[r]]

\* A row without an id gets one, or is skipped where none can be computed.
Identify(b) ==
    /\ phase = "inventory"
    /\ current = {}
    /\ b \in todo
    /\ todo' = todo \ {b}
    /\ IF b.id = NoId /\ ~Computable(b)
       THEN UNCHANGED <<control, current>>
       ELSE /\ control' = IF b.id = NoId THEN IdentifiedBy(b) ELSE control
            /\ current' = {[b EXCEPT !.id = IF b.id = NoId THEN IdOf(b) ELSE b.id]}
    /\ UNCHANGED <<registered, late, phase, run, handled, faults>>

\* A plausible mistake: update_control by schema and table.
RecordedByName(b) ==
    [r \in DOMAIN control |->
        IF r \in registered /\ control[r].schema = b.schema /\ control[r].table = b.table
        THEN [control[r] EXCEPT !.inventoried = IdOf(b), !.asOf = run]
        ELSE control[r]]

\* update_control: by id.
RecordedFor(b) ==
    [r \in DOMAIN control |->
        IF r \in registered /\ control[r].id = b.id
        THEN [control[r] EXCEPT !.inventoried = IdOf(b), !.asOf = run]
        ELSE control[r]]

\* What was read from b's source, or why nothing was, goes to b's control row.
Record ==
    /\ phase = "inventory"
    /\ \E b \in current : control' = RecordedFor(b)
    /\ current' = {}
    /\ UNCHANGED <<registered, late, phase, run, todo, handled, faults>>

EndRun ==
    /\ phase = "inventory"
    /\ todo = {}
    /\ current = {}
    /\ phase' = "idle"
    /\ UNCHANGED <<control, registered, late, run, todo, current, handled, faults>>

\* The notebook dies; the run is over.
Fail ==
    /\ phase # "idle"
    /\ faults < MaxFaults
    /\ faults' = faults + 1
    /\ phase' = "idle"
    /\ todo' = {} /\ current' = {} /\ handled' = {}
    /\ UNCHANGED <<control, registered, late, run>>

Next ==
    \/ \E r \in Rows : Register(r)
    \/ StartRun
    \/ \E b \in todo : Backfill(b)
    \/ Seed
    \/ ReadActive
    \/ \E b \in todo : Identify(b)
    \/ Record
    \/ EndRun
    \/ Fail

Spec == Init /\ [][Next]_vars

-----------------------------------------------------------------------------
(* Properties.                                                             *)

ControlRows ==
    [system : Texts, server : Texts, database : Texts, schema : Texts, table : Texts,
     id : Ids \cup {NoId}, inventoried : Ids \cup {NoId}, asOf : 0 .. MaxRuns]

\* Ids are made of a supported system and of names that are not blank only.
TypeOK ==
    /\ control \in [Rows \cup Seeds -> ControlRows]
    /\ registered \subseteq Rows \cup Seeds
    /\ late \subseteq Rows
    /\ phase \in {"idle", "backfill", "seeded", "inventory"}
    /\ run \in 0 .. MaxRuns
    /\ todo \in SUBSET ControlRows
    /\ current \in SUBSET ControlRows
    /\ handled \subseteq Rows \cup Seeds
    /\ faults \in 0 .. MaxFaults

\* A row's id is the one its own columns give: NB00's UPDATE may reach rows it
\* did not collect and rows of another system, and what it leaves in
\* source_system must agree with the id it leaves in source_table_id.
IdentifiesItself ==
    \A r \in registered : control[r].id # NoId => control[r].id = IdOf(control[r])

\* The inventory recorded in a row was read from the row's own source, though
\* rows of two sources share schema and table and writes go by id alone.
RecordsOwnSource ==
    \A r \in registered :
       control[r].inventoried # NoId => control[r].inventoried = IdOf(control[r])

\* NB00 never seeds a table that an operator registered before NB00 collected
\* the rows without an id, however its columns are written: the backfill has
\* given that row the id the MERGE then finds.
SeedsOnce ==
    [][\A s \in registered' \ registered, r \in registered \ late :
          Computable(control[r]) => IdOf(control[r]) # control'[s].id]_vars

\* When NB01 ends, every row it went through has an id and its outcome of this
\* run, but for rows no id can be computed for and rows that still name no
\* system: the UPDATE by identity misses the latter, the next NB00 does not.
HandledRowsAnswer ==
    phase = "inventory" /\ todo = {} /\ current = {} =>
       \A r \in handled : \/ control[r].asOf = run
                          \/ ~Computable(control[r])
                          \/ control[r].system \in {Null, Empty}

\* Once NB00 or NB01 has written an id, neither changes it again, nor the columns
\* it is made of: later logs, checkpoints and control updates go by that id.  Rows
\* of two systems at one place do not disturb each other from then on, though
\* before it the backfill of one may move the other.
IdsAreFinal ==
    [][\A r \in registered : control[r].id # NoId =>
          /\ control'[r].id = control[r].id
          /\ SourceOf(control'[r]) = SourceOf(control[r])]_vars

=============================================================================
