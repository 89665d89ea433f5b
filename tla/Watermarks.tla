------------------------------- MODULE Watermarks -------------------------------
(***************************************************************************)
(* What a checkpoint means at the source, in the control table and in the   *)
(* target: one table whose watermark column keeps finer or coarser stamps   *)
(* than the six digits of Delta and of the checkpoint.  DeltaSync and       *)
(* Onboarding compare stamps exactly; here every comparison is made where   *)
(* the code makes it, in the precision it has there.  Failures are          *)
(* DeltaSync's, but a frozen interval may be applied more than once.        *)
(***************************************************************************)
EXTENDS Integers

CONSTANTS
    Keys,        \* rows of the table
    Families,    \* families the watermark column may have
    Micro,       \* instants in a microsecond, the last digit of a checkpoint
    Coarse,      \* instants in the tick of a DATE column
    Ties,        \* may a row get a stamp equal to a maximum captured before?
    None,        \* no checkpoint
    \* Bounds on otherwise unbounded counters.
    MaxInstant,  \* the last instant
    MaxRepeats   \* intervals applied again

\* TIMESTAMP9 is an Oracle TIMESTAMP(9), TIMESTAMP one of up to six digits, DATE
\* any family with ticks above a microsecond, DATETIME2 SQL Server's datetime2(7).
Granule == [TIMESTAMP |-> Micro, TIMESTAMP9 |-> 1, DATE |-> Coarse, DATETIME2 |-> 1]

ASSUME WatermarksAssumption ==
    /\ Families \subseteq DOMAIN Granule
    /\ Micro \in Nat \ {0}
    /\ Coarse \in Nat \ {0} /\ Coarse % Micro = 0
    /\ Ties \in BOOLEAN
    /\ MaxInstant \in Nat /\ MaxRepeats \in Nat /\ Coarse <= MaxInstant
    /\ None \notin 0 .. MaxInstant + Micro

\* 0 stands for 1900-01-01, before every row, and for no row.
Instants == Coarse .. MaxInstant

VARIABLES
    family,      \* watermark_data_type
    strategy,    \* load_strategy, WATERMARK or HYBRID
    now,         \* the clock at the source
    source,      \* source[k]: when the row with key k was written last
    target,      \* target[k][a]: copies of the version of k written at a
    last,        \* last_watermark_value
    upper,       \* upper_watermark_value of the queued interval
    phase,       \* what has been done for the table
    slice,       \* the versions read from the source
    captured,    \* the instant of the last MAX or full read, and what it saw:
    highest,     \* the greatest watermark as the source compares it
    repeats

vars == <<family, strategy, now, source, target, last, upper, phase, slice, captured,
          highest, repeats>>

-----------------------------------------------------------------------------
(* One stamp in five places.                                               *)

Floor(i, g) == (i \div g) * g
Round(i, g) == Floor(i + g \div 2, g)

\* In the source column.
Stamp(i) == Floor(i, Granule[family])

\* CAST(... AS datetime2(6)) rounds.
SixDigits(s) == IF family = "DATETIME2" THEN Round(s, Micro) ELSE s

\* Mutation: the column as it is stored.
AsStored(s) == s

\* In MAX and in the interval predicate of the extract query.
Compared(s) == SixDigits(s)

\* In the extracted column: a full extract casts as an incremental one does.
Projected(s) == SixDigits(s)

\* In Delta.
InDelta(s) == Floor(Projected(s), Micro)

\* Mutation: an increment, to be past the row that was MAX.
Incremented(v) == Floor(v, Micro) + Micro

\* In the control table: canonical_watermark_string of what JDBC returned.
Canonical(v) == Floor(v, Micro)

\* A checkpoint as a literal in the source's query; DATE literals end at seconds.
Literal(w) == IF family = "DATE" THEN Floor(w, Coarse) ELSE w

-----------------------------------------------------------------------------

Rows == {k \in Keys : source[k] # 0}
Greatest(S) == CHOOSE m \in S : \A s \in S : s <= m

\* The version of each row that S holds.
Versions(S) == [k \in Keys |-> [a \in Instants |-> IF k \in S /\ source[k] = a THEN 1 ELSE 0]]
Nothing == [k \in Keys |-> [a \in Instants |-> 0]]

Init ==
    /\ family \in Families
    /\ strategy \in {"WATERMARK", "HYBRID"}
    /\ now = Coarse
    /\ source = [k \in Keys |-> 0]
    /\ target = Nothing
    /\ last = None /\ upper = None
    /\ phase = "new"
    /\ slice = Nothing
    /\ captured = 0 /\ highest = 0
    /\ repeats = 0

\* A row is inserted or updated, one at a time.
Write(k) ==
    /\ now < MaxInstant
    /\ Ties \/ Compared(Stamp(now)) > highest
    /\ source' = [source EXCEPT ![k] = now]
    /\ now' = now + 1
    /\ UNCHANGED <<family, strategy, target, last, upper, phase, slice, captured, highest, repeats>>

Delete(k) ==
    /\ k \in Rows
    /\ source' = [source EXCEPT ![k] = 0]
    /\ UNCHANGED <<family, strategy, now, target, last, upper, phase, slice, captured, highest,
                   repeats>>

Tick ==
    /\ now < MaxInstant
    /\ now' = now + 1
    /\ UNCHANGED <<family, strategy, source, target, last, upper, phase, slice, captured, highest,
                   repeats>>

HighestNow == Greatest({Compared(Stamp(source[k])) : k \in Rows})

\* NB09 reads and writes the whole table, NB10 seeds from what the target holds;
\* an empty one gives the initial watermark.
Load ==
    /\ phase = "new"
    /\ target' = Versions(Rows)
    /\ last' = IF Rows = {} THEN 0 ELSE Canonical(Greatest({InDelta(Stamp(source[k])) : k \in Rows}))
    /\ captured' = now
    /\ highest' = IF Rows = {} THEN 0 ELSE HighestNow
    /\ phase' = "idle"
    /\ UNCHANGED <<family, strategy, now, source, upper, slice, repeats>>

\* NB11a: MAX is read once; an interval is queued if it moved.
Capture ==
    /\ phase = "idle"
    /\ Rows # {}
    /\ captured' = now
    /\ highest' = IF HighestNow > highest THEN HighestNow ELSE highest
    /\ IF Canonical(HighestNow) > last
       THEN upper' = Canonical(HighestNow) /\ phase' = "queued"
       ELSE UNCHANGED <<upper, phase>>
    /\ UNCHANGED <<family, strategy, now, source, target, last, slice, repeats>>

\* NB11b reads the interval in the source's precision, ...
Selected == {k \in Rows : /\ Compared(Stamp(source[k])) > Literal(last)
                          /\ Compared(Stamp(source[k])) <= Literal(upper)}

Read ==
    /\ phase = "queued"
    /\ slice' = Versions(Selected)
    /\ phase' = "read"
    /\ UNCHANGED <<family, strategy, now, source, target, last, upper, captured, highest, repeats>>

\* ... deletes it in Delta's (WATERMARK), ...
DeleteInterval ==
    /\ phase = "read"
    /\ strategy = "WATERMARK"
    /\ target' = [k \in Keys |-> [a \in Instants |->
                     IF InDelta(Stamp(a)) > last /\ InDelta(Stamp(a)) <= upper
                     THEN 0 ELSE target[k][a]]]
    /\ phase' = "deleted"
    /\ UNCHANGED <<family, strategy, now, source, last, upper, slice, captured, highest, repeats>>

\* ... and appends what it read, or merges it by primary key (HYBRID).
AppendSlice ==
    /\ phase = "deleted"
    /\ target' = [k \in Keys |-> [a \in Instants |-> target[k][a] + slice[k][a]]]
    /\ phase' = "applied"
    /\ UNCHANGED <<family, strategy, now, source, last, upper, slice, captured, highest, repeats>>

Merge ==
    /\ phase = "read"
    /\ strategy = "HYBRID"
    /\ target' = [k \in Keys |-> IF slice[k] = Nothing[k] THEN target[k] ELSE slice[k]]
    /\ phase' = "applied"
    /\ UNCHANGED <<family, strategy, now, source, last, upper, slice, captured, highest, repeats>>

\* The queue row is still QUEUED: a repair applies the interval again.
Repeat ==
    /\ phase \in {"deleted", "applied"}
    /\ repeats < MaxRepeats
    /\ repeats' = repeats + 1
    /\ phase' = "queued"
    /\ UNCHANGED <<family, strategy, now, source, target, last, upper, slice, captured, highest>>

Commit ==
    /\ phase = "applied"
    /\ last' = Canonical(upper)
    /\ phase' = "idle"
    /\ upper' = None
    /\ slice' = Nothing
    /\ UNCHANGED <<family, strategy, now, source, target, captured, highest, repeats>>

Next ==
    \/ \E k \in Keys : Write(k) \/ Delete(k)
    \/ Tick
    \/ Load \/ Capture \/ Read \/ DeleteInterval \/ AppendSlice \/ Merge \/ Repeat \/ Commit

Spec == Init /\ [][Next]_vars

-----------------------------------------------------------------------------
(* Properties.                                                             *)

\* What a stamp can be after six digits: half a microsecond ahead of the clock.
Checkpoints == {w \in Coarse .. MaxInstant + Micro \div 2 : w % Micro = 0}

\* Checkpoints exceed the clock by no more than the rounding to six digits: no
\* increment is added to MAX.
TypeOK ==
    /\ family \in Families
    /\ strategy \in {"WATERMARK", "HYBRID"}
    /\ now \in Instants
    /\ source \in [Keys -> {0} \cup Instants]
    /\ target \in [Keys -> [Instants -> Nat]]
    /\ last \in {None, 0} \cup Checkpoints
    /\ upper \in {None} \cup Checkpoints
    /\ phase \in {"new", "idle", "queued", "read", "deleted", "applied"}
    /\ slice \in [Keys -> [Instants -> 0 .. 1]]
    /\ captured \in {0} \cup Instants
    /\ highest \in 0 .. MaxInstant + Micro \div 2
    /\ repeats \in 0 .. MaxRepeats

\* NB11b replaces "exactly the frozen source interval": no version of a row is in
\* the target twice, though the interval is deleted there in Delta's precision
\* and read at the source in the column's.
NoCopies == \A k \in Keys, a \in Instants : target[k][a] <= 1

\* No row the next interval leaves out is missing from the target, in whatever
\* precision the checkpoint was stored.
NothingSkipped ==
    last # None => \A k \in Rows :
       Compared(Stamp(source[k])) <= Literal(last) => target[k][source[k]] > 0

\* A run that is about to commit has applied every row that was there when it
\* captured MAX, the row that was MAX included, once.
RunIsComplete ==
    phase = "applied" => \A k \in Rows :
       source[k] < captured => target[k][source[k]] = 1

=============================================================================
