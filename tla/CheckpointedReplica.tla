-------------------------- MODULE CheckpointedReplica --------------------------
(***************************************************************************)
(* What the accelerator promises of a table that is merged by primary key:  *)
(* a replica of the source and a cursor.  The replica has caught up with    *)
(* every row whose watermark the cursor has passed.  One step catches up    *)
(* with an interval and moves the cursor, a full load replaces the rows; a  *)
(* failure may lose the record of how far the replica is, never a row the   *)
(* record has passed.                                                       *)
(***************************************************************************)
EXTENDS Integers

CONSTANTS Tables, Keys, MaxStamp

Stamps   == 1 .. MaxStamp
Versions == 0 .. MaxStamp     \* 0: no row
Marks    == -1 .. MaxStamp    \* -1: no cursor yet, 0: before every row

VARIABLES
    source,    \* source[t][k]: the version of the row with key k
    replica,   \* replica[t][k]: the versions stored under key k
    cursor     \* cursor[t]: how far the replica has caught up

vars == <<source, replica, cursor>>

\* A key holds the version v and nothing else.
Row(v) == IF v = 0 THEN {} ELSE {v}

\* The replica has every row the source holds up to b.
CaughtUp(t, b) ==
    \A k \in Keys : source[t][k] \in 1 .. b => replica[t][k] = Row(source[t][k])

Init ==
    /\ source \in [Tables -> [Keys -> Versions]]
    /\ replica \in [Tables -> [Keys -> SUBSET Stamps]]
    /\ cursor \in [Tables -> Marks]
    /\ \A t \in Tables : CaughtUp(t, cursor[t])

\* A step concerns one table.
Touches(t) ==
    /\ cursor' \in [Tables -> Marks]
    /\ \A u \in Tables \ {t} : replica'[u] = replica[u] /\ cursor'[u] = cursor[u]

\* The source deletes a row, or writes one the cursor has not passed.
Change(t) ==
    /\ \E k \in Keys, v \in Versions :
          /\ v = 0 \/ v > cursor[t]
          /\ source' = [source EXCEPT ![t][k] = v]
    /\ UNCHANGED <<replica, cursor>>

\* The rows of an interval whose beginning the replica had reached arrive
\* together with the cursor.  A row the source has moved out of the interval
\* meanwhile may arrive in the version it had.
CatchUp(t) ==
    /\ Touches(t)
    /\ \E lower \in Marks :
          /\ CaughtUp(t, lower)
          /\ \A k \in Keys :
                LET arrives(v) == v \in Stamps /\ lower < v /\ v <= cursor'[t]
                IN  \/ arrives(source[t][k]) /\ replica'[t][k] = {source[t][k]}
                    \/ ~arrives(source[t][k]) /\ replica'[t][k] = replica[t][k]
                    \/ /\ source[t][k] = 0 \/ source[t][k] > cursor'[t]
                       /\ \E v \in Stamps : arrives(v) /\ replica'[t][k] = {v}
    /\ UNCHANGED source

\* A failure, or the repair of an old run, moves the cursor alone.
Reposition(t) ==
    /\ Touches(t)
    /\ CaughtUp(t, cursor'[t])
    /\ UNCHANGED <<source, replica>>

\* A full load replaces the rows and leaves the cursor alone.
Reload(t) ==
    /\ Touches(t)
    /\ cursor'[t] = cursor[t]
    /\ \A k \in Keys : \E v \in Versions : replica'[t][k] = Row(v)
    /\ CaughtUp(t, cursor[t])'
    /\ UNCHANGED source

Next == \E t \in Tables : Change(t) \/ CatchUp(t) \/ Reposition(t) \/ Reload(t)

Spec == Init /\ [][Next]_vars

\* The promise: the source holds no row the cursor has passed and the replica
\* lacks.
AlwaysCaughtUp == \A t \in Tables : CaughtUp(t, cursor[t])

=============================================================================
