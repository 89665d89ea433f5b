----------------------- MODULE CheckpointedReplicaProofs -----------------------
(* The abstract replica keeps its promise.                                 *)
EXTENDS CheckpointedReplica, TLAPS

\* What the steps of the replica preserve.
ReplicaInv ==
    /\ source \in [Tables -> [Keys -> Versions]]
    /\ cursor \in [Tables -> Marks]
    /\ AlwaysCaughtUp

\* Catching up, repositioning and source changes keep the replica caught up.
LEMMA CaughtUpStep == ASSUME MaxStamp \in Nat PROVE ReplicaInv /\ [Next]_vars => ReplicaInv'
<1> SUFFICES ASSUME ReplicaInv, [Next]_vars PROVE ReplicaInv'
    OBVIOUS
<1>1. \A t \in Tables : \A k \in Keys : source[t][k] \in Int /\ cursor[t] \in Int
    BY DEF ReplicaInv, Versions, Marks
<1>2. CASE UNCHANGED vars
    BY <1>2 DEF vars, ReplicaInv, AlwaysCaughtUp, CaughtUp
<1>3. ASSUME NEW t \in Tables, Change(t) PROVE ReplicaInv'
    <2>1. PICK k \in Keys, v \in Versions :
              /\ v = 0 \/ v > cursor[t]
              /\ source' = [source EXCEPT ![t][k] = v]
        BY <1>3 DEF Change
    <2>2. UNCHANGED <<replica, cursor>>
        BY <1>3 DEF Change
    <2>3. \A u \in Tables, j \in Keys : source'[u][j] = IF u = t /\ j = k THEN v
                                                        ELSE source[u][j]
        BY <2>1 DEF ReplicaInv
    <2>4. source' \in [Tables -> [Keys -> Versions]]
        BY <2>1 DEF ReplicaInv
    <2>5. AlwaysCaughtUp'
        BY <1>1, <2>1, <2>2, <2>3 DEF ReplicaInv, AlwaysCaughtUp, CaughtUp, Versions
    <2>6. QED
        BY <2>2, <2>4, <2>5 DEF ReplicaInv
<1>4. ASSUME NEW t \in Tables, Touches(t), UNCHANGED source, CaughtUp(t, cursor[t])'
      PROVE  ReplicaInv'
    <2>1. ASSUME NEW u \in Tables \ {t} PROVE CaughtUp(u, cursor[u])'
        BY <1>4, <2>1 DEF Touches, ReplicaInv, AlwaysCaughtUp, CaughtUp
    <2>2. QED
        BY <1>4, <2>1 DEF Touches, ReplicaInv, AlwaysCaughtUp
<1>5. ASSUME NEW t \in Tables, CatchUp(t) PROVE ReplicaInv'
    <2>1. PICK lower \in Marks :
              /\ CaughtUp(t, lower)
              /\ \A k \in Keys :
                    LET arrives(v) == v \in Stamps /\ lower < v /\ v <= cursor'[t]
                    IN  \/ arrives(source[t][k]) /\ replica'[t][k] = {source[t][k]}
                        \/ ~arrives(source[t][k]) /\ replica'[t][k] = replica[t][k]
                        \/ /\ source[t][k] = 0 \/ source[t][k] > cursor'[t]
                           /\ \E v \in Stamps : arrives(v) /\ replica'[t][k] = {v}
        BY <1>5 DEF CatchUp
    <2>2. Touches(t) /\ UNCHANGED source /\ cursor'[t] \in Int /\ lower \in Int
        BY <1>5, <2>1 DEF CatchUp, Touches, Marks
    <2>3. ASSUME NEW k \in Keys, source[t][k] \in 1 .. cursor'[t]
          PROVE  replica'[t][k] = Row(source[t][k])
        <3>1. source[t][k] \in Stamps /\ source[t][k] <= cursor'[t] /\ source[t][k] # 0
            BY <1>1, <2>2, <2>3 DEF ReplicaInv, Versions, Stamps
        <3>2. ~(lower < source[t][k]) => replica[t][k] = Row(source[t][k])
            BY <1>1, <2>1, <2>2, <3>1 DEF CaughtUp, Stamps
        <3>3. QED
            BY <1>1, <2>1, <2>2, <3>1, <3>2 DEF Row
    <2>4. QED
        BY <1>4, <2>2, <2>3 DEF CaughtUp
<1>6. ASSUME NEW t \in Tables, Reposition(t) PROVE ReplicaInv'
    BY <1>4, <1>6 DEF Reposition, CaughtUp
<1>7. ASSUME NEW t \in Tables, Reload(t) PROVE ReplicaInv'
    BY <1>4, <1>7 DEF Reload, CaughtUp
<1>8. QED
    BY <1>2, <1>3, <1>5, <1>6, <1>7 DEF Next

\* PromiseKept: whatever the source does and whenever an interval arrives, the
\* replica never lacks a row its cursor has passed.
THEOREM PromiseKept == MaxStamp \in Nat => (Spec => []AlwaysCaughtUp)
<1> SUFFICES ASSUME MaxStamp \in Nat PROVE Spec => []AlwaysCaughtUp
    OBVIOUS
<1>1. Init => ReplicaInv
    BY DEF Init, ReplicaInv, AlwaysCaughtUp, CaughtUp
<1>2. ReplicaInv /\ [Next]_vars => ReplicaInv'
    BY CaughtUpStep
<1>3. QED
    BY <1>1, <1>2, PTL DEF Spec, ReplicaInv

=============================================================================
