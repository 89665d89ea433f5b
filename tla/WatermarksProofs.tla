---------------------------- MODULE WatermarksProofs ----------------------------
(***************************************************************************)
(* For every clock, tick and microsecond: what a checkpoint with six digits *)
(* means at the source and in the target, through every interleaving of     *)
(* writes, captures and repeated intervals.                                *)
(***************************************************************************)
EXTENDS Watermarks, FiniteSetTheorems, TLAPS

(* Arithmetic. *)

LEMMA MulMono ==
  ASSUME NEW p \in Nat, NEW q \in Nat, NEW g \in Nat \ {0}, p <= q
  PROVE  p * g <= q * g
  OBVIOUS

LEMMA MulStrict ==
  ASSUME NEW p \in Nat, NEW q \in Nat, NEW g \in Nat \ {0}, p < q
  PROVE  p * g + g <= q * g
  OBVIOUS

LEMMA DivMod ==
  ASSUME NEW i \in Nat, NEW g \in Nat \ {0}
  PROVE  /\ i \div g \in Nat
         /\ i % g \in 0 .. g - 1
         /\ i = (i \div g) * g + (i % g)
  <1>1. i \div g \in Nat
    OBVIOUS
  <1>2. i % g \in 0 .. g - 1
    OBVIOUS
  <1>3. i = g * (i \div g) + (i % g)
    OBVIOUS
  <1> QED
    BY <1>1, <1>2, <1>3

LEMMA FloorIs ==
  ASSUME NEW i \in Nat, NEW g \in Nat \ {0}
  PROVE  /\ Floor(i, g) \in Nat
         /\ Floor(i, g) <= i
         /\ i < Floor(i, g) + g
         /\ Floor(i, g) = i - (i % g)
         /\ \E q \in Nat : Floor(i, g) = q * g
  <1> DEFINE d == (i \div g) * g
             r == i % g
  <1>1. r \in 0 .. g - 1 /\ i = d + r /\ d \in Nat
    <2>1. i \div g \in Nat /\ (i \div g) * g \in Nat
      BY DivMod
    <2> QED
      BY <2>1, DivMod
  <1>2. \E q \in Nat : d = q * g
    BY DivMod
  <1>3. Floor(i, g) = d
    BY DEF Floor
  <1> HIDE DEF d, r
  <1>4. d <= i /\ i < d + g /\ d = i - r
    BY <1>1
  <1> QED
    BY <1>1, <1>2, <1>3, <1>4 DEF r

LEMMA MultipleIs ==
  ASSUME NEW q \in Nat, NEW g \in Nat \ {0}
  PROVE  /\ q * g \in Nat
         /\ Floor(q * g, g) = q * g
         /\ (q * g) % g = 0
  <1>1. q * g \in Nat
    OBVIOUS
  <1>2. PICK p \in Nat : Floor(q * g, g) = p * g
    BY <1>1, FloorIs
  <1>3. p * g <= q * g /\ q * g < p * g + g
    BY <1>1, <1>2, FloorIs
  <1>4. p = q
    BY <1>1, <1>3, MulStrict
  <1>5. (q * g) % g = 0
    <2>1. (q * g) % g \in Nat
      BY <1>1, DivMod
    <2> QED
      BY <1>1, <1>2, <1>4, <2>1, FloorIs
  <1> QED
    BY <1>1, <1>2, <1>4, <1>5

LEMMA FloorMono ==
  ASSUME NEW i \in Nat, NEW j \in Nat, NEW g \in Nat \ {0}, i <= j
  PROVE  Floor(i, g) <= Floor(j, g)
  <1>1. PICK p \in Nat : Floor(i, g) = p * g
    BY FloorIs
  <1>2. PICK q \in Nat : Floor(j, g) = q * g
    BY FloorIs
  <1>3. CASE p <= q
    BY <1>1, <1>2, <1>3, MulMono
  <1>4. CASE q < p
    <2>1. q * g + g <= p * g
      BY <1>4, MulStrict
    <2>2. j < q * g + g
      BY <1>2, FloorIs
    <2>3. p * g <= i
      BY <1>1, FloorIs
    <2>4. p * g \in Int /\ q * g \in Int
      OBVIOUS
    <2> QED
      BY <2>1, <2>2, <2>3, <2>4
  <1> QED
    BY <1>3, <1>4

LEMMA ModIs ==
  ASSUME NEW m \in Nat, NEW g \in Nat \ {0}
  PROVE  m % g = 0 <=> \E q \in Nat : m = q * g
  <1>1. ASSUME m % g = 0 PROVE \E q \in Nat : m = q * g
    <2>1. Floor(m, g) = m - (m % g)
      BY FloorIs
    <2>2. Floor(m, g) = m
      BY <1>1, <2>1
    <2> QED
      BY <2>2, FloorIs
  <1>2. ASSUME NEW q \in Nat, m = q * g PROVE m % g = 0
    BY <1>2, MultipleIs
  <1> QED
    BY <1>1, <1>2

LEMMA MultipleKept ==
  ASSUME NEW m \in Nat, NEW g \in Nat \ {0}, m % g = 0
  PROVE  Floor(m, g) = m
  <1>1. Floor(m, g) = m - (m % g)
    BY FloorIs
  <1> QED
    BY <1>1

LEMMA FloorIsMultiple ==
  ASSUME NEW i \in Nat, NEW g \in Nat \ {0}
  PROVE  Floor(i, g) \in Nat /\ Floor(i, g) % g = 0
  BY FloorIs, ModIs

\* A tick of a DATE is a whole number of microseconds.
LEMMA TickIs ==
  /\ Micro \in Nat \ {0} /\ Coarse \in Nat \ {0} /\ Micro <= Coarse
  /\ Coarse % Micro = 0
  /\ \A m \in Nat : m % Coarse = 0 => m % Micro = 0
  /\ Micro \div 2 \in Nat /\ Micro \div 2 < Micro
  <1>1. Micro \in Nat \ {0} /\ Coarse \in Nat \ {0} /\ Coarse % Micro = 0
    BY WatermarksAssumption
  <1>2. PICK c \in Nat : Coarse = c * Micro
    BY <1>1, ModIs
  <1>3. Micro <= Coarse
    <2>1. c # 0
      BY <1>1, <1>2
    <2>2. 1 * Micro <= c * Micro
      BY <1>1, <2>1, MulMono
    <2> QED
      BY <1>1, <1>2, <2>2
  <1>4. ASSUME NEW m \in Nat, m % Coarse = 0 PROVE m % Micro = 0
    <2>1. PICK q \in Nat : m = q * Coarse
      BY <1>1, <1>4, ModIs
    <2>2. q * c \in Nat /\ m = (q * c) * Micro
      BY <1>1, <1>2, <2>1
    <2> HIDE DEF Floor
    <2> QED
      BY <1>1, <2>2, ModIs
  <1>5. Micro \div 2 \in Nat /\ Micro \div 2 < Micro
    BY <1>1
  <1> QED
    BY <1>1, <1>3, <1>4, <1>5

-----------------------------------------------------------------------------
(* The stamp of an instant, wherever the code looks at it.                 *)

\* What MAX and the interval predicate see of a row written at i.
Seen(i) == Compared(Stamp(i))

LEMMA RoundIs ==
  ASSUME NEW i \in Nat
  PROVE  /\ Round(i, Micro) \in Nat
         /\ Round(i, Micro) % Micro = 0
         /\ Round(i, Micro) <= i + Micro \div 2
         /\ \A m \in Nat : m % Micro = 0 /\ m <= i => m <= Round(i, Micro)
         /\ \A j \in Nat : i <= j => Round(i, Micro) <= Round(j, Micro)
  <1>1. Micro \in Nat \ {0} /\ Micro \div 2 \in Nat /\ i + Micro \div 2 \in Nat
    BY TickIs
  <1>2. Round(i, Micro) = Floor(i + Micro \div 2, Micro)
    BY DEF Round
  <1>3. ASSUME NEW m \in Nat, m % Micro = 0, m <= i PROVE m <= Round(i, Micro)
    <2>1. m <= i + Micro \div 2
      BY <1>1, <1>3
    <2>2. Floor(m, Micro) <= Floor(i + Micro \div 2, Micro)
      BY <1>1, <2>1, FloorMono
    <2> QED
      BY <1>1, <1>2, <1>3, <2>2, MultipleKept
  <1>4. ASSUME NEW j \in Nat, i <= j PROVE Round(i, Micro) <= Round(j, Micro)
    <2>1. i + Micro \div 2 <= j + Micro \div 2 /\ j + Micro \div 2 \in Nat
      BY <1>1, <1>4
    <2> QED
      BY <1>1, <2>1, FloorMono DEF Round
  <1>5. Floor(i + Micro \div 2, Micro) <= i + Micro \div 2
    BY <1>1, FloorIs
  <1> QED
    BY <1>1, <1>2, <1>3, <1>4, <1>5, FloorIsMultiple

LEMMA StampIs ==
  ASSUME family \in Families, NEW i \in Nat
  PROVE  /\ Granule[family] \in Nat \ {0}
         /\ Granule[family] \in {1, Micro, Coarse}
         /\ Stamp(i) \in Nat /\ Stamp(i) <= i
         /\ Stamp(i) % Granule[family] = 0
         /\ \A j \in Nat : i <= j => Stamp(i) <= Stamp(j)
         /\ Coarse <= i => Coarse <= Stamp(i)
  <1> DEFINE g == Granule[family]
  <1>1. g \in {1, Micro, Coarse} /\ g \in Nat \ {0}
    BY WatermarksAssumption DEF Granule
  <1>2. Coarse % g = 0
    <2>1. Coarse % Coarse = 0
      <3>1. Coarse = 1 * Coarse
        BY TickIs
      <3> QED
        BY <3>1, TickIs, ModIs
    <2>2. Coarse % 1 = 0
      BY TickIs
    <2> QED
      BY <1>1, <2>1, <2>2, TickIs
  <1>3. Coarse <= i => Coarse <= Floor(i, g)
    <2> SUFFICES ASSUME Coarse <= i PROVE Coarse <= Floor(i, g)
      OBVIOUS
    <2>1. Floor(Coarse, g) <= Floor(i, g)
      BY <1>1, TickIs, FloorMono
    <2>2. Floor(Coarse, g) = Coarse
      BY <1>1, <1>2, TickIs, MultipleKept
    <2> QED
      BY <2>1, <2>2
  <1>4. Floor(i, g) \in Nat /\ Floor(i, g) <= i /\ Floor(i, g) % g = 0
    BY <1>1, FloorIs, FloorIsMultiple
  <1>5. \A j \in Nat : i <= j => Floor(i, g) <= Floor(j, g)
    BY <1>1, FloorMono
  <1>6. \A j : Stamp(j) = Floor(j, g)
    BY DEF Stamp
  <1> HIDE DEF g
  <1>7. /\ g \in Nat \ {0} /\ g \in {1, Micro, Coarse}
        /\ Stamp(i) \in Nat /\ Stamp(i) <= i /\ Stamp(i) % g = 0
        /\ \A j \in Nat : i <= j => Stamp(i) <= Stamp(j)
        /\ Coarse <= i => Coarse <= Stamp(i)
    BY <1>1, <1>3, <1>4, <1>5, <1>6
  <1> QED
    BY <1>7 DEF g

\* In every family the comparison has a place for every row: whole microseconds or
\* the column's own ticks, never before the row by less than it, and in order.
LEMMA SeenIs ==
  ASSUME family \in Families, NEW i \in Nat
  PROVE  /\ Seen(i) \in Nat
         /\ Seen(i) <= i + Micro \div 2
         /\ \A j \in Nat : i <= j => Seen(i) <= Seen(j)
         /\ Coarse <= i => Coarse <= Seen(i)
  <1>1. CASE family = "DATETIME2"
    <2>1. Granule[family] = 1
      BY <1>1 DEF Granule
    <2>2. \A j \in Nat : Stamp(j) = j
      BY <2>1 DEF Stamp, Floor
    <2>3. \A j \in Nat : Seen(j) = Round(j, Micro)
      BY <1>1, <2>2 DEF Seen, Compared, SixDigits
    <2>4. Coarse <= i => Coarse <= Round(i, Micro)
      BY RoundIs, TickIs
    <2> QED
      BY <2>3, <2>4, RoundIs
  <1>2. CASE family # "DATETIME2"
    <2>1. \A j : Seen(j) = Stamp(j)
      BY <1>2 DEF Seen, Compared, SixDigits
    <2> QED
      BY <2>1, StampIs, TickIs
  <1> QED
    BY <1>1, <1>2

\* With no more than six digits in the column, or cast to six, the stamp is the
\* same in all five places.
LEMMA SamePlace ==
  ASSUME family \in Families, family # "TIMESTAMP9", NEW i \in Nat
  PROVE  /\ Seen(i) % Micro = 0
         /\ InDelta(Stamp(i)) = Seen(i)
         /\ Canonical(Seen(i)) = Seen(i)
         /\ Literal(Seen(i)) = Seen(i)
  <1>0. family \in {"TIMESTAMP", "DATE", "DATETIME2"}
    BY WatermarksAssumption DEF Granule
  <1>1. Seen(i) \in Nat /\ Seen(i) % Micro = 0
    <2>1. CASE family = "DATETIME2"
      <3>1. Granule[family] = 1
        BY <2>1 DEF Granule
      <3>2. Seen(i) = Round(i, Micro)
        BY <2>1, <3>1 DEF Stamp, Floor, Seen, Compared, SixDigits
      <3> QED
        BY <3>2, RoundIs
    <2>2. CASE family # "DATETIME2"
      <3>1. Seen(i) = Stamp(i)
        BY <2>2 DEF Seen, Compared, SixDigits
      <3>2. Granule[family] \in {Micro, Coarse}
        BY <1>0, <2>2 DEF Granule
      <3> QED
        BY <3>1, <3>2, StampIs, TickIs
    <2> QED
      BY <2>1, <2>2
  <1>2. Projected(Stamp(i)) = Seen(i)
    BY DEF Projected, Seen, Compared
  <1>3. Floor(Seen(i), Micro) = Seen(i)
    BY <1>1, TickIs, MultipleKept
  <1>4. Literal(Seen(i)) = Seen(i)
    <2>1. CASE family = "DATE"
      <3>1. Seen(i) = Stamp(i) /\ Granule[family] = Coarse
        BY <2>1 DEF Seen, Compared, SixDigits, Granule
      <3>2. Floor(Seen(i), Coarse) = Seen(i)
        BY <1>1, <3>1, StampIs, TickIs, MultipleKept
      <3> QED
        BY <2>1, <3>2 DEF Literal
    <2>2. CASE family # "DATE"
      BY <2>2 DEF Literal
    <2> QED
      BY <2>1, <2>2
  <1> QED
    BY <1>1, <1>2, <1>3, <1>4 DEF InDelta, Canonical

-----------------------------------------------------------------------------
(* The greatest of the captured stamps.                                    *)

LEMMA GreatestIs ==
  ASSUME NEW S, S # {}, NEW b \in Nat, S \subseteq 0 .. b
  PROVE  Greatest(S) \in S /\ \A s \in S : s <= Greatest(S)
  <1> DEFINE Above(t) == {s \in S : t < s}
             All == {Above(t) : t \in S}
  <1>1. IsWellFoundedOn(StrictSubsetOrdering(S), FiniteSubsetsOf(S))
    BY FS_StrictSubsetOrderingWellFounded
  <1>2. IsFiniteSet(S)
    <2>1. IsFiniteSet(0 .. b)
      BY FS_Interval
    <2> QED
      BY <2>1, FS_Subset
  <1>3. FiniteSubsetsOf(S) = SUBSET S
    BY <1>2, FS_FiniteSubsetsOfFinite
  <1>4. All \subseteq SUBSET S /\ All # {}
    OBVIOUS
  <1>5. PICK X \in All : \A Y \in All : ~(<<Y, X>> \in StrictSubsetOrdering(S))
    <2> HIDE DEF All
    <2> QED
      BY <1>1, <1>3, <1>4, WFMin
  <1>6. PICK m \in S : X = Above(m)
    OBVIOUS
  <1>7. ASSUME NEW s \in S PROVE s <= m
    <2> SUFFICES ASSUME m < s PROVE FALSE
      OBVIOUS
    <2>0. \A t \in S : t \in Int
      OBVIOUS
    <2>1. Above(s) \subseteq Above(m)
      <3> SUFFICES ASSUME NEW t \in S, s < t PROVE m < t
        OBVIOUS
      <3>1. t \in Int /\ s \in Int /\ m \in Int
        BY <2>0
      <3> HIDE DEF Above
      <3> QED
        BY <3>1
    <2>2. s \in Above(m) /\ s \notin Above(s)
      <3>1. ~(s < s)
        BY <2>0
      <3> QED
        BY <3>1
    <2>3. Above(s) \in All /\ Above(s) \in SUBSET S /\ Above(m) \in SUBSET S
      OBVIOUS
    <2> HIDE DEF Above, All
    <2>4. <<Above(s), Above(m)>> \in StrictSubsetOrdering(S)
      BY <2>1, <2>2, <2>3 DEF StrictSubsetOrdering
    <2> QED
      BY <1>5, <1>6, <2>3, <2>4
  <1>8. \E t \in S : \A s \in S : s <= t
    BY <1>7
  <1> QED
    BY <1>8 DEF Greatest

LEMMA InstantsAre ==
  /\ Instants \subseteq Nat
  /\ 0 \notin Instants
  /\ \A i \in Instants : Coarse <= i /\ i <= MaxInstant
  BY TickIs, WatermarksAssumption DEF Instants

LEMMA CheckpointsAre ==
  /\ Checkpoints \subseteq Nat
  /\ None # 0 /\ None \notin Checkpoints
  /\ \A w \in Checkpoints : Coarse <= w /\ w <= MaxInstant + Micro \div 2 /\ w % Micro = 0
  <1>1. Checkpoints \subseteq Nat
    BY TickIs, WatermarksAssumption DEF Checkpoints
  <1>2. \A w \in Checkpoints : w \in 0 .. MaxInstant + Micro
    <2>1. MaxInstant \in Nat
      BY WatermarksAssumption
    <2> QED
      BY <2>1, TickIs DEF Checkpoints
  <1> QED
    BY <1>1, <1>2, TickIs, WatermarksAssumption DEF Checkpoints

LEMMA CanonicalIs ==
  ASSUME NEW v \in Nat, Coarse <= v, v <= MaxInstant + Micro \div 2
  PROVE  Canonical(v) \in Checkpoints /\ Canonical(v) <= v
  <1>1. Floor(v, Micro) \in Nat /\ Floor(v, Micro) <= v /\ Floor(v, Micro) % Micro = 0
    BY TickIs, FloorIs, FloorIsMultiple
  <1>2. Coarse <= Floor(v, Micro)
    <2>1. Floor(Coarse, Micro) <= Floor(v, Micro)
      BY TickIs, FloorMono
    <2> QED
      BY <2>1, TickIs, MultipleKept
  <1>3. MaxInstant \in Nat
    BY WatermarksAssumption
  <1>4. Floor(v, Micro) \in Coarse .. MaxInstant + Micro \div 2
    BY <1>1, <1>2, <1>3, TickIs
  <1> QED
    BY <1>1, <1>4 DEF Canonical, Checkpoints

LEMMA CheckpointKept ==
  ASSUME NEW w \in Checkpoints
  PROVE  Canonical(w) = w
  BY CheckpointsAre, TickIs, MultipleKept DEF Canonical

-----------------------------------------------------------------------------
(* Types.                                                                  *)

Active == {"queued", "read", "deleted", "applied"}

\* What the table's phase says of its checkpoint and its interval; a row is in
\* the source's past.
Phased ==
    /\ (phase = "new") <=> (last = None)
    /\ (phase \in Active) <=> (upper # None)
    /\ \A k \in Rows : source[k] < now

TypeInv == TypeOK /\ Phased

LEMMA RowsAre ==
  ASSUME TypeInv, NEW k \in Rows
  PROVE  /\ k \in Keys /\ source[k] \in Instants /\ source[k] \in Nat /\ source[k] < now
         /\ Coarse <= source[k] /\ source[k] <= MaxInstant /\ family \in Families
  <1>1. k \in Keys /\ source[k] \in Instants
    BY DEF Rows, TypeInv, TypeOK
  <1> QED
    BY <1>1, InstantsAre DEF TypeInv, TypeOK, Phased

LEMMA SeenInRange ==
  ASSUME family \in Families, NEW i \in Instants
  PROVE  /\ Seen(i) \in Nat
         /\ Coarse <= Seen(i) /\ Seen(i) <= MaxInstant + Micro \div 2
  <1>1. i \in Nat /\ Coarse <= i /\ i <= MaxInstant
    BY InstantsAre
  <1>2. MaxInstant \in Nat
    BY WatermarksAssumption
  <1> QED
    BY <1>1, <1>2, SeenIs, TickIs

LEMMA HighestIs ==
  ASSUME TypeInv, Rows # {}
  PROVE  /\ \E k \in Rows : HighestNow = Seen(source[k])
         /\ \A k \in Rows : Seen(source[k]) <= HighestNow
         /\ HighestNow \in Nat
         /\ Coarse <= HighestNow /\ HighestNow <= MaxInstant + Micro \div 2
  <1> DEFINE S == {Seen(source[k]) : k \in Rows}
  <1>1. HighestNow = Greatest(S)
    BY DEF HighestNow, Seen
  <1>2. MaxInstant + Micro \div 2 \in Nat
    BY TickIs, WatermarksAssumption
  <1>3. S \subseteq 0 .. MaxInstant + Micro \div 2 /\ S # {}
    BY <1>2, RowsAre, SeenInRange
  <1>4. Greatest(S) \in S /\ \A s \in S : s <= Greatest(S)
    <2> HIDE DEF S
    <2> QED
      BY <1>2, <1>3, GreatestIs
  <1>5. PICK k \in Rows : HighestNow = Seen(source[k])
    BY <1>1, <1>4
  <1>6. /\ HighestNow \in Nat
        /\ Coarse <= HighestNow /\ HighestNow <= MaxInstant + Micro \div 2
    BY <1>5, RowsAre, SeenInRange
  <1> QED
    BY <1>1, <1>4, <1>5, <1>6

\* NB10 commits the greatest stamp the target received.
LEMMA SeedIs ==
  ASSUME TypeInv, Rows # {}
  PROVE  LET w == Canonical(Greatest({InDelta(Stamp(source[k])) : k \in Rows}))
         IN  w \in Checkpoints
  <1> DEFINE S == {InDelta(Stamp(source[k])) : k \in Rows}
  <1>1. ASSUME NEW k \in Rows
        PROVE  InDelta(Stamp(source[k])) \in Checkpoints
    <2>1. InDelta(Stamp(source[k])) = Canonical(Seen(source[k]))
      BY DEF InDelta, Projected, Seen, Compared, Canonical
    <2> QED
      BY <2>1, RowsAre, SeenInRange, CanonicalIs
  <1>2. MaxInstant + Micro \div 2 \in Nat
    BY TickIs, WatermarksAssumption
  <1>3. S \subseteq Checkpoints /\ S # {}
    BY <1>1
  <1>4. S \subseteq 0 .. MaxInstant + Micro \div 2
    <2> HIDE DEF S
    <2>1. ASSUME NEW w \in S PROVE w \in 0 .. MaxInstant + Micro \div 2
      <3>1. w \in Nat /\ w <= MaxInstant + Micro \div 2
        BY <1>3, CheckpointsAre
      <3> QED
        BY <1>2, <3>1
    <2> QED
      BY <2>1
  <1>5. Greatest(S) \in S
    <2> HIDE DEF S
    <2> QED
      BY <1>2, <1>3, <1>4, GreatestIs
  <1> QED
    BY <1>3, <1>5, CheckpointKept

LEMMA TypeInit == ASSUME Init PROVE TypeInv
  <1>1. Coarse \in Instants
    BY TickIs, WatermarksAssumption DEF Instants
  <1> QED
    BY <1>1, InstantsAre, CheckpointsAre, TickIs, WatermarksAssumption
       DEF Init, TypeInv, TypeOK, Phased, Nothing, Rows, Active

LEMMA VersionsAre ==
  ASSUME NEW S
  PROVE  Versions(S) \in [Keys -> [Instants -> 0 .. 1]]
  BY DEF Versions

LEMMA TypeWrites ==
  ASSUME TypeInv, \/ \E k \in Keys : Write(k) \/ Delete(k)
                  \/ Tick
  PROVE  TypeInv'
  <1>1. now \in Nat /\ now + 1 \in Nat /\ MaxInstant \in Nat /\ Instants \subseteq Nat
    BY InstantsAre, WatermarksAssumption DEF TypeInv, TypeOK
  <1>2. now < MaxInstant => now + 1 \in Instants
    BY <1>1, TickIs DEF TypeInv, TypeOK, Instants
  <1>3. CASE \E k \in Keys : Write(k)
    <2>1. PICK k \in Keys : Write(k)
      BY <1>3
    <2>2. source' \in [Keys -> {0} \cup Instants] /\ now' \in Instants
      BY <1>2, <2>1 DEF Write, TypeInv, TypeOK
    <2>3. \A j \in Rows' : source'[j] < now'
      BY <1>1, <2>1, RowsAre DEF Write, Rows, TypeInv, TypeOK
    <2> QED
      BY <2>1, <2>2, <2>3 DEF Write, TypeInv, TypeOK, Phased, Active
  <1>4. CASE \E k \in Keys : Delete(k)
    <2>1. PICK k \in Keys : Delete(k)
      BY <1>4
    <2>2. source' \in [Keys -> {0} \cup Instants]
      BY <2>1 DEF Delete, TypeInv, TypeOK
    <2>3. \A j \in Rows' : source'[j] < now'
      BY <2>1, RowsAre DEF Delete, Rows, TypeInv, TypeOK
    <2> QED
      BY <2>1, <2>2, <2>3 DEF Delete, TypeInv, TypeOK, Phased, Active
  <1>5. CASE Tick
    <2>1. now' \in Instants
      BY <1>2, <1>5 DEF Tick
    <2>2. \A j \in Rows' : source'[j] < now'
      BY <1>1, <1>5, RowsAre DEF Tick, Rows, TypeInv, TypeOK
    <2> QED
      BY <1>5, <2>1, <2>2 DEF Tick, TypeInv, TypeOK, Phased, Active
  <1> QED
    BY <1>3, <1>4, <1>5

LEMMA TypeCaptures ==
  ASSUME TypeInv, Load \/ Capture
  PROVE  TypeInv'
  <1>1. MaxInstant \in Nat /\ Micro \div 2 \in Nat
    BY TickIs, WatermarksAssumption
  <1>2. Rows # {} => HighestNow \in 0 .. MaxInstant + Micro \div 2
    BY <1>1, HighestIs
  <1>3. Rows' = Rows /\ now' = now
    BY DEF Load, Capture, Rows
  <1>4. CASE Load
    <2>1. last' \in {0} \cup Checkpoints
      BY <1>4, SeedIs DEF Load
    <2>2. highest' \in 0 .. MaxInstant + Micro \div 2
      BY <1>1, <1>2, <1>4 DEF Load
    <2>3. target' \in [Keys -> [Instants -> Nat]]
      BY <1>4, VersionsAre DEF Load
    <2>4. phase' = "idle" /\ last' # None /\ upper' = None
      BY <1>4, <2>1, CheckpointsAre DEF Load, TypeInv, Phased, Active
    <2> QED
      BY <1>3, <1>4, <2>1, <2>2, <2>3, <2>4 DEF Load, TypeInv, TypeOK, Phased, Active
  <1>5. CASE Capture
    <2>1. Rows # {} /\ Canonical(HighestNow) \in Checkpoints
      BY <1>5, HighestIs, CanonicalIs DEF Capture
    <2>2. highest' \in 0 .. MaxInstant + Micro \div 2
      BY <1>2, <1>5, <2>1 DEF Capture, TypeInv, TypeOK
    <2>3. CASE Canonical(HighestNow) > last
      BY <1>3, <1>5, <2>1, <2>2, <2>3, CheckpointsAre
         DEF Capture, TypeInv, TypeOK, Phased, Active
    <2>4. CASE ~(Canonical(HighestNow) > last)
      BY <1>3, <1>5, <2>2, <2>4 DEF Capture, TypeInv, TypeOK, Phased, Active
    <2> QED
      BY <2>3, <2>4
  <1> QED
    BY <1>4, <1>5

LEMMA TypeApplies ==
  ASSUME TypeInv, Read \/ DeleteInterval \/ AppendSlice \/ Merge \/ Repeat \/ Commit
  PROVE  TypeInv'
  <1>1. Rows' = Rows /\ \A k \in Rows' : source'[k] < now'
    BY DEF Read, DeleteInterval, AppendSlice, Merge, Repeat, Commit, Rows, TypeInv, Phased
  <1>2. CASE Read
    BY <1>1, <1>2, VersionsAre DEF Read, TypeInv, TypeOK, Phased, Active
  <1>3. CASE DeleteInterval
    <2>1. target' \in [Keys -> [Instants -> Nat]]
      BY <1>3 DEF DeleteInterval, TypeInv, TypeOK
    <2> QED
      BY <1>1, <1>3, <2>1 DEF DeleteInterval, TypeInv, TypeOK, Phased, Active
  <1>4. CASE AppendSlice
    <2>1. target' \in [Keys -> [Instants -> Nat]]
      <3>1. \A k \in Keys, a \in Instants : target[k][a] \in Nat /\ slice[k][a] \in Nat
        BY DEF TypeInv, TypeOK
      <3> QED
        BY <1>4, <3>1 DEF AppendSlice
    <2> QED
      BY <1>1, <1>4, <2>1 DEF AppendSlice, TypeInv, TypeOK, Phased, Active
  <1>5. CASE Merge
    <2>1. target' \in [Keys -> [Instants -> Nat]]
      <3>1. \A k \in Keys : slice[k] \in [Instants -> Nat] /\ target[k] \in [Instants -> Nat]
        <4>1. \A k \in Keys : slice[k] \in [Instants -> 0 .. 1]
          BY DEF TypeInv, TypeOK
        <4>2. \A f \in [Instants -> 0 .. 1] : f \in [Instants -> Nat]
          OBVIOUS
        <4>3. \A k \in Keys : target[k] \in [Instants -> Nat]
          BY DEF TypeInv, TypeOK
        <4> QED
          BY <4>1, <4>2, <4>3
      <3> QED
        BY <1>5, <3>1 DEF Merge
    <2> QED
      BY <1>1, <1>5, <2>1 DEF Merge, TypeInv, TypeOK, Phased, Active
  <1>6. CASE Repeat
    <2>1. repeats' \in 0 .. MaxRepeats
      BY <1>6, WatermarksAssumption DEF Repeat, TypeInv, TypeOK
    <2> QED
      BY <1>1, <1>6, <2>1 DEF Repeat, TypeInv, TypeOK, Phased, Active
  <1>7. CASE Commit
    <2>1. upper \in Checkpoints /\ Canonical(upper) = upper
      BY <1>7, CheckpointKept DEF Commit, TypeInv, TypeOK, Phased, Active
    <2>2. slice' \in [Keys -> [Instants -> 0 .. 1]]
      BY <1>7 DEF Commit, Nothing
    <2>3. last # None
      BY <1>7 DEF Commit, TypeInv, Phased
    <2> QED
      BY <1>1, <1>7, <2>1, <2>2, <2>3, CheckpointsAre
         DEF Commit, TypeInv, TypeOK, Phased, Active
  <1> QED
    BY <1>2, <1>3, <1>4, <1>5, <1>6, <1>7

LEMMA TypeNext == ASSUME TypeInv, [Next]_vars PROVE TypeInv'
  <1>1. CASE UNCHANGED vars
    BY <1>1 DEF vars, TypeInv, TypeOK, Phased, Rows, Active
  <1> QED
    BY <1>1, TypeWrites, TypeCaptures, TypeApplies DEF Next

LEMMA TypeAlways == Spec => []TypeInv
  BY TypeInit, TypeNext, PTL DEF Spec

\* Whatever the family, checkpoints are whole microseconds and exceed the clock by
\* no more than the rounding to six digits.
THEOREM WatermarksTypeCorrect == Spec => []TypeOK
  <1>1. TypeInv => TypeOK
    BY DEF TypeInv
  <1> QED
    BY <1>1, TypeAlways, PTL

-----------------------------------------------------------------------------
(* No copies.  For a column of at most six digits, or one cast to six.      *)

\* The rows of the interval in work, for the source and for Delta alike.
Between(a) == last < Seen(a) /\ Seen(a) <= upper

\* A checkpoint's literal is the checkpoint.
Placed ==
    /\ last # None => Literal(last) = last
    /\ upper # None => Literal(upper) = upper

\* DELETE leaves nothing of what the append adds.
Cleared == phase = "deleted" => \A k \in Keys, a \in Instants : Between(a) => target[k][a] = 0

SliceBetween ==
    phase \in {"read", "deleted"} =>
       \A k \in Keys, a \in Instants : slice[k][a] = 1 => Between(a)

Sharp == family # "TIMESTAMP9"

CopiesInv == Placed /\ NoCopies /\ Cleared /\ SliceBetween

LEMMA FamilyKept ==
  ASSUME [Next]_vars
  PROVE  /\ family' = family
         /\ \A i : Seen(i)' = Seen(i) /\ Literal(i)' = Literal(i)
  <1>1. family' = family
    BY DEF Next, vars, Write, Delete, Tick, Load, Capture, Read, DeleteInterval, AppendSlice,
           Merge, Repeat, Commit
  <1> QED
    BY <1>1 DEF Seen, Compared, SixDigits, Stamp, Literal

\* MAX as the source captures it is the checkpoint NB11a stores and the one NB10
\* finds in the target.
LEMMA CapturedIs ==
  ASSUME TypeInv, Sharp, Rows # {}
  PROVE  /\ Canonical(HighestNow) = HighestNow
         /\ Literal(HighestNow) = HighestNow
         /\ Canonical(Greatest({InDelta(Stamp(source[k])) : k \in Rows})) = HighestNow
  <1>1. PICK k \in Rows : HighestNow = Seen(source[k])
    BY HighestIs
  <1>2. \A j \in Rows : InDelta(Stamp(source[j])) = Compared(Stamp(source[j]))
    BY RowsAre, SamePlace DEF Sharp, Seen
  <1>3. {InDelta(Stamp(source[j])) : j \in Rows} = {Compared(Stamp(source[j])) : j \in Rows}
    BY <1>2
  <1>4. Canonical(HighestNow) = HighestNow /\ Literal(HighestNow) = HighestNow
    BY <1>1, RowsAre, SamePlace DEF Sharp
  <1> QED
    BY <1>3, <1>4 DEF HighestNow

LEMMA LiteralOfNone ==
  Literal(0) = 0
  <1>1. Coarse \in Nat \ {0} /\ 0 \in Nat
    BY TickIs
  <1>2. Floor(0, Coarse) \in Nat /\ Floor(0, Coarse) <= 0
    BY <1>1, FloorIs
  <1>3. Floor(0, Coarse) = 0
    BY <1>2
  <1> QED
    BY <1>3 DEF Literal

LEMMA PlacedNext ==
  ASSUME TypeInv, Sharp, Placed, [Next]_vars
  PROVE  Placed'
  <1>0. \A w : Literal(w)' = Literal(w)
    BY FamilyKept
  <1>1. CASE Load
    <2>1. ASSUME Rows = {} PROVE Literal(last') = last'
      BY <1>1, <2>1, LiteralOfNone DEF Load
    <2>2. ASSUME Rows # {} PROVE Literal(last') = last'
      <3>1. last' = HighestNow
        BY <1>1, <2>2, CapturedIs DEF Load
      <3> QED
        BY <2>2, <3>1, CapturedIs
    <2>4. Literal(last') = last'
      BY <2>1, <2>2
    <2>3. upper' = None
      BY <1>1 DEF Load, TypeInv, Phased, Active
    <2> QED
      BY <1>0, <2>3, <2>4 DEF Placed
  <1>2. CASE Capture
    <2>1. upper' \in {HighestNow, upper} /\ last' = last /\ Literal(HighestNow) = HighestNow
      BY <1>2, CapturedIs DEF Capture
    <2> QED
      BY <1>0, <2>1 DEF Placed
  <1>3. CASE Commit
    <2>1. upper \in Checkpoints /\ last' = upper /\ upper' = None /\ upper # None
      BY <1>3, CheckpointKept DEF Commit, TypeInv, TypeOK, Phased, Active
    <2> QED
      BY <1>0, <2>1 DEF Placed
  <1>4. CASE ~(Load \/ Capture \/ Commit)
    <2>1. last' = last /\ upper' = upper
      BY <1>4 DEF Next, vars, Write, Delete, Tick, Read, DeleteInterval, AppendSlice, Merge, Repeat
    <2> QED
      BY <1>0, <2>1 DEF Placed
  <1> QED
    BY <1>1, <1>2, <1>3, <1>4

LEMMA ActiveHas ==
  ASSUME TypeInv, phase \in Active
  PROVE  /\ last # None /\ upper # None
         /\ last \in Nat /\ upper \in Checkpoints /\ upper \in Nat
  <1>1. last # None /\ upper # None
    BY DEF TypeInv, Phased, Active
  <1>2. last \in {0} \cup Checkpoints /\ upper \in Checkpoints
    BY <1>1 DEF TypeInv, TypeOK
  <1> QED
    BY <1>1, <1>2, CheckpointsAre

\* What NB11b reads.
LEMMA SelectedIs ==
  ASSUME TypeInv, Placed, phase \in Active
  PROVE  \A k : k \in Selected <=> k \in Rows /\ Between(source[k])
  <1>1. Literal(last) = last /\ Literal(upper) = upper
    BY ActiveHas DEF Placed
  <1>2. last \in Int /\ upper \in Int
    BY ActiveHas
  <1>3. \A k \in Rows : Seen(source[k]) \in Int
    BY RowsAre, SeenIs
  <1> QED
    BY <1>1, <1>2, <1>3 DEF Selected, Between, Seen

\* What DELETE finds in Delta.
LEMMA DeltaIntervalIs ==
  ASSUME TypeInv, Sharp, phase \in Active, NEW a \in Instants
  PROVE  (InDelta(Stamp(a)) > last /\ InDelta(Stamp(a)) <= upper) <=> Between(a)
  <1>1. a \in Nat /\ family \in Families
    BY InstantsAre DEF TypeInv, TypeOK
  <1>2. last \in Int /\ upper \in Int
    BY ActiveHas
  <1>3. InDelta(Stamp(a)) = Seen(a) /\ Seen(a) \in Int
    BY <1>1, SamePlace, SeenIs DEF Sharp
  <1> QED
    BY <1>2, <1>3 DEF Between

LEMMA CopiesNext ==
  ASSUME TypeInv, Sharp, CopiesInv, [Next]_vars
  PROVE  CopiesInv'
  <1>0. Placed' /\ \A i : Seen(i)' = Seen(i)
    BY PlacedNext, FamilyKept DEF CopiesInv
  <1>T. \A k \in Keys, a \in Instants : target[k][a] \in Nat /\ slice[k][a] \in 0 .. 1
    BY DEF TypeInv, TypeOK
  <1>1. CASE Load
    <2>1. NoCopies' /\ phase' = "idle"
      BY <1>1 DEF Load, NoCopies, Versions
    <2> QED
      BY <1>0, <2>1 DEF CopiesInv, Cleared, SliceBetween
  <1>2. CASE Capture
    <2>1. target' = target /\ phase' \in {"idle", "queued"}
      BY <1>2 DEF Capture
    <2> QED
      BY <1>0, <2>1 DEF CopiesInv, NoCopies, Cleared, SliceBetween
  <1>3. CASE Read
    <2>1. /\ target' = target /\ last' = last /\ upper' = upper /\ phase' = "read"
          /\ phase \in Active /\ slice' = Versions(Selected)
      BY <1>3 DEF Read, Active
    <2>2. \A k \in Keys, a \in Instants : slice'[k][a] = 1 => Between(a)
      <3>1. \A k \in Keys, a \in Instants : slice'[k][a] = 1 => k \in Selected /\ source[k] = a
        BY <2>1 DEF Versions
      <3> QED
        BY <2>1, <3>1, SelectedIs DEF CopiesInv
    <2> QED
      BY <1>0, <2>1, <2>2 DEF CopiesInv, NoCopies, Cleared, SliceBetween, Between
  <1>4. CASE DeleteInterval
    <2>1. /\ last' = last /\ upper' = upper /\ slice' = slice
          /\ phase = "read" /\ phase' = "deleted" /\ phase \in Active
      BY <1>4 DEF DeleteInterval, Active
    <2>2. \A k \in Keys, a \in Instants :
             target'[k][a] = IF Between(a) THEN 0 ELSE target[k][a]
      BY <1>4, <2>1, DeltaIntervalIs DEF DeleteInterval
    <2> QED
      BY <1>0, <1>T, <2>1, <2>2 DEF CopiesInv, NoCopies, Cleared, SliceBetween, Between
  <1>5. CASE AppendSlice
    <2>1. phase = "deleted" /\ phase' = "applied"
      BY <1>5 DEF AppendSlice
    <2>2. \A k \in Keys, a \in Instants : target'[k][a] = target[k][a] + slice[k][a]
      BY <1>5 DEF AppendSlice
    <2>3. NoCopies'
      BY <1>T, <2>1, <2>2 DEF CopiesInv, NoCopies, Cleared, SliceBetween
    <2> QED
      BY <1>0, <2>1, <2>3 DEF CopiesInv, Cleared, SliceBetween
  <1>6. CASE Merge
    <2>1. phase' = "applied"
      BY <1>6 DEF Merge
    <2>2. \A k \in Keys : target'[k] = target[k] \/ target'[k] = slice[k]
      BY <1>6 DEF Merge
    <2>3. NoCopies'
      BY <1>T, <2>2 DEF CopiesInv, NoCopies
    <2> QED
      BY <1>0, <2>1, <2>3 DEF CopiesInv, Cleared, SliceBetween
  <1>7. CASE Repeat \/ Commit
    <2>1. target' = target /\ phase' \in {"queued", "idle"}
      BY <1>7 DEF Repeat, Commit
    <2> QED
      BY <1>0, <2>1 DEF CopiesInv, NoCopies, Cleared, SliceBetween
  <1>8. CASE (\E k \in Keys : Write(k) \/ Delete(k)) \/ Tick \/ UNCHANGED vars
    <2>1. /\ target' = target /\ phase' = phase /\ last' = last /\ upper' = upper
          /\ slice' = slice
      BY <1>8 DEF Write, Delete, Tick, vars
    <2> QED
      BY <1>0, <2>1 DEF CopiesInv, NoCopies, Cleared, SliceBetween, Between
  <1> QED
    BY <1>1, <1>2, <1>3, <1>4, <1>5, <1>6, <1>7, <1>8 DEF Next

LEMMA CopiesInit == ASSUME Init PROVE CopiesInv
  BY DEF Init, CopiesInv, Placed, NoCopies, Cleared, SliceBetween, Nothing

\* No version of a row is ever in the target twice, whatever is repeated, and
\* whichever rows get the stamp of a maximum after it was captured.
THEOREM NeverTwice ==
  ASSUME "TIMESTAMP9" \notin Families
  PROVE  Spec => []NoCopies
  <1>1. TypeInv => Sharp
    BY DEF TypeInv, TypeOK, Sharp
  <1>2. Init => CopiesInv
    BY CopiesInit
  <1>3. TypeInv /\ CopiesInv /\ [Next]_vars => CopiesInv'
    BY <1>1, CopiesNext
  <1>4. CopiesInv => NoCopies
    BY DEF CopiesInv
  <1> QED
    BY <1>2, <1>3, <1>4, TypeAlways, PTL DEF Spec

-----------------------------------------------------------------------------
(* Nothing skipped.  For rows that never get the stamp of a captured maximum. *)

\* The greatest stamp captured is the checkpoint, or the end of the interval.
Cursor ==
    /\ phase = "idle" => highest = last
    /\ phase \in Active => highest = upper /\ last < upper
    /\ captured <= now

\* It divides the rows into those that were there then and those written since.
Divided == phase # "new" => \A k \in Rows : source[k] < captured <=> Seen(source[k]) <= highest

Settled == last # None => \A k \in Rows : Seen(source[k]) <= last => target[k][source[k]] = 1

SliceComplete ==
    phase \in {"read", "deleted"} =>
       \A k \in Rows : Between(source[k]) => slice[k][source[k]] = 1

\* A row read may be written again, later.
SliceOld ==
    phase \in {"read", "deleted"} =>
       \A k \in Keys, a \in Instants : slice[k][a] = 1 => a < now /\ (k \in Rows => a <= source[k])

Complete == phase = "applied" => \A k \in Rows : Between(source[k]) => target[k][source[k]] = 1

CursorInv == Cursor /\ Divided /\ Settled /\ SliceComplete /\ SliceOld /\ Complete

LEMMA CursorIs ==
  ASSUME TypeInv, CursorInv, phase # "new"
  PROVE  last \in Nat /\ highest \in Nat /\ last <= highest
  <1>1. highest \in Nat
    <2>1. MaxInstant + Micro \div 2 \in Nat
      BY TickIs, WatermarksAssumption
    <2> QED
      BY <2>1 DEF TypeInv, TypeOK
  <1>2. CASE phase = "idle"
    BY <1>1, <1>2 DEF CursorInv, Cursor
  <1>3. CASE phase \in Active
    BY <1>1, <1>3, ActiveHas DEF CursorInv, Cursor
  <1> QED
    BY <1>2, <1>3 DEF TypeInv, TypeOK, Active

LEMMA SeenKept ==
  ASSUME family' = family, NEW k
  PROVE  Seen(source[k])' = Seen(source'[k])
  BY DEF Seen, Compared, SixDigits, Stamp

LEMMA BetweenKept ==
  ASSUME family' = family, last' = last, upper' = upper, NEW k
  PROVE  Between(source[k])' <=> Between(source'[k])
  BY DEF Between, Seen, Compared, SixDigits, Stamp

\* The source changes: a row gets a stamp above everything captured, or goes.
LEMMA CursorWrites ==
  ASSUME TypeInv, CursorInv, ~Ties, family' = family,
         (\E k \in Keys : Write(k) \/ Delete(k)) \/ Tick \/ UNCHANGED vars
  PROVE  CursorInv'
  <1>0. /\ target' = target /\ phase' = phase /\ last' = last /\ upper' = upper
        /\ slice' = slice /\ captured' = captured /\ highest' = highest
    BY DEF Write, Delete, Tick, vars
  <1>1. now \in Nat /\ captured \in Nat /\ Instants \subseteq Nat
    BY InstantsAre DEF TypeInv, TypeOK
  <1>2. now' \in Nat /\ now <= now'
    BY <1>1 DEF Write, Delete, Tick, vars
  <1>3. ASSUME NEW k \in Rows'
        PROVE  \/ k \in Rows /\ source'[k] = source[k]
               \/ source'[k] = now /\ Seen(now) > highest
    BY <1>3 DEF Write, Delete, Tick, vars, Rows, Seen, TypeInv, TypeOK
  <1>4. phase # "new" => last \in Nat /\ highest \in Nat /\ last <= highest
    BY CursorIs
  <1>5. Seen(now) \in Nat
    BY <1>1, SeenIs DEF TypeInv, TypeOK
  <1>6. phase \in Active => upper = highest
    BY DEF CursorInv, Cursor
  <1>7. Cursor'
    BY <1>0, <1>1, <1>2 DEF CursorInv, Cursor
  <1>8. Divided'
    <2> SUFFICES ASSUME phase # "new", NEW k \in Rows'
                 PROVE  source'[k] < captured <=> Seen(source'[k]) <= highest
      BY <1>0, SeenKept DEF Divided
    <2>1. CASE k \in Rows /\ source'[k] = source[k]
      BY <2>1 DEF CursorInv, Divided
    <2>2. CASE source'[k] = now /\ Seen(now) > highest
      BY <1>1, <1>4, <1>5, <2>2 DEF CursorInv, Cursor
    <2> QED
      BY <1>3, <2>1, <2>2
  <1>9. Settled'
    <2> SUFFICES ASSUME last # None, NEW k \in Rows', Seen(source'[k]) <= last
                 PROVE  target[k][source'[k]] = 1
      BY <1>0, SeenKept DEF Settled
    <2>1. ~(source'[k] = now /\ Seen(now) > highest)
      BY <1>4, <1>5 DEF TypeInv, Phased
    <2> QED
      BY <1>3, <2>1 DEF CursorInv, Settled
  <1>10. ASSUME phase \in Active, NEW k \in Rows', Between(source'[k])
         PROVE  k \in Rows /\ source'[k] = source[k]
    <2>1. upper = highest /\ highest \in Nat
      BY <1>4, <1>6, <1>10 DEF Active
    <2>2. ~(source'[k] = now /\ Seen(now) > highest)
      BY <1>5, <1>10, <2>1 DEF Between
    <2> QED
      BY <1>3, <2>2
  <1>11. \A k : Between(source[k])' <=> Between(source'[k])
    BY <1>0, BetweenKept
  <1>12. SliceComplete' /\ Complete'
    BY <1>0, <1>10, <1>11 DEF CursorInv, SliceComplete, Complete, Active
  <1>13. SliceOld'
    <2> SUFFICES ASSUME phase \in {"read", "deleted"},
                        NEW k \in Keys, NEW a \in Instants, slice[k][a] = 1
                 PROVE  a < now' /\ (k \in Rows' => a <= source'[k])
      BY <1>0 DEF SliceOld
    <2>1. a \in Nat /\ a < now /\ (k \in Rows => a <= source[k])
      BY <1>1 DEF CursorInv, SliceOld
    <2> QED
      BY <1>1, <1>2, <1>3, <2>1
  <1> QED
    BY <1>7, <1>8, <1>9, <1>12, <1>13 DEF CursorInv

\* MAX, or a full load, sees every row.
LEMMA CursorCaptures ==
  ASSUME TypeInv, Sharp, CursorInv, family' = family, Load \/ Capture
  PROVE  CursorInv'
  <1>0. source' = source /\ now' = now /\ captured' = now /\ Rows' = Rows
    BY DEF Load, Capture, Rows
  <1>1. phase' \in {"idle", "queued"} /\ now \in Nat
    BY InstantsAre DEF Load, Capture, TypeInv, TypeOK
  <1>2. Rows # {} => /\ HighestNow \in Nat
                     /\ \A k \in Rows : Seen(source[k]) <= HighestNow
    BY HighestIs
  <1>3. SliceComplete' /\ SliceOld' /\ Complete'
    BY <1>1 DEF SliceComplete, SliceOld, Complete
  <1>4. ASSUME Rows # {} => HighestNow <= highest', highest' \in Nat
        PROVE  Divided'
    <2> SUFFICES ASSUME NEW k \in Rows
                 PROVE  source[k] < now /\ Seen(source[k]) <= highest'
      BY <1>0, SeenKept DEF Divided
    <2>1. Seen(source[k]) \in Nat /\ source[k] < now
      BY RowsAre, SeenIs
    <2> QED
      BY <1>2, <1>4, <2>1
  <1>5. CASE Load
    <2>1. CASE Rows = {}
      <3>1. last' = 0 /\ highest' = 0 /\ phase' = "idle"
        BY <1>5, <2>1 DEF Load
      <3>2. Divided'
        BY <1>4, <2>1, <3>1
      <3> QED
        BY <1>0, <1>1, <1>3, <2>1, <3>1, <3>2 DEF CursorInv, Cursor, Settled, Active
    <2>2. CASE Rows # {}
      <3>1. last' = HighestNow /\ highest' = HighestNow /\ phase' = "idle"
        BY <1>5, <2>2, CapturedIs DEF Load
      <3>2. Divided'
        BY <1>2, <1>4, <2>2, <3>1
      <3>3. Settled'
        <4> SUFFICES ASSUME NEW k \in Rows PROVE target'[k][source[k]] = 1
          BY <1>0 DEF Settled
        <4> QED
          BY <1>5, RowsAre DEF Load, Versions
      <3> QED
        BY <1>0, <1>1, <1>3, <3>1, <3>2, <3>3 DEF CursorInv, Cursor, Active
    <2> QED
      BY <2>1, <2>2
  <1>6. CASE Capture
    <2>1. phase = "idle" /\ Rows # {} /\ target' = target /\ last' = last
      BY <1>6 DEF Capture
    <2>2. last \in Nat /\ highest = last
      BY <2>1, CursorIs DEF CursorInv, Cursor
    <2>3. Canonical(HighestNow) = HighestNow
      BY <2>1, CapturedIs
    <2>4. Settled'
      BY <1>0, <2>1, SeenKept DEF CursorInv, Settled
    <2>5. CASE HighestNow > last
      <3>1. highest' = HighestNow /\ upper' = HighestNow /\ phase' = "queued"
        BY <1>6, <2>2, <2>3, <2>5 DEF Capture
      <3>2. Divided'
        BY <1>2, <1>4, <2>1, <3>1
      <3> QED
        BY <1>0, <1>1, <1>2, <1>3, <2>1, <2>2, <2>4, <2>5, <3>1, <3>2 DEF CursorInv, Cursor
    <2>6. CASE ~(HighestNow > last)
      <3>1. highest' = highest /\ phase' = "idle"
        BY <1>6, <2>1, <2>2, <2>3, <2>6 DEF Capture
      <3>2. Divided'
        BY <1>2, <1>4, <2>1, <2>2, <2>6, <3>1
      <3> QED
        BY <1>0, <1>1, <1>3, <2>1, <2>2, <2>4, <3>1, <3>2 DEF CursorInv, Cursor, Active
    <2> QED
      BY <2>5, <2>6
  <1> QED
    BY <1>5, <1>6

\* The interval is read, deleted, appended or merged, repeated and committed.
LEMMA CursorApplies ==
  ASSUME TypeInv, Sharp, CopiesInv, CursorInv, family' = family,
         Read \/ DeleteInterval \/ AppendSlice \/ Merge \/ Repeat
  PROVE  CursorInv'
  <1>0. /\ source' = source /\ now' = now /\ captured' = captured /\ Rows' = Rows
        /\ last' = last /\ upper' = upper /\ highest' = highest
        /\ phase \in Active /\ phase' \in Active
    BY DEF Read, DeleteInterval, AppendSlice, Merge, Repeat, Rows, Active
  <1>1. last \in Nat /\ upper \in Nat
    BY <1>0, ActiveHas
  <1>2. \A k : Between(source[k])' <=> Between(source[k])
    BY <1>0, BetweenKept
  <1>3. Cursor' /\ Divided'
    BY <1>0, SeenKept DEF CursorInv, Cursor, Divided, Active
  <1>4. \A k \in Rows : k \in Keys /\ source[k] \in Instants /\ source[k] < now
    BY RowsAre
  <1>T. \A k \in Keys, a \in Instants : target[k][a] \in Nat /\ slice[k][a] \in 0 .. 1
    BY DEF TypeInv, TypeOK
  <1>5. ASSUME NEW k \in Rows, Seen(source[k]) <= last
        PROVE  ~Between(source[k])
    <2>1. Seen(source[k]) \in Nat
      BY RowsAre, SeenIs
    <2> QED
      BY <1>1, <1>5, <2>1 DEF Between
  <1>6. ASSUME \A k \in Rows : Seen(source[k]) <= last /\ target[k][source[k]] = 1
                                 => target'[k][source[k]] = 1
        PROVE  Settled'
    BY <1>0, <1>6, SeenKept DEF CursorInv, Settled
  <1>7. CASE Read
    <2>1. phase' = "read" /\ target' = target /\ slice' = Versions(Selected)
      BY <1>7 DEF Read
    <2>2. SliceComplete'
      <3> SUFFICES ASSUME NEW k \in Rows, Between(source[k])
                   PROVE  slice'[k][source[k]] = 1
        BY <1>0, <1>2 DEF SliceComplete
      <3>1. k \in Selected
        BY <1>0, SelectedIs DEF CopiesInv
      <3> QED
        BY <1>4, <2>1, <3>1 DEF Versions
    <2>3. SliceOld'
      <3> SUFFICES ASSUME NEW k \in Keys, NEW a \in Instants, slice'[k][a] = 1
                   PROVE  a < now /\ (k \in Rows => a <= source[k])
        BY <1>0 DEF SliceOld
      <3>1. k \in Selected /\ source[k] = a
        BY <2>1 DEF Versions
      <3>2. k \in Rows
        BY <3>1 DEF Selected
      <3> QED
        BY <3>1, <3>2, RowsAre
    <2>4. Complete' /\ Settled'
      BY <1>6, <2>1 DEF Complete
    <2> QED
      BY <1>3, <2>2, <2>3, <2>4 DEF CursorInv
  <1>8. CASE DeleteInterval
    <2>1. slice' = slice /\ phase = "read" /\ phase' = "deleted"
      BY <1>8 DEF DeleteInterval
    <2>2. \A k \in Keys, a \in Instants :
             target'[k][a] = IF Between(a) THEN 0 ELSE target[k][a]
      BY <1>0, <1>8, DeltaIntervalIs DEF DeleteInterval
    <2>3. Settled'
      BY <1>4, <1>5, <1>6, <2>2
    <2>4. SliceComplete' /\ SliceOld' /\ Complete'
      BY <1>0, <1>2, <2>1 DEF CursorInv, SliceComplete, SliceOld, Complete
    <2> QED
      BY <1>3, <2>3, <2>4 DEF CursorInv
  <1>9. CASE AppendSlice
    <2>1. phase = "deleted" /\ phase' = "applied"
      BY <1>9 DEF AppendSlice
    <2>2. \A k \in Keys, a \in Instants : target'[k][a] = target[k][a] + slice[k][a]
      BY <1>9 DEF AppendSlice
    <2>3. Settled'
      <3>1. ASSUME NEW k \in Rows, Seen(source[k]) <= last, target[k][source[k]] = 1
            PROVE  target'[k][source[k]] = 1
        <4>1. slice[k][source[k]] = 0
          BY <1>4, <1>5, <1>T, <2>1, <3>1 DEF CopiesInv, SliceBetween
        <4> QED
          BY <1>4, <2>2, <3>1, <4>1
      <3> QED
        BY <1>6, <3>1
    <2>4. Complete'
      <3> SUFFICES ASSUME NEW k \in Rows, Between(source[k])
                   PROVE  target'[k][source[k]] = 1
        BY <1>0, <1>2 DEF Complete
      <3>1. target[k][source[k]] = 0
        BY <1>4, <2>1 DEF CopiesInv, Cleared
      <3>2. slice[k][source[k]] = 1
        BY <2>1 DEF CursorInv, SliceComplete
      <3> QED
        BY <1>4, <2>2, <3>1, <3>2
    <2>5. SliceComplete' /\ SliceOld'
      BY <2>1 DEF SliceComplete, SliceOld
    <2> QED
      BY <1>3, <2>3, <2>4, <2>5 DEF CursorInv
  <1>10. CASE Merge
    <2>1. phase = "read" /\ phase' = "applied"
      BY <1>10 DEF Merge
    <2>2. \A k \in Keys :
             target'[k] = IF slice[k] = Nothing[k] THEN target[k] ELSE slice[k]
      BY <1>10 DEF Merge
    <2>3. ASSUME NEW k \in Keys, \A a \in Instants : slice[k][a] = 0
          PROVE  slice[k] = Nothing[k]
      <3>1. slice[k] \in [Instants -> 0 .. 1]
        BY DEF TypeInv, TypeOK
      <3> QED
        BY <2>3, <3>1 DEF Nothing
    <2>4. ASSUME NEW k \in Keys, NEW a \in Instants, slice[k][a] = 1
          PROVE  slice[k] # Nothing[k]
      BY <2>4 DEF Nothing
    <2>5. Settled'
      <3>1. ASSUME NEW k \in Rows, Seen(source[k]) <= last, target[k][source[k]] = 1,
                   NEW a \in Instants, slice[k][a] = 1
            PROVE  FALSE
        <4>1. a <= source[k] /\ Between(a)
          BY <1>4, <2>1, <3>1 DEF CopiesInv, SliceBetween, CursorInv, SliceOld
        <4>2. a \in Nat /\ source[k] \in Nat /\ family \in Families
          BY <1>4, InstantsAre DEF TypeInv, TypeOK
        <4>3. Seen(a) <= Seen(source[k]) /\ Seen(a) \in Nat /\ Seen(source[k]) \in Nat
          BY <4>1, <4>2, SeenIs
        <4> QED
          BY <1>1, <3>1, <4>1, <4>3 DEF Between
      <3>2. ASSUME NEW k \in Rows, Seen(source[k]) <= last, target[k][source[k]] = 1
            PROVE  target'[k][source[k]] = 1
        <4>1. \A a \in Instants : slice[k][a] = 0
          BY <1>4, <1>T, <3>1, <3>2
        <4>2. slice[k] = Nothing[k]
          BY <1>4, <2>3, <4>1
        <4> QED
          BY <1>4, <2>2, <3>2, <4>2
      <3> QED
        BY <1>6, <3>2
    <2>6. Complete'
      <3> SUFFICES ASSUME NEW k \in Rows, Between(source[k])
                   PROVE  target'[k][source[k]] = 1
        BY <1>0, <1>2 DEF Complete
      <3>1. slice[k][source[k]] = 1
        BY <2>1 DEF CursorInv, SliceComplete
      <3> QED
        BY <1>4, <2>2, <2>4, <3>1
    <2>7. SliceComplete' /\ SliceOld'
      BY <2>1 DEF SliceComplete, SliceOld
    <2> QED
      BY <1>3, <2>5, <2>6, <2>7 DEF CursorInv
  <1>11. CASE Repeat
    <2>1. phase' = "queued" /\ target' = target
      BY <1>11 DEF Repeat
    <2>2. SliceComplete' /\ SliceOld' /\ Complete' /\ Settled'
      BY <1>6, <2>1 DEF SliceComplete, SliceOld, Complete
    <2> QED
      BY <1>3, <2>2 DEF CursorInv
  <1> QED
    BY <1>7, <1>8, <1>9, <1>10, <1>11

LEMMA CursorCommits ==
  ASSUME TypeInv, CursorInv, family' = family, Commit
  PROVE  CursorInv'
  <1>0. /\ source' = source /\ now' = now /\ captured' = captured /\ Rows' = Rows
        /\ target' = target /\ highest' = highest
        /\ phase = "applied" /\ phase \in Active /\ phase' = "idle"
    BY DEF Commit, Rows, Active
  <1>1. last' = upper /\ last \in Nat /\ upper \in Nat
    BY <1>0, ActiveHas, CheckpointKept DEF Commit
  <1>2. Cursor'
    BY <1>0, <1>1 DEF CursorInv, Cursor, Active
  <1>3. Divided'
    BY <1>0, SeenKept DEF CursorInv, Divided
  <1>4. Settled'
    <2> SUFFICES ASSUME NEW k \in Rows, Seen(source[k]) <= upper
                 PROVE  target[k][source[k]] = 1
      BY <1>0, <1>1, SeenKept DEF Settled
    <2>1. Seen(source[k]) \in Nat
      BY RowsAre, SeenIs
    <2>2. CASE Seen(source[k]) <= last
      BY <1>0, <2>2, ActiveHas DEF CursorInv, Settled
    <2>3. CASE Seen(source[k]) > last
      BY <1>0, <1>1, <2>1, <2>3 DEF CursorInv, Complete, Between
    <2> QED
      BY <1>1, <2>1, <2>2, <2>3
  <1>5. SliceComplete' /\ SliceOld' /\ Complete'
    BY <1>0 DEF SliceComplete, SliceOld, Complete
  <1> QED
    BY <1>2, <1>3, <1>4, <1>5 DEF CursorInv

LEMMA CursorNext ==
  ASSUME TypeInv, Sharp, CopiesInv, CursorInv, ~Ties, [Next]_vars
  PROVE  CursorInv'
  <1>1. family' = family
    BY FamilyKept
  <1>2. CASE (\E k \in Keys : Write(k) \/ Delete(k)) \/ Tick \/ UNCHANGED vars
    BY <1>1, <1>2, CursorWrites
  <1>3. CASE Load \/ Capture
    BY <1>1, <1>3, CursorCaptures
  <1>4. CASE Read \/ DeleteInterval \/ AppendSlice \/ Merge \/ Repeat
    BY <1>1, <1>4, CursorApplies
  <1>5. CASE Commit
    BY <1>1, <1>5, CursorCommits
  <1> QED
    BY <1>2, <1>3, <1>4, <1>5 DEF Next

LEMMA CursorInit == ASSUME Init PROVE CursorInv
  <1>1. Rows = {}
    BY DEF Init, Rows
  <1> QED
    BY <1>1, TickIs DEF Init, CursorInv, Cursor, Divided, Settled, SliceComplete, SliceOld,
       Complete, Active

LEMMA CursorAlways ==
  ASSUME "TIMESTAMP9" \notin Families, ~Ties
  PROVE  Spec => [](TypeInv /\ CopiesInv /\ CursorInv)
  <1>1. TypeInv => Sharp
    BY DEF TypeInv, TypeOK, Sharp
  <1>2. Init => TypeInv /\ CopiesInv /\ CursorInv
    BY TypeInit, CopiesInit, CursorInit
  <1>3. TypeInv /\ CopiesInv /\ CursorInv /\ [Next]_vars
          => (TypeInv /\ CopiesInv /\ CursorInv)'
    BY <1>1, TypeNext, CopiesNext, CursorNext
  <1> QED
    BY <1>2, <1>3, PTL DEF Spec

\* No row is left behind by the precision a checkpoint is stored in.
THEOREM NeverSkipped ==
  ASSUME "TIMESTAMP9" \notin Families, ~Ties
  PROVE  Spec => []NothingSkipped
  <1>1. TypeInv /\ CopiesInv /\ CursorInv => NothingSkipped
    <2> SUFFICES ASSUME TypeInv, CopiesInv, CursorInv, last # None,
                        NEW k \in Rows, Seen(source[k]) <= Literal(last)
                 PROVE  target[k][source[k]] > 0
      BY DEF NothingSkipped, Seen
    <2> QED
      BY DEF CopiesInv, Placed, CursorInv, Settled
  <1> QED
    BY <1>1, CursorAlways, PTL

\* What a run is about to commit is all there was when it captured MAX, once.
THEOREM RunsAreComplete ==
  ASSUME "TIMESTAMP9" \notin Families, ~Ties
  PROVE  Spec => []RunIsComplete
  <1>1. TypeInv /\ CopiesInv /\ CursorInv => RunIsComplete
    <2> SUFFICES ASSUME TypeInv, CopiesInv, CursorInv, phase = "applied",
                        NEW k \in Rows, source[k] < captured
                 PROVE  target[k][source[k]] = 1
      BY DEF RunIsComplete
    <2>1. phase \in Active
      BY DEF Active
    <2>2. last \in Nat /\ upper \in Nat /\ highest = upper /\ last # None
      BY <2>1, ActiveHas DEF CursorInv, Cursor
    <2>3. Seen(source[k]) <= upper /\ Seen(source[k]) \in Nat
      BY <2>2, RowsAre, SeenIs DEF CursorInv, Divided
    <2>4. CASE Seen(source[k]) <= last
      BY <2>2, <2>4 DEF CursorInv, Settled
    <2>5. CASE Seen(source[k]) > last
      BY <2>2, <2>3, <2>5 DEF CursorInv, Complete, Between
    <2> QED
      BY <2>2, <2>3, <2>4, <2>5
  <1> QED
    BY <1>1, CursorAlways, PTL

=============================================================================
