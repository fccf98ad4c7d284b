--------------------------- MODULE BronzeJobProofs ---------------------------
(***************************************************************************)
(* Proofs about BronzeJob, for every entry of the registry, any number of  *)
(* batches, and any topic whose records get the offsets one after another. *)
(***************************************************************************)
EXTENDS BronzeJob, FiniteSetTheorems, TLAPS

-----------------------------------------------------------------------------
(* What any two passes over the same files have in common.                 *)

LEMMA TimesAreNumbers ==
  ASSUME NEW t \in Topics, NEW x \in Records
  PROVE  EventTime(t, x) \in Nat /\ EventTime(t, x) \in {NoTime} \cup 1 .. MaxTime + Skew
BY BronzeAssumption DEF EventTime, Records, Times, NoTime

(* The table has a partition for every row. *)
LEMMA DatesArePartitions ==
  ASSUME NEW t \in Topics, NEW x \in Records
  PROVE  EventDate(t, x) \in Days \cup {NoDay}
BY TimesAreNumbers DEF EventDate, Days

(* What comes first in one pass is not before what comes first in another. *)
LEMMA FirstsTie ==
  ASSUME NEW t \in Topics, NEW X \in SUBSET Records,
         NEW S1 \in Deduplicated(t, X), NEW S2 \in Deduplicated(t, X), NEW x \in S2
  PROVE  \E y \in S1 : SameKey(t, x, y) /\ ~Before(t, x, y) /\ ~Before(t, y, x)
<1>1. x \in X /\ CanBeFirst(t, X, x)
  BY DEF Deduplicated
<1>2. PICK y \in S1 : SameKey(t, x, y)
  BY <1>1 DEF Deduplicated
<1>3. y \in X /\ CanBeFirst(t, X, y)
  BY DEF Deduplicated
<1>4. SameKey(t, y, x)
  BY <1>2 DEF SameKey
<1> QED
  BY <1>1, <1>2, <1>3, <1>4 DEF CanBeFirst

(* Without tombstones the gate reads what the deduplication decides by. *)
LEMMA TiedRowsPassAlike ==
  ASSUME NEW t \in Topics, ~t.tombstone, NEW x \in Records, NEW y \in Records,
         SameKey(t, x, y), ~Before(t, x, y), ~Before(t, y, x), Passes(t, y)
  PROVE  Passes(t, x)
<1>1. t.dedupe_key \in Seq(Columns) /\ t.dedupe_key # << >>
  BY BronzeAssumption DEF IsTopic
<1>2. Head(t.dedupe_key) \in DedupeColumns(t)
  <2>1. 1 \in DOMAIN t.dedupe_key /\ Head(t.dedupe_key) = t.dedupe_key[1]
    BY <1>1
  <2> QED
    BY <2>1 DEF DedupeColumns
<1>3. x.col[GateColumn(t)] = y.col[GateColumn(t)]
  BY <1>2 DEF SameKey, GateColumn
<1>4. EventTime(t, x) = x.event_timestamp /\ EventTime(t, y) = y.event_timestamp
  BY DEF EventTime
<1>5. x.event_timestamp = y.event_timestamp
  BY <1>4, TimesAreNumbers DEF Before
<1> QED
  BY <1>3, <1>5 DEF Passes, IsDelete

(* If one pass lets everything through, a row of another pass passes too,   *)
(* or ties with a row that does.                                            *)
LEMMA SecondPass ==
  ASSUME NEW t \in Topics, NEW X \in SUBSET Records,
         NEW S1 \in Deduplicated(t, X), \A y \in S1 : Passes(t, y),
         NEW S2 \in Deduplicated(t, X), NEW x \in S2
  PROVE  Passes(t, x) \/ (t.tombstone /\ TiesWithPassed(t, X, x))
<1>1. PICK y \in S1 : SameKey(t, x, y) /\ ~Before(t, x, y) /\ ~Before(t, y, x)
  BY FirstsTie
<1>2. x \in X /\ y \in X /\ Passes(t, y)
  BY DEF Deduplicated
<1>3. TiesWithPassed(t, X, x)
  BY <1>1, <1>2 DEF TiesWithPassed
<1>4. CASE ~t.tombstone
  BY <1>1, <1>2, <1>4, TiedRowsPassAlike
<1>5. CASE t.tombstone
  BY <1>3, <1>5
<1> QED
  BY <1>4, <1>5

(* A pass keeps a row of every key it has read. *)
LEMMA KeysAreKept ==
  ASSUME NEW t \in Topics, NEW X \in SUBSET Records, NEW S \in Deduplicated(t, X), NEW x \in X
  PROVE  \E s \in S : SameKey(t, x, s)
BY DEF Deduplicated

(* A written table has every row of the pass, and other rows only in       *)
(* partitions the pass has no rows for.                                    *)
LEMMA RowsWritten ==
  ASSUME NEW t \in Topics, NEW S \in SUBSET Records, NEW table,
         DOMAIN table = Days \cup {NoDay}
  PROVE  /\ S \subseteq Rows(Overwritten(t, table, S))
         /\ \A d \in Days \cup {NoDay} : \A x \in Overwritten(t, table, S)[d] :
              \/ x \in S /\ EventDate(t, x) = d
              \/ x \in table[d] /\ \A s \in S : EventDate(t, s) # d
<1> DEFINE W == Overwritten(t, table, S)
<1>1. DOMAIN W = Days \cup {NoDay}
  BY DEF Overwritten
<1>2. ASSUME NEW x \in S PROVE x \in W[EventDate(t, x)] /\ EventDate(t, x) \in DOMAIN W
  BY <1>1, DatesArePartitions DEF Overwritten
<1>3. ASSUME NEW d \in Days \cup {NoDay}, NEW x \in W[d]
      PROVE  \/ x \in S /\ EventDate(t, x) = d
             \/ x \in table[d] /\ \A s \in S : EventDate(t, s) # d
  BY DEF Overwritten
<1> QED
  BY <1>2, <1>3 DEF Rows

-----------------------------------------------------------------------------
(* The inductive invariant.                                                *)

(* Every record of the topic has an offset of its own. *)
OffsetsInv ==
  /\ IsFiniteSet(landed)
  /\ \A x \in landed : x.kafka_offset <= Cardinality(landed)
  /\ \A x, y \in landed : x.kafka_offset = y.kafka_offset => x = y

(* A tombstone has no time of its own. *)
LandedInv ==
  \A x \in landed :
    x.null_value => topic.tombstone /\ x.event_timestamp = NoTime

(* A batch past its gate has seen a pass in which everything passed.       *)
BatchInv ==
  \A r \in Runs :
    /\ \A x \in files[r] : Day(x.kafka_timestamp) = dt[r]
    /\ pc[r] = "gated" =>
         \E S \in Deduplicated(topic, files[r]) : \A x \in S : Passes(topic, x)

(* Rows are in the partition of their date.                                *)
DatedRows == \A d \in DOMAIN bronze : \A x \in bronze[d] : EventDate(topic, x) = d

BronzeInv ==
  /\ TypeOK /\ OffsetsInv /\ LandedInv /\ BatchInv /\ DatedRows
  /\ RefusedOnlyInTies

LEMMA InitBronzeInv == Init => BronzeInv
<1> SUFFICES ASSUME Init PROVE BronzeInv
  OBVIOUS
<1>1. TypeOK
  BY BronzeAssumption DEF Init, TypeOK, Times
<1>2. OffsetsInv
  BY FS_EmptySet DEF Init, OffsetsInv
<1>3. LandedInv /\ BatchInv /\ DatedRows
  BY DEF Init, LandedInv, BatchInv, DatedRows
<1>4. RefusedOnlyInTies
  BY DEF Init, RefusedOnlyInTies, Rows
<1> QED
  BY <1>1, <1>2, <1>3, <1>4 DEF BronzeInv

(* A landed record only adds to what the invariant is about. *)
LEMMA LandKeepsInv ==
  ASSUME BronzeInv, NEW x \in Records, Land(x),
         x.kafka_offset = Cardinality(landed) + 1,
         x.null_value => topic.tombstone /\ x.event_timestamp = NoTime
  PROVE  BronzeInv'
<1> USE DEF BronzeInv, Land
<1>1. TypeOK'
  BY DEF TypeOK
<1>2. OffsetsInv'
  <2>1. Cardinality(landed) \in Nat
    BY FS_CardinalityType DEF OffsetsInv
  <2>2. x \notin landed
    BY <2>1 DEF OffsetsInv
  <2>3. IsFiniteSet(landed') /\ Cardinality(landed') = Cardinality(landed) + 1
    BY <2>2, FS_AddElement DEF OffsetsInv
  <2>4. \A y \in landed : y.kafka_offset \in Nat
    BY DEF TypeOK, Records
  <2> QED
    BY <2>1, <2>3, <2>4 DEF OffsetsInv
<1>3. LandedInv' /\ BatchInv' /\ DatedRows'
  BY DEF LandedInv, BatchInv, DatedRows
<1>4. RefusedOnlyInTies'
  BY DEF RefusedOnlyInTies, TiesWithPassed
<1> QED
  BY <1>1, <1>2, <1>3, <1>4

LEMMA BronzeInvStep == BronzeInv /\ [Next]_vars => BronzeInv'
<1> SUFFICES ASSUME BronzeInv, [Next]_vars PROVE BronzeInv'
  OBVIOUS
<1> USE DEF BronzeInv
<1>1. CASE Tick
  <2>1. TypeOK'
    BY <1>1, BronzeAssumption DEF Tick, TypeOK, Times
  <2> QED
    BY <1>1, <2>1 DEF Tick, OffsetsInv, LandedInv, BatchInv, DatedRows, RefusedOnlyInTies
<1>2. ASSUME NEW col \in [Columns -> Values \cup {Null}],
             NEW t \in {NoTime} \cup 1 .. MaxTime + Skew, LandPayload(col, t)
      PROVE  BronzeInv'
  <2> DEFINE x == [col |-> col, event_timestamp |-> t, kafka_timestamp |-> now,
                   kafka_offset |-> Cardinality(landed) + 1, null_value |-> FALSE]
  <2>1. Land(x)
    BY <1>2 DEF LandPayload
  <2>2. Cardinality(landed) + 1 \in 1 .. MaxRecords
    BY <2>1, FS_CardinalityType, BronzeAssumption DEF Land, OffsetsInv
  <2>3. x \in Records
    BY <2>2 DEF Records, TypeOK
  <2> QED
    BY <2>1, <2>3, LandKeepsInv
<1>3. ASSUME NEW k \in Values, LandTombstone(k) PROVE BronzeInv'
  <2> DEFINE x == [col |-> [c \in Columns |-> IF c = topic.key THEN k ELSE Null],
                   event_timestamp |-> NoTime, kafka_timestamp |-> now,
                   kafka_offset |-> Cardinality(landed) + 1, null_value |-> TRUE]
  <2>1. Land(x) /\ topic.tombstone
    BY <1>3 DEF LandTombstone
  <2>2. Cardinality(landed) + 1 \in 1 .. MaxRecords
    BY <2>1, FS_CardinalityType, BronzeAssumption DEF Land, OffsetsInv
  <2>3. x \in Records
    BY <2>2 DEF Records, TypeOK
  <2> QED
    BY <2>1, <2>3, LandKeepsInv
<1>4. ASSUME NEW r \in Runs, NEW d \in Days, Start(r, d) PROVE BronzeInv'
  <2>1. TypeOK'
    BY <1>4, BronzeAssumption DEF Start, FilesOf, TypeOK, world
  <2> QED
    BY <1>4, <2>1
    DEF Start, FilesOf, world, TypeOK, OffsetsInv, LandedInv, BatchInv, DatedRows, RefusedOnlyInTies
<1>5. ASSUME NEW r \in Runs, Gate(r) PROVE BronzeInv'
  <2>1. TypeOK'
    BY <1>5 DEF Gate, TypeOK, world
  <2>2. BatchInv'
    BY <1>5 DEF Gate, world, TypeOK, BatchInv
  <2> QED
    BY <1>5, <2>1, <2>2 DEF Gate, world, OffsetsInv, LandedInv, DatedRows, RefusedOnlyInTies
<1>6. ASSUME NEW r \in Runs, Write(r) PROVE BronzeInv'
  <2>1. PICK S \in Deduplicated(topic, files[r]) : bronze' = Overwritten(topic, bronze, S)
    BY <1>6 DEF Write
  <2>2. PICK S1 \in Deduplicated(topic, files[r]) : \A x \in S1 : Passes(topic, x)
    BY <1>6 DEF Write, BatchInv
  <2>3. S \subseteq files[r] /\ files[r] \subseteq landed /\ landed \subseteq Records
    BY DEF Deduplicated, TypeOK
  <2>4. DOMAIN bronze = Days \cup {NoDay} /\ DOMAIN bronze' = Days \cup {NoDay}
    BY <2>1 DEF TypeOK, Overwritten
  <2>5. \A d \in Days \cup {NoDay} : \A x \in bronze'[d] :
           (x \in S /\ EventDate(topic, x) = d) \/ x \in bronze[d]
    BY <2>1, <2>3, <2>4, RowsWritten DEF TypeOK
  <2>6. UNCHANGED <<world, dt, files, starts>>
        /\ last' = files[r] /\ pc' = [pc EXCEPT ![r] = "succeeded"]
    BY <1>6 DEF Write
  <2>7. TypeOK'
    <3>1. bronze' = [d \in Days \cup {NoDay} |-> bronze'[d]]
      BY <2>1, <2>4 DEF Overwritten
    <3>2. \A d \in Days \cup {NoDay} : bronze'[d] \subseteq landed
      BY <2>3, <2>5 DEF TypeOK
    <3>3. bronze' \in [Days \cup {NoDay} -> SUBSET landed]
      BY <3>1, <3>2
    <3> QED
      BY <2>3, <2>6, <3>3 DEF TypeOK, world
  <2>8. DatedRows'
    BY <2>4, <2>5, <2>6 DEF DatedRows, world
  <2>9. RefusedOnlyInTies'
    <3> SUFFICES ASSUME NEW x \in Rows(bronze')
                 PROVE  Passes(topic, x) \/ (topic.tombstone /\ TiesWithPassed(topic, landed, x))
      BY <2>6 DEF RefusedOnlyInTies, world
    <3>1. x \in S \/ x \in Rows(bronze)
      BY <2>4, <2>5 DEF Rows
    <3>2. CASE x \in S
      <4>1. topic \in Topics /\ files[r] \in SUBSET Records
        BY <2>3 DEF TypeOK
      <4>2. Passes(topic, x) \/ (topic.tombstone /\ TiesWithPassed(topic, files[r], x))
        BY <2>2, <3>2, <4>1, SecondPass
      <4> QED
        BY <2>3, <4>2 DEF TiesWithPassed
    <3>3. CASE x \in Rows(bronze)
      BY <3>3 DEF RefusedOnlyInTies
    <3> QED
      BY <3>1, <3>2, <3>3
  <2>10. OffsetsInv' /\ LandedInv' /\ BatchInv'
    BY <2>6 DEF world, TypeOK, OffsetsInv, LandedInv, BatchInv
  <2> QED
    BY <2>7, <2>8, <2>9, <2>10
<1>7. ASSUME NEW r \in Runs, Die(r) PROVE BronzeInv'
  <2>1. TypeOK'
    BY <1>7 DEF Die, TypeOK, world
  <2> QED
    BY <1>7, <2>1
    DEF Die, world, TypeOK, OffsetsInv, LandedInv, BatchInv, DatedRows, RefusedOnlyInTies
<1>8. CASE UNCHANGED vars
  <2>1. TypeOK'
    BY <1>8 DEF vars, world, TypeOK
  <2> QED
    BY <1>8, <2>1 DEF vars, world, OffsetsInv, LandedInv, BatchInv, DatedRows, RefusedOnlyInTies
<1> QED
  BY <1>1, <1>2, <1>3, <1>4, <1>5, <1>6, <1>7, <1>8 DEF Next

LEMMA Invariance == Spec => []BronzeInv
BY InitBronzeInv, BronzeInvStep, PTL DEF Spec

-----------------------------------------------------------------------------
(* The theorems.                                                           *)

(* Type correctness: the table and every batch hold records as they        *)
(* landed, whatever runs at once.                                          *)
THEOREM TypeCorrect == Spec => []TypeOK
<1>1. BronzeInv => TypeOK
  BY DEF BronzeInv
<1> QED
  BY <1>1, Invariance, PTL

(* A row the gate would have refused is in the table only where it ties    *)
(* with one that passes, and never in a topic without tombstones           *)
(* (run_quality_gate, write_sink).                                         *)
THEOREM GateHolds == Spec => []RefusedOnlyInTies
<1>1. BronzeInv => RefusedOnlyInTies
  BY DEF BronzeInv
<1> QED
  BY <1>1, Invariance, PTL

(* What a step that writes does: it is the Write of the batch.             *)
LEMMA WritesIsWrite ==
  ASSUME BronzeInv, [Next]_vars, NEW r \in Runs, Writes(r)
  PROVE  Write(r)
<1> USE DEF Writes, BronzeInv, TypeOK
<1>1. CASE Tick
  BY <1>1 DEF Tick
<1>2. ASSUME NEW col \in [Columns -> Values \cup {Null}],
             NEW t \in {NoTime} \cup 1 .. MaxTime + Skew, LandPayload(col, t) PROVE FALSE
  BY <1>2 DEF LandPayload, Land
<1>3. ASSUME NEW k \in Values, LandTombstone(k) PROVE FALSE
  BY <1>3 DEF LandTombstone, Land
<1>4. ASSUME NEW q \in Runs, NEW d \in Days, Start(q, d) PROVE FALSE
  BY <1>4 DEF Start
<1>5. ASSUME NEW q \in Runs, Gate(q) PROVE FALSE
  BY <1>5 DEF Gate
<1>6. ASSUME NEW q \in Runs, Write(q) PROVE Write(r)
  BY <1>6 DEF Write
<1>7. ASSUME NEW q \in Runs, Die(q) PROVE FALSE
  BY <1>7 DEF Die
<1>8. CASE UNCHANGED vars
  BY <1>8 DEF vars
<1> QED
  BY <1>1, <1>2, <1>3, <1>4, <1>5, <1>6, <1>7, <1>8 DEF Next

(* The pass that is written, and what the table holds afterwards.          *)
LEMMA WrittenPass ==
  ASSUME BronzeInv, NEW r \in Runs, Write(r)
  PROVE  \E S \in Deduplicated(topic, files[r]) :
           /\ S \subseteq files[r] /\ S \subseteq Rows(bronze')
           /\ bronze' = Overwritten(topic, bronze, S)
           /\ DOMAIN bronze = Days \cup {NoDay} /\ DOMAIN bronze' = Days \cup {NoDay}
           /\ \A d \in Days \cup {NoDay} : \A x \in bronze'[d] :
                \/ x \in S /\ EventDate(topic, x) = d
                \/ x \in bronze[d] /\ \A s \in S : EventDate(topic, s) # d
<1> USE DEF BronzeInv
<1>1. PICK S \in Deduplicated(topic, files[r]) : bronze' = Overwritten(topic, bronze, S)
  BY DEF Write
<1>2. S \subseteq files[r] /\ files[r] \subseteq landed /\ landed \subseteq Records
  BY DEF Deduplicated, TypeOK
<1>3. DOMAIN bronze = Days \cup {NoDay} /\ DOMAIN bronze' = Days \cup {NoDay}
  BY <1>1 DEF TypeOK, Overwritten
<1>4. S \in SUBSET Records /\ topic \in Topics
  BY <1>2 DEF TypeOK
<1>5. /\ S \subseteq Rows(bronze')
      /\ \A d \in Days \cup {NoDay} : \A x \in bronze'[d] :
           \/ x \in S /\ EventDate(topic, x) = d
           \/ x \in bronze[d] /\ \A s \in S : EventDate(topic, s) # d
  <2>1. /\ S \subseteq Rows(Overwritten(topic, bronze, S))
        /\ \A d \in Days \cup {NoDay} : \A x \in Overwritten(topic, bronze, S)[d] :
             \/ x \in S /\ EventDate(topic, x) = d
             \/ x \in bronze[d] /\ \A s \in S : EventDate(topic, s) # d
    BY ONLY <1>3, <1>4, RowsWritten
  <2>2. Rows(bronze') = Rows(Overwritten(topic, bronze, S))
    BY ONLY <1>1 DEF Rows
  <2> QED BY ONLY <1>1, <2>1, <2>2
<1> HIDE DEF BronzeInv
<1> QED BY <1>1, <1>2, <1>3, <1>5

(* Every record that a batch has read of a topic without tombstones is     *)
(* there afterwards, or a repeat of it (t_deduplicate, write_bigquery).    *)
THEOREM RepeatsOnly == Spec => OnlyRepeatsDropped
<1> DEFINE
      Same(x, y) == \A i \in DOMAIN topic.dedupe_key :
                      x.col[topic.dedupe_key[i]] = y.col[topic.dedupe_key[i]]
      Kept == \A r \in Runs : Writes(r) /\ ~topic.tombstone =>
                \A x \in files[r] : \E y \in Rows(bronze') : Same(x, y)
<1>1. BronzeInv /\ [Next]_vars => [Kept]_vars
  <2> SUFFICES ASSUME BronzeInv, [Next]_vars, NEW r \in Runs, Writes(r), ~topic.tombstone,
                      NEW x \in files[r]
               PROVE  \E y \in Rows(bronze') : Same(x, y)
    OBVIOUS
  <2>1. Write(r)
    BY WritesIsWrite
  <2>2. PICK S \in Deduplicated(topic, files[r]) : S \subseteq Rows(bronze')
    BY <2>1, WrittenPass
  <2>3. topic \in Topics /\ files[r] \in SUBSET Records
    BY DEF BronzeInv, TypeOK
  <2>4. PICK s \in S : SameKey(topic, x, s)
    BY <2>3, KeysAreKept
  <2>5. Same(x, s)
    BY <2>4 DEF SameKey, DedupeColumns
  <2> QED
    BY <2>2, <2>5
<1> QED
  BY <1>1, Invariance, PTL DEF Spec, OnlyRepeatsDropped

-----------------------------------------------------------------------------
(* Late events and clocks that disagree: what a batch of one landing date  *)
(* does to partitions of other dates.                                      *)

(* What is not misdated is in the partition of the date it landed on, if   *)
(* it has a time at all.                                                   *)
LEMMA LandingDate ==
  ASSUME NEW t \in Topics, NEW x \in Records, t.tombstone \/ x.event_timestamp # NoTime, ~Misdated(x)
  PROVE  EventDate(t, x) = Day(x.kafka_timestamp)
<1>1. x.kafka_timestamp # NoTime
  BY DEF Records, Times, NoTime
<1>2. CASE x.event_timestamp = NoTime
  <2>1. EventTime(t, x) = x.kafka_timestamp
    BY <1>2 DEF EventTime
  <2> QED BY <1>1, <2>1 DEF EventDate
<1>3. CASE x.event_timestamp # NoTime
  <2>1. EventTime(t, x) = x.event_timestamp
    BY <1>3 DEF EventTime
  <2> QED BY <1>3, <2>1 DEF EventDate, Misdated
<1> QED BY <1>2, <1>3

LEMMA RowsHaveTime ==
  ASSUME BronzeInv, ~topic.tombstone, NEW x \in Rows(bronze)
  PROVE  x.event_timestamp # NoTime
<1>1. Passes(topic, x)
  BY DEF BronzeInv, RefusedOnlyInTies
<1> QED BY <1>1 DEF Passes, IsDelete

(* A row goes only for a row of the batch in the same partition, and two   *)
(* rows that landed on different dates share a partition only where one of *)
(* them is misdated (write_sink, partitionOverwriteMode).                  *)
THEOREM OnlyMisdatedOverwrite == Spec => LostToMisdated
<1> DEFINE
      Accounted == \A r \in Runs : Writes(r) =>
        \A x \in Rows(bronze) \ Rows(bronze') :
          \/ Day(x.kafka_timestamp) = dt[r]
          \/ \E y \in files[r] :
               /\ EventDate(topic, y) = EventDate(topic, x)
               /\ Misdated(x) \/ Misdated(y)
<1>1. BronzeInv /\ [Next]_vars => [Accounted]_vars
  <2> SUFFICES ASSUME BronzeInv, [Next]_vars, NEW r \in Runs, Writes(r),
                      NEW x \in Rows(bronze) \ Rows(bronze'),
                      Day(x.kafka_timestamp) # dt[r]
               PROVE  \E y \in files[r] :
                         /\ EventDate(topic, y) = EventDate(topic, x)
                         /\ Misdated(x) \/ Misdated(y)
    OBVIOUS
  <2> USE DEF BronzeInv
  <2>1. Write(r)
    BY WritesIsWrite
  <2>2. PICK S \in Deduplicated(topic, files[r]) :
              /\ S \subseteq files[r] /\ S \subseteq Rows(bronze')
              /\ bronze' = Overwritten(topic, bronze, S)
              /\ DOMAIN bronze = Days \cup {NoDay} /\ DOMAIN bronze' = Days \cup {NoDay}
    BY <2>1, WrittenPass
  <2>3. PICK d \in Days \cup {NoDay} : x \in bronze[d]
    BY <2>2 DEF Rows
  <2>4. x \notin bronze'[d]
    BY <2>2 DEF Rows
  <2>5. PICK s \in S : EventDate(topic, s) = d
    BY <2>2, <2>3, <2>4 DEF Overwritten
  <2>6. EventDate(topic, x) = d
    BY <2>2, <2>3 DEF DatedRows
  <2>7. s \in files[r] /\ Day(s.kafka_timestamp) = dt[r]
    BY <2>2, <2>5 DEF BatchInv
  <2>8. /\ topic \in Topics /\ x \in Records /\ s \in Records
        /\ x \in Rows(bronze) /\ s \in Rows(bronze')
    BY <2>2, <2>3, <2>7 DEF TypeOK
  <2>9. topic.tombstone \/ (x.event_timestamp # NoTime /\ s.event_timestamp # NoTime)
    <3> SUFFICES ASSUME ~topic.tombstone PROVE x.event_timestamp # NoTime /\ s.event_timestamp # NoTime
      OBVIOUS
    <3>1. BronzeInv' /\ topic' = topic
      BY <2>1, BronzeInvStep DEF Write, world
    <3>2. Passes(topic, s)
      BY <2>8, <3>1 DEF RefusedOnlyInTies
    <3> QED BY <2>8, <3>2, RowsHaveTime DEF Passes, IsDelete
  <2> QED
    BY <2>5, <2>6, <2>7, <2>8, <2>9, LandingDate
<1> QED
  BY <1>1, Invariance, PTL DEF Spec, LostToMisdated

(* After a batch that has read a tombstone, no payload of its key that is  *)
(* older by event time is left of that date, unless a record of the key in *)
(* the batch is misdated: the tombstone then need not share a partition    *)
(* with what an earlier batch wrote (_transforms).                         *)
THEOREM TombstonesSupersede == Spec => TombstoneSupersedes
<1> DEFINE
      Newer(x, y) == \/ y.event_timestamp >= x.kafka_timestamp
                     \/ y.event_timestamp = NoTime /\ y.kafka_timestamp >= x.kafka_timestamp
      Excused(r, x) == \E z \in files[r] : z.col[topic.key] = x.col[topic.key] /\ Misdated(z)
      Superseded == \A r \in Runs : Writes(r) =>
                      \A x \in files[r], y \in Rows(bronze') :
                        /\ x.null_value /\ ~y.null_value /\ y \in files[r]
                        /\ x.col[topic.key] = y.col[topic.key]
                        => \/ y.event_timestamp >= x.kafka_timestamp
                           \/ y.event_timestamp = NoTime /\ y.kafka_timestamp >= x.kafka_timestamp
                           \/ \E z \in files[r] :
                                z.col[topic.key] = x.col[topic.key] /\ Misdated(z)
<1>1. BronzeInv /\ [Next]_vars => [Superseded]_vars
  <2> SUFFICES ASSUME BronzeInv, [Next]_vars, NEW r \in Runs, Writes(r),
                      NEW x \in files[r], NEW y \in Rows(bronze'),
                      x.null_value, y \in files[r], x.col[topic.key] = y.col[topic.key],
                      ~Excused(r, x)
               PROVE  Newer(x, y)
    OBVIOUS
  <2> USE DEF BronzeInv
  <2>1. Write(r)
    BY WritesIsWrite
  <2>2. PICK S \in Deduplicated(topic, files[r]) :
              /\ S \subseteq files[r]
              /\ DOMAIN bronze' = Days \cup {NoDay}
              /\ \A d \in Days \cup {NoDay} : \A z \in bronze'[d] :
                   \/ z \in S /\ EventDate(topic, z) = d
                   \/ z \in bronze[d] /\ \A s \in S : EventDate(topic, s) # d
    BY <2>1, WrittenPass
  <2>3. /\ topic \in Topics /\ files[r] \in SUBSET Records /\ files[r] \subseteq landed
        /\ DOMAIN bronze = Days \cup {NoDay}
    BY DEF TypeOK
  <2>4. topic.tombstone /\ x.event_timestamp = NoTime
    BY <2>3 DEF LandedInv
  <2>5. SameKey(topic, y, x)
    BY <2>4 DEF SameKey, DedupeColumns
  <2>6. ASSUME NEW z \in files[r], SameKey(topic, y, z)
        PROVE  EventDate(topic, z) = dt[r]
    <3>1. z.col[topic.key] = x.col[topic.key]
      BY <2>4, <2>6 DEF SameKey, DedupeColumns
    <3>2. ~Misdated(z)
      BY <3>1
    <3>3. EventDate(topic, z) = Day(z.kafka_timestamp)
      BY <2>3, <2>4, <3>2, LandingDate
    <3> QED BY <3>3 DEF BatchInv
  <2>7. y \in S
    <3> SUFFICES ASSUME y \notin S PROVE FALSE
      OBVIOUS
    <3>1. PICK d \in Days \cup {NoDay} : y \in bronze'[d]
      BY <2>2 DEF Rows
    <3>2. y \in bronze[d] /\ \A s \in S : EventDate(topic, s) # d
      BY <2>2, <3>1
    <3>3. EventDate(topic, y) = d
      BY <2>3, <3>2 DEF DatedRows
    <3>4. EventDate(topic, y) = dt[r]
      BY <2>6 DEF SameKey
    <3>5. PICK s \in S : SameKey(topic, y, s)
      BY <2>3, KeysAreKept
    <3>6. EventDate(topic, s) = dt[r]
      BY <2>2, <2>6, <3>5
    <3> QED
      BY <3>2, <3>3, <3>4, <3>6
  <2>8. ~Before(topic, x, y)
    BY <2>5, <2>7 DEF Deduplicated, CanBeFirst
  <2>9. EventTime(topic, x) = x.kafka_timestamp
    BY <2>4 DEF EventTime
  <2>10. /\ EventTime(topic, y) = IF y.event_timestamp = NoTime THEN y.kafka_timestamp
                                                              ELSE y.event_timestamp
         /\ EventTime(topic, y) \in Nat /\ EventTime(topic, x) \in Nat
    BY <2>3, <2>4, TimesAreNumbers DEF EventTime
  <2> QED
    BY <2>8, <2>9, <2>10 DEF Before
<1> QED
  BY <1>1, Invariance, PTL DEF Spec, TombstoneSupersedes

-----------------------------------------------------------------------------
(* Where kafka_offset breaks the ties, a pass over given files comes out   *)
(* one way only.                                                           *)

LEMMA OneOutcome ==
  ASSUME NEW t \in Topics, t.offset, ~t.tombstone, NEW X \in SUBSET Records,
         \A x, y \in X : x.kafka_offset = y.kafka_offset => x = y,
         NEW S1 \in Deduplicated(t, X), NEW S2 \in Deduplicated(t, X)
  PROVE  S1 \subseteq S2
<1> SUFFICES ASSUME NEW x \in S1 PROVE x \in S2
  OBVIOUS
<1>1. PICK y \in S2 : SameKey(t, x, y) /\ ~Before(t, x, y) /\ ~Before(t, y, x)
  BY FirstsTie
<1>2. x \in X /\ y \in X
  BY DEF Deduplicated
<1>3. EventTime(t, x) = EventTime(t, y)
  BY <1>1, <1>2, TimesAreNumbers DEF Before
<1>4. x.kafka_offset \in Nat /\ y.kafka_offset \in Nat
  BY <1>2 DEF Records
<1>5. x.kafka_offset = y.kafka_offset
  BY <1>1, <1>3, <1>4 DEF Before
<1> QED
  BY <1>1, <1>2, <1>5

(* The latest write is still what the table holds. *)
Settled ==
  topic.offset /\ ~topic.tombstone =>
    \A S \in Deduplicated(topic, last) : Overwritten(topic, bronze, S) = bronze

LEMMA OverwrittenTwice ==
  ASSUME NEW t, NEW table, NEW S
  PROVE  Overwritten(t, Overwritten(t, table, S), S) = Overwritten(t, table, S)
BY DEF Overwritten

LEMMA SettledInit == Init => Settled
<1> SUFFICES ASSUME Init, NEW S \in Deduplicated(topic, last)
             PROVE  Overwritten(topic, bronze, S) = bronze
  BY DEF Settled
<1>1. S = {}
  BY DEF Init, Deduplicated
<1>2. Overwritten(topic, bronze, S) = [d \in DOMAIN bronze |-> bronze[d]]
  BY <1>1 DEF Overwritten
<1> QED
  BY <1>2 DEF Init

LEMMA SettledStep == BronzeInv /\ Settled /\ [Next]_vars => Settled'
<1> SUFFICES ASSUME BronzeInv, Settled, [Next]_vars PROVE Settled'
  OBVIOUS
<1>1. ASSUME NEW r \in Runs, Write(r) PROVE Settled'
  <2> SUFFICES ASSUME topic.offset, ~topic.tombstone, NEW S2 \in Deduplicated(topic, files[r])
               PROVE  Overwritten(topic, bronze', S2) = bronze'
    BY <1>1 DEF Settled, Write, world
  <2>1. PICK S1 \in Deduplicated(topic, files[r]) : bronze' = Overwritten(topic, bronze, S1)
    BY <1>1 DEF Write
  <2>2. /\ topic \in Topics /\ files[r] \in SUBSET Records
        /\ \A x, y \in files[r] : x.kafka_offset = y.kafka_offset => x = y
    BY DEF BronzeInv, TypeOK, OffsetsInv
  <2>3. S1 \subseteq S2 /\ S2 \subseteq S1
    BY <2>2, OneOutcome
  <2>4. S1 = S2
    BY <2>3
  <2> QED
    BY <2>1, <2>4, OverwrittenTwice
<1>2. CASE UNCHANGED <<topic, bronze, last>>
  BY <1>2 DEF Settled
<1> QED
  BY <1>1, <1>2 DEF Next, vars, world, Tick, LandPayload, LandTombstone, Land, Start, Gate, Die

(* Where kafka_offset breaks the ties, writing the same files again is     *)
(* idempotent (bronze_kafka_offload.yaml).                                 *)
THEOREM Idempotent == Spec => RerunIsIdempotent
<1> DEFINE
      Same == \A r \in Runs :
        Writes(r) /\ topic.offset /\ ~topic.tombstone /\ files[r] = last => UNCHANGED bronze
<1>1. BronzeInv /\ Settled /\ [Next]_vars => [Same]_vars
  <2> SUFFICES ASSUME BronzeInv, Settled, [Next]_vars, NEW r \in Runs, Writes(r),
                      topic.offset, ~topic.tombstone, files[r] = last
               PROVE  UNCHANGED bronze
    OBVIOUS
  <2>1. Write(r)
    BY WritesIsWrite
  <2> QED
    BY <2>1 DEF Write, Settled
<1>2. Spec => []Settled
  BY SettledInit, SettledStep, Invariance, PTL DEF Spec
<1> QED
  BY <1>1, <1>2, Invariance, PTL DEF Spec, RerunIsIdempotent

-----------------------------------------------------------------------------
(* Tombstones at the gate.                                                 *)

(* A tombstone has its key and nothing else. *)
MarkersInv ==
  \A x \in landed : x.null_value =>
    /\ topic.tombstone
    /\ x.col[topic.key] # Null
    /\ \A c \in Columns \ {topic.key} : x.col[c] = Null

LEMMA MarkersStep ==
  ASSUME TypeOK, MarkersInv, [Next]_vars
  PROVE  MarkersInv'
<1>1. ASSUME NEW col, NEW t, LandPayload(col, t) PROVE MarkersInv'
  BY <1>1 DEF LandPayload, Land, MarkersInv
<1>2. ASSUME NEW k \in Values, LandTombstone(k) PROVE MarkersInv'
  <2> DEFINE x == [col |-> [c \in Columns |-> IF c = topic.key THEN k ELSE Null],
                   event_timestamp |-> NoTime, kafka_timestamp |-> now,
                   kafka_offset |-> Cardinality(landed) + 1, null_value |-> TRUE]
  <2>1. topic.tombstone /\ landed' = landed \cup {x} /\ topic' = topic
    BY <1>2 DEF LandTombstone, Land
  <2>2. topic.key \in Columns /\ k # Null
    BY BronzeAssumption DEF TypeOK, IsTopic
  <2>3. x.col[topic.key] # Null /\ \A c \in Columns \ {topic.key} : x.col[c] = Null
    BY <2>2
  <2> QED BY <2>1, <2>3 DEF MarkersInv
<1>3. CASE UNCHANGED <<topic, landed>>
  BY <1>3 DEF MarkersInv
<1>4. Tick \/ (\E r \in Runs : (\E d \in Days : Start(r, d)) \/ Gate(r) \/ Write(r) \/ Die(r))
        \/ UNCHANGED vars => UNCHANGED <<topic, landed>>
  BY DEF Tick, Start, Gate, Write, Die, vars, world
<1> QED BY <1>1, <1>2, <1>3, <1>4 DEF Next

(* What the gate cannot refuse: a tombstone that can be told from a payload. *)
LEMMA MarkersPass ==
  ASSUME TypeOK, MarkersInv, NEW x \in landed, x.null_value, Head(topic.dedupe_key) # topic.key
  PROVE  Passes(topic, x)
<1>1. topic \in Topics /\ topic.tombstone /\ IsTopic(topic)
  BY BronzeAssumption DEF TypeOK, MarkersInv
<1>2. Head(topic.dedupe_key) \in Columns
  BY <1>1 DEF IsTopic
<1>3. IsDelete(topic, x)
  BY <1>1, <1>2 DEF IsDelete, MarkersInv
<1> QED BY <1>1, <1>3 DEF Passes, GateColumn, MarkersInv

(* A day is refused for a payload that lacks its timestamp or a column, or *)
(* for a tombstone where the column a delete marker is recognised by is    *)
(* the key of the log; for every registry, also one with an entry like     *)
(* marketing.preferences.v1 (streaming/generate_topic_jobs.py, _quality).  *)
THEOREM RefusalsHaveCause == Spec => RefusedForCause
<1> DEFINE
      Caused == \A r \in Runs : pc[r] = "read" /\ pc'[r] = "rejected" =>
        \E x \in files[r] : \/ LacksContents(x)
                            \/ x.null_value /\ Head(topic.dedupe_key) = topic.key
<1>1. Init => MarkersInv
  BY DEF Init, MarkersInv
<1>2. TypeOK /\ MarkersInv /\ [Next]_vars => [Caused]_vars
  <2> SUFFICES ASSUME TypeOK, MarkersInv, [Next]_vars,
                      NEW r \in Runs, pc[r] = "read", pc'[r] = "rejected"
               PROVE  \E x \in files[r] : \/ LacksContents(x)
                                          \/ x.null_value /\ Head(topic.dedupe_key) = topic.key
    OBVIOUS
  <2>1. Gate(r)
    BY DEF Next, Tick, LandPayload, LandTombstone, Land, Start, Gate, Write, Die, vars, TypeOK
  <2>2. PICK x \in files[r] : ~Passes(topic, x)
    BY <2>1 DEF Gate, Deduplicated, TypeOK
  <2>3. x \in landed /\ x \in Records /\ topic \in Topics
    BY DEF TypeOK
  <2>4. CASE x.null_value
    BY <2>2, <2>3, <2>4, MarkersPass
  <2>5. CASE ~x.null_value
    <3>1. GateColumn(topic) \in Columns
      BY <2>3, BronzeAssumption DEF GateColumn, IsTopic
    <3> QED BY <2>2, <2>5, <3>1 DEF Passes, LacksContents
  <2> QED BY <2>4, <2>5
<1> QED BY <1>1, <1>2, TypeCorrect, MarkersStep, PTL DEF Spec, RefusedForCause
=============================================================================
