------------------------------ MODULE BronzeJob ------------------------------
(***************************************************************************)
(* The generated offload of one Kafka topic (streaming/), run by the Spark *)
(* framework (spark/framework/): read one day of landed files, stamp,      *)
(* deduplicate, gate, overwrite the day partitions of the Bronze table.    *)
(* Spark evaluates lazily: the gate and the write each run the plan, and   *)
(* rows that tie in the order of the deduplication may come out            *)
(* differently.                                                            *)
(***************************************************************************)
EXTENDS Naturals, Sequences, FiniteSets

CONSTANTS
  Columns, Values, Null,  \* columns of the payload that are some topic's key or dedupe key
  Topics,        \* entries of the registry: see IsTopic
  Runs,          \* batches that may be running at once
  TicksPerDay,
  MaxTime,       \* bound on the broker's clock
  MaxRecords,    \* bound on the records of the topic
  MaxStarts,     \* bound on the batches started
  Skew           \* how far a producer's clock may be ahead

Times == 1 .. MaxTime
NoTime == 0      \* a null timestamp, the last one in a descending order
Day(t) == (t + TicksPerDay - 1) \div TicksPerDay
Days == {Day(t) : t \in 1 .. MaxTime + Skew}
NoDay == 0       \* the partition of the rows whose event_date is null

(* What the job depends on of an entry (validate): `offset` says that      *)
(* order_by goes event_timestamp, kafka_offset, not just event_timestamp.  *)
IsTopic(t) ==
  /\ t \in [key : Columns, dedupe_key : Seq(Columns), offset : BOOLEAN, tombstone : BOOLEAN]
  /\ t.dedupe_key # << >>

ASSUME BronzeAssumption ==
  /\ TicksPerDay \in Nat \ {0} /\ Skew \in Nat
  /\ MaxTime \in Nat \ {0} /\ MaxRecords \in Nat /\ MaxStarts \in Nat
  /\ Null \notin Values
  /\ \A t \in Topics : IsTopic(t)

(* null_value is what Kafka knows of a record, and no column says.         *)
Records ==
  [col : [Columns -> Values \cup {Null}],
   event_timestamp : {NoTime} \cup 1 .. MaxTime + Skew,
   kafka_timestamp : Times, kafka_offset : 1 .. MaxRecords, null_value : BOOLEAN]

VARIABLES
  topic,       \* the entry the job is generated from
  now,         \* the broker's clock
  landed,      \* records in the landing bucket; their dt is the day of kafka_timestamp
  bronze,      \* event_date -> rows of the table
  pc, dt,      \* run -> what it has done, its execution_date
  files,       \* run -> records of the files it listed
  starts,      \* batches started so far
  last         \* history: records the latest write was made from

world == <<topic, now, landed>>
vars == <<world, bronze, pc, dt, files, starts, last>>

Rows(table) == UNION {table[d] : d \in DOMAIN table}

TypeOK ==
  /\ topic \in Topics /\ now \in Times
  /\ landed \subseteq Records
  /\ bronze \in [Days \cup {NoDay} -> SUBSET landed]
  /\ pc \in [Runs -> {"idle", "read", "gated", "succeeded", "rejected", "died"}]
  /\ dt \in [Runs -> Days \cup {NoDay}]
  /\ files \in [Runs -> SUBSET landed]
  /\ starts \in 0 .. MaxStarts
  /\ last \subseteq landed

Init ==
  /\ topic \in Topics /\ now = 1
  /\ landed = {}
  /\ bronze = [d \in Days \cup {NoDay} |-> {}]
  /\ pc = [r \in Runs |-> "idle"] /\ dt = [r \in Runs |-> NoDay]
  /\ files = [r \in Runs |-> {}]
  /\ starts = 0 /\ last = {}

-----------------------------------------------------------------------------
(* The generated specification (_transforms, _quality), for an entry t.    *)

IsDelete(t, x) == t.tombstone /\ x.col[Head(t.dedupe_key)] = Null

(* Faulty: no fallback, a tombstone has no time to be ordered by. *)
PayloadTime(t, x) == x.event_timestamp

EventTime(t, x) ==
  IF t.tombstone /\ x.event_timestamp = NoTime THEN x.kafka_timestamp ELSE x.event_timestamp

EventDate(t, x) == IF EventTime(t, x) = NoTime THEN NoDay ELSE Day(EventTime(t, x))

(* Faulty: the key of the log also where there are no tombstones. *)
LogKeyColumns(t) == {t.key}

(* Columns the deduplication partitions by, and its order, descending.     *)
DedupeColumns(t) ==
  IF t.tombstone THEN {t.key} ELSE {t.dedupe_key[i] : i \in DOMAIN t.dedupe_key}

SameKey(t, x, y) == \A c \in DedupeColumns(t) : x.col[c] = y.col[c]

(* Faulty: order_by loses kafka_offset. *)
BeforeInTime(t, x, y) == EventTime(t, x) > EventTime(t, y)

Before(t, x, y) ==
  \/ EventTime(t, x) > EventTime(t, y)
  \/ /\ t.offset /\ ~t.tombstone
     /\ EventTime(t, x) = EventTime(t, y)
     /\ x.kafka_offset > y.kafka_offset

(* Faulty: dropDuplicates, which keeps any row of a key. *)
AnyRow(t, X, x) == TRUE

(* t_deduplicate: row number one of every key, for some order of the ties. *)
CanBeFirst(t, X, x) == \A y \in X : SameKey(t, x, y) => ~Before(t, y, x)

Deduplicated(t, X) ==
  {S \in SUBSET {x \in X : CanBeFirst(t, X, x)} :
     \A x \in X : \E s \in S : \A y \in S : SameKey(t, x, y) <=> y = s}

(* The two checks that fail a job; the third only warns.                   *)
GateColumn(t) == IF t.tombstone THEN t.key ELSE Head(t.dedupe_key)

(* Faulty: delete markers are not exempt. *)
PassesWithoutExemption(t, x) ==
  /\ x.col[GateColumn(t)] # Null
  /\ x.event_timestamp # NoTime

Passes(t, x) ==
  /\ x.col[GateColumn(t)] # Null
  /\ x.event_timestamp # NoTime \/ IsDelete(t, x)

(* Faulty: partitionOverwriteMode is left at its default, static. *)
OverwrittenStatic(t, table, S) == [d \in DOMAIN table |-> {x \in S : EventDate(t, x) = d}]

(* Faulty: the stamps go into the columns of the payload. *)
OverwrittenStamped(t, table, S) ==
  [d \in DOMAIN table |->
     LET R == {[x EXCEPT !.event_timestamp = EventTime(t, x)] : x \in {y \in S : EventDate(t, y) = d}}
     IN IF R = {} THEN table[d] ELSE R]

(* The sink replaces the partitions it has rows for.                       *)
Overwritten(t, table, S) ==
  [d \in DOMAIN table |->
     LET R == {x \in S : EventDate(t, x) = d} IN IF R = {} THEN table[d] ELSE R]

-----------------------------------------------------------------------------
(* The world                                                               *)

Tick ==
  /\ now < MaxTime
  /\ now' = now + 1
  /\ UNCHANGED <<topic, landed, bronze, pc, dt, files, starts, last>>

Land(x) ==
  /\ Cardinality(landed) < MaxRecords
  /\ landed' = landed \cup {x}
  /\ UNCHANGED <<topic, now, bronze, pc, dt, files, starts, last>>

(* A payload, repeated by the producer or not, of any day before; it may   *)
(* lack its timestamp or a column.                                         *)
LandPayload(col, t) ==
  /\ t <= now + Skew
  /\ Land([col |-> col, event_timestamp |-> t, kafka_timestamp |-> now,
           kafka_offset |-> Cardinality(landed) + 1, null_value |-> FALSE])

(* A tombstone: the key, and every value column null.                      *)
LandTombstone(k) ==
  /\ topic.tombstone
  /\ Land([col |-> [c \in Columns |-> IF c = topic.key THEN k ELSE Null],
           event_timestamp |-> NoTime, kafka_timestamp |-> now,
           kafka_offset |-> Cardinality(landed) + 1, null_value |-> TRUE])

-----------------------------------------------------------------------------
(* The batch                                                               *)

(* kafka/<topic>/dt=${execution_date}/* *)
FilesOf(d) == {x \in landed : Day(x.kafka_timestamp) = d}

(* read_sources lists the files; a path without files fails the job.       *)
Start(r, d) ==
  /\ pc[r] \notin {"read", "gated"}
  /\ starts < MaxStarts /\ starts' = starts + 1
  /\ d <= Day(now)
  /\ dt' = [dt EXCEPT ![r] = d]
  /\ files' = [files EXCEPT ![r] = FilesOf(d)]
  /\ pc' = [pc EXCEPT ![r] = IF FilesOf(d) = {} THEN "died" ELSE "read"]
  /\ UNCHANGED <<world, bronze, last>>

(* run_quality_gate: a pass over the plan of its own. *)
Gate(r) ==
  /\ pc[r] = "read"
  /\ \E S \in Deduplicated(topic, files[r]) :
       pc' = [pc EXCEPT ![r] =
                IF \A x \in S : Passes(topic, x) THEN "gated" ELSE "rejected"]
  /\ UNCHANGED <<world, bronze, dt, files, starts, last>>

(* write_sink: the plan again. The connector commits it as a whole.        *)
Write(r) ==
  /\ pc[r] = "gated"
  /\ \E S \in Deduplicated(topic, files[r]) : bronze' = Overwritten(topic, bronze, S)
  /\ last' = files[r]
  /\ pc' = [pc EXCEPT ![r] = "succeeded"]
  /\ UNCHANGED <<world, dt, files, starts>>

Die(r) ==
  /\ pc[r] \in {"read", "gated"}
  /\ pc' = [pc EXCEPT ![r] = "died"]
  /\ UNCHANGED <<world, bronze, dt, files, starts, last>>

Next ==
  \/ Tick
  \/ \E col \in [Columns -> Values \cup {Null}], t \in {NoTime} \cup 1 .. MaxTime + Skew : LandPayload(col, t)
  \/ \E k \in Values : LandTombstone(k)
  \/ \E r \in Runs : (\E d \in Days : Start(r, d)) \/ Gate(r) \/ Write(r) \/ Die(r)

Spec == Init /\ [][Next]_vars

-----------------------------------------------------------------------------
(* The two passes may choose differently, but only among rows of one key   *)
(* and one time: where a row of the table is one the gate would have       *)
(* refused, the topic has tombstones and the row ties with one that passes *)
(* ("the nothing-was-written guarantee", run_quality_gate).                *)
TiesWithPassed(t, X, x) ==
  \E y \in X : SameKey(t, x, y) /\ ~Before(t, x, y) /\ ~Before(t, y, x) /\ Passes(t, y)

RefusedOnlyInTies ==
  \A x \in Rows(bronze) :
     Passes(topic, x) \/ (topic.tombstone /\ TiesWithPassed(topic, landed, x))

(* Writing r is the step of the batch that touches the table.              *)
Writes(r) == pc[r] = "gated" /\ pc'[r] = "succeeded"

(* Where kafka_offset breaks the ties, a batch over the files of the       *)
(* latest write changes nothing ("re-running one date is idempotent",      *)
(* bronze_kafka_offload.yaml).                                             *)
RerunIsIdempotent ==
  [][\A r \in Runs :
       Writes(r) /\ topic.offset /\ ~topic.tombstone /\ files[r] = last => UNCHANGED bronze]_vars

(* A batch takes nothing out of the table that landed on another date than *)
(* its own, unless the key is still there in another row.  What the job    *)
(* says of itself ("leaves the rest of the table untouched",               *)
(* bronze_kafka_offload.yaml), and does not hold where an event is late.   *)
OtherDatesKept ==
  [][\A r \in Runs : Writes(r) =>
       \A x \in Rows(bronze) \ Rows(bronze') :
          \/ Day(x.kafka_timestamp) = dt[r]
          \/ \E y \in Rows(bronze') : SameKey(topic, x, y)]_vars

(* A payload says of itself that it is of another day than the one it      *)
(* landed on: it came late, or the clock of its producer is ahead.         *)
Misdated(x) == x.event_timestamp # NoTime /\ Day(x.event_timestamp) # Day(x.kafka_timestamp)

(* What it does hold to: a row that landed on another date is lost only to *)
(* a record of the batch in the same partition, and only where one of the  *)
(* two says it is of another day than the one it landed on (write_sink,    *)
(* partitionOverwriteMode).                                                *)
LostToMisdated ==
  [][\A r \in Runs : Writes(r) =>
       \A x \in Rows(bronze) \ Rows(bronze') :
          \/ Day(x.kafka_timestamp) = dt[r]
          \/ \E y \in files[r] :
               /\ EventDate(topic, y) = EventDate(topic, x)
               /\ Misdated(x) \/ Misdated(y)]_vars

(* Deduplication drops repeats and nothing else: every record a batch      *)
(* read of a topic without tombstones has its dedupe_key in the table.     *)
OnlyRepeatsDropped ==
  [][\A r \in Runs : Writes(r) /\ ~topic.tombstone =>
       \A x \in files[r] : \E y \in Rows(bronze') :
          \A i \in DOMAIN topic.dedupe_key : x.col[topic.dedupe_key[i]] = y.col[topic.dedupe_key[i]]]_vars

(* A tombstone a batch has read supersedes every earlier payload of its    *)
(* key: none of them is in the table afterwards, unless its event time, or *)
(* the broker's where it has none, is not before the tombstone's ("Without *)
(* this the delete sorts unpredictably", _transforms), or the batch has a  *)
(* payload of the key that is of another day than the one it landed on.    *)
TombstoneSupersedes ==
  [][\A r \in Runs : Writes(r) =>
       \A x \in files[r], y \in Rows(bronze') :
          /\ x.null_value /\ ~y.null_value /\ y \in files[r]
          /\ x.col[topic.key] = y.col[topic.key]
          => \/ y.event_timestamp >= x.kafka_timestamp
             \/ y.event_timestamp = NoTime /\ y.kafka_timestamp >= x.kafka_timestamp
             \/ \E z \in files[r] : z.col[topic.key] = x.col[topic.key] /\ Misdated(z)]_vars

LacksContents(x) ==
  ~x.null_value /\ (x.event_timestamp = NoTime \/ \E c \in Columns : x.col[c] = Null)

(* A tombstone never makes the gate refuse a day: "Delete markers are      *)
(* exempt from the rules about payload contents", says _quality, and it    *)
(* does not hold of marketing.preferences.v1.                              *)
RefusedForPayload ==
  [][\A r \in Runs : pc[r] = "read" /\ pc'[r] = "rejected" =>
       \E x \in files[r] : LacksContents(x)]_vars

(* What makes the gate refuse a day: a payload that lacks its timestamp or *)
(* a column, or a tombstone nobody can tell from a payload, because the    *)
(* column it is to be recognised by is the key of the log (_transforms,    *)
(* _quality).                                                              *)
RefusedForCause ==
  [][\A r \in Runs : pc[r] = "read" /\ pc'[r] = "rejected" =>
       \E x \in files[r] :
          \/ LacksContents(x)
          \/ x.null_value /\ Head(topic.dedupe_key) = topic.key]_vars
==============================================================================
