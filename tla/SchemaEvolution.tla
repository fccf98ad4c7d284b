--------------------------- MODULE SchemaEvolution ---------------------------
(***************************************************************************)
(* A table that gains columns while messages are written to it (beam/):    *)
(* reconcilers that add the columns of a registered Avro schema, the       *)
(* pipeline with its raw, parsed and failed sinks, whose write stream      *)
(* works on a snapshot of the table's schema, and the job that fills in    *)
(* afterwards what the stream did not know (RepairDroppedFields).          *)
(*                                                                         *)
(* A message is the set of fields it has a value for, and a cell of a row  *)
(* is a pair: the column, and the message its value is from.               *)
(***************************************************************************)
EXTENDS Naturals

CONSTANTS
  Fields,       \* data fields of the messages: columns of the parsed table
  Schemas,      \* the versions in the registry: sequence of sets of fields
  Messages, NoMessage,
  TradeOf,      \* message -> trade_id, its key
  Deliveries,   \* bound: what the source hands to the pipeline, repeats included
  Reconcilers,
  Repairs,
  Modes,        \* flags the parsed sink may be built with: "fail", "ignore", "update"
  MaxDeaths     \* bound on repair jobs that are killed

Versions == DOMAIN Schemas

ASSUME SchemaAssumption ==
  /\ 1 \in Versions
  /\ \A v \in Versions : Schemas[v] \subseteq Fields
  /\ NoMessage \notin Messages
  /\ Modes \subseteq {"fail", "ignore", "update"}
  /\ MaxDeaths \in Nat

VARIABLES
  mode,         \* flags of the parsed sink
  checked,      \* the parsed table has the column present_fields
  columns,      \* data columns of the parsed table
  known,        \* the write stream's snapshot of them
  carries,      \* message -> fields it has a value for
  of,           \* delivery -> message
  toRaw, toParsed,       \* deliveries on their way to the two sinks
  raw, parsed, failed,   \* deliveries that are rows of the three tables
  cells,        \* row of the parsed table -> its cells that are not null
  step, wanted, plan,    \* reconciler -> where it is, columns wanted, columns to write
  at, cols, temp, repairable,  \* repair -> where it is, its snapshot of the columns,
                               \* its temporary table, the columns of that table
  deaths,
  promised,     \* history: columns a reconciler has returned for
  seen          \* history: repair -> rows that were in both tables when it looked

flags == <<mode, checked>>
pipeline == <<known, carries, of, toRaw, toParsed, raw, parsed, failed>>
ddl == <<columns, step, wanted, plan, promised>>
repair == <<at, cols, temp, repairable, deaths, seen>>
vars == <<flags, pipeline, ddl, cells, repair>>

TypeOK ==
  /\ mode \in Modes /\ checked \in BOOLEAN
  /\ columns \subseteq Fields /\ known \subseteq columns /\ promised \subseteq Fields
  /\ carries \in [Messages -> SUBSET Fields]
  /\ of \in [Deliveries -> Messages \cup {NoMessage}]
  /\ \A D \in {toRaw, toParsed, raw, parsed, failed} : D \subseteq {d \in Deliveries : of[d] # NoMessage}
  /\ cells \in [Deliveries -> SUBSET (Fields \X Messages)]
  /\ step \in [Reconcilers -> {"idle", "update"}]
  /\ wanted \in [Reconcilers -> SUBSET Fields] /\ plan \in [Reconcilers -> SUBSET Fields]
  /\ at \in [Repairs -> {"idle", "find", "merge"}]
  /\ cols \in [Repairs -> SUBSET Fields] /\ repairable \in [Repairs -> SUBSET Fields]
  /\ temp \in [Repairs -> SUBSET (parsed \X raw)]
  /\ deaths \in 0 .. MaxDeaths
  /\ seen \in [Repairs -> SUBSET parsed]

(* A fresh table with the columns of version 1, and a job that has just     *)
(* opened its stream.                                                      *)
Init ==
  /\ mode \in Modes /\ checked \in BOOLEAN
  /\ columns = Schemas[1] /\ known = Schemas[1] /\ promised = {}
  /\ carries = [m \in Messages |-> {}]
  /\ of = [d \in Deliveries |-> NoMessage]
  /\ toRaw = {} /\ toParsed = {} /\ raw = {} /\ parsed = {} /\ failed = {}
  /\ cells = [d \in Deliveries |-> {}]
  /\ step = [c \in Reconcilers |-> "idle"]
  /\ wanted = [c \in Reconcilers |-> {}] /\ plan = [c \in Reconcilers |-> {}]
  /\ at = [r \in Repairs |-> "idle"]
  /\ cols = [r \in Repairs |-> {}] /\ repairable = [r \in Repairs |-> {}]
  /\ temp = [r \in Repairs |-> {}]
  /\ deaths = 0
  /\ seen = [r \in Repairs |-> {}]

-----------------------------------------------------------------------------
(* BigQueryDdlReconciler.reconcile                                         *)

(* getTable: nothing to add, and the call returns...                       *)
UpToDate(c, v) ==
  /\ step[c] = "idle"
  /\ Schemas[v] \subseteq columns
  /\ promised' = promised \cup Schemas[v]
  /\ UNCHANGED <<flags, pipeline, columns, step, wanted, plan, cells, repair>>

(* ... or the whole schema to write: the columns read, and the new ones.   *)
ReadTable(c, v) ==
  /\ step[c] = "idle"
  /\ ~(Schemas[v] \subseteq columns)
  /\ step' = [step EXCEPT ![c] = "update"]
  /\ wanted' = [wanted EXCEPT ![c] = Schemas[v]]
  /\ plan' = [plan EXCEPT ![c] = columns \cup Schemas[v]]
  /\ UNCHANGED <<flags, pipeline, columns, promised, cells, repair>>

(* BigQuery refuses an update that drops a column.                         *)
Accepted(c) == columns \subseteq plan[c]

Leave(c) ==
  /\ step' = [step EXCEPT ![c] = "idle"]
  /\ wanted' = [wanted EXCEPT ![c] = {}]
  /\ plan' = [plan EXCEPT ![c] = {}]

UpdateTable(c) ==
  /\ step[c] = "update" /\ Accepted(c)
  /\ columns' = plan[c]
  /\ promised' = promised \cup wanted[c]
  /\ Leave(c)
  /\ UNCHANGED <<flags, pipeline, cells, repair>>

(* Faulty: the exception is caught and the call returns all the same. *)
RefusedQuietly(c) ==
  /\ step[c] = "update" /\ ~Accepted(c)
  /\ promised' = promised \cup wanted[c]
  /\ Leave(c)
  /\ UNCHANGED <<flags, pipeline, columns, cells, repair>>

(* The exception ends the call; nobody tries again.                        *)
Refused(c) ==
  /\ step[c] = "update" /\ ~Accepted(c)
  /\ Leave(c)
  /\ UNCHANGED <<flags, pipeline, columns, promised, cells, repair>>

-----------------------------------------------------------------------------
(* LoadTestPipeline *)

Deliver(d, m) ==
  /\ of[d] = NoMessage
  /\ of' = [of EXCEPT ![d] = m]
  /\ toRaw' = toRaw \cup {d} /\ toParsed' = toParsed \cup {d}

(* A message written with a registered schema, some of its fields null.    *)
Receive(d, m) ==
  /\ \A e \in Deliveries : of[e] # m
  /\ Deliver(d, m)
  /\ \E v \in Versions : \E F \in SUBSET Schemas[v] : carries' = [carries EXCEPT ![m] = F]
  /\ UNCHANGED <<flags, known, raw, parsed, failed, ddl, cells, repair>>

(* The source delivers at least once.                                      *)
ReceiveAgain(d, m) ==
  /\ \E e \in Deliveries : of[e] = m
  /\ Deliver(d, m)
  /\ UNCHANGED <<flags, known, carries, raw, parsed, failed, ddl, cells, repair>>

AppendRaw(d) ==
  /\ d \in toRaw
  /\ toRaw' = toRaw \ {d} /\ raw' = raw \cup {d}
  /\ UNCHANGED <<flags, known, carries, of, toParsed, parsed, failed, ddl, cells, repair>>

Carried(d) == carries[of[d]]

(* What the message says of the columns of C. *)
Said(d, C) == {<<f, of[d]>> : f \in Carried(d) \cap C}

(* Faulty: checked against the table and written with the snapshot. *)
FitsTable(d) == mode # "fail" \/ Carried(d) \subseteq columns

(* Without ignoreUnknownValues a field that is not in the snapshot sends   *)
(* the row to the failed output.                                           *)
Fits(d) == mode # "fail" \/ Carried(d) \subseteq known

(* Faulty: the fields are taken from the registry instead of the table. *)
LearnEarly == known' \in IF mode = "update" THEN {known, UNION {Schemas[v] : v \in Versions}} ELSE {known}

(* With autoSchemaUpdate the stream may learn from the reply to the append *)
(* that the table has changed; a reply that is late is one more append     *)
(* without.                                                                *)
Learn == known' \in IF mode = "update" THEN {known, columns} ELSE {known}

AppendParsed(d) ==
  /\ d \in toParsed /\ Fits(d)
  /\ toParsed' = toParsed \ {d} /\ parsed' = parsed \cup {d}
  /\ cells' = [cells EXCEPT ![d] = Said(d, known)]
  /\ Learn
  /\ UNCHANGED <<flags, carries, of, toRaw, raw, failed, ddl, repair>>

FailRow(d) ==
  /\ d \in toParsed /\ ~Fits(d)
  /\ toParsed' = toParsed \ {d} /\ failed' = failed \cup {d}
  /\ UNCHANGED <<flags, known, carries, of, toRaw, raw, parsed, ddl, cells, repair>>

(* The job is started again, or another stream takes over.                 *)
Reopen ==
  /\ known # columns
  /\ known' = columns
  /\ UNCHANGED <<flags, carries, of, toRaw, toParsed, raw, parsed, failed, ddl, cells, repair>>

-----------------------------------------------------------------------------
(* RepairDroppedFields *)

Blank(d, C) == {f \in C : \A m \in Messages : <<f, m>> \notin cells[d]}

Start(r) ==
  /\ at[r] = "idle"
  /\ at' = [at EXCEPT ![r] = "find"]
  /\ cols' = [cols EXCEPT ![r] = columns]
  /\ UNCHANGED <<flags, pipeline, ddl, cells, temp, repairable, deaths, seen>>

(* Faulty: the conditions are joined with `and`. *)
EmptyRow(d, C) == C # {} /\ Blank(d, C) = C /\ (checked => C \subseteq Carried(d))

(* With present_fields, only what the row's own message had counts.        *)
Suspect(d, C) == Blank(d, C) \cap (IF checked THEN Carried(d) ELSE Fields) # {}

(* The columns row d could get from the message of raw row e.              *)
Mends(d, e, C) == Blank(d, C) \cap Carried(e)

Joined(d, e) == TradeOf[of[d]] = TradeOf[of[e]]

(* The query and the decoding of what it returns: one row of the temporary *)
(* table for each pair that mends something.                               *)
Found(C) ==
  {p \in parsed \X raw : Suspect(p[1], C) /\ Joined(p[1], p[2]) /\ Mends(p[1], p[2], C) # {}}

Finish(r) ==
  /\ at' = [at EXCEPT ![r] = "idle"]
  /\ cols' = [cols EXCEPT ![r] = {}]
  /\ temp' = [temp EXCEPT ![r] = {}]
  /\ repairable' = [repairable EXCEPT ![r] = {}]
  /\ seen' = [seen EXCEPT ![r] = {}]

Mendable == {d \in parsed : \E e \in raw : of[e] = of[d]}

NothingToRepair(r) ==
  /\ at[r] = "find" /\ Found(cols[r]) = {}
  /\ Finish(r)
  /\ UNCHANGED <<flags, pipeline, ddl, cells, deaths>>

Find(r) ==
  /\ at[r] = "find" /\ Found(cols[r]) # {}
  /\ temp' = [temp EXCEPT ![r] = Found(cols[r])]
  /\ repairable' = [repairable EXCEPT ![r] = UNION {Mends(p[1], p[2], cols[r]) : p \in Found(cols[r])}]
  /\ at' = [at EXCEPT ![r] = "merge"]
  /\ seen' = [seen EXCEPT ![r] = Mendable]
  /\ UNCHANGED <<flags, pipeline, ddl, cells, cols, deaths>>

(* Rows of the temporary table that the MERGE would update d with.         *)
Sources(r, d) ==
  {p \in temp[r] : Joined(d, p[2]) /\ Mends(d, p[2], repairable[r]) # {}}

(* BigQuery refuses a MERGE in which two rows update the same one.         *)
Ambiguous(r) == \E d \in parsed : \E p, q \in Sources(r, d) : p # q

(* Faulty: every column of the temporary table is taken to have a value. *)
MergedWithNulls(r, d) ==
  cells[d] \cup UNION {Blank(d, repairable[r]) \X {of[p[2]]} : p \in Sources(r, d)}

(* coalesce(p.c, t.c) *)
Merged(r, d) ==
  cells[d] \cup UNION {Mends(d, p[2], repairable[r]) \X {of[p[2]]} : p \in Sources(r, d)}

Merge(r) ==
  /\ at[r] = "merge" /\ ~Ambiguous(r)
  /\ cells' = [d \in Deliveries |-> IF d \in parsed THEN Merged(r, d) ELSE cells[d]]
  /\ Finish(r)
  /\ UNCHANGED <<flags, pipeline, ddl, deaths>>

MergeFails(r) ==
  /\ at[r] = "merge" /\ Ambiguous(r)
  /\ Finish(r)
  /\ UNCHANGED <<flags, pipeline, ddl, cells, deaths>>

Die(r) ==
  /\ at[r] # "idle" /\ deaths < MaxDeaths
  /\ deaths' = deaths + 1
  /\ Finish(r)
  /\ UNCHANGED <<flags, pipeline, ddl, cells>>

-----------------------------------------------------------------------------
RepairStep(r) == Start(r) \/ NothingToRepair(r) \/ Find(r) \/ Merge(r) \/ MergeFails(r)

Next ==
  \/ Reopen
  \/ \E c \in Reconcilers :
       \/ \E v \in Versions : UpToDate(c, v) \/ ReadTable(c, v)
       \/ UpdateTable(c) \/ Refused(c)
  \/ \E d \in Deliveries :
       \/ \E m \in Messages : Receive(d, m) \/ ReceiveAgain(d, m)
       \/ AppendRaw(d) \/ AppendParsed(d) \/ FailRow(d)
  \/ \E r \in Repairs : RepairStep(r) \/ Die(r)

Spec == Init /\ [][Next]_vars

-----------------------------------------------------------------------------
(* Properties *)

(* A row of the parsed table only ever says what its own message said,     *)
(* whatever order appends, column changes and overlapping repairs come in  *)
(* (LoadTestPipeline.java, ToParsedRowFn; RepairDroppedFields.java, main). *)
OwnValues == \A d \in parsed : cells[d] \subseteq Said(d, Fields)

(* Without the two flags no value is dropped in silence: what is in the    *)
(* parsed table is whole, however the table changed under the stream       *)
(* (LoadTestPipeline.java, build).                                         *)
FailsLoudly == mode = "fail" => \A d \in parsed : cells[d] = Said(d, Fields)

(* What a reconciler returned for stays in the table, whoever else wrote   *)
(* a schema read before (BigQueryDdlReconciler.java, reconcile).           *)
ReconciledStays == promised \subseteq columns

(* A repair that ends without an error has left no row blank that it could *)
(* mend: one that was in both tables when it looked, in a column the table *)
(* had when it started (RepairDroppedFields.java, main).                   *)
RepairedIsWhole ==
  [][\A r \in Repairs :
       /\ NothingToRepair(r) => \A d \in Mendable : Blank(d, cols[r]) \cap Carried(d) = {}
       /\ Merge(r) => \A d \in seen[r] : \A f \in cols[r] \cap Carried(d) :
                        \E m \in Messages : <<f, m>> \in cells'[d]]_vars
==============================================================================
