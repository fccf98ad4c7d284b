------------------------------ MODULE ServingJob ------------------------------
(***************************************************************************)
(* A job of the Spark framework that publishes to Firestore, from its spec *)
(* to its documents: what JobSpec.parse accepts, what only a run finds     *)
(* out, the quality gate before the write, and the writers, which commit   *)
(* their rows batch by batch. Runs overlap, tasks are tried again, and     *)
(* what fails halfway leaves the batches that were committed.              *)
(***************************************************************************)
EXTENDS Integers, Sequences, FiniteSets

CONSTANTS
  Clients,     \* the keys of the documents
  Values,      \* what the transforms make of a client
  Bad,         \* the value that violates a quality check
  Gone,        \* no row, or no document, of a client
  Absent,      \* a key that is not in the YAML
  Specs,       \* job specs somebody may write
  Batches,     \* runs of the job: Dataproc batches
  Writers,     \* the partitions of repartition(max_writers)
  BatchSize,
  MaxChanges   \* bound on the changes of the source

ASSUME ServingAssumption ==
  /\ Bad \in Values /\ Gone \notin Values
  /\ BatchSize \in Nat \ {0} /\ MaxChanges \in Nat

-----------------------------------------------------------------------------
(* JobSpec.parse, of a specification whose optional keys (on_failure, mode,*)
(* the lists but for sources) hold their defaults where the YAML has none. *)

SUPPORTED_READERS == {"bigquery", "gcs", "jdbc"}
SUPPORTED_WRITERS == {"bigquery", "gcs", "firestore"}
SUPPORTED_MODES == {"append", "overwrite", "errorifexists", "ignore"}

SourceParses(s) == s.format \in SUPPORTED_READERS /\ s.name # Absent

QualityParses(q) ==
  q.on_failure \in {"fail", "warn"} /\ q.name # Absent /\ q.expression # Absent

DuplicateNames(spec) ==
  \E i, j \in DOMAIN spec.sources : i # j /\ spec.sources[i].name = spec.sources[j].name

Parses(spec) ==
  /\ spec.sources # <<>> /\ \A i \in DOMAIN spec.sources : SourceParses(spec.sources[i])
  /\ ~DuplicateNames(spec)
  /\ spec.name # Absent
  /\ \A i \in DOMAIN spec.transforms : spec.transforms[i].type # Absent
  /\ \A i \in DOMAIN spec.quality : QualityParses(spec.quality[i])
  /\ spec.sink.format \in SUPPORTED_WRITERS /\ spec.sink.mode \in SUPPORTED_MODES

(* What a step raises a TransformError without; the others take anything.  *)
Required(type) ==
  CASE type = "select" -> {"columns"}
    [] type = "filter" -> {"expression"}
    [] type = "deduplicate" -> {"keys", "order_by"}
    [] type = "aggregate" -> {"aggregations"}
    [] type = "join" -> {"source", "on"}
    [] type = "sql" -> {"query"}
    [] OTHER -> {}

TRANSFORMS == {"select", "filter", "rename", "cast", "with_columns", "deduplicate", "aggregate",
               "join", "sql", "repartition"}

(* apply_transforms looks the type up only now.                            *)
StepApplies(step) == step.type \in TRANSFORMS /\ Required(step.type) \subseteq step.args

-----------------------------------------------------------------------------
VARIABLES
  job,      \* the spec in the bucket
  source,   \* client -> the row the transforms make of the source now
  changes,  \* how often the source has changed
  docs,     \* client -> the document, or Gone
  batch,    \* run -> where it is, see Batch
  writer    \* run -> writer -> its rows, and those in the batch it fills

servingVars == <<job, source, changes, docs, batch, writer>>

Rowset == UNION {[S -> Values] : S \in SUBSET Clients}
Batch == [at : {"new", "gate", "plan", "write", "ok", "failed", "refused"}, rows : Rowset, alone : BOOLEAN]
Writer == [mine : SUBSET Clients, todo : SUBSET Clients, pending : SUBSET Clients]

ServingTypeOK ==
  /\ job \in Specs
  /\ source \in [Clients -> Values \cup {Gone}] /\ docs \in [Clients -> Values \cup {Gone}]
  /\ changes \in 0 .. MaxChanges
  /\ batch \in [Batches -> Batch] /\ writer \in [Batches -> [Writers -> Writer]]
  /\ \A b \in Batches, w \in Writers : Cardinality(writer[b][w].pending) < BatchSize

NoWork == [mine |-> {}, todo |-> {}, pending |-> {}]

ServingInit ==
  /\ job \in Specs
  /\ source \in [Clients -> Values \cup {Gone}] /\ changes = 0
  /\ docs = [c \in Clients |-> Gone]
  /\ batch = [b \in Batches |-> [at |-> "new", rows |-> <<>>, alone |-> TRUE]]
  /\ writer = [b \in Batches |-> [w \in Writers |-> NoWork]]

ChangeSource(c, v) ==
  /\ changes < MaxChanges /\ v # source[c]
  /\ changes' = changes + 1 /\ source' = [source EXCEPT ![c] = v]
  /\ UNCHANGED <<job, docs, batch, writer>>

Underway(b) == batch[b].at \in {"gate", "plan", "write"}
To(b, at) == batch' = [batch EXCEPT ![b].at = at]

(* main: a spec that does not parse ends with 2. Steps that are unknown or *)
(* lack an argument raise after the sources were read, in a paid batch.    *)
Submit(b) ==
  /\ batch[b].at = "new"
  /\ IF ~Parses(job) THEN To(b, "refused")
     ELSE IF \E i \in DOMAIN job.transforms : ~StepApplies(job.transforms[i]) THEN To(b, "failed")
     ELSE batch' = [r \in Batches |->
            IF r = b THEN [batch[b] EXCEPT !.at = "gate", !.alone = \A q \in Batches : ~Underway(q)]
            ELSE [batch[r] EXCEPT !.alone = FALSE]]
  /\ UNCHANGED <<job, source, changes, docs, writer>>

Selected == [c \in {c \in Clients : source[c] # Gone} |-> source[c]]

(* run_quality_gate, a pass of its own over the source; null violates.     *)
PassGate(b) ==
  LET strict == \E i \in DOMAIN job.quality : job.quality[i].on_failure = "fail"
      violated == \E c \in Clients : source[c] = Bad
  IN /\ batch[b].at = "gate"
     /\ To(b, IF strict /\ violated THEN "failed" ELSE "plan")
     /\ UNCHANGED <<job, source, changes, docs, writer>>

(* The second pass, whose rows are dealt out to the writers.               *)
StartWrite(b) ==
  /\ batch[b].at = "plan"
  /\ batch' = [batch EXCEPT ![b].at = "write", ![b].rows = Selected]
  /\ \E part \in [DOMAIN Selected -> Writers] :
       writer' = [writer EXCEPT ![b] = [w \in Writers |->
         LET mine == {c \in DOMAIN Selected : part[c] = w}
         IN [mine |-> mine, todo |-> mine, pending |-> {}]]]
  /\ UNCHANGED <<job, source, changes, docs>>

Committed(b, some) == [c \in Clients |-> IF c \in some THEN batch[b].rows[c] ELSE docs[c]]

(* Faulty: one too many.                                                   *)
OverFull(pending) == Cardinality(pending) > BatchSize

Full(pending) == Cardinality(pending) >= BatchSize

(* batch.set, and a commit when the batch is full.                         *)
WriteRecord(b, w) ==
  /\ batch[b].at = "write"
  /\ \E c \in writer[b][w].todo :
       LET pending == writer[b][w].pending \cup {c}
       IN /\ docs' = IF Full(pending) THEN Committed(b, pending) ELSE docs
          /\ writer' = [writer EXCEPT ![b][w].todo = @ \ {c},
                                      ![b][w].pending = IF Full(pending) THEN {} ELSE pending]
  /\ UNCHANGED <<job, source, changes, batch>>

(* Faulty: only full batches are committed.                                *)
DropRest(b, w) ==
  /\ batch[b].at = "write" /\ writer[b][w].todo = {} /\ writer[b][w].pending # {}
  /\ writer' = [writer EXCEPT ![b][w].pending = {}]
  /\ UNCHANGED <<job, source, changes, docs, batch>>

CommitRest(b, w) ==
  /\ batch[b].at = "write" /\ writer[b][w].todo = {} /\ writer[b][w].pending # {}
  /\ docs' = Committed(b, writer[b][w].pending)
  /\ writer' = [writer EXCEPT ![b][w].pending = {}]
  /\ UNCHANGED <<job, source, changes, batch>>

(* Spark tries a task again from its first row.                            *)
RetryTask(b, w) ==
  /\ batch[b].at = "write" /\ writer[b][w].todo # writer[b][w].mine
  /\ writer' = [writer EXCEPT ![b][w].todo = writer[b][w].mine, ![b][w].pending = {}]
  /\ UNCHANGED <<job, source, changes, docs, batch>>

Idle(b) == writer' = [writer EXCEPT ![b] = [w \in Writers |-> NoWork]]

EndWrite(b) ==
  /\ batch[b].at = "write"
  /\ \A w \in Writers : writer[b][w].todo = {} /\ writer[b][w].pending = {}
  /\ To(b, "ok") /\ Idle(b)
  /\ UNCHANGED <<job, source, changes, docs>>

(* An error in any pass, or the batch is killed.                           *)
FailBatch(b) ==
  /\ Underway(b)
  /\ To(b, "failed") /\ Idle(b)
  /\ UNCHANGED <<job, source, changes, docs>>

ServingNext ==
  \/ \E c \in Clients, v \in Values \cup {Gone} : ChangeSource(c, v)
  \/ \E b \in Batches : Submit(b)
  \/ \E b \in Batches : PassGate(b)
  \/ \E b \in Batches : StartWrite(b)
  \/ \E b \in Batches, w \in Writers : WriteRecord(b, w)
  \/ \E b \in Batches, w \in Writers : CommitRest(b, w)
  \/ \E b \in Batches, w \in Writers : RetryTask(b, w)
  \/ \E b \in Batches : EndWrite(b)
  \/ \E b \in Batches : FailBatch(b)

ServingSpec == ServingInit /\ [][ServingNext]_servingVars

-----------------------------------------------------------------------------
(* A run that ends well and has the store for itself has made up for what  *)
(* runs before it left half done: every client of its source is served the *)
(* value the run computed. It is what makes re-running the answer to any   *)
(* failure, and it says nothing of documents whose client has no row left. *)
RerunMakesUp ==
  \A b \in Batches :
    batch[b].at = "ok" /\ batch[b].alone =>
      \A c \in DOMAIN batch[b].rows : docs[c] = batch[b].rows[c]
=============================================================================
