# Verification of the erasure and data pipelines of gcp-dwh-design

This directory holds TLA+ models of the repository, the TLC runs that check
them on small instances and the TLAPS proofs of what holds for every instance.
Definitions keep the names of the code where TLA+ allows it; `PROJECT.json`
maps each to the lines it stands for.

The repository is a warehouse built around one hard promise: a person who asks
to be erased is erased, everywhere, within a month, provably. Most of its code
that decides anything serves that promise or moves the data it is about.

## Inventory

| component | state | operations | talks to |
|---|---|---|---|
| **Erasure sweep** (`privacy/erasure.py`, `privacy/cli.py`, `erasure_targets.yaml`) | queue `raw.erasure_requests` (`completed_at`), the tables of the inventory; in memory the snapshot of the queue, the current subject, the results, the overdue list | `sweep`, `erase`, `verify`, `mark_complete`, dry run | vault, warehouse (DuckDB or BigQuery), tombstone planner |
| **Key vault** (`privacy/vault.py`, `privacy/crypto.py`) | `subject_keys`, `erasure_audit`; sealed fields in every copy | `create_key`, `data_key`, `destroy_key`, `encrypt_field` | producers, sweep, readers |
| **Erasure jobs** (`gdpr_erasure_dag.py`, `privacy_jobs.py`) | task states, attempts, exit codes, outputs handed between ops | deadlines, sweep, verify-all, tombstones, daily schedule | cli, service, Kafka |
| **Tombstones** (`privacy/tombstones.py`) | the topics | `plan`, `emit`, `check_erasure_config` | topic registry, Kafka |
| **Lakehouse erasure** (`privacy/lakehouse.py`) | Iceberg snapshots, data and delete files | `erase`, `physically_present` | Spark |
| **Schema evolution** (`beam/`) | table schema, write streams, raw and parsed tables, failed rows | reconcile, decode, map, write, repair | schema registry, BigQuery |
| **Topic registry, Bronze jobs, Spark framework** (`streaming/`, `spark/`) | generated specs; Bronze partitions; Firestore documents | generate, check; parse, read, transform, gate, write | Kafka offload, BigQuery, Firestore |
| **dbt project** (`dbt/`) | models, incremental partitions, row access policies, policy tags | builds, hooks, tests | raw tables, queue, Terraform's outputs |
| **dbt scheduling** (`dbt_incremental_dag.py`, `gates.py`) | partitions, sensor cursor | sense, build, full refresh | warehouse |
| **Governance scripts** (`governance_vars.py`, `validate_governance.py`) | none; the table and the grants are BigQuery's | hand over variables, validate persona by persona | Terraform, dbt, BigQuery |
| **Contract registry** (`services/contract-api`, `validate_contracts.py`) | the contracts on disk and on main | `check_compatibility`, `check_version_bump`, the CI gate | CI, pull requests |
| **Lineage** (`lineage/`) | the graph of a manifest | build, traverse, checks | CI |
| other scripts, alerting, the rest of Terraform and CI | none that another part reads | | |

What is hard about them:

* *Interleavings.* Nothing in the code locks. Every statement of a sweep
  commits by itself; a scheduled and a manual run, producers, dbt builds and
  restores get in between.
* *Crashes and retries.* A run can die between any two statements, and is
  started again by an orchestrator with retries or by the next day.
* *Staleness.* The queue is a snapshot, the writer's schema is a snapshot, the
  build's view of the queue is a snapshot.
* *Reporting.* Exit codes and raised errors are the only alarm: what matters is
  which bad situations can end in a green run.
* *Statements that are not one.* Erasing from Iceberg, putting policies back
  after a build, publishing to Firestore and validating a table are sequences
  of commits or queries, with others in between.

What makes each correct: completion implies erasure; keys before rows; nobody
else's data; a green run means done in time; destroyed keys stay useless and
others keep working; tombstones follow the sweep; schema changes lose nothing
that repair cannot bring back; builds never resurrect an erased subject for
good; gates never let an empty or unready partition replace a good one. The
`hazards` of `PROJECT.json` list where each bites, with the properties that
would show it, or the reason why none does.

## Modules

| module | what it is |
|---|---|
| `ErasurePromise` | abstract: what one request is promised |
| `ErasureSweep` | the sweep, statement by statement; implements `ErasurePromise` |
| `MCErasureSweep` | instances of it for TLC |
| `ErasureSweepProofs` | theorems about it |
| `KeyVault`, `KeyVaultProofs` | the vault, its theorems |
| `ErasureJobs`, `MCErasureJobs`, `ErasureJobsProofs` | the daily job of both orchestrators, its instances, its theorems |
| `SchemaEvolution`, `MCSchemaEvolution`, `SchemaEvolutionProofs` | a table that gains columns while it is written to, and its repair; its instances; its theorems |
| `BronzeJob`, `MCBronzeJob`, `BronzeJobProofs` | the generated offload of a topic into its Bronze table; the entries of the registry; its theorems |
| `ContractGate` | a data contract on its way through pull requests and the CI gate |
| `Lineage` | the column graph, the checks CI makes with it, and what personal data does once they are green |
| `MCGates`, `GatesProofs` | the two checks of CI, each on its own; the theorems about both |
| `PartitionGate` | which day is built when, and from what |
| `WarehouseBuild` | one client in the marts, between a build and the sweep |
| `AccessControl` | row access policies, policy tags and grants between builds, Terraform and the validation |
| `LakehouseErasure` | one subject leaving one Iceberg table |
| `ServingJob` | a job spec, its parser, and the Firestore documents it writes |
| `MCWarehouse` | the jobs around the warehouse and the vault in it, each on its own |
| `MartsProofs` | theorems about `PartitionGate`, `WarehouseBuild` and `ServingJob` |
| `WarehouseProofs` | theorems about `AccessControl`, `LakehouseErasure` and the types of all parts of `MCWarehouse` |

`MCGates` and `MCWarehouse` are sums, not products: a variable (`check`,
`part`) chosen at the start says which module a behaviour is about, and the
others stay in one initial state. The modules of one sum share no state in the
code either, except where a module already has both sides in it
(`WarehouseBuild` the sweep, `AccessControl` Terraform, `ErasureSweep` the vault).

### ErasureSweep

One step is one statement sent to the vault or the warehouse. The queue is
`status` (a row is there with `completed_at` null or not), the warehouse is
`built` and `rows` (which subjects have a row in which table: counts are not
kept, `verify` only asks whether they are zero), the vault is `keys` and
`audit`. A run is a process `p` with a program counter and its local variables:
`todo` (the list the loop works on), `cur`, `pos` (where in the inventory),
`now`, `existed`, `done` (results), `flagged` (what makes the exit code 1).

| action | code |
|---|---|
| `Look`, `ListPending` | `cli.sweep` looks at the queue; `ErasureService.sweep` reads it again |
| `Shred`, `Audit` | `destroy_key`: the delete, then the audit row. DuckDB counts first and deletes then; as the sweep is the only one that deletes keys and a racing insert can only make the count stale, the count is taken with the delete |
| `Delete` | one turn of the loop of `erase`; skips what is not warehouse or not `delete` |
| `MarkComplete` | `mark_complete`: every open request of the client |
| `StartCheck`, `CheckNext`, `Count`, `EndCount`, `Return` | the loop of `cli.sweep` over the results: `verify`, the overdue list and the exit code |
| `Abort` | BigQuery refuses a query on a missing table; nothing catches it |
| `Crash` | the process is killed |
| `Raise`, `Ingest`, `CreateKey`, `Build`, `Tick` | the world |

`held`, `readable`, `taken` and `present` are history variables: what the
erasable tables held when the request was raised and still hold, whether the key
of that time still exists, the whole snapshot of the queue a run took on, and
which of the rows a run's re-count began over are still there. The code never
reads them.

Queries with the same answer are one operator for both warehouses;
`MissingRaises` is the difference between them. (DuckDB's `pending_requests`
has no existence check either: the queue itself is taken to exist.) The
`_ReadOnlyVault` of a dry run changes nothing and is left out.

### KeyVault

`table` is a set of rows (subject, key), which on BigQuery may hold two of one
subject; `unique`, chosen at the start and never changed, says whether the
vault has DuckDB's primary key, so that a run covers both. `create_key` is `KeyFound`, or `Draw`
and then `Insert` or `Refused`; `destroy_key` is `Destroy` and then
`RecordDestruction`. `records` is every sealed field, wherever it has been
copied to; nothing removes from it, as nothing can be assumed about copies.
Nonces and ciphers are ideal. In the repository `create_key` is called by tests
only: the producers it is written for are outside.

### ErasureJobs

A task is one step with an exit code. `stack`, chosen at the start from
`Stacks`, is the orchestrator. For
Airflow, `Argv` holds the words of the command lines; `Accepts` is what argparse
makes of them, `Reaches` whether they look at the warehouse, and a task is
retried twice before the run fails and its successors are skipped. Dagster ops
call the service directly, are not retried and hand values on (`atRisk`,
`swept`). An operator may sweep by hand, subjects may come back and be cleaned
up, any task may die half-way.

The state of a request is `status`, `age` and `since` (days since it was made
and since it was completed, each saturating where no comparison can tell any
more). `back` are the completed requests whose subject is in a delete target
again, `tombstoned` those a tombstone was produced for. `owed` is a history
variable: who was completed, and within the window of the tombstone task, when
the run began.

### SchemaEvolution

`columns` are the data columns of the parsed table, `known` the write stream's
snapshot of them. A reconciler reads the table (`ReadTable`, or `UpToDate` when
there is nothing to add) and writes the whole schema back (`UpdateTable`, or
`Refused` when BigQuery sees a column missing from it); nothing holds the two
together. A message is the set of fields it has a value for (`carries`), a
delivery `d` is one copy of a message in the pipeline (`of`), and goes to the
raw and the parsed sink independently. A row's `cells` are pairs of a column and
the message the value is from, so that a value from the wrong message shows.

| action | code |
|---|---|
| `Receive`, `ReceiveAgain` | the source, at least once |
| `AppendRaw`, `AppendParsed`, `FailRow` | the three sinks; `mode` holds the flags: "fail" (neither), "ignore" (`ignoreUnknownValues`), "update" (`withAutoSchemaUpdate`, which forces the other) |
| `Reopen` | a restarted job or a new write stream |
| `Start`, `Find` or `NothingToRepair` | `RepairDroppedFields`: read the schema, query, decode, load the temporary table, which is private to the run |
| `Merge`, `MergeFails` | the MERGE; BigQuery refuses it when two rows of the temporary table update the same row |
| `Die` | the job killed |

Fields of version 1 are in every message and left out. The registry holds every
version from the start: which version a reconciler or a producer is at is its
own choice in each call. `TradeOf` is the key the repair joins on.

### BronzeJob

One topic, its landed records and its Bronze table. `topic` is the entry of the
registry the job is generated from, chosen at the start: what matters of it is
the key of the log, the dedupe key, whether `kafka_offset` breaks ties, and
whether erasure reaches it as a tombstone. A record has the columns that are
some entry's key, the two timestamps and the offset; `null_value` is whether it
really is a tombstone, which only the properties read.

The operators from `IsDelete` to `Passes` are the generated specification:
`_transforms` and `_quality` as functions of an entry and a record.
`Deduplicated` is the set of all outcomes of a pass, as `row_number` breaks ties
arbitrarily. A batch `r` lists its files (`Start`), runs the plan for the gate
(`Gate`) and again for the write (`Write`), each with an outcome of its own, and
may die in between (`Die`). `bronze` maps an event date to the rows of that
partition, `NoDay` is the null partition.

Two things are taken from outside the code. The connector lands a record under
`dt=` of the day the broker took it (the default of a time-based partitioner,
and the only time a tombstone has). BigQuery commits the overwrite of a batch as
a whole. An event may reach the broker on any day from its own on; `Skew` is how
far a producer's clock may be ahead. A payload is `Misdated` if the day it says
it is of is not the day it landed on, for either reason.

### ContractGate

`released` is the contract on main, release after release; `pulls` the open
pull requests with the release they are based on and the verdict they have. A
contract is its id, grain, version, freshness promise and schema (field to
type, required, class): what the rules look at, as operators named for the
rules. `Check` is the CI job as a whole; a pull request that fails stays as it
is. `Registered` is what `git show origin/main:...` returns, which is nothing
when the checkout has no `origin/main` (`FetchesMain`). That a green pull
request has to be up to date before it is merged is a setting of the host and an
assumption here.

The patch number is left out, as no rule reads it, and so is a contract file
that is deleted or renamed, which the gate does not look at.

### Lineage

One change to the project: `Write`, then `graph.build` column by column
(`TraceColumn`), then `pii_reach` as it runs (`StartImpact`, `Expand` for one
turn of the loop over the queue, `EndImpact`), then the checks (`EndCheck`) and,
if they pass, builds in production. `flows` is what the SQL really does,
`untraceable` the columns sqlglot gives up on, `edges` and `unresolved` what the
graph knows; `carries` is where personal data has really got to, which the code
never sees. `DependsOn` is what the manifest names, ephemeral models included;
`ReadsFrom` what is behind those.

### PartitionGate

A day is built from the sources that have landed. `deployment`, chosen at the
start, is the Airflow DAG (waits, times out, one run at a time), the Dagster
schedule (does not wait) or the Dagster sensor (looks at yesterday and keeps a
cursor). A run passes its test of the window (`TestWindow`), reads and writes;
each is a step of its own, since sources land in between. A full refresh by an
operator rebuilds everything. `mart` keeps for each day which sources its
partition was built from, `ends` how runs for it have ended.

### WarehouseBuild

One client, the models that hold or filter that client, and two processes: the
build reads and writes model by model, in any order the dependencies allow, and
ends in `assert_erased_clients_absent`; the sweep deletes, completes and counts
target by target (`verify-all` ends in the same count). `holds` says which
table has rows of the client. `fct_client_activity` is two cells, the window and
the `past`, as `insert_overwrite` replaces one and the sweep deletes from both.
`alone` is the case where nobody else was active on the day, so that a select
without the client returns no rows and nothing is overwritten. `reported` is
the alert of a failed run. How the sweep chooses and shreds is in
`ErasureSweep`; here only what it does to the tables of one client is.

### AccessControl

`conf` is what Terraform has applied (policies, tags, whether masking is on,
grants), `policies`, `tags` and `filled` are the table. A builder reads the
variables (`ReadVars`: the outputs if it is `Governed`, the defaults of
`dbt_project.yml` otherwise), replaces the table, drops all policies, creates
them one by one and sets the tags; any of it may fail. The validation
(`StartProbe`, `AskAs`) asks one query at a time as each persona and compares
with `EXPECTATIONS`. `RowsFor` and `Column` are what BigQuery answers.

### LakehouseErasure

The four commits of `erase` (delete, rewrite data files, rewrite delete files,
expire), on either delete mode, between appends and a compaction by another job
that writes first and commits later. A snapshot has its data files and those of
them that delete files refer to; `storage` is what is in the bucket. `erased`
are the rows an `erase` has returned for, `known` (a history variable) the files
some snapshot has had. `Local` gives the session's time zone,
in which the literal of the expiry is read.

### ServingJob

`Parses` is `JobSpec.parse` with the checks of `SourceSpec` and `QualitySpec`
(`QualityParses`); `Submit` refuses what it refuses, and fails in the
paid batch what only a run finds out (`StepApplies`). The gate and the write are
passes of their own over a source that may change in between. The rows are dealt
to writers, each of which commits batch by batch and may start again from its
first row; a run may fail between any two commits and another may be at work at
the same time. `alone` is whether no other run was under way while it was.

## Runs

| run | question | bounds |
|---|---|---|
| `sweep_overlap` | do two overlapping runs, a crash, missing tables and rows and keys appearing at any time keep the promise? | 1 request, 4 targets of which 2 are swept, 2 runs, 1 crash, DuckDB's handling of missing tables |
| `sweep_queue` | does a run on a longer queue touch only who asked, does exit 0 speak for the whole snapshot (done, in time, nothing left that the re-count began over), and is every request completed in the end? | 2 requests on 2 days, 2 targets of which 1 is swept and not built yet, BigQuery's handling of missing tables, 1 crash |
| `jobs` | what does a green run mean on each orchestrator, also for what failed runs before it left, were the DAG's command lines right, and does the Dagster job get to every request? | 2 requests, 1 crash, 2 retries, deadline 4, warning 3, window 1 day |
| `jobs_as_in_dag` | does the DAG as it stands ever complete a request? **violated** | 1 request |
| `schema` | do racing reconcilers, a late stream, repeats and dying repairs lose or invent a column or a value? | 2 new columns in 3 versions, 2 deliveries of up to 2 messages, 2 reconcilers, 1 repair at a time, 1 death, all flags |
| `bronze` | what gets past the gate, and what stops a day, and what do a re-run, a repeat, a late event and a tombstone do to the table? | 4 entries standing for all topics but market.price, 2 records, 2 batches at once, 2 started, 3 ticks in 2 days, skew 1 tick |
| `bronze_late` | does a batch leave other dates alone? **violated** by a late event | as `bronze`, trade.execution |
| `bronze_preferences` | is a tombstone exempt from the rules about payload contents? **violated** | as `bronze`, marketing.preferences |
| `gates` | can contracts that pass one by one add up to a break, and is personal data covered wherever it gets to when the lineage check is green? | 3 releases, 2 pull requests, 15 contracts that differ in one respect; 2 sources, 3 models and an ephemeral one, 6 columns, every set of 5 flows, 2 columns that may be untraceable |
| `contract_ci` | the contracts job with the checkout it has: **violated** | as `gates` |
| `warehouse` | are days whole and missed days reported; does an erased client stay away; do controls vanish unnoticed, and what does a green validation prove; is an erased row really out of the files; does a re-run of the serving job make up for a failed one; what survives concurrent create and destroy in the vault, with and without a primary key? | 3 days, 2 sources, 1 refresh; 1 client; 2 builders, 4 configurations, 1 change; 2 rows of the subject and 1 other, 5 commits, 2 instants; 2 clients, 2 runs, 2 writers, batches of 2, 6 specs, 1 change of the source; 2 subjects, 3 keys, 2 callers |
| `access_scheduled` | the scheduled build with the variables it passes: **violated** | as `warehouse` |

*Why the bounds are enough.* In the sweep, two runs are what it takes for one to
overtake the other, and processes only meet in the shared tables. Two swept
targets around a retained and a lake target make "first", "last" and "skipped"
different positions. In `schema`, two columns of which no
version has both are what it takes for a reconciler to be refused, and two
deliveries are two messages or one message twice; a blank, a repair and a
second repair fit in a behaviour. Day 1 with a deadline of 1 is the boundary day. In the
jobs, the day counts are scaled down but keep their order (window < warning <
deadline). In `bronze`, two records tie, repeat or supersede one another, two
batches are a run and its re-run or an overlap, and two ticks a day with one
over make before, same time, later and another day.

In `gates`, three releases are the least in which a break can add up of two
steps, and two pull requests the least of which one can be overtaken by the
other; the contracts differ in every respect a rule looks at. The lineage has a
path over two models with an ephemeral one in it, a branch and a join. In
`warehouse`, three days let one be missed while another is late; two builders
with two configurations are what it takes for an older one to undo a newer;
five commits are one `erase` of four and a write or a compaction anywhere in it,
or one that dies and is begun again; and with two writers and a batch size of
two, batches fill or are left over, and one writer may have committed when the
other fails. A validation that is overtaken by an alteration is not followed
further (`probe'.at # 0 => steady'` in `MCWarehouse`): it proves nothing, and
`PassIsProof` says nothing of it.

The theorems below remove these bounds where they apply.

*Violation runs* check a sentence of the repository's own documentation against
what the code does; `findings` in `PROJECT.json` quotes both. There are five:
the DAG whose command lines no parser accepts (`jobs_as_in_dag`), the late event
that replaces a day (`bronze_late`), the tombstone that is taken for a payload
and stops the day (`bronze_preferences`), the contract gate whose checkout has no
main to compare with (`contract_ci`), and the scheduled build that takes the
access controls off and reports success (`access_scheduled`). The passing runs
of the same modules have the constant in question the way the documentation
describes it (`Argv`, `FetchesMain`, `Governed`); `bronze` has the same records and entries as
the two violated runs of its module, and checks what does hold of them
(`LostToMisdated` where `bronze_late` refutes `OtherDatesKept`, `RefusedForCause`
where `bronze_preferences` refutes `RefusedForPayload`).

`jobs` checks the DAG with `--target bigquery` moved in front of the
command (`TargetFirst`), because with the words as they are no task does
anything. Even then two things remain, which no run claims otherwise: the
deadline check fails the run before the sweep when a request is 21 days old, so
the sweep waits for an operator; and a sweep that exits 1 for a late completion
is retried, finds an empty queue and ends green. `LateIsReported` and
`EventuallyCompleted` therefore speak of Dagster only, as `QuietRun` does of
Airflow (the Dagster job plans tombstones and sends none).

*Fairness.* `sweep_queue`: the schedule starts runs (`Start`), a run that is
not killed goes on (`Step`), dbt creates the tables of the inventory (`Build`).
Crashes are bounded: without that, nothing ever completes. Neither requests nor
ingestion are fair. `jobs`: the scheduler starts the daily run and its
tasks, and days pass; operators are not fair. The other runs check safety and assume
no fairness.

## Where the properties stop

What the code does not do, as far as it bounds a property above:

*Erasure.* `mark_complete` goes by subject: with two requests of one subject, the
second is closed by a run that began before it was raised. The theorems assume
`OneRequestPerSubject`, and `sweep_overlap` has one request. `erase` writes
`completed_at` before the re-count, which docs/gdpr-erasure.md has the other way
round. A run killed between the delete of a key and the audit row leaves a
destruction that is not on record (the retry finds no key; privacy/vault.py:153).
On BigQuery, which has no primary keys, two racing `create_key` calls leave two
keys for one subject. The Dagster job's description lists tombstones it never
sends. `dim_restricted_client` is in neither the inventory nor the absence test,
and is clean only after the next build.

*The lakehouse.* A snapshot somebody tagged keeps its files, and the hour that
occurs twice in autumn is read as the earlier one, which leaves the snapshot that
still holds the subject (`NoRepeatedHour` excludes it). What a compaction wrote
and could not commit is an orphan with the rows in it until
`remove_orphan_files` runs; `Forgotten` is about files some snapshot has had.

*Streams.* The repair joins on trade_id: with several messages of one trade (as
trade.execution.v2 has) it mixes their values, which is why `schema` has one
message per trade. When a message was delivered twice, the temporary table of
the repair has two rows for one trade, and BigQuery refuses the MERGE for the
whole table every time. `RepairedIsWhole` still holds, as the run ends in an
error. In marketing.preferences.v1 a tombstone is not exempt from the gate (its
first dedupe key is the log's key) and stops the day, every day its file is read
again: `bronze_preferences`. `bronze` leaves out market.price, whose dedupe key
contains the timestamp, so that only repeats tie. A late event takes part in
three of its properties: `LostToMisdated` says which rows may be lost,
`TombstoneSupersedes` leaves a key alone that has a misdated record in the batch,
and `RerunIsIdempotent` holds as it is. `RefusedOnlyInTies` says what the gate
cannot promise: in a topic with
tombstones, a payload without a timestamp can take the place of a row it ties
with between the two passes. That a topic with tombstones keeps one row per
subject and date, and so drops all but the latest of several statuses or
preferences of a day, is how the generator wants it (the log is compacted by the
same key) and no property forbids it.

*Days.* The Dagster sensor looks at yesterday only: a day that is complete after
the next midnight is never requested, and a run it requested that failed is not
requested again. `MissedIsReported` is about the other two. With `catchup=False`
the DAG makes up for nothing while it is paused. An older full refresh that
writes after a daily run takes the day back to what it read. `insert_overwrite`
of an empty select leaves the partition as it was.

*Access.* Between `create or replace` and the last policy, the table is open or
half open in every build; `NeverSilentlyOpen` is about what is left when
everything is quiet.

*Serving.* `write_firestore` merges document by document whatever `mode` says:
documents of clients without a row stay, and the inventory of the erasure does
not name the collection. An unknown transform is found by the run, though
spark/framework/config.py:6-8 says a typo fails before a batch is paid for.

*Contracts.* The version may go back, and the freshness promise may be withdrawn
and a weaker one given later; each step passes, and together they break what
consumers pinned. `Steady` says so in both properties. The registry looks
contracts up by the id in the document, the gate by the path of the file.

*Lineage.* In a model that reads an ephemeral one, `reads` lacks the tables
behind it: a column that cannot be followed there is not near personal data as
far as the check knows. `MayFail` leaves such columns out of the run, and
`NothingHidden` says where `Covered` can be relied on.

## Theorems

The theorems hold for every value of the constants that satisfies
`SweepAssumption`, `VaultAssumption`, `JobsAssumption`, `SchemaAssumption`,
`BronzeAssumption`, `ContractAssumption`, `LineageAssumption`, `GateAssumption`,
`WarehouseAssumption`, `AccessAssumption`, `LakehouseAssumption`,
`NoRepeatedHour` and `ServingAssumption`: any queue, inventory, number of runs,
crashes, messages, versions, repairs, registry entries, batches, releases, pull
requests, projects, days, builders, commits, snapshots, writers and documents.

Some need more, and say so in their statement:

| hypothesis | what it says of the code |
|---|---|
| `OneRequestPerSubject` | no subject has two requests in the queue (nothing in the queue's table prevents it) |
| `Bootstrap` | KAFKA_BOOTSTRAP_SERVERS is set, without which the tombstone task publishes nothing |
| `OneMessagePerTrade` | a topic's key names one message |
| `FetchesMain` | the contracts job has a main to compare with |
| `NothingHidden` | every model is in the catalog, and no column that cannot be followed is behind an ephemeral model |
| `Governed = Builders` | every builder gets the variables Terraform has put out |
| `SweptIsTested` | assert_erased_clients_absent.sql looks into every swept table but the raw one: dim_client, fct_client_activity and feat_client_activity, which is what it does |

| theorem | states |
|---|---|
| `TypeCorrect` | `Spec => []TypeOK` |
| `CompletedIsGone` | `OneRequestPerSubject`: `Spec => []CompletedMeansGone` |
| `KeyGoesFirst` | `OneRequestPerSubject`: `Spec => ShredBeforeDelete` |
| `OnlyWhoAsked` | `Spec => ErasureIsTargeted` |
| `SweepKeepsPromise` | `OneRequestPerSubject`: the sweep implements `ErasurePromise` |
| `QuietExitIsEarned` | `Spec => []QuietExit`: the whole snapshot, also when a subject asked twice |
| `DestructionIsFinal` | `Spec => []ShreddedForGood` |
| `SealedIsLegible` | `Spec => []SealedOpens`, which speaks of vaults with a primary key |
| `BackFailsTheRun` | `Spec => []BackIsReported` |
| `LateFailsTheRun` | `Spec => []LateIsReported` |
| `QuietRunServedAll` | `Bootstrap`: `Spec => []QuietRun` |
| `QuietRunCatchesUp` | `Bootstrap`: `Spec => []CatchesUp` |
| `ReconciledForGood` | `Spec => []ReconciledStays` |
| `OnlyOwnValues` | `OneMessagePerTrade`: `Spec => []OwnValues` |
| `NothingDroppedInSilence` | `OneMessagePerTrade`: `Spec => []FailsLoudly` |
| `RepairLeavesNoBlank` | `Spec => RepairedIsWhole` |
| `GateHolds` | `Spec => []RefusedOnlyInTies` |
| `Idempotent` | `Spec => RerunIsIdempotent` |
| `RepeatsOnly` | `Spec => OnlyRepeatsDropped` |
| `OnlyMisdatedOverwrite` | `Spec => LostToMisdated` |
| `TombstonesSupersede` | `Spec => TombstoneSupersedes` |
| `RefusalsHaveCause` | `Spec => RefusedForCause` |
| `ReadersKeepReading` | `FetchesMain`: `ContractSpec => []UnderOneMajor` |
| `NumbersNameSchemas` | `FetchesMain`: `ContractSpec => []VersionNamesSchema` |
| `FindsTheClosure` | `LineageSpec => []ReachIsClosure` |
| `GreenIsCovered` | `NothingHidden`: `LineageSpec => []Covered` |
| `GatesTyped` | `Spec => []TypesOK` of `MCGates` |
| `NoHalfDays` | `GateSpec => []WholeDays` |
| `NoDayGoesMissing` | `GateSpec => []MissedIsReported` |
| `NoProcessingAfterAsking` | `WarehouseSpec => []ProcessingStops` |
| `NobodySlipsThrough` | `SweptIsTested`: `WarehouseSpec => []PresentIsReported` |
| `ControlsReturn` | `Governed = Builders`: `AccessSpec => []NeverSilentlyOpen` |
| `ValidationProves` | `AccessSpec => []PassIsProof` |
| `ErasedForGood` | `LakeSpec => []Forgotten` |
| `RerunServesAll` | `ServingSpec => []RerunMakesUp` |
| `WarehouseTyped` | `Spec => []TypesOK` of `MCWarehouse` |

(`TypeCorrect` is proved of `SchemaEvolution`, `BronzeJob` and `ErasureJobs` as well,
and as `LineageTypeCorrect` of `Lineage`.)

*The sweep's argument.* `CompletedMeansGone` is not inductive: it says nothing
of a run that is half-way. `SweepInv` adds, for every run, what it has achieved
by where it is (`RunInv`): past `Shred`, the current request is no longer
`readable`; past `Audit`, the destruction is on record; at position `i` of the
inventory, no swept table before `i` is in `held`. These facts are stable under
every other process, because `held` and `readable` of a raised request only
shrink: what arrives later belongs to nobody's request yet. That is exactly
where a second request of the same subject breaks it: `held` grows at its
`Raise`, a run for the first request is past those tables, and `mark_complete`
closes both. So the theorems assume `OneRequestPerSubject`. `OnlyWhoAsked` and
`QuietExitIsEarned` need no such assumption. `ExitInv` follows the whole snapshot
through a run: every request of it is still to do, or at hand, or completed and
among the results (`SnapshotInv`); one that was late is flagged when it is closed
(`DeadlineInv`); and of the results that have been re-counted, either a row was
found and the run is flagged, or none of the rows its re-count began over is left
(`CountInv`). A completed request stays completed (`CompletedStays`), and what
others do to `present` only shrinks it, as a row that arrives later is not in it
(`PresentInv`, `PresentStep`).

*The jobs' argument.* `JobInv` says of every place in the list of tasks what has
been achieved before it: past the sweep, everybody the run began with is
completed; past the verification, nobody who was back at the start still is. A
task that dies is begun again where it was, so the facts survive retries, and
what others do meanwhile only adds to them. Whom the
run began with was completed on the run's own day if at all, and that day lies in every
window the tombstone task asks for; so `QuietRun` follows, and needs no bound
on the retries. For `CatchesUp`, `owed` was in the window when the run began, a
run lasts no longer than its day, and so its requests are in the window of
whichever attempt of the task gets through, wherever those before it died
(`TombstonesReachAll`); a run that has turned green is only followed by the next
one's start (`Kept`, `StepKeepsCaughtUp`).

*The vault's argument.* A key drawn is drawn once, so the key of an insert
under way has sealed nothing, and a deleted row's key is in nobody's insert.
`SealedOpens` needs the rows to be a function of the subject, which the primary
key gives.

*The table's argument.* A reconciler writes a superset of what it wants, and a
write that would drop a column is refused, so promised columns stay. A row is
written with what its message says and merged with what messages of its key
say: with one message per key (`OneMessagePerTrade`), that is the same message.
The registry has a topic (trade.execution.v2) that does not satisfy it. For `RepairedIsWhole` the
invariant is what a repair owes (`Owed`): every column a row it has seen should
have is filled by now, or in the temporary table with a row for it. Appends and
other repairs only fill, so what is owed can only be paid.

*The table of a topic.* Two passes over the same files differ only among rows of
one key and one time (`FirstsTie`). Without tombstones the gate reads nothing
but the key and the time, so such rows pass or fail alike (`TiedRowsPassAlike`);
with unique offsets there are no such rows (`OneOutcome`). `BronzeInv` says that
a batch past its gate has seen a pass in which everything passed, that rows are
in the partition of their date and records have offsets of their own;
`Settled`, that the latest write is what the table still holds. The files of a
batch landed on its date; so a row it replaces that landed on another date is in
one partition with a record that did not, and one of the two is `Misdated`
(`OnlyMisdatedOverwrite`). A tombstone is never `Misdated`. Where no payload of its key in the batch
is, all records of the key are in one partition and the pass has put them in order, which is
`TombstonesSupersede`.

A tombstone has the log's key and null in every other column (`MarkersInv`).
Unless the column it is recognised by is the log's key, the gate exempts it, and
what is refused is a payload: `RefusalsHaveCause`, for any registry.

*The contract's argument.* The gate compares neighbours only. `KeptByAll` says
that any two releases with `Steady` between them are as compatible as
neighbours: widenings compose, fields that are kept are kept, and versions that
do not go back stay in the major number they began and end with
(`ReadableStepsCompose`). It takes a verdict that was reached against the current
main (`Compared`), hence `FetchesMain`.

*The traversal's argument.* `Border`: whoever an edge leads to from what has been
seen has been seen, or is at the edge the loop still works on; `Least`: no closed
set that has the roots has less. When queue and roots are empty that is the
closure. For `Covered`, every flow of the SQL is an edge or a column the check
reports (`FlowsAreSeen`), if `NothingHidden`.

*The days' argument.* By the time a run writes, what it has read of a day is all
of its sources or nothing (`WindowInv`), so a partition it replaces is whole or
empty; a full refresh says of itself that it was one. The clock is at most a
day behind, and every day it launched is under way or has ended (`ClockInv`,
`Accounted`).

*The build's argument.* `StopInv`: a build that began after the request has no
model with the client in it, and where its dim_client is done, the client is not
there. For `PresentIsReported` there are two nets, the test at the end of a build
and the count at the end of a sweep. `WatchInv` says of a completed client that
nothing is left, or it was reported, or a test or a count that will meet it is
still to come. It rests on `TestedInv`, that a build writes none of the tested
tables after its tests, and on `SourceInv`, that nothing brings the client back
into the raw table.

*The access argument.* Whoever drops the policies last is under way and has
created every policy before its position, or has failed and not touched the
table since, or all policies of some applied configuration are there (`PoliciesAccounted`); the
same of tags. With an ungoverned builder the last dropper may end well, which is
what `access_scheduled` shows. Of a validation, `ProbeInv` says that every
answer it has had would be the same now, as long as nothing was altered; a
validation that is through has asked every table every question
(`EverythingIsAsked`), and the answers together are `PassIsProof`.

*The lakehouse's argument.* What a delete has taken out of the queries does not
come back into them (`DueIsHidden`), because a compaction writes no more than its
base showed (`CompactionInv`) and is refused if that has changed. After
`RewriteDataFiles` it is not in the current files either (`RewrittenInv`), and
`Cutoff` is now (`CutoffIsNow`), so the expiry leaves the current snapshot alone;
files leave storage with the last snapshot that has them (`Referenced`).

For the types, `PendingOut` is needed: the file of a compaction that has not
committed is in no snapshot, so no expiry takes it from under the commit.

*The serving argument.* Rows are dealt to writers, so that every row of the
source is somebody's: committed, pending with its writer, or still to come
(`DealtInv`). A writer that is tried again begins with all its rows, and
`ServedInv` says that what it has committed is in the store with the value the
run computed, as long as nobody else writes (`AloneInv`).

*Left to TLC.* `EventuallyCompleted`, which `sweep_queue` and `jobs` check: it is
liveness under fairness, for which the prover has no rules of ENABLED. The five
violation runs are counterexamples and need no proof. Every other property of
the runs is a theorem.

## Plan

What is modelled stands, and every safety property of the runs is proved. What
is left, in this order:

1. An abstract specification of the daily job (everybody asked about is seen to,
   or the run fails), with `ErasureJobs` shown to implement it.
2. The same for the serving job (a run that ends well replaces what its source
   has), with `ServingJob` shown to implement it.
3. The type mapping of the streaming writes (`AvroTypes`, `BqType`).

## Not modelled

Encryption itself, compaction in the broker, and the evaluation of SQL other
than the filters named above: the marts' arithmetic and their single-query data
tests have no state a step could get wrong. `check_erasure_config`,
`generate_topic_jobs --check` and the registry clients of `beam/` are
comparisons of files or calls of a service. The HTTP service of the contracts
answers from the same rules as the gate and keeps nothing. Alerts are taken as
sent when a run fails. `generate_test_data`, `dora_metrics`, `dataplex_report`,
`serve_features` and `lineage_demo` run once and write nothing another part
reads back (the demo draws its keys itself and does not go through the vault).
Of Terraform, CI and the container images only what a model names is taken
(grants and outputs, the checkout of the contracts job); the Dockerfiles copy
`dbt/` only, so the erasure commands need an image of their own.
