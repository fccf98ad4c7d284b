----------------------------- MODULE ErasureJobs -----------------------------
(***************************************************************************)
(* The daily erasure job of the two orchestrators: the Airflow DAG         *)
(* gdpr_erasure (airflow/dags/gdpr_erasure_dag.py), whose tasks are the    *)
(* commands of privacy/cli.py in pods, and the Dagster gdpr_erasure_job    *)
(* (dagster/dwh_dagster/privacy_jobs.py), whose ops call the same service. *)
(*                                                                         *)
(* A task is one step, with the exit code its command ends in; what goes   *)
(* on inside a sweep is in ErasureSweep.  What matters here is which tasks *)
(* run, what a failed one stops, and who gets to know.                     *)
(***************************************************************************)
EXTENDS Naturals, Sequences

CONSTANTS
  Requests,
  Stacks,        \* the orchestrators the job may run on: "airflow", "dagster"
  Argv,          \* task -> words of the pod's command line, option values left out
  Bootstrap,     \* KAFKA_BOOTSTRAP_SERVERS is set
  Retries,       \* of an Airflow task; 2 in the code
  WarnDays,      \* 21 in the code, DEADLINE_DAYS - 9 in the Dagster op
  DeadlineDays,  \* 30 in the code
  SinceDays,     \* 7 in the code
  MaxCrashes     \* bound on the tasks that die half-way

TaskNames == {"deadlines", "sweep", "verify", "tombstones"}

ASSUME JobsAssumption ==
  /\ Stacks \subseteq {"airflow", "dagster"}
  /\ Argv \in [TaskNames -> Seq(STRING)]
  /\ Bootstrap \in BOOLEAN
  /\ Retries \in Nat /\ MaxCrashes \in Nat /\ SinceDays \in Nat
  /\ WarnDays \in Nat /\ DeadlineDays \in Nat /\ WarnDays <= DeadlineDays

VARIABLES
  stack,       \* the orchestrator of this deployment
  status,      \* request -> absent, pending, completed
  age,         \* request -> days since requested_at, at most DeadlineDays
  since,       \* request -> days since completed_at, at most SinceDays + 1
  back,        \* completed requests whose subject is in a delete target
  tombstoned,  \* requests a tombstone was produced for
  run,         \* state of the latest run of the job
  task,        \* position of the task it is at
  attempt,     \* of that task
  ranToday,
  atRisk,      \* what the deadline op hands to the sweep op
  swept,       \* what the sweep op hands to the verify op
  crashes,
  asked,       \* history: requests pending when the run started
  owed,        \* history: completed when it started, within the window
  stale,       \* history: back since before the run started
  late         \* history: completed by this run past the deadline

queueVars == <<status, age, since, back>>
runVars == <<run, task, attempt, atRisk, swept>>
historyVars == <<asked, owed, stale, late>>
vars == <<stack, queueVars, tombstoned, runVars, ranToday, crashes, historyVars>>

TypeOK ==
  /\ stack \in Stacks
  /\ status \in [Requests -> {"absent", "pending", "completed"}]
  /\ age \in [Requests -> 0 .. DeadlineDays]
  /\ since \in [Requests -> 0 .. SinceDays + 1]
  /\ run \in {"never", "running", "ok", "failed"}
  /\ task \in 1 .. 5
  /\ attempt \in 1 .. Retries + 1
  /\ ranToday \in BOOLEAN
  /\ crashes \in 0 .. MaxCrashes
  /\ \A R \in {back, tombstoned, atRisk, swept, asked, owed, stale, late} : R \subseteq Requests

Init ==
  /\ stack \in Stacks
  /\ status = [r \in Requests |-> "absent"]
  /\ age = [r \in Requests |-> 0]
  /\ since = [r \in Requests |-> 0]
  /\ back = {} /\ tombstoned = {}
  /\ run = "never" /\ task = 1 /\ attempt = 1 /\ ranToday = FALSE
  /\ atRisk = {} /\ swept = {} /\ crashes = 0
  /\ asked = {} /\ owed = {} /\ stale = {} /\ late = {}

-----------------------------------------------------------------------------
(* The command line (privacy/cli.py, main): the options of the parser      *)
(* itself come before the command, those of the command after it.          *)

GlobalOptions == {"--target", "--database", "--project"}

OwnOptions(command) ==
  CASE command = "sweep"      -> {"--dry-run"}
    [] command = "deadlines"  -> {"--warn-days"}
    [] command = "tombstones" -> {"--bootstrap", "--since-days"}
    [] command = "verify"     -> {"--subject"}
    [] OTHER                  -> {}

Commands == {"sweep", "verify", "verify-all", "deadlines", "tombstones", "check-topics", "targets"}

Accepts(argv) ==
  \E i \in 1 .. Len(argv) :
    /\ argv[i] \in Commands
    /\ \A j \in 1 .. i - 1 : argv[j] \in GlobalOptions
    /\ \A j \in i + 1 .. Len(argv) : argv[j] \in OwnOptions(argv[i])

(* Without --target a command opens the pod's own DuckDB file, and fails   *)
(* on the queue that is not in it.                                         *)
Reaches(argv) == \E i \in 1 .. Len(argv) : argv[i] = "--target"

Tasks ==
  IF stack = "airflow" THEN <<"deadlines", "sweep", "verify", "tombstones">>
                       ELSE <<"deadlines", "sweep", "verify">>

(* Faulty: the same for the ops. *)
AlwaysRetried == Retries + 1

(* default_args of the DAG; a Dagster op is not retried. *)
Attempts == IF stack = "airflow" THEN Retries + 1 ELSE 1

(* Faulty: the deadline op fails too. *)
AnyGate == TRUE

(* `deadlines` exits 1 on a request near its deadline; the op only warns.  *)
Gates == stack = "airflow"

At(name) == run = "running" /\ task <= Len(Tasks) /\ Tasks[task] = name

Runnable(name) == stack = "dagster" \/ (Accepts(Argv[name]) /\ Reaches(Argv[name]))

Pending == {r \in Requests : status[r] = "pending"}
Completed == {r \in Requests : status[r] = "completed"}
Near == {r \in Pending : age[r] >= WarnDays}
Overdue(R) == {r \in R : age[r] >= DeadlineDays}

(* Faulty: the window is laid over requested_at. *)
RecentlyAsked == {r \in Completed : age[r] <= SinceDays}

(* Faulty: only what the sweep of this run returned. *)
RecentlySwept == {r \in Completed : since[r] <= SinceDays /\ r \in swept}

(* completed_requests(since_days) *)
Recent == {r \in Completed : since[r] <= SinceDays}

(* Faulty: only the same is looked at. *)
FoundSwept == back \cap Completed \cap swept

(* verify-all, and the verify op: every completed request is re-counted.   *)
FoundBack == back \cap Completed

-----------------------------------------------------------------------------
(* How a task ends. *)

Succeed ==
  /\ task' = task + 1
  /\ attempt' = 1
  /\ run' = IF task = Len(Tasks) THEN "ok" ELSE "running"

(* The last attempt fails the run, and its successors never start.         *)
Fail ==
  /\ UNCHANGED task
  /\ IF attempt < Attempts THEN attempt' = attempt + 1 /\ UNCHANGED run
                           ELSE run' = "failed" /\ UNCHANGED attempt

(* A command that argparse refuses (exit code 2), or that finds no queue   *)
(* where it looks, has done nothing and failed.                            *)
End(name, ok) == IF Runnable(name) /\ ok THEN Succeed ELSE Fail

Seen(name, R) == IF Runnable(name) THEN R ELSE {}

Start ==
  /\ run # "running" /\ ~ranToday
  /\ run' = "running" /\ task' = 1 /\ attempt' = 1 /\ ranToday' = TRUE
  /\ atRisk' = {} /\ swept' = {} /\ late' = {}
  /\ asked' = Pending /\ stale' = back
  /\ owed' = {r \in Completed : since[r] <= SinceDays}
  /\ UNCHANGED <<stack, queueVars, tombstoned, crashes>>

CheckDeadlines ==
  /\ At("deadlines")
  /\ atRisk' = Seen("deadlines", Near)
  /\ End("deadlines", ~(Gates /\ Near # {}))
  /\ UNCHANGED <<stack, queueVars, tombstoned, swept, ranToday, crashes, historyVars>>

(* The requests of R are erased and completed. *)
Complete(R) ==
  /\ status' = [r \in Requests |-> IF r \in R THEN "completed" ELSE status[r]]
  /\ since' = [r \in Requests |-> IF r \in R THEN 0 ELSE since[r]]

(* The exit code: rows of R came in behind the sweep's back, which the     *)
(* command sees when it re-counts and the op does not.                     *)
SweepIsFine(R) ==
  /\ Overdue(Pending) = {}
  /\ IF stack = "airflow" THEN R = {} ELSE atRisk = {} \/ Pending # {}

(* The sweep gets through the queue. *)
Sweep ==
  /\ At("sweep")
  /\ LET work == Seen("sweep", Pending)
     IN  /\ \E R \in SUBSET work : back' = back \cup R /\ End("sweep", SweepIsFine(R))
         /\ Complete(work)
         /\ swept' = work
         /\ late' = late \cup Overdue(work)
  /\ UNCHANGED <<stack, age, tombstoned, atRisk, ranToday, crashes, asked, owed, stale>>

Verify ==
  /\ At("verify")
  /\ End("verify", FoundBack = {})
  /\ UNCHANGED <<stack, queueVars, tombstoned, atRisk, swept, ranToday, crashes, historyVars>>

(* Without bootstrap servers the command plans, sends nothing and exits 0. *)
Tombstones ==
  /\ At("tombstones")
  /\ tombstoned' = tombstoned \cup Seen("tombstones", IF Bootstrap THEN Recent ELSE {})
  /\ End("tombstones", TRUE)
  /\ UNCHANGED <<stack, queueVars, atRisk, swept, ranToday, crashes, historyVars>>

(* A task dies half-way: what the sweep had completed by then stays        *)
(* completed, and tombstones that were on their way arrive.                *)
Crash ==
  /\ run = "running" /\ crashes < MaxCrashes
  /\ crashes' = crashes + 1
  /\ \E R \in SUBSET IF At("sweep") THEN Seen("sweep", Pending) ELSE {} :
       Complete(R) /\ late' = late \cup Overdue(R)
  /\ \E R \in SUBSET IF At("tombstones") /\ Bootstrap THEN Seen("tombstones", Recent) ELSE {} :
       tombstoned' = tombstoned \cup R
  /\ Fail
  /\ UNCHANGED <<stack, age, back, atRisk, swept, ranToday, asked, owed, stale>>

-----------------------------------------------------------------------------
(* What happens around the job. *)

(* A request reaches the queue with the date it was made on, which may be  *)
(* long ago.                                                               *)
Raise(r) ==
  /\ status[r] = "absent"
  /\ status' = [status EXCEPT ![r] = "pending"]
  /\ \E d \in 0 .. DeadlineDays : age' = [age EXCEPT ![r] = d]
  /\ UNCHANGED <<stack, since, back, tombstoned, runVars, ranToday, crashes, historyVars>>

(* An operator runs the sweep command by hand. *)
SweepByHand ==
  /\ Pending # {}
  /\ Complete(Pending)
  /\ UNCHANGED <<stack, age, back, tombstoned, runVars, ranToday, crashes, historyVars>>

(* A restore or a backfill brings the subject back; somebody cleans up.    *)
ComeBack(r) ==
  /\ r \in Completed \ back
  /\ back' = back \cup {r}
  /\ UNCHANGED <<stack, status, age, since, tombstoned, runVars, ranToday, crashes, historyVars>>

CleanUp(r) ==
  /\ r \in back
  /\ back' = back \ {r}
  /\ stale' = stale \ {r}
  /\ UNCHANGED <<stack, status, age, since, tombstoned, runVars, ranToday, crashes, asked, owed, late>>

(* The next day; runs are over within the day they start on. *)
Tick ==
  /\ run # "running"
  /\ ranToday' = FALSE
  /\ age' = [r \in Requests |->
               IF status[r] # "absent" /\ age[r] < DeadlineDays THEN age[r] + 1 ELSE age[r]]
  /\ since' = [r \in Requests |->
                 IF status[r] = "completed" /\ since[r] <= SinceDays THEN since[r] + 1 ELSE since[r]]
  /\ UNCHANGED <<stack, status, back, tombstoned, runVars, crashes, historyVars>>

Task == CheckDeadlines \/ Sweep \/ Verify \/ Tombstones

Next ==
  \/ Start \/ Task \/ Crash \/ Tick \/ SweepByHand
  \/ \E r \in Requests : Raise(r) \/ ComeBack(r) \/ CleanUp(r)

Spec == Init /\ [][Next]_vars

(* The scheduler starts the run of the day, and its tasks.                 *)
FairSpec == Spec /\ WF_vars(Start) /\ WF_vars(Task) /\ WF_vars(Tick)
-----------------------------------------------------------------------------
(* Properties *)

(* Everybody who was waiting when the run began is completed, and told to  *)
(* the topics.                                                             *)
AllServed == \A r \in asked : status[r] = "completed" /\ r \in tombstoned

(* A DAG run that ends without a failure has finished the job for everybody *)
(* who was waiting when it began: completed, and tombstoned within the     *)
(* window, whichever attempt got there and whoever else was sweeping       *)
(* (airflow/dags/gdpr_erasure_dag.py, privacy/cli.py).                     *)
QuietRun == stack = "airflow" /\ run = "ok" => AllServed

(* A green DAG run makes up for the days before it: whoever was completed  *)
(* within the window by then, in a run that died before its tombstones, in *)
(* one that died in the middle of sending them, or by hand, has been told  *)
(* to the topics when it ends (privacy/cli.py, emit_tombstones).           *)
CatchesUp == stack = "airflow" /\ run = "ok" => owed \subseteq tombstoned

(* A subject who is back in the warehouse when a run starts fails the run  *)
(* if nobody cleans up, however long ago their request was completed       *)
(* (privacy/cli.py, verify_all; privacy_jobs.py, erasure_verify_op).       *)
BackIsReported == run = "ok" => stale = {}

(* A Dagster run that completed a request past its deadline fails; it is   *)
(* the only moment at which this shows (privacy_jobs.py, erasure_sweep_op). *)
LateIsReported == stack = "dagster" /\ run = "ok" => late = {}

(* The Dagster job gets to every request sooner or later, also to one that *)
(* was near its deadline when it reached the queue: the deadline op warns  *)
(* and does not stop the sweep (privacy_jobs.py, erasure_deadlines_op).    *)
EventuallyCompleted ==
  \A r \in Requests :
    stack = "dagster" /\ status[r] = "pending" ~> status[r] = "completed"

(* Not a property of the code, but of its documentation: a predictable job *)
(* that always runs (airflow/dags/gdpr_erasure_dag.py).                    *)
AlwaysGetsThere ==
  \A r \in Requests : status[r] = "pending" ~> status[r] = "completed"
==============================================================================
