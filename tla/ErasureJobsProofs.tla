-------------------------- MODULE ErasureJobsProofs --------------------------
(***************************************************************************)
(* What a run of the daily job that ends well has seen to, on either       *)
(* orchestrator, for any number of requests, retries, deaths and days.     *)
(***************************************************************************)
EXTENDS ErasureJobs, TLAPS

(* The registers of a queue that only moves forward; who is back was       *)
(* completed before.                                                       *)
QueueInv ==
  /\ \A r \in Requests : status[r] # "completed" => since[r] = 0
  /\ back \subseteq Completed
  /\ stale \subseteq back

(* Where a run under way can be.                                           *)
PositionInv ==
  /\ stack \in {"airflow", "dagster"}
  /\ run = "running" => task <= Len(Tasks)

(* Everybody the run began with is still asking, or was completed today;   *)
(* and nobody leaves the window while a run is under way.                  *)
AskedInv ==
  run = "running" =>
    /\ \A r \in asked : status[r] # "absent" /\ since[r] = 0
    /\ \A r \in owed : status[r] = "completed" /\ since[r] <= SinceDays

(* What the tasks before the present one have achieved.                    *)
ProgressInv ==
  run = "running" =>
    /\ stack = "airflow" /\ task > 2 => asked \subseteq Completed
    /\ task > 3 => stale = {}
    /\ stack = "dagster" => late = {}

JobInv ==
  /\ TypeOK /\ QueueInv /\ PositionInv /\ AskedInv /\ ProgressInv
  /\ BackIsReported /\ LateIsReported

-----------------------------------------------------------------------------
(* The job as a list of tasks.                                             *)
LEMMA TaskAt ==
  ASSUME PositionInv, task \in 1 .. 5
  PROVE  /\ Len(Tasks) = IF stack = "airflow" THEN 4 ELSE 3
         /\ At("deadlines") => run = "running" /\ task = 1
         /\ At("sweep") => run = "running" /\ task = 2
         /\ At("verify") => run = "running" /\ task = 3
         /\ At("tombstones") => run = "running" /\ task = 4 /\ stack = "airflow"
<1>1. CASE stack = "airflow"
  <2>1. Tasks = <<"deadlines", "sweep", "verify", "tombstones">>
    BY <1>1 DEF Tasks
  <2> QED BY <1>1, <2>1 DEF At
<1>2. CASE stack = "dagster"
  <2>1. Tasks = <<"deadlines", "sweep", "verify">>
    BY <1>2 DEF Tasks
  <2> QED BY <1>2, <2>1 DEF At
<1> QED BY <1>1, <1>2 DEF PositionInv

LEMMA SeenIsPart == ASSUME NEW name, NEW R PROVE Seen(name, R) \subseteq R
  BY DEF Seen

(* The types, as far as steps change them together.                        *)
Registers ==
  /\ status \in [Requests -> {"absent", "pending", "completed"}]
  /\ age \in [Requests -> 0 .. DeadlineDays]
  /\ since \in [Requests -> 0 .. SinceDays + 1]

RunState ==
  /\ run \in {"never", "running", "ok", "failed"}
  /\ task \in 1 .. 5 /\ attempt \in 1 .. Retries + 1

RequestSets ==
  /\ back \subseteq Requests /\ tombstoned \subseteq Requests
  /\ atRisk \subseteq Requests /\ swept \subseteq Requests
  /\ asked \subseteq Requests /\ owed \subseteq Requests
  /\ stale \subseteq Requests /\ late \subseteq Requests

Typed ==
  /\ stack \in Stacks /\ ranToday \in BOOLEAN /\ crashes \in 0 .. MaxCrashes
  /\ Registers /\ RunState /\ RequestSets

LEMMA Types == TypeOK <=> Typed
<1>1. RequestSets <=> \A R \in {back, tombstoned, atRisk, swept, asked, owed, stale, late} : R \subseteq Requests
  BY Zenon DEF RequestSets
<1> QED BY <1>1 DEF TypeOK, Typed, Registers, RunState

LEMMA TypesAfter == TypeOK' <=> Typed'
  BY Types, PTL

LEMMA InitEstablishes == ASSUME Init PROVE JobInv
<1>1. stack \in {"airflow", "dagster"}
  BY JobsAssumption DEF Init, JobsAssumption
<1>2. RequestSets
  BY DEF Init, RequestSets
<1>3. Registers /\ RunState /\ crashes \in 0 .. MaxCrashes
  BY JobsAssumption DEF Init, Registers, RunState, JobsAssumption
<1>4. TypeOK
  BY <1>2, <1>3, Types DEF Typed, Init
<1>5. PositionInv
  BY <1>1 DEF Init, PositionInv
<1>6. QueueInv
  BY DEF Init, QueueInv
<1>7. AskedInv /\ ProgressInv /\ BackIsReported /\ LateIsReported
  BY DEF Init, AskedInv, ProgressInv, BackIsReported, LateIsReported
<1> QED BY <1>4, <1>5, <1>6, <1>7 DEF JobInv

(* How far a task gets the run: on, or to an end, or not at all.           *)
LEMMA Outcome ==
  ASSUME JobInv, run = "running", Succeed \/ Fail
  PROVE  /\ RunState'
         /\ \/ Succeed /\ task < Len(Tasks) /\ task' = task + 1 /\ run' = "running"
            \/ Succeed /\ task = Len(Tasks) /\ task' = task + 1 /\ run' = "ok"
            \/ Fail /\ task' = task /\ stack = "airflow" /\ run' = "running"
            \/ Fail /\ task' = task /\ run' = "failed"
<1>1. /\ task \in 1 .. 5 /\ attempt \in 1 .. Retries + 1 /\ Retries \in Nat
      /\ Len(Tasks) \in 3 .. 4 /\ task <= Len(Tasks)
  <2>1. RunState /\ PositionInv
    BY Types DEF Typed, JobInv
  <2> QED BY <2>1, TaskAt, JobsAssumption DEF RunState, JobsAssumption, PositionInv
<1>2. CASE Succeed
  BY <1>1, <1>2 DEF Succeed, RunState
<1>3. CASE Fail
  BY <1>1, <1>3 DEF Fail, Attempts, RunState, JobInv, PositionInv
<1> QED BY <1>2, <1>3

-----------------------------------------------------------------------------
(* Completing requests moves the queue forward and nothing else.           *)
LEMMA Completing ==
  ASSUME JobInv, NEW R \in SUBSET Pending, Complete(R), UNCHANGED age
  PROVE  /\ Registers'
         /\ Completed' = Completed \cup R
         /\ \A r \in Requests : status[r] # "absent" => status'[r] # "absent"
         /\ \A r \in Requests : since[r] = 0 => since'[r] = 0
         /\ \A r \in Requests : status'[r] # "completed" => since'[r] = 0
         /\ \A r \in Requests : status[r] = "completed" => since'[r] = since[r]
<1>1. Registers /\ SinceDays \in Nat /\ QueueInv
  BY Types, JobsAssumption DEF Typed, JobInv, JobsAssumption
<1>2. R \subseteq Requests
  BY DEF Pending
<1>3. /\ \A r \in Requests : status'[r] = IF r \in R THEN "completed" ELSE status[r]
      /\ \A r \in Requests : since'[r] = IF r \in R THEN 0 ELSE since[r]
      /\ status' \in [Requests -> {"absent", "pending", "completed"}]
      /\ since' \in [Requests -> 0 .. SinceDays + 1]
  BY <1>1 DEF Complete, Registers
<1>4. Registers'
  BY <1>1, <1>3 DEF Complete, Registers, Completed, QueueInv
<1>5. Completed' = Completed \cup R
  BY <1>2, <1>3 DEF Completed
<1>6. \A r \in Requests : status[r] = "completed" => since'[r] = since[r]
  BY <1>3 DEF Pending
<1> QED BY <1>1, <1>3, <1>4, <1>5, <1>6 DEF QueueInv

LEMMA StartPreserves == ASSUME JobInv, Start PROVE JobInv'
<1>1. UNCHANGED <<stack, status, age, since, back, tombstoned, crashes>>
  BY DEF Start, queueVars
<1>2. /\ run' = "running" /\ task' = 1 /\ attempt' = 1 /\ ranToday' = TRUE
      /\ atRisk' = {} /\ swept' = {} /\ late' = {} /\ asked' = Pending /\ stale' = back
      /\ owed' = {r \in Completed : since[r] <= SinceDays}
  BY DEF Start
<1>3. TypeOK'
  <2>1. Registers' /\ RequestSets'
    BY <1>1, <1>2, Types DEF Typed, JobInv, Registers, RequestSets, Pending, Completed
  <2>2. RunState'
    BY <1>2, JobsAssumption DEF RunState, JobsAssumption
  <2> QED BY <1>1, <1>2, <2>1, <2>2, Types, TypesAfter DEF Typed, JobInv
<1>4. QueueInv'
  BY <1>1, <1>2 DEF JobInv, QueueInv, Completed
<1>5. PositionInv'
  BY <1>1, <1>2 DEF JobInv, PositionInv, Tasks
<1>6. AskedInv'
  BY <1>1, <1>2 DEF JobInv, QueueInv, AskedInv, Pending, Completed
<1>7. ProgressInv' /\ BackIsReported' /\ LateIsReported'
  BY <1>2 DEF ProgressInv, BackIsReported, LateIsReported
<1> QED BY <1>3, <1>4, <1>5, <1>6, <1>7 DEF JobInv

(* A task that does not look at the queue's registers ends.                *)
LEMMA CheckDeadlinesPreserves == ASSUME JobInv, CheckDeadlines PROVE JobInv'
<1>1. UNCHANGED <<stack, status, age, since, back, tombstoned, swept, ranToday, crashes, asked, owed, stale, late>>
  BY DEF CheckDeadlines, queueVars, historyVars
<1>2. run = "running" /\ task = 1 /\ Len(Tasks) \in 3 .. 4 /\ Tasks' = Tasks
  BY <1>1, TaskAt, Types DEF Typed, CheckDeadlines, JobInv, RunState, Tasks
<1>3. Succeed \/ Fail
  BY DEF CheckDeadlines, End
<1>4. RunState' /\ (run' = "running" => task' \in 1 .. 2) /\ run' # "ok"
  BY <1>2, <1>3, Outcome
<1>5. TypeOK'
  <2>1. atRisk' \subseteq Requests
    BY SeenIsPart DEF CheckDeadlines, Near, Pending
  <2>2. Registers' /\ RequestSets'
    BY <1>1, <2>1, Types DEF Typed, JobInv, Registers, RequestSets
  <2> QED BY <1>1, <1>4, <2>2, Types, TypesAfter DEF Typed, JobInv
<1>6. QueueInv'
  BY <1>1 DEF JobInv, QueueInv, Completed
<1>7. PositionInv'
  BY <1>1, <1>2, <1>4 DEF JobInv, PositionInv
<1>8. AskedInv' /\ ProgressInv'
  BY <1>1, <1>2, <1>4 DEF JobInv, AskedInv, ProgressInv, Completed
<1>9. BackIsReported' /\ LateIsReported'
  BY <1>4 DEF BackIsReported, LateIsReported
<1> QED BY <1>5, <1>6, <1>7, <1>8, <1>9 DEF JobInv

LEMMA SweepPreserves == ASSUME JobInv, Sweep PROVE JobInv'
<1> DEFINE work == Seen("sweep", Pending)
<1>1. PICK R \in SUBSET work : back' = back \cup R /\ End("sweep", SweepIsFine(R))
  BY DEF Sweep
<1>2. /\ Complete(work) /\ swept' = work /\ late' = late \cup Overdue(work)
      /\ UNCHANGED <<stack, age, tombstoned, atRisk, ranToday, crashes, asked, owed, stale>>
  BY DEF Sweep
<1>3. run = "running" /\ task = 2 /\ Len(Tasks) \in 3 .. 4 /\ Tasks' = Tasks
  BY <1>2, TaskAt, Types DEF Typed, Sweep, JobInv, RunState, Tasks
<1>4. work \subseteq Pending /\ work \subseteq Requests /\ Overdue(work) \subseteq Requests
  BY SeenIsPart DEF Pending, Overdue
<1>5. /\ Registers' /\ Completed' = Completed \cup work
      /\ \A r \in Requests : status[r] # "absent" => status'[r] # "absent"
      /\ \A r \in Requests : since[r] = 0 => since'[r] = 0
      /\ \A r \in Requests : status'[r] # "completed" => since'[r] = 0
      /\ \A r \in Requests : status[r] = "completed" => since'[r] = since[r]
  BY <1>2, <1>4, Completing
<1>6. Succeed \/ Fail
  BY <1>1 DEF End
<1>7. /\ RunState' /\ run' # "ok" /\ (run' = "running" => task' \in 2 .. 3)
      /\ run' = "running" /\ stack = "dagster" => Succeed
      /\ run' = "running" /\ task' > 2 => Succeed
  BY <1>3, <1>6, Outcome DEF JobInv, PositionInv
<1>8. TypeOK'
  <2>1. RequestSets'
    BY <1>1, <1>2, <1>4, Types DEF Typed, JobInv, RequestSets
  <2> QED BY <1>2, <1>5, <1>7, <2>1, Types, TypesAfter DEF Typed, JobInv
<1>9. QueueInv'
  BY <1>1, <1>2, <1>5 DEF JobInv, QueueInv
<1>10. PositionInv'
  BY <1>2, <1>3, <1>7 DEF JobInv, PositionInv
<1>11. asked \subseteq Requests /\ owed \subseteq Requests
  BY Types DEF Typed, JobInv, RequestSets
<1>12. AskedInv'
  BY <1>2, <1>3, <1>5, <1>11 DEF JobInv, AskedInv, Completed
<1>13. ASSUME Succeed, task' = task + 1
       PROVE  Runnable("sweep") /\ SweepIsFine(R)
  <2>1. task' # task
    BY <1>3, <1>13
  <2> QED BY <1>1, <2>1 DEF End, Fail
<1>14. ProgressInv'
  <2>1. ASSUME run' = "running", stack = "airflow", task' > 2
        PROVE  asked' \subseteq Completed'
    <3>1. work = Pending
      BY <1>7, <1>13, <2>1 DEF Succeed, Seen
    <3>2. \A r \in asked : r \in Pending \/ r \in Completed
      BY <1>3, <1>11, Types DEF Typed, JobInv, AskedInv, Registers, Pending, Completed
    <3> QED BY <1>2, <1>5, <3>1, <3>2
  <2>2. ASSUME run' = "running", stack = "dagster"
        PROVE  late' = {}
    <3>1. Overdue(Pending) = {}
      BY <1>7, <1>13, <2>2 DEF Succeed, SweepIsFine
    <3>2. Overdue(work) = {}
      BY <1>4, <3>1 DEF Overdue
    <3> QED BY <1>2, <1>3, <2>2, <3>2 DEF JobInv, ProgressInv
  <2>3. run' = "running" => ~(task' > 3)
    BY <1>7
  <2> QED BY <1>2, <2>1, <2>2, <2>3 DEF ProgressInv
<1>15. BackIsReported' /\ LateIsReported'
  BY <1>7 DEF BackIsReported, LateIsReported
<1> QED BY <1>8, <1>9, <1>10, <1>12, <1>14, <1>15 DEF JobInv

LEMMA VerifyPreserves == ASSUME JobInv, Verify PROVE JobInv'
<1>1. /\ UNCHANGED <<stack, status, age, since, back, tombstoned, atRisk, swept>>
      /\ UNCHANGED <<ranToday, crashes, asked, owed, stale, late>>
      /\ End("verify", FoundBack = {})
  BY DEF Verify, queueVars, historyVars
<1>2. run = "running" /\ task = 3 /\ Len(Tasks) \in 3 .. 4 /\ Tasks' = Tasks
  BY <1>1, TaskAt, Types DEF Typed, Verify, JobInv, RunState, Tasks
<1>3. Succeed \/ Fail
  BY <1>1 DEF End
<1>4. /\ RunState' /\ (run' = "running" => task' \in 3 .. 4 /\ task' <= Len(Tasks))
      /\ run' = "ok" \/ (run' = "running" /\ task' > 3) => task' # task
  <2>1. RunState'
    BY <1>2, <1>3, Outcome
  <2>2. \/ task' = 4 /\ task < Len(Tasks) /\ run' = "running"
        \/ task' = 4 /\ run' = "ok"
        \/ task' = 3 /\ run' = "running"
        \/ task' = 3 /\ run' = "failed"
    BY <1>2, <1>3, Outcome
  <2> QED BY <1>2, <2>1, <2>2
<1>5. task' # task => stale = {}
  <2>1. task' # task => FoundBack = {}
    BY <1>1 DEF End, Fail
  <2> QED BY <2>1 DEF JobInv, QueueInv, FoundBack
<1>6. TypeOK'
  BY <1>1, <1>4, Types, TypesAfter DEF Typed, JobInv, Registers, RequestSets
<1>7. QueueInv'
  BY <1>1 DEF JobInv, QueueInv, Completed
<1>8. PositionInv'
  BY <1>1, <1>2, <1>4 DEF JobInv, PositionInv
<1>9. AskedInv' /\ ProgressInv'
  BY <1>1, <1>2, <1>4, <1>5 DEF JobInv, AskedInv, ProgressInv, Completed
<1>10. BackIsReported' /\ LateIsReported'
  BY <1>1, <1>2, <1>4, <1>5 DEF JobInv, ProgressInv, BackIsReported, LateIsReported
<1> QED BY <1>6, <1>7, <1>8, <1>9, <1>10 DEF JobInv

LEMMA TombstonesPreserves == ASSUME JobInv, Tombstones PROVE JobInv'
<1> DEFINE some == Seen("tombstones", IF Bootstrap THEN Recent ELSE {})
<1>1. /\ UNCHANGED <<stack, status, age, since, back, atRisk, swept>>
      /\ UNCHANGED <<ranToday, crashes, asked, owed, stale, late>>
      /\ tombstoned' = tombstoned \cup some
  BY DEF Tombstones, queueVars, historyVars
<1>2. run = "running" /\ task = 4 /\ stack = "airflow" /\ Len(Tasks) = 4 /\ Tasks' = Tasks
  BY <1>1, TaskAt, Types DEF Typed, Tombstones, JobInv, RunState, Tasks
<1>3. Succeed \/ Fail
  BY DEF Tombstones, End
<1>4. RunState' /\ (run' = "running" => task' = 4)
  BY <1>2, <1>3, Outcome
<1>5. some \subseteq Completed /\ some \subseteq Requests
  BY SeenIsPart DEF Recent, Completed
<1>6. TypeOK'
  BY <1>1, <1>4, <1>5, Types, TypesAfter DEF Typed, JobInv, Registers, RequestSets
<1>7. QueueInv'
  BY <1>1, <1>5 DEF JobInv, QueueInv, Completed
<1>8. PositionInv'
  BY <1>1, <1>2, <1>4 DEF JobInv, PositionInv
<1>9. AskedInv' /\ ProgressInv'
  BY <1>1, <1>2, <1>4 DEF JobInv, AskedInv, ProgressInv, Completed
<1>10. BackIsReported' /\ LateIsReported'
  BY <1>1, <1>2 DEF JobInv, ProgressInv, BackIsReported, LateIsReported
<1> QED BY <1>6, <1>7, <1>8, <1>9, <1>10 DEF JobInv

(* A task that dies gets no further, whatever it did before.               *)
LEMMA CrashPreserves == ASSUME JobInv, Crash PROVE JobInv'
<1>1. PICK R \in SUBSET IF At("sweep") THEN Seen("sweep", Pending) ELSE {} :
        Complete(R) /\ late' = late \cup Overdue(R)
  BY DEF Crash
<1>2. PICK T \in SUBSET IF At("tombstones") /\ Bootstrap THEN Seen("tombstones", Recent) ELSE {} :
        tombstoned' = tombstoned \cup T
  BY DEF Crash
<1>3. /\ run = "running" /\ crashes < MaxCrashes /\ crashes' = crashes + 1 /\ Fail
      /\ UNCHANGED <<stack, age, back, atRisk, swept, ranToday, asked, owed, stale>>
  BY DEF Crash
<1>4. R \subseteq Pending /\ Overdue(R) \subseteq Requests
  BY SeenIsPart DEF Pending, Overdue
<1>5. T \subseteq Completed /\ T \subseteq Requests
  BY SeenIsPart DEF Recent, Completed
<1>6. /\ Registers' /\ Completed' = Completed \cup R
      /\ \A r \in Requests : status[r] # "absent" => status'[r] # "absent"
      /\ \A r \in Requests : since[r] = 0 => since'[r] = 0
      /\ \A r \in Requests : status'[r] # "completed" => since'[r] = 0
      /\ \A r \in Requests : status[r] = "completed" => since'[r] = since[r]
  BY <1>1, <1>3, <1>4, Completing
<1>7. RunState' /\ task' = task /\ run' # "ok" /\ (run' = "running" => stack = "airflow")
  <2>1. RunState' /\ task' = task
    BY <1>3, Outcome DEF Fail
  <2>2. task + 1 # task
    BY Types DEF Typed, JobInv, RunState
  <2> QED BY <1>3, <2>1, <2>2, Outcome
<1>8. TypeOK'
  <2>1. RequestSets'
    BY <1>1, <1>2, <1>3, <1>4, <1>5, Types DEF Typed, JobInv, RequestSets
  <2>2. crashes' \in 0 .. MaxCrashes
    BY <1>3, Types, JobsAssumption DEF Typed, JobInv, JobsAssumption
  <2> QED BY <1>3, <1>6, <1>7, <2>1, <2>2, Types, TypesAfter DEF Typed, JobInv
<1>9. QueueInv'
  BY <1>2, <1>3, <1>5, <1>6 DEF JobInv, QueueInv
<1>10. PositionInv'
  BY <1>3, <1>7 DEF JobInv, PositionInv, Tasks
<1>11. asked \subseteq Requests /\ owed \subseteq Requests
  BY Types DEF Typed, JobInv, RequestSets
<1>12. AskedInv'
  BY <1>3, <1>6, <1>11 DEF JobInv, AskedInv, Completed
<1>13. ProgressInv'
  BY <1>3, <1>6, <1>7 DEF JobInv, ProgressInv
<1>14. BackIsReported' /\ LateIsReported'
  BY <1>7 DEF BackIsReported, LateIsReported
<1> QED BY <1>8, <1>9, <1>10, <1>12, <1>13, <1>14 DEF JobInv

-----------------------------------------------------------------------------
(* The steps of others leave the run where it is.                          *)
LEMMA WorldPreserves ==
  ASSUME JobInv, UNCHANGED <<stack, runVars, crashes, asked, owed, late>>, ranToday' \in BOOLEAN,
         Registers', QueueInv', RequestSets',
         run = "running" =>
           \A r \in Requests : /\ status[r] # "absent" => status'[r] # "absent"
                               /\ since[r] = 0 => since'[r] = 0
                               /\ status[r] = "completed" => since'[r] = since[r],
         \A r \in Requests : status[r] = "completed" => status'[r] = "completed",
         stale' \subseteq stale
  PROVE  JobInv'
<1> USE DEF runVars
<1>1. TypeOK'
  BY Types, TypesAfter DEF Typed, JobInv, RunState
<1>2. PositionInv'
  BY DEF JobInv, PositionInv, Tasks
<1>3. asked \subseteq Requests /\ owed \subseteq Requests
  BY Types DEF Typed, JobInv, RequestSets
<1>4. AskedInv'
  BY <1>3 DEF JobInv, AskedInv
<1>5. ProgressInv'
  BY DEF JobInv, ProgressInv, Completed
<1>6. BackIsReported' /\ LateIsReported'
  BY DEF JobInv, BackIsReported, LateIsReported
<1> QED BY <1>1, <1>2, <1>4, <1>5, <1>6 DEF JobInv

LEMMA RaisePreserves == ASSUME JobInv, NEW r \in Requests, Raise(r) PROVE JobInv'
<1>1. /\ UNCHANGED <<stack, runVars, ranToday, crashes, asked, owed, stale, late>>
      /\ UNCHANGED <<since, back, tombstoned>> /\ UNCHANGED <<atRisk, swept>>
  BY DEF Raise, historyVars, runVars
<1>2. status[r] = "absent" /\ status' = [status EXCEPT ![r] = "pending"]
  BY DEF Raise
<1>3. PICK d \in 0 .. DeadlineDays : age' = [age EXCEPT ![r] = d]
  BY DEF Raise
<1>4. Registers /\ RequestSets /\ ranToday \in BOOLEAN
  BY Types DEF Typed, JobInv
<1>5. Registers' /\ RequestSets'
  BY <1>1, <1>2, <1>3, <1>4 DEF Registers, RequestSets
<1>6. \A q \in Requests : status[q] = "completed" => status'[q] = "completed"
  BY <1>2, <1>4 DEF Registers
<1>7. \A q \in Requests : status[q] # "absent" => status'[q] # "absent"
  BY <1>2, <1>4 DEF Registers
<1>8. QueueInv'
  <2>1. \A q \in Requests : status'[q] # "completed" => status[q] # "completed"
    BY <1>6
  <2>2. Completed \subseteq Completed'
    BY <1>6 DEF Completed
  <2> QED BY <1>1, <2>1, <2>2 DEF JobInv, QueueInv
<1> QED BY <1>1, <1>4, <1>5, <1>6, <1>7, <1>8, WorldPreserves

LEMMA SweepByHandPreserves == ASSUME JobInv, SweepByHand PROVE JobInv'
<1>1. /\ UNCHANGED <<stack, runVars, ranToday, crashes, asked, owed, stale, late>>
      /\ UNCHANGED <<age, back, tombstoned>> /\ UNCHANGED <<atRisk, swept>> /\ Complete(Pending)
  BY DEF SweepByHand, historyVars, runVars
<1>2. /\ Registers' /\ Completed' = Completed \cup Pending
      /\ \A r \in Requests : status[r] # "absent" => status'[r] # "absent"
      /\ \A r \in Requests : since[r] = 0 => since'[r] = 0
      /\ \A r \in Requests : status'[r] # "completed" => since'[r] = 0
      /\ \A r \in Requests : status[r] = "completed" => since'[r] = since[r]
  BY <1>1, Completing
<1>3. QueueInv'
  BY <1>1, <1>2 DEF JobInv, QueueInv
<1>4. RequestSets' /\ ranToday' \in BOOLEAN
  BY <1>1, Types DEF Typed, JobInv, RequestSets
<1>5. \A r \in Requests : status[r] = "completed" => status'[r] = "completed"
  BY <1>2 DEF Completed
<1> QED BY <1>1, <1>2, <1>3, <1>4, <1>5, WorldPreserves

LEMMA BackPreserves == ASSUME JobInv, NEW r \in Requests, ComeBack(r) \/ CleanUp(r) PROVE JobInv'
<1>1. /\ UNCHANGED <<stack, runVars, ranToday, crashes, asked, owed, late>>
      /\ UNCHANGED <<status, age, since, tombstoned>> /\ UNCHANGED <<atRisk, swept>>
      /\ stale' \subseteq stale /\ back' \subseteq Completed /\ back' \subseteq Requests
      /\ stale' \subseteq back'
  BY DEF ComeBack, CleanUp, historyVars, runVars, JobInv, QueueInv, Completed
<1>2. Registers' /\ RequestSets' /\ ranToday' \in BOOLEAN
  BY <1>1, Types DEF Typed, JobInv, Registers, RequestSets
<1>3. QueueInv'
  BY <1>1 DEF JobInv, QueueInv, Completed
<1> QED BY <1>1, <1>2, <1>3, WorldPreserves

LEMMA TickPreserves == ASSUME JobInv, Tick PROVE JobInv'
<1>1. /\ UNCHANGED <<stack, runVars, crashes, asked, owed, stale, late>>
      /\ UNCHANGED <<status, back, tombstoned>> /\ UNCHANGED <<atRisk, swept>>
      /\ ranToday' = FALSE /\ run # "running"
  BY DEF Tick, historyVars, runVars
<1>2. Registers /\ SinceDays \in Nat /\ DeadlineDays \in Nat
  BY Types, JobsAssumption DEF Typed, JobInv, JobsAssumption
<1>3. Registers'
  <2>1. age' \in [Requests -> 0 .. DeadlineDays]
    BY <1>2 DEF Tick, Registers
  <2>2. since' \in [Requests -> 0 .. SinceDays + 1]
    BY <1>2 DEF Tick, Registers
  <2> QED BY <1>1, <1>2, <2>1, <2>2 DEF Registers
<1>4. RequestSets'
  BY <1>1, Types DEF Typed, JobInv, RequestSets
<1>5. QueueInv'
  <2>1. \A r \in Requests : status[r] # "completed" => since'[r] = since[r]
    BY DEF Tick
  <2> QED BY <1>1, <2>1 DEF JobInv, QueueInv, Completed
<1> QED BY <1>1, <1>3, <1>4, <1>5, WorldPreserves

LEMMA StepPreserves == ASSUME JobInv, [Next]_vars PROVE JobInv'
<1>1. CASE UNCHANGED vars
  <2>1. Registers' /\ RequestSets' /\ ranToday' \in BOOLEAN /\ QueueInv'
    BY <1>1, Types
    DEF Typed, JobInv, Registers, RequestSets, QueueInv, Completed, vars, queueVars, runVars, historyVars
  <2> QED BY <1>1, <2>1, WorldPreserves DEF vars, queueVars, runVars, historyVars
<1> QED
  BY <1>1, StartPreserves, CheckDeadlinesPreserves, SweepPreserves, VerifyPreserves,
     TombstonesPreserves, CrashPreserves, TickPreserves, SweepByHandPreserves, RaisePreserves,
     BackPreserves
  DEF Next, Task

LEMMA JobAlways == Spec => []JobInv
  BY InitEstablishes, StepPreserves, PTL DEF Spec

-----------------------------------------------------------------------------
(* A DAG run turns green in its last task, or has been green before the    *)
(* step, which then takes nothing back.                                    *)
Green == stack = "airflow" /\ run = "ok"

Kept ==
  /\ UNCHANGED <<asked, owed, tombstoned>>
  /\ Completed \subseteq Completed'

LEMMA TurnsGreen ==
  ASSUME JobInv, [Next]_vars, Green'
  PROVE  Tombstones \/ (Green /\ Kept)
<1>1. CASE Start \/ Crash
  <2>1. run' # "ok"
    <3>1. CASE Start
      BY <3>1 DEF Start
    <3>2. CASE Crash
      BY <3>2 DEF Crash, Fail
    <3> QED BY <1>1, <3>1, <3>2
  <2> QED BY <2>1 DEF Green
<1>2. CASE CheckDeadlines \/ Sweep \/ Verify
  <2>1. run = "running" /\ task <= 3 /\ task \in Nat /\ stack' = stack
    BY <1>2, TaskAt, Types DEF Typed, JobInv, RunState, CheckDeadlines, Sweep, Verify
  <2>2. Succeed \/ Fail
    BY <1>2 DEF CheckDeadlines, Sweep, Verify, End
  <2>3. stack = "airflow" => Len(Tasks) = 4
    BY TaskAt, Types DEF Typed, JobInv, RunState
  <2>4. task + 1 # task
    BY <2>1
  <2>5. stack = "airflow" => run' # "ok"
    BY <2>1, <2>2, <2>3, <2>4, Outcome
  <2> QED BY <2>1, <2>5 DEF Green
<1>3. CASE Tombstones
  BY <1>3
<1>4. CASE Tick
  BY <1>4 DEF Tick, runVars, historyVars, Green, Kept, Completed
<1>5. CASE SweepByHand
  <2>1. Completed' = Completed \cup Pending
    BY <1>5, Completing DEF SweepByHand
  <2> QED BY <1>5, <2>1 DEF SweepByHand, runVars, historyVars, Green, Kept
<1>6. CASE \E r \in Requests : Raise(r)
  <2>1. PICK r \in Requests : Raise(r)
    BY <1>6
  <2>2. status \in [Requests -> {"absent", "pending", "completed"}]
    BY Types DEF Typed, JobInv, Registers
  <2>3. status[r] = "absent" /\ status' = [status EXCEPT ![r] = "pending"]
    BY <2>1 DEF Raise
  <2>4. Completed \subseteq Completed'
    BY <2>2, <2>3 DEF Completed
  <2> QED BY <2>1, <2>4 DEF Raise, runVars, historyVars, Green, Kept
<1>7. CASE \E r \in Requests : ComeBack(r) \/ CleanUp(r)
  BY <1>7 DEF ComeBack, CleanUp, runVars, historyVars, Green, Kept, Completed
<1>8. CASE UNCHANGED vars
  BY <1>8 DEF vars, queueVars, runVars, historyVars, Green, Kept, Completed
<1> QED
  BY <1>1, <1>2, <1>3, <1>4, <1>5, <1>6, <1>7, <1>8 DEF Next, Task

(* The last task: with the sweep behind it, and the days since completion  *)
(* at zero, the window leaves nobody out the run began with, and nobody    *)
(* who was inside it then.                                                 *)
LEMMA TombstonesReachAll ==
  ASSUME JobInv, Bootstrap, Tombstones, run' = "ok"
  PROVE  QuietRun' /\ CatchesUp'
<1>1. /\ UNCHANGED <<stack, status, since, asked, owed>>
      /\ tombstoned' = tombstoned \cup Seen("tombstones", Recent)
  BY DEF Tombstones, queueVars, historyVars
<1>2. run = "running" /\ task = 4 /\ stack = "airflow"
  BY TaskAt, Types DEF Typed, Tombstones, JobInv, RunState
<1>3. Runnable("tombstones")
  BY <1>2 DEF Tombstones, End, Fail
<1>4. asked \subseteq Completed /\ asked \subseteq Requests /\ owed \subseteq Requests
  BY <1>2, Types DEF Typed, JobInv, ProgressInv, RequestSets
<1>5. \A r \in asked : since[r] = 0
  BY <1>2 DEF JobInv, AskedInv
<1>6. asked \subseteq Recent
  BY <1>4, <1>5, JobsAssumption DEF Recent, JobsAssumption
<1>7. owed \subseteq Recent
  BY <1>2, <1>4 DEF JobInv, AskedInv, Recent, Completed
<1>8. QuietRun'
  BY <1>1, <1>3, <1>4, <1>6 DEF QuietRun, AllServed, Completed, Seen
<1> QED BY <1>1, <1>3, <1>7, <1>8 DEF CatchesUp, Seen

LEMMA StepKeepsQuiet ==
  ASSUME Bootstrap, JobInv, QuietRun, [Next]_vars
  PROVE  QuietRun'
<1> SUFFICES ASSUME Green' PROVE AllServed'
  BY DEF QuietRun, Green
<1>1. CASE Tombstones
  BY <1>1, TombstonesReachAll DEF QuietRun, Green
<1>2. CASE Green /\ Kept
  <2>1. asked \subseteq Requests
    BY Types DEF Typed, JobInv, RequestSets
  <2> QED BY <1>2, <2>1 DEF QuietRun, Green, Kept, AllServed, Completed
<1> QED BY <1>1, <1>2, TurnsGreen

LEMMA StepKeepsCaughtUp ==
  ASSUME Bootstrap, JobInv, CatchesUp, [Next]_vars
  PROVE  CatchesUp'
<1> SUFFICES ASSUME Green' PROVE owed' \subseteq tombstoned'
  BY DEF CatchesUp, Green
<1>1. CASE Tombstones
  BY <1>1, TombstonesReachAll DEF CatchesUp, Green
<1>2. CASE Green /\ Kept
  BY <1>2 DEF CatchesUp, Green, Kept
<1> QED BY <1>1, <1>2, TurnsGreen

-----------------------------------------------------------------------------
(* Every variable of the job keeps its type.                               *)
THEOREM TypeCorrect == Spec => []TypeOK
<1>1. JobInv => TypeOK
  BY DEF JobInv
<1> QED BY <1>1, JobAlways, PTL

(* A run that ends well on either orchestrator started with nobody back in *)
(* the warehouse, or somebody cleaned up in the meantime                   *)
(* (privacy/cli.py, verify_all; privacy_jobs.py, erasure_verify_op).       *)
THEOREM BackFailsTheRun == Spec => []BackIsReported
<1>1. JobInv => BackIsReported
  BY DEF JobInv
<1> QED BY <1>1, JobAlways, PTL

(* A Dagster run that completed a request past its deadline does not end   *)
(* well (privacy_jobs.py, erasure_sweep_op).                               *)
THEOREM LateFailsTheRun == Spec => []LateIsReported
<1>1. JobInv => LateIsReported
  BY DEF JobInv
<1> QED BY <1>1, JobAlways, PTL

(* Where the topics' brokers are configured, a DAG run that ends well      *)
(* leaves everybody it began with completed and tombstoned: a request      *)
(* completed on the day is inside every window SinceDays can name, zero    *)
(* included (airflow/dags/gdpr_erasure_dag.py; privacy/cli.py,             *)
(* emit_tombstones).                                                       *)
THEOREM QuietRunServedAll ==
  ASSUME Bootstrap
  PROVE  Spec => []QuietRun
<1>1. Init => QuietRun
  BY DEF Init, QuietRun
<1>2. JobInv /\ QuietRun /\ [Next]_vars => QuietRun'
  BY StepKeepsQuiet
<1> QED BY <1>1, <1>2, JobAlways, PTL DEF Spec

(* It also makes up for the days before it: whoever was completed within   *)
(* the window when it began, by hand, or in a run that ended before its    *)
(* tombstones or in the middle of them, is tombstoned when it ends well    *)
(* (privacy/cli.py, emit_tombstones).                                      *)
THEOREM QuietRunCatchesUp ==
  ASSUME Bootstrap
  PROVE  Spec => []CatchesUp
<1>1. Init => CatchesUp
  BY DEF Init, CatchesUp
<1>2. JobInv /\ CatchesUp /\ [Next]_vars => CatchesUp'
  BY StepKeepsCaughtUp
<1> QED BY <1>1, <1>2, JobAlways, PTL DEF Spec
=============================================================================
