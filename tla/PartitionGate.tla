---------------------------- MODULE PartitionGate ----------------------------
(***************************************************************************)
(* When a day of the incremental marts is built, and from what: the        *)
(* Airflow DAG dbt_incremental with its partition sensors, the Dagster     *)
(* schedule or sensor, an operator's full refresh, and dbt's own test of   *)
(* the window (rows_for_window), which each of them runs into.             *)
(*                                                                         *)
(* A run lasts less than a day: the sensors of the DAG give up after four  *)
(* hours, and a build takes minutes.                                       *)
(***************************************************************************)
EXTENDS Integers

CONSTANTS
  Sources,      \* REQUIRED_SOURCES: trades, account_transactions
  LastDay,      \* bound on the days of the model
  Deployments,  \* what launches runs: "airflow", "schedule" or "sensor"
  MaxRefreshes  \* bound on the operator's full refreshes

ASSUME GateAssumption ==
  /\ LastDay \in Nat \ {0}
  /\ Deployments \subseteq {"airflow", "schedule", "sensor"}
  /\ MaxRefreshes \in Nat

Days == 1 .. LastDay

VARIABLES
  deployment,
  today,        \* the date, UTC; day d is complete once today > d
  landed,       \* source -> days its raw table has rows for
  launched,     \* the last day the clock launched a run for
  cursor,       \* of the Dagster sensor: the last day requested
  runs,         \* the runs under way, see Run
  exists,       \* the mart has been built before: is_incremental()
  mart,         \* day -> what its partition was built from
  ends,         \* day -> how runs for it have ended
  refreshes     \* full refreshes so far

gateVars ==
  <<deployment, today, landed, launched, cursor, runs, exists, mart, ends, refreshes>>

(* The window of a full refresh is all of history.                         *)
History == 0

Run == [day : Days \cup {History}, phase : {"waiting", "testing", "reading", "writing"},
        full : BOOLEAN, read : [Days -> SUBSET Sources]]

Partition == [sources : SUBSET Sources, full : BOOLEAN]

GateTypeOK ==
  /\ deployment \in Deployments
  /\ today \in Days
  /\ landed \in [Sources -> SUBSET Days]
  /\ launched \in Days \cup {0} /\ cursor \in Days \cup {0}
  /\ runs \subseteq Run
  /\ exists \in BOOLEAN
  /\ mart \in [Days -> Partition]
  /\ ends \in [Days \cup {History} -> SUBSET {"built", "timeout", "empty", "broken"}]
  /\ refreshes \in 0 .. MaxRefreshes

GateInit ==
  /\ deployment \in Deployments
  /\ today = 1
  /\ landed = [s \in Sources |-> {}]
  /\ launched = 0 /\ cursor = 0
  /\ runs = {}
  /\ exists = FALSE
  /\ mart = [d \in Days |-> [sources |-> {}, full |-> FALSE]]
  /\ ends = [d \in Days \cup {History} |-> {}]
  /\ refreshes = 0

Yesterday == today - 1
Ready(d) == \A s \in Sources : d \in landed[s]

Midnight ==
  /\ today + 1 \in Days
  /\ deployment # "sensor" => launched = Yesterday
  /\ \A r \in runs : r.day \in {History, Yesterday}
  /\ today' = today + 1
  /\ UNCHANGED <<deployment, landed, launched, cursor, runs, exists, mart, ends, refreshes>>

(* Ingestion delivers rows of a day that has begun, however late.          *)
Land(s, d) ==
  /\ d <= today /\ d \notin landed[s]
  /\ landed' = [landed EXCEPT ![s] = @ \cup {d}]
  /\ UNCHANGED <<deployment, today, launched, cursor, runs, exists, mart, ends, refreshes>>

Launch(d, phase) ==
  runs' = runs \cup {[day |-> d, phase |-> phase, full |-> FALSE, read |-> [e \in Days |-> {}]]}

(* @daily in Airflow, with one run at a time, which begins by waiting; the *)
(* Dagster schedule at 06:00, ready or not.                                *)
LaunchByClock ==
  /\ launched < Yesterday
  /\ launched' = Yesterday
  /\ \/ /\ deployment = "airflow" /\ \A r \in runs : r.day = History
        /\ Launch(Yesterday, "waiting")
     \/ deployment = "schedule" /\ Launch(Yesterday, "testing")
  /\ UNCHANGED <<deployment, today, landed, cursor, exists, mart, ends, refreshes>>

(* raw_partitions_ready_sensor: a tick that does not skip.                 *)
SensorTick ==
  /\ deployment = "sensor"
  /\ Yesterday \in Days /\ cursor # Yesterday
  /\ Ready(Yesterday)
  /\ cursor' = Yesterday
  /\ Launch(Yesterday, "testing")
  /\ UNCHANGED <<deployment, today, landed, launched, exists, mart, ends, refreshes>>

(* The operator's full refresh, with force_full_refresh.                   *)
Refresh ==
  /\ refreshes < MaxRefreshes
  /\ refreshes' = refreshes + 1
  /\ Launch(History, "testing")
  /\ UNCHANGED <<deployment, today, landed, launched, cursor, exists, mart, ends>>

(* Both partition sensors of the DAG have seen their partition.            *)
EndWait(r) ==
  /\ r.phase = "waiting" /\ Ready(r.day)
  /\ runs' = (runs \ {r}) \cup {[r EXCEPT !.phase = "testing"]}
  /\ UNCHANGED <<deployment, today, landed, launched, cursor, exists, mart, ends, refreshes>>

End(r, how) ==
  /\ runs' = runs \ {r}
  /\ ends' = [ends EXCEPT ![r.day] = @ \cup {how}]

(* Faulty: a sensor that times out is skipped, and the run with it.        *)
GiveUpSoftly(r) ==
  /\ r.phase = "waiting"
  /\ runs' = runs \ {r}
  /\ UNCHANGED <<deployment, today, landed, launched, cursor, exists, mart, ends, refreshes>>

(* A partition sensor of the DAG times out, and the run fails.             *)
GiveUp(r) ==
  /\ r.phase = "waiting"
  /\ End(r, "timeout")
  /\ UNCHANGED <<deployment, today, landed, launched, cursor, exists, mart, refreshes>>

(* Faulty: rows in one of the sources are enough.                          *)
HoldsSomeRows(r) == \E s \in Sources, d \in Days : d \in landed[s] /\ r.day \in {History, d}

(* rows_for_window of every source, over the window of the run.            *)
HoldsRows(r) == \A s \in Sources : \E d \in landed[s] : r.day \in {History, d}

(* dbt build, where the tests of the sources come first. The DAG tries     *)
(* again before it gives up, which leaves everything as it is.             *)
TestWindow(r) ==
  /\ r.phase = "testing"
  /\ \/ /\ HoldsRows(r)
        /\ runs' = (runs \ {r}) \cup {[r EXCEPT !.phase = "reading"]}
        /\ UNCHANGED ends
     \/ ~HoldsRows(r) /\ End(r, "empty")
  /\ UNCHANGED <<deployment, today, landed, launched, cursor, exists, mart, refreshes>>

(* The select of the mart: the window alone only where the mart is there   *)
(* and is not to be rebuilt.                                               *)
Read(r) ==
  /\ r.phase = "reading"
  /\ LET full == r.day = History \/ ~exists
         rows == [d \in Days |-> IF full \/ d = r.day THEN {s \in Sources : d \in landed[s]} ELSE {}]
     IN runs' = (runs \ {r}) \cup {[r EXCEPT !.phase = "writing", !.full = full, !.read = rows]}
  /\ UNCHANGED <<deployment, today, landed, launched, cursor, exists, mart, ends, refreshes>>

(* create or replace table, or insert_overwrite of the days that the       *)
(* select returned rows for.                                               *)
Write(r) ==
  /\ r.phase = "writing"
  /\ mart' = [d \in Days |-> IF r.full \/ r.read[d] # {}
                             THEN [sources |-> r.read[d], full |-> r.full] ELSE mart[d]]
  /\ exists' = TRUE
  /\ End(r, "built")
  /\ UNCHANGED <<deployment, today, landed, launched, cursor, refreshes>>

(* Some other test or query of the build fails, every attempt.             *)
Break(r) ==
  /\ r.phase \in {"reading", "writing"}
  /\ End(r, "broken")
  /\ UNCHANGED <<deployment, today, landed, launched, cursor, exists, mart, refreshes>>

GateNext ==
  \/ Midnight
  \/ \E s \in Sources, d \in Days : Land(s, d)
  \/ LaunchByClock
  \/ SensorTick
  \/ Refresh
  \/ \E r \in runs : EndWait(r)
  \/ \E r \in runs : GiveUp(r)
  \/ \E r \in runs : TestWindow(r)
  \/ \E r \in runs : Read(r)
  \/ \E r \in runs : Write(r)
  \/ \E r \in runs : Break(r)

GateSpec == GateInit /\ [][GateNext]_gateVars

-----------------------------------------------------------------------------
(* A partition the run of its day has written is never built from one      *)
(* source while the other has not delivered, whoever launched the run and  *)
(* whether or not anything waited first.                                   *)
WholeDays == \A d \in Days : ~mart[d].full => mart[d].sources \in {{}, Sources}

(* A day whose time has passed without its run having ended well has       *)
(* raised an alert: a late source does not make a day drop out quietly.    *)
MissedIsReported ==
  deployment # "sensor" =>
    \A d \in 1 .. today - 2 : ends[d] = {} => \E r \in runs : r.day = d
=============================================================================
