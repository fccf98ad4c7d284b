---------------------------- MODULE WarehouseBuild ----------------------------
(***************************************************************************)
(* One client who asks to be erased, while dbt rebuilds the marts every    *)
(* day and the sweep deletes from them: the models that filter by the      *)
(* request queue (stg_clients, int_client_daily_activity), those built     *)
(* from them, the test assert_erased_clients_absent at the end of a build, *)
(* and the sweep with its re-count and the daily verify-all. Each of these *)
(* is a statement of its own, and they run at the same time.               *)
(***************************************************************************)
EXTENDS Integers, Sequences

CONSTANTS
  Swept,   \* the delete targets of the inventory, in its order
  Tested   \* the tables assert_erased_clients_absent looks into

Models == {"dim_client", "fct_client_activity", "feat_client_activity", "dim_restricted_client"}

(* The past of fct_client_activity is the partitions outside the window.   *)
Cells == Models \cup {"clients", "past"}
CellsOf(t) == IF t = "fct_client_activity" THEN {t, "past"} ELSE {t}

ASSUME WarehouseAssumption ==
  /\ Swept \in Seq(Models \cup {"clients"})
  /\ Tested \subseteq Models

VARIABLES
  holds,      \* cell -> rows of the client are in it
  alone,      \* nobody else was active on the day of the window
  request,    \* "none", "open" or "completed"
  building,   \* a build is under way
  asked,      \* it began after the request was raised
  model,      \* model -> "todo", "with" or "without" the client, "done"
  tested,     \* the build has run its tests
  sweepAt,    \* "idle", "list", "delete", "complete" or "count"
  pos,        \* the target the sweep is at
  remaining,  \* the re-count has found rows
  reported    \* a run failed: an operator has been told

buildVars == <<building, asked, model, tested>>
sweepVars == <<sweepAt, pos, remaining>>
warehouseVars == <<holds, alone, request, buildVars, sweepVars, reported>>

WarehouseTypeOK ==
  /\ holds \in [Cells -> BOOLEAN] /\ alone \in BOOLEAN
  /\ request \in {"none", "open", "completed"}
  /\ building \in BOOLEAN /\ asked \in BOOLEAN /\ tested \in BOOLEAN
  /\ model \in [Models -> {"todo", "with", "without", "done"}]
  /\ sweepAt \in {"idle", "list", "delete", "complete", "count"}
  /\ pos \in 1 .. Len(Swept) + 1
  /\ remaining \in BOOLEAN /\ reported \in BOOLEAN

WarehouseInit ==
  /\ holds \in {[c \in Cells |-> c = "clients" \/ b] : b \in BOOLEAN}
  /\ alone \in BOOLEAN
  /\ request = "none"
  /\ building = FALSE /\ asked = FALSE /\ tested = FALSE
  /\ model = [m \in Models |-> "done"]
  /\ sweepAt = "idle" /\ pos = 1 /\ remaining = FALSE
  /\ reported = FALSE

Ask ==
  /\ request = "none" /\ request' = "open"
  /\ UNCHANGED <<holds, alone, buildVars, sweepVars, reported>>

-----------------------------------------------------------------------------
(* dbt build, for another day or for the same again.                       *)

Begin ==
  /\ building' = TRUE /\ asked' = (request # "none")
  /\ model' = [m \in Models |-> "todo"] /\ tested' = FALSE

StartBuild(nextDay) ==
  /\ ~building
  /\ Begin
  /\ holds' = IF nextDay
              THEN [holds EXCEPT !["past"] = @ \/ holds["fct_client_activity"],
                                 !["fct_client_activity"] = FALSE]
              ELSE holds
  /\ UNCHANGED <<alone, request, sweepVars, reported>>

Parents(m) ==
  CASE m = "feat_client_activity" -> {"dim_client", "fct_client_activity"}
    [] m = "dim_restricted_client" -> {"dim_client"}
    [] OTHER -> {}

(* Faulty: int_client_daily_activity does not look at the queue.           *)
SelectsUnfiltered(m) ==
  CASE m = "dim_client" -> holds["clients"] /\ request = "none"
    [] m = "fct_client_activity" -> TRUE
    [] OTHER -> holds["dim_client"]

(* Rows of the client are in the select of the model: those in the queue   *)
(* are filtered out, and the trades are kept whatever they ask for.        *)
Selects(m) ==
  CASE m = "dim_client" -> holds["clients"] /\ request = "none"
    [] m = "fct_client_activity" -> request = "none"
    [] OTHER -> holds["dim_client"]

ReadModel(m) ==
  /\ building /\ model[m] = "todo"
  /\ \A p \in Parents(m) : model[p] = "done"
  /\ model' = [model EXCEPT ![m] = IF Selects(m) THEN "with" ELSE "without"]
  /\ UNCHANGED <<holds, alone, request, building, asked, tested, sweepVars, reported>>

(* create or replace table; for the activity insert_overwrite, which does  *)
(* not touch a day the select has no rows for.                             *)
WriteModel(m) ==
  /\ building /\ model[m] \in {"with", "without"}
  /\ model' = [model EXCEPT ![m] = "done"]
  /\ holds' = IF m = "fct_client_activity" /\ alone /\ model[m] = "without" THEN holds
              ELSE [holds EXCEPT ![m] = (model[m] = "with")]
  /\ UNCHANGED <<alone, request, building, asked, tested, sweepVars, reported>>

(* The DAG starts again, or the attempts are used up.                      *)
FailBuild ==
  \/ Begin /\ UNCHANGED reported
  \/ building' = FALSE /\ reported' = TRUE /\ UNCHANGED <<asked, model, tested>>

Found == \E t \in Tested : \E c \in CellsOf(t) : holds[c]

(* Faulty: only the dimension is looked into.                              *)
TestDimension ==
  /\ building /\ ~tested /\ \A m \in Tested : model[m] = "done"
  /\ \/ /\ request = "completed" /\ holds["dim_client"]
        /\ FailBuild
     \/ /\ ~(request = "completed" /\ holds["dim_client"])
        /\ tested' = TRUE /\ UNCHANGED <<building, asked, model, reported>>
  /\ UNCHANGED <<holds, alone, request, sweepVars>>

(* assert_erased_clients_absent, once the models it names are there.       *)
Test ==
  /\ building /\ ~tested /\ \A m \in Tested : model[m] = "done"
  /\ \/ /\ request = "completed" /\ Found
        /\ FailBuild
     \/ /\ ~(request = "completed" /\ Found)
        /\ tested' = TRUE /\ UNCHANGED <<building, asked, model, reported>>
  /\ UNCHANGED <<holds, alone, request, sweepVars>>

(* Some query of the build fails.                                          *)
BreakBuild ==
  /\ building /\ FailBuild
  /\ UNCHANGED <<holds, alone, request, sweepVars>>

EndBuild ==
  /\ building /\ tested /\ \A m \in Models : model[m] = "done"
  /\ building' = FALSE
  /\ UNCHANGED <<holds, alone, request, asked, model, tested, sweepVars, reported>>

-----------------------------------------------------------------------------
(* The daily erasure run, sweep and then verify-all; both end in the same  *)
(* count of what is left of the client.                                    *)

StartSweep ==
  /\ sweepAt = "idle" /\ sweepAt' = "list"
  /\ UNCHANGED <<holds, alone, request, buildVars, pos, remaining, reported>>

ListPending ==
  /\ sweepAt = "list"
  /\ sweepAt' = CASE request = "open" -> "delete"
                  [] request = "completed" -> "count"
                  [] OTHER -> "idle"
  /\ pos' = 1 /\ remaining' = FALSE
  /\ UNCHANGED <<holds, alone, request, buildVars, reported>>

DeleteRows ==
  /\ sweepAt = "delete"
  /\ IF pos \in DOMAIN Swept
     THEN /\ holds' = [c \in Cells |-> c \notin CellsOf(Swept[pos]) /\ holds[c]]
          /\ pos' = pos + 1 /\ UNCHANGED sweepAt
     ELSE sweepAt' = "complete" /\ pos' = 1 /\ UNCHANGED holds
  /\ UNCHANGED <<alone, request, buildVars, remaining, reported>>

MarkComplete ==
  /\ sweepAt = "complete" /\ sweepAt' = "count"
  /\ request' = "completed"
  /\ UNCHANGED <<holds, alone, buildVars, pos, remaining, reported>>

CountRows ==
  /\ sweepAt = "count" /\ pos \in DOMAIN Swept
  /\ remaining' = (remaining \/ \E c \in CellsOf(Swept[pos]) : holds[c])
  /\ pos' = pos + 1
  /\ UNCHANGED <<holds, alone, request, buildVars, sweepAt, reported>>

Report ==
  /\ sweepAt = "count" /\ pos \notin DOMAIN Swept
  /\ sweepAt' = "idle" /\ pos' = 1
  /\ reported' = (reported \/ remaining)
  /\ UNCHANGED <<holds, alone, request, buildVars, remaining>>

(* The pod dies: the task is tried again, or has failed for good.          *)
Die ==
  /\ sweepAt \notin {"idle", "list"}
  /\ \/ sweepAt' = "list" /\ UNCHANGED reported
     \/ sweepAt' = "idle" /\ reported' = TRUE
  /\ pos' = 1 /\ UNCHANGED <<holds, alone, request, buildVars, remaining>>

BuildStep ==
  \/ \E m \in Models : ReadModel(m)
  \/ \E m \in Models : WriteModel(m)
  \/ Test
  \/ EndBuild

SweepStep ==
  \/ ListPending
  \/ DeleteRows
  \/ MarkComplete
  \/ CountRows
  \/ Report

WarehouseNext ==
  \/ Ask
  \/ \E nextDay \in BOOLEAN : StartBuild(nextDay)
  \/ BuildStep
  \/ BreakBuild
  \/ StartSweep
  \/ SweepStep
  \/ Die

WarehouseSpec == WarehouseInit /\ [][WarehouseNext]_warehouseVars

-----------------------------------------------------------------------------
(* Once a request is completed, rows of the client in a swept table do not *)
(* stay unnoticed: a build or an erasure run that will still look for them *)
(* is under way, or an operator has been told. Neither check is enough     *)
(* alone, as a build may write what it read before the request.            *)
PresentIsReported ==
  request = "completed" /\ sweepAt = "idle" /\ ~building
    /\ (\E i \in DOMAIN Swept : \E c \in CellsOf(Swept[i]) : holds[c])
  => reported

(* Article 18: a build that begins after the request was raised does not   *)
(* process the client, in whatever order its models are built and whatever *)
(* the tables still hold.                                                  *)
ProcessingStops == building /\ asked => \A m \in Models : model[m] # "with"
=============================================================================
