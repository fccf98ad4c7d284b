----------------------------- MODULE MartsProofs -----------------------------
(***************************************************************************)
(* What the jobs around the marts promise, for any number of days, tables, *)
(* clients, runs and writers: the gates of the partitions, the build of    *)
(* the warehouse beside the sweep of an erasure, and the publishing of a   *)
(* mart.                                                                   *)
(***************************************************************************)
EXTENDS PartitionGate, WarehouseBuild, ServingJob, FiniteSetTheorems, TLAPS

-----------------------------------------------------------------------------
(* Partitions (PartitionGate).                                             *)

(* What a run has established about the sources by the time it reads, and  *)
(* about its window by the time it writes.                                 *)
WindowInv ==
  \A r \in runs :
    /\ r.phase = "reading" => HoldsRows(r)
    /\ r.phase = "writing" /\ ~r.full => \A d \in Days : r.read[d] \in {{}, Sources}

(* The clock is never more than a day behind, and what it launched has     *)
(* ended or is under way.                                                  *)
Accounted(d) == ends[d] # {} \/ \E r \in runs : r.day = d

ClockInv ==
  deployment # "sensor" =>
    /\ launched \in {today - 1, today - 2}
    /\ \A d \in 1 .. launched : Accounted(d)

GateInv == GateTypeOK /\ WindowInv /\ WholeDays /\ ClockInv

LEMMA GateInitEstablishes == ASSUME GateInit PROVE GateInv
<1>1. LastDay \in Nat \ {0} /\ MaxRefreshes \in Nat
  BY GateAssumption
<1>2. GateTypeOK
  <2>1. mart \in [Days -> Partition]
    BY DEF GateInit, Partition
  <2>2. today \in Days /\ launched \in Days \cup {0} /\ cursor \in Days \cup {0}
    BY <1>1 DEF GateInit, Days
  <2>3. /\ landed \in [Sources -> SUBSET Days] /\ runs \subseteq Run /\ exists \in BOOLEAN
        /\ ends \in [Days \cup {History} -> SUBSET {"built", "timeout", "empty", "broken"}]
    BY DEF GateInit
  <2>4. deployment \in Deployments /\ refreshes \in 0 .. MaxRefreshes
    BY <1>1 DEF GateInit
  <2> QED BY <2>1, <2>2, <2>3, <2>4 DEF GateTypeOK
<1>3. WindowInv /\ WholeDays
  BY DEF GateInit, WindowInv, WholeDays
<1>4. ClockInv
  BY DEF GateInit, ClockInv
<1> QED BY <1>2, <1>3, <1>4 DEF GateInv

(* A run moves on within its day...                                        *)
LEMMA RunMovesOn ==
  ASSUME GateInv, NEW r \in runs, NEW q \in Run, q.day = r.day,
         runs' = (runs \ {r}) \cup {q},
         UNCHANGED <<deployment, today, landed, launched, cursor, exists, mart, ends, refreshes>>,
         q.phase = "reading" => HoldsRows(q),
         q.phase = "writing" /\ ~q.full => \A d \in Days : q.read[d] \in {{}, Sources}
  PROVE  GateInv'
<1>1. GateTypeOK'
  BY DEF GateInv, GateTypeOK
<1>2. WindowInv'
  BY DEF GateInv, WindowInv, HoldsRows
<1>3. WholeDays'
  BY DEF GateInv, WholeDays
<1>4. \A d : Accounted(d) => Accounted(d)'
  BY DEF Accounted
<1>5. ClockInv'
  BY <1>4 DEF GateInv, ClockInv
<1> QED BY <1>1, <1>2, <1>3, <1>5 DEF GateInv

(* ...or ends, for all to see.                                             *)
LEMMA EndIsSeen ==
  ASSUME GateInv, NEW r \in runs, NEW how \in {"built", "timeout", "empty", "broken"}, End(r, how),
         UNCHANGED <<deployment, today, landed, launched, cursor, refreshes>>,
         exists' \in BOOLEAN, mart' \in [Days -> Partition], WholeDays'
  PROVE  GateInv'
<1>1. r \in Run /\ r.day \in Days \cup {History}
  BY DEF GateInv, GateTypeOK, Run
<1>2. /\ ends' \in [Days \cup {History} -> SUBSET {"built", "timeout", "empty", "broken"}]
      /\ ends'[r.day] # {}
      /\ \A d \in Days : ends[d] \subseteq ends'[d]
  BY <1>1 DEF GateInv, GateTypeOK, End
<1>3. GateTypeOK'
  BY <1>2 DEF GateInv, GateTypeOK, End
<1>4. WindowInv'
  BY DEF GateInv, WindowInv, HoldsRows, End
<1>5. ASSUME NEW d \in 1 .. launched, Accounted(d) PROVE Accounted(d)'
  <2>1. d \in Days
    BY GateAssumption DEF GateInv, GateTypeOK, Days
  <2>2. CASE d = r.day
    BY <1>2, <2>2 DEF Accounted
  <2>3. CASE ends[d] # {}
    BY <1>2, <2>1, <2>3 DEF Accounted
  <2>4. ASSUME NEW p \in runs, p.day = d, d # r.day PROVE Accounted(d)'
    <3>1. p \in runs'
      BY <2>4 DEF End
    <3> QED BY <2>4, <3>1 DEF Accounted
  <2>5. ends[d] # {} \/ \E p \in runs : p.day = d
    BY <1>5 DEF Accounted
  <2> QED BY <2>2, <2>3, <2>4, <2>5
<1>6. ClockInv'
  BY <1>5 DEF GateInv, ClockInv
<1> QED BY <1>3, <1>4, <1>6 DEF GateInv

(* A new run begins.                                                       *)
LEMMA LaunchKeeps ==
  ASSUME GateInv, NEW d \in Days \cup {History}, NEW phase \in {"waiting", "testing"},
         Launch(d, phase),
         UNCHANGED <<deployment, today, landed, exists, mart, ends>>
  PROVE  /\ runs' \subseteq Run
         /\ WindowInv' /\ WholeDays'
         /\ Accounted(d)'
         /\ \A e : Accounted(e) => Accounted(e)'
<1> DEFINE q == [day |-> d, phase |-> phase, full |-> FALSE, read |-> [e \in Days |-> {}]]
<1>1. q \in Run /\ runs' = runs \cup {q} /\ q.day = d /\ q.phase = phase
  BY DEF Run, Launch
<1>2. runs' \subseteq Run
  BY <1>1 DEF GateInv, GateTypeOK
<1>3. WindowInv'
  BY <1>1 DEF GateInv, WindowInv, HoldsRows
<1>4. WholeDays'
  BY DEF GateInv, WholeDays
<1>5. Accounted(d)' /\ \A e : Accounted(e) => Accounted(e)'
  BY <1>1 DEF Accounted
<1> QED BY <1>2, <1>3, <1>4, <1>5

LEMMA GateStep == ASSUME GateInv, [GateNext]_gateVars PROVE GateInv'
<1>0. /\ today \in Days /\ today \in Nat /\ LastDay \in Nat /\ MaxRefreshes \in Nat
      /\ launched \in Nat /\ refreshes \in 0 .. MaxRefreshes
  BY GateAssumption DEF GateInv, GateTypeOK, Days
<1>1. CASE Midnight
  <2>1. GateTypeOK'
    BY <1>0, <1>1 DEF Midnight, GateInv, GateTypeOK
  <2>2. WindowInv' /\ WholeDays'
    BY <1>1 DEF Midnight, GateInv, WindowInv, HoldsRows, WholeDays
  <2>3. ClockInv'
    BY <1>0, <1>1 DEF Midnight, Yesterday, GateInv, ClockInv, Accounted
  <2> QED BY <2>1, <2>2, <2>3 DEF GateInv
<1>2. ASSUME NEW s \in Sources, NEW d \in Days, Land(s, d) PROVE GateInv'
  <2>1. landed' \in [Sources -> SUBSET Days] /\ \A e \in Sources : landed[e] \subseteq landed'[e]
    BY <1>2 DEF Land, GateInv, GateTypeOK
  <2>2. GateTypeOK'
    BY <1>2, <2>1 DEF Land, GateInv, GateTypeOK
  <2>3. \A r \in runs : HoldsRows(r) => HoldsRows(r)'
    BY <2>1 DEF HoldsRows
  <2>4. WindowInv' /\ WholeDays' /\ ClockInv'
    BY <1>2, <2>3 DEF Land, GateInv, WindowInv, WholeDays, ClockInv, Accounted
  <2> QED BY <2>2, <2>4 DEF GateInv
<1>3. CASE LaunchByClock
  <2>1. /\ launched < Yesterday /\ launched' = Yesterday
        /\ UNCHANGED <<deployment, today, landed, cursor, exists, mart, ends, refreshes>>
    BY <1>3 DEF LaunchByClock
  <2>2. PICK y \in Days : y = Yesterday
    BY <1>0, <2>1 DEF Yesterday, Days
  <2>3. PICK phase \in {"waiting", "testing"} : Launch(y, phase)
    BY <1>3, <2>2 DEF LaunchByClock
  <2>4. /\ runs' \subseteq Run /\ WindowInv' /\ WholeDays'
        /\ Accounted(y)' /\ \A e : Accounted(e) => Accounted(e)'
    BY <2>1, <2>3, LaunchKeeps
  <2>5. GateTypeOK'
    BY <2>1, <2>2, <2>4 DEF GateInv, GateTypeOK
  <2>6. ASSUME deployment # "sensor"
        PROVE  launched' = today' - 1 /\ \A d \in 1 .. launched' : Accounted(d)'
    <3>1. launched' = y /\ y = today - 1 /\ y = launched + 1 /\ today' = today
      BY <1>0, <2>1, <2>2, <2>6 DEF Yesterday, GateInv, ClockInv
    <3>2. \A d \in 1 .. y : d \in 1 .. launched \/ d = y
      BY <1>0, <3>1
    <3> QED BY <2>4, <2>6, <3>1, <3>2 DEF GateInv, ClockInv
  <2> QED BY <2>1, <2>4, <2>5, <2>6 DEF GateInv, ClockInv
<1>4. CASE SensorTick
  <2>1. /\ deployment = "sensor" /\ Yesterday \in Days /\ cursor' = Yesterday
        /\ Launch(Yesterday, "testing")
        /\ UNCHANGED <<deployment, today, landed, launched, exists, mart, ends, refreshes>>
    BY <1>4 DEF SensorTick
  <2>2. runs' \subseteq Run /\ WindowInv' /\ WholeDays'
    BY <2>1, LaunchKeeps
  <2> QED BY <2>1, <2>2 DEF GateInv, GateTypeOK, ClockInv
<1>5. CASE Refresh
  <2>1. /\ refreshes < MaxRefreshes /\ refreshes' = refreshes + 1 /\ Launch(History, "testing")
        /\ UNCHANGED <<deployment, today, landed, launched, cursor, exists, mart, ends>>
    BY <1>5 DEF Refresh
  <2>2. /\ runs' \subseteq Run /\ WindowInv' /\ WholeDays'
        /\ \A e : Accounted(e) => Accounted(e)'
    BY <2>1, LaunchKeeps
  <2>3. refreshes' \in 0 .. MaxRefreshes
    BY <1>0, <2>1
  <2> QED BY <2>1, <2>2, <2>3 DEF GateInv, GateTypeOK, ClockInv
<1>6. ASSUME NEW r \in runs,
             EndWait(r) \/ GiveUp(r) \/ TestWindow(r) \/ Read(r) \/ Write(r) \/ Break(r)
      PROVE  GateInv'
  <2>0. r \in Run /\ r.day \in Days \cup {History} /\ r.read \in [Days -> SUBSET Sources] /\ r.full \in BOOLEAN
    BY DEF GateInv, GateTypeOK, Run
  <2>1. CASE EndWait(r)
    <3> DEFINE q == [r EXCEPT !.phase = "testing"]
    <3>1. q \in Run /\ q.day = r.day /\ q.phase = "testing"
      BY <2>0 DEF Run
    <3> QED BY <2>1, <3>1, RunMovesOn DEF EndWait
  <2>2. CASE GiveUp(r) \/ Break(r)
    <3>1. mart' = mart /\ exists' = exists /\ WholeDays'
      BY <2>2 DEF GiveUp, Break, GateInv, WholeDays
    <3> QED BY <2>2, <3>1, EndIsSeen DEF GiveUp, Break, GateInv, GateTypeOK
  <2>3. CASE TestWindow(r) /\ HoldsRows(r)
    <3> DEFINE q == [r EXCEPT !.phase = "reading"]
    <3>1. q \in Run /\ q.day = r.day /\ q.phase = "reading"
      BY <2>0 DEF Run
    <3>2. HoldsRows(q)
      BY <2>3, <3>1 DEF HoldsRows
    <3> QED BY <2>3, <3>1, <3>2, RunMovesOn DEF TestWindow
  <2>4. CASE TestWindow(r) /\ ~HoldsRows(r)
    <3>1. mart' = mart /\ exists' = exists /\ WholeDays'
      BY <2>4 DEF TestWindow, GateInv, WholeDays
    <3> QED BY <2>4, <3>1, EndIsSeen DEF TestWindow, GateInv, GateTypeOK
  <2>5. CASE Read(r)
    <3> DEFINE full == r.day = History \/ ~exists
               rows == [d \in Days |-> IF full \/ d = r.day THEN {s \in Sources : d \in landed[s]} ELSE {}]
               q == [r EXCEPT !.phase = "writing", !.full = full, !.read = rows]
    <3>1. rows \in [Days -> SUBSET Sources] /\ full \in BOOLEAN
      OBVIOUS
    <3> HIDE DEF rows, full
    <3>2. q \in Run /\ q.day = r.day /\ q.phase = "writing" /\ q.full = full /\ q.read = rows
      BY <2>0, <3>1 DEF Run
    <3>3. ~full => \A d \in Days : rows[d] \in {{}, Sources}
      <4>1. HoldsRows(r)
        BY <2>5 DEF Read, GateInv, WindowInv
      <4> QED BY <2>0, <4>1 DEF HoldsRows, rows, full
    <3>4. runs' = (runs \ {r}) \cup {q}
      BY <2>5 DEF Read, rows, full
    <3> QED BY <2>5, <3>2, <3>3, <3>4, RunMovesOn DEF Read
  <2>6. CASE Write(r)
    <3>1. \A d \in Days : mart'[d] = IF r.full \/ r.read[d] # {}
                                     THEN [sources |-> r.read[d], full |-> r.full] ELSE mart[d]
      BY <2>6 DEF Write
    <3>2. mart' \in [Days -> Partition]
      BY <2>0, <2>6 DEF Write, GateInv, GateTypeOK, Partition
    <3>3. WholeDays'
      <4> SUFFICES ASSUME NEW d \in Days, ~mart'[d].full PROVE mart'[d].sources \in {{}, Sources}
        BY DEF WholeDays
      <4>1. CASE r.full \/ r.read[d] # {}
        BY <2>0, <2>6, <3>1, <4>1 DEF Write, GateInv, WindowInv
      <4>2. CASE ~(r.full \/ r.read[d] # {})
        BY <3>1, <4>2 DEF GateInv, WholeDays
      <4> QED BY <4>1, <4>2
    <3> QED BY <2>6, <3>2, <3>3, EndIsSeen DEF Write
  <2> QED BY <1>6, <2>1, <2>2, <2>3, <2>4, <2>5, <2>6
<1>7. CASE UNCHANGED gateVars
  BY <1>7 DEF gateVars, GateInv, GateTypeOK, WindowInv, HoldsRows, WholeDays, ClockInv, Accounted
<1> QED BY <1>1, <1>2, <1>3, <1>4, <1>5, <1>6, <1>7 DEF GateNext

LEMMA GateAlways == GateSpec => []GateInv
BY GateInitEstablishes, GateStep, PTL DEF GateSpec

(* A partition that the run of its day wrote has rows of all its sources   *)
(* or of none, on every deployment: the test of the window stands between  *)
(* a half-landed day and the mart, also where nothing waits for it         *)
(* (macros/rows_for_window, dbt_incremental_dag.py, sensors.py).           *)
THEOREM NoHalfDays == GateSpec => []WholeDays
<1>1. GateInv => WholeDays
  BY DEF GateInv
<1> QED BY <1>1, GateAlways, PTL

(* Where the clock launches the runs, a day that has passed has a run      *)
(* under way, or one that has ended; so a day that was not built ended in  *)
(* an alert (dbt_incremental_dag.py; dagster, daily schedule).             *)
THEOREM NoDayGoesMissing == GateSpec => []MissedIsReported
<1>1. GateInv => MissedIsReported
  <2> SUFFICES ASSUME GateInv, deployment # "sensor", NEW d \in 1 .. today - 2
               PROVE  Accounted(d)
    BY DEF MissedIsReported, Accounted
  <2>1. today \in Nat /\ launched \in {today - 1, today - 2} /\ \A e \in 1 .. launched : Accounted(e)
    BY GateAssumption DEF GateInv, GateTypeOK, ClockInv, Days
  <2> QED BY <2>1
<1> QED BY <1>1, GateAlways, PTL

-----------------------------------------------------------------------------
(* The build and the sweep (WarehouseBuild).                               *)

(* A build that began after the request has nobody to pass on.             *)
StopInv ==
  /\ asked => request # "none"
  /\ building /\ asked =>
       /\ \A m \in Models : model[m] # "with"
       /\ model["dim_client"] = "done" => ~holds["dim_client"]

BuildInv == WarehouseTypeOK /\ StopInv

LEMMA SweptLength == Len(Swept) \in Nat /\ DOMAIN Swept = 1 .. Len(Swept)
  BY WarehouseAssumption

LEMMA CellsOfModel ==
  ASSUME NEW t \in Models \cup {"clients"}
  PROVE  CellsOf(t) \subseteq Cells /\ (t # "fct_client_activity" => CellsOf(t) = {t})
  BY DEF CellsOf, Cells, Models

LEMMA WarehouseInitEstablishes == ASSUME WarehouseInit PROVE BuildInv
<1>1. holds \in [Cells -> BOOLEAN]
  BY DEF WarehouseInit
<1>2. pos \in 1 .. Len(Swept) + 1
  BY SweptLength DEF WarehouseInit
<1>3. WarehouseTypeOK
  BY <1>1, <1>2 DEF WarehouseInit, WarehouseTypeOK
<1>4. StopInv
  BY DEF WarehouseInit, StopInv
<1> QED BY <1>3, <1>4 DEF BuildInv

(* A build starts over.                                                    *)
LEMMA BeginKeeps ==
  ASSUME BuildInv, Begin, UNCHANGED <<alone, request, sweepVars>>,
         holds' \in [Cells -> BOOLEAN], reported' \in BOOLEAN
  PROVE  BuildInv'
<1>1. WarehouseTypeOK'
  BY DEF BuildInv, Begin, WarehouseTypeOK, sweepVars
<1>2. StopInv'
  <2>1. \A m \in Models : model'[m] = "todo"
    BY DEF Begin
  <2>2. model'["dim_client"] = "todo"
    BY <2>1 DEF Models
  <2>3. asked' => request' # "none"
    BY DEF Begin
  <2> QED BY <2>1, <2>2, <2>3 DEF StopInv
<1> QED BY <1>1, <1>2 DEF BuildInv

(* A build that has failed starts over, or is given up.                    *)
LEMMA FailBuildKeeps ==
  ASSUME BuildInv, FailBuild, UNCHANGED <<holds, alone, request, sweepVars>>
  PROVE  BuildInv'
<1>1. CASE Begin /\ UNCHANGED reported
  BY <1>1, BeginKeeps DEF BuildInv, WarehouseTypeOK
<1>2. CASE building' = FALSE /\ reported' = TRUE /\ UNCHANGED <<asked, model, tested>>
  BY <1>2 DEF BuildInv, WarehouseTypeOK, StopInv, sweepVars
<1> QED BY <1>1, <1>2 DEF FailBuild

(* The sweep only takes rows away, and never takes a request back.         *)
LEMMA SweepKeeps ==
  ASSUME BuildInv, UNCHANGED <<alone, buildVars>>,
         holds' \in [Cells -> BOOLEAN], \A c \in Cells : holds'[c] => holds[c],
         request' \in {"none", "open", "completed"}, request # "none" => request' # "none",
         sweepAt' \in {"idle", "list", "delete", "complete", "count"},
         pos' \in 1 .. Len(Swept) + 1, remaining' \in BOOLEAN, reported' \in BOOLEAN
  PROVE  BuildInv'
<1>1. WarehouseTypeOK'
  BY DEF BuildInv, WarehouseTypeOK, buildVars
<1>2. StopInv'
  BY DEF BuildInv, StopInv, buildVars, Cells, Models
<1> QED BY <1>1, <1>2 DEF BuildInv

LEMMA ReadModelKeeps == ASSUME BuildInv, NEW m \in Models, ReadModel(m) PROVE BuildInv'
<1>1. /\ building /\ model[m] = "todo"
      /\ model' = [model EXCEPT ![m] = IF Selects(m) THEN "with" ELSE "without"]
      /\ UNCHANGED <<holds, alone, request, building, asked, tested, sweepVars, reported>>
  BY DEF ReadModel
<1>2. WarehouseTypeOK'
  BY <1>1 DEF BuildInv, WarehouseTypeOK, sweepVars
<1>3. asked => ~Selects(m)
  <2> SUFFICES ASSUME asked PROVE ~Selects(m)
    OBVIOUS
  <2>1. request # "none" /\ (model["dim_client"] = "done" => ~holds["dim_client"])
    BY <1>1 DEF BuildInv, StopInv
  <2>2. CASE m \in {"dim_client", "fct_client_activity"}
    BY <2>1, <2>2 DEF Selects
  <2>3. CASE m \in {"feat_client_activity", "dim_restricted_client"}
    <3>1. "dim_client" \in Parents(m)
      BY <2>3 DEF Parents
    <3>2. model["dim_client"] = "done"
      BY <3>1 DEF ReadModel
    <3> QED BY <2>1, <2>3, <3>2 DEF Selects
  <2> QED BY <2>2, <2>3 DEF Models
<1>4. StopInv'
  BY <1>1, <1>3 DEF BuildInv, StopInv, WarehouseTypeOK
<1> QED BY <1>2, <1>4 DEF BuildInv

LEMMA WriteModelKeeps == ASSUME BuildInv, NEW m \in Models, WriteModel(m) PROVE BuildInv'
<1>1. /\ building /\ model[m] \in {"with", "without"}
      /\ model' = [model EXCEPT ![m] = "done"]
      /\ UNCHANGED <<alone, request, building, asked, tested, sweepVars, reported>>
  BY DEF WriteModel
<1>2. /\ holds' \in [Cells -> BOOLEAN]
      /\ \A c \in Cells \ {m} : holds'[c] = holds[c]
      /\ m = "dim_client" => holds'[m] = (model[m] = "with")
  <2>1. m \in Cells /\ holds \in [Cells -> BOOLEAN]
    BY DEF Cells, BuildInv, WarehouseTypeOK
  <2>2. CASE m = "fct_client_activity" /\ alone /\ model[m] = "without"
    BY <2>1, <2>2 DEF WriteModel
  <2>3. CASE ~(m = "fct_client_activity" /\ alone /\ model[m] = "without")
    <3>1. holds' = [holds EXCEPT ![m] = (model[m] = "with")]
      BY <2>3 DEF WriteModel
    <3>2. (model[m] = "with") \in BOOLEAN
      OBVIOUS
    <3> QED BY <2>1, <3>1, <3>2
  <2> QED BY <2>2, <2>3
<1>3. WarehouseTypeOK'
  BY <1>1, <1>2 DEF BuildInv, WarehouseTypeOK, sweepVars
<1>4. StopInv'
  BY <1>1, <1>2 DEF BuildInv, StopInv, WarehouseTypeOK, Cells, Models
<1> QED BY <1>3, <1>4 DEF BuildInv

LEMMA WarehouseStep == ASSUME BuildInv, [WarehouseNext]_warehouseVars PROVE BuildInv'
<1> USE DEF buildVars, sweepVars
<1>0. /\ holds \in [Cells -> BOOLEAN] /\ sweepAt \in {"idle", "list", "delete", "complete", "count"}
      /\ pos \in 1 .. Len(Swept) + 1 /\ remaining \in BOOLEAN /\ reported \in BOOLEAN
      /\ request \in {"none", "open", "completed"}
  BY DEF BuildInv, WarehouseTypeOK
<1>1. CASE Ask \/ StartSweep
  BY <1>0, <1>1, SweepKeeps DEF Ask, StartSweep
<1>2. ASSUME NEW nextDay \in BOOLEAN, StartBuild(nextDay) PROVE BuildInv'
  <2>1. holds' \in [Cells -> BOOLEAN]
    BY <1>0, <1>2 DEF StartBuild, Cells, Models
  <2> QED BY <1>2, <2>1, BeginKeeps DEF StartBuild, BuildInv, WarehouseTypeOK
<1>3. CASE BuildStep
  <2>1. CASE Test
    <3>1. CASE FailBuild
      BY <2>1, <3>1, FailBuildKeeps DEF Test
    <3>2. CASE tested' = TRUE /\ UNCHANGED <<building, asked, model, reported>>
      BY <2>1, <3>2 DEF Test, BuildInv, WarehouseTypeOK, StopInv
    <3> QED BY <2>1, <3>1, <3>2 DEF Test
  <2>2. CASE EndBuild
    BY <2>2 DEF EndBuild, BuildInv, WarehouseTypeOK, StopInv
  <2> QED BY <1>3, <2>1, <2>2, ReadModelKeeps, WriteModelKeeps DEF BuildStep
<1>4. CASE BreakBuild
  BY <1>4, FailBuildKeeps DEF BreakBuild
<1>5. CASE SweepStep
  <2>1. CASE ListPending
    <3>1. sweepAt' \in {"delete", "count", "idle"} /\ pos' = 1 /\ remaining' = FALSE
      BY <2>1 DEF ListPending
    <3>2. 1 \in 1 .. Len(Swept) + 1
      BY SweptLength
    <3> QED BY <1>0, <2>1, <3>1, <3>2, SweepKeeps DEF ListPending
  <2>2. CASE DeleteRows
    <3>1. /\ holds' \in [Cells -> BOOLEAN] /\ \A c \in Cells : holds'[c] => holds[c]
      BY <1>0, <2>2 DEF DeleteRows
    <3>2. pos' \in 1 .. Len(Swept) + 1
      BY <1>0, <2>2, SweptLength DEF DeleteRows
    <3> QED BY <1>0, <2>2, <3>1, <3>2, SweepKeeps DEF DeleteRows
  <2>3. CASE MarkComplete
    BY <1>0, <2>3, SweepKeeps DEF MarkComplete
  <2>4. CASE CountRows
    <3>1. remaining' \in BOOLEAN
      BY <2>4 DEF CountRows
    <3>2. pos' \in 1 .. Len(Swept) + 1
      BY <1>0, <2>4, SweptLength DEF CountRows
    <3> QED BY <1>0, <2>4, <3>1, <3>2, SweepKeeps DEF CountRows
  <2>5. CASE Report
    BY <1>0, <2>5, SweepKeeps, SweptLength DEF Report
  <2> QED BY <1>5, <2>1, <2>2, <2>3, <2>4, <2>5 DEF SweepStep
<1>6. CASE Die
  <2>1. sweepAt' \in {"list", "idle"} /\ pos' = 1 /\ reported' \in BOOLEAN
    BY <1>0, <1>6 DEF Die
  <2>2. 1 \in 1 .. Len(Swept) + 1
    BY SweptLength
  <2> QED BY <1>0, <1>6, <2>1, <2>2, SweepKeeps DEF Die
<1>7. CASE UNCHANGED warehouseVars
  BY <1>7 DEF warehouseVars, BuildInv, WarehouseTypeOK, StopInv
<1> QED BY <1>1, <1>2, <1>3, <1>4, <1>5, <1>6, <1>7 DEF WarehouseNext

LEMMA BuildAlways == WarehouseSpec => []BuildInv
BY WarehouseInitEstablishes, WarehouseStep, PTL DEF WarehouseSpec

(* Article 18: a build that begins after the request was raised does not   *)
(* process the client, in whatever order its models are built and whatever *)
(* the tables still hold (models/staging/stg_clients.sql,                  *)
(* int_client_daily_activity.sql).                                         *)
THEOREM NoProcessingAfterAsking == WarehouseSpec => []ProcessingStops
<1>1. BuildInv => ProcessingStops
  BY DEF BuildInv, StopInv, ProcessingStops
<1> QED BY <1>1, BuildAlways, PTL

-----------------------------------------------------------------------------
(* Two nets, the test and the count, and why rows cannot slip between.     *)

(* The test looks into every swept table but the raw one.                  *)
SweptIsTested == \A i \in DOMAIN Swept : Swept[i] \in Tested \cup {"clients"}

Left(i) == \E c \in CellsOf(Swept[i]) : holds[c]

NoneLeft == \A i \in DOMAIN Swept : ~Left(i)

(* After its tests a build writes none of the tables tested any more.      *)
TestedInv == building /\ tested => \A m \in Tested : model[m] = "done"

(* Nothing brings the client back into the raw table.                      *)
SourceInv ==
  /\ sweepAt = "delete" => \A i \in 1 .. pos - 1 : Swept[i] = "clients" => ~holds["clients"]
  /\ sweepAt = "complete" \/ request = "completed" =>
       \A i \in DOMAIN Swept : Swept[i] = "clients" => ~holds["clients"]
  /\ sweepAt = "complete" => pos = 1

(* Whatever is left is still to be met by the test or the count.           *)
Watched ==
  \/ reported \/ NoneLeft
  \/ building /\ ~tested
  \/ sweepAt = "list"
  \/ sweepAt = "count" /\ (remaining \/ \E i \in pos .. Len(Swept) : Left(i))

WatchInv == request = "completed" => Watched

NetInv == TestedInv /\ SourceInv /\ WatchInv

LEMMA SweptCells ==
  ASSUME SweptIsTested, NEW i \in DOMAIN Swept
  PROVE  /\ Swept[i] \in Models \cup {"clients"}
         /\ CellsOf(Swept[i]) \subseteq Cells
         /\ \A m \in Models \ Tested : m \notin CellsOf(Swept[i])
<1>1. Swept[i] \in Tested \cup {"clients"} /\ Tested \subseteq Models
  BY WarehouseAssumption DEF SweptIsTested
<1>2. CellsOf(Swept[i]) \subseteq Cells
  BY <1>1, CellsOfModel
<1>3. ASSUME NEW m \in Models \ Tested PROVE m \notin CellsOf(Swept[i])
  BY <1>1 DEF CellsOf, Models
<1> QED BY <1>1, <1>2, <1>3

(* A build that starts over will test.                                     *)
LEMMA BeginIsWatched ==
  ASSUME NetInv, Begin, UNCHANGED <<request, sweepVars>>, holds'["clients"] = holds["clients"]
  PROVE  NetInv'
  BY DEF NetInv, TestedInv, SourceInv, WatchInv, Watched, Begin, sweepVars

LEMMA FailIsWatched ==
  ASSUME NetInv, FailBuild, UNCHANGED <<holds, request, sweepVars>>
  PROVE  NetInv'
<1>1. CASE Begin
  BY <1>1, BeginIsWatched
<1>2. CASE building' = FALSE /\ reported' = TRUE
  BY <1>2 DEF NetInv, TestedInv, SourceInv, WatchInv, Watched, sweepVars
<1> QED BY <1>1, <1>2 DEF FailBuild

LEMMA ReadIsWatched ==
  ASSUME BuildInv, NetInv, NEW m \in Models, ReadModel(m)
  PROVE  NetInv'
<1>1. /\ model[m] = "todo" /\ UNCHANGED <<holds, request, building, tested, sweepVars, reported>>
      /\ \A n \in Models \ {m} : model'[n] = model[n]
  BY DEF ReadModel, BuildInv, WarehouseTypeOK
<1>2. TestedInv'
  BY <1>1, WarehouseAssumption DEF NetInv, TestedInv
<1> QED BY <1>1, <1>2 DEF NetInv, SourceInv, WatchInv, Watched, NoneLeft, Left, sweepVars

LEMMA WriteIsWatched ==
  ASSUME SweptIsTested, BuildInv, NetInv, NEW m \in Models, WriteModel(m)
  PROVE  NetInv'
<1>1. /\ building /\ model[m] \in {"with", "without"}
      /\ UNCHANGED <<request, building, tested, sweepVars, reported>>
      /\ model' = [model EXCEPT ![m] = "done"]
  BY DEF WriteModel
<1>2. \A c \in Cells \ {m} : holds'[c] = holds[c]
  <2>1. m \in Cells /\ holds \in [Cells -> BOOLEAN]
    BY DEF Cells, BuildInv, WarehouseTypeOK
  <2> QED BY <2>1 DEF WriteModel
<1>3. TestedInv'
  BY <1>1, WarehouseAssumption DEF NetInv, TestedInv, BuildInv, WarehouseTypeOK
<1>4. SourceInv'
  BY <1>1, <1>2 DEF NetInv, SourceInv, sweepVars, Cells, Models
<1>5. CASE ~tested
  BY <1>1, <1>3, <1>4, <1>5 DEF NetInv, WatchInv, Watched
<1>6. CASE tested
  <2>1. m \in Models \ Tested
    BY <1>1, <1>6 DEF NetInv, TestedInv
  <2>2. \A i \in DOMAIN Swept : Left(i)' <=> Left(i)
    BY <1>2, <2>1, SweptCells DEF Left
  <2>3. pos .. Len(Swept) \subseteq DOMAIN Swept
    BY SweptLength DEF BuildInv, WarehouseTypeOK
  <2>4. Watched => Watched'
    BY <1>1, <2>2, <2>3 DEF Watched, NoneLeft, sweepVars
  <2> QED BY <1>1, <1>3, <1>4, <2>4 DEF NetInv, WatchInv
<1> QED BY <1>5, <1>6

(* The test finds what is left, or there is nothing.                       *)
LEMMA TestIsWatched ==
  ASSUME SweptIsTested, BuildInv, NetInv, Test
  PROVE  NetInv'
<1>1. CASE FailBuild
  BY <1>1, FailIsWatched DEF Test
<1>2. CASE ~FailBuild
  <2>1. /\ ~(request = "completed" /\ Found) /\ tested' = TRUE
        /\ \A m \in Tested : model[m] = "done"
        /\ UNCHANGED <<building, model, reported, holds, request, sweepVars>>
    BY <1>2 DEF Test
  <2>2. request = "completed" => NoneLeft
    BY <2>1, SweptLength
    DEF Found, NoneLeft, Left, SweptIsTested, NetInv, SourceInv, CellsOf
  <2> QED BY <2>1, <2>2 DEF NetInv, TestedInv, SourceInv, WatchInv, Watched, NoneLeft, Left, sweepVars
<1> QED BY <1>1, <1>2

(* The sweep: first nothing is left of what it has passed; afterwards the  *)
(* count begins with the first target.                                     *)
LEMMA SweepIsWatched ==
  ASSUME BuildInv, NetInv, StartSweep \/ SweepStep \/ Die
  PROVE  NetInv'
<1> USE DEF buildVars
<1>0. /\ pos \in 1 .. Len(Swept) + 1 /\ Len(Swept) \in Nat /\ DOMAIN Swept = 1 .. Len(Swept)
      /\ holds \in [Cells -> BOOLEAN]
  BY SweptLength DEF BuildInv, WarehouseTypeOK
<1>1. TestedInv'
  BY DEF StartSweep, SweepStep, ListPending, DeleteRows, MarkComplete, CountRows, Report, Die,
         NetInv, TestedInv
<1>2. CASE StartSweep
  BY <1>1, <1>2 DEF StartSweep, NetInv, SourceInv, WatchInv, Watched, NoneLeft, Left
<1>3. CASE ListPending
  <2>1. SourceInv'
    BY <1>0, <1>3 DEF ListPending, NetInv, SourceInv
  <2>2. request = "completed" => sweepAt' = "count" /\ pos' = 1 /\ UNCHANGED <<holds, request>>
    BY <1>3 DEF ListPending
  <2>3. WatchInv'
    BY <1>0, <1>3, <2>2 DEF ListPending, WatchInv, Watched, NoneLeft, Left
  <2> QED BY <1>1, <2>1, <2>3 DEF NetInv
<1>4. CASE DeleteRows
  <2>1. \A c \in Cells : holds'[c] => holds[c]
    BY <1>0, <1>4 DEF DeleteRows
  <2>2. SourceInv'
    <3>1. CASE pos \in DOMAIN Swept
      <4>1. /\ sweepAt = "delete" /\ sweepAt' = "delete" /\ pos' = pos + 1 /\ request' = request
            /\ holds' = [c \in Cells |-> c \notin CellsOf(Swept[pos]) /\ holds[c]]
        BY <1>4, <3>1 DEF DeleteRows
      <4>2. Swept[pos] = "clients" => ~holds'["clients"]
        BY <4>1 DEF CellsOf, Cells
      <4>3. holds'["clients"] => holds["clients"]
        BY <2>1 DEF Cells
      <4>4. \A i \in 1 .. pos' - 1 : i \in 1 .. pos - 1 \/ i = pos
        BY <1>0, <4>1
      <4> QED BY <1>0, <4>1, <4>2, <4>3, <4>4 DEF NetInv, SourceInv
    <3>2. CASE pos \notin DOMAIN Swept
      <4>1. /\ sweepAt = "delete" /\ sweepAt' = "complete" /\ pos' = 1
            /\ request' = request /\ holds' = holds
        BY <1>4, <3>2 DEF DeleteRows
      <4>2. 1 .. pos - 1 = DOMAIN Swept
        BY <1>0, <3>2
      <4> QED BY <4>1, <4>2 DEF NetInv, SourceInv
    <3> QED BY <3>1, <3>2
  <2>3. sweepAt = "delete" /\ UNCHANGED <<request, building, tested, reported>>
    BY <1>4 DEF DeleteRows
  <2>4. NoneLeft => NoneLeft'
    BY <2>1, <1>0, CellsOfModel, WarehouseAssumption DEF NoneLeft, Left
  <2> QED BY <1>1, <2>2, <2>3, <2>4 DEF NetInv, WatchInv, Watched
<1>5. CASE MarkComplete
  <2>1. /\ sweepAt = "complete" /\ sweepAt' = "count" /\ request' = "completed"
        /\ UNCHANGED <<holds, pos>>
    BY <1>5 DEF MarkComplete
  <2>2. pos = 1
    BY <2>1 DEF NetInv, SourceInv
  <2> QED BY <1>0, <1>1, <2>1, <2>2 DEF NetInv, SourceInv, WatchInv, Watched, NoneLeft, Left
<1>6. CASE CountRows
  <2>1. /\ sweepAt = "count" /\ pos \in DOMAIN Swept /\ remaining' = (remaining \/ Left(pos))
        /\ pos' = pos + 1 /\ UNCHANGED <<holds, request, building, tested, sweepAt, reported>>
    BY <1>6 DEF CountRows, Left
  <2>2. \A i \in pos .. Len(Swept) : i = pos \/ i \in pos' .. Len(Swept)
    BY <1>0, <2>1
  <2>3. \A i : Left(i)' <=> Left(i)
    BY <2>1 DEF Left
  <2>4. Watched => Watched'
    BY <2>1, <2>2, <2>3 DEF Watched, NoneLeft
  <2> QED BY <1>1, <2>1, <2>4 DEF NetInv, SourceInv, WatchInv
<1>7. CASE Report
  <2>1. /\ sweepAt = "count" /\ pos \notin DOMAIN Swept /\ sweepAt' = "idle"
        /\ reported' = (reported \/ remaining)
        /\ UNCHANGED <<holds, request, building, tested>>
    BY <1>7 DEF Report
  <2>2. pos .. Len(Swept) = {}
    BY <1>0, <2>1
  <2>3. Watched => Watched'
    BY <2>1, <2>2 DEF Watched, NoneLeft, Left
  <2> QED BY <1>1, <2>1, <2>3 DEF NetInv, SourceInv, WatchInv
<1>8. CASE Die
  BY <1>1, <1>8 DEF Die, NetInv, SourceInv, WatchInv, Watched, NoneLeft, Left
<1> QED BY <1>2, <1>3, <1>4, <1>5, <1>6, <1>7, <1>8 DEF SweepStep

LEMMA NetStep ==
  ASSUME SweptIsTested, BuildInv, NetInv, [WarehouseNext]_warehouseVars
  PROVE  NetInv'
<1>1. CASE Ask
  BY <1>1 DEF Ask, buildVars, sweepVars, NetInv, TestedInv, SourceInv, WatchInv
<1>2. ASSUME NEW nextDay \in BOOLEAN, StartBuild(nextDay) PROVE NetInv'
  <2>1. holds'["clients"] = holds["clients"]
    BY <1>2 DEF StartBuild, BuildInv, WarehouseTypeOK, Cells, Models
  <2> QED BY <1>2, <2>1, BeginIsWatched DEF StartBuild
<1>3. CASE EndBuild
  BY <1>3 DEF EndBuild, NetInv, TestedInv, SourceInv, WatchInv, Watched, NoneLeft, Left, sweepVars
<1>4. CASE BreakBuild
  BY <1>4, FailIsWatched DEF BreakBuild
<1>5. CASE UNCHANGED warehouseVars
  BY <1>5 DEF warehouseVars, buildVars, sweepVars, NetInv, TestedInv, SourceInv, WatchInv, Watched,
              NoneLeft, Left
<1> QED
  BY <1>1, <1>2, <1>3, <1>4, <1>5, ReadIsWatched, WriteIsWatched, TestIsWatched, SweepIsWatched
  DEF WarehouseNext, BuildStep

(* Where the test of the build looks into every swept table but the raw    *)
(* one, rows of a completed client in any of them have been reported once  *)
(* neither a build nor an erasure run is under way: what a build wrote too *)
(* late for the count, its own test still meets                            *)
(* (tests/assert_erased_clients_absent.sql; privacy/erasure.py, verify).   *)
THEOREM NobodySlipsThrough == ASSUME SweptIsTested PROVE WarehouseSpec => []PresentIsReported
<1>1. WarehouseInit => NetInv
  BY DEF WarehouseInit, NetInv, TestedInv, SourceInv, WatchInv
<1>2. BuildInv /\ NetInv /\ [WarehouseNext]_warehouseVars => NetInv'
  BY NetStep
<1>3. NetInv => PresentIsReported
  BY DEF NetInv, WatchInv, Watched, NoneLeft, Left, PresentIsReported
<1> QED BY <1>1, <1>2, <1>3, BuildAlways, PTL DEF WarehouseSpec

-----------------------------------------------------------------------------
(* Publishing (ServingJob).                                                *)

Mine(b, w) == writer[b][w].mine
Open(b, w) == writer[b][w].todo \cup writer[b][w].pending
Served(b, c) == docs[c] = batch[b].rows[c]

(* The rows of a batch are dealt out completely.                           *)
DealtInv ==
  \A b \in Batches :
    batch[b].at = "write" =>
      /\ \A c \in DOMAIN batch[b].rows : \E w \in Writers : c \in Mine(b, w)
      /\ \A w \in Writers : Open(b, w) \subseteq Mine(b, w) /\ Mine(b, w) \subseteq DOMAIN batch[b].rows

(* A batch that has the store for itself is the only one that writes.      *)
AloneInv ==
  \A b, q \in Batches :
    batch[b].alone /\ (Underway(b) \/ batch[b].at = "ok") /\ q # b => ~Underway(q)

(* ... so that what it has written stays.                                  *)
ServedInv ==
  \A b \in Batches :
    batch[b].at = "write" /\ batch[b].alone =>
      \A w \in Writers : \A c \in Mine(b, w) \ Open(b, w) : Served(b, c)

PendingInv == \A b \in Batches, w \in Writers : IsFiniteSet(writer[b][w].pending)

PublishInv ==
  ServingTypeOK /\ PendingInv /\ DealtInv /\ AloneInv /\ ServedInv /\ RerunMakesUp

LEMMA RowsAreRowset ==
  ASSUME NEW S \in SUBSET Clients, NEW f \in [S -> Values]
  PROVE  f \in Rowset
  BY DEF Rowset

LEMMA RowsOfRowset ==
  ASSUME NEW f \in Rowset
  PROVE  DOMAIN f \subseteq Clients /\ \A c \in DOMAIN f : f[c] \in Values
<1>1. PICK S \in SUBSET Clients : f \in [S -> Values]
  BY DEF Rowset
<1> QED BY <1>1

LEMMA NoWorkIsWork == NoWork \in Writer /\ IsFiniteSet(NoWork.pending) /\ Cardinality(NoWork.pending) < BatchSize
<1>1. IsFiniteSet({}) /\ Cardinality({}) = 0
  BY FS_EmptySet
<1> QED BY <1>1, ServingAssumption DEF NoWork, Writer

LEMMA ServingInitEstablishes == ASSUME ServingInit PROVE PublishInv
<1>1. batch \in [Batches -> Batch]
  <2>1. << >> = [c \in {} |-> c]
    OBVIOUS
  <2>2. << >> \in [{} -> Values]
    BY <2>1
  <2>3. << >> \in Rowset
    BY <2>2, RowsAreRowset
  <2> QED BY <2>3 DEF ServingInit, Batch
<1>2. \A b \in Batches, w \in Writers : writer[b][w] = NoWork
  BY DEF ServingInit
<1>3. writer \in [Batches -> [Writers -> Writer]]
  BY NoWorkIsWork DEF ServingInit
<1>4. ServingTypeOK
  BY <1>1, <1>2, <1>3, NoWorkIsWork, ServingAssumption DEF ServingInit, ServingTypeOK
<1>5. \A b \in Batches : batch[b].at = "new"
  BY DEF ServingInit
<1>6. PendingInv /\ DealtInv /\ AloneInv /\ ServedInv /\ RerunMakesUp
  BY <1>2, <1>5, NoWorkIsWork DEF PendingInv, DealtInv, AloneInv, ServedInv, RerunMakesUp, Underway
<1> QED BY <1>4, <1>6 DEF PublishInv

(* A batch goes where it neither writes nor has finished, or fails.        *)
LEMMA BatchEnds ==
  ASSUME PublishInv, NEW b \in Batches, NEW at \in {"failed", "refused", "plan"}, To(b, at),
         at = "plan" => batch[b].at = "gate",
         writer' = writer \/ Idle(b), UNCHANGED <<job, source, changes, docs>>
  PROVE  PublishInv'
<1>1. /\ batch \in [Batches -> Batch] /\ writer \in [Batches -> [Writers -> Writer]]
      /\ batch' = [batch EXCEPT ![b].at = at]
  BY DEF PublishInv, ServingTypeOK, To
<1>2. /\ batch' \in [Batches -> Batch]
      /\ \A q \in Batches : batch'[q].alone = batch[q].alone /\ batch'[q].rows = batch[q].rows
      /\ \A q \in Batches : batch'[q].at = IF q = b THEN at ELSE batch[q].at
  BY <1>1 DEF Batch
<1>3. \A q \in Batches : Underway(q)' => Underway(q)
  BY <1>2 DEF Underway
<1>4. \A q \in Batches, w \in Writers : writer'[q][w] = writer[q][w] \/ (q = b /\ writer'[q][w] = NoWork)
  BY <1>1 DEF Idle
<1>5. writer' \in [Batches -> [Writers -> Writer]]
  BY <1>1, NoWorkIsWork DEF Idle
<1>6. ServingTypeOK' /\ PendingInv'
  BY <1>2, <1>4, <1>5, NoWorkIsWork DEF PublishInv, ServingTypeOK, PendingInv
<1>7. DealtInv'
  BY <1>2, <1>4 DEF PublishInv, DealtInv, Mine, Open
<1>8. AloneInv'
  BY <1>2, <1>3 DEF PublishInv, AloneInv, Underway
<1>9. ServedInv'
  BY <1>2, <1>4 DEF PublishInv, ServedInv, Mine, Open, Served
<1>10. RerunMakesUp'
  BY <1>2 DEF PublishInv, RerunMakesUp
<1> QED BY <1>6, <1>7, <1>8, <1>9, <1>10 DEF PublishInv

LEMMA SubmitKeeps == ASSUME PublishInv, NEW b \in Batches, Submit(b) PROVE PublishInv'
<1>1. batch[b].at = "new" /\ UNCHANGED <<job, source, changes, docs, writer>>
  BY DEF Submit
<1>2. CASE To(b, "refused") \/ To(b, "failed")
  BY <1>1, <1>2, BatchEnds
<1>3. CASE ~(To(b, "refused") \/ To(b, "failed"))
  <2>1. batch \in [Batches -> Batch]
    BY DEF PublishInv, ServingTypeOK
  <2>2. batch' = [r \in Batches |->
            IF r = b THEN [batch[b] EXCEPT !.at = "gate", !.alone = \A q \in Batches : ~Underway(q)]
            ELSE [batch[r] EXCEPT !.alone = FALSE]]
    BY <1>3 DEF Submit
  <2>3. /\ batch'[b].at = "gate" /\ batch'[b].rows = batch[b].rows
        /\ batch'[b].alone = (\A q \in Batches : ~Underway(q))
        /\ batch'[b].alone \in BOOLEAN /\ batch'[b] \in Batch
    BY <2>1, <2>2 DEF Batch
  <2>4. \A r \in Batches \ {b} :
          /\ batch'[r].at = batch[r].at /\ batch'[r].rows = batch[r].rows
          /\ batch'[r].alone = FALSE /\ batch'[r] \in Batch
    BY <2>1, <2>2 DEF Batch
  <2>5. ServingTypeOK'
    BY <1>1, <2>2, <2>3, <2>4 DEF PublishInv, ServingTypeOK
  <2>6. PendingInv' /\ DealtInv'
    BY <1>1, <2>3, <2>4 DEF PublishInv, PendingInv, DealtInv, Mine, Open
  <2>7. AloneInv'
    BY <2>3, <2>4 DEF AloneInv, Underway
  <2>8. ServedInv' /\ RerunMakesUp'
    BY <2>3, <2>4 DEF ServedInv, RerunMakesUp
  <2> QED BY <2>5, <2>6, <2>7, <2>8 DEF PublishInv
<1> QED BY <1>2, <1>3

LEMMA StartWriteKeeps == ASSUME PublishInv, NEW b \in Batches, StartWrite(b) PROVE PublishInv'
<1>1. /\ batch[b].at = "plan" /\ UNCHANGED <<job, source, changes, docs>>
      /\ batch' = [batch EXCEPT ![b].at = "write", ![b].rows = Selected]
  BY DEF StartWrite
<1>2. PICK part \in [DOMAIN Selected -> Writers] :
        writer' = [writer EXCEPT ![b] = [w \in Writers |->
          LET mine == {c \in DOMAIN Selected : part[c] = w}
          IN [mine |-> mine, todo |-> mine, pending |-> {}]]]
  BY DEF StartWrite
<1>3. /\ batch \in [Batches -> Batch] /\ writer \in [Batches -> [Writers -> Writer]]
      /\ source \in [Clients -> Values \cup {Gone}]
  BY DEF PublishInv, ServingTypeOK
<1>4. DOMAIN Selected \subseteq Clients /\ Selected \in Rowset
  <2>1. Selected \in [{c \in Clients : source[c] # Gone} -> Values]
    BY <1>3 DEF Selected
  <2> QED BY <2>1, RowsAreRowset
<1> HIDE DEF Selected
<1>5. /\ batch' \in [Batches -> Batch]
      /\ batch'[b].at = "write" /\ batch'[b].rows = Selected /\ batch'[b].alone = batch[b].alone
      /\ \A q \in Batches \ {b} : batch'[q] = batch[q]
  BY <1>1, <1>3, <1>4 DEF Batch
<1> DEFINE Deal(w) == {c \in DOMAIN Selected : part[c] = w}
<1>6. /\ \A w \in Writers : /\ writer'[b][w].mine = Deal(w) /\ writer'[b][w].todo = Deal(w)
                            /\ writer'[b][w].pending = {} /\ writer'[b][w] \in Writer
      /\ \A q \in Batches \ {b} : writer'[q] = writer[q]
      /\ writer' \in [Batches -> [Writers -> Writer]]
  BY <1>2, <1>3, <1>4 DEF Writer
<1>7. ServingTypeOK' /\ PendingInv'
  <2>1. IsFiniteSet({}) /\ Cardinality({}) < BatchSize
    BY FS_EmptySet, ServingAssumption
  <2> QED BY <1>1, <1>5, <1>6, <2>1 DEF PublishInv, ServingTypeOK, PendingInv
<1>8. DealtInv'
  <2>1. /\ \A c \in DOMAIN Selected : \E w \in Writers : c \in Deal(w)
        /\ \A w \in Writers : Deal(w) \subseteq DOMAIN Selected
    OBVIOUS
  <2> HIDE DEF Deal
  <2>2. /\ \A c \in DOMAIN batch'[b].rows : \E w \in Writers : c \in writer'[b][w].mine
        /\ \A w \in Writers : /\ writer'[b][w].todo \cup writer'[b][w].pending = writer'[b][w].mine
                              /\ writer'[b][w].mine \subseteq DOMAIN batch'[b].rows
    BY <1>5, <1>6, <2>1
  <2>3. ASSUME NEW q \in Batches \ {b} PROVE batch'[q] = batch[q] /\ writer'[q] = writer[q]
    BY <1>5, <1>6
  <2> QED BY <2>2, <2>3 DEF PublishInv, DealtInv, Mine, Open
<1>9. AloneInv'
  BY <1>1, <1>5 DEF PublishInv, AloneInv, Underway
<1>10. ServedInv'
  BY <1>1, <1>5, <1>6 DEF PublishInv, ServedInv, Mine, Open, Served
<1>11. RerunMakesUp'
  BY <1>1, <1>5 DEF PublishInv, RerunMakesUp
<1> QED BY <1>7, <1>8, <1>9, <1>10, <1>11 DEF PublishInv

(* A writer has these rows left and these in its batch, the others what    *)
(* they had.                                                               *)
Has(b, w, todo, pending) ==
  /\ writer'[b][w] = [mine |-> Mine(b, w), todo |-> todo, pending |-> pending]
  /\ \A q \in Batches, v \in Writers : q # b \/ v # w => writer'[q][v] = writer[q][v]
  /\ writer' \in [Batches -> [Writers -> Writer]]

LEMMA SetsOne ==
  ASSUME NEW S, NEW f \in [Batches -> [Writers -> S]], NEW b \in Batches, NEW w \in Writers,
         NEW s \in S, NEW g, g = [f EXCEPT ![b][w] = s]
  PROVE  /\ g[b][w] = s /\ g \in [Batches -> [Writers -> S]]
         /\ \A q \in Batches, v \in Writers : q # b \/ v # w => g[q][v] = f[q][v]
  OBVIOUS

LEMMA SetsTwoFields ==
  ASSUME writer \in [Batches -> [Writers -> Writer]], NEW b \in Batches, NEW w \in Writers,
         NEW todo \in SUBSET Mine(b, w), NEW pending \in SUBSET Mine(b, w),
         writer' = [writer EXCEPT ![b][w].todo = todo, ![b][w].pending = pending]
  PROVE  Has(b, w, todo, pending)
<1> DEFINE mid == [writer EXCEPT ![b][w].todo = todo]
<1>1. writer[b][w] \in Writer /\ Mine(b, w) \subseteq Clients
  BY DEF Writer, Mine
<1>2. /\ mid[b][w] = [mine |-> Mine(b, w), todo |-> todo, pending |-> writer[b][w].pending]
      /\ \A q \in Batches, v \in Writers : q # b \/ v # w => mid[q][v] = writer[q][v]
      /\ mid \in [Batches -> [Writers -> Writer]]
  BY <1>1 DEF Writer, Mine
<1>3. writer' = [mid EXCEPT ![b][w].pending = pending]
  OBVIOUS
<1> HIDE DEF mid
<1> DEFINE new == [mine |-> Mine(b, w), todo |-> todo, pending |-> pending]
<1>4. [mid[b][w] EXCEPT !.pending = pending] = new
  BY <1>2
<1>5. new \in Writer
  BY <1>1 DEF Writer
<1>6. writer' = [mid EXCEPT ![b][w] = new]
  BY <1>3, <1>4
<1> HIDE DEF new
<1>7. mid \in [Batches -> [Writers -> Writer]]
  BY <1>2
<1>8. /\ writer'[b][w] = new /\ writer' \in [Batches -> [Writers -> Writer]]
      /\ \A q \in Batches, v \in Writers : q # b \/ v # w => writer'[q][v] = mid[q][v]
  BY ONLY <1>5, <1>6, <1>7, SetsOne, b \in Batches, w \in Writers
<1>9. \A q \in Batches, v \in Writers : q # b \/ v # w => writer'[q][v] = writer[q][v]
  BY <1>2, <1>8
<1> QED BY <1>8, <1>9, Zenon DEF Has, new

LEMMA SetsPending ==
  ASSUME writer \in [Batches -> [Writers -> Writer]], NEW b \in Batches, NEW w \in Writers,
         writer' = [writer EXCEPT ![b][w].pending = {}]
  PROVE  Has(b, w, writer[b][w].todo, {})
<1>1. writer[b][w] \in Writer /\ Mine(b, w) \subseteq Clients
  BY DEF Writer, Mine
<1> QED BY <1>1 DEF Writer, Mine, Has

(* What one writer does, as far as the invariant is concerned: it commits  *)
(* some of its rows and has others still open.                             *)
LEMMA WriterKeeps ==
  ASSUME PublishInv, NEW b \in Batches, NEW w \in Writers, batch[b].at = "write",
         NEW todo \in SUBSET Mine(b, w), NEW pending \in SUBSET Mine(b, w),
         IsFiniteSet(pending), Cardinality(pending) < BatchSize,
         NEW some \in SUBSET Mine(b, w),
         Open(b, w) \subseteq todo \cup pending \cup some,
         docs' = Committed(b, some),
         Has(b, w, todo, pending),
         UNCHANGED <<job, source, changes, batch>>
  PROVE  PublishInv'
<1>1. /\ batch \in [Batches -> Batch] /\ writer \in [Batches -> [Writers -> Writer]]
      /\ docs \in [Clients -> Values \cup {Gone}]
  BY DEF PublishInv, ServingTypeOK
<1>2. /\ writer'[b][w] = [mine |-> Mine(b, w), todo |-> todo, pending |-> pending]
      /\ \A q \in Batches, v \in Writers : q # b \/ v # w => writer'[q][v] = writer[q][v]
      /\ writer' \in [Batches -> [Writers -> Writer]]
  BY DEF Has
<1>3. /\ batch[b].rows \in Rowset /\ some \subseteq DOMAIN batch[b].rows
      /\ DOMAIN batch[b].rows \subseteq Clients
      /\ \A c \in DOMAIN batch[b].rows : batch[b].rows[c] \in Values
  <2>1. batch[b].rows \in Rowset
    BY <1>1 DEF Batch
  <2> QED BY <2>1, RowsOfRowset DEF PublishInv, DealtInv
<1>4. /\ docs' \in [Clients -> Values \cup {Gone}]
      /\ \A c \in some : docs'[c] = batch[b].rows[c]
      /\ \A c \in Clients \ some : docs'[c] = docs[c]
  BY <1>1, <1>3 DEF Committed
<1>5. ServingTypeOK' /\ PendingInv'
  <2>1. /\ IsFiniteSet(writer'[b][w].pending) /\ Cardinality(writer'[b][w].pending) < BatchSize
        /\ \A q \in Batches, v \in Writers :
             q # b \/ v # w => writer'[q][v].pending = writer[q][v].pending
    BY <1>2
  <2>2. \A q \in Batches, v \in Writers : Cardinality(writer'[q][v].pending) < BatchSize
    BY <2>1 DEF PublishInv, ServingTypeOK
  <2>3. \A q \in Batches, v \in Writers : IsFiniteSet(writer'[q][v].pending)
    BY <2>1 DEF PublishInv, PendingInv
  <2> QED BY <1>2, <1>4, <2>2, <2>3 DEF PublishInv, ServingTypeOK, PendingInv
<1>6. \A q \in Batches, v \in Writers : Mine(q, v)' = Mine(q, v)
  BY <1>2 DEF Mine
<1>7. DealtInv'
  <2>1. Open(b, w)' = todo \cup pending
    BY <1>2 DEF Open
  <2>2. \A q \in Batches, v \in Writers : q # b \/ v # w => Open(q, v)' = Open(q, v)
    BY <1>2 DEF Open
  <2>3. \A q \in Batches, v \in Writers : Open(q, v) \subseteq Mine(q, v) => Open(q, v)' \subseteq Mine(q, v)
    BY <2>1, <2>2
  <2> QED BY <1>6, <2>3 DEF PublishInv, DealtInv
<1>8. AloneInv'
  BY DEF PublishInv, AloneInv, Underway
<1>9. ASSUME NEW q \in Batches, q # b, batch[q].alone PROVE batch[q].at \notin {"write", "ok"}
  BY <1>9 DEF PublishInv, AloneInv, Underway
<1>10. ServedInv'
  <2> SUFFICES ASSUME NEW v \in Writers, NEW c \in Mine(b, v) \ Open(b, v)', batch[b].alone
               PROVE  docs'[c] = batch[b].rows[c]
    BY <1>6, <1>9 DEF ServedInv, Served
  <2>1. c \in Clients /\ c \in DOMAIN batch[b].rows
    BY <1>3 DEF PublishInv, DealtInv
  <2>2. CASE c \in some
    BY <1>4, <2>2
  <2>3. CASE c \notin some
    <3>1. c \notin Open(b, v)
      BY <1>2, <2>3 DEF Open
    <3> QED BY <1>4, <2>1, <2>3, <3>1 DEF PublishInv, ServedInv, Served
  <2> QED BY <2>2, <2>3
<1>11. RerunMakesUp'
  BY <1>9 DEF PublishInv, RerunMakesUp
<1> QED BY <1>5, <1>7, <1>8, <1>10, <1>11 DEF PublishInv

LEMMA WriterStepKeeps ==
  ASSUME PublishInv, NEW b \in Batches, NEW w \in Writers,
         WriteRecord(b, w) \/ CommitRest(b, w) \/ RetryTask(b, w)
  PROVE  PublishInv'
<1> DEFINE old == writer[b][w]
<1>1. batch[b].at = "write" /\ UNCHANGED <<job, source, changes, batch>>
  BY DEF WriteRecord, CommitRest, RetryTask
<1>2. /\ old.todo \subseteq Mine(b, w) /\ old.pending \subseteq Mine(b, w) /\ IsFiniteSet(old.pending)
      /\ writer \in [Batches -> [Writers -> Writer]] /\ docs \in [Clients -> Values \cup {Gone}]
      /\ old = [mine |-> Mine(b, w), todo |-> old.todo, pending |-> old.pending]
      /\ BatchSize \in Nat \ {0}
  BY <1>1, ServingAssumption DEF PublishInv, DealtInv, Open, PendingInv, ServingTypeOK, Mine, Writer
<1>3. IsFiniteSet({}) /\ Cardinality({}) < BatchSize
  BY FS_EmptySet, ServingAssumption
<1>4. docs = Committed(b, {})
  BY <1>2 DEF Committed
<1>5. CASE WriteRecord(b, w)
  <2>1. PICK c \in old.todo :
          LET pending == old.pending \cup {c}
          IN /\ docs' = IF Full(pending) THEN Committed(b, pending) ELSE docs
             /\ writer' = [writer EXCEPT ![b][w].todo = @ \ {c},
                                         ![b][w].pending = IF Full(pending) THEN {} ELSE pending]
    BY <1>5 DEF WriteRecord
  <2> DEFINE pending == old.pending \cup {c}
  <2>2. IsFiniteSet(pending) /\ Cardinality(pending) \in Nat
    BY <1>2, FS_AddElement, FS_CardinalityType
  <2>3. pending \subseteq Mine(b, w) /\ old.todo \ {c} \subseteq Mine(b, w)
    BY <1>2
  <2>4. CASE Full(pending)
    <3>1. docs' = Committed(b, pending)
      BY <2>1, <2>4
    <3>2. Has(b, w, old.todo \ {c}, {})
      BY <1>2, <2>1, <2>3, <2>4, SetsTwoFields
    <3>3. Open(b, w) \subseteq (old.todo \ {c}) \cup {} \cup pending
      BY DEF Open
    <3> QED BY <1>1, <1>3, <2>3, <3>1, <3>2, <3>3, WriterKeeps
  <2>5. CASE ~Full(pending)
    <3>1. docs' = Committed(b, {}) /\ Cardinality(pending) < BatchSize
      BY <1>2, <1>4, <2>1, <2>2, <2>5 DEF Full
    <3>2. Has(b, w, old.todo \ {c}, pending)
      BY <1>2, <2>1, <2>3, <2>5, SetsTwoFields
    <3>3. Open(b, w) \subseteq (old.todo \ {c}) \cup pending \cup {}
      BY DEF Open
    <3> QED BY <1>1, <2>2, <2>3, <3>1, <3>2, <3>3, WriterKeeps
  <2> QED BY <2>4, <2>5
<1>6. CASE CommitRest(b, w)
  <2>1. /\ old.todo = {} /\ docs' = Committed(b, old.pending)
        /\ writer' = [writer EXCEPT ![b][w].pending = {}]
    BY <1>6 DEF CommitRest
  <2>2. Has(b, w, {}, {})
    BY <1>2, <2>1, SetsPending
  <2>3. Open(b, w) \subseteq {} \cup {} \cup old.pending
    BY <2>1 DEF Open
  <2>4. {} \in SUBSET Mine(b, w) /\ old.pending \in SUBSET Mine(b, w)
    BY <1>2
  <2> HIDE DEF old
  <2> QED BY <1>1, <1>3, <2>1, <2>2, <2>3, <2>4, WriterKeeps
<1>7. CASE RetryTask(b, w)
  <2>1. docs' = Committed(b, {})
    BY <1>4, <1>7 DEF RetryTask
  <2>2. writer' = [writer EXCEPT ![b][w].todo = Mine(b, w), ![b][w].pending = {}]
    BY <1>7 DEF RetryTask, Mine
  <2>3. Has(b, w, Mine(b, w), {})
    BY <1>2, <2>2, SetsTwoFields
  <2>4. Open(b, w) \subseteq Mine(b, w) \cup {} \cup {}
    BY <1>2 DEF Open
  <2> QED BY <1>1, <1>3, <2>1, <2>3, <2>4, WriterKeeps
<1> QED BY <1>5, <1>6, <1>7

(* When nothing is open any more, everything has been served.              *)
LEMMA EndWriteKeeps == ASSUME PublishInv, NEW b \in Batches, EndWrite(b) PROVE PublishInv'
<1>1. /\ batch[b].at = "write" /\ UNCHANGED <<job, source, changes, docs>>
      /\ batch' = [batch EXCEPT ![b].at = "ok"]
      /\ writer' = [writer EXCEPT ![b] = [w \in Writers |-> NoWork]]
      /\ \A w \in Writers : Open(b, w) = {}
  BY DEF EndWrite, To, Idle, Open
<1>2. batch \in [Batches -> Batch] /\ writer \in [Batches -> [Writers -> Writer]]
  BY DEF PublishInv, ServingTypeOK
<1>3. /\ batch' \in [Batches -> Batch]
      /\ batch'[b].at = "ok" /\ batch'[b].rows = batch[b].rows /\ batch'[b].alone = batch[b].alone
      /\ \A q \in Batches \ {b} : batch'[q] = batch[q]
  BY <1>1, <1>2 DEF Batch
<1>4. /\ \A w \in Writers : writer'[b][w] = NoWork
      /\ \A q \in Batches \ {b} : writer'[q] = writer[q]
      /\ writer' \in [Batches -> [Writers -> Writer]]
  BY <1>1, <1>2, NoWorkIsWork
<1>5. ServingTypeOK' /\ PendingInv'
  BY <1>1, <1>3, <1>4, NoWorkIsWork DEF PublishInv, ServingTypeOK, PendingInv
<1>6. DealtInv'
  BY <1>3, <1>4 DEF PublishInv, DealtInv, Mine, Open
<1>7. AloneInv'
  BY <1>1, <1>3 DEF PublishInv, AloneInv, Underway
<1>8. ServedInv'
  BY <1>1, <1>3, <1>4 DEF PublishInv, ServedInv, Mine, Open, Served
<1>9. RerunMakesUp'
  <2>1. batch[b].alone => \A c \in DOMAIN batch[b].rows : docs[c] = batch[b].rows[c]
    BY <1>1 DEF PublishInv, DealtInv, ServedInv, Served
  <2> QED BY <1>1, <1>3, <2>1 DEF PublishInv, RerunMakesUp
<1> QED BY <1>5, <1>6, <1>7, <1>8, <1>9 DEF PublishInv

LEMMA ServingStep == ASSUME PublishInv, [ServingNext]_servingVars PROVE PublishInv'
<1>1. ASSUME NEW c \in Clients, NEW v \in Values \cup {Gone}, ChangeSource(c, v) PROVE PublishInv'
  <2>1. changes' \in 0 .. MaxChanges /\ source' \in [Clients -> Values \cup {Gone}]
    BY <1>1, ServingAssumption DEF ChangeSource, PublishInv, ServingTypeOK
  <2> QED
    BY <1>1, <2>1
    DEF ChangeSource, PublishInv, ServingTypeOK, PendingInv, DealtInv, AloneInv, ServedInv,
        RerunMakesUp, Mine, Open, Served, Underway
<1>2. ASSUME NEW b \in Batches, PassGate(b) PROVE PublishInv'
  <2>1. /\ batch[b].at = "gate" /\ (To(b, "failed") \/ To(b, "plan"))
        /\ UNCHANGED <<job, source, changes, docs, writer>>
    BY <1>2 DEF PassGate
  <2> QED BY <2>1, <1>2, BatchEnds DEF PassGate
<1>3. ASSUME NEW b \in Batches, FailBatch(b) PROVE PublishInv'
  BY <1>3, BatchEnds DEF FailBatch
<1>4. CASE UNCHANGED servingVars
  BY <1>4 DEF servingVars, PublishInv, ServingTypeOK, PendingInv, DealtInv, AloneInv, ServedInv,
              RerunMakesUp, Mine, Open, Served, Underway
<1> QED
  BY <1>1, <1>2, <1>3, <1>4, SubmitKeeps, StartWriteKeeps, WriterStepKeeps, EndWriteKeeps
  DEF ServingNext

LEMMA PublishAlways == ServingSpec => []PublishInv
BY ServingInitEstablishes, ServingStep, PTL DEF ServingSpec

(* A run that ended well, with the store for itself, has served every      *)
(* client of its source the value it computed, whatever earlier runs left  *)
(* half done and however often its own tasks were tried again              *)
(* (spark/framework/io/writers.py, write_firestore).                       *)
THEOREM RerunServesAll == ServingSpec => []RerunMakesUp
<1>1. PublishInv => RerunMakesUp
  BY DEF PublishInv
<1> QED BY <1>1, PublishAlways, PTL
=============================================================================
