------------------------------ MODULE Lineage ------------------------------
(***************************************************************************)
(* Column lineage of the dbt project (lineage/graph.py) and the checks CI  *)
(* makes with it (lineage/checks.py, lineage/cli.py): one version of the   *)
(* project is written, analysed, checked and, if the check is green, built *)
(* in production, where personal data flows through what the SQL really    *)
(* does.                                                                   *)
(***************************************************************************)
CONSTANTS
  Tables,       \* the relations: sources and materialized models
  Models,       \* those of them that dbt builds
  Ephemeral,    \* models without a relation, inlined where they are used
  DependsOn,    \* model -> the nodes its SQL names: tables and ephemerals
  ReadsFrom,    \* model -> the tables it reads once ephemerals are inlined
  Catalogued,   \* models with compiled SQL and an entry in catalog.json
  Columns, TableOf,
  MayFail,      \* columns whose expression sqlglot may be unable to follow
  Personal,     \* source columns that hold personal data
  Served,       \* tables in a schema analysts read from
  Projects      \* what authors may write, see Project

(* An edge of flows is a pair of columns, the source first.                *)
PossibleFlows ==
  {e \in Columns \X Columns : TableOf[e[2]] \in Models /\ TableOf[e[1]] \in ReadsFrom[TableOf[e[2]]]}

(* What the SQL does, which of it sqlglot cannot follow, which columns     *)
(* have a pii_class, and the tables of the erasure inventory.              *)
Project ==
  [flows : SUBSET PossibleFlows, untraceable : SUBSET MayFail,
   pii : {C \in SUBSET Columns : Personal \subseteq C}, inventory : SUBSET Tables]

ASSUME LineageAssumption ==
  /\ Models \subseteq Tables /\ Ephemeral \cap Tables = {}
  /\ DependsOn \in [Models -> SUBSET (Tables \cup Ephemeral)]
  /\ ReadsFrom \in [Models -> SUBSET Tables]
  /\ \A t \in Models : DependsOn[t] \cap Ephemeral = {} => ReadsFrom[t] = DependsOn[t]
  /\ Catalogued \subseteq Models
  /\ TableOf \in [Columns -> Tables]
  /\ MayFail \subseteq Columns /\ Personal \subseteq Columns
  /\ Served \subseteq Tables
  /\ Projects \subseteq Project

VARIABLES
  project,     \* the version under way
  stage,       \* "write", "build", "reach", "impact", "failed" or "served"
  todo,        \* build: columns still to be traced
  edges,       \* LineageGraph.downstream, as a set of pairs
  unresolved,  \* LineageGraph.unresolved: column -> tables its model reads
  roots,       \* pii_reach: tagged columns still to be followed
  frontier,    \* impact: the queue
  seen,        \* impact: everything built from the root so far
  reach,       \* the columns personal data is found to flow into
  carries      \* the columns personal data has really got to

lineageVars ==
  <<project, stage, todo, edges, unresolved, roots, frontier, seen, reach, carries>>
analysis == <<todo, edges, unresolved, roots, frontier, seen, reach>>

ColumnsOf(tables) == {c \in Columns : TableOf[c] \in tables}

LineageTypeOK ==
  /\ project \in Project
  /\ stage \in {"write", "build", "reach", "impact", "failed", "served"}
  /\ todo \subseteq Columns /\ roots \subseteq Columns
  /\ edges \subseteq PossibleFlows
  /\ DOMAIN unresolved \subseteq Columns
  /\ unresolved \in [DOMAIN unresolved -> SUBSET Tables]
  /\ frontier \subseteq Columns /\ seen \subseteq Columns
  /\ reach \subseteq Columns /\ carries \subseteq Columns

LineageInit ==
  /\ project = [flows |-> {}, untraceable |-> {}, pii |-> Personal, inventory |-> Tables]
  /\ stage = "write"
  /\ todo = {} /\ edges = {} /\ unresolved = <<>>
  /\ roots = {} /\ frontier = {} /\ seen = {} /\ reach = {}
  /\ carries = Personal

(* The change is pushed; graph.build goes through the catalogued models.   *)
Write(p) ==
  /\ stage = "write"
  /\ project' = p /\ stage' = "build"
  /\ todo' = ColumnsOf(Catalogued)
  /\ UNCHANGED <<edges, unresolved, roots, frontier, seen, reach, carries>>

(* Faulty: the tables below the model instead of those above it.           *)
TablesBelow(t) == {u \in Models : t \in DependsOn[u]}

(* reads: the parents that have a relation.                                *)
Reads(t) == DependsOn[t] \cap Tables

(* Faulty: add_edge with its arguments exchanged.                          *)
EdgesTurned(c) == {<<e[2], e[1]>> : e \in {e \in project.flows : e[2] = c}}

(* The leaves of the lineage of one column, as edges that lead to it.      *)
EdgesTo(c) == {e \in project.flows : e[2] = c}

TraceColumn(c) ==
  /\ stage = "build" /\ c \in todo
  /\ todo' = todo \ {c}
  /\ IF c \in project.untraceable
     THEN /\ unresolved' = [d \in DOMAIN unresolved \cup {c} |->
                              IF d = c THEN Reads(TableOf[c]) ELSE unresolved[d]]
          /\ UNCHANGED edges
     ELSE /\ edges' = edges \cup EdgesTo(c)
          /\ UNCHANGED unresolved
  /\ UNCHANGED <<project, stage, roots, frontier, seen, reach, carries>>

(* checks.run begins with pii_reach.                                       *)
StartReach ==
  /\ stage = "build" /\ todo = {}
  /\ stage' = "reach" /\ roots' = project.pii
  /\ UNCHANGED <<project, todo, edges, unresolved, frontier, seen, reach, carries>>

StartImpact(c) ==
  /\ stage = "reach" /\ c \in roots
  /\ stage' = "impact" /\ roots' = roots \ {c}
  /\ frontier' = {c} /\ seen' = {} /\ reach' = reach \cup {c}
  /\ UNCHANGED <<project, todo, edges, unresolved, carries>>

(* Faulty: only what is built directly from the root.                      *)
ChildrenOfRoot(c) == IF c \in seen THEN {} ELSE {e[2] : e \in {e \in edges : e[1] = c}} \ seen

NewChildren(c) == {e[2] : e \in {e \in edges : e[1] = c}} \ seen

(* In whatever order the queue has them: only the set matters.             *)
Expand(c) ==
  /\ stage = "impact" /\ c \in frontier
  /\ seen' = seen \cup NewChildren(c)
  /\ frontier' = (frontier \ {c}) \cup NewChildren(c)
  /\ UNCHANGED <<project, stage, todo, edges, unresolved, roots, reach, carries>>

EndImpact ==
  /\ stage = "impact" /\ frontier = {}
  /\ stage' = "reach" /\ reach' = reach \cup seen
  /\ UNCHANGED <<project, todo, edges, unresolved, roots, frontier, seen, carries>>

PiiTables == {TableOf[c] : c \in reach}
MissingFromInventory == PiiTables \ project.inventory
UntaggedServed == {c \in reach : TableOf[c] \in Served} \ project.pii
UnresolvedNearPii == {c \in DOMAIN unresolved : unresolved[c] \cap PiiTables # {}}

(* Findings.ok decides what cli.pii returns.                               *)
EndCheck ==
  /\ stage = "reach" /\ roots = {}
  /\ stage' = IF MissingFromInventory \cup UntaggedServed \cup UnresolvedNearPii = {}
              THEN "served" ELSE "failed"
  /\ UNCHANGED <<project, analysis, carries>>

(* dbt builds a model in production.                                       *)
Produce(t) ==
  /\ stage = "served" /\ t \in Models
  /\ carries' = carries \cup {c \in ColumnsOf({t}) : \E s \in carries : <<s, c>> \in project.flows}
  /\ UNCHANGED <<project, stage, analysis>>

LineageNext ==
  \/ \E p \in Projects : Write(p)
  \/ \E c \in todo : TraceColumn(c)
  \/ StartReach
  \/ \E c \in roots : StartImpact(c)
  \/ \E c \in frontier : Expand(c)
  \/ EndImpact
  \/ EndCheck
  \/ \E t \in Models : Produce(t)

LineageSpec == LineageInit /\ [][LineageNext]_lineageVars

-----------------------------------------------------------------------------
(* A green check is a promise about the data: wherever personal data gets  *)
(* to, along the flows of the SQL and through however many models, an      *)
(* erasure request finds it, and analysts see it masked.                   *)
Covered ==
  stage = "served" =>
    \A c \in carries :
      /\ TableOf[c] \in project.inventory
      /\ TableOf[c] \in Served => c \in project.pii

(* pii_reach against the definition of reachability: what it found when it *)
(* is through holds the tagged columns and is the smallest set that does   *)
(* and that no edge leads out of.                                          *)
ReachIsClosure ==
  stage \in {"served", "failed"} =>
    LET Closed(S) == project.pii \subseteq S /\ \A e \in edges : e[1] \in S => e[2] \in S
    IN Closed(reach) /\ \A S \in SUBSET reach : Closed(S) => S = reach

(* Where Covered can be relied on: every model is in the catalog, and one  *)
(* with a column sqlglot cannot follow names the tables it reads itself.   *)
NothingHidden ==
  /\ Catalogued = Models
  /\ \A c \in MayFail : TableOf[c] \in Models => DependsOn[TableOf[c]] \cap Ephemeral = {}
=============================================================================
