------------------------ MODULE SchemaEvolutionProofs ------------------------
(***************************************************************************)
(* Theorems about SchemaEvolution: for any number of versions, messages,   *)
(* deliveries, reconcilers and overlapping repairs.                        *)
(***************************************************************************)
EXTENDS SchemaEvolution, TLAPS

(* Actions of the three parts, for the proofs that split on them.          *)
DdlStep == \E c \in Reconcilers :
  \/ \E v \in Versions : UpToDate(c, v) \/ ReadTable(c, v)
  \/ UpdateTable(c) \/ Refused(c)

SinkStep == \E d \in Deliveries :
  \/ \E m \in Messages : Receive(d, m) \/ ReceiveAgain(d, m)
  \/ AppendRaw(d) \/ AppendParsed(d) \/ FailRow(d)

-----------------------------------------------------------------------------
(* Types *)

(* Merging stays inside the cells there can be.                            *)
LEMMA MergedType ==
  ASSUME TypeOK, NEW r \in Repairs, NEW d \in parsed
  PROVE  Merged(r, d) \in SUBSET (Fields \X Messages)
<1>1. cells[d] \subseteq Fields \X Messages
  BY DEF TypeOK
<1>2. \A p \in temp[r] : p[2] \in Deliveries /\ of[p[2]] \in Messages
  BY DEF TypeOK
<1>3. \A p \in Sources(r, d) : Mends(d, p[2], repairable[r]) \X {of[p[2]]} \subseteq Fields \X Messages
  BY <1>2 DEF Sources, Mends, Blank, TypeOK
<1>. QED
  BY <1>1, <1>3 DEF Merged

(* What the query finds are pairs of a parsed and a raw row, and the       *)
(* columns it would mend are columns.                                      *)
LEMMA FoundType ==
  ASSUME TypeOK, NEW C \in SUBSET Fields
  PROVE  /\ Found(C) \in SUBSET (parsed \X raw)
         /\ UNION {Mends(p[1], p[2], C) : p \in Found(C)} \in SUBSET Fields
BY DEF Found, Mends, Blank

(* The reconcilers keep the types.                                         *)
LEMMA DdlTypes ==
  ASSUME TypeOK, DdlStep
  PROVE  TypeOK'
<1>1. ASSUME NEW c \in Reconcilers, NEW v \in Versions, UpToDate(c, v)
      PROVE  TypeOK'
  BY <1>1, SchemaAssumption DEF TypeOK, UpToDate, flags, pipeline, repair
<1>2. ASSUME NEW c \in Reconcilers, NEW v \in Versions, ReadTable(c, v)
      PROVE  TypeOK'
  BY <1>2, SchemaAssumption DEF TypeOK, ReadTable, flags, pipeline, repair
<1>3. ASSUME NEW c \in Reconcilers, UpdateTable(c)
      PROVE  TypeOK'
  BY <1>3 DEF TypeOK, UpdateTable, Accepted, Leave, flags, pipeline, repair
<1>4. ASSUME NEW c \in Reconcilers, Refused(c)
      PROVE  TypeOK'
  BY <1>4 DEF TypeOK, Refused, Leave, flags, pipeline, repair
<1>. QED
  BY <1>1, <1>2, <1>3, <1>4 DEF DdlStep

(* The sinks keep the types.                                               *)
LEMMA SinkTypes ==
  ASSUME TypeOK, SinkStep
  PROVE  TypeOK'
<1>1. ASSUME NEW d \in Deliveries, NEW m \in Messages, Receive(d, m)
      PROVE  TypeOK'
  BY <1>1, SchemaAssumption DEF TypeOK, Receive, Deliver, flags, ddl, repair
<1>2. ASSUME NEW d \in Deliveries, NEW m \in Messages, ReceiveAgain(d, m)
      PROVE  TypeOK'
  BY <1>2, SchemaAssumption DEF TypeOK, ReceiveAgain, Deliver, flags, ddl, repair
<1>3. ASSUME NEW d \in Deliveries, AppendRaw(d)
      PROVE  TypeOK'
  BY <1>3 DEF TypeOK, AppendRaw, flags, ddl, repair
<1>4. ASSUME NEW d \in Deliveries, AppendParsed(d)
      PROVE  TypeOK'
  <2>1. Said(d, known) \subseteq Fields \X Messages
    BY <1>4 DEF TypeOK, AppendParsed, Said, Carried
  <2>2. known' \in {known, columns}
    BY <1>4 DEF AppendParsed, Learn
  <2>. QED
    BY <1>4, <2>1, <2>2 DEF TypeOK, AppendParsed, flags, ddl, repair
<1>5. ASSUME NEW d \in Deliveries, FailRow(d)
      PROVE  TypeOK'
  BY <1>5 DEF TypeOK, FailRow, flags, ddl, repair
<1>. QED
  BY <1>1, <1>2, <1>3, <1>4, <1>5 DEF SinkStep

(* The repairs keep the types.                                             *)
LEMMA RepairTypes ==
  ASSUME TypeOK, NEW r \in Repairs, RepairStep(r) \/ Die(r)
  PROVE  TypeOK'
<1>1. CASE Start(r)
  BY <1>1 DEF TypeOK, Start, flags, pipeline, ddl
<1>2. CASE NothingToRepair(r)
  BY <1>2 DEF TypeOK, NothingToRepair, Finish, flags, pipeline, ddl
<1>3. CASE Find(r)
  <2>1. cols[r] \in SUBSET Fields
    BY DEF TypeOK
  <2>2. Mendable \subseteq parsed
    BY DEF Mendable
  <2>. QED
    BY <1>3, <2>1, <2>2, FoundType DEF TypeOK, Find, flags, pipeline, ddl
<1>4. CASE Merge(r)
  <2>1. \A d \in parsed : Merged(r, d) \in SUBSET (Fields \X Messages)
    BY MergedType
  <2>. QED
    BY <1>4, <2>1 DEF TypeOK, Merge, Finish, flags, pipeline, ddl
<1>5. CASE MergeFails(r)
  BY <1>5 DEF TypeOK, MergeFails, Finish, flags, pipeline, ddl
<1>6. CASE Die(r)
  BY <1>6, SchemaAssumption DEF TypeOK, Die, Finish, flags, pipeline, ddl
<1>. QED
  BY <1>1, <1>2, <1>3, <1>4, <1>5, <1>6 DEF RepairStep

(* Every variable keeps its type; the stream never knows a column that the *)
(* table has not got (LoadTestPipeline.java, RepairDroppedFields.java).    *)
THEOREM TypeCorrect == Spec => []TypeOK
<1>1. Init => TypeOK
  BY SchemaAssumption DEF Init, TypeOK
<1>2. TypeOK /\ [Next]_vars => TypeOK'
  <2>. SUFFICES ASSUME TypeOK, [Next]_vars PROVE TypeOK'
    OBVIOUS
  <2>1. CASE DdlStep
    BY <2>1, DdlTypes
  <2>2. CASE SinkStep
    BY <2>2, SinkTypes
  <2>3. CASE Reopen
    BY <2>3 DEF TypeOK, Reopen, flags, ddl, repair
  <2>4. CASE \E r \in Repairs : RepairStep(r) \/ Die(r)
    BY <2>4, RepairTypes
  <2>5. CASE UNCHANGED vars
    BY <2>5 DEF TypeOK, vars, flags, pipeline, ddl, repair
  <2>. QED
    BY <2>1, <2>2, <2>3, <2>4, <2>5 DEF Next, DdlStep, SinkStep
<1>. QED
  BY <1>1, <1>2, PTL DEF Spec

-----------------------------------------------------------------------------
(* The columns *)

(* A reconciler that is about to write wants nothing that it leaves out,   *)
(* and nobody has lost what was promised.                                  *)
ColumnInv ==
  /\ \A c \in Reconcilers : wanted[c] \subseteq plan[c]
  /\ promised \subseteq columns

(* No interleaving of reconcilers takes back a column one of them has      *)
(* returned for (BigQueryDdlReconciler.java, reconcile).                   *)
THEOREM ReconciledForGood == Spec => []ReconciledStays
<1>1. Init => ColumnInv
  BY DEF Init, ColumnInv
<1>2. TypeOK /\ ColumnInv /\ [Next]_vars => ColumnInv'
  <2>. SUFFICES ASSUME TypeOK, ColumnInv, [Next]_vars PROVE ColumnInv'
    OBVIOUS
  <2>1. ASSUME NEW c \in Reconcilers, NEW v \in Versions, UpToDate(c, v)
        PROVE  ColumnInv'
    BY <2>1 DEF ColumnInv, UpToDate
  <2>2. ASSUME NEW c \in Reconcilers, NEW v \in Versions, ReadTable(c, v)
        PROVE  ColumnInv'
    BY <2>2 DEF ColumnInv, ReadTable, TypeOK
  <2>3. ASSUME NEW c \in Reconcilers, UpdateTable(c)
        PROVE  ColumnInv'
    BY <2>3 DEF ColumnInv, UpdateTable, Accepted, Leave, TypeOK
  <2>4. ASSUME NEW c \in Reconcilers, Refused(c)
        PROVE  ColumnInv'
    BY <2>4 DEF ColumnInv, Refused, Leave, TypeOK
  <2>5. CASE UNCHANGED ddl
    BY <2>5 DEF ColumnInv, ddl
  <2>6. SinkStep => UNCHANGED ddl
    BY DEF SinkStep, Receive, ReceiveAgain, AppendRaw, AppendParsed, FailRow
  <2>7. (\E r \in Repairs : RepairStep(r) \/ Die(r)) => UNCHANGED ddl
    BY DEF RepairStep, Start, NothingToRepair, Find, Merge, MergeFails, Die
  <2>8. Reopen \/ UNCHANGED vars => UNCHANGED ddl
    BY DEF Reopen, vars
  <2>. QED
    BY <2>1, <2>2, <2>3, <2>4, <2>5, <2>6, <2>7, <2>8 DEF Next, SinkStep
<1>3. ColumnInv => ReconciledStays
  BY DEF ColumnInv, ReconciledStays
<1>. QED
  BY <1>1, <1>2, <1>3, TypeCorrect, PTL DEF Spec

-----------------------------------------------------------------------------
(* The rows *)

(* Two messages never have the same key: then, and only then, does the     *)
(* trade_id that the repair joins on say which message a row is from.      *)
OneMessagePerTrade == \A m, n \in Messages : TradeOf[m] = TradeOf[n] => m = n

(* A message keeps its content, and a row its message, once delivered.     *)
LEMMA ContentStays ==
  ASSUME TypeOK, [Next]_vars, NEW d \in Deliveries, of[d] # NoMessage
  PROVE  of'[d] = of[d] /\ Carried(d)' = Carried(d)
<1>1. CASE UNCHANGED <<of, carries>>
  BY <1>1 DEF Carried
<1>2. ASSUME NEW e \in Deliveries, NEW m \in Messages, Receive(e, m)
      PROVE  of'[d] = of[d] /\ Carried(d)' = Carried(d)
  BY <1>2 DEF Receive, Deliver, Carried, TypeOK
<1>3. ASSUME NEW e \in Deliveries, NEW m \in Messages, ReceiveAgain(e, m)
      PROVE  of'[d] = of[d] /\ Carried(d)' = Carried(d)
  BY <1>3 DEF ReceiveAgain, Deliver, Carried, TypeOK
<1>4. (\E e \in Deliveries : AppendRaw(e) \/ AppendParsed(e) \/ FailRow(e)) => UNCHANGED <<of, carries>>
  BY DEF AppendRaw, AppendParsed, FailRow
<1>5. DdlStep => UNCHANGED <<of, carries>>
  BY DEF DdlStep, UpToDate, ReadTable, UpdateTable, Refused, pipeline
<1>6. (\E r \in Repairs : RepairStep(r) \/ Die(r)) => UNCHANGED <<of, carries>>
  BY DEF RepairStep, Start, NothingToRepair, Find, Merge, MergeFails, Die, pipeline
<1>7. Reopen \/ UNCHANGED vars => UNCHANGED <<of, carries>>
  BY DEF Reopen, vars, pipeline
<1>. QED
  BY <1>1, <1>2, <1>3, <1>4, <1>5, <1>6, <1>7 DEF Next, DdlStep

(* What happens to a row of the parsed table in a step: it is new, or it   *)
(* is merged into, or nothing.                                             *)
LEMMA RowSteps ==
  ASSUME TypeOK, [Next]_vars, NEW d \in parsed'
  PROVE  \/ d \in toParsed /\ Fits(d) /\ cells'[d] = Said(d, known)
         \/ d \in parsed /\ \E r \in Repairs : Merge(r) /\ cells'[d] = Merged(r, d)
         \/ d \in parsed /\ cells'[d] = cells[d]
<1>1. UNCHANGED <<parsed, cells>> => d \in parsed /\ cells'[d] = cells[d]
  OBVIOUS
<1>2. ASSUME NEW e \in Deliveries, AppendParsed(e)
      PROVE  \/ d \in toParsed /\ Fits(d) /\ cells'[d] = Said(d, known)
             \/ d \in parsed /\ cells'[d] = cells[d]
  BY <1>2 DEF AppendParsed, TypeOK
<1>3. ASSUME NEW r \in Repairs, Merge(r)
      PROVE  d \in parsed /\ Merge(r) /\ cells'[d] = Merged(r, d)
  BY <1>3 DEF Merge, pipeline, TypeOK
<1>4. (\E e \in Deliveries : (\E m \in Messages : Receive(e, m) \/ ReceiveAgain(e, m))
                              \/ AppendRaw(e) \/ FailRow(e)) => UNCHANGED <<parsed, cells>>
  BY DEF Receive, ReceiveAgain, AppendRaw, FailRow
<1>5. DdlStep => UNCHANGED <<parsed, cells>>
  BY DEF DdlStep, UpToDate, ReadTable, UpdateTable, Refused, pipeline
<1>6. (\E r \in Repairs : Start(r) \/ NothingToRepair(r) \/ Find(r) \/ MergeFails(r) \/ Die(r))
      => UNCHANGED <<parsed, cells>>
  BY DEF Start, NothingToRepair, Find, MergeFails, Die, pipeline
<1>7. Reopen \/ UNCHANGED vars => UNCHANGED <<parsed, cells>>
  BY DEF Reopen, vars, pipeline
<1>. QED
  BY <1>1, <1>2, <1>3, <1>4, <1>5, <1>6, <1>7 DEF Next, DdlStep, RepairStep

(* What a row is written with, and what a merge adds, is what its message  *)
(* says: all of it, if the sink fails rows that do not fit.                *)
RowInv == OwnValues /\ FailsLoudly

LEMMA MergedOwn ==
  ASSUME OneMessagePerTrade, TypeOK, RowInv, NEW r \in Repairs, NEW d \in parsed
  PROVE  /\ Merged(r, d) \subseteq Said(d, Fields)
         /\ mode = "fail" => Merged(r, d) = Said(d, Fields)
<1>1. ASSUME NEW p \in Sources(r, d)
      PROVE  Mends(d, p[2], repairable[r]) \X {of[p[2]]} \subseteq Said(d, Fields)
  <2>1. of[p[2]] = of[d]
    BY <1>1 DEF Sources, Joined, OneMessagePerTrade, TypeOK
  <2>2. Mends(d, p[2], repairable[r]) \subseteq Carried(d) \cap Fields
    BY <2>1 DEF Mends, Blank, Carried, TypeOK
  <2>. QED
    BY <2>1, <2>2 DEF Said
<1>2. cells[d] \subseteq Said(d, Fields)
  BY DEF RowInv, OwnValues
<1>3. Merged(r, d) \subseteq Said(d, Fields)
  BY <1>1, <1>2 DEF Merged
<1>4. mode = "fail" => Said(d, Fields) \subseteq Merged(r, d)
  BY DEF RowInv, FailsLoudly, Merged
<1>. QED
  BY <1>3, <1>4

LEMMA RowInvHolds == OneMessagePerTrade /\ Spec => []RowInv
<1>1. Init => RowInv
  BY DEF Init, RowInv, OwnValues, FailsLoudly
<1>2. OneMessagePerTrade /\ TypeOK /\ RowInv /\ [Next]_vars => RowInv'
  <2>. SUFFICES ASSUME OneMessagePerTrade, TypeOK, RowInv, [Next]_vars, NEW d \in parsed'
                PROVE  /\ cells'[d] \subseteq Said(d, Fields)'
                       /\ mode' = "fail" => cells'[d] = Said(d, Fields)'
    BY DEF RowInv, OwnValues, FailsLoudly
  <2>1. mode' = mode
    BY DEF Next, vars, flags, UpToDate, ReadTable, UpdateTable, Refused, Receive, ReceiveAgain,
           AppendRaw, AppendParsed, FailRow, Reopen, RepairStep, Start, NothingToRepair, Find,
           Merge, MergeFails, Die
  <2>2. d \in Deliveries /\ of[d] # NoMessage
    BY RowSteps DEF TypeOK
  <2>3. Said(d, Fields)' = Said(d, Fields)
    BY <2>2, ContentStays DEF Said
  <2>4. CASE d \in toParsed /\ Fits(d) /\ cells'[d] = Said(d, known)
    <3>1. Said(d, known) \subseteq Said(d, Fields)
      BY DEF Said, TypeOK
    <3>2. mode = "fail" => Said(d, Fields) \subseteq Said(d, known)
      BY <2>4 DEF Fits, Said
    <3>. QED
      BY <2>1, <2>3, <2>4, <3>1, <3>2
  <2>5. ASSUME NEW r \in Repairs, d \in parsed, cells'[d] = Merged(r, d)
        PROVE  /\ cells'[d] \subseteq Said(d, Fields)'
               /\ mode' = "fail" => cells'[d] = Said(d, Fields)'
    BY <2>1, <2>3, <2>5, MergedOwn
  <2>6. CASE d \in parsed /\ cells'[d] = cells[d]
    BY <2>1, <2>3, <2>6 DEF RowInv, OwnValues, FailsLoudly
  <2>. QED
    BY <2>4, <2>5, <2>6, RowSteps
<1>3. OneMessagePerTrade => []OneMessagePerTrade
  <2>1. OneMessagePerTrade => OneMessagePerTrade'
    BY DEF OneMessagePerTrade
  <2>. QED
    BY <2>1, PTL
<1>. QED
  BY <1>1, <1>2, <1>3, TypeCorrect, PTL DEF Spec

(* With one message per key, a row says nothing that its message did not,  *)
(* however many repairs overlap (RepairDroppedFields.java, main).          *)
THEOREM OnlyOwnValues == OneMessagePerTrade /\ Spec => []OwnValues
BY RowInvHolds, PTL DEF RowInv

(* With one message per key, a sink without the flags never stores a row   *)
(* with less than its message said (LoadTestPipeline.java, build).         *)
THEOREM NothingDroppedInSilence == OneMessagePerTrade /\ Spec => []FailsLoudly
BY RowInvHolds, PTL DEF RowInv

-----------------------------------------------------------------------------
(* The repair *)

Filled(d, f) == \E m \in Messages : <<f, m>> \in cells[d]

(* What a repair on its way to the MERGE still owes to a row it has seen:  *)
(* a column that has since been filled, or one that its temporary table    *)
(* has, with a row for it.                                                 *)
Owed(r, d, f) ==
  Filled(d, f) \/ (f \in repairable[r] /\ \E p \in temp[r] : of[p[2]] = of[d])

MendInv ==
  /\ toParsed \cap parsed = {}
  /\ \A r \in Repairs : at[r] = "merge" =>
       \A d \in seen[r] : \A f \in cols[r] \cap Carried(d) : Owed(r, d, f)

(* A pair the query must find, if a column is blank that both tables could *)
(* tell.                                                                   *)
LEMMA BlankIsFound ==
  ASSUME TypeOK, NEW C \in SUBSET Fields, NEW d \in parsed, NEW e \in raw, of[e] = of[d],
         NEW f \in C \cap Carried(d), ~Filled(d, f)
  PROVE  <<d, e>> \in Found(C) /\ f \in Mends(d, e, C)
<1>1. f \in Blank(d, C)
  BY DEF Blank, Filled
<1>2. f \in Mends(d, e, C)
  BY <1>1 DEF Mends, Carried
<1>3. Suspect(d, C)
  BY <1>1 DEF Suspect
<1>4. Joined(d, e)
  BY DEF Joined
<1>. QED
  BY <1>2, <1>3, <1>4 DEF Found

(* What is filled stays filled.                                            *)
LEMMA FilledStays ==
  ASSUME TypeOK, MendInv, [Next]_vars, NEW d \in parsed, NEW f, Filled(d, f)
  PROVE  d \in parsed' /\ Filled(d, f)'
<1>1. d \in parsed'
  BY DEF Next, vars, pipeline, UpToDate, ReadTable, UpdateTable, Refused, Receive, ReceiveAgain,
         AppendRaw, AppendParsed, FailRow, Reopen, RepairStep, Start, NothingToRepair, Find,
         Merge, MergeFails, Die
<1>2. cells[d] \subseteq cells'[d]
  BY <1>1, RowSteps DEF MendInv, Merged
<1>. QED
  BY <1>1, <1>2 DEF Filled

(* The deliveries that wait for the parsed sink are not in it.             *)
LEMMA QueueStep ==
  ASSUME TypeOK, [Next]_vars, toParsed \cap parsed = {}
  PROVE  (toParsed \cap parsed = {})'
<1>1. ASSUME NEW d \in Deliveries, NEW m \in Messages, Receive(d, m) \/ ReceiveAgain(d, m)
      PROVE  (toParsed \cap parsed = {})'
  <2>1. d \notin parsed /\ parsed' = parsed /\ toParsed' = toParsed \cup {d}
    BY <1>1, SchemaAssumption DEF Receive, ReceiveAgain, Deliver, TypeOK
  <2>. QED
    BY <2>1
<1>2. ASSUME NEW d \in Deliveries, AppendParsed(d)
      PROVE  (toParsed \cap parsed = {})'
  BY <1>2 DEF AppendParsed
<1>3. ASSUME NEW d \in Deliveries, FailRow(d)
      PROVE  (toParsed \cap parsed = {})'
  BY <1>3 DEF FailRow
<1>4. CASE UNCHANGED <<toParsed, parsed>>
  BY <1>4
<1>5. (\E d \in Deliveries : AppendRaw(d)) \/ Reopen \/ UNCHANGED vars => UNCHANGED <<toParsed, parsed>>
  BY DEF AppendRaw, Reopen, vars, pipeline
<1>6. DdlStep => UNCHANGED <<toParsed, parsed>>
  BY DEF DdlStep, UpToDate, ReadTable, UpdateTable, Refused, pipeline
<1>7. (\E r \in Repairs : RepairStep(r) \/ Die(r)) => UNCHANGED <<toParsed, parsed>>
  BY DEF RepairStep, Start, NothingToRepair, Find, Merge, MergeFails, Die, pipeline
<1>. QED
  BY <1>1, <1>2, <1>3, <1>4, <1>5, <1>6, <1>7 DEF Next, DdlStep

(* The query sets up what is owed.                                         *)
LEMMA FindOwes ==
  ASSUME TypeOK, NEW r \in Repairs, Find(r), NEW d \in Mendable, NEW f \in cols[r] \cap Carried(d)
  PROVE  Owed(r, d, f)'
<1>1. cells' = cells /\ of' = of /\ carries' = carries
  BY DEF Find, pipeline
<1>2. CASE Filled(d, f)
  BY <1>1, <1>2 DEF Owed, Filled
<1>3. CASE ~Filled(d, f)
  <2>1. PICK e \in raw : of[e] = of[d]
    BY DEF Mendable
  <2>2. cols[r] \in SUBSET Fields /\ d \in parsed
    BY DEF TypeOK, Mendable
  <2>3. <<d, e>> \in Found(cols[r]) /\ f \in Mends(d, e, cols[r])
    BY <1>3, <2>1, <2>2, BlankIsFound
  <2>4. f \in UNION {Mends(p[1], p[2], cols[r]) : p \in Found(cols[r])}
    BY <2>3
  <2>5. temp'[r] = Found(cols[r])
        /\ repairable'[r] = UNION {Mends(p[1], p[2], cols[r]) : p \in Found(cols[r])}
    BY DEF Find, TypeOK
  <2>. QED
    BY <1>1, <2>1, <2>3, <2>4, <2>5 DEF Owed
<1>. QED
  BY <1>2, <1>3

(* A repair that has its temporary table got it in this step, or has not   *)
(* been touched by it.                                                     *)
LEMMA OnItsOwn ==
  ASSUME TypeOK, [Next]_vars, NEW r \in Repairs, at'[r] = "merge"
  PROVE  \/ Find(r)
         \/ /\ at[r] = "merge" /\ seen'[r] = seen[r] /\ cols'[r] = cols[r]
            /\ temp'[r] = temp[r] /\ repairable'[r] = repairable[r]
<1>1. CASE UNCHANGED <<at, cols, temp, repairable, seen>>
  BY <1>1
<1>2. ASSUME NEW q \in Repairs, Start(q) \/ NothingToRepair(q) \/ Merge(q) \/ MergeFails(q) \/ Die(q)
      PROVE  /\ at[r] = "merge" /\ seen'[r] = seen[r] /\ cols'[r] = cols[r]
             /\ temp'[r] = temp[r] /\ repairable'[r] = repairable[r]
  <2>1. at'[q] # "merge"
    BY <1>2 DEF Start, NothingToRepair, Merge, MergeFails, Die, Finish, TypeOK
  <2>2. q # r
    BY <2>1
  <2>. QED
    BY <1>2, <2>2 DEF Start, NothingToRepair, Merge, MergeFails, Die, Finish, TypeOK
<1>3. ASSUME NEW q \in Repairs, Find(q), q # r
      PROVE  /\ at[r] = "merge" /\ seen'[r] = seen[r] /\ cols'[r] = cols[r]
             /\ temp'[r] = temp[r] /\ repairable'[r] = repairable[r]
  BY <1>3 DEF Find, TypeOK
<1>4. SinkStep \/ DdlStep \/ Reopen \/ UNCHANGED vars => UNCHANGED <<at, cols, temp, repairable, seen>>
  BY DEF SinkStep, DdlStep, Reopen, vars, repair, UpToDate, ReadTable, UpdateTable, Refused,
         Receive, ReceiveAgain, AppendRaw, AppendParsed, FailRow
<1>. QED
  BY <1>1, <1>2, <1>3, <1>4 DEF Next, SinkStep, DdlStep, RepairStep

LEMMA MendInvHolds == Spec => []MendInv
<1>1. Init => MendInv
  BY DEF Init, MendInv
<1>2. TypeOK /\ MendInv /\ [Next]_vars => MendInv'
  <2>. SUFFICES ASSUME TypeOK, MendInv, [Next]_vars PROVE MendInv'
    OBVIOUS
  <2>1. (toParsed \cap parsed = {})'
    BY QueueStep DEF MendInv
  <2>2. ASSUME NEW r \in Repairs, at'[r] = "merge", NEW d \in seen'[r], NEW f \in cols'[r] \cap Carried(d)'
        PROVE  Owed(r, d, f)'
    <3>1. CASE Find(r)
      <4>1. seen'[r] = Mendable /\ cols'[r] = cols[r] /\ Carried(d)' = Carried(d)
        BY <3>1 DEF Find, TypeOK, pipeline, Carried
      <4>. QED
        BY <3>1, <4>1, <2>2, FindOwes
    <3>2. CASE /\ at[r] = "merge" /\ seen'[r] = seen[r] /\ cols'[r] = cols[r]
               /\ temp'[r] = temp[r] /\ repairable'[r] = repairable[r]
      <4>1. d \in parsed /\ d \in Deliveries /\ of[d] # NoMessage
        BY <3>2, <2>2 DEF TypeOK
      <4>2. of'[d] = of[d] /\ Carried(d)' = Carried(d)
        BY <4>1, ContentStays
      <4>3. Owed(r, d, f)
        BY <3>2, <2>2, <4>2 DEF MendInv
      <4>4. CASE Filled(d, f)
        BY <4>1, <4>4, FilledStays DEF Owed
      <4>5. CASE f \in repairable[r] /\ \E p \in temp[r] : of[p[2]] = of[d]
        <5>1. PICK p \in temp[r] : of[p[2]] = of[d]
          BY <4>5
        <5>2. p[2] \in Deliveries /\ of[p[2]] # NoMessage
          BY DEF TypeOK
        <5>3. of'[p[2]] = of[p[2]]
          BY <5>2, ContentStays
        <5>. QED
          BY <3>2, <4>2, <4>5, <5>1, <5>3 DEF Owed
      <4>. QED
        BY <4>3, <4>4, <4>5 DEF Owed
    <3>. QED
      BY <3>1, <3>2, <2>2, OnItsOwn
  <2>. QED
    BY <2>1, <2>2 DEF MendInv
<1>. QED
  BY <1>1, <1>2, TypeCorrect, PTL DEF Spec

(* A repair that ends well leaves no row it has seen blank where it could  *)
(* mend it, whatever was appended, added or repaired meanwhile, and also   *)
(* if keys are shared (RepairDroppedFields.java, main).                    *)
THEOREM RepairLeavesNoBlank == Spec => RepairedIsWhole
<1>1. ASSUME TypeOK, NEW r \in Repairs, NothingToRepair(r), NEW d \in Mendable
      PROVE  Blank(d, cols[r]) \cap Carried(d) = {}
  <2>1. PICK e \in raw : of[e] = of[d]
    BY DEF Mendable
  <2>2. cols[r] \in SUBSET Fields /\ d \in parsed /\ Found(cols[r]) = {}
    BY <1>1 DEF TypeOK, Mendable, NothingToRepair
  <2>3. \A f \in cols[r] \cap Carried(d) : Filled(d, f)
    BY <1>1, <2>1, <2>2, BlankIsFound
  <2>. QED
    BY <2>3 DEF Blank, Filled
<1>2. ASSUME TypeOK, MendInv, NEW r \in Repairs, Merge(r), NEW d \in seen[r], NEW f \in cols[r] \cap Carried(d)
      PROVE  \E m \in Messages : <<f, m>> \in cells'[d]
  <2>1. d \in parsed /\ d \in Deliveries
    BY <1>2 DEF TypeOK
  <2>2. cells'[d] = Merged(r, d)
    BY <1>2, <2>1 DEF Merge
  <2>3. Owed(r, d, f)
    BY <1>2 DEF MendInv, Merge
  <2>4. CASE Filled(d, f)
    BY <2>2, <2>4 DEF Filled, Merged
  <2>5. CASE ~Filled(d, f)
    <3>1. PICK p \in temp[r] : of[p[2]] = of[d]
      BY <2>3, <2>5 DEF Owed
    <3>2. f \in Mends(d, p[2], repairable[r])
      BY <2>3, <2>5, <3>1 DEF Owed, Filled, Mends, Blank, Carried
    <3>3. p \in Sources(r, d)
      BY <3>1, <3>2 DEF Sources, Joined
    <3>4. of[p[2]] \in Messages
      BY <1>2 DEF TypeOK
    <3>. QED
      BY <2>2, <3>2, <3>3, <3>4 DEF Merged
  <2>. QED
    BY <2>4, <2>5
<1>3. TypeOK /\ MendInv /\ [Next]_vars => [\A r \in Repairs :
         /\ NothingToRepair(r) => \A d \in Mendable : Blank(d, cols[r]) \cap Carried(d) = {}
         /\ Merge(r) => \A d \in seen[r] : \A f \in cols[r] \cap Carried(d) :
                          \E m \in Messages : <<f, m>> \in cells'[d]]_vars
  BY <1>1, <1>2
<1>. QED
  BY <1>3, TypeCorrect, MendInvHolds, PTL DEF Spec, RepairedIsWhole
==============================================================================
