------------------------- MODULE ErasureSweepProofs -------------------------
(***************************************************************************)
(* Proofs about ErasureSweep, for every set of requests, subjects and      *)
(* overlapping runs, every inventory and every bound.                      *)
(***************************************************************************)
EXTENDS ErasureSweep, TLAPS

-----------------------------------------------------------------------------
(* Type correctness.  TypeOK alone is not inductive: a run uses its current *)
(* request between the shred and the end of erase, and while it counts, and *)
(* what makes that a request is that these phases follow a choice.          *)

CurIsRequest ==
  \A p \in Sweepers : pc[p] \in {"audit", "delete", "count"} => cur[p] \in Requests

TypeInv == TypeOK /\ CurIsRequest

LEMMA InventoryLength == Len(Inventory) \in Nat
BY SweepAssumption

LEMMA InitTypeInv == Init => TypeInv
BY SweepAssumption, InventoryLength DEF Init, TypeInv, TypeOK, CurIsRequest, Phase

LEMMA EnvironmentTypeInv == TypeInv /\ Environment => TypeInv'
<1> SUFFICES ASSUME TypeInv, Environment PROVE TypeInv'
  OBVIOUS
<1> USE SweepAssumption, InventoryLength DEF TypeInv, TypeOK, CurIsRequest, queueVars, runVars, historyVars, Phase
<1>1. CASE \E r \in Requests : Raise(r)
  BY <1>1 DEF Raise
<1>2. CASE \E t \in Tables, s \in Subjects : Ingest(t, s)
  BY <1>2 DEF Ingest
<1>3. CASE \E s \in Subjects : CreateKey(s)
  BY <1>3 DEF CreateKey
<1>4. CASE \E t \in Tables : Build(t)
  BY <1>4 DEF Build
<1>5. CASE Tick
  BY <1>5 DEF Tick
<1> QED
  BY <1>1, <1>2, <1>3, <1>4, <1>5 DEF Environment

LEMMA DeleteRowsType ==
  ASSUME TypeOK, NEW t, NEW s, DeleteRows(t, s)
  PROVE  /\ rows' \in [Tables -> SUBSET Subjects]
         /\ held' \in [Requests -> SUBSET Erasable]
         /\ present' \in [Sweepers -> SUBSET (Subjects \X Erasable)]
BY DEF TypeOK, DeleteRows

LEMMA StepTypeInv ==
  ASSUME NEW p \in Sweepers
  PROVE  TypeInv /\ (Start(p) \/ Step(p) \/ Crash(p)) => TypeInv'
<1> SUFFICES ASSUME TypeInv, Start(p) \/ Step(p) \/ Crash(p) PROVE TypeInv'
  OBVIOUS
<1> USE SweepAssumption, InventoryLength DEF TypeInv, TypeOK, CurIsRequest, queueVars, runVars, historyVars, Phase, Goto
<1>1. CASE Start(p)
  BY <1>1 DEF Start
<1>2. CASE Look(p)
  <2>1. CASE Pending = {}
    <3>1. /\ Finish(p, "ok")
          /\ UNCHANGED <<queueVars, now, done, flagged, crashes, historyVars>>
      BY <1>2, <2>1, Zenon DEF Look
    <3> QED
      BY <3>1 DEF Finish
  <2>2. CASE Pending # {}
    BY <1>2, <2>2 DEF Look
  <2> QED
    BY <2>1, <2>2
<1>3. CASE ListPending(p)
  BY <1>3 DEF ListPending, Pending
<1>4. CASE Shred(p)
  <2>1. PICK r \in todo[p] :
          /\ cur' = [cur EXCEPT ![p] = r]
          /\ todo' = [todo EXCEPT ![p] = @ \ {r}]
          /\ flagged' = IF IsOverdue(r, now[p])
                        THEN [flagged EXCEPT ![p] = @ \cup {r}] ELSE flagged
          /\ existed' = [existed EXCEPT ![p] = Client[r] \in keys]
          /\ DeleteKey(Client[r])
    BY <1>4, Zenon DEF Shred
  <2>2. flagged' \in [Sweepers -> SUBSET Requests]
    BY <2>1
  <2>3. existed' \in [Sweepers -> BOOLEAN]
    BY <2>1
  <2>4. keys' \subseteq Subjects /\ readable' \subseteq Requests
    BY <2>1 DEF DeleteKey
  <2>5. /\ pc' = [pc EXCEPT ![p] = "audit"]
        /\ UNCHANGED <<status, built, rows, audit, day, pos, now, done, exit, crashes, held, taken,
                       present>>
    BY <1>4, Zenon DEF Shred
  <2>6. /\ todo' \in [Sweepers -> SUBSET Requests]
        /\ cur' \in [Sweepers -> Requests \cup {NoRequest}]
        /\ cur'[p] \in Requests
        /\ \A q \in Sweepers : q # p => cur'[q] = cur[q]
    BY <2>1
  <2>7. CurIsRequest'
    BY <2>5, <2>6
  <2>8. TypeOK'
    BY <2>2, <2>3, <2>4, <2>5, <2>6
  <2> QED
    BY <2>7, <2>8
<1>5. CASE Audit(p)
  BY <1>5 DEF Audit
<1>6. CASE Delete(p)
  <2>1. pos' \in [Sweepers -> 1 .. Len(Inventory) + 1]
    BY <1>6 DEF Delete, Positions
  <2>2. /\ rows' \in [Tables -> SUBSET Subjects]
        /\ held' \in [Requests -> SUBSET Erasable]
        /\ present' \in [Sweepers -> SUBSET (Subjects \X Erasable)]
    <3>1. CASE IsSwept(pos[p])
      <4>1. DeleteRows(Inventory[pos[p]].table, Client[cur[p]])
        BY <1>6, <3>1, Zenon DEF Delete
      <4> QED
        BY <4>1, DeleteRowsType
    <3>2. CASE ~IsSwept(pos[p])
      <4>1. UNCHANGED <<rows, held, present>>
        BY <1>6, <3>2, Zenon DEF Delete
      <4> QED
        BY <4>1
    <3> QED
      BY <3>1, <3>2
  <2> QED
    BY <1>6, <2>1, <2>2 DEF Delete
<1>7. CASE MarkComplete(p)
  BY <1>7 DEF MarkComplete, CompleteRequests
<1>8. CASE StartCheck(p)
  BY <1>8 DEF StartCheck
<1>9. CASE CheckNext(p)
  BY <1>9 DEF CheckNext
<1>10. CASE Count(p)
  <2>1. pos' \in [Sweepers -> 1 .. Len(Inventory) + 1]
    BY <1>10 DEF Count, Positions
  <2>2. flagged' \in [Sweepers -> SUBSET Requests]
    BY <1>10 DEF Count
  <2> QED
    BY <1>10, <2>1, <2>2 DEF Count
<1>11. CASE EndCount(p)
  BY <1>11 DEF EndCount
<1>12. CASE Return(p)
  BY <1>12 DEF Return, Finish
<1>13. CASE Abort(p)
  BY <1>13 DEF Abort, Finish
<1>14. CASE Crash(p)
  BY <1>14 DEF Crash, Finish
<1> QED
  BY <1>1, <1>2, <1>3, <1>4, <1>5, <1>6, <1>7, <1>8, <1>9, <1>10, <1>11, <1>12, <1>13, <1>14
     DEF Step

LEMMA TypeInvStep == TypeInv /\ [Next]_vars => TypeInv'
<1> SUFFICES ASSUME TypeInv, [Next]_vars PROVE TypeInv'
  OBVIOUS
<1>1. CASE Environment
  BY <1>1, EnvironmentTypeInv
<1>2. CASE \E p \in Sweepers : Start(p) \/ Step(p) \/ Crash(p)
  BY <1>2, StepTypeInv
<1>3. CASE UNCHANGED vars
  BY <1>3 DEF TypeInv, TypeOK, CurIsRequest, vars, queueVars, runVars, historyVars
<1> QED
  BY <1>1, <1>2, <1>3 DEF Next

LEMMA TypeInvariance == Spec => []TypeInv
BY InitTypeInv, TypeInvStep, PTL DEF Spec

(* Every variable keeps its type in every reachable state: in particular   *)
(* a run never works on anything that is not a request, and never leaves   *)
(* the inventory (privacy/erasure.py, privacy/cli.py).                     *)
THEOREM TypeCorrect == Spec => []TypeOK
<1>1. TypeInv => TypeOK
  BY DEF TypeInv
<1> QED
  BY <1>1, TypeInvariance, PTL

-----------------------------------------------------------------------------
(* The argument.  Everything a request loses it loses for good: no step    *)
(* brings back a key, a row or an audit row of an earlier moment.  So it   *)
(* is enough to know, of every run, what it has established about the      *)
(* request it is erasing by the time it gets where it is.                  *)

Raised(r) == status[r] # "absent"

Audited(s) == \E b \in BOOLEAN : <<s, b>> \in audit

RunInv(p) ==
  /\ \A r \in todo[p] \cup done[p] : Raised(r)
  /\ pc[p] \in {"audit", "delete", "count"} => Raised(cur[p])
  /\ pc[p] \in {"audit", "delete"} => cur[p] \notin readable
  /\ pc[p] = "delete" =>
       /\ Audited(Client[cur[p]])
       /\ \A i \in Positions : (i < pos[p] /\ IsSwept(i)) => Inventory[i].table \notin held[cur[p]]

SweepInv == CompletedMeansGone /\ \A p \in Sweepers : RunInv(p)

(* The steps that touch what is known about requests, and how. *)
LEMMA StepKinds ==
  ASSUME TypeInv, [Next]_vars
  PROVE  \/ UNCHANGED <<status, readable, held>>
         \/ \E r \in Requests : Raise(r)
         \/ \E p \in Sweepers : Shred(p) \/ Delete(p) \/ MarkComplete(p)
<1> USE DEF queueVars, runVars, historyVars
<1>1. CASE Environment
  BY <1>1 DEF Environment, Ingest, CreateKey, Build, Tick
<1>2. ASSUME NEW p \in Sweepers, Start(p) \/ Step(p) \/ Crash(p)
      PROVE  UNCHANGED <<status, readable, held>> \/ Shred(p) \/ Delete(p) \/ MarkComplete(p)
  BY <1>2 DEF Step, Start, Crash, Look, ListPending, Audit, StartCheck, CheckNext, Count, EndCount,
              Return, Abort
<1>3. CASE UNCHANGED vars
  BY <1>3 DEF vars
<1> QED
  BY <1>1, <1>2, <1>3 DEF Next

LEMMA OnlyLosses ==
  ASSUME TypeInv, [Next]_vars, NEW r \in Requests, Raised(r)
  PROVE  /\ Raised(r)'
         /\ r \in readable' => r \in readable
         /\ held'[r] \subseteq held[r]
<1> USE DEF TypeInv, TypeOK, Raised
<1>1. CASE UNCHANGED <<status, readable, held>>
  BY <1>1
<1>2. CASE \E q \in Requests : Raise(q)
  BY <1>2 DEF Raise
<1>3. ASSUME NEW p \in Sweepers, Shred(p) PROVE /\ UNCHANGED <<status, held>>
                                                 /\ readable' \subseteq readable
  BY <1>3 DEF Shred, DeleteKey
<1>4. ASSUME NEW p \in Sweepers, Delete(p)
      PROVE  UNCHANGED <<status, readable>> /\ held'[r] \subseteq held[r]
  <2>1. UNCHANGED <<status, readable>>
    BY <1>4 DEF Delete
  <2>2. CASE IsSwept(pos[p])
    <3>1. DeleteRows(Inventory[pos[p]].table, Client[cur[p]])
      BY <1>4, <2>2, Zenon DEF Delete
    <3> QED
      BY <2>1, <3>1 DEF DeleteRows
  <2>3. CASE ~IsSwept(pos[p])
    <3>1. UNCHANGED <<rows, held, present>>
      BY <1>4, <2>3, Zenon DEF Delete
    <3> QED
      BY <2>1, <3>1
  <2> QED
    BY <2>1, <2>2, <2>3
<1>5. ASSUME NEW p \in Sweepers, MarkComplete(p)
      PROVE  UNCHANGED <<readable, held>> /\ status'[r] # "absent"
  BY <1>5 DEF MarkComplete, CompleteRequests, historyVars
<1> QED
  BY <1>1, <1>2, <1>3, <1>4, <1>5, StepKinds

LEMMA AuditGrows == [Next]_vars => audit \subseteq audit'
<1> USE DEF queueVars, runVars, historyVars
<1>1. Environment => audit \subseteq audit'
  BY DEF Environment, Raise, Ingest, CreateKey, Build, Tick
<1>2. ASSUME NEW p \in Sweepers, Start(p) \/ Step(p) \/ Crash(p)
      PROVE  audit \subseteq audit'
  BY <1>2 DEF Step, Start, Crash, Look, ListPending, Shred, Audit, Delete, MarkComplete, StartCheck,
              CheckNext, Count, EndCount, Return, Abort
<1>3. UNCHANGED vars => audit \subseteq audit'
  BY DEF vars
<1> QED
  BY <1>1, <1>2, <1>3 DEF Next

(* What a run has established survives every step that is not its own.     *)
LEMMA RunInvStable ==
  ASSUME TypeInv, [Next]_vars, NEW p \in Sweepers, RunInv(p),
         todo'[p] \subseteq todo[p] \cup done[p], done'[p] \subseteq done[p],
         pc'[p] \notin {"audit", "delete", "count"} \/ UNCHANGED <<pc[p], cur[p], pos[p]>>
  PROVE  RunInv(p)'
<1> USE DEF TypeInv, TypeOK, CurIsRequest
<1>1. \A r \in (todo[p] \cup done[p])' : Raised(r)'
  BY OnlyLosses DEF RunInv
<1>2. CASE pc'[p] \notin {"audit", "delete", "count"}
  BY <1>1, <1>2 DEF RunInv
<1>3. CASE pc[p] \in {"audit", "delete", "count"} /\ UNCHANGED <<pc[p], cur[p], pos[p]>>
  <2>1. cur[p] \in Requests /\ Raised(cur[p])
    BY <1>3 DEF RunInv
  <2>2. /\ Raised(cur[p])'
        /\ cur[p] \notin readable => cur[p] \notin readable'
        /\ held'[cur[p]] \subseteq held[cur[p]]
    <3>1. ASSUME NEW r \in Requests, Raised(r)
          PROVE  status'[r] # "absent" /\ (r \in readable' => r \in readable) /\ held'[r] \subseteq held[r]
      BY <3>1, OnlyLosses DEF Raised
    <3> QED
      BY <1>3, <2>1, <3>1 DEF Raised
  <2>3. Audited(Client[cur[p]]) => Audited(Client[cur[p]])'
    BY <1>3, AuditGrows DEF Audited
  <2>4. pc'[p] = pc[p] /\ cur'[p] = cur[p] /\ pos'[p] = pos[p]
    BY <1>3
  <2>5. Raised(cur[p])' /\ (pc[p] \in {"audit", "delete"} => (cur[p] \notin readable)')
    BY <2>2, <2>4, <1>3 DEF RunInv
  <2>6. ASSUME pc[p] = "delete"
        PROVE  /\ Audited(Client[cur[p]])'
               /\ \A i \in Positions : (i < pos'[p] /\ IsSwept(i)) => Inventory[i].table \notin held'[cur'[p]]
    BY <2>2, <2>3, <2>4, <2>6 DEF RunInv
  <2> QED
    BY <1>1, <1>3, <2>4, <2>5, <2>6 DEF RunInv
<1> QED
  BY <1>2, <1>3

(* What a run's own steps establish: the shred, that the key is gone; the  *)
(* audit, that this is on record; each delete, one more table.             *)
LEMMA RunInvOwn ==
  ASSUME TypeInv, NEW p \in Sweepers, RunInv(p), Start(p) \/ Step(p) \/ Crash(p)
  PROVE  RunInv(p)'
<1> USE SweepAssumption, InventoryLength DEF TypeInv, TypeOK, CurIsRequest, queueVars, runVars, historyVars, Goto
<1>0. [Next]_vars
  BY DEF Next
<1>1. CASE \/ Start(p) \/ Look(p) \/ StartCheck(p) \/ EndCount(p) \/ Return(p) \/ Abort(p) \/ Crash(p)
  <2>1. todo'[p] \subseteq todo[p] \cup done[p] /\ done'[p] \subseteq done[p]
    BY <1>1 DEF Start, Look, StartCheck, EndCount, Return, Abort, Crash, Finish
  <2>2. pc'[p] \notin {"audit", "delete", "count"}
    BY <1>1 DEF Start, Look, StartCheck, EndCount, Return, Abort, Crash, Finish
  <2> QED
    BY <1>0, <2>1, <2>2, RunInvStable
<1>2. CASE ListPending(p)
  <2>1. /\ todo'[p] = Pending /\ pc'[p] = "shred" /\ UNCHANGED <<status, done>>
    BY <1>2 DEF ListPending
  <2> QED
    BY <2>1 DEF RunInv, Raised, Pending
<1>3. CASE Shred(p)
  <2>1. PICK r \in todo[p] :
          /\ cur' = [cur EXCEPT ![p] = r]
          /\ todo' = [todo EXCEPT ![p] = @ \ {r}]
          /\ DeleteKey(Client[r])
    BY <1>3, Zenon DEF Shred
  <2>2. /\ pc' = [pc EXCEPT ![p] = "audit"]
        /\ UNCHANGED <<status, done>>
    BY <1>3, Zenon DEF Shred
  <2>3. r \in Requests /\ cur'[p] = r /\ r \notin readable'
    BY <2>1 DEF DeleteKey, RequestsOf
  <2> QED
    BY <2>1, <2>2, <2>3 DEF RunInv, Raised
<1>4. CASE Audit(p)
  <2>1. /\ pc'[p] = "delete" /\ pos'[p] = 1
        /\ UNCHANGED <<status, todo, done, cur, readable, held>>
    BY <1>4 DEF Audit
  <2>2. Audited(Client[cur[p]])'
    BY <1>4 DEF Audit, Audited
  <2>3. \A i \in Positions : ~ (i < 1)
    BY DEF Positions
  <2> QED
    BY <1>4, <2>1, <2>2, <2>3 DEF RunInv, Raised, Audit
<1>5. CASE Delete(p)
  <2>1. /\ pc[p] = "delete" /\ pos[p] \in Positions /\ pos'[p] = pos[p] + 1
        /\ UNCHANGED <<status, audit, pc, todo, done, cur, readable>>
    BY <1>5 DEF Delete
  <2>2. cur[p] \in Requests
    BY <2>1
  <2>3. held'[cur[p]] \subseteq held[cur[p]]
    BY <1>0, <2>1, <2>2, OnlyLosses DEF RunInv
  <2>4. IsSwept(pos[p]) => Inventory[pos[p]].table \notin held'[cur[p]]
    <3> SUFFICES ASSUME IsSwept(pos[p]) PROVE Inventory[pos[p]].table \notin held'[cur[p]]
      OBVIOUS
    <3>1. DeleteRows(Inventory[pos[p]].table, Client[cur[p]])
      BY <1>5, Zenon DEF Delete
    <3> QED
      BY <2>2, <3>1 DEF DeleteRows
  <2>5. ASSUME NEW i \in Positions, i < pos'[p], IsSwept(i)
        PROVE  Inventory[i].table \notin held'[cur'[p]]
    <3>1. CASE i = pos[p]
      BY <2>1, <2>4, <2>5, <3>1
    <3>2. CASE i < pos[p]
      BY <2>1, <2>3, <2>5, <3>2 DEF RunInv
    <3> QED
      BY <2>1, <2>5, <3>1, <3>2 DEF Positions
  <2>6. Audited(Client[cur[p]])'
    BY <2>1 DEF RunInv, Audited
  <2> QED
    BY <2>1, <2>5, <2>6 DEF RunInv, Raised
<1>6. CASE MarkComplete(p)
  <2>1. /\ pc[p] = "delete" /\ pc'[p] = "shred" /\ todo' = todo /\ done'[p] = done[p] \cup {cur[p]}
    BY <1>6 DEF MarkComplete
  <2>2. \A r \in todo[p] \cup done[p] \cup {cur[p]} : r \in Requests /\ Raised(r)
    BY <2>1 DEF RunInv
  <2>3. \A r \in todo[p] \cup done[p] \cup {cur[p]} : Raised(r)'
    BY <1>0, <2>2, OnlyLosses
  <2> QED
    BY <2>1, <2>3 DEF RunInv
<1>7. CASE CheckNext(p)
  <2>1. PICK r \in todo[p] : cur' = [cur EXCEPT ![p] = r] /\ todo' = [todo EXCEPT ![p] = @ \ {r}]
    BY <1>7, Zenon DEF CheckNext
  <2>2. pc'[p] = "count" /\ UNCHANGED <<status, done>>
    BY <1>7 DEF CheckNext
  <2> QED
    BY <2>1, <2>2 DEF RunInv, Raised
<1>8. CASE Count(p)
  <2>1. pc[p] = "count" /\ UNCHANGED <<status, pc, todo, done, cur>>
    BY <1>8 DEF Count
  <2> QED
    BY <2>1 DEF RunInv, Raised
<1> QED
  BY <1>1, <1>2, <1>3, <1>4, <1>5, <1>6, <1>7, <1>8 DEF Step

LEMMA RunInvOther ==
  ASSUME TypeInv, NEW p \in Sweepers, RunInv(p), [Next]_vars,
         ~(Start(p) \/ Step(p) \/ Crash(p))
  PROVE  RunInv(p)'
<1> USE DEF TypeInv, TypeOK, queueVars, runVars, historyVars, Goto
<1>1. todo'[p] = todo[p] /\ done'[p] = done[p] /\ UNCHANGED <<pc[p], cur[p], pos[p]>>
  <2>1. CASE Environment
    BY <2>1 DEF Environment, Raise, Ingest, CreateKey, Build, Tick
  <2>2. ASSUME NEW q \in Sweepers, q # p, Start(q) \/ Step(q) \/ Crash(q)
        PROVE  todo'[p] = todo[p] /\ done'[p] = done[p] /\ UNCHANGED <<pc[p], cur[p], pos[p]>>
    BY <2>2 DEF Start, Look, ListPending, Shred, Audit, Delete, MarkComplete, StartCheck, CheckNext,
                Count, EndCount, Return, Abort, Crash, Finish, Step
  <2>3. CASE UNCHANGED vars
    BY <2>3 DEF vars
  <2> QED
    BY <2>1, <2>2, <2>3 DEF Next
<1> QED
  BY <1>1, RunInvStable

(* Nothing is marked complete before its time.  Here the queue must hold   *)
(* one request per subject: mark_complete closes every open request of the *)
(* subject, also those raised after the run took its snapshot.             *)
LEMMA CompletedStep ==
  ASSUME OneRequestPerSubject, TypeInv, SweepInv, [Next]_vars
  PROVE  CompletedMeansGone'
<1> USE SweepAssumption DEF TypeInv, TypeOK
<1> SUFFICES ASSUME NEW r \in Requests, status'[r] = "completed"
             PROVE  held'[r] = {} /\ r \notin readable' /\ Audited(Client[r])'
  BY DEF CompletedMeansGone, Audited
<1>1. CASE status[r] = "completed"
  <2>1. held[r] = {} /\ r \notin readable /\ Audited(Client[r])
    BY <1>1 DEF SweepInv, CompletedMeansGone, Audited
  <2>2. (r \in readable' => r \in readable) /\ held'[r] \subseteq held[r]
    BY <1>1, OnlyLosses DEF Raised
  <2>3. Audited(Client[r])'
    BY <2>1, AuditGrows DEF Audited
  <2> QED
    BY <2>1, <2>2, <2>3
<1>2. CASE status[r] # "completed"
  <2>1. PICK p \in Sweepers : MarkComplete(p)
    <3>1. ASSUME NEW q \in Requests, Raise(q) PROVE FALSE
      BY <1>2, <3>1 DEF Raise
    <3>2. ASSUME NEW p \in Sweepers, Shred(p) \/ Delete(p) PROVE FALSE
      BY <1>2, <3>2 DEF Shred, Delete
    <3> QED
      BY <1>2, <3>1, <3>2, StepKinds
  <2>2. /\ pc[p] = "delete" /\ pos[p] = Len(Inventory) + 1
        /\ CompleteRequests(Client[cur[p]]) /\ UNCHANGED <<audit, readable, held>>
    BY <2>1 DEF MarkComplete, AtEnd, historyVars
  <2>3. r = cur[p]
    <3>1. Client[r] = Client[cur[p]]
      BY <1>2, <2>2 DEF CompleteRequests
    <3>2. cur[p] \in Requests
      BY <2>2 DEF CurIsRequest
    <3> QED
      BY <3>1, <3>2 DEF OneRequestPerSubject
  <2>4. RunInv(p)
    BY DEF SweepInv
  <2>5. held[r] = {}
    <3>1. \A i \in Positions : IsSwept(i) => Inventory[i].table \notin held[r]
      BY <2>2, <2>3, <2>4, InventoryLength DEF RunInv, Positions
    <3>2. held[r] \subseteq Erasable
      OBVIOUS
    <3>3. \A t \in Erasable : \E i \in Positions : IsSwept(i) /\ t = Inventory[i].table
      BY Zenon DEF Erasable
    <3>4. ASSUME NEW t \in held[r] PROVE FALSE
      <4>1. PICK i \in Positions : IsSwept(i) /\ t = Inventory[i].table
        BY <3>2, <3>3, <3>4, Zenon
      <4> QED
        BY <3>1, <3>4, <4>1
    <3> QED
      BY <3>4
  <2> QED
    BY <2>2, <2>3, <2>4, <2>5 DEF RunInv, Audited
<1> QED
  BY <1>1, <1>2

RunsInv == \A p \in Sweepers : RunInv(p)

LEMMA RunsInvariance == Spec => [](TypeInv /\ RunsInv)
<1>1. Init => TypeInv /\ RunsInv
  BY InitTypeInv DEF Init, RunsInv, RunInv
<1>2. TypeInv /\ RunsInv /\ [Next]_vars => (TypeInv /\ RunsInv)'
  <2> SUFFICES ASSUME TypeInv, RunsInv, [Next]_vars PROVE TypeInv' /\ RunsInv'
    OBVIOUS
  <2>1. TypeInv'
    BY TypeInvStep
  <2>2. ASSUME NEW p \in Sweepers PROVE RunInv(p)'
    <3>1. RunInv(p)
      BY DEF RunsInv
    <3> QED
      BY <3>1, RunInvOwn, RunInvOther
  <2> QED
    BY <2>1, <2>2 DEF RunsInv
<1> QED
  BY <1>1, <1>2, PTL DEF Spec

LEMMA SweepInvariance == OneRequestPerSubject => (Spec => [](TypeInv /\ SweepInv))
<1> SUFFICES ASSUME OneRequestPerSubject PROVE Spec => [](TypeInv /\ SweepInv)
  OBVIOUS
<1>1. Init => CompletedMeansGone
  BY DEF Init, CompletedMeansGone
<1>2. TypeInv /\ RunsInv /\ CompletedMeansGone /\ [Next]_vars => CompletedMeansGone'
  BY CompletedStep DEF SweepInv, RunsInv
<1>3. TypeInv /\ RunsInv /\ CompletedMeansGone => TypeInv /\ SweepInv
  BY DEF SweepInv, RunsInv
<1> QED
  BY <1>1, <1>2, <1>3, RunsInvariance, PTL DEF Spec

(* A request whose completed_at is set has lost its key, its audit row is  *)
(* there, and no table to be erased holds rows from before it; for every   *)
(* inventory and any number of overlapping, crashing runs, as long as no   *)
(* subject has two requests (privacy/erasure.py, erase and mark_complete). *)
THEOREM CompletedIsGone == OneRequestPerSubject => (Spec => []CompletedMeansGone)
<1>1. SweepInv => CompletedMeansGone
  BY DEF SweepInv
<1> QED
  BY <1>1, SweepInvariance, PTL

(* No run touches a row from before a request whose key still exists: a    *)
(* run that dies halfway leaves nothing readable behind that has already   *)
(* lost some of its rows (privacy/erasure.py, erase: key first).           *)
THEOREM KeyGoesFirst == OneRequestPerSubject => (Spec => ShredBeforeDelete)
<1> SUFFICES ASSUME OneRequestPerSubject PROVE Spec => ShredBeforeDelete
  OBVIOUS
<1>1. ASSUME TypeInv, SweepInv, [Next]_vars
      PROVE  [\A r \in Requests :
                (status[r] # "absent" /\ held'[r] # held[r]) => r \notin readable]_vars
  <2> USE <1>1 DEF TypeInv, TypeOK
  <2> SUFFICES ASSUME NEW r \in Requests, status[r] # "absent", held'[r] # held[r]
               PROVE  r \notin readable
    OBVIOUS
  <2>1. PICK p \in Sweepers : Delete(p)
    <3>1. ASSUME NEW q \in Requests, Raise(q) PROVE FALSE
      BY <3>1 DEF Raise
    <3>2. ASSUME NEW p \in Sweepers, Shred(p) \/ MarkComplete(p) PROVE FALSE
      BY <3>2 DEF Shred, MarkComplete, historyVars
    <3> QED
      BY <3>1, <3>2, StepKinds
  <2>2. pc[p] = "delete" /\ cur[p] \in Requests
    BY <2>1 DEF Delete, CurIsRequest
  <2>3. Client[r] = Client[cur[p]]
    <3>1. DeleteRows(Inventory[pos[p]].table, Client[cur[p]])
      BY <2>1, Zenon DEF Delete
    <3> QED
      BY <3>1 DEF DeleteRows
  <2>4. r = cur[p]
    BY <2>2, <2>3 DEF OneRequestPerSubject
  <2> QED
    BY <2>2, <2>4 DEF SweepInv, RunInv
<1> QED
  BY <1>1, SweepInvariance, PTL DEF Spec, ShredBeforeDelete

(* Rows and keys are lost only by subjects who asked, and rows only from   *)
(* warehouse tables marked `delete`; also when a subject asked twice       *)
(* (privacy/erasure.py, erase; privacy/erasure_targets.yaml).              *)
THEOREM OnlyWhoAsked == Spec => ErasureIsTargeted
<1>1. ASSUME TypeInv, RunsInv, [Next]_vars
      PROVE  [/\ \A t \in Tables, s \in Subjects :
                   (s \in rows[t] /\ s \notin rows'[t]) =>
                      /\ \E i \in Positions :
                           /\ Inventory[i].table = t
                           /\ Inventory[i].action = "delete" /\ Inventory[i].engine = "warehouse"
                      /\ \E r \in RequestsOf(s) : status[r] # "absent"
              /\ \A s \in keys \ keys' : \E r \in RequestsOf(s) : status[r] # "absent"]_vars
  <2> USE <1>1 DEF TypeInv, TypeOK, queueVars, runVars, historyVars
  <2>1. \/ UNCHANGED <<rows, keys>>
        \/ (\E t \in Tables, s \in Subjects : Ingest(t, s)) \/ (\E s \in Subjects : CreateKey(s))
        \/ \E p \in Sweepers : Shred(p) \/ Delete(p)
    <3>1. Environment => \/ UNCHANGED <<rows, keys>>
                         \/ (\E t \in Tables, s \in Subjects : Ingest(t, s))
                         \/ (\E s \in Subjects : CreateKey(s))
      BY DEF Environment, Raise, Build, Tick
    <3>2. ASSUME NEW p \in Sweepers, Start(p) \/ Step(p) \/ Crash(p)
          PROVE  UNCHANGED <<rows, keys>> \/ Shred(p) \/ Delete(p)
      BY <3>2 DEF Step, Start, Crash, Look, ListPending, Audit, MarkComplete, StartCheck, CheckNext,
                  Count, EndCount, Return, Abort
    <3>3. UNCHANGED vars => UNCHANGED <<rows, keys>>
      BY DEF vars
    <3> QED
      BY <3>1, <3>2, <3>3 DEF Next
  <2>2. ASSUME NEW t \in Tables, NEW s \in Subjects, s \in rows[t], s \notin rows'[t]
        PROVE  /\ \E i \in Positions :
                     /\ Inventory[i].table = t
                     /\ Inventory[i].action = "delete" /\ Inventory[i].engine = "warehouse"
               /\ \E r \in RequestsOf(s) : status[r] # "absent"
    <3>1. PICK p \in Sweepers : Delete(p)
      BY <2>1, <2>2 DEF Ingest, CreateKey, Shred
    <3>2. pc[p] = "delete" /\ pos[p] \in Positions /\ cur[p] \in Requests
      BY <3>1 DEF Delete, CurIsRequest
    <3>3. IsSwept(pos[p]) /\ DeleteRows(Inventory[pos[p]].table, Client[cur[p]])
      <4>1. IF IsSwept(pos[p]) THEN DeleteRows(Inventory[pos[p]].table, Client[cur[p]])
                               ELSE UNCHANGED <<rows, held, present>>
        BY <3>1, Zenon DEF Delete
      <4>2. rows' # rows
        BY <2>2
      <4> QED
        BY <4>1, <4>2, Zenon
    <3>4. Inventory[pos[p]].table = t /\ Client[cur[p]] = s
      BY <2>2, <3>3 DEF DeleteRows
    <3>5. Raised(cur[p])
      BY <3>2 DEF RunsInv, RunInv
    <3> QED
      BY <3>2, <3>3, <3>4, <3>5 DEF IsSwept, RequestsOf, Raised
  <2>3. ASSUME NEW s \in keys, s \notin keys' PROVE \E r \in RequestsOf(s) : status[r] # "absent"
    <3>1. PICK p \in Sweepers : Shred(p)
      BY <2>1, <2>3 DEF Ingest, CreateKey, Delete
    <3>2. PICK r \in todo[p] : DeleteKey(Client[r])
      BY <3>1, Zenon DEF Shred
    <3>3. r \in Requests /\ Client[r] = s /\ Raised(r)
      BY <2>3, <3>2 DEF DeleteKey, RunsInv, RunInv
    <3> QED
      BY <3>3 DEF RequestsOf, Raised
  <2> QED
    BY <2>2, <2>3
<1> QED
  BY <1>1, RunsInvariance, PTL DEF Spec, ErasureIsTargeted

-----------------------------------------------------------------------------
(* What a run will say of its snapshot.  Each request taken on is still to *)
(* be erased, being erased, or a result; whoever is late is flagged before *)
(* they can become a result, and stays flagged to the end; and a result    *)
(* the re-count is through with is flagged, or nothing that was there when *)
(* the re-count began is left of it.                                       *)

Clean(p, r) == \A t \in Erasable : <<Client[r], t>> \notin present[p]

SnapshotInv(p) ==
  /\ pc[p] \in {"look", "list"} => done[p] = {} /\ taken[p] = {}
  /\ pc[p] = "shred" => taken[p] \subseteq todo[p] \cup done[p]
  /\ pc[p] \in {"audit", "delete"} => taken[p] \subseteq todo[p] \cup done[p] \cup {cur[p]}
  /\ pc[p] \in {"check", "count"} => taken[p] \subseteq done[p]
  /\ exit[p] = "ok" => pc[p] = "idle" /\ taken[p] \subseteq done[p]

DeadlineInv(p) ==
  /\ \A r \in done[p] : status[r] = "completed"
  /\ pc[p] \in {"shred", "audit", "delete", "check", "count"} =>
       \A r \in done[p] : IsOverdue(r, now[p]) => r \in flagged[p]
  /\ pc[p] \in {"audit", "delete"} => (IsOverdue(cur[p], now[p]) => cur[p] \in flagged[p])
  /\ exit[p] = "ok" => \A r \in done[p] : ~IsOverdue(r, now[p])

CountInv(p) ==
  /\ pc[p] = "check" => \A r \in done[p] : r \in todo[p] \cup flagged[p] \/ Clean(p, r)
  /\ pc[p] = "count" =>
       /\ \A r \in done[p] : r \in todo[p] \cup flagged[p] \cup {cur[p]} \/ Clean(p, r)
       /\ \/ cur[p] \in flagged[p]
          \/ \A i \in Positions :
               (i < pos[p] /\ IsSwept(i)) => <<Client[cur[p]], Inventory[i].table>> \notin present[p]
  /\ exit[p] = "ok" => \A r \in done[p] : Clean(p, r)

ExitInv(p) == SnapshotInv(p) /\ DeadlineInv(p) /\ CountInv(p)

(* Rows the re-count is to find are there until somebody deletes them.     *)
PresentInv == \A p \in Sweepers : \A s \in Subjects, t \in Erasable :
                <<s, t>> \in present[p] => s \in rows[t]

LEMMA ErasableAreTables == Erasable \subseteq Tables
BY DEF Erasable, Tables

LEMMA PresentStep ==
  ASSUME TypeInv, PresentInv, [Next]_vars
  PROVE  PresentInv'
<1> USE ErasableAreTables DEF TypeInv, TypeOK, queueVars, runVars, historyVars
<1>1. ASSUME UNCHANGED present, \A t \in Tables : rows[t] \subseteq rows'[t] PROVE PresentInv'
  BY <1>1 DEF PresentInv
<1>2. CASE Environment
  <2>1. UNCHANGED present
    BY <1>2 DEF Environment, Raise, Ingest, CreateKey, Build, Tick
  <2>2. \A t \in Tables : rows[t] \subseteq rows'[t]
    <3>1. UNCHANGED rows \/ \E t \in Tables, s \in Subjects : Ingest(t, s)
      BY <1>2 DEF Environment, Raise, CreateKey, Build, Tick
    <3> QED BY <3>1 DEF Ingest
  <2> QED BY <1>1, <2>1, <2>2
<1>3. ASSUME NEW p \in Sweepers, Start(p) \/ Step(p) \/ Crash(p) PROVE PresentInv'
  <2>1. CASE Start(p)
    <3>1. present' = [present EXCEPT ![p] = {}] /\ UNCHANGED rows
      BY <2>1 DEF Start
    <3> QED BY <3>1 DEF PresentInv
  <2>2. CASE StartCheck(p)
    <3>1. /\ present' = [present EXCEPT ![p] = {e \in Subjects \X Erasable : e[1] \in rows[e[2]]}]
          /\ UNCHANGED rows
      BY <2>2 DEF StartCheck
    <3>2. \A s \in Subjects, t \in Erasable :
            <<s, t>> \in {e \in Subjects \X Erasable : e[1] \in rows[e[2]]} => s \in rows[t]
      OBVIOUS
    <3> QED BY <3>1, <3>2 DEF PresentInv
  <2>3. CASE Delete(p)
    <3>1. CASE IsSwept(pos[p])
      <4>1. DeleteRows(Inventory[pos[p]].table, Client[cur[p]])
        BY <2>3, <3>1, Zenon DEF Delete
      <4>2. ASSUME NEW q \in Sweepers, NEW s \in Subjects, NEW t \in Erasable, <<s, t>> \in present'[q]
            PROVE  s \in rows'[t]
        <5>1. <<s, t>> \in present[q] /\ <<s, t>> # <<Client[cur[p]], Inventory[pos[p]].table>>
          BY <4>1, <4>2 DEF DeleteRows
        <5>2. s \in rows[t]
          BY <5>1 DEF PresentInv
        <5>3. rows' = [rows EXCEPT ![Inventory[pos[p]].table] = @ \ {Client[cur[p]]}]
          BY <4>1 DEF DeleteRows
        <5>4. t # Inventory[pos[p]].table \/ s # Client[cur[p]]
          BY <5>1
        <5> QED BY <5>2, <5>3, <5>4
      <4> QED BY <4>2 DEF PresentInv
    <3>2. CASE ~IsSwept(pos[p])
      <4>1. UNCHANGED <<rows, held, present>>
        BY <2>3, <3>2, Zenon DEF Delete
      <4> QED BY <1>1, <4>1
    <3> QED BY <3>1, <3>2
  <2>4. CASE ~(Start(p) \/ StartCheck(p) \/ Delete(p))
    <3>1. UNCHANGED <<rows, present>>
      BY <1>3, <2>4 DEF Step, Crash, Look, ListPending, Shred, Audit, MarkComplete, CheckNext, Count,
                        EndCount, Return, Abort
    <3> QED BY <1>1, <3>1
  <2> QED BY <2>1, <2>2, <2>3, <2>4
<1>4. CASE UNCHANGED vars
  BY <1>1, <1>4 DEF vars
<1> QED
  BY <1>2, <1>3, <1>4 DEF Next

LEMMA CompletedStays ==
  ASSUME TypeInv, [Next]_vars, NEW r \in Requests, status[r] = "completed"
  PROVE  status'[r] = "completed"
<1> USE DEF TypeInv, TypeOK
<1>1. ASSUME NEW q \in Requests, Raise(q) PROVE status'[r] = "completed"
  BY <1>1 DEF Raise
<1>2. ASSUME NEW p \in Sweepers, Shred(p) \/ Delete(p) \/ MarkComplete(p)
      PROVE  status'[r] = "completed"
  BY <1>2 DEF Shred, Delete, MarkComplete, CompleteRequests
<1> QED BY <1>1, <1>2, StepKinds

LEMMA ExitInvOther ==
  ASSUME TypeInv, NEW p \in Sweepers, ExitInv(p), [Next]_vars,
         ~(Start(p) \/ Step(p) \/ Crash(p))
  PROVE  ExitInv(p)'
<1> USE DEF TypeInv, TypeOK, queueVars, runVars, historyVars, Goto
<1>1. /\ UNCHANGED <<pc[p], todo[p], cur[p], pos[p], now[p], done[p], flagged[p], exit[p], taken[p]>>
      /\ present'[p] \subseteq present[p]
  <2>1. CASE Environment
    BY <2>1 DEF Environment, Raise, Ingest, CreateKey, Build, Tick
  <2>2. ASSUME NEW q \in Sweepers, q # p, Start(q) \/ Step(q) \/ Crash(q)
        PROVE  /\ UNCHANGED <<pc[p], todo[p], cur[p], pos[p], now[p], done[p], flagged[p], exit[p],
                              taken[p]>>
               /\ present'[p] \subseteq present[p]
    <3>1. CASE Delete(q)
      <4>1. present'[p] \subseteq present[p]
        <5>1. CASE IsSwept(pos[q])
          <6>1. DeleteRows(Inventory[pos[q]].table, Client[cur[q]])
            BY <3>1, <5>1, Zenon DEF Delete
          <6> QED BY <6>1 DEF DeleteRows
        <5>2. CASE ~IsSwept(pos[q])
          <6>1. UNCHANGED <<rows, held, present>>
            BY <3>1, <5>2, Zenon DEF Delete
          <6> QED BY <6>1
        <5> QED BY <5>1, <5>2
      <4> QED BY <2>2, <3>1, <4>1 DEF Delete
    <3>2. CASE ~Delete(q)
      BY <2>2, <3>2 DEF Start, Look, ListPending, Shred, Audit, MarkComplete, StartCheck, CheckNext,
                  Count, EndCount, Return, Abort, Crash, Finish, Step
    <3> QED BY <3>1, <3>2
  <2>3. CASE UNCHANGED vars
    BY <2>3 DEF vars
  <2> QED
    BY <2>1, <2>2, <2>3 DEF Next
<1>2. \A r \in done[p] : status'[r] = "completed"
  BY CompletedStays DEF ExitInv, DeadlineInv
<1>3. SnapshotInv(p)'
  BY <1>1 DEF ExitInv, SnapshotInv
<1>4. DeadlineInv(p)'
  BY <1>1, <1>2 DEF ExitInv, DeadlineInv, IsOverdue
<1>5. CountInv(p)'
  <2>1. \A r \in done[p] : Clean(p, r) => Clean(p, r)'
    BY <1>1 DEF Clean
  <2> QED BY <1>1, <2>1 DEF ExitInv, CountInv
<1> QED
  BY <1>3, <1>4, <1>5 DEF ExitInv

LEMMA SnapshotOwn ==
  ASSUME TypeInv, NEW p \in Sweepers, SnapshotInv(p), Start(p) \/ Step(p) \/ Crash(p)
  PROVE  SnapshotInv(p)'
<1> USE DEF TypeInv, TypeOK, queueVars, runVars, historyVars, Goto, SnapshotInv
<1>1. CASE Start(p)
  BY <1>1 DEF Start
<1>2. CASE Look(p)
  BY <1>2 DEF Look, Finish
<1>3. CASE ListPending(p)
  <2>1. /\ pc[p] = "list" /\ pc'[p] = "shred" /\ UNCHANGED exit
        /\ todo'[p] = Pending /\ taken'[p] = Pending
    BY <1>3 DEF ListPending
  <2> QED BY <2>1
<1>4. CASE Shred(p)
  <2>1. PICK r \in todo[p] : /\ cur' = [cur EXCEPT ![p] = r]
                             /\ todo' = [todo EXCEPT ![p] = @ \ {r}]
    BY <1>4, Zenon DEF Shred
  <2>2. /\ pc[p] = "shred" /\ pc'[p] = "audit" /\ UNCHANGED <<done, taken, exit>>
    BY <1>4 DEF Shred
  <2>3. cur'[p] = r /\ todo'[p] = todo[p] \ {r}
    BY <2>1
  <2> QED BY <2>2, <2>3
<1>5. CASE Audit(p) \/ Delete(p)
  <2>1. /\ pc[p] \in {"audit", "delete"} /\ pc'[p] = "delete"
        /\ UNCHANGED <<todo, cur, done, taken, exit>>
    BY <1>5 DEF Audit, Delete
  <2> QED BY <2>1
<1>6. CASE MarkComplete(p)
  <2>1. /\ pc[p] = "delete" /\ pc'[p] = "shred" /\ UNCHANGED <<todo, taken, exit>>
        /\ done'[p] = done[p] \cup {cur[p]}
    BY <1>6 DEF MarkComplete
  <2> QED BY <2>1
<1>7. CASE StartCheck(p)
  <2>1. /\ pc[p] = "shred" /\ todo[p] = {} /\ pc'[p] = "check" /\ UNCHANGED <<done, taken, exit>>
    BY <1>7 DEF StartCheck
  <2> QED BY <2>1
<1>8. CASE CheckNext(p) \/ Count(p) \/ EndCount(p)
  <2>1. /\ pc[p] \in {"check", "count"} /\ pc'[p] \in {"check", "count"}
        /\ UNCHANGED <<done, taken, exit>>
    BY <1>8 DEF CheckNext, Count, EndCount
  <2> QED BY <2>1
<1>9. CASE Return(p)
  <2>1. /\ pc[p] = "check" /\ pc'[p] = "idle" /\ UNCHANGED <<done, taken>>
    BY <1>9 DEF Return, Finish
  <2> QED BY <2>1
<1>10. CASE Abort(p) \/ Crash(p)
  <2>1. pc'[p] = "idle" /\ exit'[p] = "failed"
    BY <1>10 DEF Abort, Crash, Finish
  <2> QED BY <2>1
<1> QED
  BY <1>1, <1>2, <1>3, <1>4, <1>5, <1>6, <1>7, <1>8, <1>9, <1>10 DEF Step

LEMMA DeadlineOwn ==
  ASSUME TypeInv, NEW p \in Sweepers, RunInv(p), SnapshotInv(p), DeadlineInv(p),
         Start(p) \/ Step(p) \/ Crash(p)
  PROVE  DeadlineInv(p)'
<1> USE DEF TypeInv, TypeOK, CurIsRequest, queueVars, runVars, historyVars, Goto
<1>1. CASE Start(p)
  BY <1>1 DEF Start, DeadlineInv
<1>2. CASE Look(p)
  <2>1. /\ pc[p] = "look" /\ UNCHANGED <<status, now, done, flagged>>
        /\ \/ pc'[p] = "idle"
           \/ pc'[p] = "list" /\ exit'[p] = exit[p]
    BY <1>2 DEF Look, Finish
  <2> QED BY <2>1 DEF DeadlineInv, SnapshotInv
<1>3. CASE ListPending(p)
  BY <1>3 DEF ListPending, DeadlineInv, SnapshotInv
<1>4. CASE Shred(p)
  <2>1. PICK r \in todo[p] :
          /\ cur' = [cur EXCEPT ![p] = r]
          /\ flagged' = IF IsOverdue(r, now[p])
                        THEN [flagged EXCEPT ![p] = @ \cup {r}] ELSE flagged
    BY <1>4, Zenon DEF Shred
  <2>2. /\ pc[p] = "shred" /\ pc'[p] = "audit" /\ UNCHANGED <<status, now, done, exit>>
    BY <1>4 DEF Shred
  <2>3. /\ cur'[p] = r /\ flagged[p] \subseteq flagged'[p]
        /\ IsOverdue(r, now[p]) => r \in flagged'[p]
    BY <2>1
  <2> QED BY <2>2, <2>3 DEF DeadlineInv, IsOverdue
<1>5. CASE Audit(p) \/ Delete(p)
  <2>1. /\ pc[p] \in {"audit", "delete"} /\ pc'[p] = "delete"
        /\ UNCHANGED <<status, cur, now, done, flagged, exit>>
    BY <1>5 DEF Audit, Delete
  <2> QED BY <2>1 DEF DeadlineInv, IsOverdue
<1>6. CASE MarkComplete(p)
  <2>1. /\ pc[p] = "delete" /\ pc'[p] = "shred" /\ UNCHANGED <<now, flagged, exit>>
        /\ done'[p] = done[p] \cup {cur[p]} /\ CompleteRequests(Client[cur[p]])
    BY <1>6 DEF MarkComplete
  <2>2. cur[p] \in Requests /\ Raised(cur[p])
    BY <2>1 DEF RunInv
  <2>3. status'[cur[p]] = "completed"
    BY <2>1, <2>2 DEF CompleteRequests, Raised
  <2>4. \A r \in done[p] : status'[r] = "completed"
    BY <2>1 DEF CompleteRequests, DeadlineInv
  <2>5. exit[p] # "ok"
    BY <2>1 DEF SnapshotInv
  <2> QED BY <2>1, <2>3, <2>4, <2>5 DEF DeadlineInv, IsOverdue
<1>7. CASE StartCheck(p) \/ CheckNext(p) \/ EndCount(p)
  <2>1. /\ pc[p] \in {"shred", "check", "count"} /\ pc'[p] \in {"check", "count"}
        /\ UNCHANGED <<status, now, done, flagged, exit>>
    BY <1>7 DEF StartCheck, CheckNext, EndCount
  <2> QED BY <2>1 DEF DeadlineInv, IsOverdue
<1>8. CASE Count(p)
  <2>1. /\ pc[p] = "count" /\ pc'[p] = "count" /\ flagged[p] \subseteq flagged'[p]
        /\ UNCHANGED <<status, now, done, exit>>
    BY <1>8 DEF Count
  <2> QED BY <2>1 DEF DeadlineInv, IsOverdue
<1>9. CASE Return(p)
  <2>1. /\ pc[p] = "check" /\ pc'[p] = "idle"
        /\ exit'[p] = "ok" => flagged[p] = {}
        /\ UNCHANGED <<status, now, done, flagged>>
    BY <1>9 DEF Return, Finish
  <2> QED BY <2>1 DEF DeadlineInv, IsOverdue
<1>10. CASE Abort(p) \/ Crash(p)
  <2>1. /\ pc'[p] = "idle" /\ exit'[p] = "failed"
        /\ UNCHANGED <<status, now, done, flagged>>
    BY <1>10 DEF Abort, Crash, Finish
  <2> QED BY <2>1 DEF DeadlineInv
<1> QED
  BY <1>1, <1>2, <1>3, <1>4, <1>5, <1>6, <1>7, <1>8, <1>9, <1>10 DEF Step

LEMMA CountOwn ==
  ASSUME TypeInv, PresentInv, NEW p \in Sweepers, SnapshotInv(p), CountInv(p),
         Start(p) \/ Step(p) \/ Crash(p)
  PROVE  CountInv(p)'
<1> USE SweepAssumption, InventoryLength
        DEF TypeInv, TypeOK, CurIsRequest, queueVars, runVars, historyVars, Goto
<1>1. CASE \/ Start(p) \/ ListPending(p) \/ Shred(p) \/ Audit(p) \/ Delete(p) \/ MarkComplete(p)
           \/ Abort(p) \/ Crash(p)
  <2>1. pc'[p] \notin {"check", "count"}
    BY <1>1 DEF Start, ListPending, Shred, Audit, Delete, MarkComplete, Abort, Crash, Finish
  <2>2. exit'[p] # "ok"
    <3>1. CASE Start(p) \/ Abort(p) \/ Crash(p)
      BY <3>1 DEF Start, Abort, Crash, Finish
    <3>2. CASE ~(Start(p) \/ Abort(p) \/ Crash(p))
      <4>1. pc[p] # "idle" /\ UNCHANGED exit
        BY <1>1, <3>2 DEF ListPending, Shred, Audit, Delete, MarkComplete
      <4> QED BY <4>1 DEF SnapshotInv
    <3> QED BY <3>1, <3>2
  <2> QED BY <2>1, <2>2 DEF CountInv
<1>2. CASE Look(p)
  <2>1. pc'[p] \notin {"check", "count"} /\ done'[p] = {}
    BY <1>2 DEF Look, Finish, SnapshotInv
  <2> QED BY <2>1 DEF CountInv
<1>3. CASE StartCheck(p)
  <2>1. pc[p] = "shred" /\ pc'[p] = "check" /\ todo'[p] = done[p] /\ UNCHANGED <<done, exit>>
    BY <1>3 DEF StartCheck
  <2> QED BY <2>1 DEF CountInv, SnapshotInv
<1>4. CASE CheckNext(p)
  <2>1. PICK r \in todo[p] : /\ cur' = [cur EXCEPT ![p] = r]
                             /\ todo' = [todo EXCEPT ![p] = @ \ {r}]
    BY <1>4, Zenon DEF CheckNext
  <2>2. /\ pc[p] = "check" /\ pc'[p] = "count" /\ pos'[p] = 1
        /\ UNCHANGED <<done, flagged, exit, present>>
    BY <1>4 DEF CheckNext
  <2>3. cur'[p] = r /\ todo'[p] = todo[p] \ {r}
    BY <2>1
  <2>4. \A i \in Positions : ~(i < pos'[p])
    BY <2>2 DEF Positions
  <2>5. \A q \in done[p] : Clean(p, q)' <=> Clean(p, q)
    BY <2>2 DEF Clean
  <2> QED BY <2>2, <2>3, <2>4, <2>5 DEF CountInv, SnapshotInv
<1>5. CASE Count(p)
  <2>1. /\ pc[p] = "count" /\ pos[p] \in Positions /\ pos'[p] = pos[p] + 1
        /\ UNCHANGED <<pc, rows, todo, cur, done, exit, present>>
    BY <1>5 DEF Count
  <2>2. flagged[p] \subseteq flagged'[p] /\ (RowsRemain(p) => cur[p] \in flagged'[p])
    <3>1. flagged' = IF RowsRemain(p) THEN [flagged EXCEPT ![p] = @ \cup {cur[p]}] ELSE flagged
      BY <1>5 DEF Count
    <3>2. CASE RowsRemain(p)
      BY <3>1, <3>2
    <3>3. CASE ~RowsRemain(p)
      BY <3>1, <3>3
    <3> QED BY <3>2, <3>3
  <2>3. \A q \in done[p] : Clean(p, q)' <=> Clean(p, q)
    BY <2>1 DEF Clean
  <2>4. CASE cur[p] \in flagged'[p]
    BY <2>1, <2>2, <2>3, <2>4 DEF CountInv, SnapshotInv
  <2>5. CASE cur[p] \notin flagged'[p]
    <3>1. ~RowsRemain(p) /\ cur[p] \in Requests /\ cur[p] \notin flagged[p]
      BY <2>1, <2>2, <2>5
    <3>2. ASSUME NEW i \in Positions, i < pos'[p], IsSwept(i)
          PROVE  <<Client[cur[p]], Inventory[i].table>> \notin present[p]
      <4>1. CASE i = pos[p]
        <5>1. Inventory[i].table \in Erasable /\ Client[cur[p]] \in Subjects
          BY <3>1, <3>2 DEF Erasable
        <5>2. Client[cur[p]] \notin rows[Inventory[i].table]
          BY <3>1, <3>2, <4>1 DEF RowsRemain
        <5> QED BY <5>1, <5>2 DEF PresentInv
      <4>2. CASE i < pos[p]
        BY <2>1, <3>1, <3>2, <4>2 DEF CountInv
      <4> QED BY <2>1, <3>2, <4>1, <4>2 DEF Positions
    <3> QED BY <2>1, <2>2, <2>3, <3>2 DEF CountInv, SnapshotInv
  <2> QED BY <2>4, <2>5
<1>6. CASE EndCount(p)
  <2>1. /\ pc[p] = "count" /\ pc'[p] = "check" /\ pos[p] = Len(Inventory) + 1
        /\ UNCHANGED <<todo, cur, done, flagged, exit, present>>
    BY <1>6 DEF EndCount, AtEnd
  <2>2. \A q \in done[p] : Clean(p, q)' <=> Clean(p, q)
    BY <2>1 DEF Clean
  <2>3. cur[p] \in flagged[p] \/ Clean(p, cur[p])
    <3> SUFFICES ASSUME cur[p] \notin flagged[p], NEW t \in Erasable
                 PROVE  <<Client[cur[p]], t>> \notin present[p]
      BY DEF Clean
    <3>1. PICK i \in Positions : IsSwept(i) /\ t = Inventory[i].table
      BY Zenon DEF Erasable
    <3>2. i < pos[p]
      BY <2>1, <3>1 DEF Positions
    <3> QED BY <2>1, <3>1, <3>2 DEF CountInv
  <2> QED BY <2>1, <2>2, <2>3 DEF CountInv, SnapshotInv
<1>7. CASE Return(p)
  <2>1. /\ pc[p] = "check" /\ pc'[p] = "idle" /\ todo[p] = {}
        /\ exit'[p] = "ok" => flagged[p] = {}
        /\ UNCHANGED <<done, present>>
    BY <1>7 DEF Return, Finish
  <2>2. \A q \in done[p] : Clean(p, q)' <=> Clean(p, q)
    BY <2>1 DEF Clean
  <2> QED BY <2>1, <2>2 DEF CountInv
<1> QED
  BY <1>1, <1>2, <1>3, <1>4, <1>5, <1>6, <1>7 DEF Step

(* Exit code 0 speaks for the whole snapshot: each request taken on is     *)
(* completed, in time by the run's own clock, and whatever rows were there *)
(* when the re-count began are deleted; for any number of overlapping,     *)
(* crashing runs, and also when a subject asked twice (privacy/cli.py,     *)
(* sweep; privacy/erasure.py, ErasureService.sweep and verify).            *)
THEOREM QuietExitIsEarned == Spec => []QuietExit
<1> DEFINE ExitsInv == \A p \in Sweepers : ExitInv(p)
<1>1. Init => PresentInv /\ ExitsInv
  BY DEF Init, PresentInv, ExitInv, SnapshotInv, DeadlineInv, CountInv
<1>2. TypeInv /\ RunsInv /\ PresentInv /\ ExitsInv /\ [Next]_vars => (PresentInv /\ ExitsInv)'
  <2> SUFFICES ASSUME TypeInv, RunsInv, PresentInv, ExitsInv, [Next]_vars
               PROVE  PresentInv' /\ ExitsInv'
    OBVIOUS
  <2>1. ASSUME NEW p \in Sweepers PROVE ExitInv(p)'
    <3>1. RunInv(p) /\ ExitInv(p)
      BY DEF RunsInv
    <3>2. CASE Start(p) \/ Step(p) \/ Crash(p)
      BY <3>1, <3>2, SnapshotOwn, DeadlineOwn, CountOwn DEF ExitInv
    <3>3. CASE ~(Start(p) \/ Step(p) \/ Crash(p))
      BY <3>1, <3>3, ExitInvOther
    <3> QED BY <3>2, <3>3
  <2> QED BY <2>1, PresentStep
<1>3. TypeInv /\ ExitsInv => QuietExit
  <2> SUFFICES ASSUME TypeInv, ExitsInv, NEW p \in Sweepers, exit[p] = "ok", NEW r \in taken[p]
               PROVE  /\ status[r] = "completed"
                      /\ now[p] < RequestedAt[r] + DeadlineDays
                      /\ \A t \in Erasable : <<Client[r], t>> \notin present[p]
    BY DEF QuietExit
  <2>1. r \in done[p]
    BY DEF ExitInv, SnapshotInv
  <2>2. status[r] = "completed" /\ ~IsOverdue(r, now[p])
    BY <2>1 DEF ExitInv, DeadlineInv
  <2>3. now[p] \in Nat /\ RequestedAt[r] + DeadlineDays \in Nat
    BY SweepAssumption DEF TypeInv, TypeOK
  <2>4. Clean(p, r)
    BY <2>1 DEF ExitInv, CountInv
  <2> QED BY <2>2, <2>3, <2>4 DEF IsOverdue, Clean
<1> QED
  BY <1>1, <1>2, <1>3, RunsInvariance, PTL DEF Spec

(* The sweep implements the promise: every statement of every run is a     *)
(* step of ErasurePromise about one request, or no step of it at all.      *)
THEOREM SweepKeepsPromise == OneRequestPerSubject => (Spec => PromiseKept)
<1> SUFFICES ASSUME OneRequestPerSubject PROVE Spec => PromiseKept
  OBVIOUS
<1>1. Init => Promise!Init
  BY DEF Init, Promise!Init
<1>2. ASSUME TypeInv, SweepInv, [Next]_vars
      PROVE  [Promise!Next]_Promise!vars
  <2> USE <1>2, SweepAssumption DEF TypeInv, TypeOK
  <2>1. CASE UNCHANGED <<status, readable, held>>
    BY <2>1 DEF Promise!vars
  <2>2. ASSUME NEW r \in Requests, Raise(r) PROVE Promise!Raise(r)
    <3>1. status[r] = "absent" /\ status' = [status EXCEPT ![r] = "pending"]
      BY <2>2 DEF Raise
    <3>2. \E K \in SUBSET {r} : readable' = readable \cup K
      <4>1. readable' = readable \cup {q \in {r} : Client[q] \in keys}
        BY <2>2 DEF Raise
      <4> QED
        BY <4>1
    <3>3. \E T \in SUBSET Erasable : held' = [held EXCEPT ![r] = T]
      <4>1. held' = [held EXCEPT ![r] = {t \in Erasable : Client[r] \in rows[t]}]
        BY <2>2 DEF Raise
      <4> QED
        BY <4>1
    <3> QED
      BY <3>1, <3>2, <3>3 DEF Promise!Raise
  <2>3. ASSUME NEW p \in Sweepers, Shred(p) PROVE \E r \in Requests : Promise!Shred(r)
    <3>1. PICK r \in todo[p] : DeleteKey(Client[r])
      BY <2>3, Zenon DEF Shred
    <3>2. UNCHANGED <<status, held>>
      BY <2>3 DEF Shred
    <3>3. r \in Requests /\ status[r] # "absent"
      BY DEF SweepInv, RunInv, Raised
    <3>4. RequestsOf(Client[r]) = {r}
      BY <3>3 DEF RequestsOf, OneRequestPerSubject
    <3> QED
      BY <3>1, <3>2, <3>3, <3>4 DEF DeleteKey, Promise!Shred
  <2>4. ASSUME NEW p \in Sweepers, Delete(p)
        PROVE  \/ UNCHANGED <<status, readable, held>>
               \/ \E r \in Requests, t \in Erasable : Promise!Purge(r, t)
    <3>1. /\ pc[p] = "delete" /\ pos[p] \in Positions /\ cur[p] \in Requests
          /\ UNCHANGED <<status, readable>>
      BY <2>4 DEF Delete, CurIsRequest
    <3>2. CASE ~IsSwept(pos[p])
      <4>1. UNCHANGED <<rows, held, present>>
        BY <2>4, <3>2, Zenon DEF Delete
      <4> QED
        BY <3>1, <4>1
    <3>3. CASE IsSwept(pos[p])
      <4> DEFINE r == cur[p]
                 t == Inventory[pos[p]].table
      <4>1. DeleteRows(t, Client[r])
        BY <2>4, <3>3, Zenon DEF Delete
      <4>2. t \in Erasable
        BY <3>1, <3>3 DEF Erasable
      <4>3. status[r] # "absent" /\ r \notin readable
        BY <3>1 DEF SweepInv, RunInv, Raised
      <4>4. \A q \in Requests : Client[q] = Client[r] <=> q = r
        BY <3>1 DEF OneRequestPerSubject
      <4>5. held' = [held EXCEPT ![r] = @ \ {t}]
        BY <4>1, <4>4 DEF DeleteRows
      <4> QED
        BY <3>1, <4>2, <4>3, <4>5 DEF Promise!Purge
    <3> QED
      BY <3>2, <3>3
  <2>5. ASSUME NEW p \in Sweepers, MarkComplete(p)
        PROVE  UNCHANGED <<status, readable, held>> \/ \E r \in Requests : Promise!Complete(r)
    <3> DEFINE r == cur[p]
    <3>1. /\ pc[p] = "delete" /\ pos[p] = Len(Inventory) + 1 /\ r \in Requests
          /\ CompleteRequests(Client[r]) /\ UNCHANGED <<readable, held>>
      BY <2>5 DEF MarkComplete, AtEnd, CurIsRequest, historyVars
    <3>2. \A q \in Requests : Client[q] = Client[r] <=> q = r
      BY <3>1 DEF OneRequestPerSubject
    <3>3. CASE status[r] = "pending"
      <4>1. status' = [status EXCEPT ![r] = "completed"]
        BY <3>1, <3>2, <3>3 DEF CompleteRequests
      <4>2. CompletedMeansGone'
        BY CompletedStep
      <4>3. held'[r] = {} /\ r \notin readable'
        BY <3>1, <4>1, <4>2 DEF CompletedMeansGone
      <4> QED
        BY <3>1, <3>3, <4>1, <4>3 DEF Promise!Complete
    <3>4. CASE status[r] # "pending"
      <4>1. status' = status
        BY <3>1, <3>2, <3>4 DEF CompleteRequests
      <4> QED
        BY <3>1, <4>1
    <3> QED
      BY <3>3, <3>4
  <2> QED
    BY <2>1, <2>2, <2>3, <2>4, <2>5, StepKinds DEF Promise!Next, Promise!vars
<1> QED
  BY <1>1, <1>2, SweepInvariance, PTL DEF Spec, PromiseKept, Promise!Spec
=============================================================================
