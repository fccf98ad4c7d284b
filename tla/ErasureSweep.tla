---------------------------- MODULE ErasureSweep ----------------------------
(***************************************************************************)
(* The erasure sweep: `python -m privacy.cli sweep` and the ErasureService *)
(* it drives (privacy/erasure.py, privacy/cli.py, privacy/vault.py).       *)
(*                                                                         *)
(* One step is one statement sent to the vault or the warehouse: each      *)
(* commits by itself, so a run can die, or another run, an ingest or a new *)
(* request can get in, between any two.  Several runs may overlap (the     *)
(* scheduled one and an operator's).                                       *)
(***************************************************************************)
EXTENDS Naturals, Sequences

CONSTANTS
  Requests,       \* rows that may appear in raw.erasure_requests
  Subjects,       \* client ids
  Client,         \* Requests -> Subjects: the client_id column
  RequestedAt,    \* Requests -> Nat: the requested_at column, in days
  Inventory,      \* erasure_targets.yaml: a sequence of targets
  MissingRaises,  \* DML on a missing table fails (BigQuery) or is skipped (DuckDB)
  BuiltAtStart,   \* tables that exist in the first state
  Sweepers,       \* runs that may overlap
  NoRequest,      \* "no current request"
  DeadlineDays,   \* 30 in the code
  MaxDay,         \* bound on the clock
  MaxCrashes      \* bound on the number of processes killed

Target == [table : STRING, action : {"delete", "retain", "none"},
           engine : {"warehouse", "iceberg"}]

Positions == 1 .. Len(Inventory)

Tables == {Inventory[i].table : i \in Positions}

(* Faulty: the action of the target is not looked at. *)
IsInWarehouse(i) == Inventory[i].engine = "warehouse"

(* The loops of `erase` and `verify` run over the warehouse targets and    *)
(* `continue` past everything that is not to be deleted.                   *)
IsSwept(i) == Inventory[i].engine = "warehouse" /\ Inventory[i].action = "delete"

Erasable == {Inventory[i].table : i \in {j \in Positions : IsSwept(j)}}

ASSUME SweepAssumption ==
  /\ Inventory \in Seq(Target)
  /\ \A i, j \in Positions : Inventory[i].table = Inventory[j].table => i = j
  /\ Client \in [Requests -> Subjects]
  /\ RequestedAt \in [Requests -> Nat]
  /\ BuiltAtStart \subseteq Tables
  /\ NoRequest \notin Requests
  /\ MissingRaises \in BOOLEAN
  /\ DeadlineDays \in Nat /\ MaxDay \in Nat /\ MaxCrashes \in Nat

(* One open request per subject.  Not assumed: the queue has no such       *)
(* constraint, so the runs and theorems that need it say so.               *)
OneRequestPerSubject == \A q, r \in Requests : Client[q] = Client[r] => q = r

VARIABLES
  status,    \* the queue: request -> absent, pending (completed_at null), completed
  built,     \* tables that exist
  rows,      \* table -> subjects with at least one row in it
  keys,      \* subject_keys: subjects whose data key exists
  audit,     \* erasure_audit: <<subject, key_existed>>
  day,
  pc,        \* run -> the statement it executes next
  todo,      \* run -> requests of its snapshot (or results) not yet handled
  cur,       \* run -> the request being erased or re-counted
  pos,       \* run -> position in the inventory
  now,       \* run -> the day it took its snapshot
  existed,   \* run -> whether its destroy_key found a key
  done,      \* run -> results
  flagged,   \* run -> requests it will report: overdue, or rows remain
  exit,      \* run -> outcome of its last execution
  crashes,
  readable,  \* history: requests whose subject's key of that time still exists
  held,      \* history: erasable tables with rows from before the request
  taken,     \* history: run -> the requests of its snapshot
  present    \* history: run -> <<subject, table>> with rows when its re-count
             \* began, and not deleted since

queueVars == <<status, built, rows, keys, audit, day>>
runVars == <<pc, todo, cur, pos, now, existed, done, flagged, exit>>
historyVars == <<readable, held, taken, present>>
vars == <<queueVars, runVars, crashes, historyVars>>

Phase == {"idle", "look", "list", "shred", "audit", "delete", "check", "count"}

TypeOK ==
  /\ status \in [Requests -> {"absent", "pending", "completed"}]
  /\ built \subseteq Tables
  /\ rows \in [Tables -> SUBSET Subjects]
  /\ keys \subseteq Subjects
  /\ audit \subseteq Subjects \X BOOLEAN
  /\ day \in 0 .. MaxDay
  /\ pc \in [Sweepers -> Phase]
  /\ todo \in [Sweepers -> SUBSET Requests]
  /\ cur \in [Sweepers -> Requests \cup {NoRequest}]
  /\ pos \in [Sweepers -> 1 .. Len(Inventory) + 1]
  /\ now \in [Sweepers -> 0 .. MaxDay]
  /\ existed \in [Sweepers -> BOOLEAN]
  /\ done \in [Sweepers -> SUBSET Requests]
  /\ flagged \in [Sweepers -> SUBSET Requests]
  /\ exit \in [Sweepers -> {"none", "ok", "alert", "failed"}]
  /\ crashes \in 0 .. MaxCrashes
  /\ readable \subseteq Requests
  /\ held \in [Requests -> SUBSET Erasable]
  /\ taken \in [Sweepers -> SUBSET Requests]
  /\ present \in [Sweepers -> SUBSET (Subjects \X Erasable)]

Init ==
  /\ status = [r \in Requests |-> "absent"]
  /\ built = BuiltAtStart
  /\ rows = [t \in Tables |-> {}]
  /\ keys = {}
  /\ audit = {}
  /\ day = 0
  /\ pc = [p \in Sweepers |-> "idle"]
  /\ todo = [p \in Sweepers |-> {}]
  /\ cur = [p \in Sweepers |-> NoRequest]
  /\ pos = [p \in Sweepers |-> 1]
  /\ now = [p \in Sweepers |-> 0]
  /\ existed = [p \in Sweepers |-> FALSE]
  /\ done = [p \in Sweepers |-> {}]
  /\ flagged = [p \in Sweepers |-> {}]
  /\ exit = [p \in Sweepers |-> "none"]
  /\ crashes = 0
  /\ readable = {}
  /\ held = [r \in Requests |-> {}]
  /\ taken = [p \in Sweepers |-> {}]
  /\ present = [p \in Sweepers |-> {}]

-----------------------------------------------------------------------------
(* What the queries return. *)

(* Faulty: the query hands over client ids where the loop expects requests. *)
PendingClients == {Client[r] : r \in {q \in Requests : status[q] = "pending"}}

(* Faulty: a subject with an audit row counts as done. *)
PendingUnaudited ==
  {r \in Requests : status[r] = "pending" /\ \A b \in BOOLEAN : <<Client[r], b>> \notin audit}

Pending == {r \in Requests : status[r] = "pending"}

(* Faulty: the boundary day is not counted. *)
IsPastOverdue(r, d) == d > RequestedAt[r] + DeadlineDays

(* (now - requested_at).days >= deadline_days, for the `now` of the run *)
IsOverdue(r, d) == d >= RequestedAt[r] + DeadlineDays

(* order by requested_at *)
IsEarliest(r, R) == r \in R /\ \A q \in R : RequestedAt[r] <= RequestedAt[q]

RequestsOf(s) == {r \in Requests : Client[r] = s}

(* Faulty: the loop leaves out its last target. *)
AtLastTarget(p) == pos[p] = Len(Inventory)

AtEnd(p) == pos[p] = Len(Inventory) + 1

(* BigQuery refuses a query over a table that is not there. *)
QueryFails(p) ==
  /\ pos[p] \in Positions
  /\ IsSwept(pos[p])
  /\ Inventory[pos[p]].table \notin built
  /\ MissingRaises

(* Faulty: the re-count returns from inside its loop, after one target. *)
RowsRemainInFirst(p) == pos[p] = 1 /\ IsSwept(1) /\ Client[cur[p]] \in rows[Inventory[1].table]

(* count_rows of the target the re-count has reached finds something. *)
RowsRemain(p) == IsSwept(pos[p]) /\ Client[cur[p]] \in rows[Inventory[pos[p]].table]

-----------------------------------------------------------------------------
(* The world around the sweep. *)

(* A request row appears.  The history variables note what it is about. *)
Raise(r) ==
  /\ status[r] = "absent"
  /\ RequestedAt[r] <= day
  /\ status' = [status EXCEPT ![r] = "pending"]
  /\ readable' = readable \cup {q \in {r} : Client[q] \in keys}
  /\ held' = [held EXCEPT ![r] = {t \in Erasable : Client[r] \in rows[t]}]
  /\ UNCHANGED <<built, rows, keys, audit, day, runVars, crashes, taken, present>>

(* A sink, a dbt model or an operator writes rows of the subject. *)
Ingest(t, s) ==
  /\ t \in built
  /\ s \notin rows[t]
  /\ rows' = [rows EXCEPT ![t] = @ \cup {s}]
  /\ UNCHANGED <<status, built, keys, audit, day, runVars, crashes, historyVars>>

(* A producer calls create_key for a subject who has none. *)
CreateKey(s) ==
  /\ s \notin keys
  /\ keys' = keys \cup {s}
  /\ UNCHANGED <<status, built, rows, audit, day, runVars, crashes, historyVars>>

(* dbt or a sink creates a table of the inventory. *)
Build(t) ==
  /\ t \in Tables \ built
  /\ built' = built \cup {t}
  /\ UNCHANGED <<status, rows, keys, audit, day, runVars, crashes, historyVars>>

Tick ==
  /\ day < MaxDay
  /\ day' = day + 1
  /\ UNCHANGED <<status, built, rows, keys, audit, runVars, crashes, historyVars>>

-----------------------------------------------------------------------------
(* What the statements of a run do, each in one commit. *)

(* Faulty: the key is flagged as destroyed and stays where it is. *)
FlagKey(s) == UNCHANGED <<keys, readable>>

(* destroy_key, first statement: a real delete of the key row. *)
DeleteKey(s) ==
  /\ keys' = keys \ {s}
  /\ readable' = readable \ RequestsOf(s)

(* delete_rows: the rows of one subject in one table. *)
DeleteRows(t, s) ==
  /\ rows' = [rows EXCEPT ![t] = @ \ {s}]
  /\ held' = [r \in Requests |-> IF Client[r] = s THEN held[r] \ {t} ELSE held[r]]
  /\ present' = [p \in Sweepers |-> present[p] \ {<<s, t>>}]

(* mark_complete: every open request of the subject is closed. *)
CompleteRequests(s) ==
  status' = [r \in Requests |->
               IF Client[r] = s /\ status[r] = "pending" THEN "completed" ELSE status[r]]

-----------------------------------------------------------------------------
(* One run of the sweep. *)

Goto(p, phase) == pc' = [pc EXCEPT ![p] = phase]

(* The process ends, and its memory with it. *)
Finish(p, outcome) ==
  /\ Goto(p, "idle")
  /\ exit' = [exit EXCEPT ![p] = outcome]
  /\ todo' = [todo EXCEPT ![p] = {}]
  /\ cur' = [cur EXCEPT ![p] = NoRequest]
  /\ pos' = [pos EXCEPT ![p] = 1]
  /\ existed' = [existed EXCEPT ![p] = FALSE]

Start(p) ==
  /\ pc[p] = "idle"
  /\ Goto(p, "look")
  /\ exit' = [exit EXCEPT ![p] = "none"]
  /\ done' = [done EXCEPT ![p] = {}]
  /\ flagged' = [flagged EXCEPT ![p] = {}]
  /\ taken' = [taken EXCEPT ![p] = {}]
  /\ present' = [present EXCEPT ![p] = {}]
  /\ UNCHANGED <<queueVars, todo, cur, pos, now, existed, crashes, readable, held>>

(* cli.sweep looks at the queue only to see whether it is empty... *)
Look(p) ==
  /\ pc[p] = "look"
  /\ IF Pending = {}
     THEN Finish(p, "ok")
     ELSE Goto(p, "list") /\ UNCHANGED <<todo, cur, pos, existed, exit>>
  /\ UNCHANGED <<queueVars, now, done, flagged, crashes, historyVars>>

(* ...and ErasureService.sweep reads it again, for the list it works on.   *)
ListPending(p) ==
  /\ pc[p] = "list"
  /\ todo' = [todo EXCEPT ![p] = Pending]
  /\ now' = [now EXCEPT ![p] = day]
  /\ taken' = [taken EXCEPT ![p] = Pending]
  /\ Goto(p, "shred")
  /\ UNCHANGED <<queueVars, cur, pos, existed, done, flagged, exit, crashes, readable, held,
                 present>>

(* The next request of the snapshot, noted if it is overdue; then step 1   *)
(* of erase, whose first statement deletes the key row.                    *)
Shred(p) ==
  /\ pc[p] = "shred"
  /\ \E r \in todo[p] :
       /\ IsEarliest(r, todo[p])
       /\ cur' = [cur EXCEPT ![p] = r]
       /\ todo' = [todo EXCEPT ![p] = @ \ {r}]
       /\ flagged' = IF IsOverdue(r, now[p])
                     THEN [flagged EXCEPT ![p] = @ \cup {r}] ELSE flagged
       /\ existed' = [existed EXCEPT ![p] = Client[r] \in keys]
       /\ DeleteKey(Client[r])
  /\ Goto(p, "audit")
  /\ UNCHANGED <<status, built, rows, audit, day, pos, now, done, exit, crashes, held, taken,
                 present>>

(* destroy_key, second statement: the audit row. *)
Audit(p) ==
  /\ pc[p] = "audit"
  /\ audit' = audit \cup {<<Client[cur[p]], existed[p]>>}
  /\ pos' = [pos EXCEPT ![p] = 1]
  /\ Goto(p, "delete")
  /\ UNCHANGED <<status, built, rows, keys, day, todo, cur, now, existed, done, flagged,
                 exit, crashes, historyVars>>

(* erase, step 2: one target of the inventory. *)
Delete(p) ==
  /\ pc[p] = "delete"
  /\ pos[p] \in Positions
  /\ ~QueryFails(p)
  /\ IF IsSwept(pos[p])
     THEN DeleteRows(Inventory[pos[p]].table, Client[cur[p]])
     ELSE UNCHANGED <<rows, held, present>>
  /\ pos' = [pos EXCEPT ![p] = @ + 1]
  /\ UNCHANGED <<status, built, keys, audit, day, pc, todo, cur, now, existed, done, flagged,
                 exit, crashes, readable, taken>>

(* erase, last step: completed_at on every open request of the subject.    *)
MarkComplete(p) ==
  /\ pc[p] = "delete"
  /\ AtEnd(p)
  /\ CompleteRequests(Client[cur[p]])
  /\ done' = [done EXCEPT ![p] = @ \cup {cur[p]}]
  /\ Goto(p, "shred")
  /\ UNCHANGED <<built, rows, keys, audit, day, todo, cur, pos, now, existed, flagged, exit,
                 crashes, historyVars>>

(* The list is worked off: cli.sweep re-counts the rows of every result.   *)
StartCheck(p) ==
  /\ pc[p] = "shred"
  /\ todo[p] = {}
  /\ todo' = [todo EXCEPT ![p] = done[p]]
  /\ present' = [present EXCEPT ![p] = {e \in Subjects \X Erasable : e[1] \in rows[e[2]]}]
  /\ Goto(p, "check")
  /\ UNCHANGED <<queueVars, cur, pos, now, existed, done, flagged, exit, crashes, readable, held,
                 taken>>

CheckNext(p) ==
  /\ pc[p] = "check"
  /\ \E r \in todo[p] :
       /\ IsEarliest(r, todo[p])
       /\ cur' = [cur EXCEPT ![p] = r]
       /\ todo' = [todo EXCEPT ![p] = @ \ {r}]
  /\ pos' = [pos EXCEPT ![p] = 1]
  /\ Goto(p, "count")
  /\ UNCHANGED <<queueVars, now, existed, done, flagged, exit, crashes, historyVars>>

(* verify, one target: a row that is still there is INCOMPLETE. *)
Count(p) ==
  /\ pc[p] = "count"
  /\ pos[p] \in Positions
  /\ ~QueryFails(p)
  /\ flagged' = IF RowsRemain(p)
                THEN [flagged EXCEPT ![p] = @ \cup {cur[p]}]
                ELSE flagged
  /\ pos' = [pos EXCEPT ![p] = @ + 1]
  /\ UNCHANGED <<queueVars, pc, todo, cur, now, existed, done, exit, crashes, historyVars>>

EndCount(p) ==
  /\ pc[p] = "count"
  /\ AtEnd(p)
  /\ Goto(p, "check")
  /\ UNCHANGED <<queueVars, todo, cur, pos, now, existed, done, flagged, exit, crashes, historyVars>>

(* `return 1 if failed else 0` *)
Return(p) ==
  /\ pc[p] = "check"
  /\ todo[p] = {}
  /\ Finish(p, IF flagged[p] = {} THEN "ok" ELSE "alert")
  /\ UNCHANGED <<queueVars, now, done, flagged, crashes, historyVars>>

(* Nothing catches the exception of a failed query: the run is over. *)
Abort(p) ==
  /\ pc[p] \in {"delete", "count"}
  /\ QueryFails(p)
  /\ Finish(p, "failed")
  /\ UNCHANGED <<queueVars, now, done, flagged, crashes, historyVars>>

(* The pod is evicted, the warehouse is unreachable, the operator hits ^C. *)
Crash(p) ==
  /\ pc[p] # "idle"
  /\ crashes < MaxCrashes
  /\ crashes' = crashes + 1
  /\ Finish(p, "failed")
  /\ UNCHANGED <<queueVars, now, done, flagged, historyVars>>

-----------------------------------------------------------------------------
Step(p) ==
  \/ Look(p) \/ ListPending(p)
  \/ Shred(p) \/ Audit(p) \/ Delete(p) \/ MarkComplete(p)
  \/ StartCheck(p) \/ CheckNext(p) \/ Count(p) \/ EndCount(p) \/ Return(p)
  \/ Abort(p)

Environment ==
  \/ \E r \in Requests : Raise(r)
  \/ \E t \in Tables, s \in Subjects : Ingest(t, s)
  \/ \E s \in Subjects : CreateKey(s)
  \/ \E t \in Tables : Build(t)
  \/ Tick

Next ==
  \/ \E p \in Sweepers : Start(p) \/ Step(p) \/ Crash(p)
  \/ Environment

Spec == Init /\ [][Next]_vars

(* The schedule starts a run every day and a run that is not killed goes   *)
(* on; the nightly dbt build creates every table of the inventory.         *)
Fairness ==
  /\ \A p \in Sweepers : WF_vars(Start(p)) /\ WF_vars(Step(p))
  /\ \A t \in Tables : WF_vars(Build(t))

FairSpec == Spec /\ Fairness
-----------------------------------------------------------------------------
(* Properties *)

(* Whatever the warehouse held in the tables to be erased when the subject *)
(* asked is gone once completed_at is set, the key it was sealed with is   *)
(* destroyed and the destruction is on record; no crash, no overlapping    *)
(* run and no retry gets a request past mark_complete without all of it.   *)
CompletedMeansGone ==
  \A r \in Requests :
    status[r] = "completed" =>
      /\ held[r] = {}
      /\ r \notin readable
      /\ \E b \in BOOLEAN : <<Client[r], b>> \in audit

(* "The key is destroyed first": a row from before the request disappears  *)
(* only when the key its copies elsewhere are sealed with is gone, so a    *)
(* run that dies halfway leaves unreadable data and never readable data    *)
(* with some of its rows missing (privacy/erasure.py, erase).              *)
ShredBeforeDelete ==
  [][\A r \in Requests :
       (status[r] # "absent" /\ held'[r] # held[r]) => r \notin readable]_vars

(* Rows leave only tables marked `delete` in the warehouse, only rows of   *)
(* subjects who asked, and a key or a row of anybody else is never touched *)
(* by a run, whichever snapshot it works from.                             *)
ErasureIsTargeted ==
  [][/\ \A t \in Tables, s \in Subjects :
          (s \in rows[t] /\ s \notin rows'[t]) =>
             /\ \E i \in Positions :
                  /\ Inventory[i].table = t
                  /\ Inventory[i].action = "delete" /\ Inventory[i].engine = "warehouse"
             /\ \E r \in RequestsOf(s) : status[r] # "absent"
     /\ \A s \in keys \ keys' : \E r \in RequestsOf(s) : status[r] # "absent"]_vars

(* Exit code 0 speaks for the whole snapshot of the run: every request it  *)
(* took on is completed, inside the deadline by the run's own clock, and   *)
(* whatever rows its subject had when the re-count began (an ingest that   *)
(* came in behind a delete, a table created since) some run has deleted:   *)
(* what is left open, done late or found again ends in another exit code.  *)
QuietExit ==
  \A p \in Sweepers :
    exit[p] = "ok" =>
      \A r \in taken[p] :
        /\ status[r] = "completed"
        /\ now[p] < RequestedAt[r] + DeadlineDays
        /\ \A t \in Erasable : <<Client[r], t>> \notin present[p]

(* The sweep implements the promise made to the subject. *)
Promise ==
  INSTANCE ErasurePromise WITH
    Requests <- Requests, Erasable <- Erasable,
    status <- status, readable <- readable, held <- held
PromiseKept == Promise!Spec

(* However often runs are killed, every request is completed in the end.   *)
EventuallyCompleted ==
  \A r \in Requests : status[r] = "pending" ~> status[r] = "completed"
=============================================================================
