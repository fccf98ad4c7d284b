--------------------------- MODULE LakehouseErasure ---------------------------
(***************************************************************************)
(* privacy/lakehouse.py: one subject leaves one Iceberg table. The steps   *)
(* of erase are commits of their own, between which writers append, a      *)
(* maintenance job compacts and the run itself may die; and what counts is *)
(* the files on storage. Nobody tags a snapshot, as the code asks.         *)
(*                                                                         *)
(* Iceberg is external: commits are atomic, and one that was prepared on   *)
(* files that were rewritten or got deletes since is refused.              *)
(***************************************************************************)
EXTENDS Integers

CONSTANTS
  Subject,    \* rows of the subject
  Others,     \* rows of everybody else
  Local,      \* instant -> the session's wall clock
  MaxCommits  \* bound on the snapshots ever committed

Rows == Subject \cup Others
Instants == DOMAIN Local

ASSUME LakehouseAssumption ==
  /\ Subject \cap Others = {} /\ MaxCommits \in Nat
  /\ 0 \in Instants /\ Instants \subseteq Nat
  /\ Local \in [Instants -> Int]

(* No hour is repeated while the model looks, as at the end of summer.     *)
ASSUME NoRepeatedHour == \A t, u \in Instants : Local[t] = Local[u] => t = u

VARIABLES
  clock,
  commits,    \* snapshots committed so far
  snapshots,  \* those the table still has
  storage,    \* data files on storage
  known,      \* for the property: data files some snapshot has had
  merge,      \* write.delete.mode is merge-on-read
  at,         \* the step of erase: "idle", "delete", "data", "deletes" or "expire"
  due,        \* rows of the subject a delete has taken out of the queries
  erased,     \* those an erase has returned for
  compaction  \* {} or what the maintenance job has prepared

lakeVars ==
  <<clock, commits, snapshots, storage, known, merge, at, due, erased, compaction>>

File == [no : Nat, rows : SUBSET Rows]

(* hidden: the data files that delete files of the snapshot refer to.      *)
Snapshot == [no : Nat, time : Instants, files : SUBSET File, hidden : SUBSET File]

LakeTypeOK ==
  /\ clock \in Instants /\ commits \in 0 .. MaxCommits
  /\ \A s \in snapshots : s \in Snapshot /\ s.no <= commits
  /\ \A f \in storage \cup known : f \in File
  /\ merge \in BOOLEAN /\ at \in {"idle", "delete", "data", "deletes", "expire"}
  /\ due \subseteq Subject /\ erased \subseteq due
  /\ \A c \in compaction : c.out \in storage

Current == CHOOSE s \in snapshots : s.no = commits
Holds(f) == f.rows \cap Subject # {}
Live(s) == UNION {IF f \in s.hidden THEN f.rows \ Subject ELSE f.rows : f \in s.files}

LakeInit ==
  /\ clock = 0 /\ commits = 0
  /\ \E s \in Subject, o \in Others :
       LET f == [no |-> 0, rows |-> {s, o}]
       IN /\ snapshots = {[no |-> 0, time |-> 0, files |-> {f}, hidden |-> {}]}
          /\ storage = {f} /\ known = {f}
  /\ merge \in BOOLEAN /\ at = "idle"
  /\ due = {} /\ erased = {} /\ compaction = {}

Tick ==
  /\ clock + 1 \in Instants /\ clock' = clock + 1
  /\ UNCHANGED <<commits, snapshots, storage, known, merge, at, due, erased, compaction>>

(* A snapshot on top of the current one, whose new files are on storage.   *)
Commit(files, hidden) ==
  /\ commits < MaxCommits /\ commits' = commits + 1
  /\ snapshots' = snapshots \cup
       {[no |-> commits + 1, time |-> clock, files |-> files, hidden |-> hidden]}
  /\ storage' = storage \cup files /\ known' = known \cup files

NewFile(rows) == IF rows = {} THEN {} ELSE {[no |-> commits + 1, rows |-> rows]}

Written == (UNION {f.rows : f \in storage}) \cup due

(* Ingestion, which does not know of the request.                          *)
WriteRow(r) ==
  /\ r \notin Written
  /\ Commit(Current.files \cup NewFile({r}), Current.hidden)
  /\ UNCHANGED <<clock, merge, at, due, erased, compaction>>

(* Files some job wrote and nobody committed: remove_orphan_files is there *)
(* for those.                                                              *)
Orphans == {f \in storage : \A s \in snapshots : f \notin s.files}

(* A rewrite of all files by another job: written first, committed later.  *)
(* That it waits until there is no orphan is a bound.                      *)
PrepareCompaction ==
  /\ compaction = {} /\ Orphans = {} /\ Live(Current) # {}
  /\ LET out == [no |-> commits + MaxCommits + 1, rows |-> Live(Current)]
     IN /\ compaction' = {[base |-> Current.files, hidden |-> Current.hidden, out |-> out]}
        /\ storage' = storage \cup {out}
  /\ UNCHANGED <<clock, commits, snapshots, known, merge, at, due, erased>>

(* Refused, it leaves what it wrote as an orphan.                          *)
CommitCompaction(c) ==
  /\ \/ /\ c.base \subseteq Current.files /\ c.base \cap Current.hidden = c.base \cap c.hidden
        /\ Commit((Current.files \ c.base) \cup {c.out}, Current.hidden)
     \/ UNCHANGED <<commits, snapshots, storage, known>>
  /\ compaction' = {}
  /\ UNCHANGED <<clock, merge, at, due, erased>>

-----------------------------------------------------------------------------
(* erase                                                                   *)

StartErase ==
  /\ at = "idle" /\ at' = "delete"
  /\ UNCHANGED <<clock, commits, snapshots, storage, known, merge, due, erased, compaction>>

(* delete from: a file that only holds rows of the subject is dropped, the *)
(* others get a delete file or are written anew.                           *)
DeleteSubject ==
  LET hit == {f \in Current.files \ Current.hidden : Holds(f)}
      mixed == {f \in hit : ~(f.rows \subseteq Subject)}
  IN /\ at = "delete" /\ at' = "data"
     /\ IF merge THEN Commit(Current.files \ (hit \ mixed), Current.hidden \cup mixed)
        ELSE Commit((Current.files \ hit) \cup NewFile((UNION {f.rows : f \in mixed}) \ Subject),
                    Current.hidden)
     /\ due' = due \cup (Live(Current) \cap Subject)
     /\ UNCHANGED <<clock, merge, erased, compaction>>

(* Faulty: only files that queries still find the subject in are chosen.   *)
RewriteVisibleFiles ==
  LET chosen == {f \in Current.files \ Current.hidden : Holds(f)}
      kept == UNION {f.rows : f \in chosen}
  IN /\ at = "data" /\ at' = "deletes"
     /\ Commit((Current.files \ chosen) \cup NewFile(kept), Current.hidden)
     /\ UNCHANGED <<clock, merge, due, erased, compaction>>

(* rewrite_data_files with the predicate, which the statistics of a file   *)
(* match whether or not its rows are deleted.                              *)
RewriteDataFiles ==
  LET chosen == {f \in Current.files : Holds(f)}
      kept == Live([files |-> chosen, hidden |-> Current.hidden])
  IN /\ at = "data" /\ at' = "deletes"
     /\ Commit((Current.files \ chosen) \cup NewFile(kept), Current.hidden)
     /\ UNCHANGED <<clock, merge, due, erased, compaction>>

(* rewrite_position_delete_files drops those that refer to no file.        *)
RewriteDeleteFiles ==
  /\ at = "deletes" /\ at' = "expire"
  /\ Commit(Current.files, Current.hidden \cap Current.files)
  /\ UNCHANGED <<clock, merge, due, erased, compaction>>

(* TIMESTAMP '...', read as a time of day of the session's zone.           *)
ReadAs(wall) ==
  IF \E t \in Instants : Local[t] = wall THEN CHOOSE t \in Instants : Local[t] = wall ELSE -1

(* The default of expire_before, now, in the zone of the session.          *)
Cutoff == ReadAs(Local[clock])

(* expire_snapshots with retain_last 1, and the files only those used that *)
(* it expired.                                                             *)
ExpireSnapshots ==
  LET kept == {s \in snapshots : s.no = commits \/ s.time > Cutoff}
      Used(some) == UNION {s.files : s \in some}
  IN /\ at = "expire" /\ at' = "idle"
     /\ snapshots' = kept
     /\ storage' = storage \ (Used(snapshots \ kept) \ Used(kept))
     /\ erased' = due
     /\ UNCHANGED <<clock, commits, known, merge, due, compaction>>

(* A step fails, or the job is killed; the next run begins anew.           *)
DieErasing ==
  /\ at # "idle" /\ at' = "idle"
  /\ UNCHANGED <<clock, commits, snapshots, storage, known, merge, due, erased, compaction>>

LakeNext ==
  \/ Tick
  \/ \E r \in Rows : WriteRow(r)
  \/ PrepareCompaction
  \/ \E c \in compaction : CommitCompaction(c)
  \/ StartErase
  \/ DeleteSubject
  \/ RewriteDataFiles
  \/ RewriteDeleteFiles
  \/ ExpireSnapshots
  \/ DieErasing

LakeSpec == LakeInit /\ [][LakeNext]_lakeVars

-----------------------------------------------------------------------------
(* Once erase has returned, the rows it took out of the queries are in no  *)
(* data file of the table that is still on storage, current or not: what-  *)
(* ever was committed between its steps, however often it died on the way, *)
(* and they do not come back.                                              *)
Forgotten == \A f \in storage \cap known : f.rows \cap erased = {}
=============================================================================
