------------------------------ MODULE KeyVault ------------------------------
(***************************************************************************)
(* The vault of data keys (privacy/vault.py) and the callers that seal     *)
(* personal fields with what it hands out (privacy/crypto.py).             *)
(*                                                                         *)
(* create_key is a select and an insert, destroy_key a delete and an audit *)
(* row, each a statement that commits by itself, and callers run at the    *)
(* same time.  The two vaults of the code differ in one thing that matters *)
(* here: subject_id is a primary key in DuckDB and a plain column in       *)
(* BigQuery.                                                               *)
(***************************************************************************)
EXTENDS Naturals

CONSTANTS
  Subjects,
  Keys,       \* what new_data_key draws from, never twice the same
  Callers,    \* producers and sweeps that use the vault at the same time
  NoSubject, NoKey

ASSUME VaultAssumption ==
  /\ NoSubject \notin Subjects
  /\ NoKey \notin Keys

VARIABLES
  unique,     \* subject_id is a primary key: which of the two vaults this is
  table,      \* subject_keys: <<subject, key>>
  audit,      \* erasure_audit: <<subject, key_existed>>
  records,    \* <<subject, key>> of every sealed field, wherever it was copied to
  drawn,      \* keys new_data_key has returned
  pc,
  subject,    \* caller -> the subject it is called for
  key,        \* caller -> the data key in its memory
  existed,    \* caller -> what its destroy_key found
  destroyed,  \* history: keys whose row was deleted
  doomed      \* history: records sealed before the key of their subject was destroyed

callerVars == <<pc, subject, key, existed>>
vaultVars == <<unique, table, audit, records, drawn, callerVars, destroyed, doomed>>

VaultTypeOK ==
  /\ unique \in BOOLEAN
  /\ table \subseteq Subjects \X Keys
  /\ audit \subseteq Subjects \X BOOLEAN
  /\ records \subseteq Subjects \X Keys
  /\ drawn \subseteq Keys
  /\ pc \in [Callers -> {"idle", "insert", "holding", "audit"}]
  /\ subject \in [Callers -> Subjects \cup {NoSubject}]
  /\ key \in [Callers -> Keys \cup {NoKey}]
  /\ existed \in [Callers -> BOOLEAN]
  /\ destroyed \subseteq Keys
  /\ doomed \subseteq Subjects \X Keys

VaultInit ==
  /\ unique \in BOOLEAN
  /\ table = {}
  /\ audit = {}
  /\ records = {}
  /\ drawn = {}
  /\ pc = [c \in Callers |-> "idle"]
  /\ subject = [c \in Callers |-> NoSubject]
  /\ key = [c \in Callers |-> NoKey]
  /\ existed = [c \in Callers |-> FALSE]
  /\ destroyed = {}
  /\ doomed = {}

(* select wrapped_key from subject_keys where subject_id = s *)
KeysOf(s) == {k \in Keys : <<s, k>> \in table}

RecordsOf(s) == {r \in records : r[1] = s}

Proceed(c, phase) == pc' = [pc EXCEPT ![c] = phase]

Hold(c, s, k) ==
  /\ subject' = [subject EXCEPT ![c] = s]
  /\ key' = [key EXCEPT ![c] = k]

-----------------------------------------------------------------------------
(* create_key, the select: the caller gets the first row there is.  Which  *)
(* row of several comes first is up to the engine.                         *)
KeyFound(c, s) ==
  /\ pc[c] = "idle"
  /\ \E k \in KeysOf(s) : Hold(c, s, k)
  /\ Proceed(c, "holding")
  /\ UNCHANGED <<unique, table, audit, records, drawn, existed, destroyed, doomed>>

(* create_key, no row: a new key, which nobody but this call knows yet.    *)
Draw(c, s) ==
  /\ pc[c] = "idle"
  /\ KeysOf(s) = {}
  /\ \E k \in Keys \ drawn :
       /\ Hold(c, s, k)
       /\ drawn' = drawn \cup {k}
  /\ Proceed(c, "insert")
  /\ UNCHANGED <<unique, table, audit, records, existed, destroyed, doomed>>

(* Faulty: the conflict is ignored and the caller's own key returned. *)
InsertOrIgnore(c) ==
  /\ pc[c] = "insert"
  /\ table' = IF unique /\ KeysOf(subject[c]) # {} THEN table
              ELSE table \cup {<<subject[c], key[c]>>}
  /\ Proceed(c, "holding")
  /\ UNCHANGED <<unique, audit, records, drawn, subject, key, existed, destroyed, doomed>>

(* create_key, the insert: returns the key once the row is in. *)
Insert(c) ==
  /\ pc[c] = "insert"
  /\ ~(unique /\ KeysOf(subject[c]) # {})
  /\ table' = table \cup {<<subject[c], key[c]>>}
  /\ Proceed(c, "holding")
  /\ UNCHANGED <<unique, audit, records, drawn, subject, key, existed, destroyed, doomed>>

(* The primary key refuses the second row; the exception ends the call.    *)
Refused(c) ==
  /\ pc[c] = "insert"
  /\ unique /\ KeysOf(subject[c]) # {}
  /\ Proceed(c, "idle")
  /\ Hold(c, NoSubject, NoKey)
  /\ UNCHANGED <<unique, table, audit, records, drawn, existed, destroyed, doomed>>

(* encrypt_field with the key the caller holds, and on to Kafka, Bronze... *)
Seal(c) ==
  /\ pc[c] = "holding"
  /\ records' = records \cup {<<subject[c], key[c]>>}
  /\ UNCHANGED <<unique, table, audit, drawn, callerVars, destroyed, doomed>>

Release(c) ==
  /\ pc[c] = "holding"
  /\ Proceed(c, "idle")
  /\ Hold(c, NoSubject, NoKey)
  /\ UNCHANGED <<unique, table, audit, records, drawn, existed, destroyed, doomed>>

(* Faulty: one row per subject is taken for granted. *)
FirstRowOf(s) ==
  {r \in {<<s, k>> : k \in KeysOf(s)} : r[2] = CHOOSE k \in KeysOf(s) : TRUE}

(* The rows the delete matches: all there are for the subject. *)
RowsOf(s) == {<<s, k>> : k \in KeysOf(s)}

(* destroy_key, the delete.                                                *)
Destroy(c, s) ==
  /\ pc[c] = "idle"
  /\ table' = table \ RowsOf(s)
  /\ destroyed' = destroyed \cup KeysOf(s)
  /\ doomed' = doomed \cup RecordsOf(s)
  /\ existed' = [existed EXCEPT ![c] = KeysOf(s) # {}]
  /\ subject' = [subject EXCEPT ![c] = s]
  /\ Proceed(c, "audit")
  /\ UNCHANGED <<unique, audit, records, drawn, key>>

(* destroy_key, the audit row.                                             *)
RecordDestruction(c) ==
  /\ pc[c] = "audit"
  /\ audit' = audit \cup {<<subject[c], existed[c]>>}
  /\ existed' = [existed EXCEPT ![c] = FALSE]
  /\ subject' = [subject EXCEPT ![c] = NoSubject]
  /\ Proceed(c, "idle")
  /\ UNCHANGED <<unique, table, records, drawn, key, destroyed, doomed>>

(* The process dies between two statements: an insert or audit row is lost. *)
CallDies(c) ==
  /\ pc[c] # "idle"
  /\ Proceed(c, "idle")
  /\ Hold(c, NoSubject, NoKey)
  /\ existed' = [existed EXCEPT ![c] = FALSE]
  /\ UNCHANGED <<unique, table, audit, records, drawn, destroyed, doomed>>

VaultNext ==
  \E c \in Callers :
    \/ \E s \in Subjects : KeyFound(c, s) \/ Draw(c, s) \/ Destroy(c, s)
    \/ Insert(c) \/ Refused(c) \/ Seal(c) \/ Release(c) \/ RecordDestruction(c) \/ CallDies(c)

VaultSpec == VaultInit /\ [][VaultNext]_vaultVars
-----------------------------------------------------------------------------
(* Properties *)

(* What was sealed before a destruction can never be opened again: no      *)
(* later data_key returns the key, not even one whose insert was under way *)
(* when the row was deleted (privacy/vault.py, create_key, destroy_key).   *)
ShreddedForGood == doomed \cap table = {}

(* With a primary key, a record whose key nobody destroyed opens with the  *)
(* row data_key returns, so a reader never meets a subject whose data is   *)
(* neither erased nor legible (privacy/vault.py, create_key, data_key).    *)
SealedOpens ==
  unique => \A r \in records : r[2] \notin destroyed => KeysOf(r[1]) = {r[2]}
=============================================================================
