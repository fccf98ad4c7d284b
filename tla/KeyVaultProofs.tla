--------------------------- MODULE KeyVaultProofs ---------------------------
(***************************************************************************)
(* Proofs about KeyVault, for any number of subjects, keys and callers.    *)
(***************************************************************************)
EXTENDS KeyVault, TLAPS

(* A key under way (drawn, its row not yet inserted) is known to its call  *)
(* alone: no row, no record and no other caller has it.                    *)
Private(c) ==
  /\ key[c] \notin destroyed
  /\ \A s \in Subjects : <<s, key[c]>> \notin table \cup records
  /\ \A d \in Callers \ {c} : pc[d] \in {"insert", "holding"} => key[d] # key[c]

(* What a call knows of the subject and key it works with. *)
CallerInv(c) ==
  /\ pc[c] # "idle" => subject[c] \in Subjects
  /\ pc[c] \in {"insert", "holding"} => key[c] \in drawn
  /\ pc[c] = "insert" => Private(c)

(* Nothing is sealed with, or stored under, a key that was not drawn, and  *)
(* what was sealed is never forgotten.                                     *)
DrawnInv ==
  /\ \A s \in Subjects, k \in Keys : <<s, k>> \in table \cup records => k \in drawn
  /\ destroyed \subseteq drawn
  /\ doomed \subseteq records

VaultInv ==
  /\ VaultTypeOK
  /\ DrawnInv
  /\ \A c \in Callers : CallerInv(c)
  /\ ShreddedForGood

LEMMA InitVaultInv == VaultInit => VaultInv
BY VaultAssumption DEF VaultInit, VaultInv, VaultTypeOK, DrawnInv, CallerInv, ShreddedForGood

LEMMA VaultInvStep == VaultInv /\ [VaultNext]_vaultVars => VaultInv'
<1> SUFFICES ASSUME VaultInv, [VaultNext]_vaultVars PROVE VaultInv'
  OBVIOUS
<1> USE VaultAssumption
    DEF VaultInv, VaultTypeOK, DrawnInv, CallerInv, Private, ShreddedForGood, KeysOf, RecordsOf, RowsOf,
        Proceed, Hold, callerVars
<1>1. ASSUME NEW c \in Callers, NEW s \in Subjects, KeyFound(c, s) PROVE VaultInv'
  <2>1. PICK k \in KeysOf(s) : Hold(c, s, k)
    BY <1>1, Zenon DEF KeyFound
  <2>2. /\ pc' = [pc EXCEPT ![c] = "holding"]
        /\ UNCHANGED <<unique, table, audit, records, drawn, existed, destroyed, doomed>>
    BY <1>1, Zenon DEF KeyFound
  <2> QED
    BY <2>1, <2>2
<1>2. ASSUME NEW c \in Callers, NEW s \in Subjects, Draw(c, s) PROVE VaultInv'
  <2>1. PICK k \in Keys \ drawn : Hold(c, s, k) /\ drawn' = drawn \cup {k}
    BY <1>2, Zenon DEF Draw
  <2>2. /\ pc' = [pc EXCEPT ![c] = "insert"]
        /\ UNCHANGED <<unique, table, audit, records, existed, destroyed, doomed>>
    BY <1>2, Zenon DEF Draw
  <2>3. VaultTypeOK' /\ DrawnInv' /\ ShreddedForGood'
    BY <2>1, <2>2
  <2>4. ASSUME NEW d \in Callers PROVE CallerInv(d)'
    <3>1. CASE d = c
      BY <2>1, <2>2, <3>1
    <3>2. CASE d # c
      BY <2>1, <2>2, <3>2
    <3> QED
      BY <3>1, <3>2
  <2> QED
    BY <2>3, <2>4
<1>3. ASSUME NEW c \in Callers, Insert(c) PROVE VaultInv'
  <2>1. /\ pc[c] = "insert"
        /\ table' = table \cup {<<subject[c], key[c]>>}
        /\ pc' = [pc EXCEPT ![c] = "holding"]
        /\ UNCHANGED <<unique, audit, records, drawn, subject, key, existed, destroyed, doomed>>
    BY <1>3 DEF Insert
  <2>2. VaultTypeOK' /\ DrawnInv' /\ ShreddedForGood'
    BY <2>1
  <2>3. ASSUME NEW d \in Callers PROVE CallerInv(d)'
    BY <2>1
  <2> QED
    BY <2>2, <2>3
<1>4. ASSUME NEW c \in Callers, Seal(c) PROVE VaultInv'
  <2>1. VaultTypeOK' /\ DrawnInv' /\ ShreddedForGood'
    BY <1>4 DEF Seal
  <2>2. ASSUME NEW d \in Callers PROVE CallerInv(d)'
    BY <1>4 DEF Seal
  <2> QED
    BY <2>1, <2>2
<1>5. ASSUME NEW c \in Callers, Refused(c) \/ Release(c) \/ CallDies(c) PROVE VaultInv'
  <2>1. /\ pc' = [pc EXCEPT ![c] = "idle"]
        /\ Hold(c, NoSubject, NoKey)
        /\ UNCHANGED <<unique, table, audit, records, drawn, destroyed, doomed>>
    BY <1>5 DEF Refused, Release, CallDies
  <2>2. existed' \in [Callers -> BOOLEAN]
    BY <1>5 DEF Refused, Release, CallDies
  <2>3. VaultTypeOK' /\ DrawnInv' /\ ShreddedForGood'
    BY <2>1, <2>2
  <2>4. ASSUME NEW d \in Callers PROVE CallerInv(d)'
    BY <2>1
  <2> QED
    BY <2>3, <2>4
<1>6. ASSUME NEW c \in Callers, NEW s \in Subjects, Destroy(c, s) PROVE VaultInv'
  <2>1. /\ pc[c] = "idle"
        /\ table' = table \ RowsOf(s)
        /\ destroyed' = destroyed \cup KeysOf(s)
        /\ doomed' = doomed \cup RecordsOf(s)
        /\ subject' = [subject EXCEPT ![c] = s]
        /\ pc' = [pc EXCEPT ![c] = "audit"]
        /\ UNCHANGED <<unique, audit, records, drawn, key>>
        /\ existed' \in [Callers -> BOOLEAN]
    <3>1. existed' \in [Callers -> BOOLEAN]
      BY <1>6 DEF Destroy
    <3> QED
      BY <1>6, <3>1 DEF Destroy
  <2>2. VaultTypeOK' /\ DrawnInv'
    BY <2>1
  <2>3. ShreddedForGood'
    BY <2>1
  <2>4. ASSUME NEW d \in Callers PROVE CallerInv(d)'
    BY <2>1
  <2> QED
    BY <2>2, <2>3, <2>4
<1>7. ASSUME NEW c \in Callers, RecordDestruction(c) PROVE VaultInv'
  BY <1>7 DEF RecordDestruction
<1>8. CASE UNCHANGED vaultVars
  BY <1>8 DEF vaultVars
<1> QED
  BY <1>1, <1>2, <1>3, <1>4, <1>5, <1>6, <1>7, <1>8 DEF VaultNext

LEMMA VaultInvariance == VaultSpec => []VaultInv
BY InitVaultInv, VaultInvStep, PTL DEF VaultSpec

(* No interleaving of creates, destroys and crashes, with or without a     *)
(* primary key, brings back a key that sealed something before its row was *)
(* deleted (privacy/vault.py, create_key and destroy_key).                 *)
THEOREM DestructionIsFinal == VaultSpec => []ShreddedForGood
<1>1. VaultInv => ShreddedForGood
  BY DEF VaultInv
<1> QED
  BY <1>1, VaultInvariance, PTL

-----------------------------------------------------------------------------
(* With a primary key, a subject has at most one row, and whoever holds a  *)
(* key holds the one in that row or one that was destroyed since.          *)
OneKeyInv ==
  /\ \A s \in Subjects : \A j, k \in KeysOf(s) : j = k
  /\ \A c \in Callers :
       pc[c] = "holding" => key[c] \in destroyed \/ <<subject[c], key[c]>> \in table
  /\ \A r \in records : r[2] \in destroyed \/ r \in table

LEMMA OneKeyStep == unique /\ VaultInv /\ OneKeyInv /\ [VaultNext]_vaultVars => OneKeyInv'
<1> SUFFICES ASSUME unique, VaultInv, OneKeyInv, [VaultNext]_vaultVars PROVE OneKeyInv'
  OBVIOUS
<1> USE DEF VaultInv, VaultTypeOK, DrawnInv, CallerInv, OneKeyInv, KeysOf, RecordsOf, RowsOf, Proceed, Hold,
            callerVars
<1>1. ASSUME NEW c \in Callers, NEW s \in Subjects, KeyFound(c, s) PROVE OneKeyInv'
  <2>1. PICK k \in KeysOf(s) : Hold(c, s, k)
    BY <1>1, Zenon DEF KeyFound
  <2>2. /\ pc' = [pc EXCEPT ![c] = "holding"]
        /\ UNCHANGED <<unique, table, audit, records, drawn, existed, destroyed, doomed>>
    BY <1>1, Zenon DEF KeyFound
  <2> QED
    BY <2>1, <2>2
<1>2. ASSUME NEW c \in Callers, NEW s \in Subjects, Draw(c, s) PROVE OneKeyInv'
  <2>1. PICK k \in Keys \ drawn : Hold(c, s, k)
    BY <1>2, Zenon DEF Draw
  <2>2. /\ pc' = [pc EXCEPT ![c] = "insert"]
        /\ UNCHANGED <<unique, table, records, destroyed>>
    BY <1>2, Zenon DEF Draw
  <2> QED
    BY <2>1, <2>2
<1>3. ASSUME NEW c \in Callers, Insert(c) PROVE OneKeyInv'
  <2>1. /\ KeysOf(subject[c]) = {}
        /\ table' = table \cup {<<subject[c], key[c]>>}
        /\ pc' = [pc EXCEPT ![c] = "holding"]
        /\ UNCHANGED <<unique, records, subject, key, destroyed>>
    BY <1>3 DEF Insert
  <2> QED
    BY <2>1
<1>4. ASSUME NEW c \in Callers, Seal(c) PROVE OneKeyInv'
  BY <1>4 DEF Seal
<1>5. ASSUME NEW c \in Callers, Refused(c) \/ Release(c) \/ CallDies(c) PROVE OneKeyInv'
  <2>1. /\ pc' = [pc EXCEPT ![c] = "idle"]
        /\ Hold(c, NoSubject, NoKey)
        /\ UNCHANGED <<table, records, destroyed>>
    BY <1>5 DEF Refused, Release, CallDies
  <2> QED
    BY <2>1
<1>6. ASSUME NEW c \in Callers, NEW s \in Subjects, Destroy(c, s) PROVE OneKeyInv'
  <2>1. /\ table' = table \ RowsOf(s)
        /\ destroyed' = destroyed \cup KeysOf(s)
        /\ subject' = [subject EXCEPT ![c] = s]
        /\ pc' = [pc EXCEPT ![c] = "audit"]
        /\ UNCHANGED <<unique, records, key>>
    BY <1>6 DEF Destroy
  <2>2. \A t \in Subjects, k \in Keys :
          <<t, k>> \in table => k \in destroyed' \/ <<t, k>> \in table'
    <3> SUFFICES ASSUME NEW t \in Subjects, NEW k \in Keys, <<t, k>> \in table
                 PROVE  k \in destroyed' \/ <<t, k>> \in table'
      OBVIOUS
    <3>1. CASE t = s
      BY <2>1, <3>1
    <3>2. CASE t # s
      <4>1. <<t, k>> \notin RowsOf(s)
        BY <3>2
      <4> QED
        BY <2>1, <4>1
    <3> QED
      BY <3>1, <3>2
  <2>3. \A t \in Subjects : \A j, k \in KeysOf(t)' : j = k
    BY <2>1
  <2>4. ASSUME NEW r \in records PROVE r[2] \in destroyed' \/ r \in table'
    <3>1. PICK t \in Subjects, k \in Keys : r = <<t, k>>
      OBVIOUS
    <3>2. k \in destroyed \/ <<t, k>> \in table
      BY <3>1
    <3>3. k \in destroyed' \/ <<t, k>> \in table'
      BY <2>1, <2>2, <3>2
    <3> QED
      BY <3>1, <3>3
  <2>5. ASSUME NEW d \in Callers, pc'[d] = "holding"
        PROVE  key'[d] \in destroyed' \/ <<subject'[d], key'[d]>> \in table'
    <3>1. d # c /\ pc[d] = "holding" /\ subject'[d] = subject[d] /\ key'[d] = key[d]
      BY <2>1, <2>5
    <3>2. key[d] \in destroyed \/ <<subject[d], key[d]>> \in table
      BY <3>1
    <3>3. subject[d] \in Subjects /\ key[d] \in Keys
      BY <3>1
    <3> QED
      BY <2>1, <2>2, <3>1, <3>2, <3>3
  <2> QED
    BY <2>1, <2>3, <2>4, <2>5
<1>7. ASSUME NEW c \in Callers, RecordDestruction(c) PROVE OneKeyInv'
  BY <1>7 DEF RecordDestruction
<1>8. CASE UNCHANGED vaultVars
  BY <1>8 DEF vaultVars
<1> QED
  BY <1>1, <1>2, <1>3, <1>4, <1>5, <1>6, <1>7, <1>8 DEF VaultNext

(* With the primary key of the DuckDB vault, racing producers end up with  *)
(* one key per subject, and everything sealed under a key that was not     *)
(* destroyed is legible (privacy/vault.py, create_key and data_key).       *)
THEOREM SealedIsLegible == VaultSpec => []SealedOpens
<1>1. VaultInit => (unique => OneKeyInv)
  BY DEF VaultInit, OneKeyInv, KeysOf
<1>2. VaultInv /\ (unique => OneKeyInv) /\ [VaultNext]_vaultVars => (unique => OneKeyInv)'
  <2>1. [VaultNext]_vaultVars => unique' = unique
    BY DEF VaultNext, vaultVars, KeyFound, Draw, Insert, Refused, Seal, Release, Destroy, RecordDestruction, CallDies
  <2> QED
    BY <2>1, OneKeyStep
<1>3. VaultInv /\ (unique => OneKeyInv) => SealedOpens
  <2> SUFFICES ASSUME VaultInv, OneKeyInv, NEW r \in records, r[2] \notin destroyed
               PROVE  KeysOf(r[1]) = {r[2]}
    BY DEF SealedOpens
  <2>1. r \in table /\ r \in Subjects \X Keys
    BY DEF OneKeyInv, VaultInv, VaultTypeOK
  <2>2. r[1] \in Subjects /\ r[2] \in KeysOf(r[1])
    BY <2>1 DEF KeysOf
  <2> QED
    BY <2>2 DEF OneKeyInv
<1> QED
  BY <1>1, <1>2, <1>3, VaultInvariance, PTL DEF VaultSpec
=============================================================================
