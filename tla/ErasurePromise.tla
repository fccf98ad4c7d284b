--------------------------- MODULE ErasurePromise ---------------------------
(***************************************************************************)
(* What somebody who asks to be erased is promised, with no sweep, no      *)
(* warehouse and no failure in sight.  Every request carries its own view  *)
(* of the subject: whether the key that sealed the data held at the time   *)
(* of asking still exists, and which of the erasable tables still hold     *)
(* rows that were there at the time of asking.  ErasureSweep implements    *)
(* this module.                                                            *)
(***************************************************************************)
CONSTANTS
  Requests,   \* rows of raw.erasure_requests
  Erasable    \* the tables whose rows exist only because the subject does

VARIABLES
  status,     \* Requests -> absent, pending or completed
  readable,   \* requests whose subject's data can still be unsealed
  held        \* erasable tables still holding rows older than the request

vars == <<status, readable, held>>

TypeOK ==
  /\ status \in [Requests -> {"absent", "pending", "completed"}]
  /\ readable \subseteq Requests
  /\ held \in [Requests -> SUBSET Erasable]

Init ==
  /\ status = [r \in Requests |-> "absent"]
  /\ readable = {}
  /\ held = [r \in Requests |-> {}]

(* The subject asks; whatever is held about them now is what must go. *)
Raise(r) ==
  /\ status[r] = "absent"
  /\ status' = [status EXCEPT ![r] = "pending"]
  /\ \E K \in SUBSET {r} : readable' = readable \cup K
  /\ \E T \in SUBSET Erasable : held' = [held EXCEPT ![r] = T]

Shred(r) ==
  /\ status[r] # "absent"
  /\ readable' = readable \ {r}
  /\ UNCHANGED <<status, held>>

(* Readable copies go only once the copies nobody can reach are sealed. *)
Purge(r, t) ==
  /\ status[r] # "absent"
  /\ r \notin readable
  /\ held' = [held EXCEPT ![r] = @ \ {t}]
  /\ UNCHANGED <<status, readable>>

Complete(r) ==
  /\ status[r] = "pending"
  /\ r \notin readable
  /\ held[r] = {}
  /\ status' = [status EXCEPT ![r] = "completed"]
  /\ UNCHANGED <<readable, held>>

Next ==
  \E r \in Requests :
    \/ Raise(r)
    \/ Shred(r)
    \/ \E t \in Erasable : Purge(r, t)
    \/ Complete(r)

Spec == Init /\ [][Next]_vars
=============================================================================
