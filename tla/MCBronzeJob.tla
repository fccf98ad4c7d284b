----------------------------- MODULE MCBronzeJob -----------------------------
(* Small instances of BronzeJob for TLC: entries of streaming/topics.yaml,  *)
(* with the columns "key" and "event".                                      *)
EXTENDS BronzeJob, TLC

Entry(dedupe_key, offset, tombstone) ==
  [key |-> "key", dedupe_key |-> dedupe_key, offset |-> offset, tombstone |-> tombstone]

(* client.onboarding and client.status; account.transaction; order.lifecycle *)
(* and trade.execution.                                                     *)
Onboarding == Entry(<<"event">>, FALSE, TRUE)
Transaction == Entry(<<"key">>, TRUE, FALSE)
Execution == Entry(<<"key", "event">>, TRUE, FALSE)

(* marketing.preferences: its dedupe_key begins with the key of the log.    *)
Preferences == Entry(<<"key", "event">>, FALSE, TRUE)

Registry == {Onboarding, Preferences, Transaction, Execution}
JustPreferences == {Preferences}
JustExecution == {Execution}
TwoColumns == {"key", "event"}

Symmetries == Permutations(Values) \cup Permutations(Runs)
==============================================================================
