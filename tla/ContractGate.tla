---------------------------- MODULE ContractGate ----------------------------
(***************************************************************************)
(* One data contract on its way through pull requests: the compatibility   *)
(* rules (services/contract-api/app/compatibility.py) and the CI gate that *)
(* applies them to the file of the contract (scripts/validate_contracts.py *)
(* in the job "contracts" of .github/workflows/ci.yml).                    *)
(*                                                                         *)
(* The job runs when a pull request changes; the merge comes later, when   *)
(* main may already be another. A green pull request is merged only if it  *)
(* is up to date with main, which is a setting of the repository's host.   *)
(***************************************************************************)
EXTENDS Integers, Sequences, FiniteSets

CONSTANTS
  Ids, Fields, Grains,
  FieldDefs,     \* what a contract says of a field: type, required, class
  NoClass,       \* a field without pii_class
  Lags,          \* values of slo.freshness.max_lag_hours
  NoLag,         \* a contract without that promise
  Versions,      \* <<major, minor>>: no rule looks at the patch number
  Malformed,     \* a version that is not MAJOR.MINOR.PATCH
  Proposals,     \* the contracts authors come up with
  FetchesMain,   \* the checkout of the CI job has origin/main
  MaxReleases,   \* bound on the releases of the contract
  MaxPulls       \* bound on the pull requests open at once

Contract ==
  [id : Ids, version : Versions \cup {Malformed}, grain : Grains,
   lag : Lags \cup {NoLag}, schema : UNION {[S -> FieldDefs] : S \in SUBSET Fields}]

ASSUME ContractAssumption ==
  /\ FieldDefs \subseteq [type : STRING, required : BOOLEAN, class : STRING \cup {NoClass}]
  /\ Versions \subseteq Nat \X Nat /\ Malformed \notin Nat \X Nat
  /\ Lags \subseteq Nat /\ NoLag \notin Nat
  /\ Proposals \subseteq Contract
  /\ FetchesMain \in BOOLEAN
  /\ MaxReleases \in Nat \ {0} /\ MaxPulls \in Nat

-----------------------------------------------------------------------------
(* check_compatibility(c, p): a set of <<rule, field>>.                    *)

SafeWidenings(type) ==
  CASE type = "INT64" -> {"NUMERIC", "BIGNUMERIC", "FLOAT64"}
    [] type = "NUMERIC" -> {"BIGNUMERIC"}
    [] type = "DATE" -> {"DATETIME", "TIMESTAMP"}
    [] type = "DATETIME" -> {"TIMESTAMP"}
    [] OTHER -> {}

Kept(c, p) == DOMAIN c.schema \cap DOMAIN p.schema

FieldsRemoved(c, p) == DOMAIN c.schema \ DOMAIN p.schema

RequiredAdded(c, p) ==
  {f \in DOMAIN p.schema \ DOMAIN c.schema : p.schema[f].required}

TypesNarrowed(c, p) ==
  {f \in Kept(c, p) :
     LET old == c.schema[f].type new == p.schema[f].type
     IN old # new /\ new \notin SafeWidenings(old)}

NullabilityRelaxed(c, p) ==
  {f \in Kept(c, p) : c.schema[f].required /\ ~p.schema[f].required}

(* The class is taken off, or exchanged for another.                       *)
Reclassified(c, p) ==
  {f \in Kept(c, p) : c.schema[f].class # NoClass /\ c.schema[f].class # p.schema[f].class}

SloRelaxed(c, p) == c.lag # NoLag /\ p.lag # NoLag /\ p.lag > c.lag

(* What somebody who reads the table has to put up with.                   *)
BreaksReaders(c, p) ==
  \/ c.id # p.id
  \/ c.grain # p.grain
  \/ SloRelaxed(c, p)
  \/ FieldsRemoved(c, p) # {}
  \/ TypesNarrowed(c, p) # {}
  \/ NullabilityRelaxed(c, p) # {}
  \/ Reclassified(c, p) # {}

(* check_compatibility returns a violation; the one rule for writers is    *)
(* that of the required field that is new.                                 *)
IsViolation(c, p) == BreaksReaders(c, p) \/ RequiredAdded(c, p) # {}

Major(c) == c.version[1]
Minor(c) == c.version[2]

(* Faulty: the version may stay as it is.                                  *)
WentBack(c, p) ==
  \/ Major(p) < Major(c)
  \/ Major(p) = Major(c) /\ Minor(p) < Minor(c)

(* (new_major, new_minor) <= (old_major, old_minor), as tuples.            *)
NotAdvanced(c, p) ==
  \/ Major(p) < Major(c)
  \/ Major(p) = Major(c) /\ Minor(p) <= Minor(c)

(* Faulty: a breaking change may keep the major number it has.             *)
FailsIfLower(c, p) ==
  \/ Malformed \in {c.version, p.version}
  \/ IF IsViolation(c, p) THEN Major(p) < Major(c)
     ELSE c.schema # p.schema /\ NotAdvanced(c, p)

(* check_version_bump returns a problem, and the build fails: a breaking   *)
(* change that is declared by its version does not fail it.                *)
Fails(c, p) ==
  \/ Malformed \in {c.version, p.version}
  \/ IF IsViolation(c, p) THEN Major(p) <= Major(c)
     ELSE c.schema # p.schema /\ NotAdvanced(c, p)

-----------------------------------------------------------------------------
VARIABLES
  released,  \* the contract on main, release after release
  pulls      \* the open pull requests

contractVars == <<released, pulls>>

Tip == Len(released)
Main == released[Tip]

(* The contract proposed, the release it is based on, the gate's verdict.  *)
PullRequest == [head : Contract, base : 1 .. MaxReleases, green : BOOLEAN]

ContractTypeOK ==
  /\ released \in Seq(Contract) /\ Tip \in 1 .. MaxReleases
  /\ pulls \subseteq PullRequest /\ \A pr \in pulls : pr.base <= Tip

ContractInit ==
  /\ released \in {<<c>> : c \in {c \in Proposals : c.version # Malformed}}
  /\ pulls = {}

Proposed(p) == [head |-> p, base |-> Tip, green |-> FALSE]

Open(p) ==
  /\ Cardinality(pulls) < MaxPulls
  /\ pulls' = pulls \cup {Proposed(p)}
  /\ UNCHANGED released

(* The author edits the pull request and brings it up to date with main.   *)
Push(pr, p) ==
  /\ pulls' = (pulls \ {pr}) \cup {Proposed(p)}
  /\ UNCHANGED released

(* contract_at_revision(path, "origin/main"): git show also fails when it  *)
(* does not know the revision, and None means that the contract is new.    *)
Registered == IF FetchesMain THEN {Main} ELSE {}

(* The job "contracts" succeeds; a pull request that fails stays as it is. *)
Check(pr) ==
  /\ pr.base = Tip /\ ~pr.green
  /\ \A c \in Registered : ~Fails(c, pr.head)
  /\ pulls' = (pulls \ {pr}) \cup {[pr EXCEPT !.green = TRUE]}
  /\ UNCHANGED released

Merge(pr) ==
  /\ pr.green /\ pr.base = Tip /\ Tip < MaxReleases
  /\ released' = Append(released, pr.head)
  /\ pulls' = pulls \ {pr}

ContractNext ==
  \/ \E p \in Proposals : Open(p)
  \/ \E pr \in pulls, p \in Proposals : Push(pr, p)
  \/ \E pr \in pulls : Check(pr)
  \/ \E pr \in pulls : Merge(pr)

ContractSpec == ContractInit /\ [][ContractNext]_contractVars

-----------------------------------------------------------------------------
(* Both have a version, and that of p is not lower than that of c.         *)
Reaches(c, p) ==
  /\ Malformed \notin {c.version, p.version}
  /\ \/ Major(c) < Major(p)
     \/ Major(c) = Major(p) /\ Minor(c) <= Minor(p)

(* From release i to release j nobody took the version back or withdrew    *)
(* the freshness promise, which no rule forbids and which makes later      *)
(* changes be measured against less than consumers were told.              *)
Steady(i, j) ==
  \A k \in i .. j - 1 :
    LET c == released[k] p == released[k + 1]
    IN /\ Reaches(c, p)
       /\ c.lag # NoLag => p.lag # NoLag

(* What consumers pin: whoever built on a release can read every later one *)
(* that carries the same major number, however many small changes, each    *)
(* compared only with its predecessor, lie in between.                     *)
UnderOneMajor ==
  \A i, j \in 1 .. Tip :
    i < j /\ Steady(i, j) /\ Major(released[i]) = Major(released[j])
      => ~BreaksReaders(released[i], released[j])

(* Consumers can tell "new optional column" from "nothing happened": two   *)
(* releases of the same number have the same schema.                       *)
VersionNamesSchema ==
  \A i, j \in 1 .. Tip :
    i < j /\ Steady(i, j) /\ released[i].version = released[j].version
      => released[i].schema = released[j].schema
=============================================================================
