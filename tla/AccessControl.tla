---------------------------- MODULE AccessControl ----------------------------
(***************************************************************************)
(* Who sees what of dim_client: dbt builds that replace the table and put  *)
(* its row access policies and policy tags back one by one, Terraform that *)
(* decides on policies, tags and grants, and the validation that queries   *)
(* the table as each persona. Nothing orders any of them.                  *)
(***************************************************************************)
EXTENDS Integers, Sequences

CONSTANTS
  Builders,  \* who runs dbt build: the DAG, the asset job, an operator
  Governed,  \* those that pass the output of governance_vars.py
  Configs,   \* what Terraform may have applied
  Regions,   \* trading_region, as it occurs in the rows
  MaxApplies \* bound on the changes of the configuration

Personas == <<"uk_desk", "marketing", "compliance", "quants">>
Everyone == {Personas[i] : i \in DOMAIN Personas}
Classes == {"person_name", "date_of_birth", "contact"}

Policy == [name : STRING, grantees : SUBSET (Everyone \cup {"operator"}), regions : SUBSET Regions]
Config == [policies : Seq(Policy), tags : SUBSET Classes, masking : BOOLEAN,
           raw : [Everyone -> SUBSET Classes], masked : [Everyone -> SUBSET Classes],
           bronze : SUBSET Everyone]

AsSet(s) == {s[i] : i \in DOMAIN s}
Names(policies) == {p.name : p \in policies}

(* No empty list of policies, and one configuration that builds.           *)
Complete(c) == c.tags = Classes /\ \A p \in AsSet(c.policies) : p.grantees # {}

ASSUME AccessAssumption ==
  /\ Governed \subseteq Builders /\ MaxApplies \in Nat
  /\ \A c \in Configs : c \in Config /\ c.policies # <<>>
  /\ \E c \in Configs : Complete(c)

VARIABLES
  conf,      \* what Terraform has applied
  applies,   \* how often since
  policies,  \* the row access policies on the table
  tags,      \* classes whose columns carry their policy tag
  filled,    \* classes with values in the rows: the others are null
  build,     \* builder -> the run it is at, see Build
  last,      \* builder -> how its last run ended
  probe,     \* the validation under way, see Probe
  steady     \* nothing was altered since that validation began

tableVars == <<policies, tags, filled>>
accessVars == <<conf, applies, tableVars, build, last, probe, steady>>

NoVars == [policies |-> <<>>, tags |-> {}]
Vars == {NoVars} \cup {[policies |-> c.policies, tags |-> c.tags] : c \in Configs}

Build == [at : {"idle", "create", "hook", "policies", "tags"}, vars : Vars, next : Nat]
Probe == [at : Nat, masking : BOOLEAN, regions : SUBSET Regions, clean : BOOLEAN]

AccessTypeOK ==
  /\ conf \in Configs /\ applies \in 0 .. MaxApplies
  /\ policies \subseteq UNION {AsSet(c.policies) : c \in Configs}
  /\ tags \subseteq Classes /\ filled \subseteq Classes
  /\ build \in [Builders -> Build] /\ last \in [Builders -> {"ok", "failed"}]
  /\ probe \in Probe /\ steady \in BOOLEAN

AccessInit ==
  /\ conf \in {c \in Configs : Complete(c)}
  /\ applies = 0
  /\ policies = AsSet(conf.policies) /\ tags = Classes
  /\ filled \in SUBSET Classes
  /\ build = [b \in Builders |-> [at |-> "idle", vars |-> NoVars, next |-> 1]]
  /\ last = [b \in Builders |-> "ok"]
  /\ probe = [at |-> 0, masking |-> FALSE, regions |-> {}, clean |-> FALSE]
  /\ steady = FALSE

(* terraform apply: the grants take effect at once, the rest by a build.   *)
Apply(c) ==
  /\ applies < MaxApplies /\ c # conf
  /\ applies' = applies + 1 /\ conf' = c /\ steady' = FALSE
  /\ UNCHANGED <<tableVars, build, last, probe>>

-----------------------------------------------------------------------------
(* dbt build, as far as it concerns the table.                             *)

Goto(b, at) == build' = [build EXCEPT ![b].at = at]
Altered == steady' = FALSE /\ UNCHANGED <<conf, applies, filled, last, probe>>

(* build_vars takes two of the outputs; who does not ask for it goes by    *)
(* the defaults of dbt_project.yml.                                        *)
ReadVars(b) ==
  /\ build[b].at = "idle"
  /\ build' = [build EXCEPT ![b] =
       [at |-> "create", next |-> 1,
        vars |-> IF b \in Governed THEN [policies |-> conf.policies, tags |-> conf.tags]
                 ELSE NoVars]]
  /\ UNCHANGED <<conf, applies, tableVars, last, probe, steady>>

(* create or replace table, which drops the policies and the tags.         *)
CreateTable(b) ==
  /\ build[b].at = "create"
  /\ policies' = {} /\ tags' = {}
  /\ Goto(b, IF build[b].vars.policies = <<>> THEN "tags" ELSE "hook")
  /\ Altered

DropPolicies(b) ==
  /\ build[b].at = "hook"
  /\ policies' = {}
  /\ Goto(b, "policies")
  /\ Altered /\ UNCHANGED tags

(* create or replace row access policy: by its name.                       *)
CreatePolicy(b) ==
  LET todo == build[b].vars.policies
      new == todo[build[b].next]
  IN /\ build[b].at = "policies" /\ new.grantees # {}
     /\ policies' = {p \in policies : p.name # new.name} \cup {new}
     /\ build' = [build EXCEPT ![b].next = @ + 1,
                               ![b].at = IF build[b].next = Len(todo) THEN "tags" ELSE @]
     /\ Altered /\ UNCHANGED tags

Ended(b, how) ==
  /\ build' = [build EXCEPT ![b] = [at |-> "idle", vars |-> NoVars, next |-> 1]]
  /\ last' = [last EXCEPT ![b] = how]

(* Faulty: a class without a tag is a warning even where tags are required.*)
PersistDocsOrWarn(b) ==
  /\ build[b].at = "tags"
  /\ tags' = build[b].vars.tags
  /\ Ended(b, "ok")
  /\ steady' = FALSE /\ UNCHANGED <<conf, applies, policies, filled, probe>>

(* persist_docs patches the schema with what resolve_policy_tags returns;  *)
(* require_policy_tags makes a class without a tag raise.                  *)
PersistDocs(b) ==
  /\ build[b].at = "tags"
  /\ b \in Governed => Classes \subseteq build[b].vars.tags
  /\ tags' = build[b].vars.tags
  /\ Ended(b, "ok")
  /\ steady' = FALSE /\ UNCHANGED <<conf, applies, policies, filled, probe>>

(* Any statement may fail; an empty list of grantees and a missing tag do. *)
FailDbt(b) ==
  /\ build[b].at # "idle"
  /\ Ended(b, "failed")
  /\ UNCHANGED <<conf, applies, tableVars, probe, steady>>

-----------------------------------------------------------------------------
(* What BigQuery answers. Without any policy, everybody sees all rows.     *)

RowsFor(who) ==
  IF policies = {} THEN Regions
  ELSE UNION {p.regions : p \in {p \in policies : who \in p.grantees}}

Column(who, class) ==
  IF class \notin tags \/ class \in conf.raw[who] THEN "raw"
  ELSE IF conf.masking /\ class \in conf.masked[who] THEN "masked" ELSE "denied"

-----------------------------------------------------------------------------
(* validate_governance.py: EXPECTATIONS, and query after query.            *)

VisibleRegions(who, all) == IF who = "uk_desk" THEN {"UK"} ELSE all
Readable(who) ==
  CASE who = "marketing" -> {"contact"} [] who = "compliance" -> Classes [] OTHER -> {}
Masked(who) ==
  CASE who = "uk_desk" -> Classes [] who = "marketing" -> Classes \ {"contact"} [] OTHER -> {}

(* PII_COLUMNS, after the queries for Bronze and for the rows.             *)
Queries == <<"bronze", "rows", "person_name", "date_of_birth", "contact">>
LastQuery == Len(Personas) * Len(Queries) + 1

(* _assert_masked: names and dates pass for want of values, rows must come *)
(* back, and so must addresses.                                            *)
LooksMasked(who, class) ==
  /\ RowsFor(who) # {}
  /\ class \in filled => Column(who, class) = "masked"
  /\ class = "contact" => class \in filled

(* Faulty: a masked column is one that can be queried.                     *)
PassesOnSuccess(who, query) ==
  CASE query = "bronze" -> who \notin conf.bronze
    [] query = "rows" -> RowsFor(who) = VisibleRegions(who, probe.regions)
    [] query \in Readable(who) -> Column(who, query) # "denied"
    [] query \in Masked(who) /\ probe.masking -> Column(who, query) # "denied"
    [] OTHER -> Column(who, query) = "denied"

Passes(who, query) ==
  CASE query = "bronze" -> who \notin conf.bronze
    [] query = "rows" -> RowsFor(who) = VisibleRegions(who, probe.regions)
    [] query \in Readable(who) -> Column(who, query) # "denied"
    [] query \in Masked(who) /\ probe.masking ->
         Column(who, query) # "denied" /\ LooksMasked(who, query)
    [] OTHER -> Column(who, query) = "denied"

(* terraform output, and the regions the operator sees.                    *)
StartProbe ==
  /\ probe.at \in {0, LastQuery}
  /\ probe' = [at |-> 1, masking |-> conf.masking, regions |-> RowsFor("operator"), clean |-> TRUE]
  /\ steady' = TRUE
  /\ UNCHANGED <<conf, applies, tableVars, build, last>>

AskAs ==
  /\ probe.at \in 1 .. LastQuery - 1
  /\ LET who == Personas[((probe.at - 1) \div Len(Queries)) + 1]
         query == Queries[((probe.at - 1) % Len(Queries)) + 1]
     IN probe' = [probe EXCEPT !.at = @ + 1, !.clean = @ /\ Passes(who, query)]
  /\ UNCHANGED <<conf, applies, tableVars, build, last, steady>>

AccessNext ==
  \/ \E c \in Configs : Apply(c)
  \/ \E b \in Builders : ReadVars(b)
  \/ \E b \in Builders : CreateTable(b)
  \/ \E b \in Builders : DropPolicies(b)
  \/ \E b \in Builders : CreatePolicy(b)
  \/ \E b \in Builders : PersistDocs(b)
  \/ \E b \in Builders : FailDbt(b)
  \/ StartProbe
  \/ AskAs

AccessSpec == AccessInit /\ [][AccessNext]_accessVars

-----------------------------------------------------------------------------
(* A governance control does not disappear without an alert: when no build *)
(* is under way and nobody's last build has failed, the table has all the  *)
(* policies of some configuration and all its tags, however builds with    *)
(* old and new configurations overlapped.                                  *)
NeverSilentlyOpen ==
  (\A b \in Builders : build[b].at = "idle" /\ last[b] = "ok") =>
    /\ tags = Classes
    /\ \E c \in Configs : Names(AsSet(c.policies)) \subseteq Names(policies)

(* A validation without a failed check, during which nothing was altered,  *)
(* proves that no persona gets a row or a raw value it should not.         *)
PassIsProof ==
  probe.at = LastQuery /\ probe.clean /\ steady =>
    \A who \in Everyone :
      /\ who \notin conf.bronze
      /\ RowsFor(who) \subseteq VisibleRegions(who, Regions)
      /\ \A class \in filled \ Readable(who) :
           RowsFor(who) = {} \/ Column(who, class) # "raw"
=============================================================================
