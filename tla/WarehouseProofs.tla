--------------------------- MODULE WarehouseProofs ---------------------------
(***************************************************************************)
(* Who sees what of the warehouse, and what stays on its storage. Access:  *)
(* that no control disappears unnoticed, for any number of builders and    *)
(* configurations, if every builder is told what Terraform has applied,    *)
(* and that a validation that passes is a proof. The lake: that an erased  *)
(* row is out of the files, for any number of rows, commits and snapshots, *)
(* on either delete mode.                                                  *)
(***************************************************************************)
EXTENDS MCWarehouse, MartsProofs, KeyVaultProofs, TLAPS

-----------------------------------------------------------------------------
(* Access (AccessControl).                                                 *)

At(b) == build[b].at
Todo(b) == build[b].vars.policies
Altering == {"hook", "policies", "tags"}

(* What a build works with.                                                *)
RunInv(b) ==
  /\ At(b) \in {"idle", "create", "hook", "policies", "tags"}
  /\ At(b) # "idle" =>
       \E c \in Configs : build[b].vars = [policies |-> c.policies, tags |-> c.tags]
  /\ At(b) \in {"create", "hook"} => build[b].next = 1
  /\ At(b) = "policies" => build[b].next \in 1 .. Len(Todo(b))

(* A build that has failed and has not touched the table since.            *)
KnownToFail(b) == At(b) \in {"idle", "create"} /\ last[b] = "failed"

(* The policies it has created so far are there, whoever created others.   *)
Created(b) ==
  /\ At(b) = "policies" =>
       \A i \in 1 .. build[b].next - 1 : Todo(b)[i].name \in Names(policies)
  /\ At(b) = "tags" => Names(AsSet(Todo(b))) \subseteq Names(policies)

Restored == \E c \in Configs : Names(AsSet(c.policies)) \subseteq Names(policies)

(* Whoever dropped the policies last is at work on them or has failed.     *)
PoliciesAccounted ==
  Restored \/ \E b \in Builders : KnownToFail(b) \/ (At(b) \in Altering /\ Created(b))

TagsAccounted ==
  tags = Classes \/ \E b \in Builders : KnownToFail(b) \/ At(b) \in Altering

AccessInv ==
  /\ conf \in Configs
  /\ build \in [Builders -> Build] /\ last \in [Builders -> {"ok", "failed"}]
  /\ \A b \in Builders : RunInv(b)
  /\ PoliciesAccounted
  /\ TagsAccounted

-----------------------------------------------------------------------------
LEMMA ConfigFacts ==
  ASSUME NEW c \in Configs
  PROVE  /\ c.policies \in Seq(Policy) /\ c.policies # <<>>
         /\ c.tags \subseteq Classes
         /\ [policies |-> c.policies, tags |-> c.tags] \in Vars
<1>1. c \in Config /\ c.policies # <<>>
  BY AccessAssumption DEF AccessAssumption
<1>2. c.policies \in Seq(Policy) /\ c.tags \in SUBSET Classes
  BY <1>1, Zenon DEF Config
<1> QED BY <1>1, <1>2 DEF Vars

LEMMA BuildFields ==
  ASSUME build \in [Builders -> Build], NEW b \in Builders
  PROVE  /\ At(b) \in {"idle", "create", "hook", "policies", "tags"}
         /\ build[b].vars \in Vars /\ build[b].next \in Nat
         /\ build[b] = [at |-> At(b), vars |-> build[b].vars, next |-> build[b].next]
  BY DEF Build, At

LEMMA AccessInitEstablishes == ASSUME AccessInit PROVE AccessInv
<1>1. conf \in Configs /\ tags = Classes
  BY DEF AccessInit
<1>2. build \in [Builders -> Build]
  BY DEF AccessInit, Build, Vars
<1>3. last \in [Builders -> {"ok", "failed"}]
  BY DEF AccessInit
<1>4. \A b \in Builders : RunInv(b)
  BY DEF AccessInit, RunInv, At
<1>5. Restored
  BY <1>1 DEF AccessInit, Restored
<1> QED BY <1>1, <1>2, <1>3, <1>4, <1>5 DEF AccessInv, PoliciesAccounted, TagsAccounted

(* Steps that leave the table and all builds alone.                        *)
LEMMA IdlePreserves ==
  ASSUME AccessInv, conf' \in Configs, UNCHANGED <<policies, tags, build, last>>
  PROVE  AccessInv'
  BY DEF AccessInv, RunInv, PoliciesAccounted, TagsAccounted, Restored, KnownToFail, Created,
         At, Todo

LEMMA ReadVarsPreserves ==
  ASSUME Governed = Builders, AccessInv, NEW b \in Builders, ReadVars(b)
  PROVE  AccessInv'
<1> DEFINE new == [at |-> "create", next |-> 1,
                   vars |-> [policies |-> conf.policies, tags |-> conf.tags]]
<1>1. conf \in Configs /\ new \in Build
  BY ConfigFacts DEF AccessInv, Build
<1>2. build' = [build EXCEPT ![b] = new] /\ UNCHANGED <<conf, policies, tags, last>>
  BY DEF ReadVars, tableVars
<1>3. /\ build' \in [Builders -> Build] /\ build'[b] = new
      /\ \A d \in Builders \ {b} : build'[d] = build[d]
  BY <1>1, <1>2 DEF AccessInv
<1>4. At(b) = "idle"
  BY DEF ReadVars, At
<1>5. \A d \in Builders : RunInv(d)'
  BY <1>1, <1>2, <1>3 DEF AccessInv, RunInv, At, Todo
<1>6. \A d \in Builders : KnownToFail(d) => KnownToFail(d)'
  BY <1>2, <1>3 DEF KnownToFail, At
<1>7. \A d \in Builders : At(d) \in Altering => At(d)' \in Altering /\ (Created(d) => Created(d)')
  BY <1>2, <1>3, <1>4 DEF Created, At, Todo, Altering
<1>8. Restored => Restored'
  BY <1>2 DEF Restored
<1> QED
  BY <1>1, <1>2, <1>3, <1>5, <1>6, <1>7, <1>8 DEF AccessInv, PoliciesAccounted, TagsAccounted

LEMMA CreateTablePreserves ==
  ASSUME AccessInv, NEW b \in Builders, CreateTable(b)
  PROVE  AccessInv'
<1>1. PICK c \in Configs : build[b].vars = [policies |-> c.policies, tags |-> c.tags]
  BY DEF AccessInv, RunInv, CreateTable, At
<1>2. Todo(b) # <<>>
  BY <1>1, ConfigFacts DEF Todo
<1>3. build' = [build EXCEPT ![b].at = "hook"] /\ UNCHANGED <<conf, last>>
  BY <1>2 DEF CreateTable, Goto, Altered, Todo
<1>4. /\ build' \in [Builders -> Build]
      /\ build'[b] = [build[b] EXCEPT !.at = "hook"]
      /\ \A d \in Builders \ {b} : build'[d] = build[d]
  BY <1>3 DEF AccessInv, Build
<1>5. At(b)' = "hook" /\ build'[b].vars = build[b].vars /\ build'[b].next = build[b].next
  BY <1>4, BuildFields DEF AccessInv, At, Build
<1>6. \A d \in Builders : RunInv(d)'
  <2>1. RunInv(b)'
    BY <1>1, <1>5 DEF AccessInv, RunInv, At, Todo, CreateTable
  <2>2. \A d \in Builders \ {b} : RunInv(d)'
    BY <1>4 DEF AccessInv, RunInv, At, Todo
  <2> QED BY <2>1, <2>2
<1>7. At(b)' \in Altering /\ Created(b)'
  BY <1>5 DEF Altering, Created, At
<1> QED BY <1>3, <1>4, <1>6, <1>7 DEF AccessInv, PoliciesAccounted, TagsAccounted

LEMMA DropPoliciesPreserves ==
  ASSUME AccessInv, NEW b \in Builders, DropPolicies(b)
  PROVE  AccessInv'
<1>1. PICK c \in Configs : build[b].vars = [policies |-> c.policies, tags |-> c.tags]
  BY DEF AccessInv, RunInv, DropPolicies, At
<1>2. Len(Todo(b)) \in Nat \ {0}
  BY <1>1, ConfigFacts DEF Todo
<1>3. build' = [build EXCEPT ![b].at = "policies"] /\ UNCHANGED <<conf, tags, last>>
  BY DEF DropPolicies, Goto, Altered
<1>4. /\ build' \in [Builders -> Build]
      /\ build'[b] = [build[b] EXCEPT !.at = "policies"]
      /\ \A d \in Builders \ {b} : build'[d] = build[d]
  BY <1>3 DEF AccessInv, Build
<1>5. At(b)' = "policies" /\ build'[b].vars = build[b].vars /\ build'[b].next = 1
  BY <1>4, BuildFields DEF AccessInv, At, Build, RunInv, DropPolicies
<1>6. \A d \in Builders : RunInv(d)'
  <2>1. RunInv(b)'
    BY <1>1, <1>2, <1>5 DEF RunInv, At, Todo
  <2>2. \A d \in Builders \ {b} : RunInv(d)'
    BY <1>4 DEF AccessInv, RunInv, At, Todo
  <2> QED BY <2>1, <2>2
<1>7. At(b)' \in Altering /\ Created(b)'
  BY <1>5 DEF Altering, Created, At
<1> QED BY <1>3, <1>4, <1>6, <1>7 DEF AccessInv, PoliciesAccounted, TagsAccounted

LEMMA CreatePolicyPreserves ==
  ASSUME AccessInv, NEW b \in Builders, CreatePolicy(b)
  PROVE  AccessInv'
<1> DEFINE k == build[b].next
           new == Todo(b)[k]
           end == k = Len(Todo(b))
<1>1. PICK c \in Configs : build[b].vars = [policies |-> c.policies, tags |-> c.tags]
  BY DEF AccessInv, RunInv, CreatePolicy, At
<1>2. /\ At(b) = "policies" /\ k \in 1 .. Len(Todo(b)) /\ Len(Todo(b)) \in Nat
      /\ DOMAIN Todo(b) = 1 .. Len(Todo(b))
  BY <1>1, ConfigFacts DEF AccessInv, RunInv, CreatePolicy, At, Todo
<1>3. /\ policies' = {p \in policies : p.name # new.name} \cup {new}
      /\ UNCHANGED <<conf, tags, last>>
  BY DEF CreatePolicy, Altered, Todo
<1>4. Names(policies) \cup {new.name} \subseteq Names(policies')
  BY <1>3 DEF Names
<1>5. build' = [build EXCEPT ![b].next = @ + 1, ![b].at = IF end THEN "tags" ELSE @]
  BY DEF CreatePolicy, Todo
<1>6. /\ build' \in [Builders -> Build]
      /\ \A d \in Builders \ {b} : build'[d] = build[d]
      /\ build'[b].vars = build[b].vars /\ build'[b].next = k + 1
      /\ build'[b].at = IF end THEN "tags" ELSE "policies"
  <2>1. /\ build[b] \in Build /\ k \in Nat /\ At(b) = "policies"
        /\ build \in [Builders -> Build]
    BY <1>2 DEF AccessInv
  <2> DEFINE now == [at |-> IF end THEN "tags" ELSE "policies",
                     vars |-> build[b].vars, next |-> k + 1]
  <2>2. now \in Build
    BY <2>1 DEF Build
  <2>3. build'[b] = now /\ \A d \in Builders \ {b} : build'[d] = build[d]
    BY <1>5, <2>1 DEF Build, At
  <2>4. build' = [d \in Builders |-> build'[d]]
    BY <1>5, <2>1
  <2>5. \A d \in Builders : build'[d] \in Build
    BY <2>1, <2>2, <2>3
  <2>6. build' \in [Builders -> Build]
    BY <2>4, <2>5
  <2> QED BY <2>3, <2>6
<1>7. \A d \in Builders : RunInv(d)'
  <2>1. RunInv(b)'
    BY <1>1, <1>2, <1>6 DEF RunInv, At, Todo
  <2>2. \A d \in Builders \ {b} : RunInv(d)'
    BY <1>6 DEF AccessInv, RunInv, At, Todo
  <2> QED BY <2>1, <2>2
<1>8. Restored => Restored'
  BY <1>4 DEF Restored
<1>9. \A d \in Builders : KnownToFail(d) => KnownToFail(d)'
  BY <1>2, <1>3, <1>6 DEF KnownToFail, At
<1>10. \A d \in Builders : At(d) \in Altering => At(d)' \in Altering
  BY <1>2, <1>6 DEF At, Altering
<1>11. Created(b) => Created(b)'
  <2> SUFFICES ASSUME Created(b) PROVE Created(b)'
    OBVIOUS
  <2>1. \A i \in 1 .. k : Todo(b)[i].name \in Names(policies')
    BY <1>2, <1>4 DEF Created
  <2>2. ASSUME end PROVE Names(AsSet(Todo(b))) \subseteq Names(policies')
    BY <1>2, <2>1, <2>2 DEF Names, AsSet
  <2> QED BY <1>2, <1>6, <2>1, <2>2 DEF Created, At, Todo
<1>12. \A d \in Builders \ {b} : Created(d) => Created(d)'
  BY <1>4, <1>6 DEF Created, At, Todo
<1> QED
  BY <1>3, <1>6, <1>7, <1>8, <1>9, <1>10, <1>11, <1>12
  DEF AccessInv, PoliciesAccounted, TagsAccounted

LEMMA PersistDocsPreserves ==
  ASSUME Governed = Builders, AccessInv, NEW b \in Builders, PersistDocs(b)
  PROVE  AccessInv'
<1>1. PICK c \in Configs : build[b].vars = [policies |-> c.policies, tags |-> c.tags]
  BY DEF AccessInv, RunInv, PersistDocs, At
<1>2. tags' = Classes /\ At(b) = "tags"
  <2>1. build[b].vars.tags = c.tags /\ c.tags \subseteq Classes
    BY <1>1, ConfigFacts
  <2>2. Classes \subseteq build[b].vars.tags /\ tags' = build[b].vars.tags
    BY Zenon DEF PersistDocs
  <2> QED BY <2>1, <2>2 DEF PersistDocs, At
<1>3. /\ build' = [build EXCEPT ![b] = [at |-> "idle", vars |-> NoVars, next |-> 1]]
      /\ last' = [last EXCEPT ![b] = "ok"]
      /\ UNCHANGED <<conf, policies>>
  BY DEF PersistDocs, Ended
<1>4. /\ build' \in [Builders -> Build] /\ last' \in [Builders -> {"ok", "failed"}]
      /\ At(b)' = "idle"
      /\ \A d \in Builders \ {b} : build'[d] = build[d] /\ last'[d] = last[d]
  BY <1>3 DEF AccessInv, Build, Vars, At
<1>5. \A d \in Builders : RunInv(d)'
  BY <1>4 DEF AccessInv, RunInv, At, Todo
<1>6. Created(b) => Restored'
  BY <1>1, <1>2, <1>3 DEF Created, Restored, Todo
<1>7. Restored => Restored'
  BY <1>3 DEF Restored
<1>8. \A d \in Builders \ {b} : (KnownToFail(d) => KnownToFail(d)')
        /\ (At(d) \in Altering /\ Created(d) => (At(d) \in Altering /\ Created(d))')
  BY <1>3, <1>4 DEF KnownToFail, Created, At, Todo, Altering
<1>9. ~KnownToFail(b)
  BY <1>2 DEF KnownToFail
<1> QED
  BY <1>2, <1>3, <1>4, <1>5, <1>6, <1>7, <1>8, <1>9
  DEF AccessInv, PoliciesAccounted, TagsAccounted

LEMMA FailDbtPreserves ==
  ASSUME AccessInv, NEW b \in Builders, FailDbt(b)
  PROVE  AccessInv'
<1>1. /\ build' = [build EXCEPT ![b] = [at |-> "idle", vars |-> NoVars, next |-> 1]]
      /\ last' = [last EXCEPT ![b] = "failed"]
      /\ UNCHANGED conf
  BY DEF FailDbt, Ended
<1>2. /\ build' \in [Builders -> Build] /\ last' \in [Builders -> {"ok", "failed"}]
      /\ At(b)' = "idle" /\ last'[b] = "failed"
      /\ \A d \in Builders \ {b} : build'[d] = build[d]
  BY <1>1 DEF AccessInv, Build, Vars, At
<1>3. \A d \in Builders : RunInv(d)'
  BY <1>2 DEF AccessInv, RunInv, At, Todo
<1>4. KnownToFail(b)'
  BY <1>2 DEF KnownToFail
<1> QED BY <1>1, <1>2, <1>3, <1>4 DEF AccessInv, PoliciesAccounted, TagsAccounted

LEMMA AccessStep ==
  ASSUME Governed = Builders, AccessInv, [AccessNext]_accessVars
  PROVE  AccessInv'
<1>1. CASE \E c \in Configs : Apply(c)
  BY <1>1, IdlePreserves DEF Apply, tableVars
<1>2. CASE StartProbe \/ AskAs \/ UNCHANGED accessVars
  BY <1>2, IdlePreserves DEF StartProbe, AskAs, accessVars, tableVars, AccessInv
<1> QED
  BY <1>1, <1>2, ReadVarsPreserves, CreateTablePreserves, DropPoliciesPreserves,
     CreatePolicyPreserves, PersistDocsPreserves, FailDbtPreserves
  DEF AccessNext

(* When every build is governed, a table that has lost a policy or a tag   *)
(* is either being worked on or its last build has failed.                 *)
THEOREM ControlsReturn == Governed = Builders /\ AccessSpec => []NeverSilentlyOpen
<1> SUFFICES ASSUME Governed = Builders PROVE AccessSpec => []NeverSilentlyOpen
  OBVIOUS
<1>1. AccessInit => AccessInv
  BY AccessInitEstablishes
<1>2. AccessInv /\ [AccessNext]_accessVars => AccessInv'
  BY AccessStep
<1>3. AccessInv => NeverSilentlyOpen
  <2> SUFFICES ASSUME AccessInv, \A b \in Builders : build[b].at = "idle" /\ last[b] = "ok"
               PROVE  tags = Classes /\ Restored
    BY DEF NeverSilentlyOpen, Restored
  <2>1. \A b \in Builders : ~KnownToFail(b) /\ At(b) \notin Altering
    BY DEF KnownToFail, At, Altering
  <2> QED BY <2>1 DEF AccessInv, PoliciesAccounted, TagsAccounted
<1> QED BY <1>1, <1>2, <1>3, PTL DEF AccessSpec

-----------------------------------------------------------------------------
(* What a run of dbt works with, told of Terraform or not.                 *)

Position(b) ==
  /\ At(b) \in {"create", "hook"} => build[b].next = 1
  /\ At(b) = "hook" => Todo(b) # <<>>
  /\ At(b) = "policies" => build[b].next \in 1 .. Len(Todo(b))

TableInv == AccessTypeOK /\ \A b \in Builders : Position(b)

LEMMA VarsFacts ==
  ASSUME NEW v \in Vars
  PROVE  /\ v.policies \in Seq(Policy) /\ v.tags \subseteq Classes
         /\ AsSet(v.policies) \subseteq UNION {AsSet(c.policies) : c \in Configs}
<1>1. CASE v = NoVars
  <2>1. v.policies = <<>> /\ v.tags = {}
    BY <1>1 DEF NoVars
  <2>2. AsSet(<<>>) = {}
    BY DEF AsSet
  <2> QED BY <2>1, <2>2
<1>2. ASSUME NEW c \in Configs, v = [policies |-> c.policies, tags |-> c.tags]
      PROVE  /\ v.policies \in Seq(Policy) /\ v.tags \subseteq Classes
             /\ AsSet(v.policies) \subseteq UNION {AsSet(d.policies) : d \in Configs}
  BY <1>2, ConfigFacts
<1> QED BY <1>1, <1>2 DEF Vars

LEMMA PoliciesAreTyped ==
  ASSUME NEW S \in SUBSET (UNION {AsSet(c.policies) : c \in Configs}), NEW p \in S
  PROVE  p \in Policy
<1>1. PICK c \in Configs : p \in AsSet(c.policies)
  OBVIOUS
<1>2. PICK i \in DOMAIN c.policies : p = c.policies[i]
  BY <1>1 DEF AsSet
<1>3. c.policies \in Seq(Policy)
  BY ConfigFacts
<1> QED BY <1>2, <1>3

LEMMA RowsAreRegions ==
  ASSUME AccessTypeOK, NEW who PROVE RowsFor(who) \subseteq Regions
<1>1. policies \in SUBSET (UNION {AsSet(c.policies) : c \in Configs})
  BY DEF AccessTypeOK
<1>2. \A p \in policies : p \in Policy
  BY <1>1, PoliciesAreTyped
<1>3. \A p \in policies : p.regions \subseteq Regions
  BY <1>2 DEF Policy
<1> QED BY <1>3 DEF RowsFor

LEMMA TableInitEstablishes == ASSUME AccessInit PROVE TableInv
<1>1. conf \in Configs /\ policies = AsSet(conf.policies) /\ tags = Classes /\ filled \subseteq Classes
  BY DEF AccessInit
<1>2. build \in [Builders -> Build] /\ last \in [Builders -> {"ok", "failed"}]
  BY DEF AccessInit, Build, Vars
<1>3. probe \in Probe /\ steady \in BOOLEAN
  BY DEF AccessInit, Probe
<1>4. applies \in 0 .. MaxApplies
  BY AccessAssumption DEF AccessInit, AccessAssumption
<1>5. AccessTypeOK
  BY <1>1, <1>2, <1>3, <1>4 DEF AccessTypeOK
<1>6. \A b \in Builders : Position(b)
  BY DEF AccessInit, Position, At
<1> QED BY <1>5, <1>6 DEF TableInv

LEMMA AtAndClean ==
  ASSUME NEW p \in Probe, NEW k \in Nat, NEW c \in BOOLEAN
  PROVE  [p EXCEPT !.at = k, !.clean = c]
           = [at |-> k, masking |-> p.masking, regions |-> p.regions, clean |-> c]
<1> DEFINE q == [p EXCEPT !.at = k, !.clean = c]
<1>1. q \in Probe /\ q.at = k /\ q.clean = c /\ q.masking = p.masking /\ q.regions = p.regions
  BY DEF Probe
<1> HIDE DEF q
<1>2. q = [at |-> k, masking |-> p.masking, regions |-> p.regions, clean |-> c]
  BY <1>1 DEF Probe
<1> QED BY <1>2 DEF q

(* One build moves on.                                                     *)
LEMMA BuildMoves ==
  ASSUME TableInv, NEW b \in Builders, NEW run \in Build, build' = [build EXCEPT ![b] = run],
         run.at \in {"create", "hook"} => run.next = 1,
         run.at = "hook" => run.vars.policies # <<>>,
         run.at = "policies" => run.next \in 1 .. Len(run.vars.policies)
  PROVE  build' \in [Builders -> Build] /\ \A d \in Builders : Position(d)'
<1>1. build \in [Builders -> Build]
  BY DEF TableInv, AccessTypeOK
<1>2. /\ build' \in [Builders -> Build] /\ build'[b] = run
      /\ \A d \in Builders \ {b} : build'[d] = build[d]
  BY <1>1
<1>3. \A d \in Builders : Position(d)'
  BY <1>2 DEF TableInv, Position, At, Todo
<1> QED BY <1>2, <1>3

LEMMA EndedMoves ==
  ASSUME TableInv, NEW b \in Builders, NEW how \in {"ok", "failed"}, Ended(b, how)
  PROVE  /\ build' \in [Builders -> Build] /\ last' \in [Builders -> {"ok", "failed"}]
         /\ \A d \in Builders : Position(d)'
<1> DEFINE run == [at |-> "idle", vars |-> NoVars, next |-> 1]
<1>1. run \in Build /\ build' = [build EXCEPT ![b] = run]
  BY DEF Ended, Build, Vars
<1>2. last' \in [Builders -> {"ok", "failed"}]
  BY DEF Ended, TableInv, AccessTypeOK
<1> QED BY <1>1, <1>2, BuildMoves

(* The questions of a validation, in their order.                          *)
Who(k) == Personas[((k - 1) \div Len(Queries)) + 1]
Query(k) == Queries[((k - 1) % Len(Queries)) + 1]

LEMMA AskedNext ==
  ASSUME AskAs, probe \in Probe
  PROVE  /\ probe' \in Probe /\ probe'.at = probe.at + 1
         /\ probe'.masking = probe.masking /\ probe'.regions = probe.regions
         /\ probe'.clean => probe.clean /\ Passes(Who(probe.at), Query(probe.at))
<1> DEFINE passes == Passes(Who(probe.at), Query(probe.at))
<1>1. probe.at \in Nat /\ probe.clean \in BOOLEAN
  BY DEF Probe
<1>2. probe' = [probe EXCEPT !.at = probe.at + 1, !.clean = probe.clean /\ passes]
  BY Zenon DEF AskAs, Who, Query
<1> HIDE DEF passes
<1>3. PICK c \in BOOLEAN : c = (probe.clean /\ passes)
  BY Zenon
<1>4. probe.at + 1 \in Nat
  BY <1>1
<1>5. probe' = [probe EXCEPT !.at = probe.at + 1, !.clean = c]
  BY <1>2, <1>3, Zenon
<1>6. probe' = [at |-> probe.at + 1, masking |-> probe.masking, regions |-> probe.regions, clean |-> c]
  BY <1>4, <1>5, AtAndClean, probe \in Probe, Zenon
<1>7. /\ probe' \in Probe /\ probe'.at = probe.at + 1 /\ probe'.clean = c
      /\ probe'.masking = probe.masking /\ probe'.regions = probe.regions
  BY <1>4, <1>6 DEF Probe
<1>8. probe'.clean => probe.clean /\ passes
  BY <1>3, <1>7, Zenon
<1> QED BY <1>7, <1>8, Zenon DEF passes

LEMMA TableStep == ASSUME TableInv, [AccessNext]_accessVars PROVE TableInv'
<1> USE DEF TableInv
<1>1. ASSUME NEW c \in Configs, Apply(c) PROVE TableInv'
  <2>1. applies' \in 0 .. MaxApplies
    BY <1>1, AccessAssumption DEF Apply, AccessTypeOK, AccessAssumption
  <2> QED BY <1>1, <2>1 DEF Apply, tableVars, AccessTypeOK, Position, At, Todo
<1>2. ASSUME NEW b \in Builders, ReadVars(b) PROVE TableInv'
  <2> DEFINE run == [at |-> "create", next |-> 1,
                     vars |-> IF b \in Governed THEN [policies |-> conf.policies, tags |-> conf.tags]
                              ELSE NoVars]
  <2>1. run \in Build /\ build' = [build EXCEPT ![b] = run]
    BY <1>2, ConfigFacts DEF ReadVars, Build, Vars, AccessTypeOK
  <2>2. run.at = "create" /\ run.next = 1
    OBVIOUS
  <2> HIDE DEF run
  <2>3. build' \in [Builders -> Build] /\ \A d \in Builders : Position(d)'
    BY <2>1, <2>2, BuildMoves
  <2> QED BY <1>2, <2>3 DEF ReadVars, tableVars, AccessTypeOK
<1>3. ASSUME NEW b \in Builders, CreateTable(b) PROVE TableInv'
  <2> DEFINE goto == IF Todo(b) = <<>> THEN "tags" ELSE "hook"
             run == [build[b] EXCEPT !.at = goto]
  <2>1. build[b] \in Build /\ build[b].at = "create" /\ build[b].next = 1
    BY <1>3 DEF CreateTable, AccessTypeOK, Position, At
  <2>2. run \in Build /\ run.at = goto /\ run.next = 1 /\ run.vars = build[b].vars
    BY <2>1 DEF Build
  <2>3. build' = [build EXCEPT ![b] = run]
    BY <1>3 DEF CreateTable, Goto, Todo
  <2>4. /\ goto = "hook" => run.vars.policies # <<>>
        /\ goto # "policies" /\ goto # "create"
    BY <2>2 DEF Todo
  <2> HIDE DEF goto, run
  <2>5. build' \in [Builders -> Build] /\ \A d \in Builders : Position(d)'
    BY <2>2, <2>3, <2>4, BuildMoves
  <2> QED BY <1>3, <2>5 DEF CreateTable, Altered, AccessTypeOK
<1>4. ASSUME NEW b \in Builders, DropPolicies(b) PROVE TableInv'
  <2> DEFINE run == [build[b] EXCEPT !.at = "policies"]
  <2>1. build[b] \in Build /\ build[b].next = 1 /\ Todo(b) # <<>> /\ Todo(b) \in Seq(Policy)
    <3>1. build[b] \in Build /\ build[b].next = 1 /\ Todo(b) # <<>>
      BY <1>4 DEF DropPolicies, AccessTypeOK, Position, At
    <3>2. build[b].vars \in Vars
      BY <3>1 DEF Build
    <3> QED BY <3>1, <3>2, VarsFacts DEF Todo
  <2>2. 1 \in 1 .. Len(Todo(b))
    BY <2>1
  <2>3. run \in Build /\ run.at = "policies" /\ run.next = 1 /\ run.vars = build[b].vars
    BY <2>1 DEF Build
  <2>4. build' = [build EXCEPT ![b] = run]
    BY <1>4 DEF DropPolicies, Goto
  <2>5. build' \in [Builders -> Build] /\ \A d \in Builders : Position(d)'
    BY <2>2, <2>3, <2>4, BuildMoves DEF Todo
  <2> QED BY <1>4, <2>5 DEF DropPolicies, Altered, AccessTypeOK
<1>5. ASSUME NEW b \in Builders, CreatePolicy(b) PROVE TableInv'
  <2> DEFINE k == build[b].next
             new == Todo(b)[k]
             goto == IF k = Len(Todo(b)) THEN "tags" ELSE "policies"
             run == [at |-> goto, vars |-> build[b].vars, next |-> k + 1]
  <2>1. /\ build[b] \in Build /\ build[b].at = "policies" /\ k \in 1 .. Len(Todo(b))
        /\ build[b].vars \in Vars /\ k \in Nat
    BY <1>5 DEF CreatePolicy, AccessTypeOK, Position, At, Build
  <2>2. /\ Todo(b) \in Seq(Policy)
        /\ AsSet(Todo(b)) \subseteq UNION {AsSet(c.policies) : c \in Configs}
    BY <2>1, VarsFacts DEF Todo
  <2>3. new \in AsSet(Todo(b))
    BY <2>1, <2>2 DEF AsSet
  <2>4. policies' \subseteq UNION {AsSet(c.policies) : c \in Configs}
    <3>1. policies' = {p \in policies : p.name # new.name} \cup {new}
      BY <1>5 DEF CreatePolicy, Todo
    <3> HIDE DEF new
    <3> QED BY <2>2, <2>3, <3>1 DEF AccessTypeOK
  <2>5. run \in Build
    BY <2>1 DEF Build
  <2>6. build' = [build EXCEPT ![b] = run]
    <3>1. build' = [build EXCEPT ![b].next = k + 1, ![b].at = IF k = Len(Todo(b)) THEN "tags" ELSE @]
      BY <1>5 DEF CreatePolicy, Todo
    <3>2. build \in [Builders -> Build]
      BY DEF AccessTypeOK
    <3>3. build'[b] = run /\ \A d \in Builders \ {b} : build'[d] = build[d]
      BY <2>1, <3>1, <3>2 DEF Build
    <3>4. build' = [d \in Builders |-> build'[d]]
      BY <3>1, <3>2
    <3>5. \A d \in Builders : build'[d] = [build EXCEPT ![b] = run][d]
      BY <3>2, <3>3
    <3> HIDE DEF run
    <3> QED BY <3>2, <3>4, <3>5
  <2>7. goto = "policies" => k + 1 \in 1 .. Len(Todo(b))
    BY <2>1, <2>2
  <2>8. /\ run.at \in {"create", "hook"} => run.next = 1
        /\ run.at = "hook" => run.vars.policies # <<>>
        /\ run.at = "policies" => run.next \in 1 .. Len(run.vars.policies)
    BY <2>7 DEF Todo
  <2>9. build' \in [Builders -> Build] /\ \A d \in Builders : Position(d)'
    BY <2>5, <2>6, <2>8, BuildMoves
  <2> QED BY <1>5, <2>4, <2>9 DEF CreatePolicy, Altered, AccessTypeOK
<1>6. ASSUME NEW b \in Builders, PersistDocs(b) PROVE TableInv'
  <2>1. build[b].vars \in Vars
    BY DEF AccessTypeOK, Build
  <2>2. tags' \subseteq Classes
    BY <1>6, <2>1, VarsFacts DEF PersistDocs
  <2>3. /\ build' \in [Builders -> Build] /\ last' \in [Builders -> {"ok", "failed"}]
        /\ \A d \in Builders : Position(d)'
    BY <1>6, EndedMoves DEF PersistDocs
  <2> QED BY <1>6, <2>2, <2>3 DEF PersistDocs, AccessTypeOK
<1>7. ASSUME NEW b \in Builders, FailDbt(b) PROVE TableInv'
  <2>1. /\ build' \in [Builders -> Build] /\ last' \in [Builders -> {"ok", "failed"}]
        /\ \A d \in Builders : Position(d)'
    BY <1>7, EndedMoves DEF FailDbt
  <2> QED BY <1>7, <2>1 DEF FailDbt, tableVars, AccessTypeOK
<1>8. CASE StartProbe
  <2>1. RowsFor("operator") \subseteq Regions /\ conf.masking \in BOOLEAN
    <3>1. conf \in Config
      BY AccessAssumption DEF AccessTypeOK, AccessAssumption
    <3> QED BY <3>1, RowsAreRegions DEF Config
  <2>2. probe' \in Probe
    BY <1>8, <2>1 DEF StartProbe, Probe
  <2> QED BY <1>8, <2>2 DEF StartProbe, tableVars, AccessTypeOK, Position, At, Todo
<1>9. CASE AskAs
  <2>1. probe' \in Probe
    BY <1>9, AskedNext DEF AccessTypeOK
  <2> QED BY <1>9, <2>1 DEF AskAs, tableVars, AccessTypeOK, Position, At, Todo
<1>10. CASE UNCHANGED accessVars
  BY <1>10 DEF accessVars, tableVars, AccessTypeOK, Position, At, Todo
<1> QED BY <1>1, <1>2, <1>3, <1>4, <1>5, <1>6, <1>7, <1>8, <1>9, <1>10 DEF AccessNext

-----------------------------------------------------------------------------
(* A validation during which nothing was altered has asked every question  *)
(* of the table as it is.                                                  *)
ProbeInv ==
  /\ TableInv /\ probe.at \in 0 .. LastQuery
  /\ probe.at # 0 /\ steady =>
       /\ probe.masking = conf.masking /\ probe.regions = RowsFor("operator")
       /\ probe.clean => \A k \in 1 .. probe.at - 1 : Passes(Who(k), Query(k))

LEMMA TwentyQuestions == Len(Queries) = 5 /\ LastQuery = 21
  BY DEF LastQuery, Queries, Personas

(* What a question sees, and so its answer, is as it was.                  *)
LEMMA SameAnswers ==
  ASSUME UNCHANGED <<conf, policies, tags, filled>>,
         probe'.masking = probe.masking, probe'.regions = probe.regions
  PROVE  /\ \A who, query : Passes(who, query)' = Passes(who, query)
         /\ RowsFor("operator")' = RowsFor("operator")
  BY DEF Passes, LooksMasked, RowsFor, Column

LEMMA ProbeStep == ASSUME ProbeInv, [AccessNext]_accessVars PROVE ProbeInv'
<1>1. TableInv'
  BY TableStep DEF ProbeInv
<1>2. probe \in Probe
  BY DEF ProbeInv, TableInv, AccessTypeOK
<1>3. CASE StartProbe
  <2>1. probe'.at = 1 /\ probe'.masking = conf.masking /\ probe'.regions = RowsFor("operator")
    BY <1>3 DEF StartProbe
  <2>2. conf' = conf /\ RowsFor("operator")' = RowsFor("operator")
    BY <1>3 DEF StartProbe, tableVars, RowsFor
  <2>3. \A k \in 1 .. probe'.at - 1 : FALSE
    BY <2>1
  <2>4. probe'.at \in 0 .. LastQuery
    BY <2>1, TwentyQuestions
  <2> QED BY <1>1, <2>1, <2>2, <2>3, <2>4 DEF ProbeInv
<1>4. CASE AskAs
  <2>1. /\ probe'.at = probe.at + 1 /\ probe.at \in 1 .. LastQuery - 1
        /\ probe'.masking = probe.masking /\ probe'.regions = probe.regions
        /\ probe'.clean => probe.clean /\ Passes(Who(probe.at), Query(probe.at))
    BY <1>2, <1>4, AskedNext DEF AskAs
  <2>2. steady' = steady /\ conf' = conf /\ UNCHANGED <<policies, tags, filled>>
    BY <1>4 DEF AskAs, tableVars
  <2>3. /\ \A who, query : Passes(who, query)' = Passes(who, query)
        /\ RowsFor("operator")' = RowsFor("operator")
    BY <2>1, <2>2, SameAnswers
  <2>4. probe'.at \in 0 .. LastQuery /\ probe.at # 0
    BY <2>1, TwentyQuestions
  <2>5. ASSUME steady, probe'.clean, NEW k \in 1 .. probe'.at - 1
        PROVE  Passes(Who(k), Query(k))
    <3>1. k = probe.at \/ k \in 1 .. probe.at - 1
      BY <2>1, TwentyQuestions
    <3> QED BY <2>1, <2>4, <2>5, <3>1 DEF ProbeInv
  <2>6. steady' /\ probe'.clean => \A k \in 1 .. probe'.at - 1 : Passes(Who(k), Query(k))'
    BY <2>2, <2>3, <2>5
  <2>7. steady' => probe'.masking = conf'.masking /\ probe'.regions = RowsFor("operator")'
    BY <2>1, <2>2, <2>3, <2>4 DEF ProbeInv
  <2> QED BY <1>1, <2>4, <2>6, <2>7 DEF ProbeInv
<1>5. CASE probe' = probe /\ (steady' = FALSE \/ UNCHANGED <<conf, policies, tags, filled, steady>>)
  <2>1. CASE steady' = FALSE
    BY <1>1, <1>5, <2>1 DEF ProbeInv
  <2>2. CASE UNCHANGED <<conf, policies, tags, filled, steady>>
    <3>1. /\ \A who, query : Passes(who, query)' = Passes(who, query)
          /\ RowsFor("operator")' = RowsFor("operator")
      BY <1>5, <2>2, SameAnswers
    <3> QED BY <1>1, <1>5, <2>2, <3>1 DEF ProbeInv
  <2> QED BY <1>5, <2>1, <2>2
<1>6. ASSUME NEW b \in Builders, ReadVars(b) \/ FailDbt(b)
      PROVE  probe' = probe /\ UNCHANGED <<conf, policies, tags, filled, steady>>
  BY <1>6 DEF ReadVars, FailDbt, tableVars
<1>7. ASSUME NEW b \in Builders, CreateTable(b) \/ DropPolicies(b) \/ CreatePolicy(b) \/ PersistDocs(b)
      PROVE  probe' = probe /\ steady' = FALSE
  BY <1>7 DEF CreateTable, DropPolicies, CreatePolicy, PersistDocs, Altered
<1>8. ASSUME NEW c \in Configs, Apply(c) PROVE probe' = probe /\ steady' = FALSE
  BY <1>8 DEF Apply
<1>9. CASE UNCHANGED accessVars
  BY <1>5, <1>9 DEF accessVars, tableVars
<1> QED BY <1>3, <1>4, <1>5, <1>6, <1>7, <1>8, <1>9 DEF AccessNext

(* Every persona has been asked every question.                            *)
LEMMA EverythingIsAsked ==
  ASSUME NEW who \in Everyone, NEW query \in {"bronze", "rows"} \cup Classes
  PROVE  \E k \in 1 .. 20 : who = Who(k) /\ query = Query(k)
<1>1. PICK i \in 1 .. 4 : who = Personas[i]
  BY DEF Everyone, Personas
<1>2. PICK j \in 1 .. 5 : query = Queries[j]
  BY DEF Classes, Queries
<1> DEFINE k == 5 * (i - 1) + j
<1>3. k \in 1 .. 20 /\ (k - 1) \div 5 = i - 1 /\ (k - 1) % 5 = j - 1
  OBVIOUS
<1>4. Who(k) = Personas[i] /\ Query(k) = Queries[j]
  BY <1>3, TwentyQuestions DEF Who, Query
<1> QED BY <1>1, <1>2, <1>3, <1>4

(* A validation that passes while nothing is altered proves, for every     *)
(* configuration, any policies and however builds ran before and after it, *)
(* that nobody reads Bronze, a row outside their region or a raw value     *)
(* they should not (scripts/validate_governance.py).                       *)
THEOREM ValidationProves == AccessSpec => []PassIsProof
<1>1. AccessInit => ProbeInv
  <2> SUFFICES ASSUME AccessInit PROVE ProbeInv
    OBVIOUS
  <2>1. probe.at = 0
    BY DEF AccessInit
  <2> QED BY <2>1, TableInitEstablishes, TwentyQuestions DEF ProbeInv
<1>2. ProbeInv /\ [AccessNext]_accessVars => ProbeInv'
  BY ProbeStep
<1>3. ProbeInv => PassIsProof
  <2> SUFFICES ASSUME ProbeInv, probe.at = LastQuery, probe.clean, steady, NEW who \in Everyone
               PROVE  /\ who \notin conf.bronze
                      /\ RowsFor(who) \subseteq VisibleRegions(who, Regions)
                      /\ \A class \in filled \ Readable(who) : Column(who, class) # "raw"
    BY DEF PassIsProof
  <2>1. \A k \in 1 .. 20 : Passes(Who(k), Query(k))
    BY TwentyQuestions DEF ProbeInv
  <2>2. \A query \in {"bronze", "rows"} \cup Classes : Passes(who, query)
    BY <2>1, EverythingIsAsked
  <2>3. who \notin conf.bronze
    <3>1. Passes(who, "bronze")
      BY <2>2
    <3> QED BY <3>1 DEF Passes, Readable, Masked, Classes
  <2>4. RowsFor(who) \subseteq VisibleRegions(who, Regions)
    <3>1. RowsFor(who) = VisibleRegions(who, probe.regions)
      <4>1. Passes(who, "rows")
        BY <2>2
      <4> QED BY <4>1 DEF Passes, Readable, Masked, Classes
    <3>2. probe.regions \subseteq Regions
      BY DEF ProbeInv, TableInv, AccessTypeOK, Probe
    <3> QED BY <3>1, <3>2 DEF VisibleRegions
  <2>5. ASSUME NEW class \in filled \ Readable(who) PROVE Column(who, class) # "raw"
    <3>1. class \in Classes /\ class \notin {"bronze", "rows"} /\ class \notin Readable(who)
      BY DEF ProbeInv, TableInv, AccessTypeOK, Classes
    <3>2. Passes(who, class)
      BY <2>2, <3>1
    <3>3. CASE class \in Masked(who) /\ probe.masking
      <4>1. LooksMasked(who, class)
        BY <3>1, <3>2, <3>3 DEF Passes
      <4> QED BY <4>1 DEF LooksMasked
    <3>4. CASE ~(class \in Masked(who) /\ probe.masking)
      BY <3>1, <3>2, <3>4 DEF Passes
    <3> QED BY <3>3, <3>4
  <2> QED BY <2>3, <2>4, <2>5
<1> QED BY <1>1, <1>2, <1>3, PTL DEF AccessSpec

-----------------------------------------------------------------------------
(* The lake (LakehouseErasure).                                            *)

(* Snapshots are numbered; the current one is the last.                    *)
Numbered ==
  /\ commits \in Nat /\ clock \in Instants
  /\ \A s \in snapshots : s.no \in 0 .. commits /\ s.time \in Instants /\ s.time <= clock
  /\ \A s, u \in snapshots : s.no = u.no => s = u
  /\ \E s \in snapshots : s.no = commits

(* No file that is to be written has been there before.                    *)
FilesNumbered ==
  /\ \A f \in known : f.no \in 0 .. commits + MaxCommits
  /\ \A c \in compaction : c.out.no \in 0 .. commits + MaxCommits + 1
  /\ \A s \in snapshots : s.files \subseteq known

(* Files leave storage with the last snapshot that has them.               *)
Referenced == \A f \in storage \cap known : \E s \in snapshots : f \in s.files

ErasedIsOut == \A s \in snapshots : \A f \in s.files : f.rows \cap erased = {}

(* What a query cannot see any more does not come back.                    *)
DueIsHidden ==
  /\ erased \subseteq due /\ due \subseteq Subject
  /\ Live(Current) \cap due = {}

(* A compaction writes what its base showed.                               *)
CompactionInv ==
  \A c \in compaction : c.out.rows = Live([files |-> c.base, hidden |-> c.hidden])

(* Past the rewrite, what is due is not in the current files either.       *)
RewrittenInv ==
  at \in {"deletes", "expire"} => \A f \in Current.files : f.rows \cap due = {}

LakeInv ==
  /\ Numbered /\ FilesNumbered /\ Referenced
  /\ ErasedIsOut /\ DueIsHidden /\ CompactionInv /\ RewrittenInv

-----------------------------------------------------------------------------
LEMMA CurrentIsLast ==
  ASSUME Numbered
  PROVE  /\ Current \in snapshots /\ Current.no = commits
         /\ \A s \in snapshots : s.no = commits => s = Current
  BY DEF Numbered, Current

LEMMA LiveRows ==
  ASSUME NEW s, NEW r
  PROVE  r \in Live(s) <=> \E f \in s.files : r \in f.rows /\ (f \in s.hidden => r \notin Subject)
  BY DEF Live

(* What holds after any commit, of files that are old or new.              *)
LEMMA CommitKeeps ==
  ASSUME LakeInv, NEW files, NEW hidden, Commit(files, hidden),
         \A f \in files : f.no \in 0 .. commits + MaxCommits + 1 /\ f.rows \cap erased = {},
         clock' = clock, erased' = erased
  PROVE  /\ Numbered' /\ Referenced' /\ ErasedIsOut'
         /\ Current'.files = files /\ Current'.hidden = hidden
         /\ \A f \in known' : f.no \in 0 .. commits' + MaxCommits
         /\ \A s \in snapshots' : s.files \subseteq known'
         /\ commits' = commits + 1
<1> DEFINE new == [no |-> commits + 1, time |-> clock, files |-> files, hidden |-> hidden]
<1>1. /\ commits' = commits + 1 /\ snapshots' = snapshots \cup {new}
      /\ storage' = storage \cup files /\ known' = known \cup files
  BY DEF Commit
<1>2. /\ commits \in Nat /\ clock \in Instants /\ clock \in Nat /\ MaxCommits \in Nat
      /\ \A s \in snapshots : s.no \in 0 .. commits /\ s.time \in Instants /\ s.time <= clock
      /\ \A s, u \in snapshots : s.no = u.no => s = u
  BY LakehouseAssumption DEF LakeInv, Numbered, LakehouseAssumption
<1>3. new.no = commits + 1 /\ new.time = clock /\ new.files = files /\ new.hidden = hidden
  OBVIOUS
<1>4. Numbered'
  <2>1. \A s \in snapshots' : s.no \in 0 .. commits' /\ s.time \in Instants /\ s.time <= clock'
    BY <1>1, <1>2, <1>3
  <2>2. \A s, u \in snapshots' : s.no = u.no => s = u
    <3>1. \A s \in snapshots : s.no # new.no
      BY <1>2, <1>3
    <3> QED BY <1>1, <1>2, <3>1
  <2>3. new \in snapshots' /\ new.no = commits'
    BY <1>1, <1>3
  <2>4. commits' \in Nat /\ clock' \in Instants
    BY <1>1, <1>2
  <2> QED BY <2>1, <2>2, <2>3, <2>4 DEF Numbered
<1>5. Current' = new
  <2>1. new \in snapshots' /\ new.no = commits'
    BY <1>1, <1>3
  <2> QED BY <1>4, <2>1 DEF Numbered, Current
<1>6. Referenced'
  BY <1>1, <1>3 DEF LakeInv, Referenced
<1>7. ErasedIsOut'
  BY <1>1, <1>3 DEF LakeInv, ErasedIsOut
<1>8. \A f \in known' : f.no \in 0 .. commits' + MaxCommits
  BY <1>1, <1>2 DEF LakeInv, FilesNumbered
<1>9. \A s \in snapshots' : s.files \subseteq known'
  BY <1>1, <1>3 DEF LakeInv, FilesNumbered
<1> QED BY <1>1, <1>3, <1>4, <1>5, <1>6, <1>7, <1>8, <1>9

(* The files of the current snapshot, and new files of harmless rows,      *)
(* satisfy what CommitKeeps asks for.                                      *)
LEMMA CurrentFiles ==
  ASSUME LakeInv, NEW f \in Current.files
  PROVE  f.no \in 0 .. commits + MaxCommits + 1 /\ f.rows \cap erased = {}
<1>1. Current \in snapshots /\ f \in known
  BY CurrentIsLast DEF LakeInv, FilesNumbered
<1>2. f.no \in 0 .. commits + MaxCommits /\ commits \in Nat /\ MaxCommits \in Nat
  BY <1>1, LakehouseAssumption DEF LakeInv, FilesNumbered, Numbered, LakehouseAssumption
<1>3. f.rows \cap erased = {}
  BY <1>1 DEF LakeInv, ErasedIsOut
<1> QED BY <1>2, <1>3

LEMMA NewFiles ==
  ASSUME LakeInv, NEW rows, rows \cap erased = {}, NEW f \in NewFile(rows)
  PROVE  f.rows = rows /\ f.no \in 0 .. commits + MaxCommits + 1 /\ f.rows \cap erased = {}
<1>1. f.rows = rows /\ f.no = commits + 1
  BY DEF NewFile
<1>2. commits \in Nat /\ MaxCommits \in Nat
  BY LakehouseAssumption DEF LakeInv, Numbered, LakehouseAssumption
<1> QED BY <1>1, <1>2

LEMMA LiveIsClean == ASSUME LakeInv PROVE Live(Current) \cap erased = {}
  BY DEF LakeInv, DueIsHidden

-----------------------------------------------------------------------------
LEMMA LakeInitEstablishes == ASSUME LakeInit PROVE LakeInv
<1>1. PICK s \in Subject, o \in Others :
        /\ snapshots = {[no |-> 0, time |-> 0, files |-> {[no |-> 0, rows |-> {s, o}]}, hidden |-> {}]}
        /\ storage = {[no |-> 0, rows |-> {s, o}]} /\ known = {[no |-> 0, rows |-> {s, o}]}
  BY Zenon DEF LakeInit
<1> DEFINE f == [no |-> 0, rows |-> {s, o}]
           first == [no |-> 0, time |-> 0, files |-> {f}, hidden |-> {}]
<1>2. snapshots = {first} /\ storage = {f} /\ known = {f}
  BY <1>1
<1>3. clock = 0 /\ commits = 0 /\ at = "idle" /\ due = {} /\ erased = {} /\ compaction = {}
  BY DEF LakeInit
<1>4. Numbered
  BY <1>2, <1>3, LakehouseAssumption DEF Numbered, LakehouseAssumption
<1>5. FilesNumbered /\ Referenced
  BY <1>2, <1>3, LakehouseAssumption DEF FilesNumbered, Referenced, LakehouseAssumption
<1>6. ErasedIsOut /\ DueIsHidden /\ CompactionInv /\ RewrittenInv
  BY <1>3 DEF ErasedIsOut, DueIsHidden, CompactionInv, RewrittenInv
<1> QED BY <1>4, <1>5, <1>6 DEF LakeInv

(* Steps of the clock, and those that only move erase on.                  *)
LEMMA TickPreserves == ASSUME LakeInv, Tick PROVE LakeInv'
<1> USE DEF LakeInv, Tick
<1>1. clock' = clock + 1 /\ clock' \in Instants /\ clock \in Nat /\ \A t \in Instants : t \in Nat
  BY LakehouseAssumption DEF Numbered, LakehouseAssumption
<1>2. Numbered'
  <2>1. \A s \in snapshots : s.time \in Instants /\ s.time <= clock'
    <3> SUFFICES ASSUME NEW s \in snapshots PROVE s.time \in Instants /\ s.time <= clock + 1
      BY <1>1
    <3>1. s.time \in Instants /\ s.time <= clock
      BY DEF Numbered
    <3> HIDE DEF LakeInv, Tick
    <3>2. s.time \in Nat /\ clock \in Nat
      BY <1>1, <3>1
    <3>3. s.time <= clock + 1
      BY <3>1, <3>2
    <3> QED BY <3>1, <3>3
  <2> QED BY <1>1, <2>1 DEF Numbered
<1>3. Current' = Current
  BY DEF Current
<1>4. FilesNumbered' /\ Referenced' /\ ErasedIsOut' /\ CompactionInv'
  BY DEF FilesNumbered, Referenced, ErasedIsOut, CompactionInv
<1>5. DueIsHidden' /\ RewrittenInv'
  BY <1>3 DEF DueIsHidden, RewrittenInv
<1> QED BY <1>2, <1>4, <1>5

LEMMA MovePreserves ==
  ASSUME LakeInv, UNCHANGED <<clock, commits, snapshots, storage, known, due, erased, compaction>>,
         at' \in {"deletes", "expire"} => at' = at
  PROVE  LakeInv'
<1>1. Current' = Current
  BY DEF Current
<1> QED
  BY <1>1 DEF LakeInv, Numbered, FilesNumbered, Referenced, ErasedIsOut, DueIsHidden,
              CompactionInv, RewrittenInv

LEMMA WriteRowPreserves == ASSUME LakeInv, NEW r \in Rows, WriteRow(r) PROVE LakeInv'
<1> DEFINE files == Current.files \cup NewFile({r})
<1>1. r \notin due /\ {r} \cap erased = {}
  <2>1. r \notin due
    BY Zenon DEF WriteRow, Written
  <2>2. erased \subseteq due
    BY DEF LakeInv, DueIsHidden
  <2> QED BY <2>1, <2>2
<1>2. \A f \in files : f.no \in 0 .. commits + MaxCommits + 1 /\ f.rows \cap erased = {}
  BY <1>1, CurrentFiles, NewFiles
<1>3. Commit(files, Current.hidden) /\ UNCHANGED <<clock, at, due, erased, compaction>>
  BY DEF WriteRow
<1>4. /\ Numbered' /\ Referenced' /\ ErasedIsOut'
      /\ Current'.files = files /\ Current'.hidden = Current.hidden
      /\ \A f \in known' : f.no \in 0 .. commits' + MaxCommits
      /\ \A s \in snapshots' : s.files \subseteq known'
      /\ commits' = commits + 1
  BY <1>2, <1>3, CommitKeeps
<1>5. FilesNumbered'
  BY <1>3, <1>4, LakehouseAssumption DEF LakeInv, FilesNumbered, Numbered, LakehouseAssumption
<1>6. \A x \in Live(Current)' : x \in Live(Current) \/ x = r
  BY <1>1, <1>4, NewFiles, LiveRows
<1>7. DueIsHidden'
  BY <1>1, <1>3, <1>6 DEF LakeInv, DueIsHidden
<1>8. CompactionInv'
  BY <1>3 DEF LakeInv, CompactionInv
<1>9. RewrittenInv'
  BY <1>1, <1>3, <1>4, NewFiles DEF LakeInv, RewrittenInv
<1> QED BY <1>4, <1>5, <1>7, <1>8, <1>9 DEF LakeInv

LEMMA PrepareCompactionPreserves == ASSUME LakeInv, PrepareCompaction PROVE LakeInv'
<1> DEFINE out == [no |-> commits + MaxCommits + 1, rows |-> Live(Current)]
           c == [base |-> Current.files, hidden |-> Current.hidden, out |-> out]
<1>1. /\ compaction' = {c} /\ storage' = storage \cup {out}
      /\ UNCHANGED <<clock, commits, snapshots, known, at, due, erased>>
  BY DEF PrepareCompaction
<1>2. commits \in Nat /\ MaxCommits \in Nat
  BY LakehouseAssumption DEF LakeInv, Numbered, LakehouseAssumption
<1>3. out \notin known
  BY <1>2 DEF LakeInv, FilesNumbered
<1>4. Current' = Current
  BY <1>1 DEF Current
<1>5. FilesNumbered'
  BY <1>1, <1>2 DEF LakeInv, FilesNumbered
<1>6. Referenced'
  BY <1>1, <1>3 DEF LakeInv, Referenced
<1>7. CompactionInv'
  <2>1. Live([files |-> c.base, hidden |-> c.hidden]) = Live(Current)
    BY DEF Live
  <2> QED BY <1>1, <2>1 DEF CompactionInv
<1>8. Numbered' /\ ErasedIsOut'
  BY <1>1 DEF LakeInv, Numbered, ErasedIsOut
<1>9. DueIsHidden' /\ RewrittenInv'
  BY <1>1, <1>4 DEF LakeInv, DueIsHidden, RewrittenInv
<1> QED BY <1>5, <1>6, <1>7, <1>8, <1>9 DEF LakeInv

LEMMA CommitCompactionPreserves ==
  ASSUME LakeInv, NEW c \in compaction, CommitCompaction(c)
  PROVE  LakeInv'
<1>1. compaction' = {} /\ UNCHANGED <<clock, at, due, erased>>
  BY DEF CommitCompaction
<1>2. CASE UNCHANGED <<commits, snapshots, storage, known>>
  <2>1. Current' = Current
    BY <1>2 DEF Current
  <2> QED
    BY <1>1, <1>2, <2>1 DEF LakeInv, Numbered, FilesNumbered, Referenced, ErasedIsOut,
                            DueIsHidden, CompactionInv, RewrittenInv
<1>3. CASE /\ c.base \subseteq Current.files
           /\ c.base \cap Current.hidden = c.base \cap c.hidden
           /\ Commit((Current.files \ c.base) \cup {c.out}, Current.hidden)
  <2> DEFINE files == (Current.files \ c.base) \cup {c.out}
  <2>1. c.out.rows \subseteq Live(Current)
    <3> SUFFICES ASSUME NEW x \in c.out.rows PROVE x \in Live(Current)
      OBVIOUS
    <3>1. x \in Live([files |-> c.base, hidden |-> c.hidden])
      BY DEF LakeInv, CompactionInv
    <3>2. PICK f \in c.base : x \in f.rows /\ (f \in c.hidden => x \notin Subject)
      BY <3>1 DEF Live
    <3> QED BY <1>3, <3>2, LiveRows
  <2>2. c.out.rows \cap due = {} /\ c.out.rows \cap erased = {}
    BY <2>1 DEF LakeInv, DueIsHidden
  <2>3. \A f \in files : f.no \in 0 .. commits + MaxCommits + 1 /\ f.rows \cap erased = {}
    BY <2>2, CurrentFiles DEF LakeInv, FilesNumbered
  <2>4. /\ Numbered' /\ Referenced' /\ ErasedIsOut'
        /\ Current'.files = files /\ Current'.hidden = Current.hidden
        /\ \A f \in known' : f.no \in 0 .. commits' + MaxCommits
        /\ \A s \in snapshots' : s.files \subseteq known'
    BY <1>1, <1>3, <2>3, CommitKeeps
  <2>5. FilesNumbered'
    BY <1>1, <2>4 DEF FilesNumbered
  <2>6. \A x \in Live(Current)' : x \in Live(Current)
    BY <2>1, <2>4, LiveRows
  <2>7. DueIsHidden'
    BY <1>1, <2>6 DEF LakeInv, DueIsHidden
  <2>8. CompactionInv'
    BY <1>1 DEF CompactionInv
  <2>9. RewrittenInv'
    BY <1>1, <2>2, <2>4 DEF LakeInv, RewrittenInv
  <2> QED BY <2>4, <2>5, <2>7, <2>8, <2>9 DEF LakeInv
<1> QED BY <1>2, <1>3 DEF CommitCompaction

-----------------------------------------------------------------------------
(* The steps of erase.                                                     *)

LEMMA DeleteSubjectPreserves == ASSUME LakeInv, DeleteSubject PROVE LakeInv'
<1> DEFINE hit == {f \in Current.files \ Current.hidden : Holds(f)}
           mixed == {f \in hit : ~(f.rows \subseteq Subject)}
           rest == (UNION {f.rows : f \in mixed}) \ Subject
<1>1. PICK files, hidden :
        /\ Commit(files, hidden)
        /\ \/ files = Current.files \ (hit \ mixed) /\ hidden = Current.hidden \cup mixed
           \/ files = (Current.files \ hit) \cup NewFile(rest) /\ hidden = Current.hidden
  BY DEF DeleteSubject
<1>2. /\ due' = due \cup (Live(Current) \cap Subject) /\ at' = "data"
      /\ UNCHANGED <<clock, erased, compaction>>
  BY DEF DeleteSubject
<1>3. rest \cap erased = {} /\ rest \cap Subject = {}
  <2>1. \A x \in rest : x \notin Subject
    BY Zenon
  <2>2. erased \subseteq Subject
    BY DEF LakeInv, DueIsHidden
  <2> HIDE DEF rest
  <2> QED BY <2>1, <2>2
<1>4. \A f \in files : f.no \in 0 .. commits + MaxCommits + 1 /\ f.rows \cap erased = {}
  BY <1>1, <1>3, CurrentFiles, NewFiles
<1>5. /\ Numbered' /\ Referenced' /\ ErasedIsOut'
      /\ Current'.files = files /\ Current'.hidden = hidden
      /\ \A f \in known' : f.no \in 0 .. commits' + MaxCommits
      /\ \A s \in snapshots' : s.files \subseteq known'
      /\ commits' = commits + 1
  BY <1>1, <1>2, <1>4, CommitKeeps
<1>6. FilesNumbered'
  BY <1>2, <1>5, LakehouseAssumption DEF LakeInv, FilesNumbered, Numbered, LakehouseAssumption
<1>7. ASSUME NEW x \in Live(Current)' PROVE x \notin Subject
  <2>1. PICK f \in files : x \in f.rows /\ (f \in hidden => x \notin Subject)
    BY <1>5, LiveRows
  <2>2. CASE f \in Current.files
    <3>1. CASE f \in hidden
      BY <2>1, <3>1
    <3>2. CASE f \notin hidden /\ f \notin hit
      <4>1. f \in Current.hidden \/ ~Holds(f)
        BY <2>2, <3>2
      <4>2. Current.hidden \subseteq hidden
        BY <1>1
      <4> QED BY <2>1, <3>2, <4>1, <4>2 DEF Holds
    <3>3. CASE f \notin hidden /\ f \in hit
      <4>1. f \in NewFile(rest)
        BY <1>1, <2>1, <3>3
      <4> QED BY <1>3, <2>1, <4>1, NewFiles
    <3> QED BY <3>1, <3>2, <3>3
  <2>3. CASE f \in NewFile(rest)
    BY <1>3, <2>1, <2>3, NewFiles
  <2> QED BY <1>1, <2>1, <2>2, <2>3
<1>8. DueIsHidden'
  BY <1>2, <1>7 DEF LakeInv, DueIsHidden
<1>9. CompactionInv' /\ RewrittenInv'
  BY <1>2 DEF LakeInv, CompactionInv, RewrittenInv
<1> QED BY <1>5, <1>6, <1>8, <1>9 DEF LakeInv

LEMMA RewriteDataFilesPreserves == ASSUME LakeInv, RewriteDataFiles PROVE LakeInv'
<1> DEFINE chosen == {f \in Current.files : Holds(f)}
           kept == Live([files |-> chosen, hidden |-> Current.hidden])
           files == (Current.files \ chosen) \cup NewFile(kept)
<1>1. /\ Commit(files, Current.hidden) /\ at' = "deletes"
      /\ UNCHANGED <<clock, due, erased, compaction>>
  BY DEF RewriteDataFiles
<1>2. kept \subseteq Live(Current)
  BY DEF Live
<1>3. kept \cap due = {} /\ kept \cap erased = {}
  BY <1>2 DEF LakeInv, DueIsHidden
<1>4. \A f \in files : f.no \in 0 .. commits + MaxCommits + 1 /\ f.rows \cap erased = {}
  BY <1>3, CurrentFiles, NewFiles
<1>5. /\ Numbered' /\ Referenced' /\ ErasedIsOut'
      /\ Current'.files = files /\ Current'.hidden = Current.hidden
      /\ \A f \in known' : f.no \in 0 .. commits' + MaxCommits
      /\ \A s \in snapshots' : s.files \subseteq known'
      /\ commits' = commits + 1
  BY <1>1, <1>4, CommitKeeps
<1>6. FilesNumbered'
  BY <1>1, <1>5, LakehouseAssumption DEF LakeInv, FilesNumbered, Numbered, LakehouseAssumption
<1>7. \A f \in files : f.rows \cap due = {}
  BY <1>3, NewFiles DEF Holds, LakeInv, DueIsHidden
<1>8. DueIsHidden'
  <2>1. \A x \in Live(Current)' : \E f \in files : x \in f.rows
    BY <1>5, LiveRows
  <2> QED BY <1>1, <1>7, <2>1 DEF LakeInv, DueIsHidden
<1>9. CompactionInv' /\ RewrittenInv'
  BY <1>1, <1>5, <1>7 DEF LakeInv, CompactionInv, RewrittenInv
<1> QED BY <1>5, <1>6, <1>8, <1>9 DEF LakeInv

LEMMA RewriteDeleteFilesPreserves == ASSUME LakeInv, RewriteDeleteFiles PROVE LakeInv'
<1>1. /\ Commit(Current.files, Current.hidden \cap Current.files)
      /\ at = "deletes" /\ at' = "expire" /\ UNCHANGED <<clock, due, erased, compaction>>
  BY DEF RewriteDeleteFiles
<1>2. /\ Numbered' /\ Referenced' /\ ErasedIsOut'
      /\ Current'.files = Current.files /\ Current'.hidden = Current.hidden \cap Current.files
      /\ \A f \in known' : f.no \in 0 .. commits' + MaxCommits
      /\ \A s \in snapshots' : s.files \subseteq known'
      /\ commits' = commits + 1
  BY <1>1, CurrentFiles, CommitKeeps
<1>3. FilesNumbered'
  BY <1>1, <1>2, LakehouseAssumption DEF LakeInv, FilesNumbered, Numbered, LakehouseAssumption
<1>4. \A x \in Live(Current)' : x \in Live(Current)
  BY <1>2, LiveRows
<1>5. DueIsHidden'
  BY <1>1, <1>4 DEF LakeInv, DueIsHidden
<1>6. CompactionInv' /\ RewrittenInv'
  BY <1>1, <1>2 DEF LakeInv, CompactionInv, RewrittenInv
<1> QED BY <1>2, <1>3, <1>5, <1>6 DEF LakeInv

(* The literal names the instant it was made from.                         *)
LEMMA CutoffIsNow == ASSUME LakeInv PROVE Cutoff = clock
  BY NoRepeatedHour DEF NoRepeatedHour, Cutoff, ReadAs, LakeInv, Numbered

LEMMA ExpirePreserves == ASSUME LakeInv, ExpireSnapshots PROVE LakeInv'
<1> DEFINE kept == {s \in snapshots : s.no = commits \/ s.time > Cutoff}
           Used(some) == UNION {s.files : s \in some}
<1>1. /\ snapshots' = kept /\ storage' = storage \ (Used(snapshots \ kept) \ Used(kept))
      /\ erased' = due /\ at = "expire" /\ at' = "idle"
      /\ UNCHANGED <<clock, commits, known, due, compaction>>
  BY DEF ExpireSnapshots
<1>2. Current \in snapshots /\ Current.no = commits
  BY CurrentIsLast DEF LakeInv
<1>3. kept = {Current}
  <2>1. \A s \in snapshots : s.time \in Nat /\ s.time <= clock /\ clock \in Nat
    BY LakehouseAssumption DEF LakeInv, Numbered, LakehouseAssumption
  <2>2. \A s \in kept : s.no = commits
    BY <2>1, CutoffIsNow
  <2> QED BY <1>2, <2>2, CurrentIsLast DEF LakeInv
<1>4. Numbered'
  BY <1>1, <1>2, <1>3 DEF LakeInv, Numbered
<1>5. Current' = Current
  BY <1>1, <1>2, <1>3, <1>4 DEF Current
<1>6. FilesNumbered'
  BY <1>1 DEF LakeInv, FilesNumbered
<1>7. Referenced'
  BY <1>1 DEF LakeInv, Referenced
<1>8. ErasedIsOut'
  BY <1>1, <1>3 DEF LakeInv, RewrittenInv, ErasedIsOut
<1>9. DueIsHidden' /\ CompactionInv' /\ RewrittenInv'
  BY <1>1, <1>5 DEF LakeInv, DueIsHidden, CompactionInv, RewrittenInv
<1> QED BY <1>4, <1>6, <1>7, <1>8, <1>9 DEF LakeInv

LEMMA LakeStep == ASSUME LakeInv, [LakeNext]_lakeVars PROVE LakeInv'
<1>1. CASE StartErase \/ DieErasing \/ UNCHANGED lakeVars
  BY <1>1, MovePreserves DEF StartErase, DieErasing, lakeVars
<1> QED
  BY <1>1, TickPreserves, WriteRowPreserves, PrepareCompactionPreserves,
     CommitCompactionPreserves, DeleteSubjectPreserves, RewriteDataFilesPreserves,
     RewriteDeleteFilesPreserves, ExpirePreserves
  DEF LakeNext

(* What erase has returned for is in no data file of the table that is     *)
(* still on storage, and stays out of them.                                *)
THEOREM ErasedForGood == LakeSpec => []Forgotten
<1>1. LakeInit => LakeInv
  BY LakeInitEstablishes
<1>2. LakeInv /\ [LakeNext]_lakeVars => LakeInv'
  BY LakeStep
<1>3. LakeInv => Forgotten
  BY DEF LakeInv, Referenced, ErasedIsOut, Forgotten
<1> QED BY <1>1, <1>2, <1>3, PTL DEF LakeSpec

-----------------------------------------------------------------------------
(* The types of the lake. What a compaction has written stays on storage   *)
(* because no snapshot ever had it, so that none takes it along.           *)
PendingOut ==
  \A c \in compaction : c.out \in storage \ known /\ c.out.no > MaxCommits

TypedInv == LakeInv /\ LakeTypeOK /\ PendingOut

LEMMA CommitIsTyped ==
  ASSUME TypedInv, NEW files \in SUBSET File, NEW hidden \in SUBSET File, Commit(files, hidden),
         clock' = clock
  PROVE  /\ commits' \in 0 .. MaxCommits /\ commits' = commits + 1
         /\ \A s \in snapshots' : s \in Snapshot /\ s.no <= commits'
         /\ \A f \in storage' \cup known' : f \in File
<1> DEFINE new == [no |-> commits + 1, time |-> clock, files |-> files, hidden |-> hidden]
<1>1. /\ commits \in Nat /\ MaxCommits \in Nat /\ commits < MaxCommits /\ clock \in Instants
      /\ commits' = commits + 1 /\ snapshots' = snapshots \cup {new}
      /\ storage' = storage \cup files /\ known' = known \cup files
  BY LakehouseAssumption DEF Commit, TypedInv, LakeTypeOK, LakehouseAssumption
<1>2. new \in Snapshot /\ new.no = commits + 1
  BY <1>1 DEF Snapshot
<1> HIDE DEF new
<1>3. \A s \in snapshots : s \in Snapshot /\ s.no \in Nat /\ s.no <= commits
  BY DEF TypedInv, LakeTypeOK, Snapshot
<1>4. \A s \in snapshots' : s \in Snapshot /\ s.no <= commits'
  BY <1>1, <1>2, <1>3
<1>5. \A f \in storage' \cup known' : f \in File
  BY <1>1 DEF TypedInv, LakeTypeOK
<1>6. commits' \in 0 .. MaxCommits
  BY <1>1
<1> QED BY <1>1, <1>4, <1>5, <1>6

LEMMA CurrentIsTyped ==
  ASSUME TypedInv
  PROVE  /\ Current.files \in SUBSET File /\ Current.hidden \in SUBSET File
         /\ Current.files \subseteq known /\ Live(Current) \subseteq Rows
<1>1. Current \in snapshots
  BY CurrentIsLast DEF TypedInv, LakeInv
<1>2. Current \in Snapshot /\ Current.files \subseteq known
  BY <1>1 DEF TypedInv, LakeTypeOK, LakeInv, FilesNumbered
<1>3. Current.files \in SUBSET File /\ Current.hidden \in SUBSET File
  BY <1>2 DEF Snapshot
<1>4. Live(Current) \subseteq Rows
  BY <1>3, LiveRows DEF File
<1> QED BY <1>2, <1>3, <1>4

LEMMA NewFileIsTyped ==
  ASSUME TypedInv, NEW rows \in SUBSET Rows
  PROVE  NewFile(rows) \in SUBSET File
<1>1. commits + 1 \in Nat
  BY LakehouseAssumption DEF TypedInv, LakeTypeOK, LakehouseAssumption
<1> QED BY <1>1 DEF NewFile, File

(* A commit that leaves a compaction pending does not commit its file.     *)
LEMMA OutStays ==
  ASSUME TypedInv, NEW some \in SUBSET known, NEW rows, NEW hidden,
         Commit(some \cup NewFile(rows), hidden), compaction' = compaction
  PROVE  PendingOut'
<1>1. /\ storage' = storage \cup some \cup NewFile(rows)
      /\ known' = known \cup some \cup NewFile(rows)
      /\ commits \in Nat /\ MaxCommits \in Nat /\ commits < MaxCommits
  BY LakehouseAssumption DEF Commit, TypedInv, LakeTypeOK, LakehouseAssumption
<1>2. \A f \in NewFile(rows) : f.no = commits + 1
  BY DEF NewFile
<1>3. \A c \in compaction : c.out.no \in Nat
  BY DEF TypedInv, LakeTypeOK, File
<1>4. ASSUME NEW c \in compaction PROVE c.out \notin NewFile(rows)
  BY <1>1, <1>2, <1>3 DEF TypedInv, PendingOut
<1> QED BY <1>1, <1>4 DEF TypedInv, PendingOut

LEMMA LakeTypeInit == ASSUME LakeInit PROVE TypedInv
<1>1. PICK s \in Subject, o \in Others :
        LET f == [no |-> 0, rows |-> {s, o}]
        IN /\ snapshots = {[no |-> 0, time |-> 0, files |-> {f}, hidden |-> {}]}
           /\ storage = {f} /\ known = {f}
  BY DEF LakeInit
<1> DEFINE f == [no |-> 0, rows |-> {s, o}]
           first == [no |-> 0, time |-> 0, files |-> {f}, hidden |-> {}]
<1>2. f \in File
  BY DEF File, Rows
<1>3. 0 \in Instants /\ MaxCommits \in Nat
  BY LakehouseAssumption DEF LakehouseAssumption
<1>4. first \in Snapshot /\ first.no = 0
  BY <1>2, <1>3 DEF Snapshot
<1>5. snapshots = {first} /\ storage = {f} /\ known = {f}
  BY <1>1
<1> HIDE DEF f, first
<1>6. LakeTypeOK
  BY <1>2, <1>3, <1>4, <1>5 DEF LakeInit, LakeTypeOK
<1>7. PendingOut
  BY DEF LakeInit, PendingOut
<1> QED BY <1>6, <1>7, LakeInitEstablishes DEF TypedInv

LEMMA LakeTypeStep == ASSUME TypedInv, [LakeNext]_lakeVars PROVE TypedInv'
<1>0. LakeInv'
  BY LakeStep DEF TypedInv
<1> SUFFICES LakeTypeOK' /\ PendingOut'
  BY <1>0 DEF TypedInv
<1>1. CASE Tick \/ StartErase \/ DieErasing \/ UNCHANGED lakeVars
  BY <1>1 DEF Tick, StartErase, DieErasing, lakeVars, TypedInv, LakeTypeOK, PendingOut
<1>2. ASSUME NEW r \in Rows, WriteRow(r) PROVE LakeTypeOK' /\ PendingOut'
  <2>1. /\ Commit(Current.files \cup NewFile({r}), Current.hidden)
        /\ UNCHANGED <<clock, merge, at, due, erased, compaction>>
    BY <1>2 DEF WriteRow
  <2>2. NewFile({r}) \in SUBSET File
    BY NewFileIsTyped
  <2>3. Current.files \cup NewFile({r}) \in SUBSET File
    BY <2>2, CurrentIsTyped
  <2>4. PendingOut'
    BY <2>1, CurrentIsTyped, OutStays
  <2>5. /\ commits' \in 0 .. MaxCommits
        /\ \A s \in snapshots' : s \in Snapshot /\ s.no <= commits'
        /\ \A f \in storage' \cup known' : f \in File
    BY <2>1, <2>3, CurrentIsTyped, CommitIsTyped
  <2> QED BY <2>1, <2>4, <2>5 DEF TypedInv, LakeTypeOK, PendingOut
<1>3. CASE PrepareCompaction
  <2> DEFINE out == [no |-> commits + MaxCommits + 1, rows |-> Live(Current)]
             new == [base |-> Current.files, hidden |-> Current.hidden, out |-> out]
  <2>1. /\ compaction' = {new} /\ storage' = storage \cup {out}
        /\ UNCHANGED <<clock, commits, snapshots, known, merge, at, due, erased>>
    BY <1>3 DEF PrepareCompaction
  <2>2. commits \in Nat /\ MaxCommits \in Nat
    BY LakehouseAssumption DEF TypedInv, LakeTypeOK, LakehouseAssumption
  <2>3. out \in File /\ out.no = commits + MaxCommits + 1 /\ new.out = out
    BY <2>2, CurrentIsTyped DEF File
  <2>4. \A f \in known : f.no \in 0 .. commits + MaxCommits
    BY DEF TypedInv, LakeInv, FilesNumbered
  <2> HIDE DEF out, new
  <2>5. out \notin known /\ out.no > MaxCommits
    BY <2>2, <2>3, <2>4
  <2> QED BY <2>1, <2>3, <2>5 DEF TypedInv, LakeTypeOK, PendingOut
<1>4. ASSUME NEW c \in compaction, CommitCompaction(c) PROVE LakeTypeOK' /\ PendingOut'
  <2>1. compaction' = {} /\ UNCHANGED <<clock, merge, at, due, erased>>
    BY <1>4 DEF CommitCompaction
  <2>2. CASE UNCHANGED <<commits, snapshots, storage, known>>
    BY <2>1, <2>2 DEF TypedInv, LakeTypeOK, PendingOut
  <2>3. CASE Commit((Current.files \ c.base) \cup {c.out}, Current.hidden)
    <3>1. (Current.files \ c.base) \cup {c.out} \in SUBSET File
      BY CurrentIsTyped DEF TypedInv, LakeTypeOK
    <3>2. /\ commits' \in 0 .. MaxCommits
          /\ \A s \in snapshots' : s \in Snapshot /\ s.no <= commits'
          /\ \A f \in storage' \cup known' : f \in File
      BY <2>1, <2>3, <3>1, CurrentIsTyped, CommitIsTyped
    <3> QED BY <2>1, <3>2 DEF TypedInv, LakeTypeOK, PendingOut
  <2> QED BY <1>4, <2>2, <2>3 DEF CommitCompaction
<1>5. CASE DeleteSubject
  <2> DEFINE hit == {f \in Current.files \ Current.hidden : Holds(f)}
             mixed == {f \in hit : ~(f.rows \subseteq Subject)}
             rest == (UNION {f.rows : f \in mixed}) \ Subject
  <2>1. /\ at' = "data" /\ due' = due \cup (Live(Current) \cap Subject)
        /\ UNCHANGED <<clock, merge, erased, compaction>>
        /\ \/ Commit(Current.files \ (hit \ mixed), Current.hidden \cup mixed)
           \/ Commit((Current.files \ hit) \cup NewFile(rest), Current.hidden)
    BY <1>5 DEF DeleteSubject
  <2>2. rest \in SUBSET Rows
    BY CurrentIsTyped DEF File
  <2>3. mixed \subseteq Current.files
    OBVIOUS
  <2> HIDE DEF hit, mixed, rest
  <2>4. PICK some \in SUBSET Current.files, rows \in SUBSET Rows, hidden \in SUBSET File :
          Commit(some \cup NewFile(rows), hidden)
    <3>1. NewFile({}) = {}
      BY DEF NewFile
    <3>2. CASE Commit(Current.files \ (hit \ mixed), Current.hidden \cup mixed)
      <4>1. Commit((Current.files \ (hit \ mixed)) \cup NewFile({}), Current.hidden \cup mixed)
        BY <3>1, <3>2
      <4>2. {} \in SUBSET Rows /\ Current.hidden \cup mixed \in SUBSET File
        BY <2>3, CurrentIsTyped
      <4>3. Current.files \ (hit \ mixed) \in SUBSET Current.files
        OBVIOUS
      <4> QED BY <4>1, <4>2, <4>3
    <3>3. CASE Commit((Current.files \ hit) \cup NewFile(rest), Current.hidden)
      <4>1. Current.files \ hit \in SUBSET Current.files
        OBVIOUS
      <4> QED BY <2>2, <3>3, <4>1, CurrentIsTyped
    <3> QED BY <2>1, <3>2, <3>3
  <2>5. some \in SUBSET known /\ some \cup NewFile(rows) \in SUBSET File
    BY CurrentIsTyped, NewFileIsTyped
  <2>6. PendingOut'
    BY <2>1, <2>4, <2>5, OutStays
  <2>7. /\ commits' \in 0 .. MaxCommits
        /\ \A s \in snapshots' : s \in Snapshot /\ s.no <= commits'
        /\ \A f \in storage' \cup known' : f \in File
    BY <2>1, <2>4, <2>5, CommitIsTyped
  <2> QED BY <2>1, <2>6, <2>7 DEF TypedInv, LakeTypeOK, PendingOut
<1>6. CASE RewriteDataFiles
  <2> DEFINE chosen == {f \in Current.files : Holds(f)}
             kept == Live([files |-> chosen, hidden |-> Current.hidden])
  <2>1. /\ at' = "deletes" /\ UNCHANGED <<clock, merge, due, erased, compaction>>
        /\ Commit((Current.files \ chosen) \cup NewFile(kept), Current.hidden)
    BY <1>6 DEF RewriteDataFiles
  <2>2. kept \in SUBSET Rows
    BY LiveRows, CurrentIsTyped DEF File
  <2> HIDE DEF chosen, kept
  <2>3. Current.files \ chosen \in SUBSET known
    BY CurrentIsTyped
  <2>4. (Current.files \ chosen) \cup NewFile(kept) \in SUBSET File
    BY <2>2, CurrentIsTyped, NewFileIsTyped
  <2>5. PendingOut'
    BY <2>1, <2>3, OutStays
  <2>6. /\ commits' \in 0 .. MaxCommits
        /\ \A s \in snapshots' : s \in Snapshot /\ s.no <= commits'
        /\ \A f \in storage' \cup known' : f \in File
    BY <2>1, <2>4, CurrentIsTyped, CommitIsTyped
  <2> QED BY <2>1, <2>5, <2>6 DEF TypedInv, LakeTypeOK, PendingOut
<1>7. CASE RewriteDeleteFiles
  <2>1. /\ at' = "expire" /\ UNCHANGED <<clock, merge, due, erased, compaction>>
        /\ Commit(Current.files \cup NewFile({}), Current.hidden \cap Current.files)
    BY <1>7 DEF RewriteDeleteFiles, NewFile
  <2>2. NewFile({}) = {} /\ Current.hidden \cap Current.files \in SUBSET File
    BY CurrentIsTyped DEF NewFile
  <2>3. PendingOut'
    BY <2>1, CurrentIsTyped, OutStays
  <2>4. /\ commits' \in 0 .. MaxCommits
        /\ \A s \in snapshots' : s \in Snapshot /\ s.no <= commits'
        /\ \A f \in storage' \cup known' : f \in File
    BY <2>1, <2>2, CurrentIsTyped, CommitIsTyped
  <2> QED BY <2>1, <2>3, <2>4 DEF TypedInv, LakeTypeOK, PendingOut
<1>8. CASE ExpireSnapshots
  <2> DEFINE kept == {s \in snapshots : s.no = commits \/ s.time > Cutoff}
             Used(some) == UNION {s.files : s \in some}
  <2>1. /\ snapshots' = kept /\ storage' = storage \ (Used(snapshots \ kept) \ Used(kept))
        /\ erased' = due /\ at' = "idle"
        /\ UNCHANGED <<clock, commits, known, merge, due, compaction>>
    BY <1>8 DEF ExpireSnapshots
  <2>2. kept \subseteq snapshots /\ Used(snapshots \ kept) \subseteq known
    BY DEF TypedInv, LakeInv, FilesNumbered
  <2> HIDE DEF kept, Used
  <2>3. PendingOut'
    BY <2>1, <2>2 DEF TypedInv, PendingOut
  <2> QED BY <2>1, <2>2, <2>3 DEF TypedInv, LakeTypeOK, PendingOut
<1> QED BY <1>1, <1>2, <1>3, <1>4, <1>5, <1>6, <1>7, <1>8 DEF LakeNext

-----------------------------------------------------------------------------
(* All parts beside one another.                                           *)

(* No variable of any part leaves its type: partitions, marts, access, the *)
(* lake and serving, each with every interleaving of its actors.           *)
THEOREM WarehouseTyped == Spec => []TypesOK
<1> DEFINE Inv == GateInv /\ BuildInv /\ TableInv /\ TypedInv /\ PublishInv /\ VaultInv
<1>1. Init => Inv
  BY GateInitEstablishes, WarehouseInitEstablishes, TableInitEstablishes, LakeTypeInit,
     ServingInitEstablishes, InitVaultInv
  DEF Init
<1>2. Inv /\ [Next]_vars => Inv'
  <2> SUFFICES ASSUME Inv, [Next]_vars PROVE Inv'
    OBVIOUS
  <2>1. /\ [GateNext]_gateVars /\ [WarehouseNext]_warehouseVars /\ [AccessNext]_accessVars
        /\ [LakeNext]_lakeVars /\ [ServingNext]_servingVars /\ [VaultNext]_vaultVars
    BY DEF Next, vars
  <2> QED BY <2>1, GateStep, WarehouseStep, TableStep, LakeTypeStep, ServingStep, VaultInvStep
<1>3. Inv => TypesOK
  BY DEF GateInv, BuildInv, TableInv, TypedInv, PublishInv, VaultInv, TypesOK
<1> QED BY <1>1, <1>2, <1>3, PTL DEF Spec
=============================================================================
