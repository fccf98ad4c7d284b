------------------------------ MODULE MCWarehouse ------------------------------
(* The jobs around the warehouse, what they leave behind and the vault in it, *)
(* each on its own: which one a behaviour is about is chosen at the start, and *)
(* the others stay in one of their initial states.                            *)
EXTENDS PartitionGate, WarehouseBuild, AccessControl, LakehouseErasure, ServingJob, KeyVault

--------------------------------------------------------------------------------
(* The inventory and the test, without the tables that are views of others.   *)
MCSwept == <<"clients", "dim_client", "fct_client_activity", "feat_client_activity">>
MCTested == {"dim_client", "fct_client_activity", "feat_client_activity"}

(* terraform/envs/dev; one that grants the desk too much; one without two of  *)
(* the tags, where masking is off; one with a policy nobody is granted.       *)
Desk(who) == [name |-> "rls_uk_desk", grantees |-> who, regions |-> {"UK"}]
Rest(who) == [name |-> "rls_all_regions", grantees |-> who, regions |-> Regions]
Dev ==
  [policies |-> <<Desk({"uk_desk"}), Rest((Everyone \ {"uk_desk"}) \cup {"operator"})>>,
   tags |-> Classes, masking |-> TRUE, raw |-> [who \in Everyone |-> Readable(who)],
   masked |-> [who \in Everyone |-> Masked(who)], bronze |-> {}]
MCConfigs ==
  {Dev,
   [Dev EXCEPT !.policies = <<Desk({"uk_desk"}), Rest(Everyone \cup {"operator"})>>,
               !.raw["uk_desk"] = {"person_name"}],
   [Dev EXCEPT !.tags = {"contact"}, !.masking = FALSE, !.bronze = {"quants"}],
   [Dev EXCEPT !.policies = <<Desk({}), Rest({"marketing"})>>]}

(* A session an hour ahead of UTC.                                            *)
Summer == [t \in 0 .. 1 |-> t + 1]

(* spark/jobs/serving_client_margin.yaml, and what is easily got wrong in it. *)
Check(name, on_failure) ==
  [name |-> name, expression |-> name, on_failure |-> on_failure]
Margin ==
  [name |-> "serving_client_margin",
   sources |-> <<[name |-> "activity", format |-> "bigquery"]>>,
   transforms |-> <<[type |-> "aggregate", args |-> {"aggregations", "group_by"}],
                    [type |-> "with_columns", args |-> {"columns"}],
                    [type |-> "repartition", args |-> {"count"}]>>,
   quality |-> <<Check("margin_multiplier_within_policy", "fail"),
                 Check("client_id_present", "fail")>>,
   sink |-> [format |-> "firestore", mode |-> "overwrite"]]
MCSpecs ==
  {Margin, [Margin EXCEPT !.quality = <<Check("client_id_present", "warn")>>],
   [Margin EXCEPT !.quality[1].expression = Absent], [Margin EXCEPT !.sources = @ \o @],
   [Margin EXCEPT !.transforms = <<[type |-> "agregate", args |-> {"aggregations"}]>>],
   [Margin EXCEPT !.transforms = <<[type |-> "aggregate", args |-> {"group_by"}]>>]}

--------------------------------------------------------------------------------
VARIABLE part
Parts == {"partitions", "marts", "access", "lake", "serving", "vault"}

(* One initial state of a part that stays as it is.                           *)
GateRests == deployment = "sensor"
MartsRest == alone /\ holds["dim_client"]
LakeRests == merge /\ \A f \in storage : (CHOOSE s \in Subject : TRUE) \in f.rows
ServingRests == job = Margin
VaultRests == unique

Init ==
  /\ part \in Parts
  /\ GateInit /\ (part = "partitions" \/ GateRests)
  /\ WarehouseInit /\ (part = "marts" \/ MartsRest)
  /\ AccessInit /\ conf = Dev
  /\ IF part = "access" THEN filled \in {Classes, {"contact"}} ELSE filled = Classes
  /\ LakeInit /\ (part = "lake" \/ LakeRests)
  /\ ServingInit /\ (part = "serving" \/ ServingRests)
  /\ \A c \in Clients : source[c] \notin {Bad, Gone}
  /\ VaultInit /\ (part = "vault" \/ VaultRests)

(* A validation that is overtaken by an alteration proves nothing, and is not *)
(* followed further.                                                          *)
Next ==
  \/ /\ part = "partitions" /\ GateNext
     /\ UNCHANGED <<warehouseVars, accessVars, lakeVars, servingVars, vaultVars, part>>
  \/ /\ part = "marts" /\ WarehouseNext
     /\ UNCHANGED <<gateVars, accessVars, lakeVars, servingVars, vaultVars, part>>
  \/ /\ part = "access" /\ AccessNext /\ (probe'.at # 0 => steady')
     /\ UNCHANGED <<gateVars, warehouseVars, lakeVars, servingVars, vaultVars, part>>
  \/ /\ part = "lake" /\ LakeNext
     /\ UNCHANGED <<gateVars, warehouseVars, accessVars, servingVars, vaultVars, part>>
  \/ /\ part = "serving" /\ ServingNext
     /\ UNCHANGED <<gateVars, warehouseVars, accessVars, lakeVars, vaultVars, part>>
  \/ /\ part = "vault" /\ VaultNext
     /\ UNCHANGED <<gateVars, warehouseVars, accessVars, lakeVars, servingVars, part>>

vars == <<gateVars, warehouseVars, accessVars, lakeVars, servingVars, vaultVars, part>>
Spec == Init /\ [][Next]_vars

(* Every variable of every part keeps its type.                               *)
TypesOK ==
  /\ GateTypeOK /\ WarehouseTypeOK /\ AccessTypeOK /\ LakeTypeOK /\ ServingTypeOK
  /\ VaultTypeOK
================================================================================
