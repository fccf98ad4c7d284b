------------------------------- MODULE MCGates -------------------------------
(* The checks CI makes, each on its own: which one a behaviour is about is   *)
(* chosen at the start.                                                      *)
EXTENDS ContractGate, Lineage

-------------------------------------------------------------------------------
(* Contracts: columns "f" and "g"; a schema differs from the plain one in    *)
(* one respect.                                                              *)
Def(t, r, c) == [type |-> t, required |-> r, class |-> c]
Plain == Def("INT64", TRUE, NoClass)
Widened == Def("NUMERIC", TRUE, NoClass)
Tagged == Def("INT64", TRUE, "contact")
Optional == Def("INT64", FALSE, NoClass)
Defs == {Plain, Widened, Tagged, Optional}
OneField(d) == [f \in {"f"} |-> d]
TwoFields(d) == [f \in {"f", "g"} |-> IF f = "f" THEN Plain ELSE d]
Schemas == {OneField(d) : d \in {Plain, Widened, Tagged}} \cup {TwoFields(Optional)}
Numbers == {<<1, 0>>, <<1, 1>>, <<2, 0>>}
Changed(id, version, grain, lag) ==
  [id |-> id, version |-> version, grain |-> grain, lag |-> lag, schema |-> OneField(Plain)]
Edits ==
  {[Changed("a", v, "day", 24) EXCEPT !.schema = s] : v \in Numbers, s \in Schemas}
    \cup {Changed("a", <<1, 0>>, "day", 36), Changed("b", <<1, 0>>, "day", 24),
          Changed("a", Malformed, "day", 24)}

-------------------------------------------------------------------------------
(* Lineage: raw.clients and raw.events, a staging model of each, an          *)
(* ephemeral model over both, and a mart over that.                          *)
TwoSources == {"raw.clients", "raw.events"}
ThreeModels == {"staging.clients", "staging.events", "marts.activity"}
Relations == TwoSources \cup ThreeModels
Inlined == {"int_activity"}
NamedBy ==
  [t \in ThreeModels |->
     CASE t = "staging.clients" -> {"raw.clients"}
       [] t = "staging.events" -> {"raw.events"}
       [] OTHER -> Inlined]
ReadBy ==
  [t \in ThreeModels |->
     IF t = "marts.activity" THEN {"staging.clients", "staging.events"} ELSE NamedBy[t]]
TableOfColumn ==
  [c \in {"email", "kind", "stg_email", "stg_kind", "contact", "note"} |->
     CASE c = "email" -> "raw.clients"
       [] c = "kind" -> "raw.events"
       [] c = "stg_email" -> "staging.clients"
       [] c = "stg_kind" -> "staging.events"
       [] OTHER -> "marts.activity"]
SixColumns == DOMAIN TableOfColumn
Staged == {"stg_email", "stg_kind"}
Email == {"email"}
Marts == {"marts.activity"}
Edge(s, t) == <<s, t>>
Written ==
  [flows : SUBSET {Edge("email", "stg_email"), Edge("kind", "stg_kind"), Edge("stg_email", "contact"),
                   Edge("stg_email", "note"), Edge("stg_kind", "note")},
   untraceable : SUBSET MayFail,
   pii : {Email, Email \cup {"contact"}, {"email", "kind", "note"}},
   inventory : {{"raw.clients", "staging.clients"}, {"raw.clients", "marts.activity"},
                {"raw.clients", "staging.clients", "marts.activity"}, Relations}]

-------------------------------------------------------------------------------
VARIABLE check
Init ==
  /\ ContractInit /\ LineageInit
  /\ check \in {"contracts", "lineage"}
  /\ check = "lineage" => Main = Changed("a", <<1, 0>>, "day", 24)
Next ==
  \/ check = "contracts" /\ ContractNext /\ UNCHANGED <<lineageVars, check>>
  \/ check = "lineage" /\ LineageNext /\ UNCHANGED <<contractVars, check>>
Spec == Init /\ [][Next]_<<contractVars, lineageVars, check>>

(* Every variable of either check keeps its type.                            *)
TypesOK == ContractTypeOK /\ LineageTypeOK
===============================================================================
