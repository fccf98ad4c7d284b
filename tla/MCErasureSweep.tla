--------------------------- MODULE MCErasureSweep ---------------------------
(* Small instances of ErasureSweep for TLC. *)
EXTENDS ErasureSweep

CONSTANTS ann, bob, q1, q2

(* Two tables to delete from, around one kept by obligation; the last is   *)
(* in object storage and left to the Spark job.                            *)
SmallInventory ==
  << [table |-> "raw.clients",    action |-> "delete", engine |-> "warehouse"],
     [table |-> "raw.trades",     action |-> "retain", engine |-> "warehouse"],
     [table |-> "lake.clients",   action |-> "delete", engine |-> "iceberg"],
     [table |-> "marts.dim_client", action |-> "delete", engine |-> "warehouse"] >>

KeepAndTarget ==
  << [table |-> "raw.trades",     action |-> "retain", engine |-> "warehouse"],
     [table |-> "marts.dim_client", action |-> "delete", engine |-> "warehouse"] >>

WithoutMart == Tables \ {"marts.dim_client"}

OneAsks == [r \in {q1} |-> ann]
TwoAsk == [r \in {q1, q2} |-> IF r = q1 THEN ann ELSE bob]
DayZero == [r \in Requests |-> 0]
DayByDay == [r \in Requests |-> IF r = q1 THEN 0 ELSE 1]
=============================================================================
