---------------------------- MODULE MCErasureJobs ----------------------------
(* Small instances of ErasureJobs for TLC. *)
EXTENDS ErasureJobs

(* The command lines of gdpr_erasure_dag.py. *)
AsInDag ==
  [deadlines  |-> <<"deadlines", "--warn-days">>,
   sweep      |-> <<"sweep", "--target">>,
   verify     |-> <<"verify-all", "--target">>,
   tombstones |-> <<"tombstones", "--target", "--bootstrap">>]

(* The same commands in an order the parser accepts, all on the warehouse. *)
TargetFirst ==
  [deadlines  |-> <<"--target", "deadlines", "--warn-days">>,
   sweep      |-> <<"--target", "sweep">>,
   verify     |-> <<"--target", "verify-all">>,
   tombstones |-> <<"--target", "tombstones", "--bootstrap">>]
==============================================================================
