-------------------------- MODULE MCSchemaEvolution --------------------------
(* Small instances of SchemaEvolution for TLC. *)
EXTENDS SchemaEvolution, TLC

CONSTANTS price, venue, m1, m2

(* A second version with one more field and a third that has another in    *)
(* its place; the fields of version 1 are in every one and left out.       *)
ThreeSchemas == << {}, {price}, {venue} >>

OneEach == [m \in {m1, m2} |-> m]

Symmetries ==
  Permutations(Messages) \cup Permutations(Deliveries) \cup Permutations(Reconcilers)
==============================================================================
