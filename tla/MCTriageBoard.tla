---------------------------- MODULE MCTriageBoard ----------------------------
(* Instances of TriageBoard for TLC. *)
EXTENDS TriageBoard, TLC

CONSTANT q1

All == States
New == {"NEW"}
Buckets == {All, New}
Symmetry == Permutations(Tickets)
Start == [filter |-> All, query |-> q1]
==============================================================================
