---------------------------- MODULE MCActivation -----------------------------
(* Instances of Activation for TLC. *)
EXTENDS Activation, TLC

Symmetric ==
    Permutations(Revisions) \cup Permutations(Reviews) \cup Permutations(Platforms)
        \cup Permutations(Agents)
==============================================================================
