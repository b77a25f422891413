-------------------------- MODULE MCImprovementJobs --------------------------
(* Instances of ImprovementJobs for TLC. *)
EXTENDS ImprovementJobs, TLC

Symmetric == Permutations(Workers) \cup Permutations(Operators)
==============================================================================
