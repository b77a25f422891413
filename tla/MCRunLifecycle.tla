--------------------------- MODULE MCRunLifecycle ----------------------------
(* Instances of RunLifecycle for TLC. *)
EXTENDS RunLifecycle, TLC

CONSTANT Retries  \* submissions that retry one request; the others ask for another

\* All of them name the same idempotency key.
SameKey == [r \in Runs |-> "key"]
RetriesAndOthers == [r \in Runs |-> IF r \in Retries THEN "request" ELSE "other"]

\* No submission names a key.
WithoutKey == [r \in Runs |-> NoKey]

Symmetric == Permutations(Retries) \cup Permutations(Runs \ Retries)
==============================================================================
