----------------------------- MODULE MCWorkspace -----------------------------
(* Instances of Workspace for TLC. *)
EXTENDS Workspace

CONSTANTS a1, a2, p1, p2

\* a1 belongs to both projects, a2 to the first one only.
Memberships == [a \in Accounts |-> IF a = a1 THEN Projects ELSE {p1}]

\* A browser with the cookie of a1 at the address of p2, and one without.
Browsers == {[cookie |-> a1, project |-> p2], [cookie |-> None, project |-> p1]}
==============================================================================
