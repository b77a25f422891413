--------------------------- MODULE MCProjectSetup ---------------------------
(* Instances of ProjectSetup for TLC. *)
EXTENDS ProjectSetup

CONSTANTS e1, e2, n1, n2, r1, r2

First == [env |-> e1, name |-> n1]
Other == [env |-> e2, name |-> n1]

\* Entries with the same name, and entries that differ in both.
TwoForms == {First, Other}
ThreeForms == TwoForms \cup {[env |-> e2, name |-> n2]}

\* A first draft was saved but not applied.
Projects == {[drafts |-> <<Other>>, project |-> [env |-> e1, rest |-> r1]]}
==============================================================================
