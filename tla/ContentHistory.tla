---------------------------- MODULE ContentHistory ----------------------------
(***************************************************************************)
(* What the reviewed optimization of a project promises (docs/knowledge.md *)
(* and app/optimization/service.py): approved content lies on the content  *)
(* it was evaluated against, restoring takes the last layer off, revoking  *)
(* returns to the platform baseline, and nothing comes back unreviewed.    *)
(***************************************************************************)
EXTENDS SequencesExt

CONSTANT Revisions

VARIABLES
    layers,  \* the revisions in force; the last is the active one, <<>> the baseline
    past     \* those that were in force before

vars == <<layers, past>>

Init == layers = <<>> /\ past = {}

Approve(r) ==
    /\ r \notin ToSet(layers) \cup past
    /\ layers' = Append(layers, r)
    /\ past' = past

Restore ==
    /\ layers # <<>>
    /\ layers' = Front(layers)
    /\ past' = past \cup {Last(layers)}

Revoke ==
    /\ layers # <<>>
    /\ layers' = <<>>
    /\ past' = past \cup ToSet(layers)

Next == (\E r \in Revisions : Approve(r)) \/ Restore \/ Revoke

Spec == Init /\ [][Next]_vars
==============================================================================
