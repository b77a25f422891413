----------------------------- MODULE MCChatPage -----------------------------
(* Instances of ChatPage for TLC. *)
EXTENDS ChatPage

CONSTANTS c1, q1

Turn(isActive) == [chat |-> c1, question |-> q1, key |-> 0, revision |-> 1, active |-> isActive]

\* A first visit, and a conversation of two turns whose last one still runs.
Visits == {<<>>, <<Turn(FALSE), Turn(TRUE)>>}
==============================================================================
