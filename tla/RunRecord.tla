------------------------------ MODULE RunRecord ------------------------------
(***************************************************************************)
(* What the runs table promises to every reader, whichever of the task, an *)
(* operator's cancellation, a deadline check or a leftover write gets to   *)
(* the row first: a run is opened once, is closed once with one terminal   *)
(* status, carries a result exactly when that status is a completed one,   *)
(* and is never touched again.                                             *)
(***************************************************************************)
CONSTANT Runs

VARIABLES
    status,     \* status[r]: the status column of run r, "absent" before the insert
    hasResult   \* hasResult[r]: the result_json column is not NULL

\* app/runtime/run_contract.py TERMINAL_STATUSES
Terminal == {"SUCCEEDED", "PARTIAL", "FAILED", "CANCELLED", "SIMULATED", "BLOCKED"}

\* The two statuses that are only ever written together with a result.
Completed == {"SUCCEEDED", "PARTIAL"}

Statuses == {"absent", "RUNNING"} \cup Terminal

Init ==
    /\ status = [r \in Runs |-> "absent"]
    /\ hasResult = [r \in Runs |-> FALSE]

Open(r) ==
    /\ status[r] = "absent"
    /\ status' = [status EXCEPT ![r] = "RUNNING"]
    /\ UNCHANGED hasResult

Close(r, s) ==
    /\ status[r] = "RUNNING"
    /\ status' = [status EXCEPT ![r] = s]
    /\ hasResult' = [hasResult EXCEPT ![r] = s \in Completed]

Next == \E r \in Runs : Open(r) \/ \E s \in Terminal : Close(r, s)

Spec == Init /\ [][Next]_<<status, hasResult>>
==============================================================================
