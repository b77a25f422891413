------------------------------ MODULE Activation ------------------------------
(***************************************************************************)
(* Evaluation and activation of optimized content                          *)
(* (app/optimization/service.py): execute evaluates a revision against the *)
(* active content, review approves or rejects it, rollback restores the    *)
(* parent or revokes.  Each reads what it needs in one statement or        *)
(* transaction and writes in another, guarded by what must not have        *)
(* changed.  One project; roles, reasons, hashes and the separation of     *)
(* author and reviewer only refuse requests.                               *)
(***************************************************************************)
EXTENDS Naturals, FiniteSets, SequencesExt

CONSTANTS
    Revisions,  \* calls of execute, each with the row it may insert
    Reviews,    \* requests of administrators, one after the other
    Platforms,  \* platform_hash: the files a process was started with
    Agents,     \* what configurations.approved may return
    MaxProcesses,  \* bound: platforms deployed at a time
    None

ASSUME RevisionsAssumption == IsFiniteSet(Revisions)
ASSUME NoneAssumption == None \notin Revisions \cup Platforms \cup Agents

VARIABLES
    status,    \* optimization_revisions.status, "NONE" without a row
    parent,    \* parent_hash, as execute read it
    platform,  \* the platform of the process that executes it
    basis,     \* the agents in its context_hash
    active,    \* active_optimized_content.optimization_id, or None
    pc,        \* pc[r]: where execute is suspended
    task,      \* task[v]: what the administrator's request is about to do
    target,    \* target[v]: its optimization_id
    process,   \* process[v]: the platform of the process that serves it
    seen,      \* seen[v]: the active content it has read
    deployed,  \* platforms of the running processes
    agents     \* the approved agents

rows == <<status, parent, platform, basis, active>>
requests == <<task, target, process, seen>>
vars == <<rows, pc, requests, deployed, agents>>

------------------------------------------------------------------------------
Statuses == {"NONE", "RUNNING", "PENDING_APPROVAL", "NO_IMPROVEMENT", "FAILED", "APPROVED",
             "REJECTED", "REVOKED"}
Inside == {"insert", "evaluate"}
Places == {"new", "context", "over"} \cup Inside
Tasks == {"idle", "read", "context", "approve", "reject", "rollback", "revoke"}

\* effective: content made for another platform does not count.
Effective(p) == IF active # None /\ platform[active] = p THEN active ELSE None

\* OPTIMIZATION_LOCK of the process.
Busy(p) == \E r \in Revisions : platform[r] = p /\ pc[r] \in Inside

\* WHERE status = 'RUNNING'. (Mutated form: no such condition.)
UpdateAny(r) == TRUE
UpdateRunning(r) == status[r] = "RUNNING"

\* WHERE status = 'PENDING_APPROVAL'.
StillPending(r) == status[r] = "PENDING_APPROVAL"

\* What an approval needs of the active row: none for the baseline, the parent otherwise.
\* (Mutated form: any row is replaced.)
AnyParent(r) == TRUE
ParentIsActive(r) == active = parent[r]

\* WHERE optimization_id = ... of rollback. (Mutated form: it trusts the status it read.)
WasApproved(r) == TRUE
IsActive(r) == active = r

SetStatus(r, s) == status' = [status EXCEPT ![r] = s]
Goto(r, where) == pc' = [pc EXCEPT ![r] = where]
Continue(v, what) == task' = [task EXCEPT ![v] = what]

\* The request is answered.
Reply(v) ==
    /\ task' = [task EXCEPT ![v] = "idle"]
    /\ target' = [target EXCEPT ![v] = None]
    /\ process' = [process EXCEPT ![v] = None]
    /\ seen' = [seen EXCEPT ![v] = None]

------------------------------------------------------------------------------
Init ==
    /\ status = [r \in Revisions |-> "NONE"]
    /\ parent = [r \in Revisions |-> None]
    /\ platform = [r \in Revisions |-> None]
    /\ basis = [r \in Revisions |-> None]
    /\ active = None
    /\ pc = [r \in Revisions |-> "new"]
    /\ task = [v \in Reviews |-> "idle"]
    /\ target = [v \in Reviews |-> None]
    /\ process = [v \in Reviews |-> None]
    /\ seen = [v \in Reviews |-> None]
    /\ deployed = {}
    /\ agents \in Agents

(***************************************************************************)
(* execute                                                                 *)
(***************************************************************************)

\* _context reads the active row and its report...
ReadBaseline(r) ==
    /\ pc[r] = "new"
    /\ \E p \in deployed :
         /\ platform' = [platform EXCEPT ![r] = p]
         /\ parent' = [parent EXCEPT ![r] = Effective(p)]
    /\ Goto(r, "context")
    /\ UNCHANGED <<status, basis, active, requests, deployed, agents>>

\* ... then the approved agents.  The process evaluates one revision at a time.
Admit(r) ==
    /\ pc[r] = "context"
    /\ ~Busy(platform[r])
    /\ basis' = [basis EXCEPT ![r] = agents]
    /\ Goto(r, "insert")
    /\ UNCHANGED <<status, parent, platform, active, requests, deployed, agents>>

\* The process is evaluating, or the request or its dataset is refused.
Refuse(r) ==
    /\ pc[r] = "context"
    /\ Goto(r, "over")
    /\ UNCHANGED <<rows, requests, deployed, agents>>

Insert(r) ==
    /\ pc[r] = "insert"
    /\ SetStatus(r, "RUNNING")
    /\ Goto(r, "evaluate")
    /\ UNCHANGED <<parent, platform, basis, active, requests, deployed, agents>>

\* The report is stored and the row updated, if it still runs.
Report(r) ==
    /\ pc[r] = "evaluate"
    /\ \/ /\ UpdateRunning(r)
          /\ \E s \in {"PENDING_APPROVAL", "NO_IMPROVEMENT"} : SetStatus(r, s)
       \/ ~UpdateRunning(r) /\ UNCHANGED status
    /\ Goto(r, "over")
    /\ UNCHANGED <<parent, platform, basis, active, requests, deployed, agents>>

\* A cancellation or an error: _fail, unless it fails itself; finally releases the lock.
Fail(r) ==
    /\ pc[r] \in Inside
    /\ \/ UpdateRunning(r) /\ SetStatus(r, "FAILED")
       \/ UNCHANGED status
    /\ Goto(r, "over")
    /\ UNCHANGED <<parent, platform, basis, active, requests, deployed, agents>>

\* get and list fail a row that runs past its deadline, which may pass at any time.
Get(r) ==
    /\ UpdateRunning(r)
    /\ SetStatus(r, "FAILED")
    /\ UNCHANGED <<parent, platform, basis, active, pc, requests, deployed, agents>>

(***************************************************************************)
(* review                                                                  *)
(***************************************************************************)

ReadRow(v, r) ==
    /\ task[v] = "idle"
    /\ status[r] = "PENDING_APPROVAL"
    /\ target' = [target EXCEPT ![v] = r]
    /\ \E p \in deployed : process' = [process EXCEPT ![v] = p]
    /\ Continue(v, "read")
    /\ UNCHANGED <<rows, pc, seen, deployed, agents>>

ReadActive(v) ==
    /\ task[v] = "read"
    /\ seen' = [seen EXCEPT ![v] = Effective(process[v])]
    /\ Continue(v, "context")
    /\ UNCHANGED <<rows, pc, target, process, deployed, agents>>

\* The parent and the context hash (platform, agents, and with the parent the bundle).
SameContext(v) ==
    /\ seen[v] = parent[target[v]]
    /\ process[v] = platform[target[v]]
    /\ agents = basis[target[v]]

ReadAgents(v) ==
    /\ task[v] = "context"
    /\ \/ SameContext(v) /\ Continue(v, "approve")
       \/ Continue(v, "reject")
    /\ UNCHANGED <<rows, pc, target, process, seen, deployed, agents>>

\* One transaction: the decision and the activation.
Approve(v) ==
    /\ task[v] = "approve"
    /\ StillPending(target[v]) /\ ParentIsActive(target[v])
    /\ SetStatus(target[v], "APPROVED")
    /\ active' = target[v]
    /\ Reply(v)
    /\ UNCHANGED <<parent, platform, basis, pc, deployed, agents>>

\* "Active content changed during approval": it is rolled back.
Conflict(v) ==
    /\ task[v] = "approve"
    /\ StillPending(target[v]) /\ ~ParentIsActive(target[v])
    /\ Reply(v)
    /\ UNCHANGED <<rows, pc, deployed, agents>>

Reject(v) ==
    /\ task[v] = "reject"
    /\ StillPending(target[v])
    /\ SetStatus(target[v], "REJECTED")
    /\ Reply(v)
    /\ UNCHANGED <<parent, platform, basis, active, pc, deployed, agents>>

(***************************************************************************)
(* rollback, with and without revoke                                       *)
(***************************************************************************)

\* It reads the row and, for a restoration, the parent's row and report.
ReadApproved(v, r) ==
    /\ task[v] = "idle"
    /\ status[r] = "APPROVED"
    /\ target' = [target EXCEPT ![v] = r]
    /\ \E p \in deployed :
         /\ process' = [process EXCEPT ![v] = p]
         /\ \/ /\ parent[r] \in {None} \cup {q \in Revisions : status[q] = "APPROVED" /\ platform[q] = p}
               /\ Continue(v, "rollback")
            \/ Continue(v, "revoke")
    /\ UNCHANGED <<rows, pc, seen, deployed, agents>>

\* The active row is replaced or deleted and the revision REVOKED, in the same transaction.
Rollback(v) ==
    /\ task[v] = "rollback" /\ IsActive(target[v])
    /\ active' = parent[target[v]]
    /\ SetStatus(target[v], "REVOKED")
    /\ Reply(v)
    /\ UNCHANGED <<parent, platform, basis, pc, deployed, agents>>

Revoke(v) ==
    /\ task[v] = "revoke" /\ IsActive(target[v])
    /\ active' = None
    /\ SetStatus(target[v], "REVOKED")
    /\ Reply(v)
    /\ UNCHANGED <<parent, platform, basis, pc, deployed, agents>>

\* Another administrator was faster, or the request is refused for another reason.
GiveUp(v) ==
    /\ task[v] # "idle"
    /\ Reply(v)
    /\ UNCHANGED <<rows, pc, deployed, agents>>

(***************************************************************************)
(* The environment                                                         *)
(***************************************************************************)

Deploy(p) ==
    /\ p \notin deployed /\ Cardinality(deployed) < MaxProcesses
    /\ deployed' = deployed \cup {p}
    /\ UNCHANGED <<rows, pc, requests, agents>>

\* A process stops or crashes, with all that it executes.
Retire(p) ==
    /\ p \in deployed
    /\ deployed' = deployed \ {p}
    /\ pc' = [r \in Revisions |-> IF platform[r] = p THEN "over" ELSE pc[r]]
    /\ task' = [v \in Reviews |-> IF process[v] = p THEN "idle" ELSE task[v]]
    /\ target' = [v \in Reviews |-> IF process[v] = p THEN None ELSE target[v]]
    /\ seen' = [v \in Reviews |-> IF process[v] = p THEN None ELSE seen[v]]
    /\ process' = [v \in Reviews |-> IF process[v] = p THEN None ELSE process[v]]
    /\ UNCHANGED <<rows, agents>>

\* Another configuration of agents is approved or revoked.
ChangeAgents ==
    /\ agents' \in Agents \ {agents}
    /\ UNCHANGED <<rows, pc, requests, deployed>>

------------------------------------------------------------------------------
Execute(r) ==
    \/ ReadBaseline(r) \/ Admit(r) \/ Refuse(r) \/ Insert(r) \/ Report(r) \/ Fail(r)

Review(v) ==
    \/ ReadActive(v) \/ ReadAgents(v) \/ Approve(v) \/ Conflict(v) \/ Reject(v)
    \/ Rollback(v) \/ Revoke(v) \/ GiveUp(v)
    \/ \E r \in Revisions : ReadRow(v, r) \/ ReadApproved(v, r)

Next ==
    \/ \E r \in Revisions : Execute(r) \/ Get(r)
    \/ \E v \in Reviews : Review(v)
    \/ \E p \in Platforms : Deploy(p) \/ Retire(p)
    \/ ChangeAgents

Spec == Init /\ [][Next]_vars

------------------------------------------------------------------------------
(***************************************************************************)
(* Properties.                                                             *)
(***************************************************************************)

\* Every variable has the type of the column or local variable it stands for.
TypeOK ==
    /\ status \in [Revisions -> Statuses]
    /\ parent \in [Revisions -> Revisions \cup {None}]
    /\ platform \in [Revisions -> Platforms \cup {None}]
    /\ basis \in [Revisions -> Agents \cup {None}]
    /\ active \in Revisions \cup {None}
    /\ pc \in [Revisions -> Places]
    /\ task \in [Reviews -> Tasks]
    /\ target \in [Reviews -> Revisions \cup {None}]
    /\ process \in [Reviews -> Platforms \cup {None}]
    /\ seen \in [Reviews -> Revisions \cup {None}]
    /\ deployed \in SUBSET Platforms
    /\ agents \in Agents

\* Only approved content is active, whatever reviews and restorations race each other.
ActiveApproved == active # None => status[active] = "APPROVED"

\* The parent of approved content stays approved: a rollback of the active revision never
\* finds that "the previous revision is no longer approved".
Restorable ==
    \A r \in Revisions :
        status[r] = "APPROVED" /\ parent[r] # None => status[parent[r]] = "APPROVED"

\* A decision stands: a failed, rejected, useless or revoked revision stays so, and
\* approved content is only revoked.
DecisionsStand ==
    [][\A r \in Revisions :
          status'[r] # status[r] =>
              \/ status[r] \in {"NONE", "RUNNING", "PENDING_APPROVAL"}
              \/ status[r] = "APPROVED" /\ status'[r] = "REVOKED"]_vars

\* The revisions in force: approved, each on the content it was evaluated against, the
\* active one on top.
Approved == {r \in Revisions : status[r] = "APPROVED"}

IsLayering(s) ==
    /\ s # <<>> /\ Last(s) = active
    /\ \A i \in DOMAIN s : parent[s[i]] = IF i = 1 THEN None ELSE s[i - 1]

Layers ==
    IF active = None THEN <<>>
    ELSE CHOOSE s \in BoundedSeq(Approved, Cardinality(Approved)) : IsLayering(s)

Past == {r \in Revisions : status[r] \in {"APPROVED", "REVOKED"}} \ ToSet(Layers)

\* The table of active content keeps the promise of ContentHistory.
History == INSTANCE ContentHistory WITH layers <- Layers, past <- Past
HistorySpec == History!Spec
==============================================================================
