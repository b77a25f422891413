---------------------------- MODULE RunLifecycle -----------------------------
(***************************************************************************)
(* The execution of investigations by RCAAnalyzerRunner (app/runtime/      *)
(* runner.py) over the runs table (app/persistence/store.py).              *)
(*                                                                         *)
(* One element of Runs is one call of execute and the run_id it would      *)
(* insert.  The call is an asyncio task: it is interleaved with the others *)
(* at every await, so each action below ends where the code awaits, and a  *)
(* pending Task.cancel() is delivered at the next one.  SELECT and UPDATE  *)
(* of one store call are separate steps, as they are for the database.     *)
(* An element of Operators is one POST .../cancel request.                 *)
(***************************************************************************)
EXTENDS Naturals, FiniteSets

CONSTANTS
    Runs,        \* the submissions
    Operators,   \* the cancellation requests
    NoKey,       \* a submission without Idempotency-Key
    Key,         \* Key[r]: the key of submission r, or NoKey
    Request,     \* Request[r]: the request hash of submission r
    Limits,      \* the values max_concurrent_runs may be given
    None,
    MaxCrashes   \* bound: how many times the process dies

ASSUME RunsAssumption == IsFiniteSet(Runs)
ASSUME LimitsAssumption == Limits \subseteq Nat \ {0} /\ Limits # {}
ASSUME CrashAssumption == MaxCrashes \in Nat

VARIABLES
    row,        \* row[r]: status column of run r, "absent" before the insert
    result,     \* result[r]: result_json is set
    late,       \* runs whose deadline column is in the past
    pc,         \* pc[r]: where the task of submission r is suspended
    handling,   \* tasks inside one of execute's except blocks
    verdict,    \* verdict[r]: the status the task's update_run is to store
    response,   \* response[r]: the status in the task's local variable response
    answer,     \* answer[r]: the run whose response the submitter was given
    interrupt,  \* tasks with an undelivered cancel()
    gone,       \* submitters that have disconnected
    detached,   \* shielded update_run calls whose awaiting task was cancelled
    tasks,      \* self.tasks: the runs a cancellation can reach
    free,       \* self.run_limiter._value
    limit,      \* self._run_limit
    stored,     \* the effective max_concurrent_runs parameter in the database
    editing,    \* runtime_settings_lock is held by an operator's edit
    cpc,        \* cpc[c]: where cancellation request c is suspended
    target,     \* target[c]: the run it names
    told,       \* told[c]: the status its reply carried
    expiring,   \* reads that saw a RUNNING row past its deadline
    crashes

store == <<row, result, late>>
task == <<pc, handling, verdict, response, answer, interrupt, gone, detached, tasks>>
capacity == <<free, limit, stored, editing>>
cancels == <<cpc, target, told>>
vars == <<store, task, capacity, cancels, expiring, crashes>>

------------------------------------------------------------------------------
Terminal == {"SUCCEEDED", "PARTIAL", "FAILED", "CANCELLED", "SIMULATED", "BLOCKED"}
Completed == {"SUCCEEDED", "PARTIAL"}
Statuses == {"absent", "RUNNING"} \cup Terminal

ASSUME NoneAssumption == None \notin Runs \cup Statuses

\* The statements of _execute_contract that do the investigation itself.
Working == {"connect", "events", "ground"}

\* The awaits of one update_run call: before its SELECT, between SELECT and
\* UPDATE, and before the get_run it returns.
Updating == {"read", "write", "reply"}

\* Everything inside `async with self._run_slot()`.
Holding == {"prepare", "created", "preflight"} \cup Working \cup Updating \cup {"cleanup", "unwind"}

Over == {"done", "replayed", "rejected", "dropped", "lost"}

Phases == {"idle", "admit"} \cup Holding \cup Over

\* Inside the try block whose body runs under asyncio.timeout.
InBody(r) ==
    \/ pc[r] \in {"preflight"} \cup Working
    \/ pc[r] \in Updating /\ r \notin handling

Holders == {r \in Runs : pc[r] \in Holding}

\* The runs already stored under the idempotency key of submission r.
Bound(r) == {s \in Runs : Key[r] # NoKey /\ Key[s] = Key[r] /\ row[s] # "absent"}

\* The unique index on idempotency_key_hash admits a row for submission r.
\* (Mutated form: the index is missing.)
NoUniqueKey(r) == TRUE
KeyIsFree(r) == Bound(r) = {}

\* A stored row answers submission r only if the request hashes agree.
\* (Mutated form: the hash is not compared.)
AnyRequest(s, r) == TRUE
SameRequestHash(s, r) == Request[s] = Request[r]

\* A RUNNING row whose deadline has passed.
\* (Mutated form: nobody looks at the deadline.)
NoDeadline(r) == FALSE
Expired(r) == row[r] = "RUNNING" /\ r \in late

\* get_run: the status it returns, having failed a RUNNING row past its deadline.
GetRun(r) == IF Expired(r) THEN "FAILED" ELSE row[r]

\* The task's own look at the row before and during the investigation.
\* (Mutated form: the task goes on without looking.)
WithoutLooking(r) == TRUE
StillRunning(r) == GetRun(r) = "RUNNING"

\* UPDATE runs SET status = s, result_json = ... WHERE status = 'RUNNING'; only the
\* completed statuses come with a result, the others leave the column alone.
\* (Mutated form: without the status in the WHERE clause.)
UpdateAny(r, s) ==
    /\ row' = [row EXCEPT ![r] = s]
    /\ result' = [result EXCEPT ![r] = @ \/ s \in Completed]

UpdateRunning(r, s) ==
    /\ row' = IF row[r] = "RUNNING" THEN [row EXCEPT ![r] = s] ELSE row
    /\ result' = IF row[r] = "RUNNING"
                    THEN [result EXCEPT ![r] = @ \/ s \in Completed] ELSE result

\* run_limiter.locked().
Locked == free = 0

\* No permit is out. (Mutated form: the semaphore is replaced at any time.)
AssumeIdle == TRUE
RunnerIdle == free = limit

ReleaseSlot == free' = free + 1

Goto(r, phase) == pc' = [pc EXCEPT ![r] = phase]

------------------------------------------------------------------------------
Init ==
    /\ row = [r \in Runs |-> "absent"]
    /\ result = [r \in Runs |-> FALSE]
    /\ late = {}
    /\ pc = [r \in Runs |-> "idle"]
    /\ handling = {}
    /\ verdict = [r \in Runs |-> None]
    /\ response = [r \in Runs |-> None]
    /\ answer = [r \in Runs |-> None]
    /\ interrupt = {}
    /\ gone = {}
    /\ detached = {}
    /\ tasks = {}
    /\ limit \in Limits
    /\ free = limit
    /\ stored = limit
    /\ editing = FALSE
    /\ cpc = [c \in Operators |-> "idle"]
    /\ target = [c \in Operators |-> None]
    /\ told = [c \in Operators |-> None]
    /\ expiring = {}
    /\ crashes = 0

(***************************************************************************)
(* Admission: find_idempotent_run, then the slot, then create_run.         *)
(***************************************************************************)

\* execute up to find_idempotent_run: a known key is answered, or refused when
\* it names another request, before any slot is taken.
Submit(r) ==
    /\ pc[r] = "idle"
    /\ \/ /\ Bound(r) = {}
          /\ Goto(r, "admit")
          /\ UNCHANGED <<store, response, answer>>
       \/ \E s \in Bound(r) :
             /\ SameRequestHash(s, r)
             /\ Goto(r, "replayed")
             /\ answer' = [answer EXCEPT ![r] = s]
             /\ response' = [response EXCEPT ![r] = GetRun(s)]
             /\ row' = [row EXCEPT ![s] = GetRun(s)]
             /\ UNCHANGED <<result, late>>
       \/ \E s \in Bound(r) :
             /\ ~SameRequestHash(s, r)
             /\ Goto(r, "rejected")
             /\ UNCHANGED <<store, response, answer>>
    /\ UNCHANGED <<handling, verdict, interrupt, gone, detached, tasks, capacity, cancels,
                   expiring, crashes>>

\* _run_slot: waits for runtime_settings_lock, then takes a permit or raises
\* OverflowError without ever waiting on the semaphore.
TakeSlot(r) ==
    /\ pc[r] = "admit"
    /\ r \notin interrupt
    /\ ~editing
    /\ IF Locked THEN Goto(r, "rejected") /\ UNCHANGED free
                   ELSE Goto(r, "prepare") /\ free' = free - 1
    /\ UNCHANGED <<store, handling, verdict, response, answer, interrupt, gone, detached,
                   tasks, limit, stored, editing, cancels, expiring, crashes>>

\* Any refusal while the contract is assembled: chat, attachments, specialists...
RefuseContract(r) ==
    /\ pc[r] = "prepare"
    /\ r \notin interrupt
    /\ Goto(r, "rejected")
    /\ ReleaseSlot
    /\ UNCHANGED <<store, handling, verdict, response, answer, interrupt, gone, detached,
                   tasks, limit, stored, editing, cancels, expiring, crashes>>

\* create_run: the unique key decides between a new row and somebody else's.
CreateRun(r) ==
    /\ pc[r] = "prepare"
    /\ r \notin interrupt
    /\ \/ /\ KeyIsFree(r)
          /\ row' = [row EXCEPT ![r] = "RUNNING"]
          /\ Goto(r, "created")
          /\ UNCHANGED <<response, answer, free>>
       \/ \E s \in Bound(r) :
             /\ SameRequestHash(s, r)
             /\ Goto(r, "replayed")
             /\ answer' = [answer EXCEPT ![r] = s]
             /\ response' = [response EXCEPT ![r] = row[s]]
             /\ ReleaseSlot
             /\ UNCHANGED row
       \/ \E s \in Bound(r) :
             /\ ~SameRequestHash(s, r)
             /\ Goto(r, "rejected")
             /\ ReleaseSlot
             /\ UNCHANGED <<row, response, answer>>
    /\ UNCHANGED <<result, late, handling, verdict, interrupt, gone, detached, tasks,
                   limit, stored, editing, cancels, expiring, crashes>>

\* create_run's closing get_run returns; only now is the task registered.
RegisterTask(r) ==
    /\ pc[r] = "created"
    /\ r \notin interrupt
    /\ row' = [row EXCEPT ![r] = GetRun(r)]
    /\ response' = [response EXCEPT ![r] = GetRun(r)]
    /\ tasks' = tasks \cup {r}
    /\ Goto(r, "preflight")
    /\ UNCHANGED <<result, late, handling, verdict, answer, interrupt, gone, detached,
                   capacity, cancels, expiring, crashes>>

(***************************************************************************)
(* _execute_contract.                                                      *)
(***************************************************************************)

\* update_run stores a status: its SELECT is still to come.
BeginUpdate(r, s) ==
    /\ Goto(r, "read")
    /\ verdict' = [verdict EXCEPT ![r] = s]

\* The task returns status s from the try block; finally clauses follow.
Leave(r, s) ==
    /\ Goto(r, "cleanup")
    /\ response' = [response EXCEPT ![r] = s]

\* The re-read that precedes any work: a run that was closed meanwhile stops
\* here, demo mode ends the run as SIMULATED.
StartContract(r) ==
    /\ pc[r] = "preflight"
    /\ r \notin interrupt
    /\ row' = [row EXCEPT ![r] = GetRun(r)]
    /\ IF StillRunning(r)
         THEN /\ \/ BeginUpdate(r, "SIMULATED")
                 \/ Goto(r, "connect") /\ UNCHANGED verdict
              /\ UNCHANGED response
         ELSE Leave(r, GetRun(r)) /\ UNCHANGED verdict
    /\ UNCHANGED <<result, late, handling, answer, interrupt, gone, detached, tasks,
                   capacity, cancels, expiring, crashes>>

\* Connectors are built and probed; a required one that is unhealthy, or missing
\* model credentials, blocks the run.
Connect(r) ==
    /\ pc[r] = "connect"
    /\ r \notin interrupt
    /\ \/ BeginUpdate(r, "BLOCKED")
       \/ Goto(r, "events") /\ UNCHANGED verdict
    /\ UNCHANGED <<store, handling, response, answer, interrupt, gone, detached, tasks,
                   capacity, cancels, expiring, crashes>>

\* One turn of `async for event in events`, or the end of the event stream, which
\* is followed by no further look at the row.
ModelEvent(r) ==
    /\ pc[r] = "events"
    /\ r \notin interrupt
    /\ \/ /\ row' = [row EXCEPT ![r] = GetRun(r)]
          /\ IF StillRunning(r) THEN UNCHANGED <<pc, response>> ELSE Leave(r, GetRun(r))
       \/ Goto(r, "ground") /\ UNCHANGED <<row, response>>
    /\ UNCHANGED <<result, late, handling, verdict, answer, interrupt, gone, detached,
                   tasks, capacity, cancels, expiring, crashes>>

\* The structured answer passed validation against the stored evidence.
Ground(r) ==
    /\ pc[r] = "ground"
    /\ r \notin interrupt
    /\ \E s \in Completed : BeginUpdate(r, s)
    /\ UNCHANGED <<store, handling, response, answer, interrupt, gone, detached, tasks,
                   capacity, cancels, expiring, crashes>>

(***************************************************************************)
(* update_run, from the body or from an except block.                      *)
(***************************************************************************)

\* SELECT: a terminal row is returned as it is.
UpdateReads(r) ==
    /\ pc[r] = "read"
    /\ r \notin interrupt
    /\ IF row[r] \in Terminal THEN Leave(r, row[r])
                              ELSE Goto(r, "write") /\ UNCHANGED response
    /\ UNCHANGED <<store, handling, verdict, answer, interrupt, gone, detached, tasks,
                   capacity, cancels, expiring, crashes>>

\* UPDATE and COMMIT: once sent, the database completes them whether or not the
\* task is cancelled meanwhile.
UpdateWrites(r) ==
    /\ pc[r] = "write"
    /\ UpdateRunning(r, verdict[r])
    /\ Goto(r, "reply")
    /\ UNCHANGED <<late, handling, verdict, response, answer, interrupt, gone, detached,
                   tasks, capacity, cancels, expiring, crashes>>

\* The get_run whose status update_run returns.
UpdateReplies(r) ==
    /\ pc[r] = "reply"
    /\ r \notin interrupt
    /\ row' = [row EXCEPT ![r] = GetRun(r)]
    /\ Leave(r, GetRun(r))
    /\ UNCHANGED <<result, late, handling, verdict, answer, interrupt, gone, detached,
                   tasks, capacity, cancels, expiring, crashes>>

(***************************************************************************)
(* What ends the body early.                                               *)
(***************************************************************************)

Handle(r, s) ==
    /\ handling' = handling \cup {r}
    /\ BeginUpdate(r, s)

\* asyncio.timeout covers the whole body; it is armed after the deadline column was
\* computed from the same budget, so it cannot fire before the deadline has passed.
\* (Mutated form: it is closed before the investigation starts.)
PreflightTimeout(r) == pc[r] = "preflight" /\ r \in late
TimeoutDue(r) == InBody(r) /\ r \in late

Timeout(r) ==
    /\ TimeoutDue(r)
    /\ r \notin interrupt
    /\ Handle(r, "FAILED")
    /\ UNCHANGED <<store, response, answer, interrupt, gone, detached, tasks, capacity,
                   cancels, expiring, crashes>>

\* PermissionError becomes BLOCKED, every other exception FAILED.
Raise(r) ==
    /\ InBody(r)
    /\ r \notin interrupt
    /\ \E s \in {"BLOCKED", "FAILED"} : Handle(r, s)
    /\ UNCHANGED <<store, response, answer, interrupt, gone, detached, tasks, capacity,
                   cancels, expiring, crashes>>

\* CancelledError at an await.  In the body it is turned into a CANCELLED update;
\* a second one finds that update shielded, and any other update or the cleanup
\* abandoned.  Before registration nothing catches it.
Interrupted(r) ==
    /\ r \in interrupt
    /\ interrupt' = interrupt \ {r}
    /\ \/ /\ pc[r] = "admit"
          /\ Goto(r, "dropped")
          /\ UNCHANGED <<handling, verdict, detached, free>>
       \/ /\ pc[r] \in {"prepare", "created"}
          /\ Goto(r, "dropped")
          /\ ReleaseSlot
          /\ UNCHANGED <<handling, verdict, detached>>
       \/ /\ InBody(r)
          /\ Handle(r, "CANCELLED")
          /\ UNCHANGED <<detached, free>>
       \/ /\ pc[r] \in Updating /\ r \in handling
          /\ detached' = IF verdict[r] = "CANCELLED" /\ pc[r] # "reply"
                           THEN detached \cup {r} ELSE detached
          /\ Goto(r, "unwind")
          /\ UNCHANGED <<handling, verdict, free>>
       \/ /\ pc[r] \in {"cleanup", "unwind"}
          /\ Goto(r, "unwind")
          /\ UNCHANGED <<handling, verdict, detached, free>>
    /\ UNCHANGED <<store, response, answer, gone, tasks, limit, stored, editing, cancels,
                   expiring, crashes>>

\* A store call that nothing catches raises: the get_run of create_run, the update
\* of an except block, or the cleanup.
StoreFails(r) ==
    /\ r \notin interrupt
    /\ \/ pc[r] = "created" /\ Goto(r, "dropped") /\ ReleaseSlot
       \/ pc[r] \in Updating /\ r \in handling /\ Goto(r, "unwind") /\ UNCHANGED free
       \/ pc[r] = "cleanup" /\ Goto(r, "unwind") /\ UNCHANGED free
    /\ UNCHANGED <<store, handling, verdict, response, answer, interrupt, gone, detached,
                   tasks, limit, stored, editing, cancels, expiring, crashes>>

\* The update_run that asyncio.shield keeps alive after its awaiter is gone.
DetachedUpdate(r) ==
    /\ r \in detached
    /\ detached' = detached \ {r}
    /\ UpdateRunning(r, "CANCELLED")
    /\ UNCHANGED <<late, pc, handling, verdict, response, answer, interrupt, gone, tasks,
                   capacity, cancels, expiring, crashes>>

\* The finally clauses end: the task is unregistered, its slot released and the
\* response returned.
Finish(r) ==
    /\ pc[r] = "cleanup"
    /\ r \notin interrupt
    /\ Goto(r, "done")
    /\ answer' = [answer EXCEPT ![r] = r]
    /\ tasks' = tasks \ {r}
    /\ ReleaseSlot
    /\ UNCHANGED <<store, handling, verdict, response, interrupt, gone, detached, limit,
                   stored, editing, cancels, expiring, crashes>>

\* The same with an exception propagating: the submitter gets an error.
Unwind(r) ==
    /\ pc[r] = "unwind"
    /\ r \notin interrupt
    /\ Goto(r, "dropped")
    /\ tasks' = tasks \ {r}
    /\ ReleaseSlot
    /\ UNCHANGED <<store, handling, verdict, response, answer, interrupt, gone, detached,
                   limit, stored, editing, cancels, expiring, crashes>>

\* The stream's cleanup, or aclose for a registered task, cancels the task.
Disconnect(r) ==
    /\ pc[r] \in {"admit"} \cup Holding
    /\ r \notin gone
    /\ gone' = gone \cup {r}
    /\ interrupt' = interrupt \cup {r}
    /\ UNCHANGED <<store, pc, handling, verdict, response, answer, detached, tasks,
                   capacity, cancels, expiring, crashes>>

(***************************************************************************)
(* Cancellation requests.                                                  *)
(***************************************************************************)

\* cancel, once update_run has returned status s for run r.
CancelReturns(c, r, s) ==
    /\ cpc' = [cpc EXCEPT ![c] = "over"]
    /\ told' = [told EXCEPT ![c] = s]
    /\ interrupt' = IF s = "CANCELLED" /\ r \in tasks THEN interrupt \cup {r} ELSE interrupt

\* The SELECT of cancel's update_run.
CancelReads(c, r) ==
    /\ cpc[c] = "idle"
    /\ row[r] # "absent"
    /\ target' = [target EXCEPT ![c] = r]
    /\ IF row[r] \in Terminal
         THEN CancelReturns(c, r, row[r])
         ELSE cpc' = [cpc EXCEPT ![c] = "write"] /\ UNCHANGED <<told, interrupt>>
    /\ UNCHANGED <<store, pc, handling, verdict, response, answer, gone, detached, tasks,
                   capacity, expiring, crashes>>

CancelWrites(c) ==
    /\ cpc[c] = "write"
    /\ UpdateRunning(target[c], "CANCELLED")
    /\ cpc' = [cpc EXCEPT ![c] = "reply"]
    /\ UNCHANGED <<late, task, capacity, target, told, expiring, crashes>>

CancelReplies(c) ==
    /\ cpc[c] = "reply"
    /\ LET r == target[c] IN
         /\ row' = [row EXCEPT ![r] = GetRun(r)]
         /\ CancelReturns(c, r, GetRun(r))
    /\ UNCHANGED <<result, late, pc, handling, verdict, response, answer, gone, detached,
                   tasks, capacity, target, expiring, crashes>>

(***************************************************************************)
(* Deadlines, read by whoever lists, counts or opens runs.                 *)
(***************************************************************************)

DeadlinePasses(r) ==
    /\ row[r] # "absent"
    /\ r \notin late
    /\ late' = late \cup {r}
    /\ UNCHANGED <<row, result, task, capacity, cancels, expiring, crashes>>

\* The SELECT of get_run, run_counts or _list_responses.
ReaderSeesExpired(r) ==
    /\ Expired(r)
    /\ expiring' = expiring \cup {r}
    /\ UNCHANGED <<store, task, capacity, cancels, crashes>>

\* The UPDATE that follows it.
ReaderExpires(r) ==
    /\ r \in expiring
    /\ expiring' = expiring \ {r}
    /\ UpdateRunning(r, "FAILED")
    /\ UNCHANGED <<late, task, capacity, cancels, crashes>>

(***************************************************************************)
(* The concurrency limit.                                                  *)
(***************************************************************************)

\* save_template_defaults changes the effective value without the runner's lock.
SaveTemplate ==
    /\ \E n \in Limits : stored' = n
    /\ UNCHANGED <<store, task, free, limit, editing, cancels, expiring, crashes>>

\* mutate_runtime takes the lock; only an edit of the limit itself must find the
\* runner idle here.
EditBegins ==
    /\ ~editing
    /\ editing' = TRUE
    /\ \/ RunnerIdle /\ \E n \in Limits : stored' = n
       \/ UNCHANGED stored
    /\ UNCHANGED <<store, task, free, limit, cancels, expiring, crashes>>

\* refresh_runtime applies what is stored, or refuses while runs are active.
EditEnds ==
    /\ editing
    /\ editing' = FALSE
    /\ IF stored # limit /\ RunnerIdle
         THEN limit' = stored /\ free' = stored
         ELSE UNCHANGED <<limit, free>>
    /\ UNCHANGED <<store, task, stored, cancels, expiring, crashes>>

(***************************************************************************)
(* The process dies and is restarted: every task and request in it is      *)
(* lost, only the database survives.                                       *)
(***************************************************************************)
Crash ==
    /\ crashes < MaxCrashes
    /\ crashes' = crashes + 1
    /\ pc' = [r \in Runs |-> IF pc[r] \in {"admit"} \cup Holding THEN "lost" ELSE pc[r]]
    /\ interrupt' = {}
    /\ detached' = {}
    /\ tasks' = {}
    /\ cpc' = [c \in Operators |-> IF cpc[c] \in {"write", "reply"} THEN "over" ELSE cpc[c]]
    /\ expiring' = {}
    /\ editing' = FALSE
    /\ limit' \in Limits
    /\ free' = limit'
    /\ UNCHANGED <<store, handling, verdict, response, answer, gone, stored, target, told>>

------------------------------------------------------------------------------
\* The steps the event loop and the database take for the task of r.
TaskStep(r) ==
    \/ CreateRun(r) \/ RegisterTask(r) \/ StartContract(r) \/ Ground(r)
    \/ UpdateReads(r) \/ UpdateWrites(r) \/ UpdateReplies(r)
    \/ Interrupted(r) \/ Finish(r) \/ Unwind(r)

Next ==
    \/ \E r \in Runs :
         \/ Submit(r) \/ TakeSlot(r) \/ RefuseContract(r) \/ TaskStep(r)
         \/ Connect(r) \/ ModelEvent(r) \/ Timeout(r) \/ Raise(r) \/ StoreFails(r) \/ DetachedUpdate(r) \/ Disconnect(r)
         \/ DeadlinePasses(r) \/ ReaderSeesExpired(r) \/ ReaderExpires(r)
         \/ \E c \in Operators : CancelReads(c, r)
    \/ \E c \in Operators : CancelWrites(c) \/ CancelReplies(c)
    \/ SaveTemplate \/ EditBegins \/ EditEnds
    \/ Crash

Spec == Init /\ [][Next]_vars

\* The event loop runs every task, time passes, asyncio.timeout fires, and clients
\* keep reading the runs.  Nothing is assumed of connectors and models: Connect and
\* ModelEvent may never happen.
Fairness ==
    \A r \in Runs :
      /\ WF_vars(TaskStep(r))
      /\ WF_vars(Timeout(r))
      /\ WF_vars(DeadlinePasses(r))
      /\ WF_vars(ReaderSeesExpired(r))
      /\ WF_vars(ReaderExpires(r))

FairSpec == Spec /\ Fairness

------------------------------------------------------------------------------
(***************************************************************************)
(* Properties.                                                             *)
(***************************************************************************)

\* Every variable has the type of the column or local variable it stands for.
TypeOK ==
    /\ row \in [Runs -> Statuses]
    /\ result \in [Runs -> BOOLEAN]
    /\ late \in SUBSET Runs
    /\ pc \in [Runs -> Phases]
    /\ handling \in SUBSET Runs
    /\ verdict \in [Runs -> Terminal \cup {None}]
    /\ response \in [Runs -> Statuses \cup {None}]
    /\ answer \in [Runs -> Runs \cup {None}]
    /\ interrupt \in SUBSET Runs
    /\ gone \in SUBSET Runs
    /\ detached \in SUBSET Runs
    /\ tasks \in SUBSET Runs
    /\ limit \in Limits
    /\ free \in Nat
    /\ stored \in Limits
    /\ editing \in BOOLEAN
    /\ cpc \in [Operators -> {"idle", "write", "reply", "over"}]
    /\ target \in [Operators -> Runs \cup {None}]
    /\ told \in [Operators -> Statuses \cup {None}]
    /\ expiring \in SUBSET Runs
    /\ crashes \in 0 .. MaxCrashes
    /\ \A r \in Runs : pc[r] \in Updating => verdict[r] \in Terminal
    /\ \A c \in Operators : cpc[c] # "idle" => target[c] \in Runs

\* The permits in the semaphore and the submissions inside _run_slot always add
\* up to the limit in force: none is leaked by a refusal, a cancellation, an
\* exception or a cleanup that fails, none is released twice, and the semaphore
\* is never replaced under a submission that holds a permit of the old one.
SlotAccounting == free + Cardinality(Holders) = limit

\* A run has a result exactly when it is SUCCEEDED or PARTIAL: whoever loses the
\* race for the row leaves neither a status without its result nor a result
\* under CANCELLED or FAILED.
ResultIffCompleted == \A r \in Runs : result[r] <=> row[r] \in Completed

\* An idempotency key names one run, and every submission under it that was
\* answered was answered with that run and had asked for the same thing, also
\* when two of them passed the lookup before either had inserted its row.
OneRunPerKey ==
    /\ \A r, s \in Runs : (row[r] # "absent" /\ s \in Bound(r)) => r = s
    /\ \A r \in Runs : answer[r] # None =>
         \/ answer[r] = r
         \/ answer[r] \in Bound(r) /\ Request[answer[r]] = Request[r]

\* execute returns only a terminal response, and the row still says the same.
ReplyIsFinal ==
    \A r \in Runs : pc[r] = "done" => response[r] \in Terminal /\ response[r] = row[r]

\* An operator who was told CANCELLED, or anything else that is terminal, was told
\* what the run is and remains; nobody is told that the run is still RUNNING.
CancelReplyIsFinal ==
    \A c \in Operators : told[c] # None => told[c] \in Terminal /\ told[c] = row[target[c]]

\* Once an operator was told CANCELLED, the run's task is not left working:
\* it has a cancellation to deliver before its next step, also when the request
\* came between the insert of the row and the registration of the task.
CancelledStops ==
    \A c \in Operators :
      told[c] = "CANCELLED" /\ pc[target[c]] \in Working => target[c] \in interrupt

\* The row of a run implements the record its readers rely on.
Record == INSTANCE RunRecord WITH status <- row, hasResult <- result
RecordSpec == Record!Spec

\* Every run that was stored as RUNNING is eventually stored as something
\* else, also when its task died with the process or was cancelled before it was
\* registered: the deadline closes what no task will.
RunsEnd == \A r \in Runs : row[r] = "RUNNING" ~> row[r] \in Terminal

\* Every slot is given back, whatever the model, the connectors or the client do.
SlotsReturn == \A r \in Runs : pc[r] \in Holding ~> pc[r] \notin Holding
==============================================================================
