------------------------------- MODULE RunTrace -------------------------------
(***************************************************************************)
(* What one running investigation records and what its submitter sees of   *)
(* it: the tool calls governed by RunGovernance (app/runtime/governance.py)*)
(* the trace kept by RunEventStore (app/persistence/run_events.py), the    *)
(* end of execute (app/runtime/runner.py) and the server-sent events of    *)
(* _stream_run (app/api/routes/runs.py).                                   *)
(*                                                                         *)
(* Tool calls of parallel branches are coroutines: an action ends where    *)
(* the code awaits.  When the run ends, those still waiting are cancelled  *)
(* where they are.                                                         *)
(***************************************************************************)
EXTENDS Naturals, Sequences, FiniteSets

CONSTANTS
    Calls,        \* bound: the tool calls the model proposes
    ToolLimit,    \* tool_limit
    MaxEvidence,  \* settings.max_evidence_items
    MaxEvents,    \* MAX_EVENTS_PER_RUN
    None

ASSUME CallsAssumption == IsFiniteSet(Calls) /\ None \notin Calls
ASSUME BoundsAssumption ==
    ToolLimit \in Nat /\ MaxEvidence \in Nat /\ MaxEvents \in Nat \ {0}

VARIABLES
    open,       \* the run's row is RUNNING
    phase,      \* where execute is
    proposed,   \* tool_calls
    call,       \* call[c]: where the coroutine of call c is suspended
    kind,       \* kind[c]: the terminal event its finish_tool is to append
    started,    \* keys of tool_started
    evidence,   \* calls whose result is in governance.evidence
    pending,    \* _pending_evidence
    saved,      \* calls whose evidence is in the database
    log,        \* every event ever appended, the n-th with sequence n
    dropped,    \* how many of them were pruned
    todo,       \* calls finish_pending_tools has still to finish
    sweeping,   \* the call it is appending the event of
    reader,     \* where the stream is, or how it ended
    seenOpen,   \* the status its get_run returned was RUNNING
    batch,      \* what its list returned
    cursor,     \* trace_sequence
    sent        \* the sequences sent to the submitter

governance == <<proposed, call, kind, started, evidence, pending, saved>>
trace == <<log, dropped>>
sweep == <<todo, sweeping>>
stream == <<reader, seenOpen, batch, cursor, sent>>
vars == <<open, phase, governance, trace, sweep, stream>>

------------------------------------------------------------------------------
Waiting == {"checking", "starting", "running", "saving", "inserting", "finishing"}
\* "tool_stopped" is the tool_cancelled or tool_failed of finish_pending_tools.
Terminal == {"tool_completed", "tool_failed", "tool_stopped"}
Kinds == {"tool_started"} \cup Terminal
Ended == {"over", "raised", "cancelled"}

\* RunEventStore.append: one transaction under the lock of the run's row inserts the
\* event after the last one and prunes the oldest beyond the limit.
Record(c, k) ==
    /\ log' = Append(log, <<c, k>>)
    /\ dropped' = IF Len(log) + 1 - dropped > MaxEvents THEN dropped + 1 ELSE dropped

\* The same for a caller that gets an exception: an error of the database usually
\* committed nothing, a cancellation may find the event committed.
RecordFails(c, k) == UNCHANGED trace \/ Record(c, k)

Goto(c, where) == call' = [call EXCEPT ![c] = where]

\* finish_tool takes the entry out before it awaits...
TakeEntry(c) == started \ {c}

\* ... and puts it back when the append raises.
\* (Mutated form: the entry is lost.)
LoseEntry(c) == started
PutBack(c) == started \cup {c}

BeginFinish(c, k) ==
    /\ Goto(c, "finishing")
    /\ kind' = [kind EXCEPT ![c] = k]
    /\ started' = TakeEntry(c)

\* capture's reservation.
Reservation == pending + 1

\* after_tool with a result: capture checks the limit and reserves before it awaits.
\* (Mutated form: the call is reported before its evidence is stored.)
ReportFirst(c) ==
    /\ BeginFinish(c, "tool_completed")
    /\ UNCHANGED pending
Capture(c) ==
    IF Cardinality(evidence) + pending >= MaxEvidence
      THEN BeginFinish(c, "tool_failed") /\ UNCHANGED pending
      ELSE /\ Goto(c, "saving")
           /\ pending' = Reservation
           /\ UNCHANGED <<kind, started>>

------------------------------------------------------------------------------
Init ==
    /\ open = TRUE
    /\ phase = "work"
    /\ proposed = 0
    /\ call = [c \in Calls |-> "idle"]
    /\ kind = [c \in Calls |-> None]
    /\ started = {}
    /\ evidence = {}
    /\ pending = 0
    /\ saved = {}
    /\ log = <<>>
    /\ dropped = 0
    /\ todo = {}
    /\ sweeping = None
    /\ reader = "look"
    /\ seenOpen = TRUE
    /\ batch = {}
    /\ cursor = 0
    /\ sent = {}

(***************************************************************************)
(* Tool calls.                                                             *)
(***************************************************************************)

\* before_tool: the budget is shared by all branches.
Propose(c) ==
    /\ phase = "work"
    /\ call[c] = "idle"
    /\ proposed' = proposed + 1
    /\ Goto(c, IF proposed + 1 > ToolLimit THEN "over" ELSE "checking")
    /\ UNCHANGED <<open, phase, kind, started, evidence, pending, saved, trace, sweep, stream>>

\* The run must still be active; policy and intent may refuse the action.
Admit(c) ==
    /\ phase = "work"
    /\ call[c] = "checking"
    /\ \/ /\ open
          /\ Goto(c, "starting")
          /\ started' = started \cup {c}
       \/ Goto(c, "over") /\ UNCHANGED started
    /\ UNCHANGED <<open, phase, proposed, kind, evidence, pending, saved, trace, sweep, stream>>

\* The tool_started event; if it cannot be appended, before_tool raises.
RecordStart(c) ==
    /\ phase = "work"
    /\ call[c] = "starting"
    /\ \/ Record(c, "tool_started") /\ Goto(c, "running")
       \/ RecordFails(c, "tool_started") /\ Goto(c, "over")
    /\ UNCHANGED <<open, phase, proposed, kind, started, evidence, pending, saved, sweep, stream>>

\* The connector answers: with an error or an exception, or with data to capture.
ToolReturns(c) ==
    /\ phase = "work"
    /\ call[c] = "running"
    /\ \/ BeginFinish(c, "tool_failed") /\ UNCHANGED pending
       \/ Capture(c)
    /\ UNCHANGED <<open, phase, proposed, evidence, saved, trace, sweep, stream>>

\* store.save: SELECT ... WHERE status = 'RUNNING'.
SaveChecks(c) ==
    /\ phase = "work"
    /\ call[c] = "saving"
    /\ IF open
         THEN Goto(c, "inserting") /\ UNCHANGED <<kind, started, pending>>
         ELSE BeginFinish(c, "tool_failed") /\ pending' = pending - 1
    /\ UNCHANGED <<open, phase, proposed, evidence, saved, trace, sweep, stream>>

\* The INSERT and COMMIT that follow.
SaveInserts(c) ==
    /\ phase = "work"
    /\ call[c] = "inserting"
    /\ pending' = pending - 1
    /\ \/ /\ BeginFinish(c, "tool_completed")
          /\ saved' = saved \cup {c}
          /\ evidence' = evidence \cup {c}
       \/ /\ BeginFinish(c, "tool_failed")
          /\ saved' \in {saved, saved \cup {c}}
          /\ UNCHANGED evidence
    /\ UNCHANGED <<open, phase, proposed, trace, sweep, stream>>

\* The append of finish_tool.
FinishTool(c) ==
    /\ phase = "work"
    /\ call[c] = "finishing"
    /\ Goto(c, "over")
    /\ \/ Record(c, kind[c]) /\ UNCHANGED started
       \/ RecordFails(c, kind[c]) /\ started' = PutBack(c)
    /\ UNCHANGED <<open, phase, proposed, kind, evidence, pending, saved, sweep, stream>>

(***************************************************************************)
(* The end of the run.                                                     *)
(***************************************************************************)

\* An operator's cancellation or the deadline closes the row of a run at work.
CloseRow ==
    /\ open
    /\ open' = FALSE
    /\ UNCHANGED <<phase, governance, trace, sweep, stream>>

\* The body of execute returns, raises, times out or is cancelled.
StopWork ==
    /\ phase = "work"
    /\ phase' = "ending"
    /\ UNCHANGED <<open, governance, trace, sweep, stream>>

\* The calls that were still waiting are cancelled; a transaction that was under
\* way is rolled back, or had been committed.
Interrupt(c) ==
    /\ phase = "ending"
    /\ call[c] \in Waiting
    /\ Goto(c, "over")
    /\ started' = IF call[c] = "finishing" THEN PutBack(c) ELSE started
    /\ pending' = IF call[c] \in {"saving", "inserting"} THEN pending - 1 ELSE pending
    /\ CASE call[c] = "starting" -> RecordFails(c, "tool_started")
         [] call[c] = "finishing" -> RecordFails(c, kind[c])
         [] OTHER -> UNCHANGED trace
    /\ IF call[c] = "inserting"
         THEN saved' \in {saved, saved \cup {c}} ELSE UNCHANGED saved
    /\ UNCHANGED <<open, phase, proposed, kind, evidence, sweep, stream>>

\* execute stores the outcome, or fails to, and enters finish_pending_tools.
BeginCleanup ==
    /\ phase = "ending"
    /\ \A c \in Calls : call[c] \notin Waiting
    /\ phase' = "cleanup"
    /\ open' \in {FALSE, open}
    /\ todo' = started
    /\ UNCHANGED <<governance, trace, sweeping, stream>>

SweepTakes(c) ==
    /\ sweeping = None
    /\ c \in todo
    /\ sweeping' = c
    /\ todo' = todo \ {c}
    /\ started' = TakeEntry(c)
    /\ UNCHANGED <<open, phase, proposed, call, kind, evidence, pending, saved, trace, stream>>

\* A failed append ends the sweep and execute with it.
\* (Mutated form: the sweep tries the same call again.)
RetryStop == todo \cup {sweeping}
LeaveRest == {}

SweepRecords(c) ==
    /\ sweeping = c
    /\ sweeping' = None
    /\ \/ /\ Record(c, "tool_stopped")
          /\ UNCHANGED <<started, todo, phase>>
       \/ /\ RecordFails(c, "tool_stopped")
          /\ started' = PutBack(c)
          /\ todo' = LeaveRest
          /\ phase' = IF phase = "cleanup" THEN "raised" ELSE phase
    /\ UNCHANGED <<open, proposed, call, kind, evidence, pending, saved, stream>>

\* A cancellation of the task during the sweep, which is shielded and goes on alone.
Abandon ==
    /\ phase = "cleanup"
    /\ phase' = "cancelled"
    /\ UNCHANGED <<open, governance, trace, sweep, stream>>

\* execute returns what update_run returned, or raises: the outcome was not stored, a
\* connector did not close, or a second cancellation arrived.
FinishRun ==
    /\ phase = "cleanup"
    /\ todo = {} /\ sweeping = None
    /\ phase' \in IF open THEN {"raised", "cancelled"} ELSE Ended
    /\ UNCHANGED <<open, governance, trace, sweep, stream>>

(***************************************************************************)
(* The stream.                                                             *)
(***************************************************************************)

\* get_run.
StreamLooks ==
    /\ reader = "look"
    /\ reader' = "list"
    /\ seenOpen' = open
    /\ UNCHANGED <<open, phase, governance, trace, sweep, batch, cursor, sent>>

\* RunEventStore.list: the stored events after the cursor.
StreamLists ==
    /\ reader = "list"
    /\ reader' = "emit"
    /\ batch' = {n \in 1 .. Len(log) : n > cursor /\ n > dropped}
    /\ UNCHANGED <<open, phase, governance, trace, sweep, seenOpen, cursor, sent>>

\* The cursor follows the last event sent. (Mutated form: the last event stored.)
LastStored == Len(log)
LastSent == IF batch = {} THEN cursor ELSE CHOOSE n \in batch : \A m \in batch : m <= n

\* task.done(). (Mutated form: only a task that returned counts.)
TaskReturned == phase = "over"
TaskDone == phase \in Ended

\* The events are sent; only then is the task looked at.  Its exception becomes an
\* error event, its CancelledError breaks the stream off.
StreamEmits ==
    /\ reader = "emit"
    /\ sent' = sent \cup batch
    /\ cursor' = LastSent
    /\ batch' = {}
    /\ reader' = IF ~TaskDone THEN "look"
                 ELSE IF ~seenOpen THEN "complete"
                 ELSE CASE phase = "raised" -> "error"
                        [] phase = "cancelled" -> "broken"
                        [] OTHER -> "look"
    /\ UNCHANGED <<open, phase, governance, trace, sweep, seenOpen>>

\* The submitter disconnects, which cancels an unfinished task (StopWork, Abandon).
StreamCloses ==
    /\ reader \in {"look", "list", "emit"}
    /\ reader' = "gone"
    /\ UNCHANGED <<open, phase, governance, trace, sweep, seenOpen, batch, cursor, sent>>

------------------------------------------------------------------------------
CallStep(c) ==
    \/ Propose(c) \/ Admit(c) \/ RecordStart(c) \/ ToolReturns(c) \/ SaveChecks(c)
    \/ SaveInserts(c) \/ FinishTool(c)

EndStep ==
    \/ StopWork \/ BeginCleanup \/ FinishRun
    \/ \E c \in Calls : Interrupt(c) \/ SweepTakes(c) \/ SweepRecords(c)

StreamStep == StreamLooks \/ StreamLists \/ StreamEmits

Next ==
    \/ \E c \in Calls : CallStep(c)
    \/ EndStep \/ Abandon \/ CloseRow
    \/ StreamStep \/ StreamCloses

Spec == Init /\ [][Next]_vars

\* The run ends at the latest with its time budget, the event loop runs the task and
\* the stream; the connectors and models may never answer.
FairSpec == Spec /\ WF_vars(EndStep) /\ WF_vars(StreamStep)

------------------------------------------------------------------------------
(***************************************************************************)
(* Properties.                                                             *)
(***************************************************************************)

\* The calls with an event of one of these kinds.
Logged(ks) == {log[n][1] : n \in {m \in 1 .. Len(log) : log[m][2] \in ks}}

\* Every variable has the type of the column or local variable it stands for.
TypeOK ==
    /\ open \in BOOLEAN
    /\ phase \in {"work", "ending", "cleanup"} \cup Ended
    /\ proposed \in Nat
    /\ call \in [Calls -> {"idle", "over"} \cup Waiting]
    /\ kind \in [Calls -> Terminal \cup {None}]
    /\ started \in SUBSET Calls
    /\ evidence \in SUBSET Calls
    /\ pending \in Nat
    /\ saved \in SUBSET Calls
    /\ log \in Seq(Calls \X Kinds)
    /\ dropped \in 0 .. Len(log)
    /\ todo \in SUBSET Calls
    /\ sweeping \in Calls \cup {None}
    /\ reader \in {"look", "list", "emit", "complete", "error", "broken", "gone"}
    /\ seenOpen \in BOOLEAN
    /\ batch \in SUBSET (1 .. Len(log))
    /\ cursor \in 0 .. Len(log)
    /\ sent \in SUBSET (1 .. Len(log))

\* Branches that capture at the same time never exceed the run's evidence limit
\* together, whatever saves fail in between.
EvidenceBounded == Cardinality(evidence) <= MaxEvidence

\* "Evidence persistence precedes a successful tool-completion event"
\* (docs/architecture.md), and every item the synthesis may cite is in the database.
EvidenceFirst == Logged({"tool_completed"}) \subseteq evidence /\ evidence \subseteq saved

\* When execute returns, every call the trace shows as started has also its end,
\* although calls are cancelled at any await and appends fail.
TraceClosed ==
    phase = "over" => started = {} /\ Logged({"tool_started"}) \subseteq Logged(Terminal)

\* A call has a second end in the trace only where its own finish_tool stored one and did
\* not come to know it, so that the cleanup stored "tool_stopped" after it: neither of
\* the two ends a call twice, and none goes on once the cleanup has stopped it.  (The
\* docstring of finish_tool, "Finalize a started call once", promises more.)
OneEndEach ==
    \A m, n \in 1 .. Len(log) :
      m < n /\ log[m][1] = log[n][1] /\ {log[m][2], log[n][2]} \subseteq Terminal =>
        log[m][2] # "tool_stopped" /\ log[n][2] = "tool_stopped"

\* The stream skips only events that were pruned before it could read them.
NoGaps == (1 .. cursor) \ sent \subseteq 1 .. dropped

\* A submitter that stays connected is not left waiting, also when a connector hangs,
\* the outcome could not be stored or the cleanup failed.
StreamEnds == <>(reader \in {"complete", "error", "broken", "gone"})
==============================================================================
