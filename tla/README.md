# RCA assist: a TLA+ verification of its runtime and its web client

RCA assist (`src/app`, FastAPI, Google ADK, SQLAlchemy) runs *investigations*: a
submitter posts a prompt, the runner freezes a contract, runs a graph of agents
whose tools read ITSM, logs, metrics and knowledge sources, stores every tool
result as evidence, and returns an answer that cites it. Around this stand a
durable queue of improvement jobs, several review-and-activate workflows for
content, and the administration of projects, parameters and connectors. A React
client (`src/frontend/src`) is the only user of most of this: it keeps a session, a
project, conversations with running investigations, a triage queue and a project's
draft settings, and reads all of them again while answers are on their way.

The modules here model the parts in which concurrency, failure and ordering
decide whether the system is right. `PROJECT.json` maps every definition to the
lines it models and names the runs, mutants, hazards and theorems.

## 1. Inventory

Paths are under `src/app`, those of the client under `src/frontend/src`.

| Component | State | Operations | Hard behaviour | What makes it correct |
|---|---|---|---|---|
| Run execution: `runtime/runner.py`, `persistence/store.py`, `runtime/run_contract.py`, `api/routes/runs.py` | `runtime.runs` rows; `tasks`, `run_limiter`, `_run_limit` in the process | `execute`, `cancel`, `aclose`, `create_run`, `find_idempotent_run`, `update_run`, `get_run` and the listings, which also expire rows | every await interleaves; `SELECT` then `UPDATE`; timeout, cancellation and deadline race; process death | a row closes once and keeps its result; one run per key; slots add up; cancelled runs stop; RUNNING rows close |
| Runtime settings: `api/routes/parameters.py`, `api/routes/catalog.py` | parameters in the database, `settings`, the semaphore | `mutate_runtime`, `refresh_runtime`, `save_template_defaults` | the semaphore is replaced | it is never replaced under a holder |
| Run governance: `runtime/governance.py` | `tool_calls`, `tool_started`, `evidence`, `_pending_evidence` | `before_tool`, `after_tool`, `on_tool_error`, `capture`, `finish_tool`, `finish_pending_tools` | parallel branches, cancellation inside any await, failing stores | limits hold jointly; evidence precedes completion; every started call gets an end, at most one of its own and one of the sweep |
| Event store and streams: `persistence/run_events.py`, `api/routes/runs.py` | `runtime.run_events`; the stream's cursor | `append` (prunes), `list`, `_stream_run`, `run_trace_events` | stream reads row, events, task one after the other | nothing skipped; the end is told, and last |
| Improvement jobs: `optimization/improvement.py` | `improvement_jobs`, `improvement_schedules`, `improvement_candidates` | `enqueue`, `control`, `claim`, `run_once`, `heartbeat`, `progress`, `tick_schedules`, candidate review | leases, stale workers, crashes, cancel against shutdown | stale attempts change nothing; attempts bounded; jobs settle |
| Optimization: `optimization/service.py`, `evaluation.py`, `content.py` | `optimization_revisions`, the one row of `active_optimized_content` per project, the process's `OPTIMIZATION_LOCK` | `execute`, `get`, `list`, `review`, `rollback` | what was read in one transaction is decided on in another; restarts with other files | only approved content is active, on top of the content it was evaluated against; decisions stand |
| Knowledge: `configuration/knowledge.py`, `knowledge_okf.py`, `okf.py`; `optimization/knowledge_capture.py`, `closure_tracking.py` | documents, revisions, sources, captures | `save`, `save_upload`, `ingest_capture`, `mark_source_unavailable`, `review`, capture and closure jobs | capture racing review and source loss | only reviewed revisions are used |
| Agent configuration: `configuration/service.py`, `harness.py` | drafts, versions, reviews, stages | `submit`, `approve`, `reject`, `revoke`, `sync_stage`, `approved` | revoke against approve and run start | a revoked agent starts nothing |
| Harness workspace: `configuration/harness_workspace.py`, `harness_bundles.py` | records with revision, audit, active row | `save`, `transition`, `effective` | compare-and-set on revisions | one active bundle, audited |
| Project runtimes: `runtime/projects.py`, `bootstrap.py`, `project_candidate.py` | `entries` with `references`, one lock; the lease in each scope | `bind` (reuse, refuse, evict, start), `release`, `aclose` | close and start await under the lock; cancelled jobs | no workspace is closed or replaced while it is leased; none is forgotten; the limit holds; who asks is answered |
| Parameters: `configuration/parameters.py`, `layers.py`, `platform.py`, `database_bundle.py` | definitions, overrides, audit | `resolve`, edits | layering, revisions | resolution respects locks and layers |
| Projects and identity: `configuration/projects.py`, `project_access.py`, `oidc.py`, `identity/` | memberships, login states, sessions | access requests, OIDC login | replayed or late callbacks | one use per login state |
| Project settings and candidate tests: `api/routes/project_editor.py`, `catalog.py`, `runtime/project_candidate.py` | drafts with versions, active settings, test runs, one lock | `save_editor`, `validate_project_setup`, `trial`, `_apply_project_setup`, `set_project_availability` | a test takes minutes while others save, apply and change what it depends on | only what was tested, against what it replaces, becomes active |
| Connectors: `connectors/`, `configuration/integrations.py`, `connector_governance.py` | instances, health, candidates | test, promote, query | network I/O | a candidate is only promoted as tested |
| Triage: `persistence/triage.py`, `api/routes/triage.py` | tickets, investigations with a proposed question, its result and the evidence | transitions, revise, execute, promote, mark | several analysts on one ticket; a question is revised while it runs | a result is filed under its own question |
| SLA: `runtime/sla_engine.py` | none | clocks and breaches from timestamps | pure | clocks never run backwards |
| Chats, files, retention: `persistence/chat_*.py`, `inputs/files.py`, `store.delete_expired` | chats, artifacts, attachments | save, read, delete | deletion against readers | nothing dangling |
| Capabilities, policy: `capabilities/`, `policy/` | none | `resolve`, `evaluate` | pure | deny overrides allow |
| Model limiter: `models/bounded.py` | a semaphore | generate | cancellation of a generator | permits return |
| Administration, metrics, telemetry, playground: `persistence/platform_*.py`, `telemetry.py`, `runtime/playground.py` | tables and reports | CRUD and aggregation | little | - |
| Web shell: `App.tsx`, `services/api.ts`, `components/SessionModal.tsx`, `ProjectLifecycle.tsx` | token, CSRF token, project of the requests, session generation, principal, settings, page data | sign-in, sign-out, switch, lifecycle change, loads | an answer belongs to a session and a project that are gone | no late answer of another project is shown as current; requests name the principal's project |
| Chat page: `pages/Chat.tsx`, `services/chat.ts`, `streamStudioRun` | open conversation, turns, attempt in doubt, submission, stream, poll, stop | send, retry, stop, poll, choose a conversation, earlier turns | stream, poll, stop and loads report on the same runs in any order | turns stay with their conversation, never go back, and settle |
| Project setup page: `pages/ProjectSetup.tsx`, `components/ProjectCandidateTest.tsx` | entries, saved baseline, draft version, validation, receipt | reload, edit, save, validate, test, retry, apply | entries change while a test or a load is on its way | a receipt counts only for what is on display |
| Triage board: `pages/TriageBoard.tsx`, `services/triage.ts` | queue, selection, workspace, question editor, dialogs | select, move, escalate, edit, execute, promote, mark | each handler goes on with the workspace of its own render | a question stays with its ticket |
| Other pages and components of the client | forms over one resource | load, edit, save | late answers, versions | - |
| Migrations, scripts, agent skills (with a vendored `live-browser.js`, twice) | - | - | - | - |

Interactions: the HTTP routes call the runner in the request's task; the runner
calls the store, the connectors and ADK; ADK calls back into governance, which
writes evidence (store) and events (event store); streams and other clients poll
the same rows; the client holds several requests at once, each with the headers of
the moment it was sent, and handles the answers in the order they come; job workers resolve a fresh project context, call the
optimization, knowledge and runner services and write their own rows. The
database and the process's event loop are the only state the server shares; in the
client it is the state of the mounted page and the module variables of `services/api.ts`.

## 2. Modules

| Module | Models |
|---|---|
| `RunRecord` | abstract: what the `runs` table promises its readers |
| `RunLifecycle` | `execute`, `_execute_contract`, `cancel`, the store calls, the limit, crashes |
| `RunLifecycleProofs` | its theorems |
| `ImprovementJobs` | claim, lease, heartbeat, checkpoint, outcome, control of jobs |
| `RunTrace` | governance of tool calls, the event store, the end of `execute`, the stream |
| `RunTraceProofs` | its theorems |
| `ProjectRuntimes` | the cache of project workspaces, its leases and its lock |
| `ProjectRuntimesProofs` | its theorems |
| `ContentHistory` | abstract: approved content lies on its parent, is taken off or revoked, never comes back |
| `Activation` | evaluation, review and rollback of optimized content |
| `OptimizationProofs` | the theorems of `ImprovementJobs` and `Activation`, the two halves of `app/optimization` |
| `Workspace` | the shell: session, project, principal, settings and page data, with every request in flight |
| `WorkspaceProofs` | its theorems |
| `ChatPage` | the chat page, its submission and stream, the server's runs |
| `ChatPageProofs` | its theorems |
| `ProjectSetup` | the setup page, candidate tests, drafts, settings and the apply lock |
| `ProjectSetupProofs` | its theorems |
| `TriageBoard` | the board, the workspace of a ticket, the handlers in flight, the tickets |
| `TriageBoardProofs` | its theorems |
| `MC*` | instances for TLC: keys, requests, first states, symmetry; `RunTrace` and `ProjectRuntimes` need none |

### RunLifecycle
`pc[r]` is where the task of submission `r` is suspended; each action runs from
one await to the next, so `update_run` is three steps (`read`, `write`, `reply`)
and another task may act between any two.

| `pc` | code |
|---|---|
| `idle`, `admit` | before `find_idempotent_run`; before `_run_slot` |
| `prepare`, `created` | contract assembly inside the slot; `create_run` has inserted and awaits its `get_run` |
| `preflight` | registered in `tasks`, inside `asyncio.timeout`, before the contract re-reads the row |
| `connect`, `events`, `ground` | connectors and probes; the ADK event loop; validation of the answer |
| `read`, `write`, `reply` | an `update_run` of `verdict[r]`; in an `except` block when `r \in handling` |
| `cleanup`, `unwind` | the `finally` clauses and `_save_chat_output`, returning or raising |
| `done`, `replayed`, `rejected`, `dropped`, `lost` | returned; answered with a stored run; refused; ended with an exception; died with the process |

`task.cancel()` puts the task into `interrupt` and is delivered at its next await
(`Interrupted`); an `UPDATE` already sent completes. `asyncio.shield` is
`detached`. `late` is "the deadline column is past"; `asyncio.timeout` starts
after that column was computed from the same budget, so `Timeout` needs
`r \in late`. Reads that expire a row are one step inside a task (`GetRun`), the
listings' separate `SELECT` and `UPDATE` are `ReaderSeesExpired` and
`ReaderExpires`. Stage-only updates store nothing the properties read and are
left out. `Crash` drops everything that lives in the process.

### ImprovementJobs
One worker runs one job at a time, so its name stands for the `lease_owner`
token. `wpc` is `execute` inside the job, `saving` between the commit of
`progress` and the assignment of the local checkpoint, `persist` before the final
update. A checkpoint is a page count; kinds without checkpoints are jobs that end
before their first page. `fresh` stands for the comparison of `updated_at`.
`lapsed` is "lease_until is past"; a lease may lapse under a worker that is
alive, so stale attempts occur. `claim` is one transaction: it locks its row. A
closure-tracking job may also yield a page that `progress` never stored
(`YieldPage`). The names that `Activation` has too carry the prefix `jobs` or `Jobs`, so that
one module can speak of both.

### RunTrace
A tool call passes `checking` (`get_run`), `starting` (the start event),
`running` (the connector), `saving` and `inserting` (the two statements of
`store.save`) and `finishing` (the terminal event). An append is one transaction
under the run's lock and appends to `log`; pruning advances `dropped`. When the
body of `execute` ends, the calls that still wait are cancelled at their await,
then the sweep finishes what is in `tool_started`. That ADK's parallel branches
are over before the `finally` clauses of `execute` run is an assumption about the
library. A store call that raises may have been committed: the coroutine or the sweep may be
cancelled while it waits for the commit. `tool_stopped` is what the sweep stores
(`tool_cancelled` or `tool_failed` with `RunCancelled` or `RunInterrupted`).
Events of other kinds take sequence numbers in the same way and are left out. The
stream's `get_run`, `list` and sending are three steps; a cancelled task ends it
without a last event (`broken`). Evidence captured outside tool calls (attachments,
preselected knowledge) is stored before the first call and only lowers `MaxEvidence`.

### ProjectRuntimes
`Users` are requests (each with its response, streams included) and improvement jobs;
each leases a workspace again and again. `bind` and `release` run under one
`asyncio.Lock`; their parts without an await are one action each (`Reuse`, `Refuse`,
`Evict`, `StartBuild`, `Release`), and only `Close` (the evicted workspace's exit stack)
and `Build`/`BuildFails` (`application_lifespan`) hold the lock across one. `pc = "waiting"`
is a call of `bind`, suspended or not; any waiter may be next, which covers the lock's own
order. `want`, `lease` and `old` are `principal.project_id`, the scope's
`rca_project_lease` and the local `old`. An entry is an object: it is used again only when
nobody holds it. `since` orders the entries by `last_used`. `Interrupt` is the heartbeat's
`task.cancel()`; tasks of requests are not cancelled by the application. A user in `tasks`
has a run registered in its workspace's runner. `Shutdown` comes after the server has
served its last request and the worker has ended (the exit stack closes the improvement
service first). `aclose` stops at the first workspace whose exit stack raises: that one is
closed, those behind it stay open and cached, and `entries` is not cleared.

### Activation
A revision is one call of `execute` with the row it may insert; its `report_hash` is its
identity, for a report names its MLflow run. `parent`, `platform` and `basis` are `parent_hash` and what
`context_hash` was computed from (the bundle follows from the parent; the limits of the
settings count as part of the platform). `execute` is suspended before the agents are read (`context`),
before the insert, and while the model evaluation runs. A request of an administrator
(`task`, `target`, `process`, `seen`) keeps what `review` and `rollback` hold in locals
between their statements; the transaction that ends it is one action, because its first
`UPDATE` locks the row it depends on and every later one is conditional. `rollback` reads in that
transaction too, yet waits for the blob of the parent before it writes, so its read is a step
of its own. A deployment is a process with its platform hash: `Retire` ends or kills it with
all it executes, `Deploy` starts one. `ContentHistory` is implemented with `layers <- Layers`, the
sequence of approved revisions that begins at the baseline, has each on its parent and ends in
the active row, and `past <- Past`, what was approved and is not in it. `Layers` chooses the
sequence by these conditions instead of following the parents, so that it can be proved about.

### The client: what its modules have in common
JavaScript runs a handler from one `await` to the next without interruption, so an action is
such a stretch, together with the effects React runs after the state it sets. Between two
stretches anything may happen: the server handles requests in any order, answers are lost or
overtake each other, the user goes on. A request in flight is a record in `calls`; it keeps what
the closure of its handler keeps (the principal, the generation, the snapshot, the workspace of the
render it was called from), for exactly that is stale when the answer comes. `lost` is a
request or an answer that got lost and also any other error the code only reports. The user acts
at most `MaxActs` times, other users change things at most `MaxChanges` or `MaxOthers` times: these are
bounds of the instances, not of the theorems. Two requests that agree in all a record keeps are
one record. Unmounting a page forgets its state, so a page visited again is a new `Init`.

### Workspace
`token`, `csrf`, `context` and `generation` are the module variables of `services/api.ts`, `principal`,
`settings`, `shown`, `health` and `fresh` the state of `WorkspaceApp`. What was read is stood for by the scope or
project it was read in: `shown` for the agents, runs, tools and audit logs, which every sign-in and
switch clears; `health` for the telemetry of the Topbar, which none clears; `fresh` says that
`healthUpdatedAt` is set, which all of them reset. A load reads the principal first; its other requests fail
each on its own (`ShowData`), and where its headers name no project the server may choose another one for
each of them (`ReadIn`). `RefreshTelemetry` reads the health alone. `Request` takes the headers of the moment (`authHeaders`); `Serve` reads them later with the cookie,
memberships, roles and open projects of that moment, as `identity/auth.py` and
`configuration/projects.py` do, and answers one principal of `Principals`. `Authenticate` and
`ClearScopedData` are the two ways the shell changes the session; they are part of the action of each
answer, with the effects of the new principal. `stranded` is the error state of a lifecycle change whose
reload failed, which the page shows together with a button to retry.

### ChatPage
`sub` is the one submission in flight: its `stage` says at which `await` of `send` it is
(`createConversation`, the upload, `resolve`, the stream, the read of the saved run after a
failure). `pipe` is one frame the server has sent and the page has not read. `pending` is the attempt whose
outcome is in doubt: sending the same question in the same conversation again takes its key, and the
server finds the run under that key again (`Admit`, and `Release` for a request that arrives after the
page gave up on it). `Upserted` is the comparison of revisions that all four sources of turns share
(`Newer`, `Latest`), and appends what is not shown yet in the order of its ids;
`Repoll` is the cleanup of the polling effect, whose dependencies are the busy flag and the active runs.

### ProjectSetup
An entry is an environment and a name; the settings are the environment (the part this page derives
from the entries) and `rest` (all sections it sends back as it loaded them). `drafts` is the history of
saved versions, so its length is `version`. `at` is how far a request has come; `validate` saves the draft
first and then checks (`check`), a test with files uploads before it has a key, an apply holds `locked`
from its checks to the publication. `deps` counts the changes of everything else a receipt depends on. `Commit`
is a change of the entries with the effect that takes the saved baseline, `Render` the effect of
`ProjectCandidateTest` that drops receipts and outdates tests when `candidateSnapshot` changes. Leaving the
last step unmounts the test (`owner = "gone"`).

### TriageBoard
A handler that ends by patching the workspace (`save`, `execute`, `promote`, `toggle`) keeps the one of its
render; `current` says whether `workspaceRequest` (or `boardRequest`) is still that of its start. `execute`
saves the question first, then has it run, and the server files the result (`revised`,
`running`, `done`). `then` is the load that a handler starts when the one it waits for has ended. The run of a
question is found again by its key and is named by the question. Each ticket has one proposed question and
one imported finding; of a ticket without a question nothing could be edited, and `tool` would stay null
(`TriageBoard.tsx:189`). A card is advanced with the team it showed at the click. The server's state machine of a ticket is `persistence/triage.py`'s; other analysts move
tickets and revise questions (`OtherMoves`, `OtherRevises`).

## 3. Runs

| Run | Shows |
|---|---|
| `RunLifecycle` | two retries and a different request under one key, limits 1 and 2 edited, one crash: `SlotAccounting`, `OneRunPerKey`, `ReplyIsFinal` |
| `RunCancellation` | two cancellations of one run, its deadline, one crash: `ResultIffCompleted`, `CancelReplyIsFinal`, `CancelledStops`, refinement of `RunRecord` (`RecordSpec`); under fairness `RunsEnd`, `SlotsReturn` |
| `ImprovementJobs` | two workers, two control requests on one job: `SettledOnlyRetried`, `AtMostOnePageRepeated`, `AttemptsSpent`; under fairness `JobsSettle`, and `CancelEnds` for a job whose execution may hang |
| `RunTrace` | two parallel calls: `EvidenceFirst`, `TraceClosed`, `OneEndEach`, `NoGaps`, and under fairness `StreamEnds` |
| `ProjectRuntimes` | two requests and a job, three projects, room for one workspace: `LeaseHolds`, `NothingForgotten`, and under fairness `Answered` |
| `ProjectRuntimesLeak` | **violated**: `ReferencesReturn`, see section 6 |
| `Activation` | three evaluations, two administrators, two platforms, one process at a time: `ActiveApproved`, `Restorable`, `DecisionsStand`, refinement of `ContentHistory` (`HistorySpec`) |
| `Workspace` | a browser with and without a session, sign-in and sign-out, switches and lifecycle changes, a role or membership that changes, an expired cookie: `ShownOfProject`, `QuietIsConsistent` |
| `ChatPage` | two conversations, a run of another client, a submission lost and retried, a stop: `TypeOK`, `ActiveRunsOfConversation`, `AttemptOfConversation`, `EarlierTurnsAdjoin`, `RevisionsGrow`; under fairness `ShownSettles` |
| `ProjectSetup` | entries edited, saved, tested and applied while another administrator does the same: `ReceiptOfShown`, `AppliedWasTested`, `OthersSettingsKept` |
| `ProjectSetupUnsaved` | **violated**: `UnsavedIsDirty`, see section 6 |
| `TriageBoard` | two tickets, two handlers in flight together, another analyst: `ToolOfWorkspace`, `ResultOfQuery`, `SelectionKept` |

What the invariants of the proofs add (`EvidenceBounded`, `Bounded`, `OwnerHasCheckpoint`,
`OwnerHasBudget`, `RequestHasCheckpoint`, `RunOfQuestion`, and the type invariants of all modules
but `ChatPage`, which is also checked) is proved in section 4 for all instances and is not listed in a run again.

Bounds. Two submissions are enough for every race about a key or a slot, since both
compare two parties; the third is the request that differs. Limit 1 makes them compete,
limit 2 lets all pass the lookup. Two cancellations on one run interleave with each other
and with the task. One crash, in any state. Two workers make an owner and a stale attempt;
two attempts and two pages reach the limit and a checkpoint moved back. Two calls with
`MaxEvidence = 1` compete for the last item; `MaxEvents = 2` prunes while a stream
reads. Three users of room for one workspace are one that holds or builds and two
that wait; `ProjectRuntimesLeak` has room for two. Three revisions are
two layers and a competitor for the second, or a baseline and two competitors; two
administrators race each other; `MaxProcesses = 1` replaces processes one after the other, while
the theorems allow any number side by side.

In the client a late answer meets one later act: two acts of the user (`MaxActs = 2`) with the loads
they cause and one change by an administrator give up to seven requests in flight in `Workspace`. Two
accounts and two projects tell "another session" from "another project", and only the first account
manages projects. `ChatPage` has a page of one turn, so that earlier turns take a second load;
three runs are two of a stored conversation and one more, two sends a submission and its retry. In
`ProjectSetup` the shortest way to an apply takes three acts (validate, test, apply) and the fourth is
the one that disturbs it; three entries are two with one name and one that differs in both.
`TriageBoard` has two handlers that end in either order, over two tickets, so that each can find the
workspace of the other ticket, or of the same one loaded again. The theorems of section 4 hold for
all values of these bounds.

`CHECK_DEADLOCK FALSE` is set for the queue, the trace and the workspaces, which come to
rest when every job is settled and every request answered, when the stream has ended, or
after shutdown, and for the pages, which come to rest when the bounds of the instance are used up
and nothing is in flight;
`RunLifecycle` can always take another edit of its settings, `Activation` another deployment.

Fairness. `RunLifecycle`: the event loop runs each task that can run, time passes,
`asyncio.timeout` fires, and somebody keeps listing the runs (the frontend polls);
connectors and models (`Connect`, `ModelEvent`) get none, so they may hang.
`ImprovementJobs`: workers poll every two seconds, heartbeats run three times per
lease, leases lapse with the clock, the final update runs. What is assumed of executions is
in the properties (`ExecutionsEnd`): the code lets a job yield for capacity without limit, so
`JobsSettle` asks that an execution which gets turn after turn ends or takes its
worker with it at some time; `CancelEnds` asks it of the other jobs only. `RunTrace`: the run ends at
the latest with its time budget and the stream's loop runs; the connector may
never answer.
`ProjectRuntimes`: `asyncio.Lock` serves its waiters in order, so each gets
its turn although others come (strong fairness of `Manage(u)`); starting and closing a workspace
end or fail. Nothing is assumed of `Finish`: a stream may hold its lease for ever.
`ChatPage`: runs end (`RunsEnd` above), requests are answered or fail, the page handles the answers and
polls again after each delay; a poll that is sent again and again does not fail every time (strong
fairness of `PollSucceeds`). Nothing is assumed of the user, who may choose another conversation or
send again and thereby stop a poll.

## 4. Proofs

`RunLifecycleProofs`, for every finite set of submissions, every set of requests,
every assignment of keys and requests, all limits and any number of crashes:

* `TypeCorrect`, then `SlotsAddUp`: free permits and holders add up. Each action
  takes one in, lets one out (`SlotTaken`, `SlotGiven`) or keeps the set
  (`SlotsKept`); the semaphore is only replaced when it is full, which by the
  invariant means that nobody holds a permit.
* `RowsKnown`: `RunInv` adds to `ResultIffCompleted` what each task knows of its
  row where it is suspended (`KnowsRow`): a row exists after its insert, it is
  terminal when `update_run` is about to reply, `response` agrees with it during
  the cleanup. `ResultIffCompleted` and `ReplyIsFinal` are not inductive without it:
  nothing else says that a closed row is not opened again by a late insert.
* `RowImplementsRecord`: every step leaves a row alone, opens or closes it
  (`RowSteps`); so `Spec => RecordSpec`.
* `Inductive`: `IInv` adds what each cancellation request knows and that the task
  of a run reported CANCELLED is interrupted before it works on. From it
  `CancelRepliesAreFinal` and `CancellationStops`. The window between insert and
  registration needs the row's status in `StartContract`; the others need
  `KnowsRow`'s "at work implies registered".
* `KeysAreHonoured`: one key, one run, and only for the request it was opened for.

`OptimizationProofs` on `ImprovementJobs`, for every number of jobs, workers, requests,
attempts and pages:

* `JobsTypeCorrect` includes that attempts never exceed `MaxAttempts`.
* `Inductive`: `OwnerHasCheckpoint`, `OwnerHasBudget` and `RequestHasCheckpoint` hold
  together. They are the knowledge behind the three action properties, each of which
  would fail for a writer that writes back something it no longer knows.
* `SettledStays`, `CheckpointsKept`, `AttemptsAreSpent`: one lemma each goes through
  the actions that write the column (`StatusSteps`, `PageSteps`, `AttemptSteps`).

`RunTraceProofs`, for every finite set of calls and all limits:

* `Inductive`: `RunInv` says that `pending` is the number of calls that are saving
  (`Reserved`, counted with the theorems on finite sets), what each coroutine and the
  sweep know about `tool_started` (`CallSound`, `SweepSound`), that what the stream
  listed has no holes (`BatchSound`), and that a started call is in `tool_started`,
  being finished, being swept, or ended in the trace (`Accounted`).
* `EvidenceLimit`, `EvidencePrecedes`, `TraceIsClosed`, `StreamHasNoGaps` follow from
  it, also when replies of the database are lost.
* `EndsOnceEach` needs the stronger `EndsAhead`: a call with an end in the trace has a coroutine
  that is over, and one with the sweep's end is neither on the sweep's list nor being swept. It
  needs no assumption; that no call has two ends is false (section 6).

`ProjectRuntimesProofs`, for every finite set of users, projects and workspaces and every
limit: `Inductive`. What makes `LeaseHolds` inductive is `Counted` (a workspace's references are at
least its leases; not equal, because of the leak below), for eviction asks only for
`references == 0`; `OneInside` and `Local` say that one user is inside the lock and what
it found there is still so: its project is not cached, the workspace it closes is open and not
cached. `LeasesHold`, `NoneForgotten` and `LimitKept` follow.

`OptimizationProofs` on `Activation`, for every finite set of revisions, every set of
administrators, platforms and agents and any number of processes: `ActiveApproved` and
`Restorable` are not inductive alone. A rollback makes the parent active, so parents of approved
content must be approved; it revokes the active revision, so nothing approved may lie on that
(`ActiveIsLast`); after it the parent is active, so nothing else approved may lie on the parent
(`OnlyChild`). Approval keeps all three because it only replaces the parent itself
(`ApproveChain`), and rollback because it only replaces the active revision (`RestoreChain`).
`OnlyApprovedIsActive`, `AlwaysRestorable` and `DecisionsHold` follow.

`ImplementsHistory` is the refinement `Spec => HistorySpec`. Its invariant is `Layered`: there is a
sequence from the baseline to the active row, each on its parent (`Lies`), without repetitions, and
it is the only one. Uniqueness is what the mapping needs, since `Layers` is a choice; it is kept
without an induction along the parents, because each step knows both sequences:
an approval appends to the one in force (`ApproveLayers`: whatever ends in the new row is, without
it, a sequence that ends in its parent), a restoration drops its last (`RestoreLayers`), a
revocation leaves the empty one (`RevokeLayers`). `LayersInForce` then says that the choice is this
sequence, whose length is bounded because it has no repetitions (`InjectiveBound`). Each of the three
is a step of `ContentHistory` (`ApproveHistory`, `RollbackHistory`); all others leave status and
parents of approved content alone and are stutters (`QuietHistory`).

`WorkspaceProofs`, for any accounts, projects, memberships and owners, and any number of acts,
changes and requests in flight: `Inductive` says for each request in flight what its headers and its
closure were (`Fits`). What was asked for in the current generation (a load, the settings, a health) was
asked for in the project of the requests, a load by a principal of it; that is what the
comparison of generations buys, and `ShownOfProject` is not inductive without it. `QuietIsConsistent`
speaks of quiet states only; its inductive form is `Agreed` (whenever requests and principal disagree, the
reload of a lifecycle change is in flight or the page is `stranded`) and `SettingsOfProject`.
`ShownData` and `QuietShell` follow.

`TriageBoardProofs`, for any tickets, questions, teams, filters and handlers in flight:
`Inductive` relates each handler to the page (`Fits`): while `workspaceRequest` is still that of its start,
the workspace it holds is of the ticket on display, and while a load of a workspace still counts, none is on
display, so at most one does (`OneLoad`). `QuestionsStay` follows; `ResultsAnswer` is kept by every step of
the server given the types; `SelectionStays` needs that a load of the board which counts and may select a
ticket was asked for while none was selected, and that none is.

`ProjectSetupProofs`, for any entries, sections, drafts, numbers of loads and tests:
`Inductive` says what each call carries and where it can be (`Fits`), that attempts with one key have one
input (`SameKeys`, which makes retries harmless), that the lock has one holder (`OneHolder`), that what an
apply has checked is still so until it publishes, and that the attempt kept for a retry and the receipt
are of what the page shows (`PendingOK`, `CandidateOK`). `AppliedTested` combines the receipt's check with
the lock; `OthersKept` uses that the page sends the other sections of exactly the settings it names
(`Faithful`).

`ChatPageProofs`, for any finite histories, conversations and questions, every page size and any
number of runs, sends and stops. `IInv` says of each thing in flight what it may still do to the page:

* `RunsShown`: runs on display are saved runs, each shown once; `StopsSaved`, `PollOfShown`, `PipeOfSub`
  say which runs each answer on its way can name. `UpsertedUpdates` (from `InOrderRuns` and `LatestRead`,
  lemmas on the operators) then gives what all sources of turns have in common: what was shown stays
  at its place and gets no older, and what is appended was read. So `ShownRevisionsGrow`.
* `PollOfShown`: a poll in flight asks for exactly the active runs on display; this is what dropping
  the poll when they change buys. `ActiveRunsAreOfConversation` is not inductive without it, nor without
  `StopsSaved` (the answer to Stop reports an ended run, so a turn it appends after the user chose
  another conversation is not active).
* `LoadOfChat`: a load in flight is for the open conversation, and its answer has no gap below its cursor
  (`NoGap`, from `PageOfTurns`: a page is the last turns before the cursor). So `EarlierTurnsAreAdjoined`.
* `PendingOfChat`, `SubOfChat`, `KeysGiven`: a key belongs to one question of one conversation, on the
  server, in the attempt in doubt and in the submission (`KeyOf`). A request that the page gave up on can be
  admitted late, so a run under that key may appear after the attempt; it still has the same question.
  `AttemptIsOfConversation` and `AnsweredByOwnRun` (`RunOfQuestion`: a question is answered by its own run,
  retries included) follow.

* `ServerKeepsRecords`: what the page's server does to its runs (`OneRunChanges`) are steps of `RunRecord`,
  which `RunLifecycle` implements (`RowImplementsRecord`): both modules give a saved run the same life,
  opened once, closed once, and then final. The first state may hold runs saved before, hence the theorem
  is about steps. It does not say that `ChatPage` covers every behaviour of the runner.

Each part of `IInv` is kept by a lemma of its own (`StoreStep`, `RunsStep`, `StopsStep`, `PollStep`,
`LoadStep`, `AttemptStep`) that goes through the actions; `Inductive` combines them.

Assumptions: those named in the modules (finite sets, positive limits, `None` is
not a value, blank entries are entries, the first state is one of the type). Only model-checked:
everything under fairness (`RunsEnd`, `SlotsReturn`, `JobsSettle`, `CancelEnds`, `StreamEnds`, `Answered`,
`ShownSettles`), which is out of reach of the prover, and that actions are enabled at all (deadlock). Every
safety invariant, action property and refinement that a passing run checks is a theorem as well.

## 5. Mutants

Each property is shown to be able to fail: the mapped definition a plausible bug
would touch is replaced by the "mutated form" defined next to it (an unguarded
`UPDATE`, a missing unique index, a semaphore replaced under its holders, a fence
without the lease owner, a reservation made too late, an answer that is not compared with the session
or the snapshot it was asked for...). `PROJECT.json` lists the
pairs.

## 6. What the violated runs show

* `ProjectRuntimesLeak`: `release` waits for the manager's lock (`projects.py:65`), which
  `bind` keeps while it closes and starts workspaces. A job is cancelled by its heartbeat just there: the lease
  was already popped from the scope (`bootstrap.py:233-235`), nobody gives the
  reference back, and the workspace counts as busy until the process ends; sixteen of them
  make every new project be refused. The documentation says that the least
  recently used idle context is closed when capacity is needed
  (`docs/reference/runtime-and-extension-contracts.md:823`), and
  `tests/integration/test_improvement_api.py:92` expects no references after a job.
* `ProjectSetupUnsaved`: the effect that takes the saved baseline (`ProjectSetup.tsx:536`) runs when
  `loading`, the entries or the saved draft change. Of two loads that overlap, the one that fails ends
  `loading`, so the effect takes what was typed meanwhile as the baseline; the other brings entries that are
  equal to those on display, so the effect does not run again and `needsBaseline` stays set. The next
  entries typed are then taken as saved: `dirty` is false and leaving the page does not warn, against
  the documented warning about unsaved entries (quoted in `PROJECT.json`).

Four more disagreements with a comment, a docstring or a document can be reproduced in the modules, with the action
named; they have no run of their own:

* A transient database error inside the heartbeat cancels the job's task
  (`improvement.py:417-419`), and `run_once` stores CANCELLED with "Stopped by operator or lost
  worker lease" (`improvement.py:433`), while the comment at `improvement.py:456` expects the lease to be
  recovered by another worker (`ImprovementJobs`, the database error inside the heartbeat).
* `finish_tool` puts its entry back on any exception (`governance.py:135-137`); when the append was
  committed and its caller cancelled, the sweep appends a second end for the same call, a
  `tool_failed` or `tool_cancelled` after, say, `tool_completed`, against
  the docstring "Finalize a started call once" (`governance.py:122`; in `RunTrace` the second
  disjunct of `RecordFails` in `Interrupt`, then `SweepRecords`). What holds, and is checked and proved, is
  `OneEndEach`: at most one end by the call's own coroutine and one by the sweep, which comes last.
  And `_stream_run` lists the events (`runs.py:174`) before it looks at
  the task (`runs.py:179`): an event that the cleanup appends in between is stored, yet `complete` is
  sent without it. `NoGaps` still holds: a client that asks again from its cursor gets it.
* After an upgrade `effective` ignores the overlay of the old platform (`service.py:157-160`), so
  revisions are reviewed against the baseline with `parent_hash` NULL. The old row still occupies
  `active_optimized_content`, and the INSERT of the approval fails with "Active content changed during
  approval" (`service.py:627`) although nothing changed, until an administrator revokes it (`Activation`).
* `handleAuthenticated` and `clearScopedData` (`App.tsx:357-390`) reset the time and the error of the health
  but not the health itself, and the first leaves the number of unread notifications, too. After a
  switch the Topbar shows the mode, the numbers of runs, the tenant and the project of the project
  before (`Topbar.tsx:499-563`) until the next health is read, or for good if that fails
  (`App.tsx:330-336`), against "Project switching must discard stale responses and context."
  (`docs/configuration.md:26`). In `Workspace`: a load, `ActivateProject`, then `SelectAnswer`, which keeps
  `health`. What holds, and is checked and proved, is that late "directory and health responses cannot
  overwrite the next project's state" (`docs/reference/historical-reviews.md:526-527`): `ShownOfProject` asks
  for the project of the health only where `fresh` is true.

## 7. Not modelled

Components without a module are listed with reasons in `PROJECT.json`. Of the modelled ones, on the
server: the wording and validation of contracts and answers, redaction, policy evaluation, the agent
graph, the stage and revision columns, schedules and candidate review of the improvement
service, the replay stream `/trace/events`, datasets, model evaluation and the restoration audit of
optimizations. In the client:

* everything that is only shown: texts of errors and of loading states, tabs, layout, markdown,
  evidence summaries, exports;
* `Workspace`: routing and the project in the address beyond their loads, `handleCreateProject`, the
  notifications, the project directory; OIDC redirects, whose result is a cookie of the first state;
* `ChatPage`: the content of attachments and sources (an upload is one step that ends or fails), the first
  load of the list of conversations, the clarification dialog beyond ending the submission;
* `ProjectSetup`: the single sections of the form, uploads of a settings file, the comparison shown after a
  conflict; users who may not edit;
* `TriageBoard`: more than one proposed question per ticket, bulk imports, summaries by the assistant.

A large part of the repository's TypeScript cannot be the subject of a behavioural model: a third of
it is `live-browser.js` in two copies, a vendored overlay for a browser; most of the rest is JSX, styles
in objects, labels and tests. The modules therefore stand for the handlers, effects and services of the four pages
that hold several requests at once, and for the server's protocols behind them, which are written in
Python; they do not approach a third of all lines, and widening the lines of a definition would not
change that.

Hazards that are listed without a property: the answer to Stop is put into whatever conversation is
open when it comes, and aborts whatever submission is in flight by then (`Chat.tsx:793`; the step is
`StopAnswer`, and because the turn has ended by then, `ActiveRunsOfConversation` and
`AttemptOfConversation` hold nevertheless; no document says what should happen). The return and the
escalation of a ticket name the selected ticket, while the late reload of an earlier handler may have
brought another ticket's workspace into the header (`TriageBoard.tsx:366`, in `ReturnToTriage` and
`EscalateSubmit`; the documents do not say which of the two is meant). A save closes whatever editor is
open when it ends (`Skills.tsx:366`, not modelled).

## 8. Plan

In this order, each with its MC module and run where the number of runs stays readable:

1. `ImprovementSchedules`: `tick_schedules` and `save_schedule` over the queue's rows,
   composed with an abstract `ImprovementJobs`; at most one active job per schedule
   revision as far as `control` allows it.
2. `AgentReview` and `HarnessWorkspace`: compare-and-set on revisions, separation of
   author and reviewer, one active version, audit; composed with `RunLifecycle`'s start.
3. `KnowledgeReview` with the capture and closure jobs as clients, over the checkpoints
   of `ImprovementJobs`.
4. Retention against readers and streams; the composition of `ChatPage` with `RunTrace`, so that
   the frames of the stream are those of `_stream_run`.
5. Pure operators against reference definitions: capability resolution, policy
   combination, parameter layering, SLA arithmetic.

Theorems worth having there: at most one active version per agent, nothing starts from a
revoked configuration, at most one active job per schedule revision.
