------------------------------ MODULE ChatPage ------------------------------
(***************************************************************************)
(* The chat page: one conversation is open, at most one submission is on   *)
(* its way, and three kinds of answers report on the same runs - the       *)
(* stream of the submission, the poll of active runs, and the answers to   *)
(* Stop and to the loads of a conversation.                                *)
(*                                                                         *)
(* src/frontend/src/pages/Chat.tsx, services/chat.ts and streamStudioRun   *)
(* of features/harness-studio/harnessApi.ts.  The server is modelled by    *)
(* what POST /api/v1/runs and cancel do (api/routes/runs.py): a run is     *)
(* found again by its idempotency key, and its revision grows until it     *)
(* ends.                                                                   *)
(***************************************************************************)
EXTENDS Naturals, FiniteSets, SequencesExt

CONSTANTS
    Conversations,
    Questions,      \* prompts with their attachments, sources and capability
    None,
    Histories,      \* the runs that were saved before the page is opened
    PageSize,       \* CHAT_PAGE_SIZE
    MaxRuns,        \* bound: runs the server admits
    MaxRevision,    \* bound: revision of a run that is still active
    MaxSends,       \* bound: submissions
    MaxStops        \* bound: cancel requests in flight

ASSUME PageSizeAssumption == PageSize \in Nat \ {0}
ASSUME BoundsAssumption == MaxRuns \in Nat /\ MaxSends \in Nat
ASSUME NoneAssumption == None \notin Conversations \cup Nat

VARIABLES
    store,      \* the saved runs, by id: the order in which they were created
    existing,   \* conversations created so far
    chatId,     \* the open conversation, or None for a new one
    runs,       \* the runs on display, as last read
    more,       \* runsHasMore
    pending,    \* pendingAttempt, or None
    current,    \* currentRun, or None
    sub,        \* the submission in flight (busy), or None
    pipe,       \* a frame of its stream that is not read yet, or None
    stops,      \* cancel requests in flight
    stopping,   \* the Stop button is disabled
    poll,       \* the poll in flight, or None
    load,       \* conversationRequest in flight, or None
    sends       \* submissions so far: also names their keys

server == <<store, existing>>
display == <<chatId, runs, more>>
attempt == <<pending, current>>
vars == <<server, display, attempt, sub, pipe, stops, stopping, poll, load, sends>>

Ids == 1 .. MaxRuns
Saved == [chat : Conversations, question : Questions, key : Nat, revision : Nat, active : BOOLEAN]
Read == [id : Ids, revision : Nat, active : BOOLEAN]
Frame == [type : {"run", "progress", "complete"}, run : Read]
         \cup [type : {"error"}, run : {None}]
Attempt == [chat : Conversations, question : Questions, key : Nat, run : Ids \cup {None}]
Stages == {"create", "upload", "resolve", "stream", "saved"}
Submission == [stage : Stages, files : BOOLEAN, auto : BOOLEAN, aborted : BOOLEAN,
               chat : Conversations \cup {None}, question : Questions, key : Nat,
               run : Ids \cup {None}, sent : Nat, read : Read \cup {None}]

-----------------------------------------------------------------------------
(* Operators.                                                              *)

Snapshot(id) == [id |-> id, revision |-> store[id].revision, active |-> store[id].active]

ActiveIds(s) == {r.id : r \in {r \in Range(s) : r.active}}
Shows(s, id) == \E r \in Range(s) : r.id = id

\* The runs of a set, oldest first.
InOrder(S) ==
    {s \in BoundedSeq(S, MaxRuns) :
        Range(s) = S /\ \A i, j \in DOMAIN s : i < j => s[i].id < s[j].id}

\* A mutated form: the last answer wins.
AnyRead(q, reads) == {r \in reads : r.id = q.id}

\* upsertRun of each read: a run that is shown keeps the newer revision, others follow.
Newer(q, reads) == {r \in reads : r.id = q.id /\ r.revision >= q.revision}
Latest(q, reads) == IF Newer(q, reads) = {} THEN q ELSE CHOOSE r \in Newer(q, reads) : TRUE
Unshown(s, reads) == {r \in reads : ~Shows(s, r.id)}

Upserted(s, reads) ==
    {[i \in DOMAIN s |-> Latest(s[i], reads)] \o new : new \in InOrder(Unshown(s, reads))}

\* A terminal run settles the attempt it belongs to.
Settle(p, reads) == IF p # None /\ (\E r \in reads : p.run = r.id /\ ~r.active) THEN None ELSE p

\* fetchConversationRuns: the last runs before a cursor.
Turns(c, before) == {i \in DOMAIN store : store[i].chat = c /\ i < before}
Page(c, before) ==
    {Snapshot(i) : i \in {i \in Turns(c, before) :
                            Cardinality({j \in Turns(c, before) : j >= i}) <= PageSize}}

\* A mutated form: the poll is not dropped when the runs on display change.
RepollNever == poll' = IF (sub' = None) = (sub = None) THEN poll ELSE None

\* The poll's effect runs again when busy or the active runs changed.
Repoll ==
    poll' = IF (sub' = None) = (sub = None) /\ ActiveIds(runs') = ActiveIds(runs) THEN poll ELSE None

busy == sub # None
loading == load # None /\ load.kind = "open"

-----------------------------------------------------------------------------
(* The server.                                                             *)

\* A run goes on, ends, or is cancelled because nobody reads its stream.
Advance(id) ==
    /\ store[id].active
    /\ \/ /\ store[id].revision < MaxRevision
          /\ store' = [store EXCEPT ![id].revision = @ + 1]
       \/ store' = [store EXCEPT ![id].revision = @ + 1, ![id].active = FALSE]
    /\ UNCHANGED <<existing, display, attempt, sub, pipe, stops, stopping, poll, load, sends>>

Existing(key) == {i \in DOMAIN store : store[i].key = key}
NewRun(s) == [chat |-> s.chat, question |-> s.question, key |-> s.key, revision |-> 1, active |-> TRUE]

\* The request arrives: the key finds its run, or a run is created or refused.
Admit ==
    /\ busy /\ sub.stage = "stream" /\ sub.run = None /\ pipe = None
    /\ \/ /\ Existing(sub.key) # {}
          /\ \E i \in Existing(sub.key) : sub' = [sub EXCEPT !.run = i]
          /\ UNCHANGED <<store, pipe>>
       \/ /\ Existing(sub.key) = {} /\ Len(store) < MaxRuns
          /\ store' = Append(store, NewRun(sub))
          /\ sub' = [sub EXCEPT !.run = Len(store')]
          /\ UNCHANGED pipe
       \/ /\ Existing(sub.key) = {}
          /\ pipe' = [type |-> "error", run |-> None]
          /\ UNCHANGED <<store, sub>>
    /\ UNCHANGED <<existing, display, attempt, stops, stopping, poll, load, sends>>

\* The stream names the run, then sends each newer revision, then the end.
Emit ==
    /\ busy /\ sub.stage = "stream" /\ sub.run # None /\ pipe = None
    /\ LET r == Snapshot(sub.run) IN
       \/ /\ sub.sent = 0 /\ current # sub.run
          /\ pipe' = [type |-> "run", run |-> r] /\ UNCHANGED sub
       \/ /\ current = sub.run /\ r.revision > sub.sent
          /\ pipe' = [type |-> "progress", run |-> r]
          /\ sub' = [sub EXCEPT !.sent = r.revision]
       \/ /\ r.revision = sub.sent /\ ~r.active
          /\ pipe' = [type |-> "complete", run |-> r] /\ UNCHANGED sub
       \/ /\ ~r.active
          /\ pipe' = [type |-> "error", run |-> None] /\ UNCHANGED sub
    /\ UNCHANGED <<server, display, attempt, stops, stopping, poll, load, sends>>

ServeStop(s) ==
    /\ s.answer = None
    /\ IF store[s.run].active
         THEN store' = [store EXCEPT ![s.run].revision = @ + 1, ![s.run].active = FALSE]
         ELSE UNCHANGED store
    /\ stops' = (stops \ {s}) \cup
         {[s EXCEPT !.answer = [id |-> s.run, revision |-> store'[s.run].revision, active |-> FALSE]]}
    /\ UNCHANGED <<existing, display, attempt, sub, pipe, stopping, poll, load, sends>>

ServePoll ==
    /\ poll # None /\ poll.answer = None
    /\ poll' = [poll EXCEPT !.answer = {Snapshot(id) : id \in poll.ids}]
    /\ UNCHANGED <<server, display, attempt, sub, pipe, stops, stopping, load, sends>>

ServeLoad ==
    /\ load # None /\ load.answer = None
    /\ load' = [load EXCEPT !.answer = Page(load.chat, load.before)]
    /\ UNCHANGED <<server, display, attempt, sub, pipe, stops, stopping, poll, sends>>

ServeSaved ==
    /\ busy /\ sub.stage = "saved" /\ sub.read = None
    /\ sub' = [sub EXCEPT !.read = Snapshot(current)]
    /\ UNCHANGED <<server, display, attempt, pipe, stops, stopping, poll, load, sends>>

-----------------------------------------------------------------------------
(* A submission.                                                           *)

\* The finally of send.  A request that was on its way may still be admitted.
Release ==
    /\ sub' = None /\ pipe' = None /\ stopping' = FALSE
    /\ \/ UNCHANGED store
       \/ /\ sub.stage = "stream" /\ sub.run = None /\ pipe = None
          /\ Existing(sub.key) = {} /\ Len(store) < MaxRuns
          /\ store' = Append(store, NewRun(sub))

\* The catch of send: a known run is read again before the page is released.
Fail ==
    IF current = None THEN Release
    ELSE /\ sub' = [sub EXCEPT !.stage = "saved", !.read = None]
         /\ pipe' = None
         /\ UNCHANGED <<store, stopping>>

\* A mutated form: the run of the attempt in doubt takes the place of its key.
ContinueWithRun(s) ==
    LET next == IF s.files THEN "upload" ELSE IF s.auto THEN "resolve" ELSE "stream"
        again == pending # None /\ pending.chat = s.chat /\ pending.question = s.question
        key == IF again THEN pending.run ELSE s.key
    IN  /\ sub' = [s EXCEPT !.stage = next, !.key = IF next = "stream" THEN key ELSE @]
        /\ pending' = IF next # "stream" \/ again THEN pending
                      ELSE [chat |-> s.chat, question |-> s.question, key |-> s.key, run |-> None]

\* The stage that follows, and the attempt that a stream is opened for: the same
\* question of the same conversation takes the key of the attempt in doubt.
Continue(s) ==
    LET next == IF s.files THEN "upload" ELSE IF s.auto THEN "resolve" ELSE "stream"
        again == pending # None /\ pending.chat = s.chat /\ pending.question = s.question
        key == IF again THEN pending.key ELSE s.key
    IN  /\ sub' = [s EXCEPT !.stage = next, !.key = IF next = "stream" THEN key ELSE @]
        /\ pending' = IF next # "stream" \/ again THEN pending
                      ELSE [chat |-> s.chat, question |-> s.question, key |-> s.key, run |-> None]

Send(question, files, auto) ==
    LET s == [stage |-> "create", files |-> files, auto |-> auto, aborted |-> FALSE,
              chat |-> chatId, question |-> question, key |-> sends + 1,
              run |-> None, sent |-> 0, read |-> None]
    IN  /\ sends < MaxSends
        /\ ~busy /\ ~loading /\ ActiveIds(runs) = {}
        /\ sends' = sends + 1
        /\ IF chatId = None THEN sub' = s /\ UNCHANGED pending ELSE Continue(s)
        /\ current' = None /\ load' = None /\ pipe' = None
        /\ UNCHANGED <<server, display, stops, stopping>>
        /\ Repoll

\* createConversation was answered.
Created ==
    /\ busy /\ sub.stage = "create"
    /\ \/ /\ Release
          /\ UNCHANGED <<chatId, existing, pending>>
       \/ \E c \in Conversations \ existing :
             /\ existing' = existing \cup {c}
             /\ chatId' = c
             /\ IF sub.aborted /\ ~sub.files THEN Release /\ UNCHANGED pending
                ELSE /\ Continue([sub EXCEPT !.chat = c])
                     /\ UNCHANGED <<store, pipe, stopping>>
    /\ UNCHANGED <<runs, more, current, stops, load, sends>>
    /\ Repoll

\* The files were uploaded, or refused; Stop is heard only now.
Uploaded ==
    /\ busy /\ sub.stage = "upload"
    /\ \/ Release /\ UNCHANGED pending
       \/ /\ ~sub.aborted
          /\ Continue([sub EXCEPT !.files = FALSE])
          /\ UNCHANGED <<store, pipe, stopping>>
    /\ UNCHANGED <<existing, display, current, stops, load, sends>>
    /\ Repoll

\* The question was resolved to a capability; or it needs a clarification or
\* sources, or the resolution failed.
Resolved ==
    /\ busy /\ sub.stage = "resolve"
    /\ \/ Release /\ UNCHANGED pending
       \/ /\ Continue([sub EXCEPT !.auto = FALSE])
          /\ UNCHANGED <<store, pipe, stopping>>
    /\ UNCHANGED <<existing, display, current, stops, load, sends>>
    /\ Repoll

\* The callback of streamStudioRun.
ReadFrame ==
    /\ busy /\ pipe # None
    /\ LET r == pipe.run
           known == IF pending # None /\ pending.key = sub.key
                    THEN [pending EXCEPT !.run = r.id] ELSE pending
       IN  \/ /\ pipe.type = "run"
              /\ current' = r.id /\ pending' = known
              /\ pipe' = None
              /\ UNCHANGED <<store, runs, sub, stopping>>
           \/ /\ pipe.type = "progress"
              /\ current' = r.id /\ pending' = Settle(known, {r})
              /\ runs' \in Upserted(runs, {r})
              /\ pipe' = None
              /\ UNCHANGED <<store, sub, stopping>>
           \/ /\ pipe.type = "complete"
              /\ current' = r.id /\ pending' = Settle(known, {r})
              /\ runs' \in Upserted(runs, {r})
              /\ Release
           \/ /\ pipe.type = "error"
              /\ Fail
              /\ UNCHANGED <<attempt, runs>>
    /\ UNCHANGED <<existing, chatId, more, stops, load, sends>>
    /\ Repoll

\* The connection is lost before or while the stream is read.
LoseStream ==
    /\ busy /\ sub.stage = "stream" /\ pipe = None
    /\ Fail
    /\ UNCHANGED <<existing, display, attempt, stops, load, sends>>
    /\ Repoll

SavedAnswer ==
    /\ busy /\ sub.stage = "saved" /\ sub.read # None
    /\ \/ /\ runs' \in Upserted(runs, {sub.read})
          /\ pending' = Settle(pending, {sub.read})
       \/ UNCHANGED <<runs, pending>>
    /\ Release
    /\ UNCHANGED <<existing, chatId, more, current, stops, load, sends>>
    /\ Repoll

-----------------------------------------------------------------------------
(* Stop.                                                                   *)

\* controller.current?.abort(): an upload goes on, and is stopped afterwards.
Abort ==
    IF ~busy \/ sub.stage = "saved" THEN UNCHANGED <<store, sub, pipe>> /\ stopping' = FALSE
    ELSE IF sub.stage \in {"create", "upload"}
         THEN sub' = [sub EXCEPT !.aborted = TRUE] /\ stopping' = FALSE /\ UNCHANGED <<store, pipe>>
         ELSE Release

FirstActive ==
    {runs[i].id : i \in {i \in DOMAIN runs : runs[i].active /\ \A j \in 1 .. i - 1 : ~runs[j].active}}

Stop ==
    /\ ~stopping
    /\ \E target \in IF busy THEN {current} ELSE FirstActive :
         IF target = None
         THEN Abort /\ UNCHANGED stops
         ELSE /\ Cardinality(stops) < MaxStops
              /\ stops' = stops \cup {[run |-> target, answer |-> None]}
              /\ stopping' = TRUE
              /\ UNCHANGED <<store, sub, pipe>>
    /\ UNCHANGED <<existing, display, attempt, load, sends>>
    /\ Repoll

StopAnswer(s) ==
    /\ s.answer # None
    /\ stops' = stops \ {s}
    /\ \/ /\ runs' \in Upserted(runs, {s.answer})
          /\ pending' = Settle(pending, {s.answer})
          /\ Abort
       \/ UNCHANGED <<store, runs, pending, sub, pipe>>
    /\ stopping' = FALSE
    /\ UNCHANGED <<existing, chatId, more, current, load, sends>>
    /\ Repoll

-----------------------------------------------------------------------------
(* Conversations and their history.                                        *)

Open(c) ==
    /\ chatId' = c /\ runs' = <<>> /\ more' = FALSE
    /\ load' = IF c = None THEN None
               ELSE [kind |-> "open", chat |-> c, before |-> MaxRuns + 1, answer |-> None]
    /\ UNCHANGED <<server, sub, pipe, stops, stopping, sends>>
    /\ Repoll

\* A mutated form: the attempt in doubt stays.
ChooseKeepingAttempt(c) ==
    /\ ~busy /\ ~loading
    /\ current' = None /\ UNCHANGED pending
    /\ Open(c)

\* chooseConversation, from the list or New chat: not while a page loads.
ChooseConversation(c) ==
    /\ ~busy /\ ~loading
    /\ current' = None
    /\ pending' = IF c # chatId \/ c = None THEN None ELSE pending
    /\ Open(c)

\* The effect of requestVersion: another page asks for a new chat.
RequestChat ==
    /\ ~busy
    /\ pending' = None /\ UNCHANGED current
    /\ Open(None)

\* A mutated form: the turn next to the first one is left out.
LoadBelowCursor ==
    /\ chatId # None /\ ~busy /\ load = None /\ more
    /\ load' = [kind |-> "earlier", chat |-> chatId, before |-> runs[1].id - 1, answer |-> None]
    /\ UNCHANGED <<server, display, attempt, sub, pipe, stops, stopping, poll, sends>>

\* The turns before the first one on display.
LoadEarlierTurns ==
    /\ chatId # None /\ ~busy /\ load = None /\ more
    /\ load' = [kind |-> "earlier", chat |-> chatId, before |-> runs[1].id, answer |-> None]
    /\ UNCHANGED <<server, display, attempt, sub, pipe, stops, stopping, poll, sends>>

LoadAnswer ==
    /\ load # None /\ load.answer # None
    /\ load' = None
    /\ LET page == load.answer IN
       \/ UNCHANGED <<runs, more, pending>>
       \/ /\ more' = (Cardinality(page) = PageSize)
          /\ \/ /\ load.kind = "open"
                /\ runs' \in InOrder(page)
                /\ pending' = Settle(pending, page)
             \/ /\ load.kind = "earlier"
                /\ \E new \in InOrder(Unshown(runs, page)) : runs' = new \o runs
                /\ UNCHANGED pending
    /\ UNCHANGED <<server, chatId, current, sub, pipe, stops, stopping, sends>>
    /\ Repoll

-----------------------------------------------------------------------------
(* The poll of active runs.                                                *)

\* A mutated form: only the run of the attempt in doubt is polled.
PollAttempt ==
    /\ ~busy /\ poll = None /\ pending # None /\ pending.run \in ActiveIds(runs)
    /\ poll' = [ids |-> {pending.run}, answer |-> None]
    /\ UNCHANGED <<server, display, attempt, sub, pipe, stops, stopping, load, sends>>

\* Every active run on display is read again.
Poll ==
    /\ ~busy /\ poll = None /\ ActiveIds(runs) # {}
    /\ poll' = [ids |-> ActiveIds(runs), answer |-> None]
    /\ UNCHANGED <<server, display, attempt, sub, pipe, stops, stopping, load, sends>>

\* All runs were read.
PollSucceeds ==
    /\ poll # None /\ poll.answer # None
    /\ runs' \in Upserted(runs, poll.answer)
    /\ pending' = Settle(pending, poll.answer)
    /\ poll' = None
    /\ UNCHANGED <<server, chatId, more, current, sub, pipe, stops, stopping, load, sends>>

\* A request failed; the next poll comes after the same delay.
PollFails ==
    /\ poll # None /\ poll.answer # None
    /\ poll' = None
    /\ UNCHANGED <<server, display, attempt, sub, pipe, stops, stopping, load, sends>>

-----------------------------------------------------------------------------
\* The runs that were saved before have keys of their own.
ASSUME HistoriesAssumption ==
    \A h \in Histories : h \in Seq(Saved) /\ Len(h) <= MaxRuns /\ \A i \in DOMAIN h : h[i].key = 0

Init ==
    /\ store \in Histories /\ existing = {r.chat : r \in Range(store)}
    /\ chatId = None /\ runs = <<>> /\ more = FALSE
    /\ pending = None /\ current = None
    /\ sub = None /\ pipe = None
    /\ stops = {} /\ stopping = FALSE
    /\ poll = None /\ load = None /\ sends = 0

Server ==
    \/ \E id \in DOMAIN store : Advance(id)
    \/ Admit
    \/ Emit
    \/ \E s \in stops : ServeStop(s)
    \/ ServePoll
    \/ ServeLoad
    \/ ServeSaved

Answers ==
    \/ Created
    \/ Uploaded
    \/ Resolved
    \/ ReadFrame
    \/ LoseStream
    \/ SavedAnswer
    \/ \E s \in stops : StopAnswer(s)
    \/ LoadAnswer
    \/ Poll
    \/ PollSucceeds
    \/ PollFails

User ==
    \/ \E q \in Questions, files, auto \in BOOLEAN : Send(q, files, auto)
    \/ Stop
    \/ \E c \in existing \cup {None} : ChooseConversation(c)
    \/ RequestChat
    \/ LoadEarlierTurns

Next == Server \/ Answers \/ User

Spec == Init /\ [][Next]_vars

\* Runs end, requests are answered or fail, and the page reads the answers; a poll
\* that is sent again and again does not fail for ever.
Fairness ==
    /\ \A id \in Ids : WF_vars(id \in DOMAIN store /\ Advance(id))
    /\ WF_vars(Admit) /\ WF_vars(Emit)
    /\ WF_vars(\E s \in stops : ServeStop(s)) /\ WF_vars(ServePoll)
    /\ WF_vars(ServeLoad) /\ WF_vars(ServeSaved)
    /\ WF_vars(Created) /\ WF_vars(Uploaded) /\ WF_vars(Resolved)
    /\ WF_vars(ReadFrame) /\ WF_vars(SavedAnswer)
    /\ WF_vars(\E s \in stops : StopAnswer(s)) /\ WF_vars(LoadAnswer)
    /\ WF_vars(Poll) /\ SF_vars(PollSucceeds)

FairSpec == Spec /\ Fairness

-----------------------------------------------------------------------------
(* Properties.                                                             *)

\* The values each variable takes.
TypeOK ==
    /\ store \in Seq(Saved) /\ Len(store) <= MaxRuns
    /\ existing \subseteq Conversations
    /\ chatId \in existing \cup {None}
    /\ runs \in Seq(Read) /\ more \in BOOLEAN
    /\ current \in Ids \cup {None}
    /\ pending # None => pending \in Attempt
    /\ sub # None => sub \in Submission
    /\ pipe # None => pipe \in Frame
    /\ stopping \in BOOLEAN /\ sends \in 0 .. MaxSends

\* An active run on display is of the open conversation: the composer is never
\* blocked, and Stop never sent, for a run of another conversation.  Answers to a
\* poll, a stream or Stop may come after the user chose another conversation.
ActiveRunsOfConversation ==
    \A r \in Range(runs) : r.active => store[r.id].chat = chatId

\* Earlier turns adjoin those on display: no turn of the conversation is left out
\* between them, whatever was sent, polled or stopped while they were loaded.
EarlierTurnsAdjoin ==
    [][load # None /\ load.kind = "earlier" /\ load' = None /\ Len(runs') > Len(runs) =>
         \A id \in runs'[1].id .. runs[1].id : store[id].chat = chatId => Shows(runs', id)]_vars

\* A run on display never goes back to an older revision, whichever of the stream,
\* the poll, the answer to Stop and the saved state comes last; only opening a
\* conversation replaces what is shown.
RevisionsGrow ==
    [][~(loading /\ load' = None) => \A i \in DOMAIN runs, j \in DOMAIN runs' :
         runs[i].id = runs'[j].id => runs'[j].revision >= runs[i].revision]_vars

\* The attempt whose key is sent again is of the open conversation: no question is
\* answered by the run of another conversation's question.
AttemptOfConversation == pending # None => pending.chat = chatId

\* An active run on display that has ended is shown as ended, or its conversation
\* is left: a stream that is lost, a poll that fails or a submission in between
\* does not leave the composer blocked for ever.
ShownSettles ==
    \A id \in Ids : (id \in ActiveIds(runs) /\ ~store[id].active) ~> (id \notin ActiveIds(runs))
=============================================================================
