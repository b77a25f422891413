---------------------------- MODULE ChatPageProofs ----------------------------
(***************************************************************************)
(* ChatPage for any number of conversations, questions and runs, pages of  *)
(* any size, and any answers in flight: its types, that active runs and    *)
(* the attempt in doubt are of the open conversation, and that what is     *)
(* shown grows without gaps and never goes back.                           *)
(***************************************************************************)
EXTENDS ChatPage, FiniteSetTheorems, TLAPS

------------------------------------------------------------------------------
(* The inductive invariant. *)

\* Every key was given to a submission, or to a run that was saved before.
KeysGiven == \A i \in DOMAIN store : store[i].key <= sends

\* The runs on display are saved runs, each shown once; the cursor of earlier
\* turns is a turn of the open conversation.
RunsShown ==
    /\ \A i \in DOMAIN runs : runs[i].id \in DOMAIN store
    /\ \A i, j \in DOMAIN runs : runs[i].id = runs[j].id => i = j
    /\ more => runs # <<>> /\ store[runs[1].id].chat = chatId

\* The run that a key finds, if there is one, is of this question of this conversation.
KeyOf(key, c, q) ==
    \A i \in DOMAIN store : store[i].key = key => store[i].chat = c /\ store[i].question = q

PendingOfChat ==
    pending # None => /\ pending.chat = chatId
                      /\ pending.key <= sends
                      /\ KeyOf(pending.key, pending.chat, pending.question)

\* A submission belongs to the open conversation once there is one.  Before its
\* stream, its key is fresh; afterwards the key and the run it is told of are of its
\* own question.
SubOfChat ==
    busy => /\ current \in {None, sub.run}
            /\ sub.key <= sends
            /\ sub.stage = "create" => chatId = None
            /\ sub.stage # "create" => chatId # None /\ sub.chat = chatId
            /\ sub.stage \in {"create", "upload", "resolve"} =>
                  /\ sub.run = None
                  /\ \A i \in DOMAIN store : store[i].key # sub.key
            /\ sub.stage = "stream" => KeyOf(sub.key, sub.chat, sub.question)
            /\ sub.stage = "saved" => current # None
            /\ pending # None /\ pending.key = sub.key =>
                  sub.stage \in {"stream", "saved"} /\ sub.question = pending.question
            /\ sub.run # None => /\ sub.run \in DOMAIN store
                                 /\ store[sub.run].chat = sub.chat
                                 /\ store[sub.run].question = sub.question
            /\ sub.read # None => sub.stage = "saved" /\ sub.read.id = current

\* A frame names the run of the submission it is streamed to.
PipeOfSub ==
    busy /\ pipe # None => /\ sub.stage = "stream"
                           /\ pipe.type # "error" => sub.run # None /\ pipe.run.id = sub.run

\* Stop names a saved run, and its answer an ended one.
StopsSaved ==
    \A s \in stops : /\ s \in [run : Ids, answer : Read \cup {None}]
                     /\ s.run \in DOMAIN store
                     /\ s.answer # None => s.answer.id = s.run /\ s.answer.active = FALSE

\* A poll is of the active runs on display, and of no page that is busy.
PollOfShown ==
    poll # None => /\ ~busy
                   /\ poll.ids = ActiveIds(runs)
                   /\ poll.answer # None =>
                         \A r \in poll.answer : r \in Read /\ r.id \in poll.ids

\* A page of turns is of the open conversation, ends before its cursor, the first
\* run on display, and leaves out no turn after its own first one.
Turn(r) ==
    r \in Read /\ r.id \in DOMAIN store /\ store[r.id].chat = load.chat /\ r.id < load.before

NoGap(page) ==
    \A r \in page : \A i \in DOMAIN store :
        store[i].chat = load.chat /\ r.id <= i /\ i < load.before => \E q \in page : q.id = i

LoadOfChat ==
    load # None => /\ ~busy
                   /\ chatId # None /\ load.chat = chatId
                   /\ load.before \in Nat
                   /\ load.kind \in {"open", "earlier"}
                   /\ load.kind = "earlier" => more /\ load.before = runs[1].id
                   /\ load.answer # None =>
                         (\A r \in load.answer : Turn(r)) /\ NoGap(load.answer)

IInv ==
    TypeOK /\ KeysGiven /\ RunsShown /\ PendingOfChat /\ SubOfChat /\ PipeOfSub /\ StopsSaved
        /\ PollOfShown /\ LoadOfChat /\ ActiveRunsOfConversation

------------------------------------------------------------------------------
(* The operators on sequences of runs. *)

LEMMA Concatenation ==
  ASSUME NEW T, NEW a \in Seq(T), NEW b \in Seq(T), NEW s, s = a \o b
  PROVE  /\ s \in Seq(T)
         /\ Len(s) = Len(a) + Len(b)
         /\ DOMAIN s = 1 .. Len(s) /\ DOMAIN a = 1 .. Len(a)
         /\ \A i \in DOMAIN a : i \in DOMAIN s /\ s[i] = a[i]
         /\ \A i \in DOMAIN s : i \notin DOMAIN a =>
               i - Len(a) \in DOMAIN b /\ s[i] = b[i - Len(a)]
<1>1. /\ s \in Seq(T) /\ Len(s) = Len(a) + Len(b)
      /\ DOMAIN s = 1 .. Len(s) /\ DOMAIN a = 1 .. Len(a) /\ DOMAIN b = 1 .. Len(b)
      /\ Len(a) \in Nat /\ Len(b) \in Nat
  OBVIOUS
<1>2. \A i \in DOMAIN a : i \in DOMAIN s /\ s[i] = a[i]
  BY <1>1
<1>3. ASSUME NEW i \in DOMAIN s, i \notin DOMAIN a
      PROVE  i - Len(a) \in DOMAIN b /\ s[i] = b[i - Len(a)]
  BY <1>1, <1>3
<1> QED BY <1>1, <1>2, <1>3

\* A set of runs in order is a sequence of just these runs, each with an id of its own.
LEMMA InOrderRuns ==
  ASSUME NEW S, NEW s \in InOrder(S)
  PROVE  /\ s \in Seq(S)
         /\ DOMAIN s = 1 .. Len(s)
         /\ \A i \in DOMAIN s : s[i] \in S
         /\ \A r \in S : \E i \in DOMAIN s : s[i] = r
         /\ \A i, j \in DOMAIN s : i < j => s[i].id < s[j].id
<1>1. PICK m \in 0 .. MaxRuns : s \in [1 .. m -> S]
  BY DEF InOrder, BoundedSeq, SeqOf
<1>2. m \in Nat
  BY <1>1, BoundsAssumption
<1>3. s \in Seq(S) /\ DOMAIN s = 1 .. m /\ Len(s) = m
  BY <1>1, <1>2
<1>4. Range(s) = S
  BY DEF InOrder
<1>5. \A r \in S : \E i \in DOMAIN s : s[i] = r
  BY <1>4 DEF Range
<1>6. \A i, j \in DOMAIN s : i < j => s[i].id < s[j].id
  BY DEF InOrder
<1> QED BY <1>1, <1>3, <1>5, <1>6

LEMMA InOrderDistinct ==
  ASSUME NEW S, S \subseteq Read, NEW s \in InOrder(S)
  PROVE  \A i, j \in DOMAIN s : s[i].id = s[j].id => i = j
<1>1. SUFFICES ASSUME NEW i \in DOMAIN s, NEW j \in DOMAIN s, s[i].id = s[j].id
               PROVE  i = j
  OBVIOUS
<1>2. i \in Int /\ j \in Int
  BY InOrderRuns
<1>3. s[i].id \in Int /\ s[j].id \in Int
  BY InOrderRuns, BoundsAssumption DEF Read, Ids
<1>4. ~(i < j) /\ ~(j < i)
  BY <1>1, <1>3, InOrderRuns
<1> QED BY <1>2, <1>4

LEMMA LatestRead ==
  ASSUME NEW q \in Read, NEW reads, reads \subseteq Read
  PROVE  /\ Latest(q, reads) = q \/ Latest(q, reads) \in reads
         /\ Latest(q, reads) \in Read
         /\ Latest(q, reads).id = q.id
         /\ Latest(q, reads).revision >= q.revision
<1>1. CASE Newer(q, reads) = {}
  BY <1>1 DEF Latest, Read
<1>2. CASE Newer(q, reads) # {}
  <2>1. Latest(q, reads) \in Newer(q, reads)
    BY <1>2 DEF Latest
  <2> QED BY <2>1 DEF Newer
<1> QED BY <1>1, <1>2

\* What a sequence of runs becomes when it is updated by reads: those shown keep their
\* place and their id and never go back, reads that were not shown follow.
Updated(s, t, reads) ==
    /\ t \in Seq(Read)
    /\ Len(s) <= Len(t)
    /\ \A i \in DOMAIN s :
         /\ t[i] = s[i] \/ t[i] \in reads
         /\ t[i].id = s[i].id
         /\ t[i].revision >= s[i].revision
    /\ \A i \in DOMAIN t : i \notin DOMAIN s => t[i] \in reads /\ ~Shows(s, t[i].id)

Distinct(s) == \A i, j \in DOMAIN s : s[i].id = s[j].id => i = j

LEMMA UpsertedUpdates ==
  ASSUME NEW s \in Seq(Read), NEW reads, reads \subseteq Read,
         NEW t \in Upserted(s, reads)
  PROVE  Updated(s, t, reads) /\ (Distinct(s) => Distinct(t))
<1>1. PICK old, new :
         /\ old = [i \in DOMAIN s |-> Latest(s[i], reads)]
         /\ new \in InOrder(Unshown(s, reads))
         /\ t = old \o new
  BY DEF Upserted
<1>2. \A r \in Unshown(s, reads) : r \in reads /\ r \in Read /\ ~Shows(s, r.id)
  BY DEF Unshown
<1>3. /\ new \in Seq(Read) /\ DOMAIN new = 1 .. Len(new)
      /\ \A i \in DOMAIN new : new[i] \in reads /\ ~Shows(s, new[i].id)
  BY <1>1, <1>2, InOrderRuns
<1>4. /\ old \in Seq(Read) /\ Len(old) = Len(s) /\ DOMAIN old = DOMAIN s
      /\ \A i \in DOMAIN s : old[i] = Latest(s[i], reads) /\ s[i] \in Read
  BY <1>1, LatestRead
<1>5. /\ t \in Seq(Read) /\ Len(t) = Len(s) + Len(new)
      /\ DOMAIN t = 1 .. Len(t) /\ DOMAIN s = 1 .. Len(s)
      /\ \A i \in DOMAIN s : t[i] = old[i]
      /\ \A i \in DOMAIN t : i \notin DOMAIN s => i - Len(s) \in DOMAIN new /\ t[i] = new[i - Len(s)]
  <2>1. /\ t \in Seq(Read)
        /\ Len(t) = Len(old) + Len(new)
        /\ DOMAIN t = 1 .. Len(t) /\ DOMAIN old = 1 .. Len(old)
        /\ \A i \in DOMAIN old : i \in DOMAIN t /\ t[i] = old[i]
        /\ \A i \in DOMAIN t : i \notin DOMAIN old =>
              i - Len(old) \in DOMAIN new /\ t[i] = new[i - Len(old)]
    BY <1>1, <1>3, <1>4, Concatenation
  <2> QED BY <1>4, <2>1
<1>6. Updated(s, t, reads)
  <2>1. \A i \in DOMAIN s : /\ t[i] = s[i] \/ t[i] \in reads
                            /\ t[i].id = s[i].id
                            /\ t[i].revision >= s[i].revision
    BY <1>4, <1>5, LatestRead
  <2>2. \A i \in DOMAIN t : i \notin DOMAIN s => t[i] \in reads /\ ~Shows(s, t[i].id)
    BY <1>3, <1>5
  <2>3. Len(s) <= Len(t)
    BY <1>3, <1>5
  <2> QED BY <1>5, <2>1, <2>2, <2>3 DEF Updated
<1>7. ASSUME Distinct(s), NEW i \in DOMAIN t, NEW j \in DOMAIN t, t[i].id = t[j].id
      PROVE  i = j
  <2>1. CASE i \in DOMAIN s /\ j \in DOMAIN s
    BY <1>6, <1>7, <2>1 DEF Updated, Distinct
  <2>2. ASSUME NEW k \in DOMAIN s, NEW l \in DOMAIN t, l \notin DOMAIN s, t[k].id = t[l].id
        PROVE  FALSE
    <3>1. s[k].id = t[l].id /\ ~Shows(s, t[l].id)
      BY <1>6, <2>2 DEF Updated
    <3> QED BY <3>1 DEF Shows, Range
  <2>3. CASE i \notin DOMAIN s /\ j \notin DOMAIN s
    <3>1. Unshown(s, reads) \subseteq Read
      BY <1>2
    <3>2. \A k, l \in DOMAIN new : new[k].id = new[l].id => k = l
      BY <1>1, <3>1, InOrderDistinct
    <3>3. /\ i - Len(s) \in DOMAIN new /\ t[i] = new[i - Len(s)]
          /\ j - Len(s) \in DOMAIN new /\ t[j] = new[j - Len(s)]
      BY <1>5, <2>3
    <3>4. i - Len(s) = j - Len(s)
      BY <1>7, <3>2, <3>3
    <3>5. i \in Int /\ j \in Int /\ Len(s) \in Int
      BY <1>5
    <3> QED BY <3>4, <3>5
  <2> QED BY <1>7, <2>1, <2>2, <2>3
<1> QED BY <1>6, <1>7 DEF Distinct

------------------------------------------------------------------------------
(* The saved runs. *)

StoreTyped == store \in Seq(Saved) /\ Len(store) <= MaxRuns

\* Saved runs keep their conversation, question and key; a new one has those of the
\* submission whose request is on its way.
Grown ==
    /\ \A i \in DOMAIN store : /\ i \in DOMAIN store'
                               /\ store'[i].chat = store[i].chat
                               /\ store'[i].question = store[i].question
                               /\ store'[i].key = store[i].key
    /\ \A i \in DOMAIN store' : i \notin DOMAIN store =>
          /\ busy /\ sub.stage = "stream"
          /\ store'[i].key = sub.key
          /\ store'[i].chat = sub.chat /\ store'[i].question = sub.question

LEMMA StoreUnchanged ==
  ASSUME StoreTyped, UNCHANGED store
  PROVE  StoreTyped' /\ Grown
  BY DEF StoreTyped, Grown

LEMMA StoreAdvances ==
  ASSUME StoreTyped, NEW id \in DOMAIN store, NEW r,
         r \in Saved, r.chat = store[id].chat, r.question = store[id].question,
         r.key = store[id].key,
         store' = [store EXCEPT ![id] = r]
  PROVE  StoreTyped' /\ Grown
<1>1. store' \in Seq(Saved) /\ Len(store') = Len(store) /\ DOMAIN store' = DOMAIN store
  BY DEF StoreTyped
<1>2. \A i \in DOMAIN store : /\ store'[i].chat = store[i].chat
                              /\ store'[i].question = store[i].question
                              /\ store'[i].key = store[i].key
  OBVIOUS
<1> QED BY <1>1, <1>2 DEF StoreTyped, Grown

LEMMA StoreAppends ==
  ASSUME TypeOK, SubOfChat, busy, sub.stage = "stream", Len(store) < MaxRuns,
         store' = Append(store, NewRun(sub))
  PROVE  StoreTyped' /\ Grown
<1>1. sub.chat \in Conversations /\ sub.key \in Nat /\ sub.question \in Questions
  BY DEF TypeOK, SubOfChat, busy, Submission
<1>2. /\ NewRun(sub) \in Saved /\ NewRun(sub).key = sub.key
      /\ NewRun(sub).chat = sub.chat /\ NewRun(sub).question = sub.question
  BY <1>1 DEF NewRun, Saved
<1>3. store \in Seq(Saved) /\ Len(store) \in Nat /\ DOMAIN store = 1 .. Len(store)
  BY DEF TypeOK
<1>4. /\ store' \in Seq(Saved) /\ Len(store') = Len(store) + 1
      /\ DOMAIN store' = 1 .. Len(store) + 1
      /\ \A i \in DOMAIN store : store'[i] = store[i]
      /\ store'[Len(store) + 1] = NewRun(sub)
  BY <1>2, <1>3
<1>5. StoreTyped'
  BY <1>3, <1>4, BoundsAssumption DEF StoreTyped
<1>6. \A i \in DOMAIN store' : i \notin DOMAIN store => i = Len(store) + 1
  BY <1>3, <1>4
<1> QED BY <1>2, <1>3, <1>4, <1>5, <1>6 DEF Grown

LEMMA SavedEnds ==
  ASSUME NEW x \in Saved, NEW y,
         y = [x EXCEPT !.revision = @ + 1, !.active = FALSE]
  PROVE  y \in Saved /\ y.chat = x.chat /\ y.question = x.question /\ y.key = x.key
<1>1. PICK n \in Nat : n = x.revision + 1
  BY DEF Saved
<1>2. y = [x EXCEPT !.revision = n, !.active = FALSE]
  BY <1>1, Zenon
<1>3. PICK b : b = FALSE
  OBVIOUS
<1>4. y = [x EXCEPT !.revision = n, !.active = b]
  BY <1>2, <1>3, Zenon
<1>5. y \in Saved
  BY <1>1, <1>3, <1>4 DEF Saved
<1>6. y.chat = x.chat /\ y.question = x.question /\ y.key = x.key
  BY <1>1, <1>3, <1>4 DEF Saved
<1> QED BY <1>5, <1>6

\* A run goes on or ends.
LEMMA RunAdvances ==
  ASSUME StoreTyped, NEW id \in DOMAIN store,
         \/ store' = [store EXCEPT ![id].revision = @ + 1]
         \/ store' = [store EXCEPT ![id].revision = @ + 1, ![id].active = FALSE]
  PROVE  StoreTyped' /\ Grown
<1>1. store[id] \in Saved
  BY DEF StoreTyped
<1>2. CASE store' = [store EXCEPT ![id].revision = @ + 1]
  <2> DEFINE r == [store[id] EXCEPT !.revision = @ + 1]
  <2>1. /\ r \in Saved /\ r.chat = store[id].chat
        /\ r.question = store[id].question /\ r.key = store[id].key
    BY <1>1 DEF Saved
  <2>2. store' = [store EXCEPT ![id] = r]
    BY <1>2
  <2> QED BY <2>1, <2>2, StoreAdvances
<1>3. CASE store' = [store EXCEPT ![id].revision = @ + 1, ![id].active = FALSE]
  <2> DEFINE r == [store[id] EXCEPT !.revision = @ + 1, !.active = FALSE]
  <2>1. /\ r \in Saved /\ r.chat = store[id].chat
        /\ r.question = store[id].question /\ r.key = store[id].key
    BY <1>1, SavedEnds
  <2>2. store' = [store EXCEPT ![id] = r]
    BY <1>3
  <2> QED BY <2>1, <2>2, StoreAdvances
<1> QED BY <1>2, <1>3

\* What one step does to the saved runs: one of those that are active goes on or
\* ends, or the request that is on its way opens one under a key that has none.
RunOpens ==
    /\ busy /\ sub.stage = "stream"
    /\ Existing(sub.key) = {} /\ Len(store) < MaxRuns
    /\ store' = Append(store, NewRun(sub))

RunMoves(id) ==
    /\ store[id].active
    /\ \/ store' = [store EXCEPT ![id].revision = @ + 1]
       \/ store' = [store EXCEPT ![id].revision = @ + 1, ![id].active = FALSE]

OneRunChanges == UNCHANGED store \/ RunOpens \/ \E id \in DOMAIN store : RunMoves(id)

LEMMA StoreChange ==
  ASSUME TypeOK, SubOfChat, StopsSaved, [Next]_vars
  PROVE  OneRunChanges
<1> USE DEF server, display, attempt
<1>1. busy /\ Release => UNCHANGED store \/ RunOpens
  BY DEF Release, RunOpens
<1>2. ASSUME NEW id \in DOMAIN store, Advance(id)
      PROVE  OneRunChanges
  BY <1>2 DEF Advance, RunMoves, OneRunChanges
<1>3. ASSUME NEW s \in stops, ServeStop(s)
      PROVE  OneRunChanges
  <2>1. s.run \in DOMAIN store
    BY DEF StopsSaved
  <2> QED BY <1>3, <2>1 DEF ServeStop, RunMoves, OneRunChanges
<1>4. CASE Admit
  BY <1>4 DEF Admit, RunOpens, OneRunChanges
<1>5. CASE Created \/ Uploaded \/ Resolved \/ ReadFrame \/ LoseStream \/ SavedAnswer
  <2>1. busy /\ (UNCHANGED store \/ Release)
    BY <1>5 DEF Created, Uploaded, Resolved, ReadFrame, LoseStream, SavedAnswer, Fail
  <2> QED BY <1>1, <2>1 DEF OneRunChanges
<1>6. CASE Stop \/ \E s \in stops : StopAnswer(s)
  <2>1. UNCHANGED store \/ (busy /\ Release)
    BY <1>6 DEF Stop, StopAnswer, Abort
  <2> QED BY <1>1, <2>1 DEF OneRunChanges
<1>7. CASE \/ Emit \/ ServePoll \/ ServeLoad \/ ServeSaved
           \/ LoadAnswer \/ Poll \/ PollSucceeds \/ PollFails
           \/ RequestChat \/ LoadEarlierTurns
           \/ \E c \in existing \cup {None} : ChooseConversation(c)
           \/ \E q \in Questions, files, auto \in BOOLEAN : Send(q, files, auto)
           \/ UNCHANGED vars
  <2>1. UNCHANGED store
    BY <1>7 DEF Emit, ServePoll, ServeLoad, ServeSaved, LoadAnswer, Poll, PollSucceeds,
                PollFails, RequestChat, LoadEarlierTurns, ChooseConversation, Open, Send, vars
  <2> QED BY <2>1 DEF OneRunChanges
<1> QED BY <1>2, <1>3, <1>4, <1>5, <1>6, <1>7 DEF Next, Server, Answers, User

LEMMA StoreStep ==
  ASSUME TypeOK, SubOfChat, StopsSaved, [Next]_vars
  PROVE  StoreTyped' /\ Grown
<1>1. StoreTyped
  BY DEF TypeOK, StoreTyped
<1>2. CASE UNCHANGED store
  BY <1>1, <1>2, StoreUnchanged
<1>3. CASE RunOpens
  BY <1>3, StoreAppends DEF RunOpens
<1>4. CASE \E id \in DOMAIN store : RunMoves(id)
  BY <1>1, <1>4, RunAdvances DEF RunMoves
<1> QED BY <1>2, <1>3, <1>4, StoreChange DEF OneRunChanges

------------------------------------------------------------------------------
(* The runs on display. *)

\* Reads that may be shown: of saved runs, active ones of the open conversation.
Informed(reads) ==
    \A r \in reads : r \in Read /\ r.id \in DOMAIN store
                       /\ (r.active => store[r.id].chat = chatId)

\* What a step does to the runs on display: a conversation that is created for the
\* submission takes over those of the new chat, which has none that is active.
RunsKept == UNCHANGED <<runs, more>> /\ (chatId' = chatId \/ chatId = None)

RunsUpdated ==
    /\ \E reads : Informed(reads) /\ runs' \in Upserted(runs, reads)
    /\ UNCHANGED <<chatId, more>>

RunsLeft == runs' = <<>> /\ more' = FALSE /\ (load' # None => load'.kind = "open")

PageShown ==
    /\ load # None /\ load.answer # None /\ load' = None
    /\ chatId' = chatId
    /\ more' = (Cardinality(load.answer) = PageSize)

TurnsOpened == PageShown /\ load.kind = "open" /\ runs' \in InOrder(load.answer)

TurnsAdded ==
    /\ PageShown /\ load.kind = "earlier"
    /\ \E new \in InOrder(Unshown(runs, load.answer)) : runs' = new \o runs

LEMMA RunsStep ==
  ASSUME IInv, [Next]_vars
  PROVE  RunsKept \/ RunsUpdated \/ RunsLeft \/ TurnsOpened \/ TurnsAdded
<1> USE DEF server, display, attempt
<1>1. CASE \/ \E id \in DOMAIN store : Advance(id)
           \/ \E s \in stops : ServeStop(s)
           \/ Admit \/ Emit \/ ServePoll \/ ServeLoad \/ ServeSaved
           \/ Uploaded \/ Resolved \/ LoseStream \/ Poll \/ PollFails \/ LoadEarlierTurns \/ Stop
           \/ \E q \in Questions, files, auto \in BOOLEAN : Send(q, files, auto)
           \/ UNCHANGED vars
  BY <1>1 DEF Advance, ServeStop, Admit, Emit, ServePoll, ServeLoad, ServeSaved, Uploaded,
              Resolved, LoseStream, Poll, PollFails, LoadEarlierTurns, Stop, Send, vars, RunsKept
<1>2. CASE Created
  BY <1>2 DEF Created, IInv, SubOfChat, RunsKept
<1>3. CASE ReadFrame
  <2>1. CASE pipe.type \in {"progress", "complete"}
    <3>1. pipe.run \in Read /\ pipe.run.id = sub.run
      BY <1>3, <2>1 DEF ReadFrame, IInv, TypeOK, PipeOfSub, Frame
    <3>2. sub.run \in DOMAIN store /\ store[sub.run].chat = chatId
      BY <1>3, <2>1 DEF ReadFrame, IInv, PipeOfSub, SubOfChat
    <3>3. Informed({pipe.run})
      BY <3>1, <3>2 DEF Informed
    <3> QED BY <1>3, <2>1, <3>3 DEF ReadFrame, RunsUpdated
  <2>2. CASE pipe.type \notin {"progress", "complete"}
    BY <1>3, <2>2 DEF ReadFrame, RunsKept
  <2> QED BY <2>1, <2>2
<1>4. CASE SavedAnswer
  <2>1. sub.read \in Read /\ sub.read.id = current
    BY <1>4 DEF SavedAnswer, IInv, TypeOK, SubOfChat, Submission, busy
  <2>2. current \in DOMAIN store /\ store[current].chat = chatId
    BY <1>4 DEF SavedAnswer, IInv, SubOfChat
  <2>3. Informed({sub.read})
    BY <2>1, <2>2 DEF Informed
  <2> QED BY <1>4, <2>3 DEF SavedAnswer, RunsUpdated, RunsKept
<1>5. ASSUME NEW s \in stops, StopAnswer(s)
      PROVE  RunsKept \/ RunsUpdated
  <2>1. s.answer \in Read /\ s.answer.id \in DOMAIN store /\ s.answer.active = FALSE
    BY <1>5 DEF StopAnswer, IInv, StopsSaved
  <2>2. Informed({s.answer})
    BY <2>1 DEF Informed
  <2> QED BY <1>5, <2>2 DEF StopAnswer, RunsUpdated, RunsKept
<1>6. CASE PollSucceeds
  <2>1. \A r \in poll.answer : r \in Read /\ \E q \in Range(runs) : q.active /\ q.id = r.id
    BY <1>6 DEF PollSucceeds, IInv, PollOfShown, ActiveIds
  <2>2. Informed(poll.answer)
    BY <2>1 DEF Informed, IInv, RunsShown, ActiveRunsOfConversation, Range
  <2> QED BY <1>6, <2>2 DEF PollSucceeds, RunsUpdated
<1>7. CASE LoadAnswer
  BY <1>7 DEF LoadAnswer, RunsKept, PageShown, TurnsOpened, TurnsAdded
<1>8. CASE RequestChat \/ \E c \in existing \cup {None} : ChooseConversation(c)
  BY <1>8 DEF RequestChat, ChooseConversation, Open, RunsLeft
<1> QED BY <1>1, <1>2, <1>3, <1>4, <1>5, <1>6, <1>7, <1>8 DEF Next, Server, Answers, User

LEMMA UpdatedRuns ==
  ASSUME IInv, RunsUpdated
  PROVE  \E reads : Informed(reads) /\ Updated(runs, runs', reads) /\ Distinct(runs)'
<1>1. PICK reads : Informed(reads) /\ runs' \in Upserted(runs, reads)
  BY DEF RunsUpdated
<1>2. runs \in Seq(Read) /\ Distinct(runs) /\ reads \subseteq Read
  BY <1>1 DEF IInv, TypeOK, RunsShown, Distinct, Informed
<1>3. Updated(runs, runs', reads) /\ Distinct(runs')
  BY <1>1, <1>2, UpsertedUpdates
<1> QED BY <1>1, <1>3 DEF Distinct

\* The turns that opening a conversation shows are its own.
LEMMA OpenedRuns ==
  ASSUME IInv, TurnsOpened
  PROVE  /\ runs' \in Seq(Read)
         /\ Distinct(runs)'
         /\ \A i \in DOMAIN runs' : /\ runs'[i].id \in DOMAIN store
                                    /\ store[runs'[i].id].chat = chatId
         /\ more' \in BOOLEAN
         /\ more' => runs' # <<>>
<1>1. \A r \in load.answer : r \in Read /\ r.id \in DOMAIN store /\ store[r.id].chat = chatId
  BY DEF IInv, LoadOfChat, Turn, TurnsOpened, PageShown
<1>2. load.answer \subseteq Read /\ runs' \in InOrder(load.answer)
  BY <1>1 DEF TurnsOpened
<1>3. /\ runs' \in Seq(load.answer) /\ DOMAIN runs' = 1 .. Len(runs')
      /\ \A i \in DOMAIN runs' : runs'[i] \in load.answer
      /\ \A r \in load.answer : \E i \in DOMAIN runs' : runs'[i] = r
  BY <1>2, InOrderRuns
<1>4. runs' \in Seq(Read)
  BY <1>1, <1>3
<1>5. Distinct(runs)'
  BY <1>2, InOrderDistinct DEF Distinct
<1>6. ASSUME runs' = <<>>
      PROVE  more' = FALSE
  <2>1. load.answer = {}
    BY <1>3, <1>6
  <2> QED BY <2>1, FS_EmptySet, PageSizeAssumption DEF TurnsOpened, PageShown
<1>7. more' \in BOOLEAN
  BY DEF TurnsOpened, PageShown
<1> QED BY <1>1, <1>3, <1>4, <1>5, <1>6, <1>7

\* Earlier turns of the open conversation precede those on display.
LEMMA AddedRuns ==
  ASSUME IInv, TurnsAdded
  PROVE  /\ runs' \in Seq(Read)
         /\ Distinct(runs)'
         /\ \A i \in DOMAIN runs' :
              \/ runs'[i].id \in DOMAIN store /\ store[runs'[i].id].chat = chatId
              \/ \E j \in DOMAIN runs : runs'[i] = runs[j]
         /\ runs' # <<>> /\ store[runs'[1].id].chat = chatId
         /\ more' \in BOOLEAN
<1>1. PICK new \in InOrder(Unshown(runs, load.answer)) : runs' = new \o runs
  BY DEF TurnsAdded
<1>2. \A r \in load.answer : r \in Read /\ r.id \in DOMAIN store /\ store[r.id].chat = chatId
  BY DEF IInv, LoadOfChat, Turn, TurnsAdded, PageShown
<1>3. /\ Unshown(runs, load.answer) \subseteq Read
      /\ \A r \in Unshown(runs, load.answer) : r \in load.answer /\ ~Shows(runs, r.id)
  BY <1>2 DEF Unshown
<1>4. /\ new \in Seq(Read)
      /\ \A i \in DOMAIN new : new[i] \in load.answer /\ ~Shows(runs, new[i].id)
  BY <1>3, InOrderRuns
<1>5. runs \in Seq(Read) /\ Distinct(runs)
  BY DEF IInv, TypeOK, RunsShown, Distinct
<1>6. /\ runs' \in Seq(Read) /\ Len(runs') = Len(new) + Len(runs)
      /\ DOMAIN runs' = 1 .. Len(runs') /\ DOMAIN new = 1 .. Len(new)
      /\ \A i \in DOMAIN new : i \in DOMAIN runs' /\ runs'[i] = new[i]
      /\ \A i \in DOMAIN runs' : i \notin DOMAIN new =>
            i - Len(new) \in DOMAIN runs /\ runs'[i] = runs[i - Len(new)]
  BY <1>1, <1>4, <1>5, Concatenation
<1>7. more /\ runs # <<>> /\ store[runs[1].id].chat = chatId
  BY DEF IInv, LoadOfChat, RunsShown, TurnsAdded, PageShown
<1>8. \A i \in DOMAIN runs' :
        \/ runs'[i].id \in DOMAIN store /\ store[runs'[i].id].chat = chatId
        \/ \E j \in DOMAIN runs : runs'[i] = runs[j]
  BY <1>2, <1>4, <1>6
<1>9. runs' # <<>> /\ store[runs'[1].id].chat = chatId
  <2>1. Len(runs) \in Nat /\ Len(runs) > 0 /\ Len(new) \in Nat
    BY <1>4, <1>5, <1>7
  <2>2. 1 \in DOMAIN runs' /\ runs' # <<>>
    BY <1>6, <2>1
  <2>3. CASE 1 \in DOMAIN new
    BY <1>2, <1>4, <1>6, <2>2, <2>3
  <2>4. CASE 1 \notin DOMAIN new
    <3>1. Len(new) = 0
      BY <1>6, <2>1, <2>4
    <3> QED BY <1>6, <1>7, <2>2, <2>4, <3>1
  <2> QED BY <2>2, <2>3, <2>4
<1>10. ASSUME NEW i \in DOMAIN runs', NEW j \in DOMAIN runs', runs'[i].id = runs'[j].id
       PROVE  i = j
  <2>1. CASE i \in DOMAIN new /\ j \in DOMAIN new
    <3>1. \A k, l \in DOMAIN new : new[k].id = new[l].id => k = l
      BY <1>3, InOrderDistinct
    <3> QED BY <1>6, <1>10, <2>1, <3>1
  <2>2. CASE i \notin DOMAIN new /\ j \notin DOMAIN new
    <3>1. /\ i - Len(new) \in DOMAIN runs /\ runs'[i] = runs[i - Len(new)]
          /\ j - Len(new) \in DOMAIN runs /\ runs'[j] = runs[j - Len(new)]
      BY <1>6, <2>2
    <3>2. i - Len(new) = j - Len(new)
      BY <1>5, <1>10, <3>1 DEF Distinct
    <3>3. i \in Int /\ j \in Int /\ Len(new) \in Int
      BY <1>4, <1>6
    <3> QED BY <3>2, <3>3
  <2>3. ASSUME NEW k \in DOMAIN runs', k \in DOMAIN new, NEW l \in DOMAIN runs', l \notin DOMAIN new,
               runs'[k].id = runs'[l].id
        PROVE  FALSE
    <3>1. new[k].id = runs[l - Len(new)].id /\ l - Len(new) \in DOMAIN runs
      BY <1>6, <2>3
    <3> QED BY <1>4, <2>3, <3>1 DEF Shows, Range
  <2> QED BY <1>10, <2>1, <2>2, <2>3
<1>11. Distinct(runs)'
  BY <1>10 DEF Distinct
<1>12. more' \in BOOLEAN
  BY DEF TurnsAdded, PageShown
<1> QED BY <1>6, <1>8, <1>9, <1>11, <1>12

LEMMA RunsShownStep ==
  ASSUME IInv, [Next]_vars, Grown
  PROVE  /\ runs' \in Seq(Read) /\ more' \in BOOLEAN
         /\ RunsShown' /\ ActiveRunsOfConversation'
<1>1. /\ runs \in Seq(Read) /\ more \in BOOLEAN
      /\ \A i \in DOMAIN runs : runs[i].id \in DOMAIN store
      /\ Distinct(runs)
      /\ \A i \in DOMAIN runs : runs[i].active => store[runs[i].id].chat = chatId
      /\ more => runs # <<>> /\ store[runs[1].id].chat = chatId
  BY DEF IInv, TypeOK, RunsShown, ActiveRunsOfConversation, Distinct, Range
<1>2. \A id \in DOMAIN store : /\ id \in DOMAIN store'
                               /\ store'[id].chat = store[id].chat
                               /\ store[id].chat # None
  <2>1. \A id \in DOMAIN store : store[id] \in Saved
    BY DEF IInv, TypeOK
  <2>2. \A id \in DOMAIN store : store[id].chat \in Conversations
    BY <2>1 DEF Saved
  <2> QED BY <2>2, NoneAssumption DEF Grown
\* It is enough that the runs on display are saved ones with the right conversation.
<1>3. ASSUME runs' \in Seq(Read), more' \in BOOLEAN, Distinct(runs)',
             \A i \in DOMAIN runs' : /\ runs'[i].id \in DOMAIN store
                                     /\ runs'[i].active => store[runs'[i].id].chat = chatId',
             more' => runs' # <<>> /\ runs'[1].id \in DOMAIN store
                        /\ store[runs'[1].id].chat = chatId'
      PROVE  /\ runs' \in Seq(Read) /\ more' \in BOOLEAN
             /\ RunsShown' /\ ActiveRunsOfConversation'
  <2>1. RunsShown'
    BY <1>2, <1>3 DEF RunsShown, Distinct
  <2>2. ActiveRunsOfConversation'
    BY <1>2, <1>3 DEF ActiveRunsOfConversation, Range
  <2> QED BY <1>3, <2>1, <2>2
<1>4. CASE RunsKept
  <2>1. \A i \in DOMAIN runs : runs[i].active => store[runs[i].id].chat = chatId'
    BY <1>1, <1>2, <1>4 DEF RunsKept
  <2>2. more => chatId' = chatId /\ runs[1].id \in DOMAIN store
    <3>1. more => 1 \in DOMAIN runs
      BY <1>1
    <3> QED BY <1>1, <1>2, <1>4, <3>1 DEF RunsKept
  <2>3. runs' = runs /\ more' = more /\ Distinct(runs)'
    BY <1>1, <1>4 DEF RunsKept, Distinct
  <2> QED BY <1>1, <1>3, <2>1, <2>2, <2>3
<1>5. CASE RunsUpdated
  <2>1. PICK reads : Informed(reads) /\ Updated(runs, runs', reads) /\ Distinct(runs)'
    BY <1>5, UpdatedRuns
  <2>2. chatId' = chatId /\ more' = more
    BY <1>5 DEF RunsUpdated
  <2>3. runs' \in Seq(Read) /\ Len(runs) <= Len(runs')
    BY <2>1 DEF Updated
  <2>4. \A i \in DOMAIN runs' : (i \in DOMAIN runs /\ runs'[i] = runs[i]) \/ runs'[i] \in reads
    BY <2>1 DEF Updated
  <2>5. \A i \in DOMAIN runs' : /\ runs'[i].id \in DOMAIN store
                                /\ runs'[i].active => store[runs'[i].id].chat = chatId
    BY <1>1, <2>1, <2>4 DEF Informed
  <2>6. more => runs' # <<>> /\ runs'[1].id = runs[1].id /\ 1 \in DOMAIN runs
    <3>1. more => 1 \in DOMAIN runs /\ Len(runs) > 0
      BY <1>1
    <3> QED BY <2>1, <2>3, <3>1 DEF Updated
  <2> QED BY <1>1, <1>3, <2>1, <2>2, <2>3, <2>5, <2>6
<1>6. CASE RunsLeft
  <2>1. runs' = <<>> /\ more' = FALSE
    BY <1>6 DEF RunsLeft
  <2>2. more' \in BOOLEAN
    BY <2>1
  <2> QED BY <1>3, <2>1, <2>2 DEF Distinct
<1>7. CASE TurnsOpened
  <2>1. chatId' = chatId
    BY <1>7 DEF TurnsOpened, PageShown
  <2>2. /\ runs' \in Seq(Read) /\ Distinct(runs)'
        /\ \A i \in DOMAIN runs' : /\ runs'[i].id \in DOMAIN store
                                   /\ store[runs'[i].id].chat = chatId
        /\ more' \in BOOLEAN
        /\ more' => runs' # <<>>
    BY <1>7, OpenedRuns
  <2>3. more' => 1 \in DOMAIN runs'
    BY <2>2
  <2> QED BY <1>3, <2>1, <2>2, <2>3
<1>8. CASE TurnsAdded
  <2>1. chatId' = chatId
    BY <1>8 DEF TurnsAdded, PageShown
  <2>2. /\ runs' \in Seq(Read) /\ Distinct(runs)'
        /\ \A i \in DOMAIN runs' :
              \/ runs'[i].id \in DOMAIN store /\ store[runs'[i].id].chat = chatId
              \/ \E j \in DOMAIN runs : runs'[i] = runs[j]
        /\ runs' # <<>> /\ store[runs'[1].id].chat = chatId
        /\ more' \in BOOLEAN
    BY <1>8, AddedRuns
  <2>3. 1 \in DOMAIN runs'
    BY <2>2
  <2>4. \A i \in DOMAIN runs' : /\ runs'[i].id \in DOMAIN store
                                /\ runs'[i].active => store[runs'[i].id].chat = chatId
    BY <1>1, <2>2
  <2> QED BY <1>3, <2>1, <2>2, <2>3, <2>4
<1> QED BY <1>4, <1>5, <1>6, <1>7, <1>8, RunsStep

------------------------------------------------------------------------------
(* Requests in flight. *)

LEMMA SendsStep ==
  ASSUME IInv, [Next]_vars
  PROVE  sends' \in 0 .. MaxSends /\ sends <= sends'
<1>1. sends \in 0 .. MaxSends /\ MaxSends \in Nat
  BY BoundsAssumption DEF IInv, TypeOK
<1>2. CASE \E q \in Questions, files, auto \in BOOLEAN : Send(q, files, auto)
  BY <1>1, <1>2 DEF Send
<1>3. CASE UNCHANGED sends
  BY <1>1, <1>3
<1>4. [Next]_vars => \/ UNCHANGED sends
                     \/ \E q \in Questions, files, auto \in BOOLEAN : Send(q, files, auto)
  BY DEF Next, Server, Answers, User, vars, Advance, Admit, Emit, ServeStop, ServePoll, ServeLoad,
         ServeSaved, Created, Uploaded, Resolved, ReadFrame, LoseStream, SavedAnswer, StopAnswer,
         LoadAnswer, Poll, PollSucceeds, PollFails, Stop, ChooseConversation, RequestChat, Open,
         LoadEarlierTurns
<1> QED BY <1>2, <1>3, <1>4

LEMMA KeysGivenStep ==
  ASSUME IInv, Grown, StoreTyped', sends' \in Nat, sends <= sends'
  PROVE  KeysGiven'
<1>1. SUFFICES ASSUME NEW i \in DOMAIN store'
               PROVE  store'[i].key <= sends'
  BY DEF KeysGiven
<1>2. sends \in Nat
  BY DEF IInv, TypeOK
<1>3. CASE i \in DOMAIN store
  <2>1. store[i] \in Saved /\ store'[i].key = store[i].key /\ store[i].key <= sends
    BY <1>3 DEF IInv, TypeOK, Grown, KeysGiven
  <2>2. store[i].key \in Nat
    BY <2>1 DEF Saved
  <2> QED BY <1>2, <2>1, <2>2
<1>4. CASE i \notin DOMAIN store
  <2>1. busy /\ store'[i].key = sub.key
    BY <1>4 DEF Grown
  <2>2. sub.key \in Nat /\ sub.key <= sends
    BY <2>1 DEF IInv, TypeOK, SubOfChat, busy, Submission
  <2> QED BY <1>2, <2>1, <2>2
<1> QED BY <1>3, <1>4

LEMMA SnapshotRead ==
  ASSUME TypeOK, NEW id \in DOMAIN store
  PROVE  Snapshot(id) \in Read /\ Snapshot(id).id = id
<1>1. store[id] \in Saved /\ id \in Ids
  BY BoundsAssumption DEF TypeOK, Ids
<1>2. store[id].revision \in Nat /\ store[id].active \in BOOLEAN
  BY <1>1 DEF Saved
<1> QED BY <1>1, <1>2 DEF Snapshot, Read

\* A stop that is requested names a run on display or that of the submission; served, it
\* has ended.
LEMMA StopsStep ==
  ASSUME IInv, [Next]_vars, Grown, StoreTyped'
  PROVE  StopsSaved'
<1> USE DEF server, display, attempt
<1>1. ASSUME \A s \in stops' : s \in stops
      PROVE  StopsSaved'
  BY <1>1 DEF IInv, StopsSaved, Grown
<1>2. CASE Stop
  <2>1. PICK target : /\ target \in IF busy THEN {current} ELSE FirstActive
                      /\ \/ UNCHANGED stops
                         \/ /\ target # None
                            /\ stops' = stops \cup {[run |-> target, answer |-> None]}
    BY <1>2 DEF Stop
  <2>2. target # None => target \in DOMAIN store
    <3>1. CASE busy
      BY <2>1, <3>1 DEF IInv, SubOfChat
    <3>2. CASE ~busy
      BY <2>1, <3>2 DEF FirstActive, IInv, RunsShown
    <3> QED BY <3>1, <3>2
  <2>3. target # None => target \in Ids
    BY <2>2, BoundsAssumption DEF IInv, TypeOK, Ids
  <2>4. target # None =>
          [run |-> target, answer |-> None] \in [run : Ids, answer : Read \cup {None}]
    BY <2>3
  <2> QED BY <2>1, <2>2, <2>4, <1>1 DEF IInv, StopsSaved, Grown
<1>3. ASSUME NEW s \in stops, ServeStop(s)
      PROVE  StopsSaved'
  <2> DEFINE a == [id |-> s.run, revision |-> store'[s.run].revision, active |-> FALSE]
  <2>1. s \in [run : Ids, answer : Read \cup {None}] /\ s.run \in DOMAIN store
    BY DEF IInv, StopsSaved
  <2>2. store'[s.run] \in Saved
    BY <2>1 DEF StoreTyped, Grown
  <2>3. store'[s.run].revision \in Nat
    BY <2>2 DEF Saved
  <2>4. a \in Read /\ a.id = s.run /\ a.active = FALSE
    BY <2>1, <2>3 DEF Read
  <2>5. stops' = (stops \ {s}) \cup {[s EXCEPT !.answer = a]}
    BY <1>3 DEF ServeStop
  <2> HIDE DEF a
  <2>6. /\ [s EXCEPT !.answer = a] \in [run : Ids, answer : Read \cup {None}]
        /\ [s EXCEPT !.answer = a].run = s.run /\ [s EXCEPT !.answer = a].answer = a
    BY <2>1, <2>4
  <2> QED BY <2>1, <2>4, <2>5, <2>6 DEF IInv, StopsSaved, Grown
<1>4. CASE \E s \in stops : StopAnswer(s)
  BY <1>1, <1>4 DEF StopAnswer
<1>5. CASE \/ \E id \in DOMAIN store : Advance(id)
           \/ Admit \/ Emit \/ ServePoll \/ ServeLoad \/ ServeSaved
           \/ Created \/ Uploaded \/ Resolved \/ ReadFrame \/ LoseStream \/ SavedAnswer
           \/ LoadAnswer \/ Poll \/ PollSucceeds \/ PollFails
           \/ RequestChat \/ LoadEarlierTurns
           \/ \E c \in existing \cup {None} : ChooseConversation(c)
           \/ \E q \in Questions, files, auto \in BOOLEAN : Send(q, files, auto)
           \/ UNCHANGED vars
  <2>1. UNCHANGED stops
    BY <1>5 DEF Advance, Admit, Emit, ServePoll, ServeLoad, ServeSaved, Created, Uploaded,
                Resolved, ReadFrame, LoseStream, SavedAnswer, LoadAnswer, Poll, PollSucceeds,
                PollFails, RequestChat, ChooseConversation, Open, LoadEarlierTurns, Send, vars
  <2> QED BY <1>1, <2>1
<1> QED BY <1>2, <1>3, <1>4, <1>5 DEF Next, Server, Answers, User

\* A poll survives only steps that leave the active runs, and a page that is not busy.
LEMMA PollStep ==
  ASSUME IInv, [Next]_vars
  PROVE  PollOfShown'
<1> USE DEF server, display, attempt
<1>1. CASE poll' = None
  BY <1>1 DEF PollOfShown
<1>2. ASSUME poll' = poll, (sub' = None) <=> (sub = None), ActiveIds(runs') = ActiveIds(runs)
      PROVE  PollOfShown'
  <2>1. poll # None => /\ sub' = None
                       /\ poll.ids = ActiveIds(runs')
                       /\ poll.answer # None =>
                             \A r \in poll.answer : r \in Read /\ r.id \in poll.ids
    BY <1>2 DEF IInv, PollOfShown, busy
  <2>2. ActiveIds(runs)' = ActiveIds(runs')
    BY DEF ActiveIds
  <2> QED BY <1>2, <2>1, <2>2 DEF PollOfShown, busy
<1>3. CASE Repoll
  BY <1>1, <1>2, <1>3 DEF Repoll
<1>4. CASE PollSucceeds \/ PollFails
  BY <1>1, <1>4 DEF PollSucceeds, PollFails
<1>5. CASE Poll
  <2>1. /\ sub' = None /\ runs' = runs
        /\ poll'.ids = ActiveIds(runs) /\ poll'.answer = None
    BY <1>5 DEF Poll, busy
  <2> QED BY <2>1 DEF PollOfShown, busy, ActiveIds
<1>6. CASE ServePoll
  <2> DEFINE a == {Snapshot(id) : id \in poll.ids}
  <2>1. \A id \in poll.ids : id \in DOMAIN store
    BY <1>6 DEF ServePoll, IInv, PollOfShown, ActiveIds, RunsShown, Range
  <2>2. \A r \in a : r \in Read /\ r.id \in poll.ids
    BY <2>1, SnapshotRead DEF IInv
  <2>3. poll' = [poll EXCEPT !.answer = a]
    BY <1>6 DEF ServePoll
  <2> HIDE DEF a
  <2>4. poll'.ids = poll.ids /\ (poll'.answer # None => poll'.answer = a)
    BY <2>3
  <2>5. sub' = None /\ runs' = runs /\ poll.ids = ActiveIds(runs)
    BY <1>6 DEF ServePoll, IInv, PollOfShown, busy
  <2> QED BY <2>2, <2>4, <2>5 DEF PollOfShown, busy, ActiveIds
<1>7. CASE Admit \/ Emit \/ ServeSaved
  <2>1. poll = None /\ poll' = poll
    BY <1>7 DEF Admit, Emit, ServeSaved, IInv, PollOfShown
  <2> QED BY <1>1, <2>1
<1>8. CASE \/ \E id \in DOMAIN store : Advance(id)
           \/ \E s \in stops : ServeStop(s)
           \/ ServeLoad \/ LoadEarlierTurns \/ UNCHANGED vars
  <2>1. UNCHANGED <<poll, sub, runs>>
    BY <1>8 DEF Advance, ServeStop, ServeLoad, LoadEarlierTurns, vars
  <2> QED BY <1>2, <2>1
<1>9. CASE \/ Created \/ Uploaded \/ Resolved \/ ReadFrame \/ LoseStream \/ SavedAnswer
           \/ \E s \in stops : StopAnswer(s)
           \/ LoadAnswer \/ Stop \/ RequestChat
           \/ \E c \in existing \cup {None} : ChooseConversation(c)
           \/ \E q \in Questions, files, auto \in BOOLEAN : Send(q, files, auto)
  <2>1. Repoll
    BY <1>9, Zenon DEF Created, Uploaded, Resolved, ReadFrame, LoseStream, SavedAnswer, StopAnswer,
                LoadAnswer, Stop, RequestChat, ChooseConversation, Open, Send
  <2> QED BY <1>3, <2>1
<1> QED BY <1>4, <1>5, <1>6, <1>7, <1>8, <1>9 DEF Next, Server, Answers, User

LEMMA PageOfTurns ==
  ASSUME TypeOK, load # None, load.before \in Nat
  PROVE  LET page == Page(load.chat, load.before)
         IN  (\A r \in page : Turn(r)) /\ NoGap(page)
<1> DEFINE turns == Turns(load.chat, load.before)
           From(i) == {j \in turns : j >= i}
           page == Page(load.chat, load.before)
<1>1. /\ turns \subseteq DOMAIN store
      /\ DOMAIN store = 1 .. Len(store) /\ Len(store) \in Nat
  BY DEF Turns, TypeOK
<1>2. IsFiniteSet(turns)
  <2>1. IsFiniteSet(1 .. Len(store))
    BY <1>1, FS_Interval
  <2>2. turns \in SUBSET (1 .. Len(store))
    BY <1>1
  <2> QED BY <2>1, <2>2, FS_Subset
<1>3. \A r \in page : \E i \in turns : r = Snapshot(i) /\ Cardinality(From(i)) <= PageSize
  BY DEF Page
<1>4. \A i \in turns : Cardinality(From(i)) <= PageSize => Snapshot(i) \in page
  BY DEF Page
<1>5. \A i \in turns : Snapshot(i).id = i /\ Turn(Snapshot(i))
  <2>1. ASSUME NEW i \in turns
        PROVE  Snapshot(i).id = i /\ Turn(Snapshot(i))
    BY <1>1, <2>1, SnapshotRead DEF Turn, Turns
  <2> QED BY <2>1
<1>6. \A r \in page : Turn(r)
  BY <1>3, <1>5
<1>7. ASSUME NEW r \in page, NEW k \in DOMAIN store,
             store[k].chat = load.chat, r.id <= k, k < load.before
      PROVE  \E q \in page : q.id = k
  <2>1. PICK i \in turns : r = Snapshot(i) /\ Cardinality(From(i)) <= PageSize
    BY <1>3
  <2>2. k \in turns
    BY <1>7 DEF Turns
  <2> HIDE DEF turns
  <2>3. i \in Int /\ k \in Int /\ i <= k /\ (\A j \in turns : j \in Int)
    BY <1>1, <1>5, <1>7, <2>1, <2>2
  <2>4. From(k) \subseteq From(i) /\ From(i) \subseteq turns
    <3>1. \A j \in turns : j >= k => j >= i
      BY <2>3
    <3> HIDE DEF page
    <3> QED BY <3>1, Zenon
  <2> HIDE DEF From, page
  <2>5. IsFiniteSet(From(i)) /\ IsFiniteSet(From(k))
    BY <1>2, <2>4, FS_Subset
  <2>6. Cardinality(From(k)) <= Cardinality(From(i))
    BY <2>4, <2>5, FS_Subset
  <2>7. Cardinality(From(k)) \in Nat /\ Cardinality(From(i)) \in Nat
    BY <2>5, FS_CardinalityType
  <2>8. Cardinality(From(k)) <= PageSize
    BY <2>1, <2>6, <2>7, PageSizeAssumption
  <2> QED BY <1>4, <1>5, <2>2, <2>8
<1>8. NoGap(page)
  BY <1>7 DEF NoGap
<1> QED BY <1>6, <1>8

\* While a page of turns is loaded no run is created, and the cursor stays in its place.
LEMMA LoadStays ==
  ASSUME IInv, [Next]_vars, Grown, load # None, load' = load, chatId' = chatId, sub' = None
  PROVE  LoadOfChat'
<1>1. \A i \in DOMAIN store' : i \in DOMAIN store
  BY DEF Grown, IInv, LoadOfChat
<1>2. \A i \in DOMAIN store : i \in DOMAIN store' /\ store'[i].chat = store[i].chat
  BY DEF Grown
<1>3. load.kind = "earlier" => more' /\ load.before = runs'[1].id
  <2>1. load.kind = "earlier" => /\ more /\ load.before = runs[1].id
                                 /\ runs \in Seq(Read) /\ runs # <<>>
    BY DEF IInv, LoadOfChat, RunsShown, TypeOK
  <2>2. CASE RunsKept
    BY <2>1, <2>2 DEF RunsKept
  <2>3. CASE RunsUpdated
    <3>1. PICK reads : Updated(runs, runs', reads)
      BY <2>3, UpdatedRuns
    <3>2. load.kind = "earlier" => 1 \in DOMAIN runs
      BY <2>1
    <3> QED BY <2>1, <2>3, <3>1, <3>2 DEF Updated, RunsUpdated
  <2>4. CASE RunsLeft
    BY <2>4 DEF RunsLeft
  <2>5. CASE TurnsOpened \/ TurnsAdded
    BY <2>5 DEF TurnsOpened, TurnsAdded, PageShown
  <2> QED BY <2>2, <2>3, <2>4, <2>5, RunsStep
<1>4. load.answer # None => (\A r \in load.answer : Turn(r)') /\ NoGap(load.answer)'
  BY <1>1, <1>2 DEF IInv, LoadOfChat, Turn, NoGap
<1> QED BY <1>3, <1>4 DEF IInv, LoadOfChat, busy

LEMMA LoadStep ==
  ASSUME IInv, [Next]_vars, Grown
  PROVE  LoadOfChat'
<1> USE DEF server, display, attempt
<1>1. CASE load' = None
  BY <1>1 DEF LoadOfChat
<1>2. CASE load' = load /\ chatId' = chatId /\ sub' = None
  BY <1>1, <1>2, LoadStays
<1>3. ASSUME ~busy, NEW c \in existing \cup {None}, Open(c), UNCHANGED sub
      PROVE  LoadOfChat'
  <2>1. CASE c = None
    BY <1>1, <1>3, <2>1 DEF Open
  <2>2. CASE c # None
    BY <1>3, <2>2, BoundsAssumption DEF Open, LoadOfChat, busy
  <2> QED BY <2>1, <2>2
<1>4. CASE RequestChat \/ \E c \in existing \cup {None} : ChooseConversation(c)
  BY <1>3, <1>4 DEF RequestChat, ChooseConversation, Open
<1>5. CASE LoadEarlierTurns
  <2>1. /\ chatId' = chatId /\ chatId # None /\ sub' = None
        /\ runs' = runs /\ more' = more /\ more
        /\ load' = [kind |-> "earlier", chat |-> chatId, before |-> runs[1].id, answer |-> None]
    BY <1>5 DEF LoadEarlierTurns, busy
  <2>2. runs[1].id \in Nat
    <3>1. runs \in Seq(Read) /\ runs # <<>>
      BY <2>1 DEF IInv, TypeOK, RunsShown
    <3>2. runs[1] \in Read
      BY <3>1
    <3> QED BY <3>2, BoundsAssumption DEF Read, Ids
  <2> QED BY <2>1, <2>2 DEF LoadOfChat, busy
<1>6. CASE ServeLoad
  <2> DEFINE page == Page(load.chat, load.before)
  <2>1. load # None /\ load' = [load EXCEPT !.answer = page]
    BY <1>6 DEF ServeLoad
  <2>2. (\A r \in page : Turn(r)) /\ NoGap(page)
    BY <2>1, PageOfTurns DEF IInv, LoadOfChat
  <2> HIDE DEF page
  <2>3. /\ load'.kind = load.kind /\ load'.chat = load.chat /\ load'.before = load.before
        /\ load'.answer # None => load'.answer = page
    BY <2>1
  <2>4. store' = store /\ chatId' = chatId /\ runs' = runs /\ more' = more /\ sub' = None
    BY <1>6 DEF ServeLoad, IInv, LoadOfChat, busy
  <2>5. \A r \in page : Turn(r)'
    BY <2>2, <2>3, <2>4 DEF Turn
  <2>6. ASSUME load'.answer = page
        PROVE  NoGap(load.answer)'
    BY <2>2, <2>3, <2>4, <2>6 DEF NoGap
  <2>7. /\ chatId # None /\ load.chat = chatId /\ load.before \in Nat
        /\ load.kind \in {"open", "earlier"}
        /\ load.kind = "earlier" => more /\ load.before = runs[1].id
    BY <2>1 DEF IInv, LoadOfChat
  <2> QED BY <2>3, <2>4, <2>5, <2>6, <2>7 DEF LoadOfChat, busy
<1>7. CASE LoadAnswer \/ \E q \in Questions, files, auto \in BOOLEAN : Send(q, files, auto)
  BY <1>1, <1>7 DEF LoadAnswer, Send
<1>8. CASE \/ Admit \/ Emit \/ ServeSaved
           \/ Created \/ Uploaded \/ Resolved \/ ReadFrame \/ LoseStream \/ SavedAnswer
  <2>1. load = None /\ load' = load
    BY <1>8 DEF IInv, LoadOfChat, Admit, Emit, ServeSaved, Created, Uploaded, Resolved, ReadFrame,
                LoseStream, SavedAnswer
  <2> QED BY <1>1, <2>1
<1>9. CASE \/ \E id \in DOMAIN store : Advance(id)
           \/ ServePoll \/ Poll \/ PollSucceeds \/ PollFails
           \/ Stop \/ \E s \in stops : ServeStop(s) \/ StopAnswer(s)
           \/ UNCHANGED vars
  <2>1. load' = load /\ chatId' = chatId /\ (sub = None => sub' = None)
    BY <1>9 DEF Advance, ServePoll, Poll, PollSucceeds, PollFails, Stop, ServeStop, StopAnswer,
                Abort, Release, vars, busy
  <2> QED BY <1>1, <1>2, <2>1 DEF IInv, LoadOfChat, busy
<1> QED BY <1>4, <1>5, <1>6, <1>7, <1>8, <1>9 DEF Next, Server, Answers, User

------------------------------------------------------------------------------
(* The submission and the attempt in doubt. *)

AttemptTyped ==
    /\ existing \subseteq Conversations
    /\ chatId \in existing \cup {None}
    /\ current \in Ids \cup {None}
    /\ pending # None => pending \in Attempt
    /\ sub # None => sub \in Submission
    /\ pipe # None => pipe \in Frame
    /\ stopping \in BOOLEAN

AttemptKept == AttemptTyped /\ SubOfChat /\ PipeOfSub /\ PendingOfChat

\* The attempt in doubt stays the same but for the run it is told of, or is settled.
PendingFollows ==
    pending' # None => /\ pending # None
                       /\ pending' \in Attempt
                       /\ pending'.chat = pending.chat /\ pending'.key = pending.key
                       /\ pending'.question = pending.question

LEMMA SettleFollows ==
  ASSUME NEW p, NEW reads
  PROVE  Settle(p, reads) = None \/ Settle(p, reads) = p
  BY DEF Settle

LEMMA PendingStays ==
  ASSUME IInv, Grown, sends' \in Nat, sends <= sends', chatId' = chatId, PendingFollows
  PROVE  PendingOfChat'
<1>1. SUFFICES ASSUME pending' # None
               PROVE  /\ pending'.chat = chatId /\ pending'.key <= sends'
                      /\ KeyOf(pending.key, pending.chat, pending.question)'
  BY DEF PendingOfChat
<1>2. /\ pending # None /\ pending'.chat = pending.chat /\ pending'.key = pending.key
      /\ pending'.question = pending.question
      /\ pending.chat = chatId /\ pending.key <= sends
      /\ KeyOf(pending.key, pending.chat, pending.question)
  BY <1>1 DEF PendingFollows, IInv, PendingOfChat
<1>3. pending.key \in Nat /\ sends \in Nat
  BY <1>2 DEF IInv, TypeOK, Attempt
<1>4. ASSUME NEW i \in DOMAIN store', store'[i].key = pending.key
      PROVE  store'[i].chat = pending.chat /\ store'[i].question = pending.question
  <2>1. CASE i \in DOMAIN store
    BY <1>2, <1>4, <2>1 DEF Grown, KeyOf
  <2>2. CASE i \notin DOMAIN store
    BY <1>2, <1>4, <2>2 DEF Grown, IInv, SubOfChat
  <2> QED BY <2>1, <2>2
<1> QED BY <1>2, <1>3, <1>4 DEF KeyOf

\* The submission ended.
LEMMA SubEnded ==
  ASSUME sub' = None
  PROVE  SubOfChat' /\ PipeOfSub'
  BY DEF SubOfChat, PipeOfSub, busy

\* What SubOfChat says of a submission after a step that only tells it of its run.
LEMMA SubFollows ==
  ASSUME IInv, Grown, busy, sends' \in Nat, sends <= sends', PendingFollows,
         chatId' = chatId, sub.stage # "create",
         sub'.chat = sub.chat, sub'.question = sub.question, sub'.key = sub.key,
         sub'.stage \in {"stream", "saved"} \cup {sub.stage},
         sub.stage = "stream" \/ sub'.stage = sub.stage,
         current' \in {None, sub'.run},
         sub'.stage = "saved" => current' # None,
         sub'.run = sub.run \/ (/\ sub.stage = "stream" /\ sub'.stage = "stream"
                                /\ sub'.run \in DOMAIN store' /\ store'[sub'.run].chat = sub.chat
                                /\ store'[sub'.run].question = sub.question),
         sub'.read # None => sub'.stage = "saved" /\ sub'.read.id = current'
  PROVE  SubOfChat'
<1>1. /\ sub.key <= sends /\ chatId # None /\ sub.chat = chatId
      /\ sub.stage \in {"upload", "resolve"} =>
            sub.run = None /\ \A i \in DOMAIN store : store[i].key # sub.key
      /\ sub.stage = "stream" => KeyOf(sub.key, sub.chat, sub.question)
      /\ sub.run # None => /\ sub.run \in DOMAIN store /\ store[sub.run].chat = sub.chat
                           /\ store[sub.run].question = sub.question
  BY DEF IInv, SubOfChat
<1>7. pending' # None /\ pending'.key = sub.key =>
        sub.stage \in {"stream", "saved"} /\ sub.question = pending'.question
  BY DEF IInv, SubOfChat, PendingFollows
<1>2. sub.key \in Nat /\ sends \in Nat
  BY DEF IInv, TypeOK, busy, Submission
<1>3. sub'.key <= sends'
  BY <1>1, <1>2
<1>4. ASSUME NEW i \in DOMAIN store', store'[i].key = sub.key, sub.stage = "stream"
      PROVE  store'[i].chat = sub.chat /\ store'[i].question = sub.question
  BY <1>1, <1>4 DEF Grown, KeyOf
<1>5. ASSUME NEW i \in DOMAIN store', sub.stage \in {"upload", "resolve"}
      PROVE  store'[i].key # sub.key
  BY <1>1, <1>5 DEF Grown
<1>6. sub.run # None => /\ sub.run \in DOMAIN store' /\ store'[sub.run].chat = sub.chat
                        /\ store'[sub.run].question = sub.question
  BY <1>1 DEF Grown
<1> QED BY <1>1, <1>3, <1>4, <1>5, <1>6, <1>7 DEF SubOfChat, KeyOf

\* A step that leaves the submission as it is.
LEMMA SubUnchanged ==
  ASSUME IInv, Grown, sends' \in Nat, sends <= sends',
         chatId' = chatId, existing' = existing, current' = current,
         sub' = sub, pipe' = pipe, stopping' \in BOOLEAN, PendingFollows
  PROVE  AttemptKept'
<1>1. AttemptTyped'
  BY DEF AttemptTyped, IInv, TypeOK, PendingFollows
<1>2. PendingOfChat'
  BY PendingStays
<1>3. PipeOfSub'
  BY DEF IInv, PipeOfSub, busy
<1>4. SubOfChat'
  <2>1. CASE ~busy
    BY <2>1, SubEnded DEF busy
  <2>2. CASE busy /\ sub.stage = "create"
    <3>1. /\ current \in {None, sub.run} /\ sub.key <= sends /\ chatId = None
          /\ sub.run = None /\ (sub.read # None => sub.stage = "saved" /\ sub.read.id = current)
          /\ \A i \in DOMAIN store : store[i].key # sub.key
      BY <2>2 DEF IInv, SubOfChat
    <3>2. sub.key \in Nat /\ sends \in Nat
      BY <2>2 DEF IInv, TypeOK, busy, Submission
    <3>3. \A i \in DOMAIN store' : store'[i].key # sub.key
      BY <2>2, <3>1 DEF Grown
    <3>4. pending' # None => pending'.key # sub.key
      BY <2>2 DEF IInv, SubOfChat, PendingFollows
    <3> QED BY <2>2, <3>1, <3>2, <3>3, <3>4 DEF SubOfChat
  <2>3. CASE busy /\ sub.stage # "create"
    <3>1. /\ current \in {None, sub.run}
          /\ sub.stage = "saved" => current # None
          /\ sub.read # None => sub.stage = "saved" /\ sub.read.id = current
      BY <2>3 DEF IInv, SubOfChat
    <3> QED BY <2>3, <3>1, SubFollows
  <2> QED BY <2>1, <2>2, <2>3
<1> QED BY <1>1, <1>2, <1>3, <1>4 DEF AttemptKept

\* A step that ends the submission.
LEMMA SubReleased ==
  ASSUME IInv, Grown, sends' \in Nat, sends <= sends',
         chatId' = chatId, existing' = existing, current' \in Ids \cup {None},
         Release, PendingFollows
  PROVE  AttemptKept'
<1>1. sub' = None /\ pipe' = None /\ stopping' = FALSE
  BY DEF Release
<1>2. stopping' \in BOOLEAN
  BY <1>1
<1>3. AttemptTyped'
  BY <1>1, <1>2 DEF AttemptTyped, IInv, TypeOK, PendingFollows
<1> QED BY <1>1, <1>3, SubEnded, PendingStays DEF AttemptKept

\* The stage that follows: the attempt in doubt about the same question lends its key.
LEMMA ContinueEffect ==
  ASSUME NEW s \in Submission, Continue(s), pending # None => pending \in Attempt
  PROVE  /\ sub' \in Submission
         /\ sub'.stage \in {"upload", "resolve", "stream"}
         /\ sub'.chat = s.chat /\ sub'.question = s.question
         /\ sub'.run = s.run /\ sub'.read = s.read
         /\ \/ sub'.key = s.key /\ pending' = pending /\ sub'.stage # "stream"
            \/ /\ pending # None /\ pending.chat = s.chat /\ pending.question = s.question
               /\ sub'.key = pending.key /\ pending' = pending /\ sub'.stage = "stream"
            \/ /\ sub'.key = s.key /\ sub'.stage = "stream"
               /\ pending' = [chat |-> s.chat, question |-> s.question, key |-> s.key, run |-> None]
<1> DEFINE next == IF s.files THEN "upload" ELSE IF s.auto THEN "resolve" ELSE "stream"
           again == pending # None /\ pending.chat = s.chat /\ pending.question = s.question
           key == IF next = "stream" THEN IF again THEN pending.key ELSE s.key ELSE s.key
<1>1. next \in {"upload", "resolve", "stream"} /\ next \in Stages
  BY DEF Stages
<1>2. s.key \in Nat /\ key \in Nat
  BY DEF Submission, Attempt
<1>3. sub' = [s EXCEPT !.stage = next, !.key = key]
  BY DEF Continue
<1>4. pending' = IF next # "stream" \/ again THEN pending
                 ELSE [chat |-> s.chat, question |-> s.question, key |-> s.key, run |-> None]
  BY DEF Continue
<1>5. \/ key = s.key /\ pending' = pending /\ next # "stream"
      \/ again /\ key = pending.key /\ pending' = pending /\ next = "stream"
      \/ /\ key = s.key /\ next = "stream"
         /\ pending' = [chat |-> s.chat, question |-> s.question, key |-> s.key, run |-> None]
  BY <1>4
<1> HIDE DEF next, key
<1>6. sub' \in Submission /\ sub'.stage = next /\ sub'.key = key
  BY <1>1, <1>2, <1>3 DEF Submission
<1>7. /\ sub'.chat = s.chat /\ sub'.question = s.question
      /\ sub'.run = s.run /\ sub'.read = s.read
  BY <1>3 DEF Submission
<1> QED BY <1>1, <1>5, <1>6, <1>7

\* A submission goes on: s is what it was, of the conversation that is open now, with
\* a key that no run has.
LEMMA SubContinues ==
  ASSUME IInv, NEW s \in Submission, Continue(s), UNCHANGED store,
         sends' \in Nat, sends <= sends',
         existing' \subseteq Conversations, chatId' \in existing', s.chat = chatId',
         current' = None, pipe' = None, stopping' \in BOOLEAN,
         s.run = None, s.read = None, s.key <= sends',
         \A i \in DOMAIN store : store[i].key # s.key,
         pending # None => chatId' = chatId /\ pending.key # s.key
  PROVE  AttemptKept'
<1>1. /\ sub' \in Submission
      /\ sub'.stage \in {"upload", "resolve", "stream"}
      /\ sub'.chat = s.chat /\ sub'.question = s.question
      /\ sub'.run = s.run /\ sub'.read = s.read
      /\ \/ sub'.key = s.key /\ pending' = pending /\ sub'.stage # "stream"
         \/ /\ pending # None /\ pending.chat = s.chat /\ pending.question = s.question
            /\ sub'.key = pending.key /\ pending' = pending /\ sub'.stage = "stream"
         \/ /\ sub'.key = s.key /\ sub'.stage = "stream"
            /\ pending' = [chat |-> s.chat, question |-> s.question, key |-> s.key, run |-> None]
  BY ContinueEffect DEF IInv, TypeOK
<1>2. /\ chatId' \in Conversations /\ chatId' # None
      /\ s.question \in Questions /\ s.key \in Nat /\ sends \in Nat
  BY NoneAssumption DEF Submission, IInv, TypeOK
<1>3. pending # None => /\ pending.chat = chatId' /\ pending.key <= sends
                        /\ pending.key \in Nat /\ pending \in Attempt
                        /\ KeyOf(pending.key, pending.chat, pending.question)
  BY DEF IInv, TypeOK, PendingOfChat, Attempt
<1>4. KeyOf(s.key, s.chat, s.question)
  BY DEF KeyOf
<1>5. pending' # None => /\ pending' \in Attempt /\ pending'.chat = chatId'
                         /\ pending'.key <= sends'
                         /\ KeyOf(pending'.key, pending'.chat, pending'.question)
  <2>1. CASE pending' = pending
    BY <1>2, <1>3, <2>1
  <2>2. CASE pending' = [chat |-> s.chat, question |-> s.question, key |-> s.key, run |-> None]
    <3>1. /\ pending' \in Attempt /\ pending'.chat = s.chat
          /\ pending'.question = s.question /\ pending'.key = s.key
      BY <1>2, <2>2 DEF Attempt
    <3> QED BY <1>4, <3>1
  <2> QED BY <1>1, <2>1, <2>2
<1>6. PendingOfChat'
  BY <1>5 DEF PendingOfChat, KeyOf
<1>7. AttemptTyped'
  BY <1>1, <1>2, <1>5 DEF AttemptTyped
<1>8. /\ sub'.key <= sends'
      /\ sub'.stage = "stream" => KeyOf(sub'.key, sub'.chat, sub'.question)
      /\ sub'.stage # "stream" => \A i \in DOMAIN store : store[i].key # sub'.key
      /\ pending' # None /\ pending'.key = sub'.key =>
            sub'.stage \in {"stream", "saved"} /\ sub'.question = pending'.question
  <2>1. CASE sub'.key = s.key /\ pending' = pending /\ sub'.stage # "stream"
    BY <1>1, <2>1
  <2>3. CASE /\ sub'.key = s.key /\ sub'.stage = "stream"
             /\ pending' = [chat |-> s.chat, question |-> s.question, key |-> s.key, run |-> None]
    <3>1. pending'.question = s.question
      BY <2>3
    <3> QED BY <1>1, <1>4, <2>3, <3>1
  <2>2. CASE /\ pending # None /\ pending.chat = s.chat /\ pending.question = s.question
             /\ sub'.key = pending.key /\ sub'.stage = "stream"
    BY <1>1, <1>2, <1>3, <2>2
  <2> QED BY <1>1, <2>1, <2>2, <2>3
<1>9. SubOfChat'
  BY <1>1, <1>2, <1>8 DEF SubOfChat, KeyOf
<1>10. PipeOfSub'
  BY DEF PipeOfSub
<1> QED BY <1>6, <1>7, <1>9, <1>10 DEF AttemptKept

LEMMA SubRun ==
  ASSUME NEW x \in Submission, NEW i \in Ids, NEW y, y = [x EXCEPT !.run = i]
  PROVE  /\ y \in Submission /\ y.run = i /\ y.question = x.question
         /\ y.stage = x.stage /\ y.chat = x.chat /\ y.key = x.key /\ y.read = x.read
  BY DEF Submission

LEMMA SubSent ==
  ASSUME NEW x \in Submission, NEW n \in Nat, NEW y, y = [x EXCEPT !.sent = n]
  PROVE  /\ y \in Submission /\ y.run = x.run /\ y.question = x.question
         /\ y.stage = x.stage /\ y.chat = x.chat /\ y.key = x.key /\ y.read = x.read
  BY DEF Submission

LEMMA SubRead ==
  ASSUME NEW x \in Submission, NEW r \in Read, NEW y, y = [x EXCEPT !.read = r]
  PROVE  /\ y \in Submission /\ y.run = x.run /\ y.question = x.question
         /\ y.stage = x.stage /\ y.chat = x.chat /\ y.key = x.key /\ y.read = r
  BY DEF Submission

LEMMA SubSaved ==
  ASSUME NEW x \in Submission, NEW y, y = [x EXCEPT !.stage = "saved", !.read = None]
  PROVE  /\ y \in Submission /\ y.run = x.run /\ y.question = x.question
         /\ y.stage = "saved" /\ y.chat = x.chat /\ y.key = x.key /\ y.read = None
  BY DEF Submission, Stages

LEMMA SubAborted ==
  ASSUME NEW x \in Submission, NEW b, b = TRUE, NEW y, y = [x EXCEPT !.aborted = b]
  PROVE  /\ y \in Submission /\ y.run = x.run /\ y.question = x.question
         /\ y.stage = x.stage /\ y.chat = x.chat /\ y.key = x.key /\ y.read = x.read
  BY DEF Submission

LEMMA SubFiles ==
  ASSUME NEW x \in Submission, NEW b, b = FALSE, NEW y, y = [x EXCEPT !.files = b]
  PROVE  /\ y \in Submission /\ y.run = x.run /\ y.question = x.question
         /\ y.stage = x.stage /\ y.chat = x.chat /\ y.key = x.key /\ y.read = x.read
  BY DEF Submission

LEMMA SubAuto ==
  ASSUME NEW x \in Submission, NEW b, b = FALSE, NEW y, y = [x EXCEPT !.auto = b]
  PROVE  /\ y \in Submission /\ y.run = x.run /\ y.question = x.question
         /\ y.stage = x.stage /\ y.chat = x.chat /\ y.key = x.key /\ y.read = x.read
  BY DEF Submission

LEMMA SubChat ==
  ASSUME NEW x \in Submission, NEW c \in Conversations, NEW y, y = [x EXCEPT !.chat = c]
  PROVE  /\ y \in Submission /\ y.run = x.run /\ y.question = x.question
         /\ y.stage = x.stage /\ y.chat = c /\ y.key = x.key /\ y.read = x.read
  BY DEF Submission

\* The facts every action of the submission starts from.
LEMMA Underway ==
  ASSUME IInv, busy
  PROVE  /\ sub \in Submission
         /\ current \in {None, sub.run} /\ current \in Ids \cup {None}
         /\ sub.key \in Nat /\ sub.key <= sends /\ sends \in Nat
         /\ sub.stage = "create" => chatId = None /\ pending = None
         /\ sub.stage # "create" => chatId # None /\ sub.chat = chatId
         /\ sub.stage \in {"create", "upload", "resolve"} =>
               /\ sub.run = None /\ current = None /\ pipe = None /\ sub.read = None
               /\ \A i \in DOMAIN store : store[i].key # sub.key
               /\ pending # None => pending.key # sub.key
         /\ sub.stage = "saved" => current # None
         /\ sub.read # None => sub.stage = "saved" /\ sub.read.id = current
<1>1. sub \in Submission /\ sub.key \in Nat /\ sends \in Nat
  BY DEF IInv, TypeOK, busy, Submission
<1>2. chatId = None => pending = None
  BY NoneAssumption DEF IInv, TypeOK, PendingOfChat, Attempt
<1> QED BY <1>1, <1>2 DEF IInv, TypeOK, SubOfChat, PipeOfSub

LEMMA AdmitAttempt ==
  ASSUME IInv, Grown, StoreTyped', sends' \in Nat, sends <= sends', Admit
  PROVE  AttemptKept'
<1> USE DEF display, attempt
<1>1. /\ busy /\ sub.stage = "stream" /\ sub.run = None /\ pipe = None
      /\ UNCHANGED <<existing, chatId, current, pending, stopping>>
  BY DEF Admit
<1>2. stopping' \in BOOLEAN /\ PendingFollows
  BY <1>1 DEF IInv, TypeOK, PendingFollows
<1>3. ASSUME NEW i \in DOMAIN store',
             store'[i].chat = sub.chat, store'[i].question = sub.question,
             sub' = [sub EXCEPT !.run = i], UNCHANGED pipe
      PROVE  AttemptKept'
  <2>1. i \in Ids
    BY BoundsAssumption DEF StoreTyped, Ids
  <2>2. /\ sub' \in Submission /\ sub'.run = i
        /\ sub'.stage = sub.stage /\ sub'.chat = sub.chat /\ sub'.key = sub.key
        /\ sub'.read = sub.read /\ sub'.question = sub.question
    BY <1>1, <1>3, <2>1, SubRun, Underway
  <2>3. current = None /\ (sub.read # None => sub.stage = "saved" /\ sub.read.id = current)
    BY <1>1, Underway
  <2>4. SubOfChat'
    BY <1>1, <1>2, <1>3, <2>2, <2>3, SubFollows
  <2>5. AttemptTyped'
    BY <1>1, <1>2, <1>3, <2>2 DEF AttemptTyped, IInv, TypeOK
  <2>6. PipeOfSub'
    BY <1>1, <1>3 DEF PipeOfSub
  <2>7. PendingOfChat'
    BY <1>1, <1>2, PendingStays
  <2> QED BY <2>4, <2>5, <2>6, <2>7 DEF AttemptKept
<1>4. CASE Existing(sub.key) # {} /\ UNCHANGED <<store, pipe>>
             /\ \E i \in Existing(sub.key) : sub' = [sub EXCEPT !.run = i]
  <2>1. PICK i \in Existing(sub.key) : sub' = [sub EXCEPT !.run = i]
    BY <1>4
  <2>2. i \in DOMAIN store' /\ store'[i].chat = sub.chat /\ store'[i].question = sub.question
    BY <1>1, <1>4 DEF Existing, IInv, SubOfChat, KeyOf
  <2> QED BY <1>3, <1>4, <2>1, <2>2
<1>5. CASE store' = Append(store, NewRun(sub)) /\ sub' = [sub EXCEPT !.run = Len(store')]
             /\ UNCHANGED pipe
  <2>1. store \in Seq(Saved)
    BY DEF IInv, TypeOK
  <2>2. Len(store') \in DOMAIN store' /\ store'[Len(store')] = NewRun(sub)
    BY <1>5, <2>1
  <2> QED BY <1>3, <1>5, <2>2 DEF NewRun
<1>6. CASE pipe' = [type |-> "error", run |-> None] /\ UNCHANGED <<store, sub>>
  <2>1. SubOfChat' /\ PendingOfChat'
    <3>1. /\ current \in {None, sub.run} /\ (sub.read # None => sub.stage = "saved" /\ sub.read.id = current)
      BY <1>1, Underway
    <3> QED BY <1>1, <1>2, <1>6, <3>1, SubFollows, PendingStays
  <2>2. pipe' \in Frame /\ pipe'.type = "error"
    BY <1>6 DEF Frame
  <2>3. AttemptTyped'
    BY <1>1, <1>2, <1>6, <2>2 DEF AttemptTyped, IInv, TypeOK
  <2>4. PipeOfSub'
    BY <1>1, <1>6, <2>2 DEF PipeOfSub
  <2> QED BY <2>1, <2>3, <2>4 DEF AttemptKept
<1> QED BY <1>4, <1>5, <1>6 DEF Admit

LEMMA EmitAttempt ==
  ASSUME IInv, Grown, sends' \in Nat, sends <= sends', Emit
  PROVE  AttemptKept'
<1> USE DEF server, display, attempt
<1>1. /\ busy /\ sub.stage = "stream" /\ sub.run # None
      /\ UNCHANGED <<existing, chatId, current, pending, stopping>>
  BY DEF Emit
<1>2. stopping' \in BOOLEAN /\ PendingFollows
  BY <1>1 DEF IInv, TypeOK, PendingFollows
<1>3. sub.run \in DOMAIN store
  BY <1>1 DEF IInv, SubOfChat
<1>4. PICK r \in Read : r = Snapshot(sub.run) /\ r.id = sub.run
  BY <1>3, SnapshotRead DEF IInv
<1>5. /\ \/ pipe' = [type |-> "run", run |-> r]
         \/ pipe' = [type |-> "progress", run |-> r]
         \/ pipe' = [type |-> "complete", run |-> r]
         \/ pipe' = [type |-> "error", run |-> None]
      /\ \/ UNCHANGED sub
         \/ sub' = [sub EXCEPT !.sent = r.revision]
  BY <1>4 DEF Emit
<1>6. pipe' \in Frame /\ (pipe'.type # "error" => pipe'.run = r)
  BY <1>5 DEF Frame
<1>7. /\ sub' \in Submission /\ sub'.run = sub.run
      /\ sub'.stage = sub.stage /\ sub'.chat = sub.chat /\ sub'.key = sub.key
      /\ sub'.read = sub.read /\ sub'.question = sub.question
  <2>1. sub \in Submission /\ r.revision \in Nat
    BY <1>1, Underway DEF Read
  <2>2. CASE UNCHANGED sub
    BY <2>1, <2>2
  <2>3. CASE sub' = [sub EXCEPT !.sent = r.revision]
    BY <2>1, <2>3, SubSent
  <2> QED BY <1>5, <2>2, <2>3
<1>8. SubOfChat'
  <2>1. current \in {None, sub.run} /\ (sub.read # None => sub.stage = "saved" /\ sub.read.id = current)
    BY <1>1, Underway
  <2> QED BY <1>1, <1>2, <1>7, <2>1, SubFollows
<1>9. AttemptTyped'
  BY <1>1, <1>2, <1>6, <1>7 DEF AttemptTyped, IInv, TypeOK
<1>10. PipeOfSub'
  BY <1>1, <1>4, <1>6, <1>7 DEF PipeOfSub
<1>11. PendingOfChat'
  BY <1>1, <1>2, PendingStays
<1> QED BY <1>8, <1>9, <1>10, <1>11 DEF AttemptKept

LEMMA ServeSavedAttempt ==
  ASSUME IInv, Grown, sends' \in Nat, sends <= sends', ServeSaved
  PROVE  AttemptKept'
<1> USE DEF server, display, attempt
<1>1. /\ busy /\ sub.stage = "saved" /\ sub' = [sub EXCEPT !.read = Snapshot(current)]
      /\ UNCHANGED <<existing, chatId, current, pending, pipe, stopping>>
  BY DEF ServeSaved
<1>2. stopping' \in BOOLEAN /\ PendingFollows
  BY <1>1 DEF IInv, TypeOK, PendingFollows
<1>3. current # None /\ current = sub.run /\ sub.run \in DOMAIN store
  BY <1>1, Underway DEF IInv, SubOfChat
<1>4. PICK r \in Read : r = Snapshot(current) /\ r.id = current
  BY <1>3, SnapshotRead DEF IInv
<1>5. /\ sub' \in Submission /\ sub'.run = sub.run
      /\ sub'.stage = sub.stage /\ sub'.chat = sub.chat /\ sub'.key = sub.key
      /\ sub'.read = r /\ sub'.question = sub.question
  BY <1>1, <1>4, SubRead, Underway
<1>6. SubOfChat'
  BY <1>1, <1>2, <1>3, <1>4, <1>5, SubFollows
<1>7. AttemptTyped'
  BY <1>1, <1>2, <1>5 DEF AttemptTyped, IInv, TypeOK
<1>8. PipeOfSub'
  BY <1>1, <1>5 DEF PipeOfSub, IInv
<1>9. PendingOfChat'
  BY <1>1, <1>2, PendingStays
<1> QED BY <1>6, <1>7, <1>8, <1>9 DEF AttemptKept

\* The stream failed: the page is released, or the run it was told of is read again.
LEMMA FailAttempt ==
  ASSUME IInv, Grown, sends' \in Nat, sends <= sends', busy, sub.stage = "stream", Fail,
         UNCHANGED <<existing, chatId, current, pending>>
  PROVE  AttemptKept'
<1>1. PendingFollows /\ current' \in Ids \cup {None}
  BY DEF IInv, TypeOK, PendingFollows
<1>2. CASE current = None
  BY <1>1, <1>2, SubReleased DEF Fail
<1>3. CASE current # None
  <2>1. /\ sub' = [sub EXCEPT !.stage = "saved", !.read = None]
        /\ pipe' = None /\ UNCHANGED stopping
    BY <1>3 DEF Fail
  <2>2. /\ sub' \in Submission /\ sub'.run = sub.run
        /\ sub'.stage = "saved" /\ sub'.chat = sub.chat /\ sub'.key = sub.key /\ sub'.read = None
        /\ sub'.question = sub.question
    BY <2>1, SubSaved, Underway
  <2>3. SubOfChat'
    BY <1>1, <1>3, <2>2, SubFollows, Underway
  <2>4. AttemptTyped'
    BY <2>1, <2>2 DEF AttemptTyped, IInv, TypeOK
  <2>5. PipeOfSub'
    BY <2>1 DEF PipeOfSub
  <2> QED BY <1>1, <2>3, <2>4, <2>5, PendingStays DEF AttemptKept
<1> QED BY <1>2, <1>3

\* A frame may tell the attempt in doubt which run is its own.
LEMMA PendingTold ==
  ASSUME IInv, NEW i \in Ids, NEW known, NEW reads,
         known = IF pending # None /\ pending.key = sub.key
                 THEN [pending EXCEPT !.run = i] ELSE pending,
         pending' = known \/ pending' = Settle(known, reads)
  PROVE  PendingFollows
<1>1. pending # None => pending \in Attempt
  BY DEF IInv, TypeOK
<1>2. CASE pending # None /\ pending.key = sub.key
  <2>1. /\ known \in Attempt /\ known.chat = pending.chat /\ known.key = pending.key
        /\ known.question = pending.question
    BY <1>1, <1>2 DEF Attempt
  <2> QED BY <1>2, <2>1, SettleFollows DEF PendingFollows
<1>3. CASE ~(pending # None /\ pending.key = sub.key)
  BY <1>1, <1>3, SettleFollows DEF PendingFollows
<1> QED BY <1>2, <1>3

LEMMA ReadFrameAttempt ==
  ASSUME IInv, Grown, sends' \in Nat, sends <= sends', ReadFrame
  PROVE  AttemptKept'
<1> USE DEF display, attempt
<1>1. /\ busy /\ pipe # None /\ sub.stage = "stream" /\ pipe \in Frame
      /\ UNCHANGED <<existing, chatId>>
  BY DEF ReadFrame, IInv, PipeOfSub, TypeOK
<1>2. CASE pipe.type = "error"
  BY <1>1, <1>2, FailAttempt DEF ReadFrame
<1>3. CASE pipe.type # "error"
  <2>1. PICK r \in Read : r = pipe.run /\ r.id = sub.run /\ sub.run # None
    BY <1>1, <1>3 DEF IInv, PipeOfSub, Frame
  <2>2. r.id \in Ids
    BY DEF Read
  <2>3. PICK known : known = IF pending # None /\ pending.key = sub.key
                             THEN [pending EXCEPT !.run = r.id] ELSE pending
    OBVIOUS
  <2>4. /\ current' = r.id
        /\ pending' = known \/ pending' = Settle(known, {r})
        /\ \/ Release
           \/ pipe' = None /\ UNCHANGED <<sub, stopping>>
    BY <1>3, <2>1, <2>3 DEF ReadFrame
  <2>5. PendingFollows
    BY <2>2, <2>3, <2>4, PendingTold
  <2>6. CASE Release
    BY <1>1, <2>2, <2>4, <2>5, <2>6, SubReleased
  <2>7. CASE pipe' = None /\ UNCHANGED <<sub, stopping>>
    <3>1. sub \in Submission /\ (sub.read # None => sub.stage = "saved" /\ sub.read.id = current)
      BY <1>1, Underway
    <3>2. SubOfChat'
      BY <1>1, <2>1, <2>4, <2>5, <2>7, <3>1, SubFollows
    <3>3. AttemptTyped'
      BY <1>1, <2>2, <2>4, <2>5, <2>7 DEF AttemptTyped, IInv, TypeOK, PendingFollows
    <3>4. PipeOfSub'
      BY <2>7 DEF PipeOfSub
    <3> QED BY <1>1, <2>5, <3>2, <3>3, <3>4, PendingStays DEF AttemptKept
  <2> QED BY <2>4, <2>6, <2>7
<1> QED BY <1>2, <1>3

LEMMA CreatedAttempt ==
  ASSUME IInv, Grown, sends' \in Nat, sends <= sends', sends' = sends, Created
  PROVE  AttemptKept'
<1>1. /\ busy /\ sub.stage = "create" /\ current' = current /\ current = None
      /\ chatId = None /\ pending = None
  BY Underway DEF Created
<1>2. CASE Release /\ UNCHANGED <<chatId, existing, pending>>
  <2>1. PendingFollows
    BY <1>1, <1>2 DEF PendingFollows
  <2> QED BY <1>1, <1>2, <2>1, SubReleased
<1>3. ASSUME NEW c \in Conversations \ existing, existing' = existing \cup {c}, chatId' = c,
             Release, UNCHANGED pending
      PROVE  AttemptKept'
  <2>1. sub' = None /\ pipe' = None /\ stopping' = FALSE
    BY <1>3 DEF Release
  <2>2. stopping' \in BOOLEAN
    BY <2>1
  <2>3. AttemptTyped'
    BY <1>1, <1>3, <2>1, <2>2 DEF AttemptTyped, IInv, TypeOK
  <2>4. PendingOfChat'
    BY <1>1, <1>3 DEF PendingOfChat
  <2> QED BY <2>1, <2>3, <2>4, SubEnded DEF AttemptKept
<1>4. ASSUME NEW c \in Conversations \ existing, existing' = existing \cup {c}, chatId' = c,
             Continue([sub EXCEPT !.chat = c]), UNCHANGED <<store, pipe, stopping>>
      PROVE  AttemptKept'
  <2>1. PICK s : s = [sub EXCEPT !.chat = c]
    OBVIOUS
  <2>2. /\ s \in Submission /\ s.run = sub.run /\ s.stage = sub.stage
        /\ s.chat = c /\ s.key = sub.key /\ s.read = sub.read
    BY <1>1, <2>1, SubChat, Underway
  <2>3. /\ sub.run = None /\ pipe = None /\ sub.read = None
        /\ sub.key <= sends
        /\ \A i \in DOMAIN store : store[i].key # sub.key
    BY <1>1, Underway
  <2>4. existing' \subseteq Conversations /\ chatId' \in existing' /\ stopping' \in BOOLEAN
    BY <1>4 DEF IInv, TypeOK
  <2>5. Continue(s)
    BY <1>4, <2>1
  <2> QED BY <1>1, <1>4, <2>2, <2>3, <2>4, <2>5, SubContinues
<1> QED BY <1>2, <1>3, <1>4 DEF Created

\* An upload or a resolution ended: the submission ends, or goes on.
LEMMA PreparedAttempt ==
  ASSUME IInv, Grown, sends' \in Nat, sends <= sends', sends' = sends,
         busy, sub.stage \in {"upload", "resolve"},
         UNCHANGED <<existing, chatId, current>>,
         \/ Release /\ UNCHANGED pending
         \/ Continue([sub EXCEPT !.files = FALSE]) /\ UNCHANGED <<store, pipe, stopping>>
         \/ Continue([sub EXCEPT !.auto = FALSE]) /\ UNCHANGED <<store, pipe, stopping>>
  PROVE  AttemptKept'
<1>1. /\ sub \in Submission /\ sub.run = None /\ current = None /\ pipe = None /\ sub.read = None
      /\ sub.key <= sends /\ chatId # None /\ sub.chat = chatId
      /\ \A i \in DOMAIN store : store[i].key # sub.key
      /\ pending # None => pending.key # sub.key
  BY Underway
<1>2. CASE Release /\ UNCHANGED pending
  <2>1. PendingFollows
    BY <1>2 DEF PendingFollows, IInv, TypeOK
  <2> QED BY <1>1, <1>2, <2>1, SubReleased
<1>3. ASSUME NEW s \in Submission, Continue(s), UNCHANGED <<store, pipe, stopping>>,
             s.run = sub.run, s.chat = sub.chat, s.key = sub.key, s.read = sub.read
      PROVE  AttemptKept'
  <2>1. existing' \subseteq Conversations /\ chatId' \in existing' /\ stopping' \in BOOLEAN
    BY <1>1, <1>3 DEF IInv, TypeOK
  <2> QED BY <1>1, <1>3, <2>1, SubContinues
<1>4. CASE Continue([sub EXCEPT !.files = FALSE]) /\ UNCHANGED <<store, pipe, stopping>>
  <2>1. PICK s : s = [sub EXCEPT !.files = FALSE]
    OBVIOUS
  <2>2. s \in Submission /\ s.run = sub.run /\ s.chat = sub.chat /\ s.key = sub.key /\ s.read = sub.read
    <3>1. sub \in Submission
      BY <1>1
    <3> QED BY <2>1, <3>1, SubFiles, Zenon
  <2>3. Continue(s)
    BY <1>4, <2>1
  <2> QED BY <1>3, <1>4, <2>2, <2>3
<1>5. CASE Continue([sub EXCEPT !.auto = FALSE]) /\ UNCHANGED <<store, pipe, stopping>>
  <2>1. PICK s : s = [sub EXCEPT !.auto = FALSE]
    OBVIOUS
  <2>2. s \in Submission /\ s.run = sub.run /\ s.chat = sub.chat /\ s.key = sub.key /\ s.read = sub.read
    <3>1. sub \in Submission
      BY <1>1
    <3> QED BY <2>1, <3>1, SubAuto, Zenon
  <2>3. Continue(s)
    BY <1>5, <2>1
  <2> QED BY <1>3, <1>5, <2>2, <2>3
<1> QED BY <1>2, <1>4, <1>5

LEMMA SendAttempt ==
  ASSUME IInv, Grown, sends' \in Nat, sends <= sends',
         NEW q \in Questions, NEW files \in BOOLEAN, NEW auto \in BOOLEAN, Send(q, files, auto)
  PROVE  AttemptKept'
<1> USE DEF server, display
<1>1. PICK s : s = [stage |-> "create", files |-> files, auto |-> auto, aborted |-> FALSE,
                    chat |-> chatId, question |-> q, key |-> sends + 1,
                    run |-> None, sent |-> 0, read |-> None]
  OBVIOUS
<1>2. /\ ~busy /\ sends' = sends + 1 /\ current' = None /\ pipe' = None
      /\ UNCHANGED <<store, existing, chatId, stopping>>
      /\ IF chatId = None THEN sub' = s /\ UNCHANGED pending ELSE Continue(s)
  BY <1>1 DEF Send
<1>3. /\ existing \subseteq Conversations /\ chatId \in existing \cup {None}
      /\ stopping \in BOOLEAN /\ sends \in Nat
      /\ pending # None => pending \in Attempt
  BY DEF IInv, TypeOK
<1>4. /\ s \in Submission /\ s.stage = "create" /\ s.chat = chatId
      /\ s.key = sends + 1 /\ s.run = None /\ s.read = None
  BY <1>1, <1>3 DEF Submission, Stages
<1>5. \A i \in DOMAIN store : store[i].key # s.key
  <2>1. ASSUME NEW i \in DOMAIN store
        PROVE  store[i].key # s.key
    <3>1. store[i] \in Saved /\ store[i].key <= sends
      BY DEF IInv, TypeOK, KeysGiven
    <3>2. store[i].key \in Nat
      BY <3>1 DEF Saved
    <3> QED BY <1>3, <1>4, <3>1, <3>2
  <2> QED BY <2>1
<1>6. pending # None => pending.key # s.key /\ pending.chat = chatId /\ chatId # None
  <2>1. ASSUME pending # None
        PROVE  pending.key # s.key /\ pending.chat = chatId /\ chatId # None
    <3>1. /\ pending.key \in Nat /\ pending.key <= sends
          /\ pending.chat = chatId /\ pending.chat \in Conversations
      BY <1>3, <2>1 DEF IInv, PendingOfChat, Attempt
    <3> QED BY <1>3, <1>4, <3>1, NoneAssumption
  <2> QED BY <2>1
<1>7. CASE chatId = None
  <2>1. PendingFollows
    BY <1>2, <1>3, <1>7 DEF PendingFollows
  <2>2. AttemptTyped'
    BY <1>2, <1>3, <1>4, <1>7 DEF AttemptTyped
  <2>3. SubOfChat'
    BY <1>2, <1>3, <1>4, <1>5, <1>6, <1>7 DEF SubOfChat
  <2>4. PipeOfSub'
    BY <1>2 DEF PipeOfSub
  <2> QED BY <1>2, <2>1, <2>2, <2>3, <2>4, PendingStays DEF AttemptKept
<1>8. CASE chatId # None
  <2>1. /\ Continue(s) /\ existing' \subseteq Conversations /\ chatId' \in existing'
        /\ stopping' \in BOOLEAN /\ s.key <= sends' /\ s.chat = chatId'
    BY <1>2, <1>3, <1>4, <1>8
  <2> QED BY <1>2, <1>4, <1>5, <1>6, <2>1, SubContinues
<1> QED BY <1>7, <1>8

\* Stop ends the submission, or is heard when its conversation is created or its
\* files are uploaded.
LEMMA AbortAttempt ==
  ASSUME IInv, Grown, sends' \in Nat, sends <= sends', Abort, PendingFollows,
         UNCHANGED <<existing, chatId, current>>
  PROVE  AttemptKept'
<1>1. CASE ~busy \/ sub.stage = "saved"
  <2>1. stopping' = FALSE /\ UNCHANGED <<sub, pipe>>
    BY <1>1 DEF Abort
  <2>2. stopping' \in BOOLEAN
    BY <2>1
  <2> QED BY <2>1, <2>2, SubUnchanged
<1>2. CASE busy /\ sub.stage \in {"create", "upload"}
  <2>1. sub' = [sub EXCEPT !.aborted = TRUE] /\ stopping' = FALSE /\ UNCHANGED <<store, pipe>>
    BY <1>2 DEF Abort
  <2>2. stopping' \in BOOLEAN
    BY <2>1
  <2>3. /\ sub' \in Submission /\ sub'.run = sub.run /\ sub'.stage = sub.stage
        /\ sub'.chat = sub.chat /\ sub'.key = sub.key /\ sub'.read = sub.read
    <3>1. sub \in Submission
      BY <1>2, Underway
    <3> QED BY <2>1, <3>1, SubAborted, Zenon
  <2>4. SubOfChat'
    <3>1. /\ sub.run = None /\ current = None /\ sub.read = None
          /\ sub.key <= sends /\ sub.key \in Nat /\ sends \in Nat
          /\ sub.stage = "create" => chatId = None
          /\ \A i \in DOMAIN store : store[i].key # sub.key
          /\ pending # None => pending.key # sub.key
          /\ sub.stage # "create" => chatId # None /\ sub.chat = chatId
      BY <1>2, Underway
    <3>2. pending' # None => pending'.key # sub.key
      BY <3>1 DEF PendingFollows
    <3> QED BY <1>2, <2>1, <2>3, <3>1, <3>2 DEF SubOfChat
  <2>5. AttemptTyped'
    BY <2>1, <2>2, <2>3 DEF AttemptTyped, IInv, TypeOK, PendingFollows
  <2>6. PipeOfSub'
    BY <1>2, <2>1, Underway DEF PipeOfSub
  <2> QED BY <2>4, <2>5, <2>6, PendingStays DEF AttemptKept
<1>3. CASE busy /\ sub.stage \notin {"create", "upload", "saved"}
  <2>1. Release /\ current' \in Ids \cup {None}
    BY <1>3 DEF Abort, IInv, TypeOK
  <2> QED BY <2>1, SubReleased
<1> QED BY <1>1, <1>2, <1>3

\* The user leaves the conversation while no submission is on its way.
LEMMA OpenAttempt ==
  ASSUME IInv, Grown, sends' \in Nat, sends <= sends', ~busy,
         NEW c \in existing \cup {None}, Open(c), current' \in {None, current},
         pending' = None \/ (pending' = pending /\ c = chatId)
  PROVE  AttemptKept'
<1>1. /\ sub = None /\ UNCHANGED <<existing, sub, pipe, stopping>> /\ chatId' = c
  BY DEF Open, busy, server
<1>2. AttemptTyped'
  BY <1>1 DEF AttemptTyped, IInv, TypeOK
<1>3. PendingOfChat'
  <2>1. CASE pending' = None
    BY <2>1 DEF PendingOfChat
  <2>2. CASE pending' = pending /\ c = chatId
    <3>1. PendingFollows
      BY <2>2 DEF PendingFollows, IInv, TypeOK
    <3> QED BY <1>1, <2>2, <3>1, PendingStays
  <2> QED BY <2>1, <2>2
<1> QED BY <1>1, <1>2, <1>3, SubEnded DEF AttemptKept

LEMMA AttemptStep ==
  ASSUME IInv, [Next]_vars, Grown, StoreTyped'
  PROVE  AttemptKept'
<1> USE DEF server, display, attempt
<1>1. sends' \in Nat /\ sends <= sends' /\ sends \in Nat
  BY SendsStep DEF IInv, TypeOK
<1>2. ASSUME UNCHANGED <<chatId, existing, current, sub, pipe>>,
             stopping' \in BOOLEAN, PendingFollows
      PROVE  AttemptKept'
  BY <1>1, <1>2, SubUnchanged
<1>3. UNCHANGED pending => PendingFollows
  BY DEF PendingFollows, IInv, TypeOK
<1>4. stopping \in BOOLEAN
  BY DEF IInv, TypeOK
<1>5. CASE \/ \E id \in DOMAIN store : Advance(id)
           \/ \E s \in stops : ServeStop(s)
           \/ ServePoll \/ ServeLoad \/ Poll \/ PollFails \/ LoadEarlierTurns
           \/ UNCHANGED vars
  BY <1>2, <1>3, <1>4, <1>5 DEF Advance, ServeStop, ServePoll, ServeLoad, Poll, PollFails,
                                LoadEarlierTurns, vars
<1>6. CASE PollSucceeds \/ LoadAnswer
  <2>1. /\ UNCHANGED <<chatId, existing, current, sub, pipe, stopping>>
        /\ \/ UNCHANGED pending
           \/ pending' = Settle(pending, poll.answer)
           \/ pending' = Settle(pending, load.answer)
    BY <1>6 DEF PollSucceeds, LoadAnswer
  <2>2. pending' = None \/ pending' = pending
    BY <2>1, SettleFollows
  <2> QED BY <1>2, <1>3, <1>4, <2>1, <2>2 DEF PendingFollows
<1>7. CASE Admit
  BY <1>1, <1>7, AdmitAttempt
<1>8. CASE Emit
  BY <1>1, <1>8, EmitAttempt
<1>9. CASE ServeSaved
  BY <1>1, <1>9, ServeSavedAttempt
<1>10. CASE Created
  BY <1>1, <1>10, CreatedAttempt DEF Created
<1>11. CASE Uploaded \/ Resolved
  <2>1. /\ busy /\ sub.stage \in {"upload", "resolve"} /\ sends' = sends
        /\ UNCHANGED <<existing, chatId, current>>
        /\ \/ Release /\ UNCHANGED pending
           \/ Continue([sub EXCEPT !.files = FALSE]) /\ UNCHANGED <<store, pipe, stopping>>
           \/ Continue([sub EXCEPT !.auto = FALSE]) /\ UNCHANGED <<store, pipe, stopping>>
    BY <1>11 DEF Uploaded, Resolved
  <2> QED BY <1>1, <2>1, PreparedAttempt
<1>12. CASE ReadFrame
  BY <1>1, <1>12, ReadFrameAttempt
<1>13. CASE LoseStream
  BY <1>1, <1>13, FailAttempt DEF LoseStream
<1>14. CASE SavedAnswer
  <2>1. /\ Release /\ UNCHANGED <<existing, chatId, current>>
        /\ pending' = pending \/ pending' = Settle(pending, {sub.read})
    BY <1>14 DEF SavedAnswer
  <2>2. pending' = None \/ pending' = pending
    BY <2>1, SettleFollows
  <2>3. PendingFollows /\ current' \in Ids \cup {None}
    BY <1>3, <2>1, <2>2 DEF PendingFollows, IInv, TypeOK
  <2> QED BY <1>1, <2>1, <2>3, SubReleased
<1>15. CASE Stop
  <2>1. /\ UNCHANGED <<existing, chatId, current, pending>>
        /\ \/ Abort
           \/ stopping' = TRUE /\ UNCHANGED <<sub, pipe>>
    BY <1>15 DEF Stop
  <2>2. CASE Abort
    BY <1>1, <1>3, <2>1, <2>2, AbortAttempt
  <2>3. CASE stopping' = TRUE /\ UNCHANGED <<sub, pipe>>
    <3>1. stopping' \in BOOLEAN
      BY <2>3
    <3> QED BY <1>2, <1>3, <2>1, <2>3, <3>1
  <2> QED BY <2>1, <2>2, <2>3
<1>16. ASSUME NEW s \in stops, StopAnswer(s)
       PROVE  AttemptKept'
  <2>1. /\ UNCHANGED <<existing, chatId, current>> /\ stopping' = FALSE
        /\ \/ Abort /\ pending' = Settle(pending, {s.answer})
           \/ UNCHANGED <<pending, sub, pipe>>
    BY <1>16 DEF StopAnswer
  <2>2. CASE Abort /\ pending' = Settle(pending, {s.answer})
    <3>1. pending' = None \/ pending' = pending
      BY <2>2, SettleFollows
    <3>2. PendingFollows
      BY <1>3, <3>1 DEF PendingFollows
    <3> QED BY <1>1, <2>1, <2>2, <3>2, AbortAttempt
  <2>3. CASE UNCHANGED <<pending, sub, pipe>>
    <3>1. stopping' \in BOOLEAN
      BY <2>1
    <3> QED BY <1>2, <1>3, <2>1, <2>3, <3>1
  <2> QED BY <2>1, <2>2, <2>3
<1>17. CASE RequestChat \/ \E c \in existing \cup {None} : ChooseConversation(c)
  <2>1. PICK c \in existing \cup {None} :
          /\ ~busy /\ Open(c) /\ current' \in {None, current}
          /\ pending' = None \/ (pending' = pending /\ c = chatId)
    BY <1>17 DEF RequestChat, ChooseConversation
  <2> QED BY <1>1, <2>1, OpenAttempt
<1>18. CASE \E q \in Questions, files, auto \in BOOLEAN : Send(q, files, auto)
  BY <1>1, <1>18, SendAttempt
<1> QED BY <1>5, <1>6, <1>7, <1>8, <1>9, <1>10, <1>11, <1>12, <1>13, <1>14, <1>15, <1>16,
           <1>17, <1>18 DEF Next, Server, Answers, User

------------------------------------------------------------------------------
(* The invariant holds. *)

LEMMA InitIInv == Init => IInv
<1> SUFFICES ASSUME Init
             PROVE  IInv
  OBVIOUS
<1>1. /\ store \in Seq(Saved) /\ Len(store) <= MaxRuns
      /\ \A i \in DOMAIN store : store[i].key = 0
  BY HistoriesAssumption DEF Init
<1>2. existing \subseteq Conversations
  <2>1. \A r \in Range(store) : r \in Saved
    BY <1>1 DEF Range
  <2> QED BY <2>1 DEF Init, Saved
<1>3. /\ sends \in 0 .. MaxSends
      /\ more \in BOOLEAN
      /\ stopping \in BOOLEAN
  <2>1. sends = 0 /\ more = FALSE /\ stopping = FALSE
    BY DEF Init
  <2>2. sends \in 0 .. MaxSends
    BY <2>1, BoundsAssumption
  <2>3. more \in BOOLEAN /\ stopping \in BOOLEAN
    BY <2>1
  <2> QED BY <2>2, <2>3
<1>4. TypeOK
  BY <1>1, <1>2, <1>3 DEF Init, TypeOK
<1>5. KeysGiven
  BY <1>1 DEF Init, KeysGiven
<1>6. RunsShown /\ ActiveRunsOfConversation
  BY DEF Init, RunsShown, ActiveRunsOfConversation, Range
<1>7. PendingOfChat /\ SubOfChat /\ PipeOfSub /\ StopsSaved /\ PollOfShown /\ LoadOfChat
  BY DEF Init, PendingOfChat, SubOfChat, PipeOfSub, StopsSaved, PollOfShown, LoadOfChat, busy
<1> QED BY <1>4, <1>5, <1>6, <1>7 DEF IInv

\* One step of the page or of the server keeps the invariant.
LEMMA Inductive == IInv /\ [Next]_vars => IInv'
<1> SUFFICES ASSUME IInv, [Next]_vars
             PROVE  IInv'
  OBVIOUS
<1>1. StoreTyped' /\ Grown
  BY StoreStep DEF IInv
<1>2. sends' \in 0 .. MaxSends /\ sends <= sends' /\ sends' \in Nat
  BY SendsStep
<1>3. AttemptTyped' /\ SubOfChat' /\ PipeOfSub' /\ PendingOfChat'
  BY <1>1, AttemptStep DEF AttemptKept
<1>4. runs' \in Seq(Read) /\ more' \in BOOLEAN /\ RunsShown' /\ ActiveRunsOfConversation'
  BY <1>1, RunsShownStep
<1>5. TypeOK'
  BY <1>1, <1>2, <1>3, <1>4 DEF TypeOK, AttemptTyped, StoreTyped
<1>6. KeysGiven' /\ StopsSaved' /\ PollOfShown' /\ LoadOfChat'
  BY <1>1, <1>2, KeysGivenStep, StopsStep, PollStep, LoadStep
<1> QED BY <1>3, <1>4, <1>5, <1>6 DEF IInv

LEMMA Invariance == Spec => []IInv
BY InitIInv, Inductive, PTL DEF Spec

------------------------------------------------------------------------------
(* What the page promises. *)

\* Every variable takes values of its type: a saved run, a submission and a frame
\* keep their shapes through every answer.
THEOREM TypeCorrect == Spec => []TypeOK
<1>1. IInv => TypeOK
  BY DEF IInv
<1> QED BY <1>1, Invariance, PTL

\* The composer is blocked, and Stop sent, for runs of the open conversation only.
THEOREM ActiveRunsAreOfConversation == Spec => []ActiveRunsOfConversation
<1>1. IInv => ActiveRunsOfConversation
  BY DEF IInv
<1> QED BY <1>1, Invariance, PTL

\* The key that is sent again is of a question of the open conversation.
THEOREM AttemptIsOfConversation == Spec => []AttemptOfConversation
<1>1. IInv => AttemptOfConversation
  BY DEF IInv, PendingOfChat, AttemptOfConversation
<1> QED BY <1>1, Invariance, PTL

\* The run that a submission is told of is of its own question of the open conversation.
RunOfQuestion ==
    busy /\ sub.run # None => /\ store[sub.run].chat = chatId
                              /\ store[sub.run].question = sub.question

\* No question is answered by the run of another question or of another conversation,
\* however often it is sent again under the key of an attempt in doubt and whatever
\* the server kept of the requests that were lost.
THEOREM AnsweredByOwnRun == Spec => []RunOfQuestion
<1>1. IInv => RunOfQuestion
  BY DEF IInv, SubOfChat, RunOfQuestion
<1> QED BY <1>1, Invariance, PTL

\* Whichever answer comes last, a run that stays on display keeps its newest revision.
THEOREM ShownRevisionsGrow == Spec => RevisionsGrow
<1>1. ASSUME IInv, [Next]_vars, ~(loading /\ load' = None),
             NEW i \in DOMAIN runs, NEW j \in DOMAIN runs', runs[i].id = runs'[j].id
      PROVE  runs'[j].revision >= runs[i].revision
  <2>1. runs \in Seq(Read) /\ Distinct(runs)
    BY <1>1 DEF IInv, TypeOK, RunsShown, Distinct
  <2>2. runs[i] \in Read /\ runs[i].revision \in Nat
    <3>1. runs[i] \in Read
      BY <1>1, <2>1
    <3> QED BY <3>1 DEF Read
  <2>3. CASE RunsKept
    <3>1. i = j
      BY <1>1, <2>1, <2>3 DEF RunsKept, Distinct
    <3> QED BY <2>2, <2>3, <3>1 DEF RunsKept
  <2>4. CASE RunsUpdated
    <3>1. PICK reads : Updated(runs, runs', reads) /\ Distinct(runs)'
      BY <1>1, <2>4, UpdatedRuns
    <3>2. i \in DOMAIN runs' /\ runs'[i].id = runs[i].id /\ runs'[i].revision >= runs[i].revision
      BY <2>1, <3>1 DEF Updated
    <3>3. i = j
      BY <1>1, <3>1, <3>2 DEF Distinct
    <3> QED BY <3>2, <3>3
  <2>5. CASE RunsLeft
    BY <1>1, <2>5 DEF RunsLeft
  <2>6. CASE TurnsOpened
    BY <1>1, <2>6 DEF TurnsOpened, PageShown, loading
  <2>7. CASE TurnsAdded
    <3>1. PICK new \in InOrder(Unshown(runs, load.answer)) : runs' = new \o runs
      BY <2>7 DEF TurnsAdded
    <3>2. /\ new \in Seq(Unshown(runs, load.answer)) /\ DOMAIN new = 1 .. Len(new)
          /\ \A k \in DOMAIN new : new[k] \in Unshown(runs, load.answer)
      BY <3>1, InOrderRuns
    <3>3. CASE j \in DOMAIN new
      <4>1. runs'[j] = new[j] /\ ~Shows(runs, new[j].id)
        BY <2>1, <3>1, <3>2, <3>3 DEF Unshown
      <4> QED BY <1>1, <4>1 DEF Shows, Range
    <3>4. CASE j \notin DOMAIN new
      <4>1. j - Len(new) \in DOMAIN runs /\ runs'[j] = runs[j - Len(new)]
        BY <2>1, <3>1, <3>2, <3>4
      <4>2. i = j - Len(new)
        BY <1>1, <2>1, <4>1 DEF Distinct
      <4> QED BY <2>2, <4>1, <4>2
    <3> QED BY <3>3, <3>4
  <2> QED BY <1>1, <2>3, <2>4, <2>5, <2>6, <2>7, RunsStep
<1>2. IInv /\ [Next]_vars =>
        [~(loading /\ load' = None) => \A i \in DOMAIN runs, j \in DOMAIN runs' :
           runs[i].id = runs'[j].id => runs'[j].revision >= runs[i].revision]_vars
  BY <1>1
<1> QED BY <1>2, Invariance, PTL DEF Spec, RevisionsGrow

\* Earlier turns are put next to the first one on display: none of the conversation
\* is left out between them.
THEOREM EarlierTurnsAreAdjoined == Spec => EarlierTurnsAdjoin
<1>1. ASSUME IInv, [Next]_vars, load # None, load.kind = "earlier", load' = None,
             Len(runs') > Len(runs),
             NEW id \in runs'[1].id .. runs[1].id, store[id].chat = chatId
      PROVE  Shows(runs', id)
  <2>1. /\ runs \in Seq(Read) /\ runs # <<>>
        /\ load.before = runs[1].id /\ load.chat = chatId
    BY <1>1 DEF IInv, TypeOK, RunsShown, LoadOfChat
  <2>2. /\ Len(runs) \in Nat /\ 1 \in DOMAIN runs /\ runs[1] \in Read
    BY <2>1
  <2>3. CASE RunsKept
    BY <1>1, <2>2, <2>3 DEF RunsKept
  <2>4. CASE RunsUpdated
    <3>1. PICK reads : Updated(runs, runs', reads)
      BY <1>1, <2>4, UpdatedRuns
    <3>2. runs'[1].id = runs[1].id /\ Len(runs') >= 1 /\ runs' \in Seq(Read)
      BY <2>2, <3>1 DEF Updated
    <3>3. id = runs'[1].id
      <4>1. runs[1].id \in Int
        BY <2>2, BoundsAssumption DEF Read, Ids
      <4> QED BY <3>2, <4>1
    <3> QED BY <3>2, <3>3 DEF Shows, Range
  <2>5. CASE RunsLeft
    BY <1>1, <2>2, <2>5 DEF RunsLeft
  <2>6. CASE TurnsOpened
    BY <1>1, <2>6 DEF TurnsOpened
  <2>7. CASE TurnsAdded
    <3>1. PICK new \in InOrder(Unshown(runs, load.answer)) : runs' = new \o runs
      BY <2>7 DEF TurnsAdded
    <3>2. /\ new \in Seq(Unshown(runs, load.answer)) /\ DOMAIN new = 1 .. Len(new)
          /\ \A k \in DOMAIN new : new[k] \in Unshown(runs, load.answer)
          /\ \A r \in Unshown(runs, load.answer) : \E k \in DOMAIN new : new[k] = r
      BY <3>1, InOrderRuns
    <3>3. /\ \A k \in DOMAIN new : k \in DOMAIN runs' /\ runs'[k] = new[k]
          /\ Len(runs') = Len(new) + Len(runs)
          /\ \A k \in DOMAIN runs : \E m \in DOMAIN runs' : runs'[m] = runs[k]
      <4>1. /\ \A k \in DOMAIN new : k \in DOMAIN runs' /\ runs'[k] = new[k]
            /\ Len(runs') = Len(new) + Len(runs)
        BY <2>1, <3>1, <3>2
      <4>2. ASSUME NEW k \in DOMAIN runs
            PROVE  \E m \in DOMAIN runs' : runs'[m] = runs[k]
        <5>1. Len(new) + k \in DOMAIN runs' /\ runs'[Len(new) + k] = runs[k]
          BY <2>1, <3>1, <3>2
        <5> QED BY <5>1
      <4> QED BY <4>1, <4>2
    <3>4. Len(new) \in Nat /\ Len(new) > 0 /\ 1 \in DOMAIN new
      BY <1>1, <2>2, <3>2, <3>3
    <3>5. /\ runs'[1] \in load.answer
          /\ (\A r \in load.answer : Turn(r)) /\ NoGap(load.answer)
      BY <1>1, <2>7, <3>2, <3>3, <3>4 DEF Unshown, TurnsAdded, PageShown, IInv, LoadOfChat
    <3>6. /\ runs'[1].id \in Nat /\ runs'[1].id >= 1 /\ runs[1].id \in DOMAIN store
          /\ runs[1].id \in Nat /\ DOMAIN store = 1 .. Len(store)
      <4>1. runs'[1] \in Read /\ runs[1].id \in DOMAIN store /\ store \in Seq(Saved)
        BY <1>1, <2>2, <3>5 DEF Turn, IInv, RunsShown, TypeOK
      <4> QED BY <4>1, BoundsAssumption DEF Read, Ids
    <3>7. CASE id = runs[1].id
      BY <2>2, <3>3, <3>7 DEF Shows, Range
    <3>8. CASE id # runs[1].id
      <4>1. id \in DOMAIN store /\ runs'[1].id <= id /\ id < load.before
        BY <2>1, <3>6, <3>8
      <4>2. PICK q \in load.answer : q.id = id
        BY <1>1, <2>1, <3>5, <4>1 DEF NoGap
      <4>3. CASE Shows(runs, q.id)
        BY <3>3, <4>2, <4>3 DEF Shows, Range
      <4>4. CASE ~Shows(runs, q.id)
        <5>1. q \in Unshown(runs, load.answer)
          BY <4>4 DEF Unshown
        <5> QED BY <3>2, <3>3, <4>2, <5>1 DEF Shows, Range
      <4> QED BY <4>3, <4>4
    <3> QED BY <3>7, <3>8
  <2> QED BY <1>1, <2>3, <2>4, <2>5, <2>6, <2>7, RunsStep
<1>2. IInv /\ [Next]_vars =>
        [load # None /\ load.kind = "earlier" /\ load' = None /\ Len(runs') > Len(runs) =>
           \A id \in runs'[1].id .. runs[1].id : store[id].chat = chatId => Shows(runs', id)]_vars
  BY <1>1
<1> QED BY <1>2, Invariance, PTL DEF Spec, EarlierTurnsAdjoin


\* The page knows a saved run as absent, active or ended.  Which terminal status an
\* ended one has it cannot tell from what is modelled; one with a result stands for all.
RunStatus ==
    [i \in Ids |-> IF i \notin DOMAIN store THEN "absent"
                   ELSE IF store[i].active THEN "RUNNING" ELSE "SUCCEEDED"]
HasResult == [i \in Ids |-> RunStatus[i] = "SUCCEEDED"]

Records == INSTANCE RunRecord WITH Runs <- Ids, status <- RunStatus, hasResult <- HasResult

\* The server the page talks to keeps RunRecord, as RunLifecycle does: its runs are
\* opened once, by the request of one submission, closed once, by themselves or by
\* Stop, and keep that status.  (It may start with runs that were saved before.)
THEOREM ServerKeepsRecords == Spec => [][Records!Next]_<<RunStatus, HasResult>>
<1>1. ASSUME IInv, OneRunChanges
      PROVE  Records!Next \/ UNCHANGED <<RunStatus, HasResult>>
  <2>1. /\ store \in Seq(Saved) /\ Len(store) \in Nat /\ DOMAIN store = 1 .. Len(store)
        /\ Len(store) <= MaxRuns
    BY <1>1 DEF IInv, TypeOK
  <2>2. CASE UNCHANGED store
    BY <2>2 DEF RunStatus, HasResult
  <2>3. CASE RunOpens
    <3>1. PICK n \in Ids : n = Len(store) + 1
      BY <2>1, <2>3, BoundsAssumption DEF RunOpens, Ids
    <3>2. PICK r : r = NewRun(sub)
      OBVIOUS
    <3>3. r.active = TRUE
      BY <3>2 DEF NewRun
    <3>4. /\ DOMAIN store' = DOMAIN store \cup {n} /\ n \notin DOMAIN store
          /\ store'[n] = r /\ \A i \in DOMAIN store : store'[i] = store[i]
      BY <2>1, <2>3, <3>1, <3>2 DEF RunOpens
    <3>5. RunStatus[n] = "absent" /\ RunStatus' = [RunStatus EXCEPT ![n] = "RUNNING"]
      BY <3>1, <3>3, <3>4 DEF RunStatus
    <3>6. HasResult' = HasResult
      BY <3>1, <3>5 DEF HasResult
    <3> QED BY <3>1, <3>5, <3>6 DEF Records!Next, Records!Open
  <2>4. ASSUME NEW id \in DOMAIN store, RunMoves(id)
        PROVE  Records!Next \/ UNCHANGED <<RunStatus, HasResult>>
    <3>1. /\ id \in Ids /\ store[id] \in Saved /\ store[id].active = TRUE
      <4>1. id \in Ids /\ store[id] \in Saved
        BY <2>1, BoundsAssumption DEF Ids
      <4>2. store[id].active \in BOOLEAN
        BY <4>1 DEF Saved
      <4>3. store[id].active = TRUE
        BY <2>4, <4>2 DEF RunMoves
      <4> QED BY <4>1, <4>3
    <3>2. CASE store' = [store EXCEPT ![id].revision = @ + 1]
      <4>1. /\ DOMAIN store' = DOMAIN store
            /\ \A i \in DOMAIN store : store'[i].active = store[i].active
        BY <2>1, <3>1, <3>2 DEF Saved
      <4>2. RunStatus' = RunStatus
        BY <4>1 DEF RunStatus
      <4> QED BY <4>2 DEF HasResult
    <3>3. CASE store' = [store EXCEPT ![id].revision = @ + 1, ![id].active = FALSE]
      <4>1. /\ DOMAIN store' = DOMAIN store /\ store'[id].active = FALSE
            /\ \A i \in DOMAIN store : i # id => store'[i] = store[i]
        BY <2>1, <3>1, <3>3 DEF Saved
      <4>2. RunStatus[id] = "RUNNING" /\ RunStatus' = [RunStatus EXCEPT ![id] = "SUCCEEDED"]
        BY <3>1, <4>1 DEF RunStatus
      <4>3. HasResult' = [HasResult EXCEPT ![id] = "SUCCEEDED" \in Records!Completed]
        BY <3>1, <4>2 DEF HasResult, RunStatus, Records!Completed
      <4> QED BY <3>1, <4>2, <4>3 DEF Records!Next, Records!Close, Records!Terminal
    <3> QED BY <2>4, <3>2, <3>3 DEF RunMoves
  <2> QED BY <1>1, <2>2, <2>3, <2>4 DEF OneRunChanges
<1>2. IInv /\ [Next]_vars => [Records!Next]_<<RunStatus, HasResult>>
  BY <1>1, StoreChange DEF IInv
<1> QED BY <1>2, Invariance, PTL DEF Spec
==============================================================================
