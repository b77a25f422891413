---------------------------- MODULE RunTraceProofs ----------------------------
(***************************************************************************)
(* Theorems about RunTrace: types, the shared evidence limit, the order of *)
(* evidence and completion, the closing of the trace, and the cursor of    *)
(* the stream.                                                             *)
(***************************************************************************)
EXTENDS RunTrace, FiniteSetTheorems, TLAPS

------------------------------------------------------------------------------
(***************************************************************************)
(* What every coroutine, the sweep and the stream know where they are      *)
(* suspended.                                                              *)
(***************************************************************************)

Savers == {c \in Calls : call[c] \in {"saving", "inserting"}}

Finishing == {c \in Calls : call[c] = "finishing"}

\* The reservations are the calls that are saving.
Reserved ==
    /\ pending = Cardinality(Savers)
    /\ Cardinality(evidence) + pending <= MaxEvidence

\* An entry of tool_started belongs to a call that was started and is not being
\* finished.
CallSound(c) ==
    /\ call[c] \in {"starting", "running", "saving", "inserting"} => c \in started
    /\ call[c] \in {"idle", "checking", "finishing"} => c \notin started
    /\ call[c] = "finishing" => kind[c] \in Terminal
    /\ call[c] = "finishing" /\ kind[c] = "tool_completed" => c \in evidence

\* The sweep starts when no call is waiting and takes what it then finds.
SweepSound ==
    /\ phase \in {"work", "ending"} => todo = {} /\ sweeping = None
    /\ phase \notin {"work", "ending"} => \A c \in Calls : call[c] \notin Waiting
    /\ phase = "cleanup" => started \subseteq todo
    /\ phase = "over" => started = {} /\ sweeping = None
    /\ todo \subseteq started
    /\ sweeping # None => sweeping \notin started /\ call[sweeping] = "over"

CallsInv == TypeOK /\ Reserved /\ SweepSound /\ \A c \in Calls : CallSound(c)

\* Neither a coroutine nor the sweep has ended a call that it may still end.
EndsAhead ==
    /\ OneEndEach
    /\ \A c \in Calls : call[c] = "finishing" => kind[c] \in {"tool_completed", "tool_failed"}
    /\ \A c \in Logged(Terminal) : call[c] = "over"
    /\ \A c \in Logged({"tool_stopped"}) : c \notin todo /\ sweeping # c
    /\ phase \in {"work", "ending"} => Logged({"tool_stopped"}) = {}

\* A started call has its end, or somebody who will append it.
Accounted ==
    Logged({"tool_started"}) \subseteq started \cup Finishing \cup {sweeping} \cup Logged(Terminal)

\* What list returned is closed: nothing kept is missing between the cursor and its
\* last event.
BatchSound ==
    /\ batch # {} => \E n \in batch : \A m \in batch : m <= n
    /\ \A m \in batch : \A n \in 1 .. m : n > cursor /\ n > dropped => n \in batch

------------------------------------------------------------------------------
\* An event goes to the end of the trace.
LEMMA RecordTypes ==
  ASSUME log \in Seq(Calls \X Kinds), dropped \in 0 .. Len(log),
         NEW c \in Calls, NEW k \in Kinds, Record(c, k)
  PROVE  /\ log' \in Seq(Calls \X Kinds)
         /\ Len(log') = Len(log) + 1
         /\ log'[Len(log) + 1] = <<c, k>>
         /\ \A n \in 1 .. Len(log) : log'[n] = log[n]
         /\ dropped' \in dropped .. Len(log')
  BY DEF Record

\* What is typed by the length of the trace.
Traced ==
    /\ log \in Seq(Calls \X Kinds)
    /\ dropped \in 0 .. Len(log)
    /\ batch \in SUBSET (1 .. Len(log))
    /\ cursor \in 0 .. Len(log)
    /\ sent \in SUBSET (1 .. Len(log))

\* The stream's numbers remain numbers of events.
LEMMA RecordTraced ==
  ASSUME Traced, NEW c \in Calls, NEW k \in Kinds, Record(c, k), UNCHANGED stream
  PROVE  Traced'
<1>1. /\ log' \in Seq(Calls \X Kinds) /\ Len(log') = Len(log) + 1 /\ Len(log) \in Nat
      /\ dropped' \in dropped .. Len(log')
  BY RecordTypes DEF Traced
<1>2. 1 .. Len(log) \subseteq 1 .. Len(log') /\ 0 .. Len(log) \subseteq 0 .. Len(log')
  BY <1>1
<1>3. dropped' \in 0 .. Len(log')
  BY <1>1 DEF Traced
<1> QED BY <1>1, <1>2, <1>3 DEF Traced, stream

\* Whether or not a failing append was committed.
LEMMA RecordFailsTraced ==
  ASSUME Traced, NEW c \in Calls, NEW k \in Kinds, RecordFails(c, k), UNCHANGED stream
  PROVE  Traced'
<1>1. CASE UNCHANGED trace
  BY <1>1 DEF Traced, trace, stream
<1>2. CASE Record(c, k)
  BY <1>2, RecordTraced
<1> QED BY <1>1, <1>2 DEF RecordFails

\* It adds its call to the calls with an event of that kind.
LEMMA RecordLogs ==
  ASSUME log \in Seq(Calls \X Kinds), dropped \in 0 .. Len(log),
         NEW c \in Calls, NEW k \in Kinds, Record(c, k), NEW ks
  PROVE  Logged(ks)' = Logged(ks) \cup (IF k \in ks THEN {c} ELSE {})
<1>1. /\ Len(log') = Len(log) + 1
      /\ Len(log) \in Nat
      /\ log'[Len(log) + 1] = <<c, k>>
      /\ \A n \in 1 .. Len(log) : log'[n] = log[n]
  BY RecordTypes
<1>2. 1 .. Len(log') = (1 .. Len(log)) \cup {Len(log) + 1}
  BY <1>1
<1>3. /\ log'[Len(log) + 1][1] = c
      /\ log'[Len(log) + 1][2] = k
  BY <1>1
<1>4. ASSUME NEW d PROVE d \in Logged(ks)' <=> d \in Logged(ks) \/ (k \in ks /\ d = c)
  <2>1. d \in Logged(ks)' <=> \E n \in 1 .. Len(log') : log'[n][2] \in ks /\ log'[n][1] = d
    BY DEF Logged
  <2>2. d \in Logged(ks) <=> \E n \in 1 .. Len(log) : log[n][2] \in ks /\ log[n][1] = d
    BY DEF Logged
  <2> QED BY <1>1, <1>2, <1>3, <2>1, <2>2
<1> QED BY <1>4

\* Beginning to finish a call, or capturing its result.
LEMMA FinishTypes ==
  ASSUME TypeOK, NEW c \in Calls, NEW k \in Terminal, BeginFinish(c, k)
  PROVE  /\ call' \in [Calls -> {"idle", "over"} \cup Waiting]
         /\ kind' \in [Calls -> Terminal \cup {None}]
         /\ started' \in SUBSET Calls
  BY DEF TypeOK, BeginFinish, Goto, TakeEntry, Waiting

\* The empty run.
LEMMA InitCalls == Init => CallsInv
<1> SUFFICES ASSUME Init PROVE CallsInv
  OBVIOUS
<1>1. TypeOK
  BY BoundsAssumption DEF Init, TypeOK
<1>2. Reserved
  <2>1. Savers = {} /\ evidence = {} /\ pending = 0
    BY DEF Init, Savers
  <2> QED BY <2>1, FS_EmptySet, BoundsAssumption DEF Reserved
<1>3. SweepSound /\ \A c \in Calls : CallSound(c)
  BY DEF Init, SweepSound, CallSound
<1> QED BY <1>1, <1>2, <1>3 DEF CallsInv

\* The calls that are saving, and the items of evidence, can be counted.
LEMMA Countable ==
  ASSUME TypeOK
  PROVE  /\ IsFiniteSet(Savers) /\ IsFiniteSet(evidence)
         /\ Cardinality(Savers) \in Nat /\ Cardinality(evidence) \in Nat
<1>1. IsFiniteSet(Savers) /\ IsFiniteSet(evidence)
  BY FS_Subset, CallsAssumption DEF Savers, TypeOK
<1> QED BY <1>1, FS_CardinalityType

\* A step in which nobody begins or ends a save keeps the reservations.
LEMMA ReservedKept ==
  ASSUME TypeOK, Reserved, UNCHANGED <<pending, evidence>>, Savers' = Savers
  PROVE  Reserved'
  BY DEF Reserved

\* So does a save that is reserved within the limit...
LEMMA SaveReserved ==
  ASSUME TypeOK, Reserved, NEW c \in Calls, c \notin Savers, Savers' = Savers \cup {c},
         pending' = pending + 1, UNCHANGED evidence, Cardinality(evidence) + pending < MaxEvidence
  PROVE  Reserved'
<1>1. Cardinality(Savers \cup {c}) = Cardinality(Savers) + 1
  BY Countable, FS_AddElement
<1> QED BY <1>1, Countable, BoundsAssumption DEF Reserved

\* ... and one that ends, with or without an item of evidence.
LEMMA SaveReleased ==
  ASSUME TypeOK, Reserved, NEW c \in Savers, Savers' = Savers \ {c},
         pending' = pending - 1, evidence' \in {evidence, evidence \cup {c}}
  PROVE  Reserved' /\ pending' \in Nat
<1>1. Cardinality(Savers \ {c}) = Cardinality(Savers) - 1
  BY Countable, FS_RemoveElement
<1>2. Cardinality(Savers \ {c}) \in Nat
  BY Countable, FS_RemoveElement, FS_CardinalityType
<1>3. Cardinality(evidence') \in {Cardinality(evidence), Cardinality(evidence) + 1}
  <2>1. IsFiniteSet(evidence)
    BY Countable
  <2>2. Cardinality(evidence \cup {c}) \in {Cardinality(evidence), Cardinality(evidence) + 1}
    BY <2>1, FS_AddElement
  <2> QED BY <2>2
<1> QED BY <1>1, <1>2, <1>3, Countable, BoundsAssumption DEF Reserved

\* Proposing, admitting and starting a call.
LEMMA StartCalls ==
  ASSUME CallsInv, NEW c \in Calls, Propose(c) \/ Admit(c) \/ RecordStart(c)
  PROVE  CallsInv'
<1>0. /\ call \in [Calls -> {"idle", "over"} \cup Waiting]
      /\ started \subseteq Calls
      /\ phase = "work" /\ todo = {} /\ sweeping = None
      /\ UNCHANGED <<phase, todo, sweeping, kind, evidence, pending>>
  BY DEF CallsInv, TypeOK, SweepSound, Propose, Admit, RecordStart, sweep
<1>1. TypeOK'
  <2>1. CASE Propose(c)
    BY <2>1 DEF CallsInv, TypeOK, Propose, Goto, Waiting, trace, sweep, stream
  <2>2. CASE Admit(c)
    BY <2>2 DEF CallsInv, TypeOK, Admit, Goto, Waiting, trace, sweep, stream
  <2>3. CASE RecordStart(c)
    <3>1. Traced'
      BY <2>3, RecordTraced, RecordFailsTraced DEF CallsInv, TypeOK, Traced, Kinds, RecordStart
    <3> QED BY <2>3, <3>1 DEF CallsInv, TypeOK, Traced, RecordStart, Goto, Waiting, sweep, stream
  <2> QED BY <2>1, <2>2, <2>3
<1>2. Savers' = Savers
  BY <1>0 DEF Propose, Admit, RecordStart, Goto, Savers
<1>3. Reserved'
  BY <1>0, <1>2, ReservedKept DEF CallsInv
<1>4. SweepSound'
  BY <1>0 DEF SweepSound
<1>5. \A d \in Calls : CallSound(d)'
  BY <1>0 DEF CallsInv, CallSound, Propose, Admit, RecordStart, Goto
<1> QED BY <1>1, <1>3, <1>4, <1>5 DEF CallsInv

\* A connector answers.
LEMMA ReturnCalls ==
  ASSUME CallsInv, NEW c \in Calls, ToolReturns(c)
  PROVE  CallsInv'
<1>0. /\ call \in [Calls -> {"idle", "over"} \cup Waiting] /\ call[c] = "running"
      /\ kind \in [Calls -> Terminal \cup {None}]
      /\ started \subseteq Calls /\ c \in started /\ c \notin Savers
      /\ phase = "work" /\ todo = {} /\ sweeping = None
      /\ UNCHANGED <<phase, todo, sweeping, evidence>>
  BY DEF CallsInv, TypeOK, SweepSound, CallSound, Savers, ToolReturns, sweep
<1>1. SweepSound'
  BY <1>0 DEF SweepSound
<1>2. CASE BeginFinish(c, "tool_failed") /\ UNCHANGED pending
  <2>1. TypeOK'
    BY <1>2, FinishTypes DEF CallsInv, TypeOK, ToolReturns, Terminal, trace, sweep, stream
  <2>2. Savers' = Savers
    BY <1>0, <1>2 DEF BeginFinish, Goto, Savers
  <2>3. \A d \in Calls : CallSound(d)'
    BY <1>0, <1>2 DEF CallsInv, CallSound, BeginFinish, Goto, TakeEntry, Terminal
  <2> QED BY <1>0, <1>1, <1>2, <2>1, <2>2, <2>3, ReservedKept DEF CallsInv
<1>3. CASE /\ ~(Cardinality(evidence) + pending >= MaxEvidence)
           /\ Goto(c, "saving") /\ pending' = pending + 1 /\ UNCHANGED <<kind, started>>
  <2>1. TypeOK'
    BY <1>3 DEF CallsInv, TypeOK, ToolReturns, Goto, Waiting, trace, sweep, stream
  <2>2. Savers' = Savers \cup {c}
    BY <1>0, <1>3 DEF Goto, Savers
  <2>3. Cardinality(evidence) + pending < MaxEvidence
    BY <1>3, Countable, BoundsAssumption DEF CallsInv, TypeOK
  <2>4. Reserved'
    BY <1>0, <1>3, <2>2, <2>3, SaveReserved DEF CallsInv
  <2>5. \A d \in Calls : CallSound(d)'
    BY <1>0, <1>3 DEF CallsInv, CallSound, Goto
  <2> QED BY <1>1, <2>1, <2>4, <2>5 DEF CallsInv
<1> QED BY <1>2, <1>3 DEF ToolReturns, Capture, Reservation

\* The two statements of a save.
LEMMA SaveCalls ==
  ASSUME CallsInv, NEW c \in Calls, SaveChecks(c) \/ SaveInserts(c)
  PROVE  CallsInv'
<1>0. /\ call \in [Calls -> {"idle", "over"} \cup Waiting] /\ c \in Savers
      /\ kind \in [Calls -> Terminal \cup {None}]
      /\ started \subseteq Calls /\ c \in started
      /\ phase = "work" /\ todo = {} /\ sweeping = None
      /\ UNCHANGED <<phase, todo, sweeping>>
  BY DEF CallsInv, TypeOK, SweepSound, CallSound, Savers, SaveChecks, SaveInserts, sweep
<1>1. SweepSound'
  BY <1>0 DEF SweepSound
<1>2. CASE SaveChecks(c) /\ open
  <2>1. Goto(c, "inserting") /\ UNCHANGED <<kind, started, pending, evidence>>
    BY <1>2 DEF SaveChecks
  <2>2. TypeOK'
    BY <1>2, <2>1 DEF CallsInv, TypeOK, SaveChecks, Goto, Waiting, trace, sweep, stream
  <2>3. Savers' = Savers
    BY <1>0, <2>1 DEF Goto, Savers
  <2>4. \A d \in Calls : CallSound(d)'
    BY <1>0, <2>1 DEF CallsInv, CallSound, Goto
  <2> QED BY <1>1, <2>1, <2>2, <2>3, <2>4, ReservedKept DEF CallsInv
<1>3. ASSUME NEW k \in {"tool_failed", "tool_completed"}, BeginFinish(c, k),
             pending' = pending - 1, evidence' \in {evidence, evidence \cup {c}},
             k = "tool_completed" => c \in evidence',
             saved' \in SUBSET Calls,
             UNCHANGED <<open, phase, proposed, trace, sweep, stream>>
      PROVE  CallsInv'
  <2>1. Savers' = Savers \ {c}
    BY <1>0, <1>3 DEF BeginFinish, Goto, Savers
  <2>2. Reserved' /\ pending' \in Nat
    BY <1>0, <1>3, <2>1, SaveReleased DEF CallsInv
  <2>3. evidence' \in SUBSET Calls
    BY <1>3 DEF CallsInv, TypeOK
  <2>4. TypeOK'
    BY <1>3, <2>2, <2>3, FinishTypes DEF CallsInv, TypeOK, Terminal, trace, sweep, stream
  <2>5. \A d \in Calls : CallSound(d)'
    BY <1>0, <1>3 DEF CallsInv, CallSound, BeginFinish, Goto, TakeEntry, Terminal
  <2> QED BY <1>1, <2>2, <2>4, <2>5 DEF CallsInv
<1>4. CASE SaveChecks(c) /\ ~open
  BY <1>3, <1>4 DEF SaveChecks, CallsInv, TypeOK
<1>5. CASE SaveInserts(c)
  <2>1. saved' \in SUBSET Calls
    BY <1>5 DEF SaveInserts, CallsInv, TypeOK
  <2>2. CASE BeginFinish(c, "tool_completed") /\ evidence' = evidence \cup {c}
    BY <1>3, <1>5, <2>1, <2>2 DEF SaveInserts
  <2>3. CASE BeginFinish(c, "tool_failed") /\ UNCHANGED evidence
    BY <1>3, <1>5, <2>1, <2>3 DEF SaveInserts
  <2> QED BY <1>5, <2>2, <2>3 DEF SaveInserts
<1> QED BY <1>2, <1>4, <1>5

\* The end of a call is appended, or is not.
LEMMA FinishCalls ==
  ASSUME CallsInv, NEW c \in Calls, FinishTool(c)
  PROVE  CallsInv'
<1>0. /\ call \in [Calls -> {"idle", "over"} \cup Waiting] /\ call[c] = "finishing"
      /\ kind[c] \in Kinds
      /\ started \subseteq Calls /\ started' \subseteq Calls
      /\ phase = "work" /\ todo = {} /\ sweeping = None
      /\ call' = [call EXCEPT ![c] = "over"]
      /\ started' \in {started, started \cup {c}}
      /\ UNCHANGED <<phase, todo, sweeping, kind, evidence, pending>>
  BY DEF CallsInv, TypeOK, SweepSound, CallSound, FinishTool, Goto, PutBack, Kinds, sweep
<1>1. TypeOK'
  <2>1. Traced'
    BY <1>0, RecordTraced, RecordFailsTraced DEF CallsInv, TypeOK, Traced, FinishTool
  <2> QED BY <1>0, <2>1 DEF CallsInv, TypeOK, Traced, FinishTool, sweep, stream
<1>2. Savers' = Savers
  BY <1>0 DEF Savers
<1>3. Reserved'
  BY <1>0, <1>2, ReservedKept DEF CallsInv
<1>4. SweepSound'
  BY <1>0 DEF SweepSound
<1>5. \A d \in Calls : CallSound(d)'
  BY <1>0 DEF CallsInv, CallSound
<1> QED BY <1>1, <1>3, <1>4, <1>5 DEF CallsInv

\* A waiting call is cancelled where it is.
LEMMA InterruptCalls ==
  ASSUME CallsInv, NEW c \in Calls, Interrupt(c)
  PROVE  CallsInv'
<1>0. /\ call \in [Calls -> {"idle", "over"} \cup Waiting] /\ call[c] \in Waiting
      /\ started \subseteq Calls /\ started' \subseteq Calls
      /\ phase = "ending" /\ todo = {} /\ sweeping = None
      /\ call' = [call EXCEPT ![c] = "over"]
      /\ started' \in {started, started \cup {c}}
      /\ UNCHANGED <<open, phase, proposed, todo, sweeping, kind, evidence>>
  BY DEF CallsInv, TypeOK, SweepSound, Interrupt, Goto, PutBack, sweep
<1>1. Reserved' /\ pending' \in Nat
  <2>1. CASE c \in Savers
    <3>1. Savers' = Savers \ {c} /\ pending' = pending - 1
      BY <1>0, <2>1 DEF Savers, Interrupt
    <3> QED BY <1>0, <2>1, <3>1, SaveReleased DEF CallsInv
  <2>2. CASE c \notin Savers
    <3>1. Savers' = Savers /\ UNCHANGED pending
      BY <1>0, <2>2 DEF Savers, Interrupt, Waiting
    <3> QED BY <1>0, <3>1, ReservedKept DEF CallsInv, TypeOK
  <2> QED BY <2>1, <2>2
<1>2. Traced'
  <2>1. CASE call[c] = "starting"
    BY <2>1, RecordFailsTraced DEF CallsInv, TypeOK, Traced, Kinds, Interrupt
  <2>2. CASE call[c] = "finishing"
    <3>1. kind[c] \in Kinds
      BY <2>2 DEF CallsInv, CallSound, Kinds
    <3> QED BY <2>2, <3>1, RecordFailsTraced DEF CallsInv, TypeOK, Traced, Interrupt
  <2>3. CASE call[c] \notin {"starting", "finishing"}
    BY <2>3 DEF CallsInv, TypeOK, Traced, Interrupt, trace, stream
  <2> QED BY <2>1, <2>2, <2>3
<1>3. saved' \in SUBSET Calls
  BY DEF Interrupt, CallsInv, TypeOK
<1>4. TypeOK'
  BY <1>0, <1>1, <1>2, <1>3 DEF CallsInv, TypeOK, Traced, Interrupt, stream
<1>5. SweepSound'
  BY <1>0 DEF SweepSound
<1>6. \A d \in Calls : CallSound(d)'
  BY <1>0 DEF CallsInv, CallSound
<1> QED BY <1>1, <1>4, <1>5, <1>6 DEF CallsInv

\* The run's own steps before and after the sweep.
LEMMA PhaseCalls ==
  ASSUME CallsInv, CloseRow \/ StopWork \/ BeginCleanup \/ Abandon \/ FinishRun
  PROVE  CallsInv'
<1>0. /\ UNCHANGED <<call, kind, started, evidence, pending, proposed, saved, trace, stream, sweeping>>
      /\ open' \in BOOLEAN
      /\ phase' \in {"work", "ending", "cleanup"} \cup Ended
      /\ todo' \in SUBSET Calls
  BY DEF CallsInv, TypeOK, CloseRow, StopWork, BeginCleanup, Abandon, FinishRun, governance, sweep, Ended
<1>1. TypeOK'
  BY <1>0 DEF CallsInv, TypeOK, trace, stream
<1>2. Savers' = Savers
  BY <1>0 DEF Savers
<1>3. Reserved'
  BY <1>0, <1>2, ReservedKept DEF CallsInv
<1>4. \A d \in Calls : CallSound(d)'
  BY <1>0 DEF CallsInv, CallSound
<1>5. SweepSound'
  <2>1. CASE CloseRow
    BY <2>1 DEF CallsInv, SweepSound, CloseRow, governance, sweep
  <2>2. CASE StopWork
    BY <2>2 DEF CallsInv, SweepSound, StopWork, governance, sweep
  <2>3. CASE BeginCleanup
    BY <2>3 DEF CallsInv, SweepSound, BeginCleanup, governance
  <2>4. CASE Abandon
    BY <2>4 DEF CallsInv, SweepSound, Abandon, governance, sweep
  <2>5. CASE FinishRun
    BY <2>5 DEF CallsInv, SweepSound, FinishRun, governance, sweep, Ended
  <2> QED BY <2>1, <2>2, <2>3, <2>4, <2>5
<1> QED BY <1>1, <1>3, <1>4, <1>5 DEF CallsInv

\* The sweep.
LEMMA SweepCalls ==
  ASSUME CallsInv, NEW c \in Calls, SweepTakes(c) \/ SweepRecords(c)
  PROVE  CallsInv'
<1>0. /\ UNCHANGED <<open, call, kind, evidence, pending, proposed, saved, stream>>
      /\ phase' \in {phase, "raised"} /\ (phase' # phase => phase = "cleanup")
      /\ phase \notin {"work", "ending"} /\ call[c] = "over"
      /\ started \subseteq Calls
  <2>1. c # None
    BY CallsAssumption
  <2>2. phase \notin {"work", "ending"}
    BY <2>1 DEF CallsInv, SweepSound, SweepTakes, SweepRecords
  <2>3. call[c] = "over"
    <3>1. CASE SweepTakes(c)
      <4>1. c \in started /\ call[c] \notin Waiting /\ call[c] # "idle"
        BY <2>2, <3>1 DEF CallsInv, SweepSound, CallSound, SweepTakes
      <4> QED BY <4>1 DEF CallsInv, TypeOK
    <3>2. CASE SweepRecords(c)
      BY <2>1, <3>2 DEF CallsInv, SweepSound, SweepRecords
    <3> QED BY <3>1, <3>2
  <2> QED BY <2>2, <2>3 DEF CallsInv, TypeOK, SweepTakes, SweepRecords
<1>1. Traced'
  <2>1. CASE SweepTakes(c)
    BY <2>1 DEF CallsInv, TypeOK, Traced, SweepTakes, trace, stream
  <2>2. CASE SweepRecords(c)
    BY <2>2, RecordTraced, RecordFailsTraced
       DEF CallsInv, TypeOK, Traced, SweepRecords, Kinds, Terminal
  <2> QED BY <2>1, <2>2
<1>2. TypeOK'
  <2>1. CASE SweepTakes(c)
    BY <1>0, <1>1, <2>1 DEF CallsInv, TypeOK, Traced, SweepTakes, TakeEntry, stream
  <2>2. CASE SweepRecords(c)
    BY <1>0, <1>1, <2>2 DEF CallsInv, TypeOK, Traced, SweepRecords, LeaveRest, PutBack, Ended, stream
  <2> QED BY <2>1, <2>2
<1>3. Savers' = Savers
  BY <1>0 DEF Savers
<1>4. Reserved'
  BY <1>0, <1>3, ReservedKept DEF CallsInv
<1>5. \A d \in Calls : CallSound(d)'
  BY <1>0 DEF CallsInv, CallSound, SweepTakes, SweepRecords, TakeEntry, PutBack
<1>6. SweepSound'
  <2>1. CASE SweepTakes(c)
    BY <1>0, <2>1 DEF CallsInv, SweepSound, SweepTakes, TakeEntry
  <2>2. CASE SweepRecords(c)
    BY <1>0, <2>2, CallsAssumption DEF CallsInv, SweepSound, SweepRecords, LeaveRest, PutBack
  <2> QED BY <2>1, <2>2
<1> QED BY <1>2, <1>4, <1>5, <1>6 DEF CallsInv

\* The cursor follows the last event of the batch.
LEMMA LastSentSound ==
  ASSUME TypeOK, BatchSound
  PROVE  /\ LastSent \in 0 .. Len(log)
         /\ batch = {} => LastSent = cursor
         /\ batch # {} => LastSent \in batch /\ \A m \in batch : m <= LastSent
<1>1. CASE batch = {}
  BY <1>1 DEF LastSent, TypeOK
<1>2. CASE batch # {}
  <2>1. PICK n \in batch : \A m \in batch : m <= n
    BY <1>2 DEF BatchSound
  <2>2. LastSent \in batch /\ \A m \in batch : m <= LastSent
    BY <1>2, <2>1 DEF LastSent
  <2>3. batch \subseteq 0 .. Len(log)
    BY DEF TypeOK
  <2> QED BY <1>2, <2>2, <2>3
<1> QED BY <1>1, <1>2

\* The stream only reads.
LEMMA StreamCalls ==
  ASSUME CallsInv, BatchSound, StreamStep \/ StreamCloses
  PROVE  CallsInv'
<1>0. UNCHANGED <<open, phase, governance, trace, sweep>>
  BY DEF StreamStep, StreamLooks, StreamLists, StreamEmits, StreamCloses
<1>1. TypeOK'
  <2>1. CASE StreamLooks \/ StreamCloses
    BY <1>0, <2>1 DEF CallsInv, TypeOK, StreamLooks, StreamCloses, governance, trace, sweep
  <2>2. CASE StreamLists
    BY <1>0, <2>2 DEF CallsInv, TypeOK, StreamLists, governance, trace, sweep
  <2>3. CASE StreamEmits
    <3>1. cursor' \in 0 .. Len(log)
      BY <2>3, LastSentSound DEF StreamEmits, CallsInv
    <3> QED BY <1>0, <2>3, <3>1 DEF CallsInv, TypeOK, StreamEmits, governance, trace, sweep
  <2> QED BY <2>1, <2>2, <2>3 DEF StreamStep
<1>2. Savers' = Savers
  BY <1>0 DEF Savers, governance
<1>3. Reserved'
  BY <1>0, <1>2, ReservedKept DEF CallsInv, governance
<1>4. SweepSound'
  BY <1>0 DEF CallsInv, SweepSound, governance, sweep
<1>5. \A d \in Calls : CallSound(d)'
  BY <1>0 DEF CallsInv, CallSound, governance
<1> QED BY <1>1, <1>3, <1>4, <1>5 DEF CallsInv

\* All steps of the run and of the stream.
LEMMA NextCalls == CallsInv /\ BatchSound /\ [Next]_vars => CallsInv'
<1> SUFFICES ASSUME CallsInv, BatchSound, [Next]_vars PROVE CallsInv'
  OBVIOUS
<1>1. ASSUME NEW c \in Calls, CallStep(c) PROVE CallsInv'
  BY <1>1, StartCalls, ReturnCalls, SaveCalls, FinishCalls DEF CallStep
<1>2. CASE EndStep
  BY <1>2, PhaseCalls, InterruptCalls, SweepCalls DEF EndStep
<1>3. CASE Abandon \/ CloseRow
  BY <1>3, PhaseCalls
<1>4. CASE StreamStep \/ StreamCloses
  BY <1>4, StreamCalls
<1>5. CASE UNCHANGED vars
  BY <1>5 DEF vars, governance, trace, sweep, stream, CallsInv, TypeOK, Reserved, Savers,
              SweepSound, CallSound
<1> QED BY <1>1, <1>2, <1>3, <1>4, <1>5 DEF Next

------------------------------------------------------------------------------
\* Whoever appends something else than a completion, and nobody appends a completion
\* without its evidence.
LEMMA TraceSteps ==
  ASSUME CallsInv, [Next]_vars
  PROVE  \/ UNCHANGED trace
         \/ /\ UNCHANGED stream
            /\ \E c \in Calls, k \in Kinds :
                 Record(c, k) /\ (k = "tool_completed" => c \in evidence)
<1>1. ASSUME NEW c \in Calls, call[c] = "finishing"
      PROVE  kind[c] \in Kinds /\ (kind[c] = "tool_completed" => c \in evidence)
  BY <1>1 DEF CallsInv, CallSound, Kinds
<1>2. ASSUME NEW c \in Calls, CallStep(c)
      PROVE  \/ UNCHANGED trace
             \/ UNCHANGED stream /\ \E k \in Kinds : Record(c, k) /\ (k = "tool_completed" => c \in evidence)
  <2>1. CASE Propose(c) \/ Admit(c) \/ ToolReturns(c) \/ SaveChecks(c) \/ SaveInserts(c)
    BY <2>1 DEF Propose, Admit, ToolReturns, SaveChecks, SaveInserts
  <2>2. CASE RecordStart(c)
    <3>1. UNCHANGED trace \/ Record(c, "tool_started")
      BY <2>2 DEF RecordStart, RecordFails
    <3>2. UNCHANGED stream /\ "tool_started" \in Kinds
      BY <2>2 DEF RecordStart, Kinds
    <3> QED BY <3>1, <3>2
  <2>3. CASE FinishTool(c)
    <3>1. UNCHANGED trace \/ Record(c, kind[c])
      BY <2>3 DEF FinishTool, RecordFails
    <3> QED BY <1>1, <2>3, <3>1 DEF FinishTool
  <2> QED BY <1>2, <2>1, <2>2, <2>3 DEF CallStep
<1>3. ASSUME NEW c \in Calls, Interrupt(c)
      PROVE  \/ UNCHANGED trace
             \/ UNCHANGED stream /\ \E k \in Kinds : Record(c, k) /\ (k = "tool_completed" => c \in evidence)
  <2>1. CASE call[c] = "starting"
    <3>1. UNCHANGED trace \/ Record(c, "tool_started")
      BY <1>3, <2>1 DEF Interrupt, RecordFails
    <3>2. UNCHANGED stream /\ "tool_started" \in Kinds
      BY <1>3 DEF Interrupt, Kinds
    <3> QED BY <3>1, <3>2
  <2>2. CASE call[c] = "finishing"
    <3>1. UNCHANGED trace \/ Record(c, kind[c])
      BY <1>3, <2>2 DEF Interrupt, RecordFails
    <3> QED BY <1>1, <1>3, <2>2, <3>1 DEF Interrupt
  <2>3. CASE call[c] \notin {"starting", "finishing"}
    BY <1>3, <2>3 DEF Interrupt
  <2> QED BY <2>1, <2>2, <2>3
<1>4. ASSUME NEW c \in Calls, SweepRecords(c)
      PROVE  \/ UNCHANGED trace
             \/ UNCHANGED stream /\ \E k \in Kinds : Record(c, k) /\ (k = "tool_completed" => c \in evidence)
  <2>1. UNCHANGED trace \/ Record(c, "tool_stopped")
    BY <1>4 DEF SweepRecords, RecordFails
  <2>2. UNCHANGED stream /\ "tool_stopped" \in Kinds
    BY <1>4 DEF SweepRecords, Kinds, Terminal
  <2> QED BY <2>1, <2>2
<1>5. CASE StopWork \/ BeginCleanup \/ FinishRun \/ Abandon \/ CloseRow
           \/ StreamStep \/ StreamCloses \/ UNCHANGED vars \/ \E c \in Calls : SweepTakes(c)
  BY <1>5 DEF StopWork, BeginCleanup, FinishRun, Abandon, CloseRow, StreamStep, StreamLooks,
              StreamLists, StreamEmits, StreamCloses, SweepTakes, vars
<1> QED BY <1>2, <1>3, <1>4, <1>5 DEF Next, EndStep

\* Evidence and its rows are only added, the row first.
LEMMA EvidenceSteps ==
  ASSUME CallsInv, evidence \subseteq saved, [Next]_vars
  PROVE  evidence \subseteq evidence' /\ evidence' \subseteq saved'
<1>1. ASSUME NEW c \in Calls, CallStep(c)
      PROVE  evidence \subseteq evidence' /\ evidence' \subseteq saved'
  BY <1>1 DEF CallStep, Propose, Admit, RecordStart, ToolReturns, SaveChecks, SaveInserts, FinishTool
<1>2. ASSUME NEW c \in Calls, Interrupt(c) \/ SweepTakes(c) \/ SweepRecords(c)
      PROVE  evidence \subseteq evidence' /\ evidence' \subseteq saved'
  BY <1>2 DEF Interrupt, SweepTakes, SweepRecords
<1>3. CASE StopWork \/ BeginCleanup \/ FinishRun \/ Abandon \/ CloseRow
           \/ StreamStep \/ StreamCloses \/ UNCHANGED vars
  BY <1>3 DEF StopWork, BeginCleanup, FinishRun, Abandon, CloseRow, StreamStep, StreamLooks,
              StreamLists, StreamEmits, StreamCloses, vars, governance
<1> QED BY <1>1, <1>2, <1>3 DEF Next, EndStep

\* A completion is appended for an item of evidence.
LEMMA NextEvidence == CallsInv /\ EvidenceFirst /\ [Next]_vars => EvidenceFirst'
<1> SUFFICES ASSUME CallsInv, EvidenceFirst, [Next]_vars PROVE EvidenceFirst'
  OBVIOUS
<1>1. evidence \subseteq evidence' /\ evidence' \subseteq saved'
  BY EvidenceSteps DEF EvidenceFirst
<1>2. CASE UNCHANGED trace
  BY <1>1, <1>2 DEF EvidenceFirst, Logged, trace
<1>3. CASE \E c \in Calls, k \in Kinds : Record(c, k) /\ (k = "tool_completed" => c \in evidence)
  <2>1. PICK c \in Calls, k \in Kinds : Record(c, k) /\ (k = "tool_completed" => c \in evidence)
    BY <1>3
  <2>2. Logged({"tool_completed"})'
          = Logged({"tool_completed"}) \cup (IF k \in {"tool_completed"} THEN {c} ELSE {})
    BY <2>1, RecordLogs DEF CallsInv, TypeOK
  <2> QED BY <1>1, <2>1, <2>2 DEF EvidenceFirst
<1> QED BY <1>2, <1>3, TraceSteps

------------------------------------------------------------------------------
\* The stream, and the events pruned behind it.
LEMMA NextBatch == CallsInv /\ BatchSound /\ NoGaps /\ [Next]_vars => BatchSound' /\ NoGaps'
<1> SUFFICES ASSUME CallsInv, BatchSound, NoGaps, [Next]_vars PROVE BatchSound' /\ NoGaps'
  OBVIOUS
<1>0. /\ Len(log) \in Nat /\ dropped \in Nat /\ cursor \in Nat
      /\ batch \subseteq 1 .. Len(log)
  BY DEF CallsInv, TypeOK
<1>1. CASE UNCHANGED stream
  <2>1. dropped' \in Nat /\ dropped <= dropped'
    <3>1. CASE UNCHANGED trace
      BY <1>0, <3>1 DEF trace
    <3>2. CASE \E c \in Calls, k \in Kinds : Record(c, k)
      BY <1>0, <3>2 DEF Record
    <3> QED BY <3>1, <3>2, TraceSteps
  <2> QED BY <1>0, <1>1, <2>1 DEF BatchSound, NoGaps, stream
<1>2. CASE StreamLooks \/ StreamCloses
  BY <1>2 DEF BatchSound, NoGaps, StreamLooks, StreamCloses, trace
<1>3. CASE StreamLists
  <2>1. /\ batch' = {n \in 1 .. Len(log) : n > cursor /\ n > dropped}
        /\ UNCHANGED <<cursor, sent, dropped>>
    BY <1>3 DEF StreamLists, trace
  <2>2. batch' # {} => Len(log) \in batch' /\ \A m \in batch' : m <= Len(log)
    BY <1>0, <2>1
  <2>3. \A m \in batch' : \A n \in 1 .. m : n > cursor /\ n > dropped => n \in batch'
    BY <1>0, <2>1
  <2> QED BY <2>1, <2>2, <2>3 DEF BatchSound, NoGaps
<1>4. CASE StreamEmits
  <2>1. batch' = {} /\ sent' = sent \cup batch /\ cursor' = LastSent /\ UNCHANGED dropped
    BY <1>4 DEF StreamEmits, trace
  <2>2. BatchSound'
    BY <2>1 DEF BatchSound
  <2>3. ASSUME NEW n \in 1 .. LastSent, n \notin sent, n \notin batch
        PROVE  n \in 1 .. dropped
    <3>1. CASE n \in 1 .. cursor
      BY <2>3, <3>1 DEF NoGaps
    <3>2. CASE n \notin 1 .. cursor
      <4>1. batch # {} /\ LastSent \in batch
        BY <3>2, LastSentSound DEF CallsInv
      <4>2. n > cursor /\ n \in Nat /\ n >= 1
        BY <1>0, <3>2, <4>1
      <4> QED BY <1>0, <2>3, <4>1, <4>2 DEF BatchSound
    <3> QED BY <3>1, <3>2
  <2>4. NoGaps'
    BY <2>1, <2>3 DEF NoGaps
  <2> QED BY <2>2, <2>4
<1>5. UNCHANGED stream \/ StreamLooks \/ StreamCloses \/ StreamLists \/ StreamEmits
  BY DEF Next, EndStep, CallStep, StreamStep, Propose, Admit, RecordStart, ToolReturns, SaveChecks,
         SaveInserts, FinishTool, Interrupt, SweepTakes, SweepRecords, StopWork, BeginCleanup,
         FinishRun, Abandon, CloseRow, vars
<1> QED BY <1>1, <1>2, <1>3, <1>4, <1>5

------------------------------------------------------------------------------
\* The calls in the trace are calls.
LEMMA LoggedCalls ==
  ASSUME TypeOK, NEW ks
  PROVE  Logged(ks) \subseteq Calls
  BY DEF TypeOK, Logged

\* An event only adds calls, and adds its own.
LEMMA TraceLogs ==
  ASSUME TypeOK, NEW c \in Calls, NEW k \in Kinds, UNCHANGED trace \/ Record(c, k), NEW ks
  PROVE  /\ Logged(ks)' \in {Logged(ks), Logged(ks) \cup {c}}
         /\ k \notin ks => Logged(ks)' = Logged(ks)
         /\ Record(c, k) /\ k \in ks => c \in Logged(ks)'
<1>1. CASE Record(c, k)
  <2>1. log \in Seq(Calls \X Kinds) /\ dropped \in 0 .. Len(log)
    BY DEF TypeOK
  <2>2. Logged(ks)' = Logged(ks) \cup (IF k \in ks THEN {c} ELSE {})
    BY <1>1, <2>1, RecordLogs
  <2> QED BY <2>2
<1>2. CASE UNCHANGED trace /\ ~Record(c, k)
  BY <1>2 DEF Logged, trace
<1> QED BY <1>1, <1>2

\* A call never leaves the account before its end is in the trace.
LEMMA NextAccounted == CallsInv /\ Accounted /\ [Next]_vars => Accounted'
<1> SUFFICES ASSUME CallsInv, Accounted, [Next]_vars PROVE Accounted'
  OBVIOUS
<1> DEFINE S == Logged({"tool_started"})
           E == Logged(Terminal)
<1>0. /\ call \in [Calls -> {"idle", "over"} \cup Waiting]
      /\ started \subseteq Calls /\ None \notin Calls
      /\ S \subseteq Calls /\ E \subseteq Calls
  BY LoggedCalls, CallsAssumption DEF CallsInv, TypeOK
<1>1. ASSUME UNCHANGED trace PROVE S' = S /\ E' = E
  BY <1>1 DEF Logged, trace
<1>2. ASSUME NEW c \in Calls, CallStep(c) PROVE Accounted'
  <2>1. CASE Propose(c) \/ Admit(c)
    <3>1. Finishing' = Finishing /\ started \subseteq started' /\ UNCHANGED <<trace, sweeping>>
      BY <1>0, <2>1 DEF Propose, Admit, Goto, Finishing, sweep
    <3> QED BY <1>1, <3>1 DEF Accounted
  <2>2. CASE RecordStart(c)
    <3>1. Finishing' = Finishing /\ UNCHANGED <<started, sweeping>> /\ c \in started
      BY <1>0, <2>2 DEF RecordStart, Goto, Finishing, sweep, CallsInv, CallSound
    <3>2. UNCHANGED trace \/ Record(c, "tool_started")
      BY <2>2 DEF RecordStart, RecordFails
    <3>3. S' \subseteq S \cup {c} /\ E' = E
      BY <3>2, TraceLogs DEF CallsInv, Kinds, Terminal
    <3> QED BY <3>1, <3>3 DEF Accounted
  <2>3. CASE ToolReturns(c) \/ SaveChecks(c) \/ SaveInserts(c)
    <3>1. UNCHANGED <<trace, sweeping>>
      BY <2>3 DEF ToolReturns, SaveChecks, SaveInserts, sweep
    <3>2. started \cup Finishing \subseteq started' \cup Finishing'
      BY <1>0, <2>3 DEF ToolReturns, SaveChecks, SaveInserts, Capture, BeginFinish, TakeEntry,
                        Goto, Finishing
    <3> QED BY <1>1, <3>1, <3>2 DEF Accounted
  <2>4. CASE FinishTool(c)
    <3>1. kind[c] \in Terminal /\ kind[c] \in Kinds /\ Finishing' = Finishing \ {c}
      BY <1>0, <2>4 DEF FinishTool, Goto, Finishing, CallsInv, CallSound, Kinds
    <3>2. UNCHANGED sweeping
      BY <2>4 DEF FinishTool, sweep
    <3>3. UNCHANGED trace \/ Record(c, kind[c])
      BY <2>4 DEF FinishTool, RecordFails
    <3>4. S' = S /\ E \subseteq E'
      BY <3>1, <3>3, TraceLogs DEF CallsInv, Terminal
    <3>5. CASE Record(c, kind[c]) /\ started \subseteq started'
      <4>1. c \in E'
        BY <3>1, <3>5, TraceLogs DEF CallsInv
      <4> QED BY <3>1, <3>2, <3>4, <3>5, <4>1 DEF Accounted
    <3>6. CASE started' = started \cup {c}
      BY <3>1, <3>2, <3>4, <3>6 DEF Accounted
    <3> QED BY <2>4, <3>5, <3>6 DEF FinishTool, PutBack
  <2> QED BY <1>2, <2>1, <2>2, <2>3, <2>4 DEF CallStep
<1>3. ASSUME NEW c \in Calls, Interrupt(c) PROVE Accounted'
  <2>0. UNCHANGED sweeping /\ started \subseteq started'
    BY <1>3 DEF Interrupt, PutBack, sweep
  <2>1. CASE call[c] = "starting"
    <3>1. Finishing' = Finishing /\ c \in started
      BY <1>0, <1>3, <2>1 DEF Interrupt, Goto, Finishing, CallsInv, CallSound
    <3>2. UNCHANGED trace \/ Record(c, "tool_started")
      BY <1>3, <2>1 DEF Interrupt, RecordFails
    <3>3. S' \subseteq S \cup {c} /\ E' = E
      BY <3>2, TraceLogs DEF CallsInv, Kinds, Terminal
    <3> QED BY <2>0, <3>1, <3>3 DEF Accounted
  <2>2. CASE call[c] = "finishing"
    <3>1. kind[c] \in Terminal /\ kind[c] \in Kinds /\ Finishing' = Finishing \ {c}
      BY <1>0, <1>3, <2>2 DEF Interrupt, Goto, Finishing, CallsInv, CallSound, Kinds
    <3>2. UNCHANGED trace \/ Record(c, kind[c])
      BY <1>3, <2>2 DEF Interrupt, RecordFails
    <3>3. S' = S /\ E \subseteq E'
      BY <3>1, <3>2, TraceLogs DEF CallsInv, Terminal
    <3>4. started' = started \cup {c}
      BY <1>3, <2>2 DEF Interrupt, PutBack
    <3> QED BY <2>0, <3>1, <3>3, <3>4 DEF Accounted
  <2>3. CASE call[c] \notin {"starting", "finishing"}
    <3>1. Finishing' = Finishing /\ UNCHANGED trace
      BY <1>0, <1>3, <2>3 DEF Interrupt, Goto, Finishing
    <3> QED BY <1>1, <2>0, <3>1 DEF Accounted
  <2> QED BY <2>1, <2>2, <2>3
<1>4. ASSUME NEW c \in Calls, SweepTakes(c) PROVE Accounted'
  <2>1. UNCHANGED <<trace, call>> /\ sweeping = None /\ sweeping' = c /\ started' = started \ {c}
    BY <1>4 DEF SweepTakes, TakeEntry
  <2>2. Finishing' = Finishing
    BY <2>1 DEF Finishing
  <2> QED BY <1>0, <1>1, <2>1, <2>2 DEF Accounted
<1>5. ASSUME NEW c \in Calls, SweepRecords(c) PROVE Accounted'
  <2>1. sweeping = c /\ sweeping' = None /\ UNCHANGED call
    BY <1>5 DEF SweepRecords
  <2>2. UNCHANGED trace \/ Record(c, "tool_stopped")
    BY <1>5 DEF SweepRecords, RecordFails
  <2>3. S' = S /\ E \subseteq E'
    BY <2>2, TraceLogs DEF CallsInv, Kinds, Terminal
  <2>4. Finishing' = Finishing
    BY <2>1 DEF Finishing
  <2>5. CASE Record(c, "tool_stopped") /\ UNCHANGED started
    <3>1. c \in E'
      BY <2>5, TraceLogs DEF CallsInv, Kinds, Terminal
    <3> QED BY <2>1, <2>3, <2>4, <2>5, <3>1 DEF Accounted
  <2>6. CASE started' = started \cup {c}
    BY <2>1, <2>3, <2>4, <2>6 DEF Accounted
  <2> QED BY <1>5, <2>5, <2>6 DEF SweepRecords, PutBack
<1>6. CASE StopWork \/ BeginCleanup \/ FinishRun \/ Abandon \/ CloseRow
           \/ StreamStep \/ StreamCloses \/ UNCHANGED vars
  <2>1. UNCHANGED <<call, started, sweeping, trace>>
    BY <1>6 DEF StopWork, BeginCleanup, FinishRun, Abandon, CloseRow, StreamStep, StreamLooks,
                StreamLists, StreamEmits, StreamCloses, vars, governance, sweep
  <2> QED BY <1>1, <2>1 DEF Accounted, Finishing
<1> QED BY <1>2, <1>3, <1>4, <1>5, <1>6 DEF Next, EndStep

\* So a run that returned has closed its trace.
LEMMA AccountedCloses ==
  ASSUME CallsInv, Accounted
  PROVE  TraceClosed
<1> SUFFICES ASSUME phase = "over" PROVE TraceClosed
  BY DEF TraceClosed
<1>1. started = {} /\ sweeping = None /\ Finishing = {}
  BY DEF CallsInv, SweepSound, Finishing, Waiting
<1>2. None \notin Logged({"tool_started"})
  BY LoggedCalls, CallsAssumption DEF CallsInv
<1> QED BY <1>1, <1>2 DEF Accounted, TraceClosed

------------------------------------------------------------------------------
\* An end goes to the end of a trace that has none of the same call, or is the sweep's first.
LEMMA OneMoreEnd ==
  ASSUME TypeOK, OneEndEach, NEW c \in Calls, NEW k \in Kinds, Record(c, k),
         k \in Terminal => c \notin Logged({"tool_stopped"}),
         k \in Terminal \ {"tool_stopped"} => c \notin Logged(Terminal)
  PROVE  OneEndEach'
<1>1. /\ Len(log) \in Nat
      /\ Len(log') = Len(log) + 1
      /\ log'[Len(log) + 1] = <<c, k>>
      /\ \A n \in 1 .. Len(log) : log'[n] = log[n]
  BY RecordTypes DEF TypeOK
<1>2. \A n \in 1 .. Len(log) : k \in Terminal /\ log[n][1] = c => log[n][2] # "tool_stopped"
  BY DEF Logged
<1>3. \A n \in 1 .. Len(log) :
        k \in Terminal /\ log[n][1] = c /\ log[n][2] \in Terminal => k = "tool_stopped"
  BY DEF Logged
<1>4. \A n \in 1 .. Len(log') : n \in 1 .. Len(log) \/ n = Len(log) + 1
  BY <1>1
<1>5. log'[Len(log) + 1][1] = c /\ log'[Len(log) + 1][2] = k
  BY <1>1
<1>6. ASSUME NEW m \in 1 .. Len(log'), NEW n \in 1 .. Len(log'), m < n,
             log'[m][1] = log'[n][1], {log'[m][2], log'[n][2]} \subseteq Terminal
      PROVE  log'[m][2] # "tool_stopped" /\ log'[n][2] = "tool_stopped"
  <2>1. CASE n \in 1 .. Len(log)
    <3>1. m \in 1 .. Len(log)
      BY <1>1, <1>6, <2>1
    <3> QED BY <1>1, <1>6, <2>1, <3>1 DEF OneEndEach
  <2>2. CASE n = Len(log) + 1
    <3>1. m \in 1 .. Len(log)
      BY <1>1, <1>6, <2>2
    <3>2. log'[m] = log[m] /\ log'[n][1] = c /\ log'[n][2] = k
      BY <1>1, <1>5, <2>2, <3>1
    <3> QED BY <1>2, <1>3, <1>6, <3>1, <3>2
  <2> QED BY <1>4, <2>1, <2>2
<1> QED BY <1>6 DEF OneEndEach

\* A coroutine ends its call once because it is then over, the sweep because it takes a
\* call out of its list and gives up when an append fails.
LEMMA NextEnds ==
  ASSUME CallsInv, EndsAhead, [Next]_vars
  PROVE  EndsAhead'
<1> DEFINE E == Logged(Terminal)
           S == Logged({"tool_stopped"})
<1>0. /\ call \in [Calls -> {"idle", "over"} \cup Waiting] /\ kind \in [Calls -> Terminal \cup {None}]
      /\ todo \subseteq Calls /\ None \notin Calls /\ TypeOK
      /\ E \subseteq Calls /\ S \subseteq E
  <2>1. E \subseteq Calls
    BY LoggedCalls DEF CallsInv
  <2>2. S \subseteq E
    BY DEF Logged, Terminal
  <2> QED BY <2>1, <2>2, CallsAssumption DEF CallsInv, TypeOK
<1>1. ASSUME UNCHANGED trace PROVE E' = E /\ S' = S /\ OneEndEach'
  BY <1>1 DEF Logged, trace, OneEndEach, EndsAhead
<1>2. ASSUME NEW c \in Calls, Propose(c) \/ Admit(c) \/ ToolReturns(c) \/ SaveChecks(c) \/ SaveInserts(c)
      PROVE  EndsAhead'
  <2>1. /\ UNCHANGED <<phase, trace, todo, sweeping>>
        /\ call[c] # "over"
        /\ \A d \in Calls \ {c} : call'[d] = call[d] /\ kind'[d] = kind[d]
    BY <1>0, <1>2 DEF Propose, Admit, ToolReturns, SaveChecks, SaveInserts, Capture, BeginFinish,
                      Goto, sweep
  <2>2. call'[c] = "finishing" => kind'[c] \in {"tool_completed", "tool_failed"}
    BY <1>0, <1>2 DEF Propose, Admit, ToolReturns, SaveChecks, SaveInserts, Capture, BeginFinish, Goto
  <2> QED BY <1>0, <1>1, <2>1, <2>2 DEF EndsAhead
<1>3. ASSUME NEW c \in Calls, NEW k \in Kinds, call[c] # "over", call' = [call EXCEPT ![c] = "over"],
             Record(c, k), k # "tool_stopped", UNCHANGED <<phase, kind, todo, sweeping>>
      PROVE  EndsAhead'
  <2>1. c \notin E /\ c \notin S
    BY <1>0, <1>3 DEF EndsAhead
  <2>2. OneEndEach'
    BY <1>0, <1>3, <2>1, OneMoreEnd DEF EndsAhead
  <2>3. E' \subseteq E \cup {c}
    BY <1>0, <1>3, TraceLogs
  <2>4. S' = S
    BY <1>0, <1>3, TraceLogs
  <2> QED BY <1>0, <1>3, <2>1, <2>2, <2>3, <2>4 DEF EndsAhead
<1>4. ASSUME NEW c \in Calls, call[c] # "over", call' = [call EXCEPT ![c] = "over"],
             UNCHANGED <<phase, kind, trace, todo, sweeping>>
      PROVE  EndsAhead'
  BY <1>0, <1>1, <1>4 DEF EndsAhead
<1>5. ASSUME NEW c \in Calls, RecordStart(c) \/ FinishTool(c) \/ Interrupt(c) PROVE EndsAhead'
  <2>1. /\ call[c] # "over"
        /\ UNCHANGED <<phase, kind, todo, sweeping>>
    BY <1>5 DEF RecordStart, FinishTool, Interrupt, sweep, Waiting
  <2>2. \/ call' = [call EXCEPT ![c] = "over"]
        \/ RecordStart(c) /\ call' = [call EXCEPT ![c] = "running"] /\ Record(c, "tool_started")
    BY <1>5 DEF RecordStart, FinishTool, Interrupt, Goto
  <2>3. CASE RecordStart(c) /\ call' = [call EXCEPT ![c] = "running"] /\ Record(c, "tool_started")
    <3>1. "tool_started" \in Kinds /\ "tool_started" \notin Terminal
      BY DEF Kinds, Terminal
    <3>2. E' = E /\ S' = S
      BY <1>0, <2>3, <3>1, TraceLogs
    <3>3. OneEndEach'
      BY <1>0, <2>3, <3>1, OneMoreEnd DEF EndsAhead
    <3>4. call[c] = "starting" /\ UNCHANGED <<phase, kind, todo, sweeping>>
      BY <2>3 DEF RecordStart, sweep
    <3> QED BY <1>0, <2>3, <3>2, <3>3, <3>4 DEF EndsAhead
  <2>4. CASE call' = [call EXCEPT ![c] = "over"]
    <3>1. \/ UNCHANGED trace
          \/ Record(c, "tool_started")
          \/ call[c] = "finishing" /\ Record(c, kind[c])
      BY <1>5 DEF RecordStart, FinishTool, Interrupt, RecordFails
    <3>2. "tool_started" \in Kinds
      BY DEF Kinds
    <3>3. call[c] = "finishing" => kind[c] \in Kinds /\ kind[c] # "tool_stopped"
      BY DEF EndsAhead, Kinds, Terminal
    <3> QED BY <1>3, <1>4, <2>1, <2>4, <3>1, <3>2, <3>3
  <2> QED BY <2>2, <2>3, <2>4
<1>6. ASSUME NEW c \in Calls, SweepTakes(c) PROVE EndsAhead'
  <2>1. /\ UNCHANGED <<phase, trace, call, kind>> /\ sweeping' = c /\ c \in todo /\ todo' = todo \ {c}
    BY <1>6 DEF SweepTakes
  <2> QED BY <1>0, <1>1, <2>1 DEF EndsAhead
<1>7. ASSUME NEW c \in Calls, SweepRecords(c) PROVE EndsAhead'
  <2>1. /\ sweeping = c /\ sweeping' = None /\ UNCHANGED <<call, kind>> /\ c \notin S
        /\ c \notin todo /\ todo' \subseteq todo /\ call[c] = "over" /\ phase \notin {"work", "ending"}
        /\ phase' \in {phase, "raised"}
    BY <1>0, <1>7 DEF SweepRecords, LeaveRest, EndsAhead, CallsInv, SweepSound
  <2>2. "tool_stopped" \in Kinds /\ "tool_stopped" \in Terminal
    BY DEF Kinds, Terminal
  <2>3. CASE Record(c, "tool_stopped")
    <3>1. E' \subseteq E \cup {c} /\ S' = S \cup {c}
      BY <1>0, <2>2, <2>3, TraceLogs
    <3>2. OneEndEach'
      BY <1>0, <2>1, <2>2, <2>3, OneMoreEnd DEF EndsAhead
    <3> QED BY <1>0, <2>1, <3>1, <3>2 DEF EndsAhead
  <2>4. CASE UNCHANGED trace
    BY <1>0, <1>1, <2>1, <2>4 DEF EndsAhead
  <2> QED BY <1>7, <2>3, <2>4 DEF SweepRecords, RecordFails
<1>8. CASE BeginCleanup
  <2>1. UNCHANGED <<trace, call, kind, sweeping>> /\ phase = "ending" /\ phase' = "cleanup"
    BY <1>8 DEF BeginCleanup, governance
  <2> QED BY <1>1, <2>1 DEF EndsAhead
<1>9. CASE StopWork \/ FinishRun \/ Abandon \/ CloseRow \/ StreamStep \/ StreamCloses \/ UNCHANGED vars
  <2>1. /\ UNCHANGED <<call, kind, todo, sweeping, trace>>
        /\ phase' \in {"work", "ending"} => phase \in {"work", "ending"}
    BY <1>9 DEF StopWork, FinishRun, Abandon, CloseRow, StreamStep, StreamLooks,
                StreamLists, StreamEmits, StreamCloses, vars, governance, sweep, Ended
  <2> QED BY <1>1, <2>1 DEF EndsAhead
<1> QED BY <1>2, <1>5, <1>6, <1>7, <1>8, <1>9 DEF Next, CallStep, EndStep

------------------------------------------------------------------------------
\* The invariant of all runs.
RunInv == CallsInv /\ BatchSound /\ NoGaps /\ EvidenceFirst /\ Accounted

\* RunInv is inductive: the run's coroutines, its sweep and its stream keep it under
\* every interleaving, cancellation and failing append.
THEOREM Inductive == Spec => []RunInv
<1>1. Init => RunInv
  <2> SUFFICES ASSUME Init PROVE RunInv
    OBVIOUS
  <2>1. log = <<>> /\ batch = {} /\ cursor = 0 /\ sent = {} /\ evidence = {} /\ saved = {}
    BY DEF Init
  <2>2. \A ks : Logged(ks) = {}
    BY <2>1 DEF Logged
  <2>3. BatchSound /\ NoGaps
    BY <2>1 DEF BatchSound, NoGaps
  <2>4. EvidenceFirst /\ Accounted
    BY <2>1, <2>2 DEF EvidenceFirst, Accounted
  <2> QED BY InitCalls, <2>3, <2>4 DEF RunInv
<1>2. RunInv /\ [Next]_vars => RunInv'
  BY NextCalls, NextBatch, NextEvidence, NextAccounted DEF RunInv
<1> QED BY <1>1, <1>2, PTL DEF Spec

\* Every variable keeps its type: reservations never become negative and the cursor
\* is always an event's number.
THEOREM TypeCorrect == Spec => []TypeOK
<1>1. RunInv => TypeOK
  BY DEF RunInv, CallsInv
<1> QED BY <1>1, Inductive, PTL

\* Branches that capture at the same time never exceed the evidence limit.
THEOREM EvidenceLimit == Spec => []EvidenceBounded
<1>1. RunInv => EvidenceBounded
  <2> SUFFICES ASSUME RunInv PROVE EvidenceBounded
    OBVIOUS
  <2>1. Cardinality(evidence) \in Nat /\ pending \in Nat /\ MaxEvidence \in Nat
    BY Countable, BoundsAssumption DEF RunInv, CallsInv, TypeOK
  <2> QED BY <2>1 DEF RunInv, CallsInv, Reserved, EvidenceBounded
<1> QED BY <1>1, Inductive, PTL

\* Evidence is stored before a call is reported as completed.
THEOREM EvidencePrecedes == Spec => []EvidenceFirst
<1>1. RunInv => EvidenceFirst
  BY DEF RunInv
<1> QED BY <1>1, Inductive, PTL

\* When execute has returned, every started call has its end in the trace, also when
\* appends fail or their replies are lost.
THEOREM TraceIsClosed == Spec => []TraceClosed
<1>1. RunInv => TraceClosed
  BY AccountedCloses DEF RunInv
<1> QED BY <1>1, Inductive, PTL

\* The stream skips only events that were pruned before it could read them.
THEOREM StreamHasNoGaps == Spec => []NoGaps
<1>1. RunInv => NoGaps
  BY DEF RunInv
<1> QED BY <1>1, Inductive, PTL

\* Neither a call's coroutine nor the sweep ends it twice in the trace, and the sweep's end
\* is the last one, whatever replies of the database are lost.
THEOREM EndsOnceEach == Spec => []OneEndEach
<1>1. Init => EndsAhead
  BY DEF Init, EndsAhead, OneEndEach, Logged
<1>2. RunInv /\ EndsAhead /\ [Next]_vars => EndsAhead'
  BY NextEnds DEF RunInv
<1>3. EndsAhead => OneEndEach
  BY DEF EndsAhead
<1> QED BY <1>1, <1>2, <1>3, Inductive, PTL DEF Spec
==============================================================================
