------------------------- MODULE RunLifecycleProofs --------------------------
(***************************************************************************)
(* What holds of RunLifecycle for every number of submissions, operators,  *)
(* keys, limits and crashes.                                               *)
(***************************************************************************)
EXTENDS RunLifecycle, FiniteSetTheorems, TLAPS

\* What an action's frame conditions speak of.
USE DEF store, task, capacity, cancels

\* get_run returns a status, and never RUNNING past the deadline.
LEMMA GetRunTypes ==
  ASSUME TypeOK, NEW r \in Runs
  PROVE  /\ GetRun(r) \in Statuses
         /\ row[r] # "absent" => GetRun(r) \in {"RUNNING"} \cup Terminal
         /\ row[r] = "absent" => GetRun(r) = "absent"
         /\ row[r] \in Terminal => GetRun(r) = row[r]
  BY DEF TypeOK, GetRun, Expired, Statuses, Terminal

\* A guarded update keeps the types of the row.
LEMMA UpdateTypes ==
  ASSUME TypeOK, NEW r \in Runs, NEW s \in Terminal, UpdateRunning(r, s)
  PROVE  row' \in [Runs -> Statuses] /\ result' \in [Runs -> BOOLEAN]
<1>1. row' \in [Runs -> Statuses]
  BY DEF UpdateRunning, TypeOK, Statuses
<1>2. result' \in [Runs -> BOOLEAN]
  <2>1. ([result EXCEPT ![r] = @ \/ s \in Completed]) \in [Runs -> BOOLEAN]
    BY Zenon DEF TypeOK
  <2> QED BY <2>1 DEF UpdateRunning, TypeOK
<1> QED BY <1>1, <1>2

\* The queue of nothing submitted has the right types.
LEMMA InitTypeOK == Init => TypeOK
<1> SUFFICES ASSUME Init PROVE TypeOK
  OBVIOUS
<1>1. /\ limit \in Limits /\ free \in Nat /\ stored \in Limits
      /\ crashes \in 0 .. MaxCrashes
  BY LimitsAssumption, CrashAssumption DEF Init
<1>6. editing \in BOOLEAN
  BY Zenon DEF Init
<1>2. /\ row \in [Runs -> Statuses]
      /\ pc \in [Runs -> Phases]
      /\ \A r \in Runs : pc[r] \notin Updating
  BY DEF Init, Statuses, Phases, Updating
<1>3. /\ result \in [Runs -> BOOLEAN]
      /\ verdict \in [Runs -> Terminal \cup {None}]
      /\ response \in [Runs -> Statuses \cup {None}]
      /\ answer \in [Runs -> Runs \cup {None}]
  BY DEF Init
<1>4. /\ cpc \in [Operators -> {"idle", "write", "reply", "over"}]
      /\ \A c \in Operators : cpc[c] = "idle"
      /\ target \in [Operators -> Runs \cup {None}]
      /\ told \in [Operators -> Statuses \cup {None}]
  BY DEF Init
<1>5. {late, handling, interrupt, gone, detached, tasks, expiring} \subseteq SUBSET Runs
  BY DEF Init
<1> QED BY <1>1, <1>2, <1>3, <1>4, <1>5, <1>6 DEF TypeOK

\* Submissions on their way to the row.
LEMMA AdmissionTypes ==
  ASSUME TypeOK, NEW r \in Runs,
         Submit(r) \/ TakeSlot(r) \/ RefuseContract(r) \/ CreateRun(r) \/ RegisterTask(r)
  PROVE  TypeOK'
<1> USE LimitsAssumption DEF Goto, Phases, Holding, Over, Updating
<1>1. CASE Submit(r)
  BY <1>1, GetRunTypes DEF Submit, TypeOK, Bound
<1>2. CASE TakeSlot(r)
  BY <1>2 DEF TakeSlot, TypeOK, Locked
<1>3. CASE RefuseContract(r)
  BY <1>3 DEF RefuseContract, ReleaseSlot, TypeOK
<1>4. CASE CreateRun(r)
  BY <1>4 DEF CreateRun, ReleaseSlot, TypeOK, Bound, Statuses
<1>5. CASE RegisterTask(r)
  BY <1>5, GetRunTypes DEF RegisterTask, TypeOK
<1> QED BY <1>1, <1>2, <1>3, <1>4, <1>5

\* The investigation.
LEMMA ContractTypes ==
  ASSUME TypeOK, NEW r \in Runs,
         StartContract(r) \/ Connect(r) \/ ModelEvent(r) \/ Ground(r)
  PROVE  TypeOK'
<1> USE DEF Goto, Leave, BeginUpdate, Phases, Holding, Working, Over, Updating
<1>1. CASE StartContract(r)
  BY <1>1, GetRunTypes DEF StartContract, TypeOK, Terminal
<1>2. CASE Connect(r)
  BY <1>2 DEF Connect, TypeOK, Terminal
<1>3. CASE ModelEvent(r)
  BY <1>3, GetRunTypes DEF ModelEvent, TypeOK
<1>4. CASE Ground(r)
  BY <1>4 DEF Ground, TypeOK, Terminal, Completed
<1> QED BY <1>1, <1>2, <1>3, <1>4

\* The updates, the handlers and the cleanup.
LEMMA EndingTypes ==
  ASSUME TypeOK, NEW r \in Runs,
         \/ UpdateReads(r) \/ UpdateWrites(r) \/ UpdateReplies(r) \/ Timeout(r) \/ Raise(r)
         \/ Interrupted(r) \/ StoreFails(r) \/ DetachedUpdate(r) \/ Finish(r) \/ Unwind(r)
         \/ Disconnect(r)
  PROVE  TypeOK'
<1> USE LimitsAssumption DEF Goto, Leave, Handle, BeginUpdate, ReleaseSlot, Phases, Holding,
        Working, Over, Updating
<1>1. CASE UpdateReads(r)
  BY <1>1 DEF UpdateReads, TypeOK
<1>2. CASE UpdateWrites(r)
  <2>1. row' \in [Runs -> Statuses] /\ result' \in [Runs -> BOOLEAN]
    BY <1>2, UpdateTypes DEF UpdateWrites, TypeOK
  <2> QED BY <1>2, <2>1 DEF UpdateWrites, TypeOK
<1>3. CASE UpdateReplies(r)
  BY <1>3, GetRunTypes DEF UpdateReplies, TypeOK
<1>4. CASE Timeout(r) \/ Raise(r)
  BY <1>4 DEF Timeout, Raise, TypeOK, Terminal
<1>5. CASE Interrupted(r)
  BY <1>5 DEF Interrupted, TypeOK, Terminal
<1>6. CASE StoreFails(r)
  BY <1>6 DEF StoreFails, TypeOK
<1>7. CASE DetachedUpdate(r)
  <2>1. row' \in [Runs -> Statuses] /\ result' \in [Runs -> BOOLEAN]
    BY <1>7, UpdateTypes DEF DetachedUpdate, Terminal
  <2> QED BY <1>7, <2>1 DEF DetachedUpdate, TypeOK
<1>8. CASE Finish(r) \/ Unwind(r)
  BY <1>8 DEF Finish, Unwind, TypeOK
<1>9. CASE Disconnect(r)
  BY <1>9 DEF Disconnect, TypeOK
<1> QED BY <1>1, <1>2, <1>3, <1>4, <1>5, <1>6, <1>7, <1>8, <1>9

\* Cancellation requests and readers.
LEMMA OutsiderTypes ==
  ASSUME TypeOK,
         \/ \E r \in Runs : DeadlinePasses(r) \/ ReaderSeesExpired(r) \/ ReaderExpires(r)
         \/ \E c \in Operators : \/ CancelWrites(c) \/ CancelReplies(c)
                                 \/ \E r \in Runs : CancelReads(c, r)
  PROVE  TypeOK'
<1>1. ASSUME NEW r \in Runs, DeadlinePasses(r) \/ ReaderSeesExpired(r) PROVE TypeOK'
  BY <1>1 DEF DeadlinePasses, ReaderSeesExpired, TypeOK
<1>2. ASSUME NEW r \in Runs, ReaderExpires(r) PROVE TypeOK'
  <2>1. row' \in [Runs -> Statuses] /\ result' \in [Runs -> BOOLEAN]
    BY <1>2, UpdateTypes DEF ReaderExpires, Terminal
  <2> QED BY <1>2, <2>1 DEF ReaderExpires, TypeOK
<1>3. ASSUME NEW c \in Operators, NEW r \in Runs, CancelReads(c, r) PROVE TypeOK'
  <2>1. /\ target' = [target EXCEPT ![c] = r]
        /\ told' \in [Operators -> Statuses \cup {None}]
        /\ interrupt' \in SUBSET Runs
        /\ cpc' \in [Operators -> {"idle", "write", "reply", "over"}]
        /\ \A d \in Operators : d # c => cpc'[d] = cpc[d]
    BY <1>3 DEF CancelReads, CancelReturns, TypeOK
  <2>2. /\ target' \in [Operators -> Runs \cup {None}]
        /\ \A d \in Operators : cpc'[d] # "idle" => target'[d] \in Runs
    BY <2>1 DEF TypeOK
  <2>3. UNCHANGED <<row, result, late, pc, handling, verdict, response, answer, gone, detached,
                    tasks, capacity, expiring, crashes>>
    BY <1>3 DEF CancelReads
  <2> QED BY <2>1, <2>2, <2>3 DEF TypeOK
<1>4. ASSUME NEW c \in Operators, CancelWrites(c) PROVE TypeOK'
  <2>1. target[c] \in Runs
    BY <1>4 DEF CancelWrites, TypeOK
  <2>2. row' \in [Runs -> Statuses] /\ result' \in [Runs -> BOOLEAN]
    BY <1>4, <2>1, UpdateTypes DEF CancelWrites, Terminal
  <2> QED BY <1>4, <2>1, <2>2 DEF CancelWrites, TypeOK
<1>5. ASSUME NEW c \in Operators, CancelReplies(c) PROVE TypeOK'
  <2>1. target[c] \in Runs
    BY <1>5 DEF CancelReplies, TypeOK
  <2> QED BY <1>5, <2>1, GetRunTypes DEF CancelReplies, CancelReturns, TypeOK
<1> QED BY <1>1, <1>2, <1>3, <1>4, <1>5

\* The concurrency limit and the end of the process.
LEMMA CapacityTypes ==
  ASSUME TypeOK, SaveTemplate \/ EditBegins \/ EditEnds \/ Crash
  PROVE  TypeOK'
<1> USE LimitsAssumption, CrashAssumption
<1>1. CASE SaveTemplate
  BY <1>1 DEF SaveTemplate, TypeOK
<1>2. CASE EditBegins
  BY <1>2 DEF EditBegins, TypeOK
<1>3. CASE EditEnds
  BY <1>3 DEF EditEnds, TypeOK
<1>4. CASE Crash
  <2>1. /\ pc' \in [Runs -> Phases]
        /\ \A r \in Runs : pc'[r] \in Updating => FALSE
    BY <1>4 DEF Crash, TypeOK, Phases, Holding, Over, Updating
  <2>2. /\ cpc' \in [Operators -> {"idle", "write", "reply", "over"}]
        /\ \A c \in Operators : cpc'[c] # "idle" => cpc[c] # "idle"
    BY <1>4 DEF Crash, TypeOK
  <2>3. limit' \in Limits /\ free' \in Nat /\ crashes' \in 0 .. MaxCrashes
    BY <1>4 DEF Crash, TypeOK
  <2>4. {interrupt', detached', tasks', expiring'} \subseteq SUBSET Runs
    BY <1>4 DEF Crash
  <2>5. editing' \in BOOLEAN
    BY <1>4, Zenon DEF Crash
  <2>6. UNCHANGED <<row, result, late, handling, verdict, response, answer, gone, stored, target, told>>
    BY <1>4 DEF Crash
  <2> QED BY <2>1, <2>2, <2>3, <2>4, <2>5, <2>6 DEF TypeOK
<1> QED BY <1>1, <1>2, <1>3, <1>4

\* Every step keeps the types.
LEMMA NextTypeOK == TypeOK /\ [Next]_vars => TypeOK'
<1> SUFFICES ASSUME TypeOK, [Next]_vars PROVE TypeOK'
  OBVIOUS
<1>1. CASE UNCHANGED vars
  BY <1>1 DEF vars, TypeOK
<1>2. CASE Next
  BY <1>2, AdmissionTypes, ContractTypes, EndingTypes, OutsiderTypes, CapacityTypes
     DEF Next, TaskStep
<1> QED BY <1>1, <1>2

\* Every variable keeps its type, for every number of submissions and operators.
THEOREM TypeCorrect == Spec => []TypeOK
<1>1. Init => TypeOK
  BY InitTypeOK
<1>2. TypeOK /\ [Next]_vars => TypeOK'
  BY NextTypeOK
<1> QED BY <1>1, <1>2, PTL DEF Spec

------------------------------------------------------------------------------
(***************************************************************************)
(* The slots.  SlotAccounting is inductive once the types are known: every *)
(* action that takes a submission into or out of Holding changes free by   *)
(* one, and the semaphore is only replaced when no permit is out.          *)
(***************************************************************************)

\* The submissions inside _run_slot can be counted.
LEMMA HoldersFinite ==
  ASSUME TypeOK
  PROVE  IsFiniteSet(Holders) /\ Cardinality(Holders) \in Nat
<1>1. Holders \in SUBSET Runs
  BY DEF Holders
<1>2. IsFiniteSet(Holders)
  BY <1>1, RunsAssumption, FS_Subset
<1> QED BY <1>2, FS_CardinalityType

\* A step that lets nobody in or out.
LEMMA SlotsKept ==
  ASSUME TypeOK, SlotAccounting, UNCHANGED <<free, limit>>,
         \A r \in Runs : pc'[r] \in Holding <=> pc[r] \in Holding
  PROVE  SlotAccounting'
<1>1. Holders' = Holders
  BY DEF Holders
<1> QED BY <1>1 DEF SlotAccounting

\* A submission gets its permit.
LEMMA SlotTaken ==
  ASSUME TypeOK, TypeOK', SlotAccounting, NEW r \in Runs,
         pc[r] \notin Holding, pc'[r] \in Holding,
         \A s \in Runs \ {r} : pc'[s] = pc[s],
         free' = free - 1, UNCHANGED limit
  PROVE  SlotAccounting'
<1>1. Holders' = Holders \cup {r} /\ r \notin Holders
  BY DEF Holders
<1>2. Cardinality(Holders') = Cardinality(Holders) + 1
  BY <1>1, HoldersFinite, FS_AddElement
<1> QED BY <1>2, HoldersFinite, LimitsAssumption DEF SlotAccounting, TypeOK

\* A submission gives its permit back.
LEMMA SlotGiven ==
  ASSUME TypeOK, TypeOK', SlotAccounting, NEW r \in Runs,
         pc[r] \in Holding, pc'[r] \notin Holding,
         \A s \in Runs \ {r} : pc'[s] = pc[s],
         free' = free + 1, UNCHANGED limit
  PROVE  SlotAccounting'
<1>1. Holders' = Holders \ {r} /\ r \in Holders
  BY DEF Holders
<1>2. Cardinality(Holders') = Cardinality(Holders) - 1
  BY <1>1, HoldersFinite, FS_RemoveElement
<1> QED BY <1>2, HoldersFinite, LimitsAssumption DEF SlotAccounting, TypeOK

\* Every step keeps the sum of permits and holders.
LEMMA NextSlots == TypeOK /\ SlotAccounting /\ [Next]_vars => SlotAccounting'
<1> SUFFICES ASSUME TypeOK, SlotAccounting, [Next]_vars PROVE SlotAccounting'
  OBVIOUS
<1>0. TypeOK'
  BY NextTypeOK
<1>1. ASSUME NEW r \in Runs, Submit(r) PROVE SlotAccounting'
  <2>1. pc[r] = "idle" /\ pc'[r] \in {"admit", "replayed", "rejected"} /\ UNCHANGED <<free, limit>>
        /\ \A s \in Runs \ {r} : pc'[s] = pc[s]
    BY <1>1 DEF Submit, Goto, TypeOK
  <2> QED BY <2>1, SlotsKept DEF Holding, Working, Updating
<1>2. ASSUME NEW r \in Runs, TakeSlot(r) PROVE SlotAccounting'
  <2>1. pc[r] = "admit" /\ UNCHANGED limit /\ \A s \in Runs \ {r} : pc'[s] = pc[s]
    BY <1>2 DEF TakeSlot, Goto, TypeOK
  <2>2. \/ pc'[r] = "rejected" /\ UNCHANGED free
        \/ pc'[r] = "prepare" /\ free' = free - 1
    BY <1>2 DEF TakeSlot, Goto, TypeOK
  <2>3. CASE pc'[r] = "rejected" /\ UNCHANGED free
    BY <2>1, <2>3, SlotsKept DEF Holding, Working, Updating
  <2>4. CASE pc'[r] = "prepare" /\ free' = free - 1
    BY <1>0, <2>1, <2>4, SlotTaken DEF Holding, Working, Updating
  <2> QED BY <2>2, <2>3, <2>4
<1>3. ASSUME NEW r \in Runs,
             \/ RefuseContract(r) \/ CreateRun(r) \/ StoreFails(r) \/ Interrupted(r)
             \/ Finish(r) \/ Unwind(r)
      PROVE  SlotAccounting'
  <2>1. UNCHANGED limit /\ \A s \in Runs \ {r} : pc'[s] = pc[s]
    BY <1>3 DEF RefuseContract, CreateRun, StoreFails, Interrupted, Finish, Unwind, Handle,
       BeginUpdate, Goto, TypeOK
  <2>2. \/ pc[r] \in Holding /\ pc'[r] \notin Holding /\ free' = free + 1
        \/ (pc[r] \in Holding <=> pc'[r] \in Holding) /\ UNCHANGED free
    BY <1>3 DEF RefuseContract, CreateRun, StoreFails, Interrupted, Finish, Unwind, Handle,
       BeginUpdate, Goto, ReleaseSlot, InBody, TypeOK, Holding, Working, Updating
  <2> QED BY <1>0, <2>1, <2>2, SlotsKept, SlotGiven
<1>4. ASSUME NEW r \in Runs,
             \/ RegisterTask(r) \/ StartContract(r) \/ Ground(r) \/ UpdateReads(r)
             \/ UpdateWrites(r) \/ UpdateReplies(r) \/ Connect(r) \/ ModelEvent(r)
             \/ Timeout(r) \/ Raise(r)
      PROVE  SlotAccounting'
  <2>1. UNCHANGED <<free, limit>> /\ \A s \in Runs \ {r} : pc'[s] = pc[s]
    BY <1>4 DEF RegisterTask, StartContract, Ground, UpdateReads, UpdateWrites, UpdateReplies,
       Connect, ModelEvent, Timeout, Raise, Handle, BeginUpdate, Leave, Goto, TypeOK
  <2>2. pc[r] \in Holding /\ pc'[r] \in Holding
    BY <1>4 DEF RegisterTask, StartContract, Ground, UpdateReads, UpdateWrites, UpdateReplies,
       Connect, ModelEvent, Timeout, Raise, TimeoutDue, InBody, Handle, BeginUpdate, Leave,
       Goto, TypeOK, Holding, Working, Updating
  <2> QED BY <2>1, <2>2, SlotsKept
<1>5. ASSUME NEW r \in Runs,
             \/ DetachedUpdate(r) \/ Disconnect(r) \/ DeadlinePasses(r) \/ ReaderSeesExpired(r)
             \/ ReaderExpires(r) \/ \E c \in Operators : CancelReads(c, r)
      PROVE  SlotAccounting'
  <2>1. UNCHANGED <<pc, free, limit>>
    BY <1>5 DEF DetachedUpdate, Disconnect, DeadlinePasses, ReaderSeesExpired, ReaderExpires,
       CancelReads
  <2> QED BY <2>1, SlotsKept
<1>6. ASSUME NEW c \in Operators, CancelWrites(c) \/ CancelReplies(c) PROVE SlotAccounting'
  <2>1. UNCHANGED <<pc, free, limit>>
    BY <1>6 DEF CancelWrites, CancelReplies
  <2> QED BY <2>1, SlotsKept
<1>7. ASSUME SaveTemplate \/ EditBegins PROVE SlotAccounting'
  <2>1. UNCHANGED <<pc, free, limit>>
    BY <1>7 DEF SaveTemplate, EditBegins
  <2> QED BY <2>1, SlotsKept
<1>8. ASSUME EditEnds PROVE SlotAccounting'
  <2>1. CASE stored # limit /\ RunnerIdle
    <3>1. Cardinality(Holders) = 0
      BY <2>1, HoldersFinite, LimitsAssumption DEF RunnerIdle, SlotAccounting, TypeOK
    <3>2. Holders' = Holders
      BY <1>8 DEF EditEnds, Holders
    <3>3. limit' = stored /\ free' = stored /\ stored \in Nat
      BY <1>8, <2>1, LimitsAssumption DEF EditEnds, TypeOK
    <3> QED BY <3>1, <3>2, <3>3 DEF SlotAccounting
  <2>2. CASE ~(stored # limit /\ RunnerIdle)
    BY <1>8, <2>2, SlotsKept DEF EditEnds
  <2> QED BY <2>1, <2>2
<1>9. ASSUME Crash PROVE SlotAccounting'
  <2>1. Holders' = {}
    BY <1>9 DEF Crash, Holders, TypeOK, Holding, Working, Updating
  <2>2. limit' \in Nat /\ free' = limit'
    BY <1>9, LimitsAssumption DEF Crash
  <2> QED BY <2>1, <2>2, FS_EmptySet DEF SlotAccounting
<1>10. CASE UNCHANGED vars
  BY <1>10, SlotsKept DEF vars
<1> QED
  BY <1>1, <1>2, <1>3, <1>4, <1>5, <1>6, <1>7, <1>8, <1>9, <1>10 DEF Next, TaskStep

\* No permit is leaked or released twice, for every number of submissions and limits.
THEOREM SlotsAddUp == Spec => []SlotAccounting
<1>1. Init => SlotAccounting
  <2> SUFFICES ASSUME Init PROVE SlotAccounting
    OBVIOUS
  <2>1. Holders = {}
    BY DEF Init, Holders, Holding, Working, Updating
  <2> QED BY <2>1, FS_EmptySet, LimitsAssumption DEF Init, SlotAccounting
<1>2. TypeOK /\ SlotAccounting /\ [Next]_vars => SlotAccounting'
  BY NextSlots
<1> QED BY <1>1, <1>2, TypeCorrect, PTL DEF Spec

------------------------------------------------------------------------------
(***************************************************************************)
(* The rows.  What every writer relies on is that a row goes from absent   *)
(* to RUNNING once and from RUNNING to a terminal status once; what makes  *)
(* a reply final is what each suspended call still knows of its row.       *)
(***************************************************************************)

\* What the task of submission r knows of row r where it is suspended.
KnowsRow(r) ==
    /\ pc[r] \in {"idle", "admit", "prepare"} => row[r] = "absent"
    /\ pc[r] \in {"created", "preflight", "read", "write"} \cup Working => row[r] # "absent"
    /\ pc[r] = "reply" => row[r] \in Terminal
    /\ pc[r] \in {"cleanup", "done"} => response[r] \in Terminal /\ response[r] = row[r]
    /\ pc[r] \in {"preflight"} \cup Working => r \in tasks

\* What cancellation request c knows of the row it names.
KnowsTarget(c) ==
    /\ cpc[c] = "write" => row[target[c]] # "absent"
    /\ cpc[c] = "reply" => row[target[c]] \in Terminal
    /\ cpc[c] # "over" => told[c] = None

RunInv == TypeOK /\ ResultIffCompleted /\ \A r \in Runs : KnowsRow(r)

IInv == RunInv /\ (\A c \in Operators : KnowsTarget(c)) /\ CancelReplyIsFinal /\ CancelledStops

\* The three things that can happen to the rows.
RowsKept == UNCHANGED <<row, result>>

RowOpened(r) ==
    /\ row[r] = "absent"
    /\ row' = [row EXCEPT ![r] = "RUNNING"]
    /\ UNCHANGED result

RowClosed(r, s) ==
    /\ row[r] = "RUNNING"
    /\ row' = [row EXCEPT ![r] = s]
    /\ result' = [result EXCEPT ![r] = s \in Completed]

\* get_run leaves a row alone or closes an expired one.
LEMMA GetRunCloses ==
  ASSUME RunInv, NEW r \in Runs, row' = [row EXCEPT ![r] = GetRun(r)], UNCHANGED result
  PROVE  RowsKept \/ RowClosed(r, "FAILED")
<1>1. CASE Expired(r)
  <2>1. result[r] = FALSE /\ "FAILED" \notin Completed
    BY <1>1 DEF RunInv, ResultIffCompleted, TypeOK, Expired, Completed
  <2>2. result' = [result EXCEPT ![r] = "FAILED" \in Completed]
    BY <2>1 DEF RunInv, TypeOK
  <2> QED BY <1>1, <2>2 DEF GetRun, Expired, RowClosed
<1>2. CASE ~Expired(r)
  BY <1>2 DEF GetRun, RowsKept, RunInv, TypeOK
<1> QED BY <1>1, <1>2

\* update_run leaves a row alone or closes a running one.
LEMMA UpdateCloses ==
  ASSUME RunInv, NEW r \in Runs, NEW s \in Terminal, UpdateRunning(r, s)
  PROVE  RowsKept \/ RowClosed(r, s)
<1>1. CASE row[r] = "RUNNING"
  <2>1. result[r] = FALSE
    BY <1>1 DEF RunInv, ResultIffCompleted, TypeOK, Completed
  <2>2. result' = [result EXCEPT ![r] = result[r] \/ s \in Completed]
    BY <1>1 DEF UpdateRunning
  <2>3. (result[r] \/ s \in Completed) = (s \in Completed)
    BY <2>1
  <2>4. result' = [result EXCEPT ![r] = s \in Completed]
    BY <2>2, <2>3
  <2> QED BY <1>1, <2>4 DEF UpdateRunning, RowClosed
<1>2. CASE row[r] # "RUNNING"
  BY <1>2 DEF UpdateRunning, RowsKept
<1> QED BY <1>1, <1>2

\* Every step leaves the row of a run alone, inserts it, or closes it while it is RUNNING.
LEMMA RowSteps ==
  ASSUME RunInv, [Next]_vars
  PROVE  \/ RowsKept
         \/ \E r \in Runs : CreateRun(r) /\ KeyIsFree(r) /\ RowOpened(r)
         \/ \E r \in Runs : \E s \in Terminal : RowClosed(r, s)
<1> DEFINE Goal == \/ RowsKept
                   \/ \E r \in Runs : CreateRun(r) /\ KeyIsFree(r) /\ RowOpened(r)
                   \/ \E r \in Runs : \E s \in Terminal : RowClosed(r, s)
<1>0. TypeOK /\ {"FAILED", "CANCELLED"} \subseteq Terminal
  BY DEF RunInv, Terminal
<1>1. ASSUME NEW r \in Runs, row' = [row EXCEPT ![r] = GetRun(r)], UNCHANGED result PROVE Goal
  BY <1>0, <1>1, GetRunCloses
<1>2. ASSUME NEW r \in Runs, NEW s \in Terminal, UpdateRunning(r, s) PROVE Goal
  BY <1>2, UpdateCloses
<1>3. ASSUME NEW r \in Runs, Submit(r) PROVE Goal
  BY <1>1, <1>3 DEF Submit, Bound, RowsKept
<1>4. ASSUME NEW r \in Runs, CreateRun(r) PROVE Goal
  <2>1. row[r] = "absent"
    BY <1>4 DEF CreateRun, RunInv, KnowsRow
  <2> QED BY <1>4, <2>1 DEF CreateRun, RowOpened, RowsKept
<1>5. ASSUME NEW r \in Runs, RegisterTask(r) \/ StartContract(r) \/ UpdateReplies(r) PROVE Goal
  BY <1>1, <1>5 DEF RegisterTask, StartContract, UpdateReplies
<1>6. ASSUME NEW r \in Runs, ModelEvent(r) PROVE Goal
  BY <1>1, <1>6 DEF ModelEvent, RowsKept
<1>7. ASSUME NEW r \in Runs, UpdateWrites(r) PROVE Goal
  BY <1>0, <1>2, <1>7 DEF UpdateWrites, TypeOK, Updating
<1>8. ASSUME NEW r \in Runs, DetachedUpdate(r) \/ ReaderExpires(r) PROVE Goal
  BY <1>0, <1>2, <1>8 DEF DetachedUpdate, ReaderExpires
<1>9. ASSUME NEW c \in Operators, CancelWrites(c) PROVE Goal
  BY <1>0, <1>2, <1>9 DEF CancelWrites, TypeOK
<1>10. ASSUME NEW c \in Operators, CancelReplies(c) PROVE Goal
  BY <1>0, <1>1, <1>10 DEF CancelReplies, TypeOK
<1>11. ASSUME NEW r \in Runs,
              \/ TakeSlot(r) \/ RefuseContract(r) \/ Connect(r) \/ Ground(r) \/ UpdateReads(r)
              \/ Timeout(r) \/ Raise(r) \/ Interrupted(r) \/ StoreFails(r) \/ Finish(r)
              \/ Unwind(r) \/ Disconnect(r) \/ DeadlinePasses(r) \/ ReaderSeesExpired(r)
              \/ \E c \in Operators : CancelReads(c, r)
       PROVE  Goal
  BY <1>11 DEF TakeSlot, RefuseContract, Connect, Ground, UpdateReads, Timeout, Raise,
     Interrupted, StoreFails, Finish, Unwind, Disconnect, DeadlinePasses, ReaderSeesExpired,
     CancelReads, RowsKept
<1>12. ASSUME SaveTemplate \/ EditBegins \/ EditEnds \/ Crash \/ UNCHANGED vars PROVE Goal
  BY <1>12 DEF SaveTemplate, EditBegins, EditEnds, Crash, vars, RowsKept
<1> QED
  BY <1>3, <1>4, <1>5, <1>6, <1>7, <1>8, <1>9, <1>10, <1>11, <1>12 DEF Next, TaskStep

\* A row that exists goes on existing, a terminal one as it is.
LEMMA RowsMonotone ==
  ASSUME RunInv, [Next]_vars, NEW r \in Runs
  PROVE  /\ row[r] # "absent" => row'[r] # "absent"
         /\ row[r] \in Terminal => row'[r] = row[r]
         /\ row[r] = "absent" /\ row'[r] # "absent" => CreateRun(r) /\ KeyIsFree(r)
<1>1. CASE RowsKept
  BY <1>1 DEF RowsKept
<1>2. ASSUME NEW q \in Runs, CreateRun(q), KeyIsFree(q), RowOpened(q)
      PROVE  /\ row[r] # "absent" => row'[r] # "absent"
             /\ row[r] \in Terminal => row'[r] = row[r]
             /\ row[r] = "absent" /\ row'[r] # "absent" => CreateRun(r) /\ KeyIsFree(r)
  <2>1. row'[r] = IF r = q THEN "RUNNING" ELSE row[r]
    BY <1>2 DEF RowOpened, RunInv, TypeOK
  <2> QED BY <1>2, <2>1 DEF RowOpened, Terminal
<1>3. ASSUME NEW q \in Runs, NEW s \in Terminal, RowClosed(q, s)
      PROVE  /\ row[r] # "absent" => row'[r] # "absent"
             /\ row[r] \in Terminal => row'[r] = row[r]
             /\ row[r] = "absent" => row'[r] = "absent"
  <2>1. row'[r] = IF r = q THEN s ELSE row[r]
    BY <1>3 DEF RowClosed, RunInv, TypeOK
  <2> QED BY <1>3, <2>1 DEF RowClosed, Terminal
<1> QED BY <1>1, <1>2, <1>3, RowSteps

\* Every step keeps results and completed statuses together.
LEMMA NextResults == RunInv /\ [Next]_vars => ResultIffCompleted'
<1> SUFFICES ASSUME RunInv, [Next]_vars, NEW r \in Runs PROVE result'[r] <=> row'[r] \in Completed
  BY DEF ResultIffCompleted
<1>0. result[r] <=> row[r] \in Completed
  BY DEF RunInv, ResultIffCompleted
<1>1. CASE RowsKept
  BY <1>0, <1>1 DEF RowsKept
<1>2. ASSUME NEW q \in Runs, RowOpened(q) PROVE result'[r] <=> row'[r] \in Completed
  BY <1>0, <1>2 DEF RowOpened, RunInv, TypeOK, Completed
<1>3. ASSUME NEW q \in Runs, NEW s \in Terminal, RowClosed(q, s)
      PROVE  result'[r] <=> row'[r] \in Completed
  <2>1. row'[r] = IF r = q THEN s ELSE row[r]
    BY <1>3 DEF RowClosed, RunInv, TypeOK
  <2>2. result'[r] = IF r = q THEN s \in Completed ELSE result[r]
    BY <1>3 DEF RowClosed, RunInv, TypeOK
  <2> QED BY <1>0, <2>1, <2>2
<1> QED BY <1>1, <1>2, <1>3, RowSteps

\* A step that does not move a submission leaves it knowing what it knew.
LEMMA KnowsRowKept ==
  ASSUME RunInv, [Next]_vars, NEW r \in Runs, UNCHANGED <<pc[r], response[r]>>,
         r \in tasks => r \in tasks'
  PROVE  KnowsRow(r)'
<1>1. /\ row[r] # "absent" => row'[r] # "absent"
      /\ row[r] \in Terminal => row'[r] = row[r]
      /\ row[r] = "absent" /\ row'[r] # "absent" => CreateRun(r)
  BY RowsMonotone
<1>2. KnowsRow(r) /\ row[r] \in Statuses
  BY DEF RunInv, TypeOK
<1>3. CreateRun(r) => pc'[r] # pc[r]
  BY DEF CreateRun, Goto, RunInv, TypeOK
<1> QED BY <1>1, <1>2, <1>3 DEF KnowsRow, Working, Terminal

\* The steps of admission.
LEMMA AdmissionKnows ==
  ASSUME RunInv, NEW r \in Runs,
         \/ Submit(r) \/ TakeSlot(r) \/ RefuseContract(r) \/ CreateRun(r) \/ RegisterTask(r)
  PROVE  KnowsRow(r)'
<1>0. TypeOK /\ KnowsRow(r)
  BY DEF RunInv
<1> USE DEF Goto, Working, TypeOK
<1>1. CASE Submit(r)
  <2>1. row[r] = "absent" /\ pc'[r] \in {"admit", "replayed", "rejected"}
    BY <1>0, <1>1 DEF Submit, KnowsRow
  <2>2. row'[r] = "absent"
    BY <1>0, <1>1, <2>1, GetRunTypes DEF Submit, Bound
  <2> QED BY <2>1, <2>2 DEF KnowsRow
<1>2. CASE TakeSlot(r)
  BY <1>0, <1>2 DEF TakeSlot, KnowsRow
<1>3. CASE RefuseContract(r)
  BY <1>0, <1>3 DEF RefuseContract, KnowsRow
<1>4. CASE CreateRun(r)
  BY <1>0, <1>4 DEF CreateRun, KnowsRow
<1>5. CASE RegisterTask(r)
  BY <1>0, <1>5, GetRunTypes DEF RegisterTask, KnowsRow, Terminal
<1> QED BY <1>1, <1>2, <1>3, <1>4, <1>5

\* The steps of the investigation and of its end.
LEMMA TaskKnows ==
  ASSUME RunInv, NEW r \in Runs,
         \/ StartContract(r) \/ Connect(r) \/ ModelEvent(r) \/ Ground(r) \/ UpdateReads(r)
         \/ UpdateWrites(r) \/ UpdateReplies(r) \/ Timeout(r) \/ Raise(r) \/ Interrupted(r)
         \/ StoreFails(r) \/ Finish(r) \/ Unwind(r)
  PROVE  KnowsRow(r)'
<1>0. TypeOK /\ KnowsRow(r)
  BY DEF RunInv
<1>g. /\ row[r] # "absent" => GetRun(r) \in {"RUNNING"} \cup Terminal
      /\ row[r] \in Terminal => GetRun(r) = row[r]
  BY <1>0, GetRunTypes
<1>t. "RUNNING" \notin Terminal /\ "absent" \notin Terminal
  BY DEF Terminal
<1> USE DEF Goto, Leave, Handle, BeginUpdate, TypeOK
<1>1. CASE StartContract(r)
  BY <1>0, <1>1, <1>g, <1>t DEF StartContract, StillRunning, KnowsRow, Working
<1>2. CASE Connect(r) \/ Ground(r)
  BY <1>0, <1>2 DEF Connect, Ground, KnowsRow, Working
<1>3. CASE ModelEvent(r)
  BY <1>0, <1>3, <1>g, <1>t DEF ModelEvent, StillRunning, KnowsRow, Working
<1>4. CASE UpdateReads(r)
  BY <1>0, <1>4, <1>t DEF UpdateReads, KnowsRow, Working
<1>5. CASE UpdateWrites(r)
  <2>1. row[r] \in {"RUNNING"} \cup Terminal /\ verdict[r] \in Terminal /\ pc'[r] = "reply"
    BY <1>0, <1>5 DEF UpdateWrites, KnowsRow, Statuses, Updating
  <2>2. row'[r] \in Terminal
    BY <1>0, <1>5, <2>1, <1>t DEF UpdateWrites, UpdateRunning
  <2> QED BY <2>1, <2>2 DEF KnowsRow, Working
<1>6. CASE UpdateReplies(r)
  BY <1>0, <1>6, <1>g DEF UpdateReplies, KnowsRow, Working
<1>7. CASE Timeout(r) \/ Raise(r)
  BY <1>0, <1>7, <1>t DEF Timeout, Raise, TimeoutDue, InBody, Updating, KnowsRow, Working
<1>8. CASE Interrupted(r)
  BY <1>0, <1>8, <1>t DEF Interrupted, InBody, Updating, KnowsRow, Working
<1>9. CASE StoreFails(r) \/ Unwind(r)
  BY <1>0, <1>9 DEF StoreFails, Unwind, KnowsRow, Working
<1>10. CASE Finish(r)
  BY <1>0, <1>10 DEF Finish, KnowsRow, Working
<1> QED BY <1>1, <1>2, <1>3, <1>4, <1>5, <1>6, <1>7, <1>8, <1>9, <1>10

\* The step of one submission's task.
OwnStep(r) ==
    \/ Submit(r) \/ TakeSlot(r) \/ RefuseContract(r) \/ TaskStep(r)
    \/ Connect(r) \/ ModelEvent(r) \/ Timeout(r) \/ Raise(r) \/ StoreFails(r)

\* A step of one submission moves no other one.
LEMMA OwnStepIsOwn ==
  ASSUME TypeOK, NEW r \in Runs, OwnStep(r), NEW q \in Runs, q # r
  PROVE  UNCHANGED <<pc[q], response[q]>> /\ (q \in tasks => q \in tasks')
<1> USE DEF Goto, Leave, Handle, BeginUpdate, TypeOK
<1>1. CASE Submit(r) \/ TakeSlot(r) \/ RefuseContract(r) \/ CreateRun(r) \/ RegisterTask(r)
  BY <1>1 DEF Submit, TakeSlot, RefuseContract, CreateRun, RegisterTask
<1>2. CASE StartContract(r) \/ Connect(r) \/ ModelEvent(r) \/ Ground(r)
  BY <1>2 DEF StartContract, Connect, ModelEvent, Ground
<1>3. CASE UpdateReads(r) \/ UpdateWrites(r) \/ UpdateReplies(r) \/ Timeout(r) \/ Raise(r)
  BY <1>3 DEF UpdateReads, UpdateWrites, UpdateReplies, Timeout, Raise
<1>4. CASE Interrupted(r) \/ StoreFails(r) \/ Finish(r) \/ Unwind(r)
  BY <1>4 DEF Interrupted, StoreFails, Finish, Unwind
<1> QED BY <1>1, <1>2, <1>3, <1>4 DEF OwnStep, TaskStep

\* Every step leaves each submission knowing its row.
LEMMA NextKnows == RunInv /\ [Next]_vars => \A r \in Runs : KnowsRow(r)'
<1> SUFFICES ASSUME RunInv, [Next]_vars, NEW r \in Runs PROVE KnowsRow(r)'
  OBVIOUS
<1>0. TypeOK /\ KnowsRow(r)
  BY DEF RunInv
<1>1. ASSUME NEW q \in Runs, OwnStep(q) PROVE KnowsRow(r)'
  <2>1. CASE q = r
    BY <1>1, <2>1, AdmissionKnows, TaskKnows DEF OwnStep, TaskStep
  <2>2. CASE q # r
    BY <1>0, <1>1, <2>2, OwnStepIsOwn, KnowsRowKept
  <2> QED BY <2>1, <2>2
<1>2. ASSUME NEW q \in Runs,
             \/ DetachedUpdate(q) \/ Disconnect(q) \/ DeadlinePasses(q) \/ ReaderSeesExpired(q)
             \/ ReaderExpires(q) \/ \E c \in Operators : CancelReads(c, q)
      PROVE  KnowsRow(r)'
  BY <1>2, KnowsRowKept DEF DetachedUpdate, Disconnect, DeadlinePasses, ReaderSeesExpired,
     ReaderExpires, CancelReads
<1>3. ASSUME NEW c \in Operators, CancelWrites(c) \/ CancelReplies(c) PROVE KnowsRow(r)'
  BY <1>3, KnowsRowKept DEF CancelWrites, CancelReplies
<1>4. ASSUME SaveTemplate \/ EditBegins \/ EditEnds \/ UNCHANGED vars PROVE KnowsRow(r)'
  BY <1>4, KnowsRowKept DEF SaveTemplate, EditBegins, EditEnds, vars
<1>5. ASSUME Crash PROVE KnowsRow(r)'
  BY <1>0, <1>5 DEF Crash, KnowsRow, TypeOK, Holding, Working, Updating
<1> QED BY <1>1, <1>2, <1>3, <1>4, <1>5 DEF Next, OwnStep

\* Before anything is submitted there is nothing to know.
LEMMA InitRunInv == Init => RunInv
<1> SUFFICES ASSUME Init PROVE RunInv
  OBVIOUS
<1>1. TypeOK
  BY InitTypeOK
<1>2. ResultIffCompleted
  BY DEF Init, ResultIffCompleted, Completed
<1>3. \A r \in Runs : KnowsRow(r)
  BY DEF Init, KnowsRow, Working
<1> QED BY <1>1, <1>2, <1>3 DEF RunInv

\* The three parts of the invariant are kept together.
LEMMA NextRunInv == RunInv /\ [Next]_vars => RunInv'
<1> SUFFICES ASSUME RunInv, [Next]_vars PROVE RunInv'
  OBVIOUS
<1>1. TypeOK'
  BY NextTypeOK DEF RunInv
<1> QED BY <1>1, NextResults, NextKnows DEF RunInv

\* Every submission knows its row, for every number of submissions and operators.
THEOREM RowsKnown == Spec => []RunInv
<1> QED BY InitRunInv, NextRunInv, PTL DEF Spec

\* No race leaves a status without its result or a result under another status.
THEOREM ResultsMatch == Spec => []ResultIffCompleted
<1>1. RunInv => ResultIffCompleted
  BY DEF RunInv
<1> QED BY <1>1, RowsKnown, PTL

\* What execute returned is terminal and stays what the row says.
THEOREM RepliesAreFinal == Spec => []ReplyIsFinal
<1>1. RunInv => ReplyIsFinal
  BY DEF RunInv, KnowsRow, ReplyIsFinal
<1> QED BY <1>1, RowsKnown, PTL

\* The detailed row, with its concurrent writers, implements the record.
THEOREM RowImplementsRecord == Spec => RecordSpec
<1>1. Init => Record!Init
  BY DEF Init, Record!Init
<1>2. RunInv /\ [Next]_vars => [Record!Next]_<<row, result>>
  <2> SUFFICES ASSUME RunInv, [Next]_vars PROVE [Record!Next]_<<row, result>>
    OBVIOUS
  <2>1. CASE RowsKept
    BY <2>1 DEF RowsKept
  <2>2. ASSUME NEW r \in Runs, RowOpened(r) PROVE Record!Next
    BY <2>2 DEF RowOpened, Record!Next, Record!Open
  <2>3. ASSUME NEW r \in Runs, NEW s \in Terminal, RowClosed(r, s) PROVE Record!Next
    BY <2>3 DEF RowClosed, Record!Next, Record!Close, Terminal, Record!Terminal, Completed,
       Record!Completed
  <2> QED BY <2>1, <2>2, <2>3, RowSteps
<1> QED BY <1>1, <1>2, RowsKnown, PTL DEF Spec, RecordSpec, Record!Spec

------------------------------------------------------------------------------
(***************************************************************************)
(* Cancellation requests.                                                  *)
(***************************************************************************)

\* What is true of one request: what it knows of its target, that the reply it gave
\* is final, and that a task it stopped is not left working.
RequestSound(c) ==
    /\ KnowsTarget(c)
    /\ told[c] # None => told[c] \in Terminal /\ told[c] = row[target[c]]
    /\ told[c] = "CANCELLED" /\ pc[target[c]] \in Working => target[c] \in interrupt

\* IInv, one request at a time.
LEMMA IInvRequests == IInv <=> RunInv /\ \A c \in Operators : RequestSound(c)
  BY DEF IInv, RequestSound, CancelReplyIsFinal, CancelledStops

\* A step that leaves the request alone and does not put a cancelled task to work.
LEMMA RequestKept ==
  ASSUME RunInv, [Next]_vars, NEW c \in Operators, RequestSound(c),
         UNCHANGED <<cpc[c], target[c], told[c]>>,
         \A r \in Runs : pc'[r] \in Working =>
            \/ pc[r] \in Working /\ (r \in interrupt => r \in interrupt')
            \/ row[r] = "RUNNING"
  PROVE  RequestSound(c)'
<1>0. TypeOK /\ "RUNNING" \notin Terminal /\ None # "CANCELLED"
  BY NoneAssumption DEF RunInv, Terminal, Statuses
<1>1. CASE cpc[c] = "idle"
  BY <1>0, <1>1 DEF RequestSound, KnowsTarget
<1>2. CASE cpc[c] # "idle"
  <2>1. target[c] \in Runs
    BY <1>0, <1>2 DEF TypeOK
  <2>2. /\ row[target[c]] # "absent" => row'[target[c]] # "absent"
        /\ row[target[c]] \in Terminal => row'[target[c]] = row[target[c]]
    BY <2>1, RowsMonotone
  <2>3. KnowsTarget(c)'
    BY <1>2, <2>2 DEF RequestSound, KnowsTarget
  <2>4. (told[c] # None => told[c] \in Terminal /\ told[c] = row[target[c]])'
    BY <2>2 DEF RequestSound
  <2>5. (told[c] = "CANCELLED" /\ pc[target[c]] \in Working => target[c] \in interrupt)'
    <3> SUFFICES ASSUME told[c] = "CANCELLED", pc'[target[c]] \in Working
                 PROVE  target[c] \in interrupt'
      OBVIOUS
    <3>1. row[target[c]] # "RUNNING"
      BY <1>0 DEF RequestSound
    <3> QED BY <2>1, <3>1 DEF RequestSound
  <2> QED BY <2>3, <2>4, <2>5 DEF RequestSound
<1> QED BY <1>1, <1>2

\* A request that returns status s of run r, which is terminal and what the row says.
LEMMA RequestAnswered ==
  ASSUME RunInv, TypeOK', NEW c \in Operators, NEW r \in Runs, NEW s \in Terminal,
         cpc[c] # "over", target'[c] = r, row'[r] = s, pc' = pc, tasks' = tasks,
         CancelReturns(c, r, s)
  PROVE  RequestSound(c)'
<1>1. cpc'[c] = "over" /\ told'[c] = s
  BY DEF CancelReturns, RunInv, TypeOK
<1>2. s = "CANCELLED" /\ pc[r] \in Working => r \in interrupt'
  BY DEF CancelReturns, RunInv, KnowsRow
<1> QED BY <1>1, <1>2 DEF RequestSound, KnowsTarget

\* Every step keeps what a cancellation request relies on.
LEMMA NextRequests == IInv /\ [Next]_vars => \A c \in Operators : RequestSound(c)'
<1> SUFFICES ASSUME IInv, [Next]_vars, NEW c \in Operators PROVE RequestSound(c)'
  OBVIOUS
<1>0. RunInv /\ RequestSound(c) /\ TypeOK /\ TypeOK'
  BY IInvRequests, NextTypeOK DEF RunInv
<1>1. ASSUME NEW r \in Runs,
             \/ Submit(r) \/ TakeSlot(r) \/ RefuseContract(r) \/ CreateRun(r)
             \/ RegisterTask(r)
      PROVE  RequestSound(c)'
  <2>1. UNCHANGED <<cpc, target, told, interrupt>>
    BY <1>1 DEF Submit, TakeSlot, RefuseContract, CreateRun, RegisterTask
  <2>2. \A q \in Runs : pc'[q] \in Working => pc[q] \in Working
    BY <1>0, <1>1 DEF Submit, TakeSlot, RefuseContract, CreateRun, RegisterTask, Goto, TypeOK,
       Working
  <2> QED BY <1>0, <2>1, <2>2, RequestKept
<1>2. ASSUME NEW r \in Runs, StartContract(r) PROVE RequestSound(c)'
  <2>1. UNCHANGED <<cpc, target, told, interrupt>>
    BY <1>2 DEF StartContract
  <2>2. \A q \in Runs : pc'[q] \in Working => pc[q] \in Working \/ row[q] = "RUNNING"
    BY <1>0, <1>2 DEF StartContract, StillRunning, GetRun, BeginUpdate, Leave, Goto, TypeOK,
       Working
  <2> QED BY <1>0, <2>1, <2>2, RequestKept
<1>3. ASSUME NEW r \in Runs,
             \/ Connect(r) \/ ModelEvent(r) \/ Ground(r) \/ UpdateReads(r) \/ UpdateWrites(r)
             \/ UpdateReplies(r) \/ Timeout(r) \/ Raise(r) \/ StoreFails(r) \/ Finish(r)
             \/ Unwind(r)
      PROVE  RequestSound(c)'
  <2>1. UNCHANGED <<cpc, target, told, interrupt>>
    BY <1>3 DEF Connect, ModelEvent, Ground, UpdateReads, UpdateWrites, UpdateReplies, Timeout,
       Raise, StoreFails, Finish, Unwind
  <2>2. \A q \in Runs : pc'[q] \in Working => pc[q] \in Working
    BY <1>0, <1>3 DEF Connect, ModelEvent, Ground, UpdateReads, UpdateWrites, UpdateReplies,
       Timeout, Raise, StoreFails, Finish, Unwind, Handle, BeginUpdate, Leave, Goto, TypeOK,
       Working
  <2> QED BY <1>0, <2>1, <2>2, RequestKept
<1>4. ASSUME NEW r \in Runs, Interrupted(r) PROVE RequestSound(c)'
  <2>1. UNCHANGED <<cpc, target, told>> /\ interrupt' = interrupt \ {r}
    BY <1>4 DEF Interrupted
  <2>2. pc'[r] \notin Working /\ \A q \in Runs \ {r} : pc'[q] = pc[q]
    BY <1>0, <1>4 DEF Interrupted, Handle, BeginUpdate, Goto, TypeOK, Working
  <2>3. \A q \in Runs : pc'[q] \in Working =>
          pc[q] \in Working /\ (q \in interrupt => q \in interrupt')
    BY <2>1, <2>2
  <2> QED BY <1>0, <2>1, <2>3, RequestKept
<1>5. ASSUME NEW r \in Runs,
             \/ DetachedUpdate(r) \/ Disconnect(r) \/ DeadlinePasses(r) \/ ReaderSeesExpired(r)
             \/ ReaderExpires(r)
      PROVE  RequestSound(c)'
  <2>1. UNCHANGED <<cpc, target, told, pc>> /\ interrupt \subseteq interrupt'
    BY <1>5 DEF DetachedUpdate, Disconnect, DeadlinePasses, ReaderSeesExpired, ReaderExpires
  <2> QED BY <1>0, <2>1, RequestKept
<1>6. ASSUME NEW d \in Operators, d # c,
             CancelWrites(d) \/ CancelReplies(d) \/ \E r \in Runs : CancelReads(d, r)
      PROVE  RequestSound(c)'
  <2>1. UNCHANGED <<cpc[c], target[c], told[c], pc>> /\ interrupt \subseteq interrupt'
    BY <1>0, <1>6 DEF CancelWrites, CancelReplies, CancelReads, CancelReturns, TypeOK
  <2> QED BY <1>0, <2>1, RequestKept
<1>7. ASSUME NEW r \in Runs, CancelReads(c, r) PROVE RequestSound(c)'
  <2>1. target'[c] = r /\ row' = row /\ pc' = pc /\ tasks' = tasks /\ cpc[c] = "idle"
    BY <1>0, <1>7 DEF CancelReads, TypeOK
  <2>2. CASE row[r] \in Terminal
    <3>1. CancelReturns(c, r, row[r])
      BY <1>7, <2>2 DEF CancelReads
    <3> QED BY <1>0, <2>1, <2>2, <3>1, RequestAnswered
  <2>3. CASE row[r] \notin Terminal
    <3>1. cpc'[c] = "write" /\ told'[c] = None /\ row[r] # "absent"
      BY <1>0, <1>7, <2>3 DEF CancelReads, RequestSound, KnowsTarget, TypeOK
    <3>2. None # "CANCELLED"
      BY NoneAssumption DEF Statuses, Terminal
    <3> QED BY <2>1, <3>1, <3>2 DEF RequestSound, KnowsTarget
  <2> QED BY <2>2, <2>3
<1>8. ASSUME CancelWrites(c) PROVE RequestSound(c)'
  <2>1. /\ target'[c] = target[c] /\ target[c] \in Runs
        /\ cpc'[c] = "reply" /\ told'[c] = None
    BY <1>0, <1>8 DEF CancelWrites, RequestSound, KnowsTarget, TypeOK
  <2>2. row[target[c]] \in {"RUNNING"} \cup Terminal
    BY <1>0, <1>8, <2>1 DEF CancelWrites, RequestSound, KnowsTarget, TypeOK, Statuses
  <2>3. row'[target[c]] \in Terminal
    BY <1>0, <1>8, <2>1, <2>2 DEF CancelWrites, UpdateRunning, TypeOK, Terminal
  <2>4. None # "CANCELLED"
    BY NoneAssumption DEF Statuses, Terminal
  <2> QED BY <2>1, <2>3, <2>4 DEF RequestSound, KnowsTarget
<1>9. ASSUME CancelReplies(c) PROVE RequestSound(c)'
  <2>1. /\ target'[c] = target[c] /\ target[c] \in Runs /\ row[target[c]] \in Terminal
        /\ pc' = pc /\ tasks' = tasks /\ cpc[c] = "reply"
    BY <1>0, <1>9 DEF CancelReplies, RequestSound, KnowsTarget, TypeOK
  <2>2. GetRun(target[c]) = row[target[c]]
    BY <1>0, <2>1, GetRunTypes
  <2>3. row'[target[c]] = row[target[c]]
    BY <1>0, <2>1, RowsMonotone
  <2>4. CancelReturns(c, target[c], row[target[c]])
    BY <1>9, <2>2 DEF CancelReplies
  <2> QED BY <1>0, <2>1, <2>3, <2>4, RequestAnswered
<1>10. ASSUME SaveTemplate \/ EditBegins \/ EditEnds \/ UNCHANGED vars PROVE RequestSound(c)'
  <2>1. UNCHANGED <<cpc, target, told, pc, interrupt>>
    BY <1>10 DEF SaveTemplate, EditBegins, EditEnds, vars
  <2> QED BY <1>0, <2>1, RequestKept
<1>11. ASSUME Crash PROVE RequestSound(c)'
  <2>1. UNCHANGED <<row, target, told>>
    BY <1>11 DEF Crash
  <2>2. cpc'[c] = cpc[c] \/ cpc'[c] = "over"
    BY <1>0, <1>11 DEF Crash, TypeOK
  <2>3. cpc'[c] \notin {"write", "reply"}
    BY <1>0, <1>11 DEF Crash, TypeOK
  <2>4. \A r \in Runs : pc'[r] \notin Working
    BY <1>0, <1>11 DEF Crash, TypeOK, Holding, Working
  <2>5. told[c] = "CANCELLED" => target[c] \in Runs
    BY <1>0, NoneAssumption DEF RequestSound, KnowsTarget, TypeOK, Statuses, Terminal
  <2> QED BY <1>0, <2>1, <2>2, <2>3, <2>4, <2>5 DEF RequestSound, KnowsTarget
<1> QED
  BY <1>1, <1>2, <1>3, <1>4, <1>5, <1>6, <1>7, <1>8, <1>9, <1>10, <1>11 DEF Next, TaskStep

\* The whole invariant is inductive: what operators were told is final and has stopped
\* the work, for every number of submissions and requests.
THEOREM Inductive == Spec => []IInv
<1>1. Init => IInv
  <2> SUFFICES ASSUME Init PROVE IInv
    OBVIOUS
  <2>1. \A c \in Operators : RequestSound(c)
    BY NoneAssumption DEF Init, RequestSound, KnowsTarget, Statuses, Terminal
  <2> QED BY <2>1, InitRunInv, IInvRequests
<1>2. IInv /\ [Next]_vars => IInv'
  <2> SUFFICES ASSUME IInv, [Next]_vars PROVE IInv'
    OBVIOUS
  <2>1. RunInv' /\ \A c \in Operators : RequestSound(c)'
    BY NextRunInv, NextRequests DEF IInv
  <2> QED BY <2>1 DEF IInv, RequestSound, CancelReplyIsFinal, CancelledStops
<1> QED BY <1>1, <1>2, PTL DEF Spec

\* Nobody is told a status that the run does not keep.
THEOREM CancelRepliesAreFinal == Spec => []CancelReplyIsFinal
<1>1. IInv => CancelReplyIsFinal
  BY DEF IInv
<1> QED BY <1>1, Inductive, PTL

\* A cancellation that was confirmed is on its way to the task, also when it came
\* before the task was registered.
THEOREM CancellationStops == Spec => []CancelledStops
<1>1. IInv => CancelledStops
  BY DEF IInv
<1> QED BY <1>1, Inductive, PTL

------------------------------------------------------------------------------
(***************************************************************************)
(* Idempotency keys.                                                       *)
(***************************************************************************)

\* Every step keeps one run per key.
LEMMA NextKeys == RunInv /\ OneRunPerKey /\ [Next]_vars => OneRunPerKey'
<1> SUFFICES ASSUME RunInv, OneRunPerKey, [Next]_vars PROVE OneRunPerKey'
  OBVIOUS
<1>0. TypeOK
  BY DEF RunInv
<1>1. ASSUME NEW r \in Runs PROVE Bound(r) \subseteq Bound(r)'
  BY RowsMonotone DEF Bound
<1>2. ASSUME NEW r \in Runs, NEW s \in Runs, row'[r] # "absent", s \in Bound(r)' PROVE r = s
  <2>1. Key[r] # NoKey /\ Key[r] = Key[s] /\ row'[s] # "absent"
    BY <1>2 DEF Bound
  <2>2. CASE row[r] # "absent" /\ row[s] # "absent"
    BY <2>1, <2>2 DEF Bound, OneRunPerKey
  <2>3. CASE row[r] = "absent" /\ row[s] # "absent"
    BY <1>2, <2>1, <2>3, RowsMonotone DEF KeyIsFree, Bound
  <2>4. CASE row[r] # "absent" /\ row[s] = "absent"
    BY <1>2, <2>1, <2>4, RowsMonotone DEF KeyIsFree, Bound
  <2>5. CASE row[r] = "absent" /\ row[s] = "absent"
    <3>1. CreateRun(r) /\ CreateRun(s)
      BY <1>2, <2>1, <2>5, RowsMonotone
    <3>2. pc[r] = "prepare" /\ pc'[s] # "prepare" /\ \A q \in Runs \ {s} : pc'[q] = pc[q]
      BY <1>0, <3>1 DEF CreateRun, Goto, TypeOK
    <3>3. pc'[r] # "prepare"
      BY <1>0, <3>1 DEF CreateRun, Goto, TypeOK
    <3> QED BY <3>2, <3>3
  <2> QED BY <2>2, <2>3, <2>4, <2>5
<1>3. ASSUME NEW r \in Runs, answer'[r] # None
      PROVE  \/ answer'[r] = r
             \/ answer'[r] \in Bound(r)' /\ Request[answer'[r]] = Request[r]
  <2>1. CASE answer'[r] = answer[r]
    BY <1>1, <1>3, <2>1 DEF OneRunPerKey
  <2>2. ASSUME NEW q \in Runs, Submit(q) \/ CreateRun(q), answer' # answer
        PROVE  \/ answer'[r] = answer[r]
               \/ answer'[r] \in Bound(r) /\ Request[answer'[r]] = Request[r]
    <3>1. PICK s \in Bound(q) : SameRequestHash(s, q) /\ answer' = [answer EXCEPT ![q] = s]
      BY <2>2 DEF Submit, CreateRun
    <3>2. answer'[r] = IF r = q THEN s ELSE answer[r]
      BY <1>0, <3>1 DEF TypeOK
    <3>3. CASE r = q
      BY <3>1, <3>2, <3>3, Zenon DEF SameRequestHash
    <3>4. CASE r # q
      BY <3>2, <3>4
    <3> QED BY <3>3, <3>4
  <2>3. ASSUME NEW q \in Runs, Finish(q) PROVE answer'[r] \in {answer[r], r}
    BY <1>0, <2>3 DEF Finish, TypeOK
  <2>4. ASSUME NEW q \in Runs,
               \/ TakeSlot(q) \/ RefuseContract(q) \/ RegisterTask(q) \/ StartContract(q)
               \/ Connect(q) \/ ModelEvent(q) \/ Ground(q) \/ UpdateReads(q) \/ UpdateWrites(q)
               \/ UpdateReplies(q) \/ Timeout(q) \/ Raise(q) \/ Interrupted(q) \/ StoreFails(q)
               \/ DetachedUpdate(q) \/ Unwind(q) \/ Disconnect(q) \/ DeadlinePasses(q)
               \/ ReaderSeesExpired(q) \/ ReaderExpires(q)
               \/ \E c \in Operators : CancelReads(c, q)
        PROVE  answer' = answer
    BY <2>4 DEF TakeSlot, RefuseContract, RegisterTask, StartContract, Connect, ModelEvent,
       Ground, UpdateReads, UpdateWrites, UpdateReplies, Timeout, Raise, Interrupted,
       StoreFails, DetachedUpdate, Unwind, Disconnect, DeadlinePasses, ReaderSeesExpired,
       ReaderExpires, CancelReads
  <2>5. ASSUME NEW c \in Operators, CancelWrites(c) \/ CancelReplies(c) PROVE answer' = answer
    BY <2>5 DEF CancelWrites, CancelReplies
  <2>6. ASSUME SaveTemplate \/ EditBegins \/ EditEnds \/ Crash \/ UNCHANGED vars
        PROVE  answer' = answer
    BY <2>6 DEF SaveTemplate, EditBegins, EditEnds, Crash, vars
  <2> QED BY <1>1, <2>1, <2>2, <2>3, <2>4, <2>5, <2>6 DEF Next, TaskStep
<1> QED BY <1>2, <1>3 DEF OneRunPerKey

\* One key never names two runs or answers for another request, for every number of
\* submissions and every assignment of keys to them.
THEOREM KeysAreHonoured == Spec => []OneRunPerKey
<1>1. Init => OneRunPerKey
  BY DEF Init, OneRunPerKey
<1>2. RunInv /\ OneRunPerKey /\ [Next]_vars => OneRunPerKey'
  BY NextKeys
<1> QED BY <1>1, <1>2, RowsKnown, PTL DEF Spec
==============================================================================
