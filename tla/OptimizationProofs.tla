-------------------------- MODULE OptimizationProofs --------------------------
(***************************************************************************)
(* The two halves of app/optimization.  ImprovementJobs for any number of  *)
(* jobs, workers and requests: its types, checkpoints and attempts.        *)
(* Activation for any number of revisions, administrators and processes:   *)
(* that only approved content is active, that it can be restored, that     *)
(* decisions stand, and that its table implements ContentHistory.          *)
(***************************************************************************)
EXTENDS ImprovementJobs, Activation, FiniteSetTheorems, TLAPS

USE JobsAssumption, AttemptsAssumption, PagesAssumption, NobodyAssumption

\* The empty queue has the right types.
LEMMA InitTypeOK == JobsInit => JobsTypeOK
  BY DEF JobsInit, JobsTypeOK, RowsTypeOK, WorkTypeOK, ControlTypeOK, Jobs, JobStatuses

\* Concluding an attempt keeps the worker's local variables well typed.
LEMMA ConcludeTypes ==
  ASSUME WorkTypeOK, NEW w \in Workers, wpc[w] # "idle",
         NEW s \in Outcomes, NEW b \in BOOLEAN, b => s = "QUEUED", Conclude(w, s, b)
  PROVE  WorkTypeOK'
  BY DEF WorkTypeOK, Conclude, Outcomes

\* So does returning from run_once.
LEMMA ReturnTypes ==
  ASSUME WorkTypeOK, NEW w \in Workers, Return(w)
  PROVE  WorkTypeOK'
  BY DEF WorkTypeOK, Return, Outcomes

\* Writing a job and answering a request only make requests less fresh.
LEMMA TouchTypes ==
  ASSUME ControlTypeOK, NEW js, Touch(js), UNCHANGED control
  PROVE  ControlTypeOK'
  BY DEF ControlTypeOK, Touch, control

\* So does a control request that was answered.
LEMMA AnswerTypes ==
  ASSUME ControlTypeOK, NEW c \in Operators, NEW js, Answer(c, js)
  PROVE  ControlTypeOK'
  BY DEF ControlTypeOK, Answer

\* Every step keeps the types.
LEMMA NextTypeOK == JobsTypeOK /\ [JobsNext]_jobsVars => JobsTypeOK'
<1> SUFFICES ASSUME JobsTypeOK, [JobsNext]_jobsVars PROVE JobsTypeOK'
  OBVIOUS
<1> USE DEF JobsTypeOK
<1>1. ASSUME NEW j \in Jobs, Enqueue(j) PROVE JobsTypeOK'
  BY <1>1 DEF Enqueue, RowsTypeOK, WorkTypeOK, ControlTypeOK, JobStatuses, Active, work, control
<1>2. ASSUME NEW j \in Jobs, LeaseLapses(j) PROVE JobsTypeOK'
  BY <1>2 DEF LeaseLapses, RowsTypeOK, WorkTypeOK, ControlTypeOK, work, control
<1>3. ASSUME NEW w \in Workers, Claim(w) PROVE JobsTypeOK'
  <2>1. ASSUME NEW j \in Jobs, ClaimOldest(w, j) PROVE JobsTypeOK'
    <3>1. RowsTypeOK'
      BY <2>1 DEF ClaimOldest, RowsTypeOK, FailExhausted, ChargeAttempt, Ready, JobStatuses,
                  Active, Settled
    <3>2. WorkTypeOK'
      BY <2>1 DEF ClaimOldest, WorkTypeOK, RowsTypeOK, Outcomes
    <3>3. ControlTypeOK'
      BY <1>3, <2>1, TouchTypes DEF ClaimOldest, Claim
    <3> QED BY <3>1, <3>2, <3>3
  <2>2. CASE ClaimNothing
    <3>1. RowsTypeOK'
      BY <2>2 DEF ClaimNothing, RowsTypeOK, FailExhausted, JobStatuses, Settled
    <3>2. WorkTypeOK'
      BY <2>2 DEF ClaimNothing, WorkTypeOK, work
    <3>3. ControlTypeOK'
      BY <1>3, <2>2, TouchTypes DEF ClaimNothing, Claim
    <3> QED BY <3>1, <3>2, <3>3
  <2> QED BY <1>3, <2>1, <2>2 DEF Claim
<1>4. ASSUME NEW w \in Workers, Progress(w) PROVE JobsTypeOK'
  <2>1. CASE Token(w) /\ wjob[w] \notin flag
    <3>1. RowsTypeOK'
      BY <1>4, <2>1 DEF Progress, RowsTypeOK, WorkTypeOK, Touch
    <3>2. WorkTypeOK'
      BY <1>4, <2>1 DEF Progress, WorkTypeOK, Outcomes
    <3>3. ControlTypeOK'
      BY <1>4, <2>1, TouchTypes DEF Progress
    <3> QED BY <3>1, <3>2, <3>3
  <2>2. CASE ~(Token(w) /\ wjob[w] \notin flag)
    <3>1. RowsTypeOK' /\ ControlTypeOK'
      BY <1>4, <2>2 DEF Progress, RowsTypeOK, ControlTypeOK, control
    <3>2. WorkTypeOK'
      BY <1>4, <2>2, ConcludeTypes DEF Progress, Outcomes
    <3> QED BY <3>1, <3>2
  <2> QED BY <2>1, <2>2
<1>5. ASSUME NEW w \in Workers, ProgressReturns(w) PROVE JobsTypeOK'
  <2>1. RowsTypeOK' /\ ControlTypeOK'
    BY <1>5 DEF ProgressReturns, RowsTypeOK, ControlTypeOK, jobRows, control
  <2>2. WorkTypeOK'
    BY <1>5 DEF ProgressReturns, AdvancePage, WorkTypeOK, Outcomes
  <2> QED BY <2>1, <2>2
<1>6. ASSUME NEW w \in Workers, Complete(w) PROVE JobsTypeOK'
  <2>1. RowsTypeOK' /\ ControlTypeOK'
    BY <1>6 DEF Complete, RowsTypeOK, ControlTypeOK, jobRows, control
  <2>2. WorkTypeOK'
    BY <1>6, ConcludeTypes DEF Complete, Outcomes
  <2> QED BY <2>1, <2>2
<1>7. ASSUME NEW w \in Workers, YieldTurn(w) PROVE JobsTypeOK'
  <2>1. RowsTypeOK' /\ ControlTypeOK'
    BY <1>7 DEF YieldTurn, RowsTypeOK, ControlTypeOK, jobRows, control
  <2>2. WorkTypeOK'
    BY <1>7, ConcludeTypes DEF YieldTurn, Outcomes
  <2> QED BY <2>1, <2>2
<1>8. ASSUME NEW w \in Workers, Beat(w) PROVE JobsTypeOK'
  <2>1. RowsTypeOK'
    BY <1>8 DEF Beat, RowsTypeOK
  <2>2. WorkTypeOK'
    BY <1>8, ConcludeTypes DEF Beat, Outcomes, WorkTypeOK, work
  <2>3. ControlTypeOK'
    BY <1>8 DEF Beat, ControlTypeOK, Touch, control
  <2> QED BY <2>1, <2>2, <2>3
<1>9. ASSUME NEW w \in Workers, BeatFails(w) \/ Shutdown(w) PROVE JobsTypeOK'
  <2>1. RowsTypeOK' /\ ControlTypeOK'
    BY <1>9 DEF BeatFails, Shutdown, RowsTypeOK, ControlTypeOK, jobRows, control
  <2>2. WorkTypeOK'
    BY <1>9, ConcludeTypes DEF BeatFails, Shutdown, Outcomes
  <2> QED BY <2>1, <2>2
<1>10. ASSUME NEW w \in Workers, Persist(w) PROVE JobsTypeOK'
  <2>1. RowsTypeOK'
    BY <1>10 DEF Persist, RowsTypeOK, WorkTypeOK, Outcomes, JobStatuses, Active, Settled
  <2>2. WorkTypeOK'
    BY <1>10, ReturnTypes DEF Persist
  <2>3. ControlTypeOK'
    BY <1>10 DEF Persist, ControlTypeOK, Touch, control
  <2> QED BY <2>1, <2>2, <2>3
<1>11. ASSUME NEW w \in Workers, Abandon(w) PROVE JobsTypeOK'
  <2>1. RowsTypeOK' /\ ControlTypeOK'
    BY <1>11 DEF Abandon, RowsTypeOK, ControlTypeOK, jobRows, control
  <2>2. WorkTypeOK'
    BY <1>11, ReturnTypes DEF Abandon
  <2> QED BY <2>1, <2>2
<1>12. ASSUME NEW c \in Operators, NEW j \in Jobs, ControlReads(c, j) PROVE JobsTypeOK'
  <2>1. RowsTypeOK' /\ WorkTypeOK'
    BY <1>12 DEF ControlReads, RowsTypeOK, WorkTypeOK, jobRows, work
  <2>2. ControlTypeOK'
    BY <1>12 DEF ControlReads, ControlTypeOK, RowsTypeOK
  <2> QED BY <2>1, <2>2
<1>13. ASSUME NEW c \in Operators, CancelWrites(c) PROVE JobsTypeOK'
  <2>1. RowsTypeOK'
    BY <1>13 DEF CancelWrites, RowsTypeOK, ControlTypeOK, JobStatuses, Settled
  <2>2. WorkTypeOK'
    BY <1>13 DEF CancelWrites, WorkTypeOK, work
  <2>3. ControlTypeOK'
    BY <1>13, AnswerTypes DEF CancelWrites
  <2> QED BY <2>1, <2>2, <2>3
<1>14. ASSUME NEW c \in Operators, RetryWrites(c) PROVE JobsTypeOK'
  <2>1. RowsTypeOK'
    BY <1>14 DEF RetryWrites, RowsTypeOK, ControlTypeOK, JobStatuses, Active
  <2>2. WorkTypeOK'
    BY <1>14 DEF RetryWrites, WorkTypeOK, work
  <2>3. ControlTypeOK'
    BY <1>14, AnswerTypes DEF RetryWrites
  <2> QED BY <2>1, <2>2, <2>3
<1>15. ASSUME NEW w \in Workers, YieldPage(w) PROVE JobsTypeOK'
  <2>1. RowsTypeOK' /\ ControlTypeOK'
    BY <1>15 DEF YieldPage, RowsTypeOK, ControlTypeOK, jobRows, control
  <2>2. WorkTypeOK'
    BY <1>15 DEF YieldPage, WorkTypeOK, Outcomes
  <2> QED BY <2>1, <2>2
<1>16. CASE UNCHANGED jobsVars
  BY <1>16 DEF jobsVars, jobRows, work, control, RowsTypeOK, WorkTypeOK, ControlTypeOK
<1> QED
  BY <1>1, <1>2, <1>3, <1>4, <1>5, <1>6, <1>7, <1>8, <1>9, <1>10, <1>11, <1>12, <1>13,
     <1>14, <1>15, <1>16 DEF JobsNext

\* Every variable keeps its type, for every number of jobs, workers and requests.
THEOREM JobsTypeCorrect == JobsSpec => []JobsTypeOK
<1>1. JobsInit => JobsTypeOK
  BY InitTypeOK
<1>2. JobsTypeOK /\ [JobsNext]_jobsVars => JobsTypeOK'
  BY NextTypeOK
<1> QED BY <1>1, <1>2, PTL DEF JobsSpec

------------------------------------------------------------------------------
(***************************************************************************)
(* The inductive invariant.  A worker's token is worth something because   *)
(* whoever holds it still knows the checkpoint and the attempts of the     *)
(* row; a retry is guarded by updated_at because it writes back the        *)
(* checkpoint it read.                                                     *)
(***************************************************************************)
JobsInv == JobsTypeOK /\ OwnerHasCheckpoint /\ OwnerHasBudget /\ RequestHasCheckpoint

\* The invariant holds in the empty queue.
LEMMA InitJobsInv == JobsInit => JobsInv
<1> SUFFICES ASSUME JobsInit PROVE JobsInv
  OBVIOUS
<1>1. JobsTypeOK
  BY InitTypeOK
<1>2. OwnerHasCheckpoint /\ OwnerHasBudget /\ RequestHasCheckpoint
  BY DEF JobsInit, OwnerHasCheckpoint, OwnerHasBudget, RequestHasCheckpoint
<1> QED BY <1>1, <1>2 DEF JobsInv

\* A step that leaves the rows alone and no worker nearer to its checkpoint, or
\* that only ends attempts, keeps what the owners know.
LEMMA OwnersKeep ==
  ASSUME JobsInv, UNCHANGED <<jobStatus, attempts, owner, page>>,
         \A w \in Workers : \/ UNCHANGED <<wpc[w], wjob[w], wpage[w], wbase[w]>>
                            \/ wpc'[w] = "idle"
                            \/ wpc'[w] = "persist" /\ wpc[w] # "idle"
                                /\ UNCHANGED <<wjob[w], wpage[w], wbase[w]>>
  PROVE  OwnerHasCheckpoint' /\ OwnerHasBudget'
  BY DEF JobsInv, OwnerHasCheckpoint, OwnerHasBudget, Token, JobsTypeOK, WorkTypeOK, RowsTypeOK

\* Every step keeps the invariant.
LEMMA NextIInv == JobsInv /\ [JobsNext]_jobsVars => JobsInv'
<1> SUFFICES ASSUME JobsInv, [JobsNext]_jobsVars PROVE JobsInv'
  OBVIOUS
<1>0. JobsTypeOK /\ JobsTypeOK'
  BY NextTypeOK DEF JobsInv
<1> SUFFICES OwnerHasCheckpoint' /\ OwnerHasBudget' /\ RequestHasCheckpoint'
  BY <1>0 DEF JobsInv
<1>1. ASSUME NEW j \in Jobs, Enqueue(j)
      PROVE  OwnerHasCheckpoint' /\ OwnerHasBudget' /\ RequestHasCheckpoint'
  BY <1>0, <1>1 DEF Enqueue, JobsInv, OwnerHasCheckpoint, OwnerHasBudget, RequestHasCheckpoint,
     Token, work, control, JobsTypeOK, RowsTypeOK, WorkTypeOK
<1>2. ASSUME NEW j \in Jobs, LeaseLapses(j)
      PROVE  OwnerHasCheckpoint' /\ OwnerHasBudget' /\ RequestHasCheckpoint'
  BY <1>2, OwnersKeep DEF LeaseLapses, JobsInv, RequestHasCheckpoint, work, control
<1>3. ASSUME NEW w \in Workers, NEW j \in Jobs, wpc[w] = "idle",
             ClaimOldest(w, j), UNCHANGED control
      PROVE  OwnerHasCheckpoint' /\ OwnerHasBudget' /\ RequestHasCheckpoint'
  <2>1. ASSUME NEW v \in Workers, v # w, wpc'[v] # "idle", Token(v)'
        PROVE  /\ wjob[v] # j
               /\ UNCHANGED <<wpc[v], wjob[v], wpage[v], wbase[v]>>
               /\ Token(v)
               /\ UNCHANGED <<page[wjob[v]], attempts[wjob[v]]>>
    BY <1>0, <1>3, <2>1 DEF ClaimOldest, FailExhausted, ChargeAttempt, Token, JobsTypeOK,
       RowsTypeOK, WorkTypeOK
  <2>2. /\ wjob'[w] = j /\ wpage'[w] = page[j] /\ page' = page
        /\ wpc'[w] \in {"execute", "persist"}
        /\ wbase'[w] = attempts[j] /\ attempts'[j] = attempts[j] + 1
    BY <1>0, <1>3 DEF ClaimOldest, ChargeAttempt, JobsTypeOK, RowsTypeOK, WorkTypeOK
  <2>3. OwnerHasCheckpoint' /\ OwnerHasBudget'
    BY <1>0, <2>1, <2>2 DEF JobsInv, OwnerHasCheckpoint, OwnerHasBudget, JobsTypeOK, RowsTypeOK,
                            WorkTypeOK
  <2>4. RequestHasCheckpoint'
    BY <1>3 DEF ClaimOldest, Touch, JobsInv, RequestHasCheckpoint, control
  <2> QED BY <2>3, <2>4
<1>4. CASE ClaimNothing /\ UNCHANGED control
  BY <1>0, <1>4 DEF ClaimNothing, FailExhausted, Touch, JobsInv, OwnerHasCheckpoint, OwnerHasBudget,
     RequestHasCheckpoint, Token, work, control, JobsTypeOK, RowsTypeOK, WorkTypeOK
<1>5. ASSUME NEW w \in Workers, Progress(w)
      PROVE  OwnerHasCheckpoint' /\ OwnerHasBudget' /\ RequestHasCheckpoint'
  <2>1. CASE Token(w) /\ wjob[w] \notin flag
    <3>1. ASSUME NEW v \in Workers, v # w, wpc'[v] # "idle", Token(v)'
          PROVE  /\ wjob[v] # wjob[w]
                 /\ UNCHANGED <<wpc[v], wjob[v], wpage[v], wbase[v]>>
                 /\ Token(v)
                 /\ UNCHANGED <<page[wjob[v]], attempts[wjob[v]]>>
      BY <1>0, <1>5, <2>1, <3>1 DEF Progress, Token, JobsTypeOK, RowsTypeOK, WorkTypeOK
    <3>2. /\ UNCHANGED <<wjob[w], wpage[w], wbase[w], attempts>>
          /\ wpc'[w] = "saving"
          /\ page'[wjob[w]] = wpage[w] + 1
          /\ wpage[w] \in Nat
      BY <1>0, <1>5, <2>1 DEF Progress, JobsTypeOK, RowsTypeOK, WorkTypeOK
    <3>3. Token(w) /\ wpc[w] # "idle"
      BY <1>5, <2>1 DEF Progress
    <3>4. OwnerHasCheckpoint' /\ OwnerHasBudget'
      BY <1>0, <3>1, <3>2, <3>3 DEF JobsInv, OwnerHasCheckpoint, OwnerHasBudget, JobsTypeOK,
                                    RowsTypeOK, WorkTypeOK
    <3>5. RequestHasCheckpoint'
      BY <1>0, <1>5, <2>1 DEF Progress, Touch, JobsInv, RequestHasCheckpoint, control, JobsTypeOK,
         RowsTypeOK, ControlTypeOK
    <3> QED BY <3>4, <3>5
  <2>2. CASE ~(Token(w) /\ wjob[w] \notin flag)
    BY <1>0, <1>5, <2>2, OwnersKeep DEF Progress, Conclude, JobsInv, RequestHasCheckpoint, control,
       JobsTypeOK, WorkTypeOK
  <2> QED BY <2>1, <2>2
<1>6. ASSUME NEW w \in Workers, ProgressReturns(w)
      PROVE  OwnerHasCheckpoint' /\ OwnerHasBudget' /\ RequestHasCheckpoint'
  BY <1>0, <1>6 DEF ProgressReturns, AdvancePage, JobsInv, OwnerHasCheckpoint, OwnerHasBudget,
     RequestHasCheckpoint, Token, jobRows, control, JobsTypeOK, RowsTypeOK, WorkTypeOK
<1>7. ASSUME NEW w \in Workers, Complete(w) \/ YieldTurn(w) \/ BeatFails(w) \/ Shutdown(w)
      PROVE  OwnerHasCheckpoint' /\ OwnerHasBudget' /\ RequestHasCheckpoint'
  BY <1>0, <1>7, OwnersKeep DEF Complete, YieldTurn, BeatFails, Shutdown, Conclude, JobsInv,
     RequestHasCheckpoint, jobRows, control, JobsTypeOK, WorkTypeOK
<1>8. ASSUME NEW w \in Workers, Beat(w)
      PROVE  OwnerHasCheckpoint' /\ OwnerHasBudget' /\ RequestHasCheckpoint'
  <2>1. OwnerHasCheckpoint' /\ OwnerHasBudget'
    BY <1>0, <1>8, OwnersKeep DEF Beat, Conclude, work, JobsTypeOK, WorkTypeOK
  <2>2. RequestHasCheckpoint'
    BY <1>8 DEF Beat, Touch, JobsInv, RequestHasCheckpoint, control
  <2> QED BY <2>1, <2>2
<1>9. ASSUME NEW w \in Workers, Persist(w)
      PROVE  OwnerHasCheckpoint' /\ OwnerHasBudget' /\ RequestHasCheckpoint'
  <2>1. wpc'[w] = "idle" /\ \A v \in Workers : v # w =>
          UNCHANGED <<wpc[v], wjob[v], wpage[v], wbase[v]>>
    BY <1>0, <1>9 DEF Persist, Return, JobsTypeOK, WorkTypeOK
  <2>2. CASE Token(w)
    <3>1. ASSUME NEW v \in Workers, wpc'[v] # "idle", Token(v)'
          PROVE  /\ v # w /\ Token(v)
                 /\ UNCHANGED <<page[wjob[v]], attempts[wjob[v]]>>
      BY <1>0, <1>9, <2>1, <2>2, <3>1 DEF Persist, Token, JobsTypeOK, RowsTypeOK, WorkTypeOK
    <3>2. OwnerHasCheckpoint' /\ OwnerHasBudget'
      BY <1>0, <2>1, <3>1 DEF JobsInv, OwnerHasCheckpoint, OwnerHasBudget
    <3>3. RequestHasCheckpoint'
      BY <1>0, <1>9, <2>2 DEF Persist, Touch, JobsInv, RequestHasCheckpoint, control, JobsTypeOK,
                              RowsTypeOK,
         ControlTypeOK
    <3> QED BY <3>2, <3>3
  <2>3. CASE ~Token(w)
    BY <1>0, <1>9, <2>1, <2>3, OwnersKeep DEF Persist, JobsInv, RequestHasCheckpoint, control
  <2> QED BY <2>2, <2>3
<1>10. ASSUME NEW w \in Workers, Abandon(w)
      PROVE  OwnerHasCheckpoint' /\ OwnerHasBudget' /\ RequestHasCheckpoint'
  BY <1>0, <1>10, OwnersKeep DEF Abandon, Return, JobsInv, RequestHasCheckpoint, jobRows, control,
     JobsTypeOK, WorkTypeOK
<1>11. ASSUME NEW c \in Operators, NEW j \in Jobs, ControlReads(c, j)
      PROVE  OwnerHasCheckpoint' /\ OwnerHasBudget' /\ RequestHasCheckpoint'
  <2>1. OwnerHasCheckpoint' /\ OwnerHasBudget'
    BY <1>11, OwnersKeep DEF ControlReads, jobRows, work
  <2>2. RequestHasCheckpoint'
    BY <1>0, <1>11 DEF ControlReads, JobsInv, RequestHasCheckpoint, jobRows, JobsTypeOK,
                       ControlTypeOK
  <2> QED BY <2>1, <2>2
<1>12. ASSUME NEW c \in Operators, CancelWrites(c)
      PROVE  OwnerHasCheckpoint' /\ OwnerHasBudget' /\ RequestHasCheckpoint'
  <2>1. OwnerHasCheckpoint' /\ OwnerHasBudget'
    BY <1>0, <1>12 DEF CancelWrites, JobsInv, OwnerHasCheckpoint, OwnerHasBudget, Token, work,
       JobsTypeOK, RowsTypeOK, WorkTypeOK
  <2>2. RequestHasCheckpoint'
    BY <1>0, <1>12 DEF CancelWrites, Answer, JobsInv, RequestHasCheckpoint, JobsTypeOK,
                       ControlTypeOK
  <2> QED BY <2>1, <2>2
<1>13. ASSUME NEW c \in Operators, RetryWrites(c)
      PROVE  OwnerHasCheckpoint' /\ OwnerHasBudget' /\ RequestHasCheckpoint'
  <2>1. OwnerHasCheckpoint' /\ OwnerHasBudget'
    BY <1>0, <1>13 DEF RetryWrites, JobsInv, OwnerHasCheckpoint, OwnerHasBudget, Token, work,
       JobsTypeOK, RowsTypeOK, WorkTypeOK
  <2>2. RequestHasCheckpoint'
    BY <1>0, <1>13 DEF RetryWrites, Answer, JobsInv, RequestHasCheckpoint, JobsTypeOK,
                       ControlTypeOK, RowsTypeOK
  <2> QED BY <2>1, <2>2
<1>14. ASSUME NEW w \in Workers, YieldPage(w)
      PROVE  OwnerHasCheckpoint' /\ OwnerHasBudget' /\ RequestHasCheckpoint'
  BY <1>0, <1>14 DEF YieldPage, JobsInv, OwnerHasCheckpoint, OwnerHasBudget, RequestHasCheckpoint,
     Token, jobRows, control, JobsTypeOK, RowsTypeOK, WorkTypeOK
<1>15. CASE UNCHANGED jobsVars
  BY <1>0, <1>15, OwnersKeep DEF jobsVars, jobRows, work, control, JobsInv, RequestHasCheckpoint
<1> QED
  BY <1>1, <1>2, <1>3, <1>4, <1>5, <1>6, <1>7, <1>8, <1>9, <1>10, <1>11, <1>12, <1>13, <1>14,
     <1>15 DEF JobsNext, Claim

\* Checkpoints, attempts and requests stay consistent for every number of jobs,
\* workers, requests, attempts and pages.
THEOREM Inductive == JobsSpec => []JobsInv
<1>1. JobsInit => JobsInv
  BY InitJobsInv
<1>2. JobsInv /\ [JobsNext]_jobsVars => JobsInv'
  BY NextIInv
<1> QED BY <1>1, <1>2, PTL DEF JobsSpec

\* The token is sound: whoever can still write a job's outcome knows the checkpoint
\* that is stored, up to the page it is just storing.
THEOREM CheckpointKnown == JobsSpec => []OwnerHasCheckpoint
<1>1. JobsInv => OwnerHasCheckpoint
  BY DEF JobsInv
<1> QED BY <1>1, Inductive, PTL

\* Whoever can still write a job's outcome knows the attempts that preceded its own.
THEOREM BudgetKnown == JobsSpec => []OwnerHasBudget
<1>1. JobsInv => OwnerHasBudget
  BY DEF JobsInv
<1> QED BY <1>1, Inductive, PTL

\* A retry whose updated_at still matches writes back the checkpoint it found.
THEOREM RetryKnowsCheckpoint == JobsSpec => []RequestHasCheckpoint
<1>1. JobsInv => RequestHasCheckpoint
  BY DEF JobsInv
<1> QED BY <1>1, Inductive, PTL

------------------------------------------------------------------------------
(***************************************************************************)
(* What a step may never do.                                               *)
(***************************************************************************)

\* The final update writes the job of its own attempt, which was running; when it
\* gives the attempt back, it puts the job back into the queue.
LEMMA PersistWrites ==
  ASSUME JobsInv, NEW w \in Workers, Persist(w), NEW j \in Jobs,
         ~UNCHANGED <<jobStatus[j], page[j], attempts[j]>>
  PROVE  /\ Token(w) /\ wjob[w] = j /\ jobStatus[j] = "RUNNING"
         /\ page'[j] = wpage[w]
         /\ attempts'[j] # attempts[j] =>
              jobStatus'[j] = "QUEUED" /\ attempts'[j] = wbase[w]
  BY DEF Persist, Token, JobsInv, JobsTypeOK, RowsTypeOK, WorkTypeOK

\* No step but a retry reopens a settled job.
LEMMA StatusSteps ==
  ASSUME JobsInv, JobsNext, NEW j \in Jobs, jobStatus[j] \in Settled, jobStatus'[j] # jobStatus[j]
  PROVE  jobStatus[j] # "SUCCEEDED" /\ jobStatus'[j] = "QUEUED" /\ attempts'[j] = 0
<1>0. JobsTypeOK
  BY DEF JobsInv
<1>1. jobStatus[j] \notin {"absent", "QUEUED", "RUNNING"}
  BY DEF Settled
<1>2. ASSUME NEW k \in Jobs, Enqueue(k) \/ LeaseLapses(k) PROVE FALSE
  BY <1>0, <1>1, <1>2 DEF Enqueue, LeaseLapses, JobsTypeOK, RowsTypeOK
<1>3. ASSUME NEW w \in Workers, Claim(w) PROVE FALSE
  BY <1>0, <1>1, <1>3 DEF Claim, ClaimOldest, ClaimNothing, FailExhausted, Exhausted, Ready,
     Eligible, JobsTypeOK, RowsTypeOK
<1>4. ASSUME NEW w \in Workers, Progress(w) \/ Beat(w) PROVE FALSE
  BY <1>4 DEF Progress, Beat
<1>5. ASSUME NEW w \in Workers,
             \/ ProgressReturns(w) \/ Complete(w) \/ YieldTurn(w) \/ YieldPage(w)
             \/ BeatFails(w) \/ Shutdown(w) \/ Abandon(w)
      PROVE  FALSE
  BY <1>5 DEF ProgressReturns, Complete, YieldTurn, YieldPage, BeatFails, Shutdown, Abandon,
     jobRows
<1>6. ASSUME NEW w \in Workers, Persist(w) PROVE FALSE
  BY <1>1, <1>6, PersistWrites
<1>7. ASSUME NEW c \in Operators, NEW k \in Jobs, ControlReads(c, k) PROVE FALSE
  BY <1>7 DEF ControlReads, jobRows
<1>8. ASSUME NEW c \in Operators, CancelWrites(c) PROVE FALSE
  BY <1>0, <1>1, <1>8 DEF CancelWrites, JobsTypeOK, RowsTypeOK
<1>9. ASSUME NEW c \in Operators, RetryWrites(c)
      PROVE  jobStatus[j] # "SUCCEEDED" /\ jobStatus'[j] = "QUEUED" /\ attempts'[j] = 0
  BY <1>0, <1>9 DEF RetryWrites, Unchanged, JobsTypeOK, RowsTypeOK, ControlTypeOK
<1> QED
  BY <1>2, <1>3, <1>4, <1>5, <1>6, <1>7, <1>8, <1>9 DEF JobsNext

\* However many workers race, stall and die, a settled job is only ever reopened by
\* a retry.
THEOREM SettledStays == JobsSpec => SettledOnlyRetried
<1>1. ASSUME JobsInv, [JobsNext]_jobsVars
      PROVE  [\A j \in Jobs : jobStatus[j] \in Settled /\ jobStatus'[j] # jobStatus[j] =>
                /\ jobStatus[j] # "SUCCEEDED"
                /\ jobStatus'[j] = "QUEUED"
                /\ attempts'[j] = 0]_jobsVars
  BY <1>1, StatusSteps
<1> QED BY <1>1, Inductive, PTL DEF JobsSpec, SettledOnlyRetried

\* No step moves a checkpoint back by more than a page.
LEMMA PageSteps ==
  ASSUME JobsInv, JobsNext, NEW j \in Jobs
  PROVE  page[j] <= page'[j] + 1
<1>0. JobsTypeOK /\ page[j] \in Nat
  BY DEF JobsInv, JobsTypeOK, RowsTypeOK
<1> SUFFICES ASSUME page'[j] # page[j] PROVE page[j] <= page'[j] + 1
  BY <1>0
<1>1. ASSUME NEW k \in Jobs, Enqueue(k) \/ LeaseLapses(k) PROVE FALSE
  BY <1>1 DEF Enqueue, LeaseLapses
<1>2. ASSUME NEW w \in Workers, Claim(w) PROVE FALSE
  BY <1>2 DEF Claim, ClaimOldest, ClaimNothing
<1>3. ASSUME NEW w \in Workers, Progress(w) PROVE page[j] <= page'[j] + 1
  <2>1. Token(w) /\ wpc[w] = "execute" /\ wjob[w] = j /\ page'[j] = wpage[w] + 1
    BY <1>0, <1>3 DEF Progress, JobsTypeOK, RowsTypeOK, WorkTypeOK
  <2>2. page[j] = wpage[w]
    BY <2>1 DEF JobsInv, OwnerHasCheckpoint
  <2> QED BY <1>0, <2>1, <2>2
<1>4. ASSUME NEW w \in Workers,
             \/ ProgressReturns(w) \/ Complete(w) \/ YieldTurn(w) \/ YieldPage(w)
             \/ BeatFails(w) \/ Shutdown(w) \/ Abandon(w) \/ Beat(w)
      PROVE  FALSE
  BY <1>4 DEF ProgressReturns, Complete, YieldTurn, YieldPage, BeatFails, Shutdown, Abandon,
     Beat, jobRows
<1>5. ASSUME NEW w \in Workers, Persist(w) PROVE page[j] <= page'[j] + 1
  <2>1. wpc[w] # "idle" /\ Token(w) /\ wjob[w] = j /\ page'[j] = wpage[w]
    BY <1>5, PersistWrites DEF Persist
  <2> QED BY <2>1 DEF JobsInv, OwnerHasCheckpoint
<1>6. ASSUME NEW c \in Operators, NEW k \in Jobs, ControlReads(c, k) \/ CancelWrites(c)
      PROVE  FALSE
  BY <1>6 DEF ControlReads, CancelWrites, jobRows
<1>7. ASSUME NEW c \in Operators, RetryWrites(c) PROVE FALSE
  BY <1>0, <1>7 DEF RetryWrites, Unchanged, JobsInv, RequestHasCheckpoint, JobsTypeOK, RowsTypeOK,
     ControlTypeOK
<1> QED
  BY <1>1, <1>2, <1>3, <1>4, <1>5, <1>6, <1>7 DEF JobsNext

\* Neither a superseded worker nor a stale retry moves a checkpoint back by more
\* than the page that was being stored.
THEOREM CheckpointsKept == JobsSpec => AtMostOnePageRepeated
<1>1. ASSUME JobsInv, [JobsNext]_jobsVars
      PROVE  [\A j \in Jobs : page[j] <= page'[j] + 1]_jobsVars
  BY <1>1, PageSteps
<1> QED BY <1>1, Inductive, PTL DEF JobsSpec, AtMostOnePageRepeated

\* No step lowers an attempt counter but the owner's refund and a retry.
LEMMA AttemptSteps ==
  ASSUME JobsInv, JobsNext, NEW j \in Jobs, attempts'[j] < attempts[j]
  PROVE  \/ jobStatus[j] = "RUNNING" /\ jobStatus'[j] = "QUEUED" /\ attempts'[j] + 1 = attempts[j]
         \/ jobStatus[j] \in {"FAILED", "CANCELLED"} /\ jobStatus'[j] = "QUEUED"
<1>0. JobsTypeOK /\ attempts[j] \in Nat /\ attempts'[j] # attempts[j]
  BY DEF JobsInv, JobsTypeOK, RowsTypeOK
<1>1. ASSUME NEW k \in Jobs, Enqueue(k) \/ LeaseLapses(k) PROVE FALSE
  BY <1>0, <1>1 DEF Enqueue, LeaseLapses
<1>2. ASSUME NEW w \in Workers, Claim(w) PROVE FALSE
  <2>1. ASSUME NEW k \in Jobs, ClaimOldest(w, k) PROVE FALSE
    <3>1. attempts'[j] = IF j = k THEN attempts[j] + 1 ELSE attempts[j]
      BY <1>0, <2>1 DEF ClaimOldest, ChargeAttempt, JobsTypeOK, RowsTypeOK
    <3> QED BY <1>0, <3>1
  <2>2. ~ClaimNothing
    BY <1>0 DEF ClaimNothing
  <2> QED BY <1>2, <2>1, <2>2 DEF Claim
<1>3. ASSUME NEW w \in Workers,
             \/ Progress(w) \/ ProgressReturns(w) \/ Complete(w) \/ YieldTurn(w) \/ YieldPage(w)
             \/ BeatFails(w) \/ Shutdown(w) \/ Abandon(w) \/ Beat(w)
      PROVE  FALSE
  BY <1>0, <1>3 DEF Progress, ProgressReturns, Complete, YieldTurn, YieldPage, BeatFails,
     Shutdown, Abandon, Beat, jobRows
<1>4. ASSUME NEW w \in Workers, Persist(w)
      PROVE  jobStatus[j] = "RUNNING" /\ jobStatus'[j] = "QUEUED" /\ attempts'[j] + 1 = attempts[j]
  <2>1. /\ wpc[w] # "idle" /\ Token(w) /\ wjob[w] = j /\ jobStatus[j] = "RUNNING"
        /\ jobStatus'[j] = "QUEUED" /\ attempts'[j] = wbase[w]
    BY <1>0, <1>4, PersistWrites DEF Persist
  <2> QED BY <2>1 DEF JobsInv, OwnerHasBudget
<1>5. ASSUME NEW c \in Operators, NEW k \in Jobs, ControlReads(c, k) \/ CancelWrites(c)
      PROVE  FALSE
  BY <1>0, <1>5 DEF ControlReads, CancelWrites, jobRows
<1>6. ASSUME NEW c \in Operators, RetryWrites(c)
      PROVE  jobStatus[j] \in {"FAILED", "CANCELLED"} /\ jobStatus'[j] = "QUEUED"
  BY <1>0, <1>6 DEF RetryWrites, Unchanged, JobsTypeOK, RowsTypeOK, ControlTypeOK
<1> QED
  BY <1>1, <1>2, <1>3, <1>4, <1>5, <1>6 DEF JobsNext

\* No interleaving of refunds, takeovers and retries gives an attempt back that was
\* not the running owner's own.
THEOREM AttemptsAreSpent == JobsSpec => AttemptsSpent
<1>1. ASSUME JobsInv, [JobsNext]_jobsVars
      PROVE  [\A j \in Jobs : attempts'[j] < attempts[j] =>
         \/ jobStatus[j] = "RUNNING" /\ jobStatus'[j] = "QUEUED" /\ attempts'[j] + 1 = attempts[j]
         \/ jobStatus[j] \in {"FAILED", "CANCELLED"} /\ jobStatus'[j] = "QUEUED"]_jobsVars
  BY <1>1, AttemptSteps
<1> QED BY <1>1, Inductive, PTL DEF JobsSpec, AttemptsSpent

------------------------------------------------------------------------------
(* The inductive invariant. *)

\* A revision without a row has no status, and its parent is another one.
Fresh ==
    \A r \in Revisions :
        /\ pc[r] \in {"new", "context", "insert"} => status[r] = "NONE"
        /\ parent[r] # r

\* A request under way is about a revision.
Targeted == \A v \in Reviews : task[v] # "idle" => target[v] \in Revisions

\* Approved content is a chain: no parent has two approved children...
OnlyChild ==
    \A r, s \in Revisions :
        /\ status[r] = "APPROVED" /\ status[s] = "APPROVED"
        /\ parent[r] # None /\ parent[r] = parent[s]
        => r = s

\* ... and the active revision has none.
ActiveIsLast ==
    active # None =>
        \A r \in Revisions : status[r] = "APPROVED" => parent[r] # active

IInv ==
    TypeOK /\ Fresh /\ Targeted /\ OnlyChild /\ ActiveIsLast /\ ActiveApproved /\ Restorable

------------------------------------------------------------------------------
LEMMA InitIInv == Init => IInv
  BY NoneAssumption
     DEF Init, IInv, TypeOK, Fresh, Targeted, OnlyChild, ActiveIsLast, ActiveApproved,
         Restorable, Statuses, Places, Inside, Tasks

\* Types need to know what a request is about.
LEMMA TypeStep ==
  ASSUME TypeOK, Targeted, [Next]_vars
  PROVE  TypeOK'
<1> USE DEF TypeOK, Statuses, Places, Inside, Tasks, rows, requests, Goto, SetStatus, Continue
<1>1. ASSUME NEW r \in Revisions, Execute(r)
      PROVE  TypeOK'
  <2>1. CASE ReadBaseline(r)
    BY <2>1 DEF ReadBaseline, Effective
  <2>2. CASE Admit(r) \/ Refuse(r) \/ Insert(r)
    BY <2>2 DEF Admit, Refuse, Insert
  <2>3. CASE Report(r) \/ Fail(r)
    BY <2>3 DEF Report, Fail
  <2> QED BY <1>1, <2>1, <2>2, <2>3 DEF Execute
<1>2. ASSUME NEW r \in Revisions, Get(r)
      PROVE  TypeOK'
  BY <1>2 DEF Get
<1>3. ASSUME NEW v \in Reviews, Review(v)
      PROVE  TypeOK'
  <2>1. CASE \E r \in Revisions : ReadRow(v, r) \/ ReadApproved(v, r)
    BY <2>1 DEF ReadRow, ReadApproved
  <2>2. CASE ReadActive(v) \/ ReadAgents(v)
    BY <2>2 DEF ReadActive, ReadAgents, Effective
  <2>3. CASE Approve(v) \/ Conflict(v) \/ Reject(v)
    BY <2>3 DEF Approve, Conflict, Reject, Reply, Targeted
  <2>4. CASE Rollback(v) \/ Revoke(v) \/ GiveUp(v)
    BY <2>4 DEF Rollback, Revoke, GiveUp, Reply, Targeted
  <2> QED BY <1>3, <2>1, <2>2, <2>3, <2>4 DEF Review
<1>4. ASSUME NEW p \in Platforms, Deploy(p) \/ Retire(p)
      PROVE  TypeOK'
  BY <1>4 DEF Deploy, Retire
<1>5. CASE ChangeAgents
  BY <1>5 DEF ChangeAgents
<1>6. CASE UNCHANGED vars
  BY <1>6 DEF vars
<1> QED BY <1>1, <1>2, <1>3, <1>4, <1>5, <1>6 DEF Next

\* A request learns its revision with its first statement and keeps it to the answer.
LEMMA TargetedStep ==
  ASSUME TypeOK, Targeted, [Next]_vars
  PROVE  Targeted'
<1> USE DEF TypeOK, Targeted, rows, requests, Continue, Reply
<1>1. ASSUME NEW r \in Revisions, Execute(r) \/ Get(r)
      PROVE  Targeted'
  BY <1>1 DEF Execute, Get, ReadBaseline, Admit, Refuse, Insert, Report, Fail
<1>2. ASSUME NEW v \in Reviews, Review(v)
      PROVE  Targeted'
  BY <1>2 DEF Review, ReadRow, ReadActive, ReadAgents, Approve, Conflict, Reject,
              ReadApproved, Rollback, Revoke, GiveUp
<1>3. ASSUME NEW p \in Platforms, Deploy(p) \/ Retire(p)
      PROVE  Targeted'
  BY <1>3 DEF Deploy, Retire
<1>4. CASE ChangeAgents
  BY <1>4 DEF ChangeAgents
<1>5. CASE UNCHANGED vars
  BY <1>5 DEF vars
<1> QED BY <1>1, <1>2, <1>3, <1>4, <1>5 DEF Next

------------------------------------------------------------------------------
\* What the approved revisions are and which is active.
Chain == Fresh /\ OnlyChild /\ ActiveIsLast /\ ActiveApproved /\ Restorable

\* An evaluation begins: its revision has another parent than itself, and no row yet.
LEMMA ReadBaselineChain ==
  ASSUME TypeOK, Chain, NEW r \in Revisions, ReadBaseline(r)
  PROVE  Chain'
<1> USE DEF TypeOK, Chain, Fresh, rows, Goto
<1>1. status[r] = "NONE" /\ parent'[r] # r
  BY NoneAssumption DEF ReadBaseline, Effective, ActiveApproved
<1>2. /\ UNCHANGED <<status, active>>
      /\ \A s \in Revisions : s # r => parent'[s] = parent[s]
      /\ pc' = [pc EXCEPT ![r] = "context"]
  BY DEF ReadBaseline
<1>3. \A s \in Revisions : status'[s] = "APPROVED" => s # r /\ parent'[s] = parent[s]
  BY <1>1, <1>2
<1>4. Fresh'
  BY <1>1, <1>2
<1>5. OnlyChild' /\ ActiveIsLast' /\ ActiveApproved' /\ Restorable'
  BY <1>2, <1>3 DEF OnlyChild, ActiveIsLast, ActiveApproved, Restorable
<1> QED BY <1>4, <1>5

\* A step that approves and revokes nothing, and gives only inserted rows a status.
LEMMA EvaluationChain ==
  ASSUME TypeOK, Chain, UNCHANGED <<parent, active>>,
         \A r \in Revisions :
            /\ status'[r] = "APPROVED" <=> status[r] = "APPROVED"
            /\ pc'[r] \in {"new", "context", "insert"} =>
                  status'[r] = status[r] /\ pc[r] \in {"new", "context", "insert"}
  PROVE  Chain'
  BY NoneAssumption
     DEF TypeOK, Chain, Fresh, OnlyChild, ActiveIsLast, ActiveApproved, Restorable

LEMMA ApproveChain ==
  ASSUME TypeOK, Chain, Targeted, NEW v \in Reviews, Approve(v)
  PROVE  Chain'
<1> DEFINE t == target[v]
<1>1. /\ t \in Revisions /\ status[t] = "PENDING_APPROVAL" /\ parent[t] = active
      /\ status' = [status EXCEPT ![t] = "APPROVED"]
      /\ active' = t
      /\ UNCHANGED <<parent, pc>>
  BY DEF Approve, Targeted, StillPending, ParentIsActive, SetStatus
<1>2. Fresh' /\ ActiveApproved'
  BY <1>1 DEF TypeOK, Chain, Fresh, ActiveApproved
<1>3. Restorable'
  BY <1>1 DEF TypeOK, Chain, ActiveApproved, Restorable
<1>4. OnlyChild'
  BY <1>1 DEF TypeOK, Chain, OnlyChild, ActiveIsLast
<1>5. ActiveIsLast'
  BY <1>1, NoneAssumption DEF TypeOK, Chain, Fresh, ActiveIsLast, Restorable
<1> QED BY <1>2, <1>3, <1>4, <1>5 DEF Chain

\* The active revision is revoked; the parent, or the platform baseline, takes its place.
LEMMA RestoreChain ==
  ASSUME TypeOK, Chain, NEW t \in Revisions,
         active = t,
         status' = [status EXCEPT ![t] = "REVOKED"],
         active' \in {parent[t], None},
         UNCHANGED <<parent, pc>>
  PROVE  Chain'
<1>1. status[t] = "APPROVED" /\ t # None
  BY NoneAssumption DEF Chain, ActiveApproved
<1>2. \A r \in Revisions : status'[r] = "APPROVED" <=> status[r] = "APPROVED" /\ r # t
  BY <1>1 DEF TypeOK
<1>3. Fresh'
  BY <1>1 DEF TypeOK, Chain, Fresh
<1>4. ActiveApproved'
  BY <1>1, <1>2 DEF TypeOK, Chain, Fresh, ActiveApproved, Restorable
<1>5. Restorable'
  BY <1>1, <1>2 DEF TypeOK, Chain, ActiveIsLast, Restorable
<1>6. OnlyChild'
  BY <1>2 DEF Chain, OnlyChild
<1>7. ActiveIsLast'
  BY <1>1, <1>2 DEF TypeOK, Chain, OnlyChild, ActiveIsLast
<1> QED BY <1>3, <1>4, <1>5, <1>6, <1>7 DEF Chain

LEMMA ChainStep ==
  ASSUME TypeOK, Chain, Targeted, [Next]_vars
  PROVE  Chain'
<1>1. ASSUME NEW r \in Revisions, ReadBaseline(r)
      PROVE  Chain'
  BY <1>1, ReadBaselineChain
<1>2. ASSUME NEW r \in Revisions,
             Admit(r) \/ Refuse(r) \/ Insert(r) \/ Report(r) \/ Fail(r) \/ Get(r)
      PROVE  Chain'
  BY <1>2, EvaluationChain
     DEF Admit, Refuse, Insert, Report, Fail, Get, UpdateRunning, SetStatus, Goto, rows,
         TypeOK, Chain, Fresh, Inside
<1>3. ASSUME NEW v \in Reviews, Review(v)
      PROVE  Chain'
  <2>1. CASE Approve(v)
    BY <2>1, ApproveChain
  <2>2. CASE Rollback(v) \/ Revoke(v)
    BY <2>2, RestoreChain DEF Rollback, Revoke, IsActive, SetStatus, Targeted
  <2>3. CASE Reject(v)
    BY <2>3, EvaluationChain
       DEF Reject, StillPending, SetStatus, Targeted, TypeOK, Chain, Fresh
  <2>4. CASE \/ ReadActive(v) \/ ReadAgents(v) \/ Conflict(v) \/ GiveUp(v)
             \/ \E r \in Revisions : ReadRow(v, r) \/ ReadApproved(v, r)
    BY <2>4, EvaluationChain
       DEF ReadActive, ReadAgents, Conflict, GiveUp, ReadRow, ReadApproved, rows
  <2> QED BY <1>3, <2>1, <2>2, <2>3, <2>4 DEF Review
<1>4. ASSUME NEW p \in Platforms, Deploy(p) \/ Retire(p)
      PROVE  Chain'
  BY <1>4, EvaluationChain DEF Deploy, Retire, rows, TypeOK
<1>5. CASE ChangeAgents \/ UNCHANGED vars
  BY <1>5, EvaluationChain DEF ChangeAgents, vars, rows
<1> QED BY <1>1, <1>2, <1>3, <1>4, <1>5 DEF Next, Execute

LEMMA Invariance == Spec => []IInv
<1>1. IInv /\ [Next]_vars => IInv'
  BY TypeStep, TargetedStep, ChainStep DEF IInv, Chain
<1> QED BY InitIInv, <1>1, PTL DEF Spec

------------------------------------------------------------------------------
\* The columns and the local variables of execute, review and rollback keep their types.
THEOREM TypeCorrect == Spec => []TypeOK
<1>1. IInv => TypeOK
  BY DEF IInv
<1> QED BY Invariance, <1>1, PTL

\* However evaluations, reviews, restorations and restarts interleave, the active content
\* is an approved revision.
THEOREM OnlyApprovedIsActive == Spec => []ActiveApproved
<1>1. IInv => ActiveApproved
  BY DEF IInv
<1> QED BY Invariance, <1>1, PTL

\* The content below an approved revision is never withdrawn from under it, so rollback
\* always finds the parent it is to restore.
THEOREM AlwaysRestorable == Spec => []Restorable
<1>1. IInv => Restorable
  BY DEF IInv
<1> QED BY Invariance, <1>1, PTL

\* No late report, expired deadline or second reviewer changes a decision: each UPDATE is
\* conditional on the status it ends, or on the revision being active.
THEOREM DecisionsHold == Spec => DecisionsStand
<1> DEFINE Stands ==
      \A r \in Revisions :
          status'[r] # status[r] =>
              \/ status[r] \in {"NONE", "RUNNING", "PENDING_APPROVAL"}
              \/ status[r] = "APPROVED" /\ status'[r] = "REVOKED"
<1>1. ASSUME IInv, [Next]_vars
      PROVE  Stands
  <2> USE <1>1 DEF IInv, TypeOK, SetStatus
  <2>1. ASSUME NEW r \in Revisions, Insert(r)
        PROVE  Stands
    BY <2>1 DEF Insert, Fresh
  <2>2. ASSUME NEW r \in Revisions, Report(r) \/ Fail(r) \/ Get(r)
        PROVE  Stands
    BY <2>2 DEF Report, Fail, Get, UpdateRunning
  <2>3. ASSUME NEW r \in Revisions, ReadBaseline(r) \/ Admit(r) \/ Refuse(r)
        PROVE  Stands
    BY <2>3 DEF ReadBaseline, Admit, Refuse, rows
  <2>4. ASSUME NEW v \in Reviews, Review(v)
        PROVE  Stands
    <3>1. CASE Approve(v) \/ Reject(v)
      BY <3>1 DEF Approve, Reject, StillPending, Targeted
    <3>2. CASE Rollback(v) \/ Revoke(v)
      BY <3>2, NoneAssumption DEF Rollback, Revoke, IsActive, ActiveApproved, Targeted
    <3>3. CASE \/ ReadActive(v) \/ ReadAgents(v) \/ Conflict(v) \/ GiveUp(v)
               \/ \E r \in Revisions : ReadRow(v, r) \/ ReadApproved(v, r)
      BY <3>3 DEF ReadActive, ReadAgents, Conflict, GiveUp, ReadRow, ReadApproved, rows
    <3> QED BY <2>4, <3>1, <3>2, <3>3 DEF Review
  <2>5. ASSUME NEW p \in Platforms, Deploy(p) \/ Retire(p)
        PROVE  Stands
    BY <2>5 DEF Deploy, Retire, rows
  <2>6. CASE ChangeAgents \/ UNCHANGED vars
    BY <2>6 DEF ChangeAgents, vars, rows
  <2> QED BY <2>1, <2>2, <2>3, <2>4, <2>5, <2>6 DEF Next, Execute
<1>2. IInv /\ [Next]_vars => [Stands]_vars
  BY <1>1
<1> QED BY Invariance, <1>2, PTL DEF Spec, DecisionsStand

------------------------------------------------------------------------------
(* Activation implements ContentHistory. *)

\* The approved revisions from the baseline to the active one.
Lies(s) ==
    /\ active = IF s = <<>> THEN None ELSE s[Len(s)]
    /\ \A i \in DOMAIN s : /\ status[s[i]] = "APPROVED"
                           /\ parent[s[i]] = IF i = 1 THEN None ELSE s[i - 1]

Injective(s) == \A i, j \in DOMAIN s : s[i] = s[j] => i = j

\* There is just one such sequence, and no revision is in it twice.
InForce(s) == Injective(s) /\ \A x \in Seq(Revisions) : Lies(x) <=> x = s

Layered == \E s \in Seq(Revisions) : InForce(s)

\* A sequence without repetitions is not longer than the set of its elements.
LEMMA InjectiveBound ==
  ASSUME NEW S, IsFiniteSet(S), NEW s \in Seq(S), Injective(s)
  PROVE  Len(s) <= Cardinality(S)
<1>1. Len(s) \in Nat /\ s \in [1 .. Len(s) -> S] /\ DOMAIN s = 1 .. Len(s)
  OBVIOUS
<1>2. s \in Injection(1 .. Len(s), S)
  BY <1>1 DEF Injection, Injective, IsInjective
<1>3. Cardinality(1 .. Len(s)) <= Cardinality(S)
  BY <1>2, FS_Injection
<1>4. Cardinality(1 .. Len(s)) = Len(s)
  BY <1>1, FS_Interval
<1> QED BY <1>3, <1>4

LEMMA LayersInForce ==
  ASSUME NEW s \in Seq(Revisions), InForce(s), active \in Revisions \cup {None}
  PROVE  Layers = s
<1>1. Lies(s) /\ Injective(s) /\ \A x \in Seq(Revisions) : Lies(x) => x = s
  BY DEF InForce
<1>2. CASE active = None
  <2>1. Lies(<<>>) /\ <<>> \in Seq(Revisions)
    BY <1>2 DEF Lies
  <2> QED BY <1>1, <1>2, <2>1 DEF Layers
<1>3. CASE active # None
  <2>1. s # <<>> /\ s[Len(s)] = active
    BY <1>1, <1>3 DEF Lies
  <2>2. IsLayering(s)
    BY <1>1, <2>1 DEF Lies, IsLayering, Last
  <2>3. s \in Seq(Approved)
    BY <1>1 DEF Lies, Approved
  <2>4. IsFiniteSet(Approved)
    BY RevisionsAssumption, FS_Subset DEF Approved
  <2>5. Len(s) <= Cardinality(Approved) /\ Cardinality(Approved) \in Nat
    BY <1>1, <2>3, <2>4, InjectiveBound, FS_CardinalityType
  <2> DEFINE B == BoundedSeq(Approved, Cardinality(Approved))
  <2>6. s \in B
    <3>1. s \in [1 .. Len(s) -> Approved] /\ Len(s) \in 0 .. Cardinality(Approved)
      BY <2>3, <2>5
    <3> QED BY <3>1 DEF BoundedSeq, SeqOf
  <2>7. ASSUME NEW x \in B, IsLayering(x)
        PROVE  x = s
    <3>1. PICK m \in 0 .. Cardinality(Approved) : x \in [1 .. m -> Approved]
      BY DEF BoundedSeq, SeqOf
    <3>2. m \in Nat
      BY <2>5, <3>1
    <3>3. x \in Seq(Approved) /\ Approved \subseteq Revisions
      BY <3>1, <3>2 DEF Approved
    <3>4. x \in Seq(Revisions)
      BY <3>3
    <3>5. Lies(x)
      BY <1>3, <2>7, <3>3 DEF IsLayering, Lies, Last, Approved
    <3> QED BY <1>1, <3>4, <3>5
  <2>8. Layers = CHOOSE x \in B : IsLayering(x)
    BY <1>3 DEF Layers
  <2> HIDE DEF B
  <2> QED BY <2>2, <2>6, <2>7, <2>8
<1> QED BY <1>2, <1>3

\* Before the first approval nothing lies on the baseline.
LEMMA InitLayered == Init => InForce(<<>>)
<1> SUFFICES ASSUME Init
             PROVE  InForce(<<>>)
  OBVIOUS
<1>1. Injective(<<>>) /\ Lies(<<>>)
  BY DEF Injective, Lies, Init
<1>2. ASSUME NEW x \in Seq(Revisions), Lies(x), x # <<>>
      PROVE  FALSE
  <2>1. Len(x) \in DOMAIN x /\ x[Len(x)] \in Revisions
    BY <1>2
  <2> QED BY <1>2, <2>1 DEF Lies, Init
<1> QED BY <1>1, <1>2 DEF InForce

\* A step that neither approves nor revokes, and moves no approved revision.
LEMMA QuietLayers ==
  ASSUME NEW s \in Seq(Revisions), InForce(s), UNCHANGED active,
         \A r \in Revisions : /\ status'[r] = "APPROVED" <=> status[r] = "APPROVED"
                              /\ status[r] = "APPROVED" => parent'[r] = parent[r]
  PROVE  InForce(s)'
<1>1. ASSUME NEW x \in Seq(Revisions)
      PROVE  Lies(x)' <=> Lies(x)
  <2>1. \A i \in DOMAIN x : x[i] \in Revisions
    OBVIOUS
  <2> QED BY <2>1 DEF Lies
<1> QED BY <1>1 DEF InForce

\* An approval puts the revision on top of its parent.
LEMMA ApproveLayers ==
  ASSUME TypeOK, Fresh, Restorable, NEW s \in Seq(Revisions), InForce(s),
         NEW t \in Revisions, status[t] # "APPROVED", parent[t] = active,
         status' = [status EXCEPT ![t] = "APPROVED"], active' = t, UNCHANGED parent
  PROVE  InForce(Append(s, t))'
<1>1. Lies(s) /\ Injective(s) /\ \A x \in Seq(Revisions) : Lies(x) => x = s
  BY DEF InForce
<1>2. /\ status'[t] = "APPROVED" /\ t # None /\ parent[t] # t
      /\ \A r \in Revisions : r # t => status'[r] = status[r]
  BY NoneAssumption DEF TypeOK, Fresh
<1>3. PICK u : u = Append(s, t)
  OBVIOUS
<1>4. /\ u \in Seq(Revisions) /\ Len(u) = Len(s) + 1 /\ Len(s) \in Nat
      /\ DOMAIN s = 1 .. Len(s) /\ DOMAIN u = 1 .. Len(s) + 1
      /\ u[Len(s) + 1] = t /\ \A i \in DOMAIN s : u[i] = s[i]
  BY <1>3
<1>5. \A i \in DOMAIN s : s[i] \in Revisions /\ s[i] # t
  BY <1>1 DEF Lies
<1>6. Lies(u)'
  <2>1. active' = u[Len(u)] /\ u # <<>>
    BY <1>4
  <2>2. ASSUME NEW i \in DOMAIN s
        PROVE  status'[u[i]] = "APPROVED" /\ parent[u[i]] = IF i = 1 THEN None ELSE u[i - 1]
    <3>1. /\ status[s[i]] = "APPROVED" /\ parent[s[i]] = IF i = 1 THEN None ELSE s[i - 1]
          /\ i = 1 \/ i - 1 \in DOMAIN s
      BY <1>1, <1>4 DEF Lies
    <3> QED BY <1>2, <1>4, <1>5, <3>1
  <2>3. parent[t] = IF Len(s) + 1 = 1 THEN None ELSE u[Len(s) + 1 - 1]
    <3>1. CASE s = <<>>
      BY <1>1, <3>1 DEF Lies
    <3>2. CASE s # <<>>
      <4>1. Len(s) \in DOMAIN s /\ Len(s) + 1 - 1 = Len(s) /\ Len(s) + 1 # 1
        BY <1>4, <3>2
      <4> QED BY <1>1, <1>4, <3>2, <4>1 DEF Lies
    <3> QED BY <3>1, <3>2
  <2>4. \A i \in DOMAIN u : i \in DOMAIN s \/ i = Len(s) + 1
    BY <1>4
  <2> QED BY <1>2, <1>4, <2>1, <2>2, <2>3, <2>4 DEF Lies
<1>7. ASSUME NEW x \in Seq(Revisions), Lies(x)'
      PROVE  x = u
  <2>1. /\ x # <<>> /\ x[Len(x)] = t
        /\ \A i \in DOMAIN x : /\ x[i] \in Revisions
                               /\ status'[x[i]] = "APPROVED"
                               /\ parent[x[i]] = IF i = 1 THEN None ELSE x[i - 1]
    BY <1>2, <1>7 DEF Lies
  <2>2. /\ Len(x) \in Nat \ {0} /\ DOMAIN x = 1 .. Len(x)
    BY <2>1
  <2>3. ASSUME NEW i \in DOMAIN x, i # Len(x)
        PROVE  x[i] # t
    <3>1. i + 1 \in DOMAIN x /\ i + 1 # 1 /\ i + 1 - 1 = i
      BY <2>2, <2>3
    <3>2. parent[x[i + 1]] = x[i] /\ x[i + 1] \in Revisions /\ status'[x[i + 1]] = "APPROVED"
      BY <2>1, <3>1
    <3>3. x[i] = t => x[i + 1] # t /\ status[x[i + 1]] = "APPROVED"
      BY <1>2, <3>2
    <3> QED BY <1>2, <3>2, <3>3 DEF Restorable
  <2>4. PICK y : y = SubSeq(x, 1, Len(x) - 1)
    OBVIOUS
  <2>5. /\ y \in Seq(Revisions) /\ Len(y) = Len(x) - 1 /\ DOMAIN y = 1 .. Len(x) - 1
        /\ \A i \in DOMAIN y : y[i] = x[i] /\ i \in DOMAIN x /\ i # Len(x)
    BY <2>2, <2>4
  <2>6. Lies(y)
    <3>1. ASSUME NEW i \in DOMAIN y
          PROVE  status[y[i]] = "APPROVED" /\ parent[y[i]] = IF i = 1 THEN None ELSE y[i - 1]
      <4>1. i = 1 \/ i - 1 \in DOMAIN y
        BY <2>5
      <4> QED BY <1>2, <2>1, <2>3, <2>5, <4>1
    <3>2. active = IF y = <<>> THEN None ELSE y[Len(y)]
      <4>1. Len(x) \in DOMAIN x /\ parent[t] = IF Len(x) = 1 THEN None ELSE x[Len(x) - 1]
        BY <2>1, <2>2
      <4>2. CASE Len(x) = 1
        <5>1. y = <<>>
          BY <2>5, <4>2
        <5> QED BY <4>1, <4>2, <5>1
      <4>3. CASE Len(x) # 1
        <5>1. y # <<>> /\ Len(y) \in DOMAIN y
          BY <2>2, <2>5, <4>3
        <5> QED BY <2>5, <4>1, <4>3, <5>1
      <4> QED BY <4>2, <4>3
    <3> QED BY <3>1, <3>2 DEF Lies
  <2>7. y = s
    <3>1. y \in Seq(Revisions)
      BY <2>5
    <3> QED BY <1>1, <2>6, <3>1
  <2>8. Len(x) = Len(s) + 1 /\ \A i \in DOMAIN s : x[i] = s[i]
    <3>1. Len(s) = Len(x) - 1 /\ DOMAIN s = DOMAIN y /\ \A i \in DOMAIN y : s[i] = y[i]
      BY <2>5, <2>7
    <3>2. Len(x) = Len(s) + 1
      BY <2>2, <3>1
    <3> QED BY <2>5, <3>1, <3>2
  <2>9. \A i \in 1 .. Len(u) : x[i] = u[i]
    <3>1. \A i \in 1 .. Len(u) : i \in DOMAIN s \/ i = Len(s) + 1
      BY <1>4
    <3>2. x[Len(s) + 1] = u[Len(s) + 1]
      BY <1>4, <2>1, <2>8
    <3> QED BY <1>4, <2>8, <3>1, <3>2
  <2> QED BY <1>4, <2>8, <2>9
<1>8. Injective(u)
  <2>1. ASSUME NEW i \in DOMAIN u, NEW j \in DOMAIN u, u[i] = u[j]
        PROVE  i = j
    <3>1. \A k \in DOMAIN u : k \in DOMAIN s \/ k = Len(s) + 1
      BY <1>4
    <3> QED BY <1>1, <1>4, <1>5, <2>1, <3>1 DEF Injective
  <2> QED BY <2>1 DEF Injective
<1> QED BY <1>3, <1>6, <1>7, <1>8, <1>4 DEF InForce

\* A restoration takes the active revision off.
LEMMA RestoreLayers ==
  ASSUME TypeOK, ActiveIsLast, NEW s \in Seq(Revisions), InForce(s),
         NEW t \in Revisions, active = t, status[t] = "APPROVED",
         status' = [status EXCEPT ![t] = "REVOKED"], active' = parent[t], UNCHANGED parent
  PROVE  s # <<>> /\ InForce(SubSeq(s, 1, Len(s) - 1))'
<1>1. Lies(s) /\ Injective(s) /\ \A x \in Seq(Revisions) : Lies(x) => x = s
  BY DEF InForce
<1>2. /\ status'[t] = "REVOKED" /\ t # None
      /\ \A r \in Revisions : r # t => status'[r] = status[r]
      /\ \A r \in Revisions : status[r] = "APPROVED" => parent[r] # t
  BY NoneAssumption DEF TypeOK, ActiveIsLast
<1>3. /\ s # <<>> /\ s[Len(s)] = t
      /\ \A i \in DOMAIN s : /\ s[i] \in Revisions
                             /\ status[s[i]] = "APPROVED"
                             /\ parent[s[i]] = IF i = 1 THEN None ELSE s[i - 1]
  BY <1>1, <1>2 DEF Lies
<1>4. Len(s) \in Nat \ {0} /\ DOMAIN s = 1 .. Len(s) /\ Len(s) \in DOMAIN s
  BY <1>3
<1>5. PICK u : u = SubSeq(s, 1, Len(s) - 1)
  OBVIOUS
<1>6. /\ u \in Seq(Revisions) /\ Len(u) = Len(s) - 1 /\ DOMAIN u = 1 .. Len(s) - 1
      /\ \A i \in DOMAIN u : u[i] = s[i] /\ i \in DOMAIN s /\ i + 1 \in DOMAIN s
  BY <1>4, <1>5
<1>7. \A i \in DOMAIN u : u[i] # t
  <2>1. ASSUME NEW i \in DOMAIN u
        PROVE  u[i] # t
    <3>1. parent[s[i + 1]] = s[i] /\ s[i + 1] \in Revisions /\ status[s[i + 1]] = "APPROVED"
      <4>1. i + 1 \in DOMAIN s
        BY <1>6
      <4>2. i \in Nat /\ i + 1 # 1 /\ i + 1 - 1 = i
        BY <1>4, <1>6
      <4> QED BY <1>3, <4>1, <4>2
    <3> QED BY <1>2, <1>6, <3>1
  <2> QED BY <2>1
<1>8. parent[t] = IF Len(s) = 1 THEN None ELSE s[Len(s) - 1]
  BY <1>3, <1>4
<1>9. Lies(u)'
  <2>1. ASSUME NEW i \in DOMAIN u
        PROVE  status'[u[i]] = "APPROVED" /\ parent[u[i]] = IF i = 1 THEN None ELSE u[i - 1]
    <3>1. i = 1 \/ i - 1 \in DOMAIN u
      BY <1>6
    <3> QED BY <1>2, <1>3, <1>6, <1>7, <3>1
  <2>2. active' = IF u = <<>> THEN None ELSE u[Len(u)]
    <3>1. CASE Len(s) = 1
      <4>1. u = <<>>
        BY <1>6, <3>1
      <4> QED BY <1>8, <3>1, <4>1
    <3>2. CASE Len(s) # 1
      <4>1. u # <<>> /\ Len(u) \in DOMAIN u /\ Len(u) = Len(s) - 1
        BY <1>4, <1>6, <3>2
      <4> QED BY <1>6, <1>8, <3>2, <4>1
    <3> QED BY <3>1, <3>2
  <2> QED BY <2>1, <2>2 DEF Lies
<1>10. ASSUME NEW x \in Seq(Revisions), Lies(x)'
       PROVE  x = u
  <2>1. /\ parent[t] = IF x = <<>> THEN None ELSE x[Len(x)]
        /\ \A i \in DOMAIN x : /\ x[i] \in Revisions
                               /\ status'[x[i]] = "APPROVED"
                               /\ parent[x[i]] = IF i = 1 THEN None ELSE x[i - 1]
    BY <1>10 DEF Lies
  <2>2. \A i \in DOMAIN x : status[x[i]] = "APPROVED"
    BY <1>2, <2>1
  <2>3. PICK y : y = Append(x, t)
    OBVIOUS
  <2>4. /\ y \in Seq(Revisions) /\ Len(y) = Len(x) + 1 /\ Len(x) \in Nat
        /\ DOMAIN x = 1 .. Len(x) /\ DOMAIN y = 1 .. Len(x) + 1
        /\ y[Len(x) + 1] = t /\ \A i \in DOMAIN x : y[i] = x[i]
    BY <2>3
  <2>5. Lies(y)
    <3>1. active = y[Len(y)] /\ y # <<>>
      BY <2>4
    <3>2. ASSUME NEW i \in DOMAIN x
          PROVE  status[y[i]] = "APPROVED" /\ parent[y[i]] = IF i = 1 THEN None ELSE y[i - 1]
      <4>1. i = 1 \/ i - 1 \in DOMAIN x
        BY <2>4
      <4> QED BY <2>1, <2>2, <2>4, <4>1
    <3>3. parent[t] = IF Len(x) + 1 = 1 THEN None ELSE y[Len(x) + 1 - 1]
      <4>1. CASE x = <<>>
        BY <2>1, <4>1
      <4>2. CASE x # <<>>
        <5>1. Len(x) \in DOMAIN x /\ Len(x) + 1 - 1 = Len(x) /\ Len(x) + 1 # 1
          BY <2>4, <4>2
        <5> QED BY <2>1, <2>4, <4>2, <5>1
      <4> QED BY <4>1, <4>2
    <3>4. \A i \in DOMAIN y : i \in DOMAIN x \/ i = Len(x) + 1
      BY <2>4
    <3> QED BY <2>4, <3>1, <3>2, <3>3, <3>4 DEF Lies
  <2>6. y = s
    <3>1. y \in Seq(Revisions)
      BY <2>4
    <3> QED BY <1>1, <2>5, <3>1
  <2>7. Len(x) = Len(u) /\ \A i \in 1 .. Len(u) : x[i] = u[i]
    <3>1. Len(s) = Len(x) + 1 /\ \A i \in DOMAIN x : s[i] = x[i]
      BY <2>4, <2>6
    <3>2. Len(x) = Len(u)
      BY <1>4, <1>6, <2>4, <3>1
    <3>3. DOMAIN u = DOMAIN x /\ DOMAIN u = 1 .. Len(u)
      BY <1>6, <2>4, <3>2
    <3> QED BY <1>6, <3>1, <3>2, <3>3
  <2> QED BY <1>6, <2>7
<1>11. Injective(u)
  BY <1>1, <1>6 DEF Injective
<1> QED BY <1>3, <1>5, <1>6, <1>9, <1>10, <1>11 DEF InForce

\* Revoking takes everything off.
LEMMA RevokeLayers ==
  ASSUME active' = None
  PROVE  InForce(<<>>)'
<1>1. Injective(<<>>) /\ Lies(<<>>)'
  BY DEF Injective, Lies
<1>2. ASSUME NEW x \in Seq(Revisions), Lies(x)', x # <<>>
      PROVE  FALSE
  <2>1. Len(x) \in DOMAIN x /\ x[Len(x)] \in Revisions
    BY <1>2
  <2> QED BY <1>2, <2>1, NoneAssumption DEF Lies
<1> QED BY <1>1, <1>2 DEF InForce

LEMMA LayersAre ==
  \A s \in Seq(Revisions) : InForce(s) /\ active \in Revisions \cup {None} => Layers = s
BY LayersInForce

LEMMA LayersWillBe ==
  (\A s \in Seq(Revisions) : InForce(s) /\ active \in Revisions \cup {None} => Layers = s)'
BY LayersAre, PTL

\* What was ever in force.
Accepted == {r \in Revisions : status[r] \in {"APPROVED", "REVOKED"}}

LEMMA QuietHistory ==
  ASSUME IInv, TypeOK', NEW s \in Seq(Revisions), InForce(s), UNCHANGED active,
         \A r \in Revisions : /\ status'[r] = "APPROVED" <=> status[r] = "APPROVED"
                              /\ status'[r] = "REVOKED" <=> status[r] = "REVOKED"
                              /\ status[r] = "APPROVED" => parent'[r] = parent[r]
  PROVE  Layered' /\ UNCHANGED History!vars
<1>1. InForce(s)'
  BY QuietLayers
<1>2. Layers = s /\ Layers' = s
  <2>1. (\A x \in Seq(Revisions) : InForce(x) /\ active \in Revisions \cup {None} => Layers = x)'
    BY LayersWillBe
  <2> QED BY <1>1, <2>1, LayersAre DEF IInv, TypeOK
<1>3. Past' = Past
  BY <1>2 DEF Past
<1> QED BY <1>1, <1>2, <1>3 DEF Layered, History!vars

LEMMA ApproveHistory ==
  ASSUME IInv, TypeOK', NEW s \in Seq(Revisions), InForce(s), NEW v \in Reviews, Approve(v)
  PROVE  Layered' /\ History!Next
<1>1. PICK t \in Revisions : t = target[v]
  BY DEF IInv, Targeted, Approve
<1>2. /\ status[t] = "PENDING_APPROVAL" /\ parent[t] = active
      /\ status' = [status EXCEPT ![t] = "APPROVED"] /\ active' = t /\ UNCHANGED parent
  BY <1>1 DEF Approve, StillPending, ParentIsActive, SetStatus
<1>3. InForce(Append(s, t))' /\ Append(s, t) \in Seq(Revisions)
  <2>1. TypeOK /\ Fresh /\ Restorable
    BY DEF IInv
  <2>2. Append(s, t) \in Seq(Revisions)
    OBVIOUS
  <2>3. InForce(Append(s, t))'
    BY <1>2, <2>1, ApproveLayers
  <2> QED BY <2>2, <2>3
<1>4. Layers = s /\ Layers' = Append(s, t)
  <2>1. (\A x \in Seq(Revisions) : InForce(x) /\ active \in Revisions \cup {None} => Layers = x)'
    BY LayersWillBe
  <2> QED BY <1>3, <2>1, LayersAre DEF IInv, TypeOK
<1>5. t \notin ToSet(s) /\ ToSet(Append(s, t)) = ToSet(s) \cup {t}
  <2>1. \A i \in DOMAIN s : status[s[i]] = "APPROVED"
    BY DEF InForce, Lies
  <2>2. PICK u : u = Append(s, t)
    OBVIOUS
  <2>3. /\ Len(s) \in Nat /\ DOMAIN s = 1 .. Len(s) /\ DOMAIN u = 1 .. Len(s) + 1
        /\ u[Len(s) + 1] = t /\ \A i \in DOMAIN s : u[i] = s[i]
    BY <2>2
  <2>4. \A i \in DOMAIN u : i \in DOMAIN s \/ i = Len(s) + 1
    BY <2>3
  <2>5. DOMAIN s \subseteq DOMAIN u /\ Len(s) + 1 \in DOMAIN u
    BY <2>3
  <2>6. {u[i] : i \in DOMAIN u} = {s[i] : i \in DOMAIN s} \cup {t}
    BY <2>3, <2>4, <2>5
  <2> QED BY <1>2, <2>1, <2>2, <2>6 DEF ToSet
<1>6. Accepted' = Accepted \cup {t} /\ t \notin Accepted
  BY <1>2 DEF Accepted, IInv, TypeOK
<1>7. Past = Accepted \ ToSet(s) /\ Past' = Accepted' \ ToSet(Append(s, t))
  BY <1>4 DEF Past, Accepted
<1>8. Past' = Past /\ t \notin ToSet(s) \cup Past
  BY <1>5, <1>6, <1>7
<1>9. History!Approve(t)
  BY <1>4, <1>8 DEF History!Approve, History!ToSet, ToSet
<1> QED BY <1>3, <1>9 DEF Layered, History!Next

LEMMA RollbackHistory ==
  ASSUME IInv, TypeOK', NEW s \in Seq(Revisions), InForce(s), NEW v \in Reviews,
         Rollback(v) \/ Revoke(v)
  PROVE  Layered' /\ History!Next
<1>1. PICK t \in Revisions : t = target[v]
  BY DEF IInv, Targeted, Rollback, Revoke
<1>2. /\ active = t /\ t # None /\ status[t] = "APPROVED"
      /\ status' = [status EXCEPT ![t] = "REVOKED"] /\ UNCHANGED parent
  BY <1>1, NoneAssumption
     DEF Rollback, Revoke, IsActive, SetStatus, IInv, ActiveApproved
<1>3. /\ Accepted' = Accepted /\ t \in Accepted /\ status'[t] = "REVOKED"
  BY <1>2 DEF Accepted, IInv, TypeOK
<1>4. /\ Lies(s) /\ \A i \in DOMAIN s : s[i] \in Revisions /\ status[s[i]] = "APPROVED"
  BY DEF InForce, Lies
<1>5. Layers = s
  BY LayersAre DEF IInv, TypeOK
<1>6. s # <<>> /\ s[Len(s)] = t
  BY <1>2, <1>4 DEF Lies
<1>7. Len(s) \in Nat \ {0} /\ DOMAIN s = 1 .. Len(s) /\ Len(s) \in DOMAIN s
  BY <1>6
<1>8. (\A x \in Seq(Revisions) : InForce(x) /\ active \in Revisions \cup {None} => Layers = x)'
  BY LayersWillBe
<1>9. ToSet(s) \subseteq Accepted /\ Past = Accepted \ ToSet(s)
  BY <1>4, <1>5 DEF Accepted, Past, ToSet
<1>10. CASE Rollback(v)
  <2>1. PICK u : u = SubSeq(s, 1, Len(s) - 1)
    OBVIOUS
  <2>2. /\ u \in Seq(Revisions) /\ DOMAIN u = 1 .. Len(s) - 1
        /\ \A i \in DOMAIN u : u[i] = s[i]
    BY <1>7, <2>1
  <2>3. InForce(u)'
    <3>1. active' = parent[t]
      BY <1>1, <1>10 DEF Rollback
    <3> QED BY <1>2, <2>1, <3>1, RestoreLayers DEF IInv
  <2>4. Layers' = u
    BY <1>8, <2>2, <2>3 DEF TypeOK
  <2>5. \A i \in DOMAIN u : u[i] # t
    <3>1. Lies(u)'
      BY <2>2, <2>3 DEF InForce
    <3> QED BY <1>3, <3>1 DEF Lies
  <2>6. ToSet(s) = ToSet(u) \cup {t} /\ t \notin ToSet(u)
    <3>1. \A i \in DOMAIN s : i \in DOMAIN u \/ i = Len(s)
      BY <1>7, <2>2
    <3>2. DOMAIN u \subseteq DOMAIN s
      BY <1>7, <2>2
    <3> QED BY <1>6, <1>7, <2>2, <2>5, <3>1, <3>2 DEF ToSet
  <2>7. Past' = Accepted' \ ToSet(u)
    BY <2>4 DEF Past, Accepted
  <2>8. Past' = Past \cup {t}
    BY <1>3, <1>9, <2>6, <2>7
  <2>9. History!Restore
    BY <1>5, <1>6, <2>1, <2>4, <2>8 DEF History!Restore, History!Front, History!Last, Front, Last
  <2> QED BY <2>2, <2>3, <2>9 DEF Layered, History!Next
<1>11. CASE Revoke(v)
  <2>1. InForce(<<>>)' /\ <<>> \in Seq(Revisions)
    BY <1>11, RevokeLayers DEF Revoke
  <2>2. Layers' = <<>>
    BY <1>8, <2>1 DEF TypeOK
  <2>3. Past' = Accepted' \ {}
    BY <2>2 DEF Past, Accepted, ToSet
  <2>4. Past' = Past \cup ToSet(s)
    BY <1>3, <1>9, <2>3
  <2>5. History!Revoke
    BY <1>5, <1>6, <2>2, <2>4 DEF History!Revoke, History!ToSet, ToSet
  <2> QED BY <2>1, <2>5 DEF Layered, History!Next
<1> QED BY <1>10, <1>11

LEMMA HistoryStep ==
  ASSUME IInv, TypeOK', Layered, [Next]_vars
  PROVE  Layered' /\ [History!Next]_(History!vars)
<1>1. PICK s \in Seq(Revisions) : InForce(s)
  BY DEF Layered
<1>2. ASSUME UNCHANGED active,
             \A r \in Revisions : /\ status'[r] = "APPROVED" <=> status[r] = "APPROVED"
                                  /\ status'[r] = "REVOKED" <=> status[r] = "REVOKED"
                                  /\ status[r] = "APPROVED" => parent'[r] = parent[r]
      PROVE  Layered' /\ [History!Next]_(History!vars)
  BY <1>1, <1>2, QuietHistory
<1>3. ASSUME NEW r \in Revisions, ReadBaseline(r)
      PROVE  Layered' /\ [History!Next]_(History!vars)
  BY <1>2, <1>3 DEF ReadBaseline, IInv, Fresh, TypeOK
<1>4. ASSUME NEW r \in Revisions,
             Admit(r) \/ Refuse(r) \/ Insert(r) \/ Report(r) \/ Fail(r) \/ Get(r)
      PROVE  Layered' /\ [History!Next]_(History!vars)
  BY <1>2, <1>4
     DEF Admit, Refuse, Insert, Report, Fail, Get, UpdateRunning, SetStatus, rows,
         IInv, TypeOK, Fresh
<1>5. ASSUME NEW v \in Reviews, Review(v)
      PROVE  Layered' /\ [History!Next]_(History!vars)
  <2>1. CASE Approve(v)
    BY <1>1, <2>1, ApproveHistory
  <2>2. CASE Rollback(v) \/ Revoke(v)
    BY <1>1, <2>2, RollbackHistory
  <2>3. CASE Reject(v)
    BY <1>2, <2>3 DEF Reject, StillPending, SetStatus, IInv, TypeOK, Targeted
  <2>4. CASE \/ ReadActive(v) \/ ReadAgents(v) \/ Conflict(v) \/ GiveUp(v)
             \/ \E r \in Revisions : ReadRow(v, r) \/ ReadApproved(v, r)
    BY <1>2, <2>4 DEF ReadActive, ReadAgents, Conflict, GiveUp, ReadRow, ReadApproved, rows
  <2> QED BY <1>5, <2>1, <2>2, <2>3, <2>4 DEF Review
<1>6. ASSUME NEW p \in Platforms, Deploy(p) \/ Retire(p)
      PROVE  Layered' /\ [History!Next]_(History!vars)
  BY <1>2, <1>6 DEF Deploy, Retire, rows
<1>7. CASE ChangeAgents \/ UNCHANGED vars
  BY <1>2, <1>7 DEF ChangeAgents, vars, rows
<1> QED BY <1>3, <1>4, <1>5, <1>6, <1>7 DEF Next, Execute

\* The database implements the history of approved content: every approval puts one
\* revision on top of those in force, a restoration takes the last one off, revoking
\* takes all of them off, and no other statement of any request changes what is in force.
THEOREM ImplementsHistory == Spec => HistorySpec
<1>1. Init => Layered /\ History!Init
  <2> SUFFICES ASSUME Init
               PROVE  Layered /\ History!Init
    OBVIOUS
  <2>1. InForce(<<>>) /\ <<>> \in Seq(Revisions)
    BY InitLayered
  <2>2. Layers = <<>>
    BY DEF Init, Layers
  <2>3. Past = {}
    BY DEF Init, Past
  <2> QED BY <2>1, <2>2, <2>3 DEF Layered, History!Init
<1>2. IInv /\ IInv' /\ Layered /\ [Next]_vars => Layered' /\ [History!Next]_(History!vars)
  BY HistoryStep DEF IInv
<1> QED BY <1>1, <1>2, Invariance, PTL DEF Spec, HistorySpec, History!Spec

==============================================================================
