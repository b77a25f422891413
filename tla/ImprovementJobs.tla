--------------------------- MODULE ImprovementJobs ---------------------------
(***************************************************************************)
(* The durable job queue of app/optimization/improvement.py: worker        *)
(* processes claim jobs under a lease, renew it from a heartbeat, store    *)
(* checkpoints, and store the outcome; operators cancel and retry; workers *)
(* shut down, die, stall past their lease and lose the database.           *)
(*                                                                         *)
(* Jobs are numbered in the order of created_at.  A worker runs one job at *)
(* a time, so its name stands for the lease_owner token of its current     *)
(* attempt.  A checkpoint is the number of pages stored in result_json.    *)
(***************************************************************************)
EXTENDS Naturals, FiniteSets

CONSTANTS
    MaxJobs,       \* bound: jobs ever created
    Workers,       \* worker processes
    Operators,     \* control requests (cancel or retry)
    MaxAttempts,   \* ImprovementService.max_attempts
    MaxPages,      \* bound: pages of a resumable job
    Null

ASSUME JobsAssumption == MaxJobs \in Nat
ASSUME AttemptsAssumption == MaxAttempts \in Nat \ {0}
ASSUME PagesAssumption == MaxPages \in Nat
ASSUME NobodyAssumption == Null \notin Workers

Jobs == 1 .. MaxJobs

VARIABLES
    jobStatus,  \* status[j], "absent" before the insert
    attempts,   \* attempts[j]
    flag,       \* jobs with cancel_requested
    owner,      \* owner[j]: lease_owner
    lapsed,     \* jobs whose lease_until is in the past
    page,       \* page[j]: the stored checkpoint
    wpc,        \* wpc[w]: where the worker's run_once is suspended
    wjob,       \* wjob[w]: the job it claimed
    wpage,      \* wpage[w]: run_once's local variable checkpoint
    wbase,      \* wbase[w]: row["attempts"] as it was before the claim
    outcome,    \* outcome[w]: the status the final update is to store
    refund,     \* workers whose final update gives the attempt back (capacity_wait)
    cpc,        \* cpc[c]: where control request c is suspended
    cjob,       \* cjob[c]: the job it names
    cseen,      \* cseen[c]: the status its SELECT returned
    cpage,      \* cpage[c]: the checkpoint its SELECT returned
    fresh       \* requests whose job still has the updated_at they read

jobRows == <<jobStatus, attempts, flag, owner, lapsed, page>>
work == <<wpc, wjob, wpage, wbase, outcome, refund>>
control == <<cpc, cjob, cseen, cpage>>
jobsVars == <<jobRows, work, control, fresh>>

------------------------------------------------------------------------------
Active == {"QUEUED", "RUNNING"}
Settled == {"SUCCEEDED", "FAILED", "CANCELLED"}
JobStatuses == {"absent"} \cup Active \cup Settled

\* A job may be claimed when it is queued, or when its worker let the lease lapse.
Eligible(j) == jobStatus[j] = "QUEUED" \/ (jobStatus[j] = "RUNNING" /\ j \in lapsed)

Exhausted == {j \in Jobs : Eligible(j) /\ attempts[j] >= MaxAttempts}

Ready == {j \in Jobs : Eligible(j) /\ attempts[j] < MaxAttempts}

\* The WHERE clause that fences every write of a worker's attempt.
\* (Mutated forms: the lease owner, or the status, is not compared.)
AnyAttempt(w) == jobStatus[wjob[w]] = "RUNNING"
AnyStatus(w) == owner[wjob[w]] = w
Token(w) == owner[wjob[w]] = w /\ jobStatus[wjob[w]] = "RUNNING"

\* updated_at changes: requests that had read these jobs are no longer fresh.
Touch(js) == fresh' = {c \in fresh : cjob[c] \notin js}

\* The work of w ends with this outcome; the final update is still to come.
Conclude(w, s, refunded) ==
    /\ wpc' = [wpc EXCEPT ![w] = "persist"]
    /\ outcome' = [outcome EXCEPT ![w] = s]
    /\ refund' = IF refunded THEN refund \cup {w} ELSE refund \ {w}
    /\ UNCHANGED <<wjob, wpage, wbase>>

\* run_once returns: its local variables are gone.
Return(w) ==
    /\ wpc' = [wpc EXCEPT ![w] = "idle"]
    /\ wjob' = [wjob EXCEPT ![w] = Null]
    /\ wpage' = [wpage EXCEPT ![w] = 0]
    /\ wbase' = [wbase EXCEPT ![w] = 0]
    /\ outcome' = [outcome EXCEPT ![w] = Null]
    /\ refund' = refund \ {w}

\* The same for a control request, whose job rows js were written.
Answer(c, js) ==
    /\ cpc' = [cpc EXCEPT ![c] = "over"]
    /\ cjob' = [cjob EXCEPT ![c] = Null]
    /\ cseen' = [cseen EXCEPT ![c] = Null]
    /\ cpage' = [cpage EXCEPT ![c] = 0]
    /\ fresh' = {d \in fresh \ {c} : cjob[d] \notin js}

------------------------------------------------------------------------------
JobsInit ==
    /\ jobStatus = [j \in Jobs |-> "absent"]
    /\ attempts = [j \in Jobs |-> 0]
    /\ flag = {}
    /\ owner = [j \in Jobs |-> Null]
    /\ lapsed = {}
    /\ page = [j \in Jobs |-> 0]
    /\ wpc = [w \in Workers |-> "idle"]
    /\ wjob = [w \in Workers |-> Null]
    /\ wpage = [w \in Workers |-> 0]
    /\ wbase = [w \in Workers |-> 0]
    /\ outcome = [w \in Workers |-> Null]
    /\ refund = {}
    /\ cpc = [c \in Operators |-> "idle"]
    /\ cjob = [c \in Operators |-> Null]
    /\ cseen = [c \in Operators |-> Null]
    /\ cpage = [c \in Operators |-> 0]
    /\ fresh = {}

\* enqueue, or the insert of a due schedule.
Enqueue(j) ==
    /\ jobStatus[j] = "absent"
    /\ \A k \in 1 .. (j - 1) : jobStatus[k] # "absent"
    /\ jobStatus' = [jobStatus EXCEPT ![j] = "QUEUED"]
    /\ UNCHANGED <<attempts, flag, owner, lapsed, page, work, control, fresh>>

(***************************************************************************)
(* claim: one transaction fails every eligible job without attempts left   *)
(* and takes the oldest of the others.                                     *)
(***************************************************************************)

FailExhausted == [j \in Jobs |-> IF j \in Exhausted THEN "FAILED" ELSE jobStatus[j]]

\* (Mutated form: the attempt is not counted.)
FreeAttempt(j) == attempts
ChargeAttempt(j) == [attempts EXCEPT ![j] = @ + 1]

ClaimOldest(w, j) ==
    /\ j \in Ready
    /\ \A k \in Ready : j <= k
    /\ jobStatus' = [FailExhausted EXCEPT ![j] = "RUNNING"]
    /\ attempts' = ChargeAttempt(j)
    /\ owner' = [owner EXCEPT ![j] = w]
    /\ lapsed' = lapsed \ {j}
    /\ Touch(Exhausted \cup {j})
    /\ wjob' = [wjob EXCEPT ![w] = j]
    /\ wpage' = [wpage EXCEPT ![w] = page[j]]
    /\ wbase' = [wbase EXCEPT ![w] = attempts[j]]
    \* A cancellation that survived in the row stops the task before it starts.
    /\ IF j \in flag
         THEN /\ wpc' = [wpc EXCEPT ![w] = "persist"]
              /\ outcome' = [outcome EXCEPT ![w] = "CANCELLED"]
              /\ refund' = refund \ {w}
         ELSE /\ wpc' = [wpc EXCEPT ![w] = "execute"]
              /\ UNCHANGED <<outcome, refund>>
    /\ UNCHANGED <<flag, page>>

ClaimNothing ==
    /\ Ready = {}
    /\ Exhausted # {}
    /\ jobStatus' = FailExhausted
    /\ Touch(Exhausted)
    /\ UNCHANGED <<attempts, flag, owner, lapsed, page, work>>

Claim(w) ==
    /\ wpc[w] = "idle"
    /\ \/ \E j \in Jobs : ClaimOldest(w, j)
       \/ ClaimNothing
    /\ UNCHANGED control

(***************************************************************************)
(* execute: pages with a stored checkpoint each, then a result.            *)
(***************************************************************************)

\* progress(): the guarded update of checkpoint and lease commits, or the attempt
\* learns that it was cancelled or superseded.
Progress(w) ==
    /\ wpc[w] = "execute"
    /\ wpage[w] < MaxPages
    /\ IF Token(w) /\ wjob[w] \notin flag
         THEN /\ page' = [page EXCEPT ![wjob[w]] = wpage[w] + 1]
              /\ lapsed' = lapsed \ {wjob[w]}
              /\ Touch({wjob[w]})
              /\ wpc' = [wpc EXCEPT ![w] = "saving"]
              /\ UNCHANGED <<wjob, wpage, wbase, outcome, refund>>
         ELSE /\ Conclude(w, "CANCELLED", FALSE)
              /\ UNCHANGED <<page, lapsed, fresh>>
    /\ UNCHANGED <<jobStatus, attempts, flag, owner, control>>

\* progress() returns: only now does the local checkpoint follow the stored one.
AdvancePage(w) == [wpage EXCEPT ![w] = @ + 1]

ProgressReturns(w) ==
    /\ wpc[w] = "saving"
    /\ wpage' = AdvancePage(w)
    /\ wpc' = [wpc EXCEPT ![w] = "execute"]
    /\ UNCHANGED <<jobRows, wjob, wbase, outcome, refund, control, fresh>>

\* The job's own end: a result, a failed evaluation, or an exception.
Complete(w) ==
    /\ wpc[w] = "execute"
    /\ \E s \in {"SUCCEEDED", "FAILED"} : Conclude(w, s, FALSE)
    /\ UNCHANGED <<jobRows, control, fresh>>

\* CONTINUE after a bounded number of pages, or OverflowError because the
\* evaluation budget is taken: back to the queue, the attempt given back.
YieldTurn(w) ==
    /\ wpc[w] = "execute"
    /\ Conclude(w, "QUEUED", TRUE)
    /\ UNCHANGED <<jobRows, control, fresh>>

\* A turn of track_closures may return a page that progress() never stored: it
\* reaches the row with the final update.
YieldPage(w) ==
    /\ wpc[w] = "execute"
    /\ wpage[w] < MaxPages
    /\ wpc' = [wpc EXCEPT ![w] = "persist"]
    /\ outcome' = [outcome EXCEPT ![w] = "QUEUED"]
    /\ refund' = refund \cup {w}
    /\ wpage' = [wpage EXCEPT ![w] = @ + 1]
    /\ UNCHANGED <<jobRows, wjob, wbase, control, fresh>>

\* heartbeat: stops an attempt that was cancelled or superseded, renews the lease
\* of any other, even one that has lapsed but was not yet taken over.
\* (Mutated form: the heartbeat only renews.)
BeatsOn(w) == FALSE
MustStop(w) == ~Token(w) \/ wjob[w] \in flag

Beat(w) ==
    /\ wpc[w] \in {"execute", "saving"}
    /\ \/ /\ MustStop(w)
          /\ Conclude(w, "CANCELLED", FALSE)
          /\ UNCHANGED <<lapsed, fresh>>
       \/ /\ ~MustStop(w)
          /\ lapsed' = lapsed \ {wjob[w]}
          /\ Touch({wjob[w]})
          /\ UNCHANGED work
    /\ UNCHANGED <<jobStatus, attempts, flag, owner, page, control>>

\* A database error inside the heartbeat cancels the task.
BeatFails(w) ==
    /\ wpc[w] \in {"execute", "saving"}
    /\ Conclude(w, "CANCELLED", FALSE)
    /\ UNCHANGED <<jobRows, control, fresh>>

\* aclose: the task is cancelled with closed already set.
Shutdown(w) ==
    /\ wpc[w] \in {"execute", "saving"}
    /\ Conclude(w, "QUEUED", FALSE)
    /\ UNCHANGED <<jobRows, control, fresh>>

\* The final update of run_once.
Persist(w) ==
    /\ wpc[w] = "persist"
    /\ IF Token(w)
         THEN LET j == wjob[w] IN
              /\ jobStatus' = [jobStatus EXCEPT ![j] = outcome[w]]
              /\ page' = [page EXCEPT ![j] = wpage[w]]
              /\ owner' = [owner EXCEPT ![j] = Null]
              /\ lapsed' = lapsed \ {j}
              /\ attempts' = IF w \in refund THEN [attempts EXCEPT ![j] = wbase[w]]
                                             ELSE attempts
              /\ Touch({j})
         ELSE UNCHANGED <<jobStatus, page, owner, lapsed, attempts, fresh>>
    /\ Return(w)
    /\ UNCHANGED <<flag, control>>

\* The worker dies, or its final update does not reach the database: the row keeps
\* its lease and a new attempt has to wait for it to lapse.
Abandon(w) ==
    /\ wpc[w] # "idle"
    /\ Return(w)
    /\ UNCHANGED <<jobRows, control, fresh>>

\* lease_until passes: the owner is gone, or slower than its lease.
LeaseLapses(j) ==
    /\ jobStatus[j] = "RUNNING"
    /\ j \notin lapsed
    /\ lapsed' = lapsed \cup {j}
    /\ UNCHANGED <<jobStatus, attempts, flag, owner, page, work, control, fresh>>

(***************************************************************************)
(* control: SELECT, then an UPDATE guarded by what the SELECT saw.         *)
(***************************************************************************)

ControlReads(c, j) ==
    /\ cpc[c] = "idle"
    /\ \/ jobStatus[j] \in Active /\ cpc' = [cpc EXCEPT ![c] = "cancel"]
       \/ jobStatus[j] \in {"FAILED", "CANCELLED"} /\ cpc' = [cpc EXCEPT ![c] = "retry"]
    /\ cjob' = [cjob EXCEPT ![c] = j]
    /\ cseen' = [cseen EXCEPT ![c] = jobStatus[j]]
    /\ cpage' = [cpage EXCEPT ![c] = page[j]]
    /\ fresh' = fresh \cup {c}
    /\ UNCHANGED <<jobRows, work>>

\* A cancellation settles a queued job at once and only asks a running one to stop.
CancelWrites(c) ==
    /\ cpc[c] = "cancel"
    /\ LET j == cjob[c] IN
         IF jobStatus[j] = cseen[c]
           THEN /\ flag' = flag \cup {j}
                /\ jobStatus' = IF cseen[c] = "QUEUED" THEN [jobStatus EXCEPT ![j] = "CANCELLED"]
                                                    ELSE jobStatus
                /\ Answer(c, {j})
           ELSE Answer(c, {}) /\ UNCHANGED <<flag, jobStatus>>
    /\ UNCHANGED <<attempts, owner, lapsed, page, work>>

\* A retry opens a new budget of attempts; the checkpoint is the one it read.
\* (Mutated form: only the status is compared.)
SeenStatus(c) == jobStatus[cjob[c]] = cseen[c]
Unchanged(c) == jobStatus[cjob[c]] = cseen[c] /\ c \in fresh

RetryWrites(c) ==
    /\ cpc[c] = "retry"
    /\ LET j == cjob[c] IN
         IF Unchanged(c)
           THEN /\ jobStatus' = [jobStatus EXCEPT ![j] = "QUEUED"]
                /\ flag' = flag \ {j}
                /\ attempts' = [attempts EXCEPT ![j] = 0]
                /\ owner' = [owner EXCEPT ![j] = Null]
                /\ lapsed' = lapsed \ {j}
                /\ page' = [page EXCEPT ![j] = cpage[c]]
                /\ Answer(c, {j})
           ELSE Answer(c, {}) /\ UNCHANGED <<jobStatus, flag, attempts, owner, lapsed, page>>
    /\ UNCHANGED work

------------------------------------------------------------------------------
JobsNext ==
    \/ \E j \in Jobs : Enqueue(j) \/ LeaseLapses(j)
    \/ \E w \in Workers :
         \/ Claim(w) \/ Progress(w) \/ ProgressReturns(w) \/ Complete(w) \/ YieldTurn(w)
         \/ YieldPage(w)
         \/ Beat(w) \/ BeatFails(w) \/ Shutdown(w) \/ Persist(w) \/ Abandon(w)
    \/ \E c \in Operators :
         \/ CancelWrites(c) \/ RetryWrites(c)
         \/ \E j \in Jobs : ControlReads(c, j)

JobsSpec == JobsInit /\ [][JobsNext]_jobsVars

\* Workers poll, heartbeats beat, leases run out with the clock.  Nothing is assumed
\* of the executions: a model call may hang, a job may be put back for ever.
Fairness ==
    /\ \A w \in Workers :
         /\ WF_jobsVars(Claim(w))
         /\ WF_jobsVars(ProgressReturns(w))
         /\ WF_jobsVars(Beat(w))
         /\ WF_jobsVars(Persist(w))
    /\ \A j \in Jobs : WF_jobsVars(LeaseLapses(j))

FairSpec == JobsSpec /\ Fairness

\* What one may ask of the executions of some jobs: given turn after turn, they do not
\* yield in all of them; they end or take their worker with them, each time if they like.
ExecutionsEnd(jobs) ==
    \A w \in Workers : SF_jobsVars(wjob[w] \in jobs /\ (Complete(w) \/ Abandon(w)))

------------------------------------------------------------------------------
(***************************************************************************)
(* Properties.                                                             *)
(***************************************************************************)

RowsTypeOK ==
    /\ jobStatus \in [Jobs -> JobStatuses]
    /\ attempts \in [Jobs -> 0 .. MaxAttempts]
    /\ flag \in SUBSET Jobs
    /\ owner \in [Jobs -> Workers \cup {Null}]
    /\ lapsed \in SUBSET Jobs
    /\ page \in [Jobs -> 0 .. MaxPages]

Outcomes == {"QUEUED", "SUCCEEDED", "FAILED", "CANCELLED"}

WorkTypeOK ==
    /\ wpc \in [Workers -> {"idle", "execute", "saving", "persist"}]
    /\ wjob \in [Workers -> Jobs \cup {Null}]
    /\ wpage \in [Workers -> 0 .. MaxPages]
    /\ wbase \in [Workers -> 0 .. MaxAttempts]
    /\ outcome \in [Workers -> Outcomes \cup {Null}]
    /\ refund \in SUBSET Workers
    /\ \A w \in Workers : wpc[w] # "idle" => wjob[w] \in Jobs
    /\ \A w \in Workers : wpc[w] = "persist" => outcome[w] \in Outcomes
    /\ \A w \in Workers : wpc[w] = "saving" => wpage[w] < MaxPages
    /\ \A w \in refund : outcome[w] = "QUEUED"

ControlTypeOK ==
    /\ cpc \in [Operators -> {"idle", "cancel", "retry", "over"}]
    /\ cjob \in [Operators -> Jobs \cup {Null}]
    /\ cseen \in [Operators -> JobStatuses \cup {Null}]
    /\ cpage \in [Operators -> 0 .. MaxPages]
    /\ \A c \in Operators : cpc[c] = "cancel" => cjob[c] \in Jobs /\ cseen[c] \in Active
    /\ \A c \in Operators :
         cpc[c] = "retry" => cjob[c] \in Jobs /\ cseen[c] \in {"FAILED", "CANCELLED"}
    /\ fresh \subseteq {c \in Operators : cpc[c] \in {"cancel", "retry"}}

\* Every variable has the type of the column or local variable it stands for.
JobsTypeOK == RowsTypeOK /\ WorkTypeOK /\ ControlTypeOK

\* A settled job stays as it is: only a retry reopens it, only if it had failed or
\* was cancelled, and with a full budget.  No attempt that lost its lease to
\* another worker, to a cancellation or to the attempt limit can finish it again.
SettledOnlyRetried ==
    [][\A j \in Jobs : jobStatus[j] \in Settled /\ jobStatus'[j] # jobStatus[j] =>
         /\ jobStatus[j] # "SUCCEEDED"
         /\ jobStatus'[j] = "QUEUED"
         /\ attempts'[j] = 0]_jobsVars

\* Work that was checkpointed is repeated by at most one page, the one being
\* stored when its attempt was stopped: neither a superseded worker nor a retry
\* that read an older row moves the checkpoint further back.
AtMostOnePageRepeated == [][\A j \in Jobs : page[j] <= page'[j] + 1]_jobsVars

\* Attempts are spent for good: the counter goes down only for the owner of the
\* running attempt, which gives back exactly its own, and at a retry, so a job
\* that keeps killing its workers is stopped after MaxAttempts claims.
AttemptsSpent ==
    [][\A j \in Jobs : attempts'[j] < attempts[j] =>
         \/ jobStatus[j] = "RUNNING" /\ jobStatus'[j] = "QUEUED" /\ attempts'[j] + 1 = attempts[j]
         \/ jobStatus[j] \in {"FAILED", "CANCELLED"} /\ jobStatus'[j] = "QUEUED"]_jobsVars

\* The owner of a running job works on from the stored checkpoint, or from the
\* page before it while that page is being stored, and never stores an older one.
OwnerHasCheckpoint ==
    \A w \in Workers : wpc[w] # "idle" /\ Token(w) =>
       /\ page[wjob[w]] <= wpage[w] + 1
       /\ wpc[w] = "execute" => page[wjob[w]] = wpage[w]
       /\ wpc[w] = "saving" => page[wjob[w]] = wpage[w] + 1

\* The owner of a running job knows how many attempts preceded its own.
OwnerHasBudget ==
    \A w \in Workers : wpc[w] # "idle" /\ Token(w) =>
       attempts[wjob[w]] = wbase[w] + 1

\* A request whose job was not written since it read it remembers its checkpoint.
RequestHasCheckpoint == \A c \in fresh : cpage[c] = page[cjob[c]]

\* If executions come to an end, every queued or running job is eventually settled, also
\* one that kills or stalls its worker in every attempt it gets.
JobsSettle ==
    ExecutionsEnd(Jobs) =>
        \A j \in Jobs : (jobStatus[j] \in Active ~> jobStatus[j] \in Settled)

\* A cancellation that reached the row of a job ends it, although its execution may hang
\* for ever, and also when a shutdown or a full evaluation budget put it back into the
\* queue meanwhile (if the other jobs, behind which it then waits, end).
CancelEnds ==
    \A j \in Jobs :
        ExecutionsEnd(Jobs \ {j}) =>
            (j \in flag /\ jobStatus[j] \in Active ~> jobStatus[j] \in Settled)
==============================================================================
