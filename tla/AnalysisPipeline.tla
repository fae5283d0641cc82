-------------------------- MODULE AnalysisPipeline --------------------------
(***************************************************************************)
(* The paid analysis pipeline (src/application/analysis-pipeline.ts) with  *)
(* the job and batch rules it applies (src/domain/analysis.ts,             *)
(* src/application/batch-types.ts) and the store rows it shares with other *)
(* pipelines.                                                              *)
(*                                                                         *)
(* A store transaction is one step: src/adapters/sqlite/store.ts runs them *)
(* one at a time and rolls a failed one back.  Everything between two      *)
(* awaits of a worker is folded into the step it follows.  Time is         *)
(* abstract: a lease is "live" until a Lapse step makes it "lapsed".       *)
(***************************************************************************)
EXTENDS Integers, Sequences, FiniteSets

CONSTANTS
    Pipelines,        \* instances of the service; each has its own owner string
    BatchIds,
    Snapshots,
    Reruns,           \* run identities that prepareBatch may generate
    Legacy,           \* the run identity "null": the deterministic job of a snapshot
    None,             \* null
    Availability,     \* what classifySnapshotAvailability says of each snapshot
    SupportedRoles,   \* roles the gateway advertises
    LimitChoices,     \* batch budgets a user may choose
    JobLimits,        \* limits.job.maxAnalysisCalls / maxReasoningCalls
    MaxAttempts,      \* limits.job.maxAttempts
    MaxRetries,       \* retries of one role call
    Concurrency,      \* size of the worker pool
    Moving,           \* snapshots whose material and decisions may move meanwhile
    MaxManualRevision,\* bound on the manual decisions of the environment
    Faults,           \* which of "crash", "store", "token" the environment may cause
    LeaseOutlivesCall \* TRUE: no lease lapses under a call (leaseMs > requestTimeoutMs)

Kinds == {"analysis", "reasoning"}
Roles == {"analysis", "verification", "reasoning"}

ASSUME LegacyAssumption == Legacy \notin Reruns
ASSUME NoneAssumption == None \notin Pipelines \cup BatchIds
ASSUME MaterialAssumption ==
    Availability \in [Snapshots -> {"editorial", "absent", "unusable"}]
ASSUME RolesAssumption == SupportedRoles \subseteq Roles
ASSUME LimitsAssumption ==
    /\ LimitChoices \subseteq [Kinds -> Nat]
    /\ JobLimits \in [Kinds -> Nat \ {0}]
ASSUME BoundsAssumption ==
    /\ MaxAttempts \in Nat \ {0}
    /\ MaxRetries \in Nat
    /\ Concurrency \in Nat \ {0}
    /\ MaxManualRevision \in Nat
    /\ Moving \subseteq Snapshots
    /\ Faults \subseteq {"crash", "store", "token"}
    /\ LeaseOutlivesCall \in BOOLEAN

\* A job is named by its snapshot and its run identity (analysisJobIdOf).
Jobs == Snapshots \X ({Legacy} \cup Reruns)
SnapshotOf(j) == j[1]

JobStatuses == {"absent", "pending", "running", "paused_quota", "succeeded",
                "failed", "cancelled"}
BatchStatuses == {"absent", "pending", "running", "paused", "completed",
                  "failed", "cancelled"}
Leases == {"none", "live", "lapsed"}

VARIABLES
    superseded,  \* snapshots that are no longer their problem's head
    manual,      \* manual revision of each snapshot's problem
    job,         \* store: analysis jobs
    batch,       \* store: analysis batches
    attempts,    \* store: model call attempts, in order of reservation
    analyses,    \* store: adopted analysis results
    sweep,       \* jobs a recover() call still has to visit
    run,         \* memory: the active run of each pipeline
    work         \* memory: the worker of pipeline p on job j

store == <<job, batch, attempts, analyses>>
vars == <<superseded, manual, job, batch, attempts, analyses, sweep, run, work>>

NoCalls == [k \in Kinds |-> 0]
AbsentJob == [status |-> "absent", owner |-> None, lease |-> "none",
              starts |-> 0, calls |-> NoCalls]
AbsentBatch == [status |-> "absent", owner |-> None, lease |-> "none",
                jobs |-> {}, captured |-> [j \in Jobs |-> 0],
                limits |-> NoCalls, calls |-> NoCalls, retries |-> 0]
NoRun == [phase |-> "idle", batch |-> None, todo |-> {}, workers |-> 0,
          failed |-> FALSE, token |-> FALSE, pause |-> FALSE, notice |-> "none"]
NoWork == [at |-> "idle", role |-> "analysis", row |-> 0, retries |-> 0,
           checked |-> FALSE]

Init ==
    /\ superseded = {}
    /\ manual = [s \in Snapshots |-> 0]
    /\ job = [j \in Jobs |-> AbsentJob]
    /\ batch = [b \in BatchIds |-> AbsentBatch]
    /\ attempts = <<>>
    /\ analyses = {}
    /\ sweep = {}
    /\ run = [p \in Pipelines |-> NoRun]
    /\ work = [p \in Pipelines |-> [j \in Jobs |-> NoWork]]

-----------------------------------------------------------------------------
(* Job and batch rules                                                     *)

\* transitionJob 'start': the attempt counter saturates because the code only
\* ever asks whether it has reached maxAttempts.
Started(r, p) ==
    [r EXCEPT !.status = "running", !.owner = p, !.lease = "live",
              !.starts = IF @ < MaxAttempts THEN @ + 1 ELSE @]

\* "Defect" marks a deliberately wrong variant of the definition that follows
\* it, used only by mutation runs.  Here the lease survives the transition.
LeftWithLease(r, status) == [r EXCEPT !.status = status]

\* Every transition that leaves `running` also drops the lease.
Left(r, status) ==
    [r EXCEPT !.status = status, !.owner = None, !.lease = "none"]

\* A failed requeue: 'requeue' of a job that prepareBatch or resume picks up.
Requeued(r) == IF r.status = "failed" THEN Left(r, "pending") ELSE r

\* Defect: a succeeded job is not protected.
JobOverIfCancelled(r) == r.status = "cancelled"

JobOver(r) == r.status \in {"succeeded", "cancelled"}
BatchOver(r) == r.status \in {"completed", "cancelled"}
Active(b) == batch[b].status \in {"pending", "running", "paused"}

KindOf(role) == IF role = "reasoning" THEN "reasoning" ELSE "analysis"

RowsOf(b, k) ==
    {i \in DOMAIN attempts : attempts[i].batch = b /\ KindOf(attempts[i].role) = k}
JobRowsOf(j, k) ==
    {i \in DOMAIN attempts : attempts[i].job = j /\ KindOf(attempts[i].role) = k}

\* Ownership tests of the transactions: the batch (job) is running and p's.
OwnsBatch(p, b) == batch[b].status = "running" /\ batch[b].owner = p
OwnsJob(p, j) == job[j].status = "running" /\ job[j].owner = p
\* Defect: the run trusts its memory instead of the stored batch.
HoldsBatchInMemory(p, b) == run[p].batch = b

HoldsBatch(p, b) == OwnsBatch(p, b) /\ batch[b].lease = "live"
HoldsJob(p, j) == OwnsJob(p, j) /\ job[j].lease = "live"

\* Defect: only the snapshot head is compared.
FreshHead(b, j) == SnapshotOf(j) \notin superseded

\* The head and the manual revision are still the ones the batch captured.
Fresh(b, j) ==
    /\ SnapshotOf(j) \notin superseded
    /\ manual[SnapshotOf(j)] = batch[b].captured[j]

Flagged(p) == run[p].token \/ run[p].pause
InCall(p, j) == work[p][j].at = "call"

-----------------------------------------------------------------------------
(* Preparing a batch                                                       *)

CurrentlyChecked(s) ==
    \E a \in analyses : SnapshotOf(a.job) = s /\ a.checked

\* The jobs prepareBatch may schedule for a snapshot it does not skip.
Schedulable(s, reanalyze) ==
    LET legacy == job[<<s, Legacy>>].status
        wanted == {"pending", "running", "paused_quota"}
                  \cup (IF reanalyze THEN {} ELSE {"failed"})
        unfinished == {r \in Reruns : job[<<s, r>>].status \in wanted}
    IN  IF legacy \in wanted THEN {<<s, Legacy>>}
        ELSE IF unfinished # {} THEN {<<s, r>> : r \in unfinished}
        ELSE IF legacy = "absent" THEN {<<s, Legacy>>}
        ELSE {<<s, r>> : r \in {x \in Reruns : job[<<s, x>>].status = "absent"}}

PrepareBatch(b, chosen, reanalyze, limits) ==
    LET left == {s \in chosen : reanalyze \/ ~CurrentlyChecked(s)} IN
    /\ batch[b].status = "absent"
    /\ left # {}
    /\ chosen \cap superseded = {}
    /\ \A c \in BatchIds \ {b} :
         Active(c) => \A j \in batch[c].jobs : SnapshotOf(j) \notin chosen
    /\ \E pick \in [left -> Jobs] :
         LET scheduled == {pick[s] : s \in left} IN
         /\ \A s \in left : pick[s] \in Schedulable(s, reanalyze)
         /\ job' = [j \in Jobs |->
                      IF j \notin scheduled THEN job[j]
                      ELSE IF job[j].status = "absent"
                           THEN [AbsentJob EXCEPT !.status = "pending"]
                           ELSE Requeued(job[j])]
         /\ batch' = [batch EXCEPT ![b] =
                        [AbsentBatch EXCEPT
                           !.status = "pending", !.jobs = scheduled, !.limits = limits,
                           !.captured = [j \in Jobs |->
                              IF j \in scheduled THEN manual[SnapshotOf(j)] ELSE 0]]]
    /\ UNCHANGED <<superseded, manual, attempts, analyses, sweep, run, work>>

-----------------------------------------------------------------------------
(* Pause, cancel, resume and recover                                       *)

\* cancelPersisted: one transaction over the batch and its unfinished jobs.
CancelPersisted(b) ==
    IF BatchOver(batch[b]) THEN UNCHANGED <<job, batch>>
    ELSE /\ job' = [j \in Jobs |->
                      IF j \in batch[b].jobs /\ ~JobOver(job[j])
                      THEN Left(job[j], "cancelled") ELSE job[j]]
         /\ batch' = [batch EXCEPT ![b] = Left(@, "cancelled")]

\* The caller's pipeline signals its own run after the transaction; a run of
\* another pipeline is never signalled.
Notified(p, b, notice) ==
    run' = [run EXCEPT ![p].notice = IF run[p].batch = b THEN notice ELSE @]

Pause(p, b) ==
    /\ batch[b].status \notin {"absent", "completed", "cancelled"}
    /\ batch' = [batch EXCEPT ![b] = Left(@, "paused")]
    /\ Notified(p, b, "pause")
    /\ UNCHANGED <<superseded, manual, job, attempts, analyses, sweep, work>>

Cancel(p, b) ==
    /\ batch[b].status \notin {"absent", "completed"}
    /\ CancelPersisted(b)
    /\ Notified(p, b, "cancel")
    /\ UNCHANGED <<superseded, manual, attempts, analyses, sweep, work>>

DeliverNotice(p) ==
    /\ run[p].notice # "none"
    /\ run' = [run EXCEPT ![p].notice = "none", ![p].token = TRUE,
                          ![p].pause = @ \/ run[p].notice = "pause"]
    /\ UNCHANGED <<superseded, manual, store, sweep, work>>

\* The caller of run() cancels the token it passed in.
CancelToken(p) ==
    /\ "token" \in Faults
    /\ run[p].phase \in {"starting", "pool"}
    /\ ~run[p].token
    /\ run' = [run EXCEPT ![p].token = TRUE]
    /\ UNCHANGED <<superseded, manual, store, sweep, work>>

Resume(b, limits) ==
    /\ batch[b].status \in {"pending", "paused", "failed"}
    /\ job' = [j \in Jobs |->
                 IF j \in batch[b].jobs /\ job[j].status \in {"paused_quota", "failed"}
                 THEN Left(job[j], "pending") ELSE job[j]]
    /\ batch' = [batch EXCEPT ![b] = [Left(@, "pending") EXCEPT !.limits = limits]]
    /\ UNCHANGED <<superseded, manual, attempts, analyses, sweep, run, work>>

\* recover(): an expired batch goes back to pending; its jobs are then visited
\* one transaction each (RecoverJob).
RecoverBatch(b) ==
    /\ batch[b].status \in {"pending", "running", "paused", "failed"}
    /\ batch[b].lease # "live"
    /\ sweep' = sweep \cup batch[b].jobs
    /\ batch' = IF batch[b].status = "running"
                THEN [batch EXCEPT ![b] = Left(@, "pending")] ELSE batch
    /\ UNCHANGED <<superseded, manual, job, attempts, analyses, run, work>>

\* Defect: recovery drops the reservation of an interrupted call.
RecoverJobDropping(j) ==
    LET Stays(row) == row.job # j \/ row.status # "reserved" IN
    /\ j \in sweep /\ job[j].lease # "live"
    /\ sweep' = sweep \ {j}
    /\ job' = [job EXCEPT ![j] = IF @.status = "running" THEN Left(@, "pending") ELSE @]
    /\ attempts' = SelectSeq(attempts, Stays)
    /\ UNCHANGED <<superseded, manual, batch, analyses, run, work>>

RecoverJob(j) ==
    /\ j \in sweep
    /\ sweep' = sweep \ {j}
    /\ IF job[j].lease = "live" THEN UNCHANGED <<job, attempts>>
       ELSE /\ job' = [job EXCEPT ![j] =
                         IF @.status = "running" THEN Left(@, "pending") ELSE @]
            /\ attempts' = [i \in DOMAIN attempts |->
                 IF attempts[i].job = j /\ attempts[i].status = "reserved"
                 THEN [attempts[i] EXCEPT !.status = "uncertain"] ELSE attempts[i]]
    /\ UNCHANGED <<superseded, manual, batch, analyses, run, work>>

-----------------------------------------------------------------------------
(* One run of a batch                                                      *)

\* run(): the slot is taken and the batch read; a token that was cancelled
\* already leads to cancelPersisted instead of the claim.
StartRun(p, b, cancelled) ==
    /\ run[p].phase = "idle"
    /\ cancelled => "token" \in Faults
    /\ batch[b].status \in {"pending", "running", "failed"}
    /\ run' = [run EXCEPT ![p] =
                 [NoRun EXCEPT !.batch = b, !.token = cancelled,
                     !.phase = IF cancelled THEN "cancelling" ELSE "starting"]]
    /\ UNCHANGED <<superseded, manual, store, sweep, work>>

CancelUnclaimed(p) ==
    /\ run[p].phase = "cancelling"
    /\ CancelPersisted(run[p].batch)
    /\ run' = [run EXCEPT ![p] = NoRun]
    /\ UNCHANGED <<superseded, manual, attempts, analyses, sweep, work>>

\* claimBatch: a batch that is not pending and holds no expired lease is
\* refused (or reported) and the run ends.
ClaimBatch(p) ==
    LET b == run[p].batch
        free == \/ batch[b].status = "pending"
                \/ (batch[b].status = "running" /\ batch[b].lease = "lapsed")
    IN
    /\ run[p].phase = "starting"
    /\ IF free
       THEN /\ batch' = [batch EXCEPT ![b].status = "running", ![b].owner = p,
                                      ![b].lease = "live"]
            /\ run' = [run EXCEPT ![p].phase = "pool", ![p].workers = Concurrency,
                                  ![p].todo = batch[b].jobs]
       ELSE run' = [run EXCEPT ![p] = NoRun] /\ UNCHANGED batch
    /\ UNCHANGED <<superseded, manual, job, attempts, analyses, sweep, work>>

Busy(p) == {j \in Jobs : work[p][j].at # "idle"}

\* Defect: the run waits for workers that stopped at the flag.
RunDoneIfDrained(p) == run[p].phase = "pool" /\ Busy(p) = {} /\ run[p].todo = {}

\* The workers have settled and none will take another job.
RunDone(p) ==
    /\ run[p].phase = "pool"
    /\ Busy(p) = {}
    /\ run[p].todo = {} \/ Flagged(p) \/ run[p].workers = 0

\* Defect: a failed job does not count against completion.
FinalStatusIgnoringFailures(b) ==
    LET statuses == {job[j].status : j \in batch[b].jobs} IN
    CASE "paused_quota" \in statuses -> "paused"
      [] statuses \cap {"pending", "running"} # {} /\ "paused_quota" \notin statuses -> "pending"
      [] OTHER -> "completed"

\* A worker that threw makes run() throw without
\* closing the batch; a cancelled token persists the cancellation; otherwise
\* finalizeBatch derives the status from the jobs.
FinalStatus(b) ==
    LET statuses == {job[j].status : j \in batch[b].jobs} IN
    CASE statuses = {"succeeded"} -> "completed"
      [] "paused_quota" \in statuses -> "paused"
      [] statuses \cap {"pending", "running"} # {} /\ "paused_quota" \notin statuses -> "pending"
      [] statuses = {"cancelled"} -> "cancelled"
      [] OTHER -> "failed"

FinalizeBatch(p, b) ==
    batch' = IF OwnsBatch(p, b) THEN [batch EXCEPT ![b] = Left(@, FinalStatus(b))]
             ELSE batch

EndRun(p) ==
    LET b == run[p].batch IN
    /\ RunDone(p)
    /\ CASE run[p].failed -> UNCHANGED <<job, batch>>
         [] ~run[p].failed /\ run[p].token /\ ~run[p].pause -> CancelPersisted(b)
         [] OTHER -> FinalizeBatch(p, b) /\ UNCHANGED job
    /\ run' = [run EXCEPT ![p] = NoRun]
    /\ UNCHANGED <<superseded, manual, attempts, analyses, sweep, work>>

-----------------------------------------------------------------------------
(* A worker on one job: transactions and the model call between them       *)

\* Stages that only write what the worker still knows keep nothing of the call.
Goto(p, j, stage) == work' = [work EXCEPT ![p][j] = [NoWork EXCEPT !.at = stage]]
Done(p, j) == work' = [work EXCEPT ![p][j] = NoWork]

\* callRole checks the token and the pause flag before it reserves.
Dispatch(p, j, role, retries) ==
    IF Flagged(p) THEN Goto(p, j, "release")
    ELSE work' = [work EXCEPT ![p][j].at = "reserve", ![p][j].role = role,
                              ![p][j].retries = retries]

\* Defect: any earlier analysis attempt counts as paid work to reuse.
ReusableIfReserved(b, j) ==
    \E i \in DOMAIN attempts :
       attempts[i].batch = b /\ attempts[i].job = j /\ attempts[i].role = "analysis"

\* A settled analysis pass of this batch and job is not paid for again.
Reusable(b, j) ==
    \E i \in DOMAIN attempts :
       /\ attempts[i].batch = b /\ attempts[i].job = j
       /\ attempts[i].role = "analysis" /\ attempts[i].answered

FirstRole(b, j) ==
    IF Availability[SnapshotOf(j)] = "absent" THEN "reasoning"
    ELSE IF Reusable(b, j) THEN "verification" ELSE "analysis"

\* Defect: a running job is taken over without looking at its lease.
ClaimableAnyLease(p, b, j) ==
    HoldsBatch(p, b) /\ job[j].status \in {"pending", "running"}

Claimable(p, b, j) ==
    /\ HoldsBatch(p, b)
    /\ job[j].status = "pending" \/ (job[j].status = "running" /\ job[j].lease = "lapsed")

ClaimJob(p, j) ==
    LET b == run[p].batch IN
    /\ run[p].phase = "pool" /\ j \in run[p].todo /\ ~Flagged(p)
    /\ Cardinality(Busy(p)) < run[p].workers
    /\ run' = [run EXCEPT ![p].todo = @ \ {j}]
    /\ \/ /\ ~Claimable(p, b, j)
          /\ UNCHANGED <<job, work>>
       \/ /\ Claimable(p, b, j) /\ ~Fresh(b, j)
          /\ job' = [job EXCEPT ![j] = Left(@, "failed")]
          /\ UNCHANGED work
       \/ /\ Claimable(p, b, j) /\ Fresh(b, j)
          /\ job' = [job EXCEPT ![j] = Started(@, p)]
          /\ IF Availability[SnapshotOf(j)] = "unusable" THEN Goto(p, j, "fail")
             ELSE Dispatch(p, j, FirstRole(b, j), MaxRetries)
    /\ UNCHANGED <<superseded, manual, batch, attempts, analyses, sweep>>

\* Defect: off by one at the limit.
BudgetLeftPlusOne(b, k) == batch[b].calls[k] <= batch[b].limits[k]

BudgetLeft(b, k) == batch[b].calls[k] < batch[b].limits[k]

\* Defect: the job counter is not moved by a verification.
CountedOnce(r, role) ==
    IF role = "verification" THEN r ELSE [r EXCEPT !.calls[KindOf(role)] = @ + 1]

\* 'consume_call' within the limit, and the batch counter beside it.
Counted(r, role) == [r EXCEPT !.calls[KindOf(role)] = @ + 1]

\* reserveAttempt: the row, both counters and both leases in one transaction.
Reserve(p, j) ==
    LET b == run[p].batch
        role == work[p][j].role
        k == KindOf(role)
        row == [batch |-> b, job |-> j, role |-> role, status |-> "reserved",
                answered |-> FALSE]
        held == HoldsBatch(p, b) /\ HoldsJob(p, j)
        refused == role \notin SupportedRoles \/ (held /\ ~Fresh(b, j))
        stopped == role \in SupportedRoles /\ ~held
        goes == ~refused /\ ~stopped
    IN
    /\ work[p][j].at = "reserve"
    /\ \/ refused /\ Goto(p, j, "fail") /\ UNCHANGED <<job, batch, attempts>>
       \/ stopped /\ Goto(p, j, "release") /\ UNCHANGED <<job, batch, attempts>>
       \/ /\ goes /\ ~BudgetLeft(b, k)
          /\ Goto(p, j, "quota")
          /\ UNCHANGED <<job, batch, attempts>>
       \/ /\ goes /\ BudgetLeft(b, k) /\ job[j].calls[k] >= JobLimits[k]
          /\ job' = [job EXCEPT ![j] = Left(@, "paused_quota")]
          /\ Goto(p, j, "quota")
          /\ UNCHANGED <<batch, attempts>>
       \/ /\ goes /\ BudgetLeft(b, k) /\ job[j].calls[k] < JobLimits[k]
          /\ attempts' = Append(attempts, row)
          /\ job' = [job EXCEPT ![j] = Counted(@, role)]
          /\ batch' = [batch EXCEPT ![b] = Counted(@, role)]
          /\ work' = [work EXCEPT ![p][j].at = "call", ![p][j].row = Len(attempts) + 1]
    /\ UNCHANGED <<superseded, manual, analyses, sweep, run>>

\* The stop check of callRole, made after the flag was set.
StopBeforeCall(p, j) ==
    /\ work[p][j].at = "reserve" /\ Flagged(p)
    /\ Goto(p, j, "release")
    /\ UNCHANGED <<superseded, manual, store, sweep, run>>

\* What the gateway may answer; `known` says whether it reported the usage.  A
\* thrown call is a rejection of unknown cost.
Answers ==
    [result : {"ok"}, known : {TRUE}]
    \cup [result : {"cancelled", "quota", "retryable", "rejected"}, known : BOOLEAN]

\* Defect: a retryable failure of unknown cost is retried.
MayRetryBlindly(w, answer) == answer.result = "retryable" /\ w.retries > 0

MayRetry(w, answer) ==
    answer.result = "retryable" /\ answer.known /\ w.retries > 0

\* Defect: a cancelled call of unknown cost is left reserved.
BookedUnlessCancelled(row, answer) ==
    IF answer = [result |-> "cancelled", known |-> FALSE] THEN row
    ELSE [row EXCEPT !.status = IF answer.known THEN "settled" ELSE "uncertain",
                     !.answered = answer.result = "ok"]

Booked(row, answer) ==
    [row EXCEPT !.status = IF answer.known THEN "settled" ELSE "uncertain",
                !.answered = answer.result = "ok"]

\* settleAttempt / markUncertain, then the decisions of callRole.
Settle(p, j, answer, omissions) ==
    LET w == work[p][j]
        ok == answer.result = "ok"
    IN
    /\ w.at = "call"
    /\ attempts' = [attempts EXCEPT ![w.row] = Booked(@, answer)]
    /\ CASE ok /\ w.role = "analysis" -> Dispatch(p, j, "verification", MaxRetries)
         [] ok /\ w.role # "analysis" ->
              work' = [work EXCEPT ![p][j].at = "commit",
                         ![p][j].checked = omissions /\ w.role = "verification"]
         [] answer.result = "cancelled" -> Goto(p, j, "release")
         [] answer.result = "quota" -> Goto(p, j, "quota")
         [] MayRetry(w, answer) ->
              work' = [work EXCEPT ![p][j].at = "retry"]
         [] answer.result \in {"rejected", "retryable"} /\ ~MayRetry(w, answer) ->
              Goto(p, j, "fail")
    /\ UNCHANGED <<superseded, manual, job, batch, analyses, sweep, run>>

\* registerRetry: planned, exhausted or lost.  Neither lease is required to be
\* live: the owner may renew an expired one nobody took over.
RegisterRetry(p, j) ==
    LET b == run[p].batch
        owned == OwnsBatch(p, b) /\ OwnsJob(p, j)
    IN
    /\ work[p][j].at = "retry"
    /\ \/ ~owned /\ Goto(p, j, "release") /\ UNCHANGED <<job, batch>>
       \/ /\ owned /\ job[j].starts >= MaxAttempts
          /\ job' = [job EXCEPT ![j] = Left(@, "failed")]
          /\ Goto(p, j, "fail")
          /\ UNCHANGED batch
       \/ /\ owned /\ job[j].starts < MaxAttempts
          /\ job' = [job EXCEPT ![j] = Started(@, p)]
          /\ batch' = [batch EXCEPT ![b].retries = @ + 1, ![b].lease = "live"]
          /\ Dispatch(p, j, work[p][j].role, work[p][j].retries - 1)
    /\ UNCHANGED <<superseded, manual, attempts, analyses, sweep, run>>

PauseForQuota(p, j) ==
    LET b == run[p].batch IN
    /\ work[p][j].at = "quota"
    /\ IF OwnsBatch(p, b)
       THEN /\ job' = IF JobOver(job[j]) THEN job
                      ELSE [job EXCEPT ![j] = Left(@, "paused_quota")]
            /\ batch' = [batch EXCEPT ![b] = Left(@, "paused")]
       ELSE UNCHANGED <<job, batch>>
    /\ Done(p, j)
    /\ UNCHANGED <<superseded, manual, attempts, analyses, sweep, run>>

ReleaseJob(p, j) ==
    /\ work[p][j].at = "release"
    /\ job' = IF OwnsJob(p, j) THEN [job EXCEPT ![j] = Left(@, "pending")] ELSE job
    /\ Done(p, j)
    /\ UNCHANGED <<superseded, manual, batch, attempts, analyses, sweep, run>>

FailJob(p, j) ==
    /\ work[p][j].at = "fail"
    /\ job' = IF JobOver(job[j]) \/ (job[j].status = "running" /\ job[j].owner # p)
              THEN job ELSE [job EXCEPT ![j] = Left(@, "failed")]
    /\ Done(p, j)
    /\ UNCHANGED <<superseded, manual, batch, attempts, analyses, sweep, run>>

\* commitAdoption and, when it refuses, the stage handleAbort leads to.
CommitAdoption(p, j) ==
    LET b == run[p].batch
        held == HoldsBatch(p, b) /\ HoldsJob(p, j)
        over == batch[b].status = "cancelled"
                \/ (HoldsBatch(p, b) /\ job[j].status = "cancelled")
    IN
    /\ work[p][j].at = "commit"
    /\ \/ run[p].pause /\ Goto(p, j, "release") /\ UNCHANGED <<job, analyses>>
       \/ run[p].token /\ ~run[p].pause /\ Goto(p, j, "cancel") /\ UNCHANGED <<job, analyses>>
       \/ ~Flagged(p) /\ over /\ Done(p, j) /\ UNCHANGED <<job, analyses>>
       \/ /\ ~Flagged(p) /\ ~over /\ ~held
          /\ Goto(p, j, "release")
          /\ UNCHANGED <<job, analyses>>
       \/ /\ ~Flagged(p) /\ held /\ ~Fresh(b, j)
          /\ Goto(p, j, "fail")
          /\ UNCHANGED <<job, analyses>>
       \/ /\ ~Flagged(p) /\ held /\ Fresh(b, j)
          /\ analyses' = analyses \cup
               {[job |-> j, batch |-> b, checked |-> work[p][j].checked]}
          /\ job' = [job EXCEPT ![j] = Left(@, "succeeded")]
          /\ Done(p, j)
    /\ UNCHANGED <<superseded, manual, batch, attempts, sweep, run>>

\* handleAbort('cancelled'): the caller's token ended the run during the commit.
CancelInCommit(p, j) ==
    /\ work[p][j].at = "cancel"
    /\ CancelPersisted(run[p].batch)
    /\ Done(p, j)
    /\ UNCHANGED <<superseded, manual, attempts, analyses, sweep, run>>

\* A transaction of the worker fails in the store: it is rolled back and the
\* error leaves the worker, which takes no further job.
StoreFailure(p, j) ==
    /\ "store" \in Faults
    /\ work[p][j].at # "idle"
    /\ Done(p, j)
    /\ run' = [run EXCEPT ![p].failed = TRUE, ![p].workers = @ - 1]
    /\ UNCHANGED <<superseded, manual, store, sweep>>

-----------------------------------------------------------------------------
(* The environment                                                         *)

\* The process of a pipeline dies: its memory is gone, the store stays.
Crash(p) ==
    /\ "crash" \in Faults
    /\ run[p].phase # "idle"
    /\ run' = [run EXCEPT ![p] = NoRun]
    /\ work' = [work EXCEPT ![p] = [j \in Jobs |-> NoWork]]
    /\ UNCHANGED <<superseded, manual, store, sweep>>

\* With LeaseOutlivesCall a lease does not lapse while its owner waits for the
\* model: the constructor requires leaseMs > requestTimeoutMs and reserving
\* renews both leases.
LapseBatch(b) ==
    /\ batch[b].lease = "live"
    /\ LeaseOutlivesCall =>
         \A p \in Pipelines, j \in Jobs :
            (batch[b].owner = p /\ run[p].batch = b) => ~InCall(p, j)
    /\ batch' = [batch EXCEPT ![b].lease = "lapsed"]
    /\ UNCHANGED <<superseded, manual, job, attempts, analyses, sweep, run, work>>

LapseJob(j) ==
    /\ job[j].lease = "live"
    /\ LeaseOutlivesCall => \A p \in Pipelines : job[j].owner = p => ~InCall(p, j)
    /\ job' = [job EXCEPT ![j].lease = "lapsed"]
    /\ UNCHANGED <<superseded, manual, batch, attempts, analyses, sweep, run, work>>

Supersede(s) ==
    /\ s \notin superseded
    /\ superseded' = superseded \cup {s}
    /\ UNCHANGED <<manual, store, sweep, run, work>>

DecideManually(s) ==
    /\ s \notin superseded /\ manual[s] < MaxManualRevision
    /\ manual' = [manual EXCEPT ![s] = @ + 1]
    /\ UNCHANGED <<superseded, store, sweep, run, work>>

-----------------------------------------------------------------------------
Worker(p, j) ==
    \/ ClaimJob(p, j) \/ Reserve(p, j) \/ StopBeforeCall(p, j)
    \/ \E answer \in Answers, omissions \in BOOLEAN : Settle(p, j, answer, omissions)
    \/ RegisterRetry(p, j) \/ PauseForQuota(p, j) \/ ReleaseJob(p, j)
    \/ FailJob(p, j) \/ CommitAdoption(p, j) \/ CancelInCommit(p, j)

RunStep(p) == CancelUnclaimed(p) \/ ClaimBatch(p) \/ EndRun(p)

Control ==
    \/ \E b \in BatchIds, chosen \in SUBSET Snapshots, reanalyze \in BOOLEAN,
          limits \in LimitChoices : PrepareBatch(b, chosen, reanalyze, limits)
    \/ \E p \in Pipelines, b \in BatchIds : Pause(p, b)
    \/ \E p \in Pipelines, b \in BatchIds : Cancel(p, b)
    \/ \E b \in BatchIds, limits \in LimitChoices : Resume(b, limits)
    \/ \E b \in BatchIds : RecoverBatch(b)
    \/ \E j \in Jobs : RecoverJob(j)
    \/ \E p \in Pipelines, b \in BatchIds, cancelled \in BOOLEAN :
          StartRun(p, b, cancelled)
    \/ \E p \in Pipelines : DeliverNotice(p) \/ CancelToken(p)

Environment ==
    \/ \E p \in Pipelines : Crash(p)
    \/ \E p \in Pipelines, j \in Jobs : StoreFailure(p, j)
    \/ \E b \in BatchIds : LapseBatch(b)
    \/ \E j \in Jobs : LapseJob(j)
    \/ \E s \in Moving : Supersede(s) \/ DecideManually(s)

Next ==
    \/ \E p \in Pipelines : RunStep(p)
    \/ \E p \in Pipelines, j \in Jobs : Worker(p, j)
    \/ Control
    \/ Environment

Spec == Init /\ [][Next]_vars

-----------------------------------------------------------------------------
(* Properties                                                              *)

JobRecord ==
    [status : JobStatuses, owner : Pipelines \cup {None}, lease : Leases,
     starts : Nat, calls : [Kinds -> Nat]]
BatchRecord ==
    [status : BatchStatuses, owner : Pipelines \cup {None}, lease : Leases,
     jobs : SUBSET Jobs, captured : [Jobs -> Nat],
     limits : [Kinds -> Nat], calls : [Kinds -> Nat], retries : Nat]
AttemptRecord ==
    [batch : BatchIds, job : Jobs, role : Roles,
     status : {"reserved", "uncertain", "settled"}, answered : BOOLEAN]
ResultRecord == [job : Jobs, batch : BatchIds, checked : BOOLEAN]
RunRecord ==
    [phase : {"idle", "starting", "cancelling", "pool"}, batch : BatchIds \cup {None},
     todo : SUBSET Jobs, workers : Int, failed : BOOLEAN, token : BOOLEAN,
     pause : BOOLEAN, notice : {"none", "pause", "cancel"}]
WorkRecord ==
    [at : {"idle", "reserve", "call", "retry", "quota", "release", "fail", "commit",
           "cancel"},
     role : Roles, row : Nat, retries : Nat, checked : BOOLEAN]

\* validateBatchLease: a running record holds a lease and an owner, no other does.
LeaseShape(r) ==
    /\ (r.status = "running") <=> (r.owner # None)
    /\ (r.status = "running") <=> (r.lease # "none")

\* Type invariant of the store rows and of the runs over them
\* (validateAnalysisBatch, validateModelCallAttempt, validateBatchLease).
TypeOK ==
    /\ superseded \subseteq Snapshots
    /\ manual \in [Snapshots -> Nat]
    /\ job \in [Jobs -> JobRecord]
    /\ batch \in [BatchIds -> BatchRecord]
    /\ \A j \in Jobs : LeaseShape(job[j])
    /\ \A b \in BatchIds : LeaseShape(batch[b])
    /\ attempts \in Seq(AttemptRecord)
    /\ analyses \subseteq ResultRecord
    /\ sweep \subseteq Jobs
    /\ run \in [Pipelines -> RunRecord]
    /\ work \in [Pipelines -> [Jobs -> WorkRecord]]

\* The counters of every batch and every job are exactly the attempts reserved
\* on their account: no call is dispatched uncounted, none is refunded by a
\* crash, a retry, a recovery or a resume (reserveAttempt; "counters are never
\* refunded").
AccountingExact ==
    /\ \A b \in BatchIds, k \in Kinds : batch[b].calls[k] = Cardinality(RowsOf(b, k))
    /\ \A j \in Jobs, k \in Kinds : job[j].calls[k] = Cardinality(JobRowsOf(j, k))

\* A retry is only ever spent on a failure whose cost is on the books: a batch
\* counts no more retries than it has settled failures, whatever recovery does
\* to the rows meanwhile (callRole, registerRetry).
RetriesBacked ==
    \A b \in BatchIds :
       batch[b].retries <= Cardinality({i \in DOMAIN attempts :
          attempts[i].batch = b /\ attempts[i].status = "settled" /\ ~attempts[i].answered})

\* A worker spends again or adopts only once the cost of its latest call is
\* known; a call of unknown cost ends its work on the job (callRole).
KnownCostFirst ==
    \A p \in Pipelines, j \in Jobs :
       (work[p][j].row # 0 /\ work[p][j].at \in {"reserve", "retry", "commit"}) =>
          attempts[work[p][j].row].status = "settled"

\* Whatever was interrupted, resumed or reused on the way, an adopted result
\* rests on settled calls of its own batch and job: a verification of an earlier
\* analysis pass, or a reasoning pass (runAnalysisJob, reusableAnalyzeOutcome).
Answered(a, i, role) ==
    /\ attempts[i].batch = a.batch /\ attempts[i].job = a.job
    /\ attempts[i].role = role
    /\ attempts[i].status = "settled" /\ attempts[i].answered

AdoptionPaid ==
    \A a \in analyses :
       \/ \E i \in DOMAIN attempts : Answered(a, i, "reasoning")
       \/ \E i, k \in DOMAIN attempts :
             i < k /\ Answered(a, i, "analysis") /\ Answered(a, k, "verification")

\* Adoption is all or nothing and happens once: a job has one adopted result
\* exactly when it is succeeded (commitAdoption).
AdoptedIffSucceeded ==
    \A j \in Jobs :
       Cardinality({a \in analyses : a.job = j}) =
          IF job[j].status = "succeeded" THEN 1 ELSE 0

\* A batch reported completed has an adopted result for every job, also when
\* recovery, a cancellation or another batch touched its jobs meanwhile
\* (finalizeBatch).
CompletedMeansAdopted ==
    \A b \in BatchIds : batch[b].status = "completed" =>
       \A j \in batch[b].jobs : \E a \in analyses : a.job = j

\* The model is never asked twice at the same time about one job, whichever
\* pipelines run, take over, pause or resume its batch (claimBatch, job lease).
OneCallInFlight ==
    \A j \in Jobs, p, q \in Pipelines : InCall(p, j) /\ InCall(q, j) => p = q

\* Once a pause, a cancellation or the end of a batch is durable, no call is
\* reserved and no result adopted on its account, however late the run that
\* was interrupted hears of it (pause, cancel, commitAdoption).
StoppedBatchSpendsNothing ==
    [][\A b \in BatchIds : batch[b].status # "running" =>
         /\ \A k \in Kinds : RowsOf(b, k)' = RowsOf(b, k)
         /\ \A a \in analyses' \ analyses : a.batch # b]_vars

\* The pipeline implements its ledger: through every pause, crash, takeover,
\* retry and resume the attempt rows of a batch only grow, only while the batch
\* is running and only up to the limit in force; every job is adopted at most
\* once; a finished batch never runs again.
Ledger == INSTANCE AnalysisLedger WITH
    Batches <- BatchIds, Jobs <- Jobs, Kinds <- Kinds, Budgets <- LimitChoices,
    granted <- [b \in BatchIds |-> batch[b].limits],
    spent <- [b \in BatchIds |-> [k \in Kinds |-> Cardinality(RowsOf(b, k))]],
    open <- {b \in BatchIds : batch[b].status = "running"},
    adopted <- {a.job : a \in analyses},
    finished <- {b \in BatchIds : BatchOver(batch[b])}

ImplementsLedger == Ledger!Spec

\* Nothing is paid for and nothing is adopted for material or manual decisions
\* that moved after the batch was prepared (reserveAttempt, commitAdoption).
FreshOnly ==
    [][\A r \in (analyses' \ analyses)
            \cup {attempts'[i] : i \in DOMAIN attempts' \ DOMAIN attempts} :
          /\ SnapshotOf(r.job) \notin superseded
          /\ manual[SnapshotOf(r.job)] = batch[r.batch].captured[r.job]]_vars

\* Finished history is immutable: a succeeded or cancelled job, a completed or
\* cancelled batch, a settled attempt and an adopted result never change again,
\* whichever late worker, pause, recovery or second batch refers to them.
HistoryKept ==
    [][/\ \A j \in Jobs : job[j].status \in {"succeeded", "cancelled"} => job'[j] = job[j]
       /\ \A b \in BatchIds : batch[b].status \in {"completed", "cancelled"} => batch'[b] = batch[b]
       /\ \A i \in DOMAIN attempts :
             attempts[i].status = "settled" => attempts'[i] = attempts[i]
       /\ analyses \subseteq analyses']_vars

\* prepareBatch: "Ownership is decided per snapshot ... matching on the id alone
\* would let two concurrent runs race to adoption": no two active batches
\* schedule the same snapshot.
OneActiveBatchPerSnapshot ==
    \A b, c \in BatchIds : \A i \in batch[b].jobs, k \in batch[c].jobs :
       (Active(b) /\ Active(c) /\ SnapshotOf(i) = SnapshotOf(k)) => b = c

\* A paused batch that nobody runs any more holds no running job: the pause
\* returns the interrupted job to pending, a quota stop persists paused_quota.
PausedHoldsNoJob ==
    \A b \in BatchIds :
       (batch[b].status = "paused" /\ \A p \in Pipelines : run[p].batch # b) =>
          \A j \in batch[b].jobs : job[j].status # "running"

-----------------------------------------------------------------------------
(* Liveness                                                                *)

\* Workers and run steps are continuations of settled promises; the gateway
\* answers within requestTimeoutMs.  Nothing is assumed of users or failures.
FairSpec ==
    /\ Spec
    /\ \A p \in Pipelines :
         /\ WF_vars(RunStep(p))
         /\ \A j \in Jobs : WF_vars(Worker(p, j))

\* A run always comes to its end: every worker leaves its job, through every
\* retry, refusal and lost ownership, and the slot of activeRuns is freed.
RunTerminates == \A p \in Pipelines : run[p].phase # "idle" ~> run[p].phase = "idle"

\* Every dispatched call ends on the books as settled or uncertain, also when
\* its run is paused, cancelled or loses its lease meanwhile (no crash, no
\* store failure).
OpenCalls == {i \in DOMAIN attempts : attempts[i].status = "reserved"}
EveryCallBooked == OpenCalls # {} ~> OpenCalls = {}

\* Every retry and every adopted result is paid for by settled calls: no budget is spent
\* again on a call of unknown cost.
PaidWork == RetriesBacked /\ KnownCostFirst /\ AdoptionPaid

\* A job that succeeded and a batch that completed have their results, in full.
ResultsBacked == AdoptedIffSucceeded /\ CompletedMeansAdopted

\* Under the fairness of the workers a run ends and every call it made is booked.
RunsSettle == RunTerminates /\ EveryCallBooked

=============================================================================
