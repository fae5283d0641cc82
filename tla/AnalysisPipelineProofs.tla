----------------------- MODULE AnalysisPipelineProofs -----------------------
(***************************************************************************)
(* Theorems about AnalysisPipeline for every number of pipelines, batches, *)
(* snapshots, jobs and calls, with proofs for TLAPS.                       *)
(***************************************************************************)
EXTENDS AnalysisPipeline, TLAPS, FiniteSetTheorems, SequenceTheorems

-----------------------------------------------------------------------------
(* What the record operators return                                        *)

\* A job or batch row that is well formed.
JobOK(r) == r \in JobRecord /\ LeaseShape(r)
BatchOK(r) == r \in BatchRecord /\ LeaseShape(r)

\* Leaving `running` yields a well formed job and keeps its counters.
LEMMA LeftJob ==
    ASSUME NEW r \in JobRecord, NEW s \in JobStatuses \ {"running"}
    PROVE  JobOK(Left(r, s)) /\ Left(r, s).calls = r.calls /\ Left(r, s).status = s
BY DEF JobOK, JobRecord, LeaseShape, Left, Leases

\* Leaving `running` yields a well formed batch and keeps everything it counts.
LEMMA LeftBatch ==
    ASSUME NEW r \in BatchRecord, NEW s \in BatchStatuses \ {"running"}
    PROVE  /\ BatchOK(Left(r, s))
           /\ Left(r, s).calls = r.calls /\ Left(r, s).limits = r.limits
           /\ Left(r, s).jobs = r.jobs /\ Left(r, s).status = s
BY DEF BatchOK, BatchRecord, LeaseShape, Left, Leases

\* Starting a job, or starting it again, keeps its call counters.
LEMMA StartedJob ==
    ASSUME NEW r \in JobRecord, NEW p \in Pipelines
    PROVE  JobOK(Started(r, p)) /\ Started(r, p).calls = r.calls
           /\ Started(r, p).status = "running"
<1>1. p # None
  BY NoneAssumption
<1>2. (IF r.starts < MaxAttempts THEN r.starts + 1 ELSE r.starts) \in Nat
  BY BoundsAssumption DEF JobRecord
<1> QED
  BY <1>1, <1>2 DEF JobOK, JobRecord, LeaseShape, Started, Leases, JobStatuses

\* Counting a call touches nothing but the counter.
LEMMA CountedJob ==
    ASSUME NEW r, JobOK(r), NEW role \in Roles
    PROVE  JobOK(Counted(r, role)) /\ Counted(r, role).status = r.status
BY DEF JobOK, JobRecord, LeaseShape, Counted, KindOf, Kinds

\* A batch counted once more in a role is still a batch, in the same status.
LEMMA CountedBatch ==
    ASSUME NEW r, BatchOK(r), NEW role \in Roles
    PROVE  BatchOK(Counted(r, role)) /\ Counted(r, role).status = r.status
BY DEF BatchOK, BatchRecord, LeaseShape, Counted, KindOf, Kinds

\* Booking an answer changes neither the account nor the role of the row.
LEMMA BookedRow ==
    ASSUME NEW r \in AttemptRecord, NEW answer \in Answers
    PROVE  /\ Booked(r, answer) \in AttemptRecord
           /\ Booked(r, answer).batch = r.batch /\ Booked(r, answer).job = r.job
           /\ Booked(r, answer).role = r.role
BY DEF AttemptRecord, Booked, Answers

-----------------------------------------------------------------------------
(* The inductive invariant                                                 *)

JobsOK == job \in [Jobs -> JobRecord] /\ \A j \in Jobs : LeaseShape(job[j])
BatchesOK == batch \in [BatchIds -> BatchRecord] /\ \A b \in BatchIds : LeaseShape(batch[b])
EnvOK ==
    /\ superseded \subseteq Snapshots
    /\ manual \in [Snapshots -> Nat]
    /\ analyses \subseteq ResultRecord
    /\ sweep \subseteq Jobs
AttemptsOK == attempts \in Seq(AttemptRecord)
RunsOK == run \in [Pipelines -> RunRecord]
WorkOK == work \in [Pipelines -> [Jobs -> WorkRecord]]

\* What holds of the memory of every run: a run names its batch, a worker
\* belongs to a pool, and a retry is only registered while one is left.
RunShape ==
    /\ \A p \in Pipelines : run[p].phase # "idle" => run[p].batch \in BatchIds
    /\ \A p \in Pipelines, j \in Jobs :
          /\ work[p][j].at # "idle" => run[p].phase = "pool"
          /\ work[p][j].at = "retry" => work[p][j].retries > 0

\* A row that does not exist yet has counted nothing.
AbsentIsBlank ==
    /\ \A j \in Jobs : job[j].status = "absent" => job[j].calls = NoCalls
    /\ \A b \in BatchIds : batch[b].status = "absent" => batch[b].calls = NoCalls

Shape == TypeOK /\ RunShape /\ AbsentIsBlank

\* What every step but a reservation leaves alone: the counters, and the
\* account and role of every row.
JobCallsKept == \A j \in Jobs :
    /\ job'[j].calls = job[j].calls
    /\ job'[j].status = "absent" => job[j].status = "absent"
BatchCallsKept == \A b \in BatchIds :
    /\ batch'[b].calls = batch[b].calls
    /\ batch'[b].status = "absent" => batch[b].status = "absent"
RowsKept ==
    /\ DOMAIN attempts' = DOMAIN attempts
    /\ \A i \in DOMAIN attempts :
          /\ attempts'[i].batch = attempts[i].batch
          /\ attempts'[i].job = attempts[i].job
          /\ attempts'[i].role = attempts[i].role
BooksKept == JobCallsKept /\ BatchCallsKept /\ RowsKept

\* The type invariant is its parts, before and after a step.
LEMMA TypeParts ==
    /\ TypeOK <=> (JobsOK /\ BatchesOK /\ EnvOK /\ AttemptsOK /\ RunsOK /\ WorkOK)
    /\ TypeOK' <=> (JobsOK' /\ BatchesOK' /\ EnvOK' /\ AttemptsOK' /\ RunsOK' /\ WorkOK')
BY DEF TypeOK, JobsOK, BatchesOK, EnvOK, AttemptsOK, RunsOK, WorkOK

\* Parts a step does not mention are preserved.
LEMMA SameStore ==
    ASSUME Shape
    PROVE  /\ UNCHANGED job => JobsOK' /\ JobCallsKept
           /\ UNCHANGED batch => BatchesOK' /\ BatchCallsKept
           /\ UNCHANGED attempts => AttemptsOK' /\ RowsKept
           /\ UNCHANGED <<superseded, manual, analyses, sweep>> => EnvOK'
           /\ UNCHANGED run => RunsOK'
           /\ UNCHANGED work => WorkOK'
           /\ UNCHANGED <<run, work>> => RunShape'
BY TypeParts DEF Shape, JobsOK, BatchesOK, AttemptsOK, EnvOK, RunsOK, WorkOK, RunShape,
   JobCallsKept, BatchCallsKept, RowsKept

\* A step on one job, or on one batch, that keeps its counters.
LEMMA OneJob ==
    ASSUME Shape, NEW j \in Jobs, NEW r, JobOK(r), r.calls = job[j].calls,
           r.status # "absent", job' = [job EXCEPT ![j] = r]
    PROVE  JobsOK' /\ JobCallsKept
BY TypeParts DEF Shape, JobsOK, JobOK, JobCallsKept

\* A write of one batch that leaves its calls keeps the types and the call counts.
LEMMA OneBatch ==
    ASSUME Shape, NEW b \in BatchIds, NEW r, BatchOK(r), r.calls = batch[b].calls,
           r.status # "absent", batch' = [batch EXCEPT ![b] = r]
    PROVE  BatchesOK' /\ BatchCallsKept
BY TypeParts DEF Shape, BatchesOK, BatchOK, BatchCallsKept

\* The run of p may change its signals, its queue and its workers.
RunKept(p) == \E r \in RunRecord :
    /\ run' = [run EXCEPT ![p] = r]
    /\ r.phase = run[p].phase /\ r.batch = run[p].batch

\* Runs that rest are kept.
LEMMA RunUnchanged ==
    ASSUME Shape, NEW p \in Pipelines, UNCHANGED run
    PROVE  RunKept(p)
<1>1. run[p] \in RunRecord /\ run = [run EXCEPT ![p] = run[p]]
  BY TypeParts DEF Shape, RunsOK
<1> QED  BY <1>1 DEF RunKept

\* A worker that moves on stays well formed, whatever stage it goes to.
LEMMA WorkStep ==
    ASSUME Shape, NEW p \in Pipelines, NEW j \in Jobs, NEW w \in WorkRecord,
           RunKept(p), run[p].phase = "pool",
           work' = [work EXCEPT ![p][j] = w],
           w.at = "retry" => w.retries > 0
    PROVE  WorkOK' /\ RunsOK' /\ RunShape'
<1>1. PICK r \in RunRecord :
         run' = [run EXCEPT ![p] = r] /\ r.phase = run[p].phase /\ r.batch = run[p].batch
  BY DEF RunKept
<1>2. RunsOK' /\ WorkOK'
  BY <1>1, TypeParts DEF Shape, WorkOK, RunsOK
<1>3. RunShape'
  BY <1>1, TypeParts DEF Shape, WorkOK, RunsOK, RunShape
<1> QED  BY <1>2, <1>3

\* A worker that leaves its call keeps the shape of the runs and of the work.
LEMMA GotoStep ==
    ASSUME Shape, NEW p \in Pipelines, NEW j \in Jobs,
           RunKept(p), run[p].phase = "pool",
           \/ Done(p, j)
           \/ \E stage \in {"quota", "release", "fail", "cancel"} : Goto(p, j, stage)
    PROVE  WorkOK' /\ RunsOK' /\ RunShape'
<1>1. CASE Done(p, j)
  <2>1. NoWork \in WorkRecord /\ NoWork.at = "idle"
    BY DEF NoWork, WorkRecord, Roles
  <2> QED  BY <1>1, <2>1, WorkStep DEF Done
<1>2. ASSUME NEW stage \in {"quota", "release", "fail", "cancel"}, Goto(p, j, stage)
      PROVE  WorkOK' /\ RunsOK' /\ RunShape'
  <2> DEFINE w == [NoWork EXCEPT !.at = stage]
  <2>1. w \in WorkRecord /\ w.at = stage
    BY DEF NoWork, WorkRecord, Roles
  <2>2. work' = [work EXCEPT ![p][j] = w]
    BY <1>2 DEF Goto
  <2> QED  BY <2>1, <2>2, WorkStep
<1> QED  BY <1>1, <1>2

\* So does one that goes on to a role.
LEMMA DispatchStep ==
    ASSUME Shape, NEW p \in Pipelines, NEW j \in Jobs, NEW role \in Roles,
           NEW retries \in Nat, RunKept(p), run[p].phase = "pool",
           Dispatch(p, j, role, retries)
    PROVE  WorkOK' /\ RunsOK' /\ RunShape'
<1>1. CASE Flagged(p)
  BY <1>1, GotoStep DEF Dispatch
<1>2. CASE ~Flagged(p)
  <2> DEFINE w == [work[p][j] EXCEPT !.at = "reserve", !.role = role, !.retries = retries]
  <2>1. work \in [Pipelines -> [Jobs -> WorkRecord]]
    BY TypeParts DEF Shape, WorkOK
  <2>2. work' = [work EXCEPT ![p][j].at = "reserve", ![p][j].role = role,
                             ![p][j].retries = retries]
    BY <1>2 DEF Dispatch
  <2>3. work' = [work EXCEPT ![p][j] = w]
    BY <2>1, <2>2
  <2>4. work[p][j] \in WorkRecord
    BY <2>1
  <2>5. w \in WorkRecord /\ w.at = "reserve"
    BY <2>4 DEF WorkRecord
  <2> HIDE DEF w
  <2> QED  BY <2>3, <2>5, WorkStep
<1> QED  BY <1>1, <1>2

\* The parts put together again.
LEMMA Rejoin ==
    ASSUME Shape, JobsOK', BatchesOK', EnvOK', AttemptsOK', RunsOK', WorkOK', RunShape',
           BooksKept
    PROVE  Shape'
<1>1. TypeOK'
  BY TypeParts
<1>2. AbsentIsBlank'
  BY DEF Shape, AbsentIsBlank, BooksKept, JobCallsKept, BatchCallsKept
<1> QED  BY <1>1, <1>2 DEF Shape

-----------------------------------------------------------------------------
(* Steps of the control operations                                         *)

\* Each action below keeps the shape; all but Reserve leave the books of the calls alone.
LEMMA PrepareBatchStep ==
    ASSUME Shape, NEW b \in BatchIds, NEW chosen \in SUBSET Snapshots,
           NEW reanalyze \in BOOLEAN, NEW limits \in LimitChoices,
           PrepareBatch(b, chosen, reanalyze, limits)
    PROVE  Shape' /\ BooksKept
<1> DEFINE left == {s \in chosen : reanalyze \/ ~CurrentlyChecked(s)}
<1>1. PICK pick \in [left -> Jobs] :
         LET scheduled == {pick[s] : s \in left} IN
         /\ job' = [j \in Jobs |->
                      IF j \notin scheduled THEN job[j]
                      ELSE IF job[j].status = "absent"
                           THEN [AbsentJob EXCEPT !.status = "pending"]
                           ELSE Requeued(job[j])]
         /\ batch' = [batch EXCEPT ![b] =
                        [AbsentBatch EXCEPT
                           !.status = "pending", !.jobs = scheduled, !.limits = limits,
                           !.captured = [j \in Jobs |->
                              IF j \in scheduled THEN manual[SnapshotOf(j)] ELSE 0]]]
  BY DEF PrepareBatch
<1> DEFINE scheduled == {pick[s] : s \in left}
           captured == [j \in Jobs |-> IF j \in scheduled THEN manual[SnapshotOf(j)] ELSE 0]
           fresh == [AbsentBatch EXCEPT !.status = "pending", !.jobs = scheduled,
                       !.limits = limits, !.captured = captured]
<1>2. JobsOK' /\ JobCallsKept
  <2> SUFFICES ASSUME NEW j \in Jobs
               PROVE  /\ JobOK(job'[j]) /\ job'[j].calls = job[j].calls
                      /\ job'[j].status = "absent" => job[j].status = "absent"
    BY <1>1 DEF JobsOK, JobOK, JobCallsKept
  <2>1. JobOK(job[j])
    BY TypeParts DEF Shape, JobsOK, JobOK
  <2>2. CASE j \notin scheduled
    BY <1>1, <2>1, <2>2
  <2>3. CASE j \in scheduled /\ job[j].status = "absent"
    <3>1. job'[j] = [AbsentJob EXCEPT !.status = "pending"]
      BY <1>1, <2>3
    <3>2. job[j].calls = NoCalls
      BY <2>3 DEF Shape, AbsentIsBlank
    <3>3. JobOK([AbsentJob EXCEPT !.status = "pending"])
      BY DEF AbsentJob, JobOK, JobRecord, LeaseShape, JobStatuses, Leases, NoCalls
    <3> QED  BY <3>1, <3>2, <3>3 DEF AbsentJob
  <2>4. CASE j \in scheduled /\ job[j].status # "absent"
    <3>1. job'[j] = Requeued(job[j])
      BY <1>1, <2>4
    <3>2. job[j] \in JobRecord /\ "pending" \in JobStatuses \ {"running"}
      BY <2>1 DEF JobOK, JobStatuses
    <3> QED  BY <2>1, <2>4, <3>1, <3>2, LeftJob DEF Requeued
  <2> QED  BY <2>2, <2>3, <2>4
<1>3. BatchesOK' /\ BatchCallsKept
  <2>1. scheduled \subseteq Jobs /\ captured \in [Jobs -> Nat]
    BY TypeParts DEF Shape, EnvOK, SnapshotOf, Jobs
  <2>2. limits \in [Kinds -> Nat]
    BY LimitsAssumption
  <2>3. BatchOK(fresh) /\ fresh.calls = NoCalls /\ fresh.status = "pending"
    BY <2>1, <2>2
    DEF AbsentBatch, BatchOK, BatchRecord, LeaseShape, BatchStatuses, Leases, NoCalls
  <2>4. batch[b].calls = NoCalls
    BY DEF PrepareBatch, Shape, AbsentIsBlank
  <2> QED  BY <1>1, <2>3, <2>4, OneBatch
<1>4. UNCHANGED <<superseded, manual, attempts, analyses, sweep, run, work>>
  BY DEF PrepareBatch
<1> QED  BY <1>2, <1>3, <1>4, SameStore, Rejoin DEF BooksKept

\* cancelPersisted keeps both tables well formed.
LEMMA CancelPersistedStep ==
    ASSUME Shape, NEW b \in BatchIds, CancelPersisted(b)
    PROVE  JobsOK' /\ JobCallsKept /\ BatchesOK' /\ BatchCallsKept
<1>1. CASE BatchOver(batch[b])
  BY <1>1, SameStore DEF CancelPersisted
<1>2. CASE ~BatchOver(batch[b])
  <2>1. "cancelled" \in JobStatuses \ {"running"} /\ "cancelled" \in BatchStatuses \ {"running"}
    BY DEF JobStatuses, BatchStatuses
  <2>2. ASSUME NEW j \in Jobs
        PROVE  /\ JobOK(job'[j]) /\ job'[j].calls = job[j].calls
               /\ job'[j].status = "absent" => job[j].status = "absent"
    <3>1. job'[j] = job[j] \/ job'[j] = Left(job[j], "cancelled")
      BY <1>2 DEF CancelPersisted
    <3>2. JobOK(job[j])
      BY TypeParts DEF Shape, JobsOK, JobOK
    <3> QED  BY <2>1, <3>1, <3>2, LeftJob DEF JobOK
  <2>3. JobsOK' /\ JobCallsKept
    BY <1>2, <2>2 DEF JobsOK, JobOK, JobCallsKept, CancelPersisted
  <2>4. batch[b] \in BatchRecord
    BY TypeParts DEF Shape, BatchesOK
  <2>5. batch' = [batch EXCEPT ![b] = Left(batch[b], "cancelled")]
    BY <1>2 DEF CancelPersisted
  <2>6. BatchesOK' /\ BatchCallsKept
    BY <2>1, <2>4, <2>5, LeftBatch, OneBatch
  <2> QED  BY <2>3, <2>6
<1> QED  BY <1>1, <1>2

\* A batch that leaves `running`, or was not running, for a status s.
LEMMA LeaveBatch ==
    ASSUME Shape, NEW b \in BatchIds, NEW s \in BatchStatuses \ {"running", "absent"},
           batch' = [batch EXCEPT ![b] = Left(batch[b], s)]
    PROVE  BatchesOK' /\ BatchCallsKept
<1>1. batch[b] \in BatchRecord
  BY TypeParts DEF Shape, BatchesOK
<1> QED  BY <1>1, LeftBatch, OneBatch

\* A job that is let go keeps its type and its calls.
LEMMA LeaveJob ==
    ASSUME Shape, NEW j \in Jobs, NEW s \in JobStatuses \ {"running", "absent"},
           job' = [job EXCEPT ![j] = Left(job[j], s)]
    PROVE  JobsOK' /\ JobCallsKept
<1>1. job[j] \in JobRecord
  BY TypeParts DEF Shape, JobsOK
<1> QED  BY <1>1, LeftJob, OneJob

\* A run that keeps its phase and batch keeps its shape.
LEMMA RunStepKept ==
    ASSUME Shape, NEW p \in Pipelines, NEW r \in RunRecord,
           run' = [run EXCEPT ![p] = r], UNCHANGED work,
           r.phase = run[p].phase, r.batch = run[p].batch
    PROVE  RunsOK' /\ WorkOK' /\ RunShape'
BY TypeParts DEF Shape, RunsOK, WorkOK, RunShape

\* A notice to a run keeps the shape of the runs.
LEMMA NotifiedStep ==
    ASSUME Shape, NEW p \in Pipelines, NEW b \in BatchIds,
           NEW notice \in {"pause", "cancel"}, Notified(p, b, notice), UNCHANGED work
    PROVE  RunsOK' /\ WorkOK' /\ RunShape'
<1> DEFINE r == [run[p] EXCEPT !.notice = IF run[p].batch = b THEN notice
                                          ELSE run[p].notice]
<1>1. run[p] \in RunRecord
  BY TypeParts DEF Shape, RunsOK
<1>2. run' = [run EXCEPT ![p] = r]
  BY DEF Notified
<1>3. r \in RunRecord /\ r.phase = run[p].phase /\ r.batch = run[p].batch
  BY <1>1 DEF RunRecord
<1> QED  BY <1>2, <1>3, RunStepKept

\* A pause request keeps the shape and the books.
LEMMA PauseStep ==
    ASSUME Shape, NEW p \in Pipelines, NEW b \in BatchIds, Pause(p, b)
    PROVE  Shape' /\ BooksKept
<1>1. "paused" \in BatchStatuses \ {"running", "absent"}
  BY DEF BatchStatuses
<1>2. BatchesOK' /\ BatchCallsKept
  BY <1>1, LeaveBatch DEF Pause
<1>3. RunsOK' /\ WorkOK' /\ RunShape'
  BY NotifiedStep DEF Pause
<1> QED  BY <1>2, <1>3, SameStore, Rejoin DEF Pause, BooksKept

\* So does a cancellation.
LEMMA CancelStep ==
    ASSUME Shape, NEW p \in Pipelines, NEW b \in BatchIds, Cancel(p, b)
    PROVE  Shape' /\ BooksKept
<1>1. RunsOK' /\ WorkOK' /\ RunShape'
  BY NotifiedStep DEF Cancel
<1> QED  BY <1>1, CancelPersistedStep, SameStore, Rejoin DEF Cancel, BooksKept

\* So does a signal that reaches a run.
LEMMA SignalStep ==
    ASSUME Shape, NEW p \in Pipelines, DeliverNotice(p) \/ CancelToken(p)
    PROVE  Shape' /\ BooksKept
<1>1. run[p] \in RunRecord
  BY TypeParts DEF Shape, RunsOK
<1>2. RunsOK' /\ WorkOK' /\ RunShape'
  <2>1. CASE DeliverNotice(p)
    <3> DEFINE r == [run[p] EXCEPT !.notice = "none", !.token = TRUE,
                       !.pause = run[p].pause \/ run[p].notice = "pause"]
    <3>1. r \in RunRecord /\ r.phase = run[p].phase /\ r.batch = run[p].batch
      <4>1. (run[p].pause \/ run[p].notice = "pause") \in BOOLEAN
        OBVIOUS
      <4> QED  BY <1>1, <4>1 DEF RunRecord
    <3>2. run' = [run EXCEPT ![p] = r] /\ UNCHANGED work
      BY <2>1 DEF DeliverNotice
    <3> QED  BY <3>1, <3>2, RunStepKept
  <2>2. CASE CancelToken(p)
    <3> DEFINE r == [run[p] EXCEPT !.token = TRUE]
    <3>1. r \in RunRecord /\ r.phase = run[p].phase /\ r.batch = run[p].batch
      BY <1>1 DEF RunRecord
    <3>2. run' = [run EXCEPT ![p] = r] /\ UNCHANGED work
      BY <2>2 DEF CancelToken
    <3> QED  BY <3>1, <3>2, RunStepKept
  <2> QED  BY <2>1, <2>2
<1> QED  BY <1>2, SameStore, Rejoin DEF DeliverNotice, CancelToken, store, BooksKept

\* So does a resume.
LEMMA ResumeStep ==
    ASSUME Shape, NEW b \in BatchIds, NEW limits \in LimitChoices, Resume(b, limits)
    PROVE  Shape' /\ BooksKept
<1> DEFINE r == [Left(batch[b], "pending") EXCEPT !.limits = limits]
<1>1. "pending" \in JobStatuses \ {"running"} /\ "pending" \in BatchStatuses \ {"running"}
  BY DEF JobStatuses, BatchStatuses
<1>2. ASSUME NEW j \in Jobs
      PROVE  /\ JobOK(job'[j]) /\ job'[j].calls = job[j].calls
             /\ job'[j].status = "absent" => job[j].status = "absent"
  <2>1. job'[j] = job[j] \/ job'[j] = Left(job[j], "pending")
    BY DEF Resume
  <2>2. JobOK(job[j])
    BY TypeParts DEF Shape, JobsOK, JobOK
  <2> QED  BY <1>1, <2>1, <2>2, LeftJob DEF JobOK
<1>3. JobsOK' /\ JobCallsKept
  BY <1>2 DEF JobsOK, JobOK, JobCallsKept, Resume
<1>4. BatchOK(r) /\ r.calls = batch[b].calls /\ r.status = "pending"
  <2>1. batch[b] \in BatchRecord
    BY TypeParts DEF Shape, BatchesOK
  <2>2. limits \in [Kinds -> Nat]
    BY LimitsAssumption
  <2> QED  BY <1>1, <2>1, <2>2, LeftBatch DEF BatchOK, BatchRecord, LeaseShape
<1>5. BatchesOK' /\ BatchCallsKept
  BY <1>4, OneBatch DEF Resume
<1> QED  BY <1>3, <1>5, SameStore, Rejoin DEF Resume, BooksKept

\* So does the recovery of a lapsed batch.
LEMMA RecoverBatchStep ==
    ASSUME Shape, NEW b \in BatchIds, RecoverBatch(b)
    PROVE  Shape' /\ BooksKept
<1>1. "pending" \in BatchStatuses \ {"running", "absent"}
  BY DEF BatchStatuses
<1>2. BatchesOK' /\ BatchCallsKept
  BY <1>1, LeaveBatch, SameStore DEF RecoverBatch
<1>3. EnvOK'
  <2>1. batch[b].jobs \subseteq Jobs
    BY TypeParts DEF Shape, BatchesOK, BatchRecord
  <2> QED  BY <2>1, TypeParts DEF Shape, EnvOK, RecoverBatch
<1> QED  BY <1>2, <1>3, SameStore, Rejoin DEF RecoverBatch, BooksKept

\* Rewriting the rows in place, each into a row of the same account.
LEMMA RowsRewritten ==
    ASSUME Shape, NEW f, f = [i \in DOMAIN attempts |-> f[i]], attempts' = f,
           \A i \in DOMAIN attempts :
              /\ f[i] \in AttemptRecord
              /\ f[i].batch = attempts[i].batch /\ f[i].job = attempts[i].job
              /\ f[i].role = attempts[i].role
    PROVE  AttemptsOK' /\ RowsKept
<1>1. attempts \in Seq(AttemptRecord)
  BY TypeParts DEF Shape, AttemptsOK
<1>2. PICK n \in Nat : DOMAIN attempts = 1 .. n
  BY <1>1
<1>3. f \in [1 .. n -> AttemptRecord]
  BY <1>2
<1>4. f \in Seq(AttemptRecord)
  BY <1>3
<1> QED  BY <1>4 DEF AttemptsOK, RowsKept

\* So does the recovery of a lapsed job.
LEMMA RecoverJobStep ==
    ASSUME Shape, NEW j \in Jobs, RecoverJob(j)
    PROVE  Shape' /\ BooksKept
<1>1. "pending" \in JobStatuses \ {"running", "absent"}
  BY DEF JobStatuses
<1>2. JobsOK' /\ JobCallsKept
  <2>1. \/ UNCHANGED job
        \/ job' = [job EXCEPT ![j] = Left(job[j], "pending")]
        \/ job' = [job EXCEPT ![j] = job[j]]
    BY DEF RecoverJob
  <2>2. ASSUME job' = [job EXCEPT ![j] = job[j]]  PROVE UNCHANGED job
    BY <2>2, TypeParts DEF Shape, JobsOK
  <2> QED  BY <1>1, <2>1, <2>2, LeaveJob, SameStore
<1>3. AttemptsOK' /\ RowsKept
  <2>1. CASE UNCHANGED attempts
    BY <2>1, SameStore
  <2>2. CASE ~UNCHANGED attempts
    <3> DEFINE f == [i \in DOMAIN attempts |->
                 IF attempts[i].job = j /\ attempts[i].status = "reserved"
                 THEN [attempts[i] EXCEPT !.status = "uncertain"] ELSE attempts[i]]
    <3>1. attempts' = f
      BY <2>2 DEF RecoverJob
    <3>2. \A i \in DOMAIN attempts : attempts[i] \in AttemptRecord
      BY TypeParts DEF Shape, AttemptsOK
    <3>3. \A i \in DOMAIN attempts :
             /\ f[i] \in AttemptRecord
             /\ f[i].batch = attempts[i].batch /\ f[i].job = attempts[i].job
             /\ f[i].role = attempts[i].role
      BY <3>2 DEF AttemptRecord
    <3>4. f = [i \in DOMAIN attempts |-> f[i]]
      OBVIOUS
    <3> HIDE DEF f
    <3> QED  BY <3>1, <3>3, <3>4, RowsRewritten
  <2> QED  BY <2>1, <2>2
<1>4. EnvOK'
  BY TypeParts DEF Shape, EnvOK, RecoverJob
<1> QED  BY <1>2, <1>3, <1>4, SameStore, Rejoin DEF RecoverJob, BooksKept

-----------------------------------------------------------------------------
(* Steps of a run                                                          *)

\* A pipeline that works on nothing is typed.
LEMMA NoRunType == NoRun \in RunRecord /\ NoRun.phase = "idle"
BY DEF NoRun, RunRecord

\* A run none of whose workers is busy may change phase and batch.
LEMMA RunMoves ==
    ASSUME Shape, NEW p \in Pipelines, NEW r \in RunRecord,
           run' = [run EXCEPT ![p] = r], UNCHANGED work,
           r.phase # "idle" => r.batch \in BatchIds,
           Busy(p) = {}
    PROVE  RunsOK' /\ WorkOK' /\ RunShape'
<1>1. \A j \in Jobs : work[p][j].at = "idle"
  BY DEF Busy
<1>2. \A j \in Jobs : work[p][j].at # "retry"
  BY <1>1
<1>3. RunsOK' /\ WorkOK'
  BY TypeParts DEF Shape, RunsOK, WorkOK
<1>4. RunShape'
  BY <1>1, TypeParts DEF Shape, RunShape, RunsOK
<1> QED  BY <1>3, <1>4

\* Outside a pool no worker of the pipeline is busy.
LEMMA BusyInPool ==
    ASSUME Shape, NEW p \in Pipelines, run[p].phase # "pool"
    PROVE  Busy(p) = {}
BY DEF Shape, RunShape, Busy

\* A start keeps the shape and the books.
LEMMA StartRunStep ==
    ASSUME Shape, NEW p \in Pipelines, NEW b \in BatchIds, NEW cancelled \in BOOLEAN,
           StartRun(p, b, cancelled)
    PROVE  Shape' /\ BooksKept
<1> DEFINE phase == IF cancelled THEN "cancelling" ELSE "starting"
           r == [NoRun EXCEPT !.batch = b, !.token = cancelled, !.phase = phase]
<1>1. r \in RunRecord /\ r.batch = b
  <2>1. CASE cancelled = TRUE
    BY <2>1, NoRunType DEF RunRecord
  <2>2. CASE cancelled = FALSE
    BY <2>2, NoRunType DEF RunRecord
  <2> QED  BY <2>1, <2>2
<1>2. run' = [run EXCEPT ![p] = r]
  BY DEF StartRun
<1>3. RunsOK' /\ WorkOK' /\ RunShape'
  <2>1. run[p].phase # "pool" /\ UNCHANGED work
    BY DEF StartRun
  <2> HIDE DEF r
  <2> QED  BY <1>1, <1>2, <2>1, BusyInPool, RunMoves
<1> QED  BY <1>3, SameStore, Rejoin DEF StartRun, store, BooksKept

\* So does a start that was cancelled before its claim.
LEMMA CancelUnclaimedStep ==
    ASSUME Shape, NEW p \in Pipelines, CancelUnclaimed(p)
    PROVE  Shape' /\ BooksKept
<1>1. run[p].batch \in BatchIds /\ run[p].phase # "pool"
  BY DEF Shape, RunShape, CancelUnclaimed
<1>2. run' = [run EXCEPT ![p] = NoRun] /\ UNCHANGED work /\ CancelPersisted(run[p].batch)
  BY DEF CancelUnclaimed
<1>3. RunsOK' /\ WorkOK' /\ RunShape'
  BY <1>1, <1>2, NoRunType, BusyInPool, RunMoves
<1>4. JobsOK' /\ JobCallsKept /\ BatchesOK' /\ BatchCallsKept
  BY <1>1, <1>2, CancelPersistedStep
<1> QED  BY <1>3, <1>4, SameStore, Rejoin DEF CancelUnclaimed, BooksKept

\* So does the claim of a batch.
LEMMA ClaimBatchStep ==
    ASSUME Shape, NEW p \in Pipelines, ClaimBatch(p)
    PROVE  Shape' /\ BooksKept
<1> DEFINE b == run[p].batch
           claimed == [batch[b] EXCEPT !.status = "running", !.owner = p, !.lease = "live"]
           pool == [run[p] EXCEPT !.phase = "pool", !.workers = Concurrency,
                                  !.todo = batch[b].jobs]
<1>1. b \in BatchIds /\ run[p].phase = "starting"
  BY DEF Shape, RunShape, ClaimBatch
<1>2. \/ batch' = [batch EXCEPT ![b] = claimed] /\ run' = [run EXCEPT ![p] = pool]
      \/ UNCHANGED batch /\ run' = [run EXCEPT ![p] = NoRun]
  <2>1. \/ /\ batch' = [batch EXCEPT ![b].status = "running", ![b].owner = p,
                                     ![b].lease = "live"]
           /\ run' = [run EXCEPT ![p].phase = "pool", ![p].workers = Concurrency,
                                 ![p].todo = batch[b].jobs]
        \/ UNCHANGED batch /\ run' = [run EXCEPT ![p] = NoRun]
    BY DEF ClaimBatch
  <2>2. batch \in [BatchIds -> BatchRecord] /\ run \in [Pipelines -> RunRecord]
    BY TypeParts DEF Shape, BatchesOK, RunsOK
  <2> QED  BY <1>1, <2>1, <2>2
<1>3. BatchOK(claimed) /\ claimed.calls = batch[b].calls /\ claimed.status = "running"
  <2>1. BatchOK(batch[b]) /\ p # None
    BY <1>1, TypeParts, NoneAssumption DEF Shape, BatchesOK, BatchOK
  <2> QED  BY <2>1 DEF BatchOK, BatchRecord, LeaseShape, BatchStatuses, Leases
<1>4. pool \in RunRecord /\ pool.batch = b
  <2>1. run[p] \in RunRecord /\ batch[b].jobs \subseteq Jobs /\ Concurrency \in Int
    BY <1>1, TypeParts, BoundsAssumption DEF Shape, RunsOK, BatchesOK, BatchRecord
  <2> QED  BY <2>1 DEF RunRecord
<1>5. BatchesOK' /\ BatchCallsKept
  <2> HIDE DEF claimed
  <2> QED  BY <1>1, <1>2, <1>3, OneBatch, SameStore
<1>6. RunsOK' /\ WorkOK' /\ RunShape'
  <2>1. UNCHANGED work /\ Busy(p) = {}
    BY <1>1, BusyInPool DEF ClaimBatch
  <2> HIDE DEF pool
  <2> QED  BY <1>1, <1>2, <1>4, <2>1, NoRunType, RunMoves
<1> QED  BY <1>5, <1>6, SameStore, Rejoin DEF ClaimBatch, BooksKept

\* A run ends its batch in a status that is not running.
LEMMA FinalStatusType ==
    ASSUME NEW b \in BatchIds
    PROVE  FinalStatus(b) \in BatchStatuses \ {"running", "absent"}
BY DEF FinalStatus, BatchStatuses

\* The end of a run keeps the shape and the books.
LEMMA EndRunStep ==
    ASSUME Shape, NEW p \in Pipelines, EndRun(p)
    PROVE  Shape' /\ BooksKept
<1> DEFINE b == run[p].batch
<1>1. b \in BatchIds /\ Busy(p) = {}
  BY DEF Shape, RunShape, EndRun, RunDone
<1>2. /\ run' = [run EXCEPT ![p] = NoRun] /\ UNCHANGED work
      /\ UNCHANGED <<superseded, manual, attempts, analyses, sweep>>
      /\ \/ UNCHANGED <<job, batch>>
         \/ CancelPersisted(b)
         \/ FinalizeBatch(p, b) /\ UNCHANGED job
  BY DEF EndRun
<1>3. RunsOK' /\ WorkOK' /\ RunShape'
  BY <1>1, <1>2, NoRunType, RunMoves
<1>4. JobsOK' /\ JobCallsKept /\ BatchesOK' /\ BatchCallsKept
  <2>1. CASE UNCHANGED <<job, batch>>
    BY <2>1, SameStore
  <2>2. CASE CancelPersisted(b)
    BY <1>1, <2>2, CancelPersistedStep
  <2>3. CASE FinalizeBatch(p, b) /\ UNCHANGED job
    BY <1>1, <2>3, SameStore, LeaveBatch, FinalStatusType DEF FinalizeBatch
  <2> QED  BY <1>2, <2>1, <2>2, <2>3
<1> QED  BY <1>2, <1>3, <1>4, SameStore, Rejoin DEF BooksKept

-----------------------------------------------------------------------------
(* Steps of a worker                                                       *)

\* A busy worker belongs to a running pool of a batch.
LEMMA InPool ==
    ASSUME Shape, NEW p \in Pipelines, NEW j \in Jobs, work[p][j].at # "idle"
    PROVE  run[p].phase = "pool" /\ run[p].batch \in BatchIds
BY DEF Shape, RunShape

\* Storing back the row that was read changes nothing.
LEMMA StepOnJob ==
    ASSUME Shape, NEW j \in Jobs, NEW p \in Pipelines,
           \/ UNCHANGED job
           \/ \E s \in {"pending", "paused_quota", "succeeded", "failed", "cancelled"} :
                 job' = [job EXCEPT ![j] = Left(job[j], s)]
           \/ job' = [job EXCEPT ![j] = Started(job[j], p)]
    PROVE  JobsOK' /\ JobCallsKept
<1>1. CASE UNCHANGED job
  BY <1>1, SameStore
<1>2. ASSUME NEW s \in {"pending", "paused_quota", "succeeded", "failed", "cancelled"},
             job' = [job EXCEPT ![j] = Left(job[j], s)]
      PROVE  JobsOK' /\ JobCallsKept
  <2>1. s \in JobStatuses \ {"running", "absent"}
    BY DEF JobStatuses
  <2> QED  BY <1>2, <2>1, LeaveJob
<1>3. CASE job' = [job EXCEPT ![j] = Started(job[j], p)]
  <2>1. job[j] \in JobRecord
    BY TypeParts DEF Shape, JobsOK
  <2> QED  BY <1>3, <2>1, StartedJob, OneJob
<1> QED  BY <1>1, <1>2, <1>3

\* So does the claim of a job.
LEMMA ClaimJobStep ==
    ASSUME Shape, NEW p \in Pipelines, NEW j \in Jobs, ClaimJob(p, j)
    PROVE  Shape' /\ BooksKept
<1> DEFINE b == run[p].batch
           r == [run[p] EXCEPT !.todo = run[p].todo \ {j}]
<1>1. /\ run[p].phase = "pool" /\ run' = [run EXCEPT ![p] = r]
      /\ UNCHANGED <<superseded, manual, batch, attempts, analyses, sweep>>
  <2>1. run \in [Pipelines -> RunRecord]
    BY TypeParts DEF Shape, RunsOK
  <2> QED  BY <2>1 DEF ClaimJob
<1>2. RunKept(p)
  <2>1. run[p] \in RunRecord
    BY TypeParts DEF Shape, RunsOK
  <2>2. r \in RunRecord /\ r.phase = run[p].phase /\ r.batch = run[p].batch
    BY <2>1 DEF RunRecord
  <2> QED  BY <1>1, <2>2 DEF RunKept
<1>3. JobsOK' /\ JobCallsKept
  BY StepOnJob DEF ClaimJob
<1>4. WorkOK' /\ RunsOK' /\ RunShape'
  <2>1. CASE UNCHANGED work
    <3>1. r \in RunRecord /\ r.phase = run[p].phase /\ r.batch = run[p].batch
      BY TypeParts DEF Shape, RunsOK, RunRecord
    <3> QED  BY <1>1, <2>1, <3>1, RunStepKept
  <2>2. CASE Goto(p, j, "fail")
    BY <1>1, <1>2, <2>2, GotoStep
  <2>3. CASE Dispatch(p, j, FirstRole(b, j), MaxRetries)
    <3>1. FirstRole(b, j) \in Roles /\ MaxRetries \in Nat
      BY BoundsAssumption DEF FirstRole, Roles
    <3> QED  BY <1>1, <1>2, <2>3, <3>1, DispatchStep
  <2> QED  BY <2>1, <2>2, <2>3 DEF ClaimJob
<1> QED  BY <1>1, <1>3, <1>4, SameStore, Rejoin DEF BooksKept

\* So does a stop before the call.
LEMMA StopBeforeCallStep ==
    ASSUME Shape, NEW p \in Pipelines, NEW j \in Jobs, StopBeforeCall(p, j)
    PROVE  Shape' /\ BooksKept
<1>1. WorkOK' /\ RunsOK' /\ RunShape'
  BY InPool, RunUnchanged, GotoStep DEF StopBeforeCall
<1> QED  BY <1>1, SameStore, Rejoin DEF StopBeforeCall, store, BooksKept

\* So does the settlement of a call, which adds no row.
LEMMA SettleStep ==
    ASSUME Shape, NEW p \in Pipelines, NEW j \in Jobs, NEW answer \in Answers,
           NEW omissions \in BOOLEAN, Settle(p, j, answer, omissions)
    PROVE  Shape' /\ BooksKept
<1> DEFINE w == work[p][j]
<1>1. /\ w.at = "call" /\ attempts' = [attempts EXCEPT ![w.row] = Booked(attempts[w.row], answer)]
      /\ UNCHANGED <<superseded, manual, job, batch, analyses, sweep, run>>
  BY DEF Settle
<1>2. w \in WorkRecord /\ work \in [Pipelines -> [Jobs -> WorkRecord]]
  BY TypeParts DEF Shape, WorkOK
<1>3. RunKept(p) /\ run[p].phase = "pool"
  BY <1>1, InPool, RunUnchanged
<1>4. AttemptsOK' /\ RowsKept
  <2>1. attempts \in Seq(AttemptRecord)
    BY TypeParts DEF Shape, AttemptsOK
  <2>2. CASE w.row \notin DOMAIN attempts
    <3>1. attempts' = attempts
      BY <1>1, <2>1, <2>2
    <3> QED  BY <3>1, SameStore
  <2>3. CASE w.row \in DOMAIN attempts
    <3>1. attempts[w.row] \in AttemptRecord
      BY <2>1, <2>3
    <3>2. Booked(attempts[w.row], answer) \in AttemptRecord
      BY <3>1, BookedRow
    <3> QED  BY <1>1, <2>1, <2>3, <3>1, <3>2, BookedRow DEF AttemptsOK, RowsKept
  <2> QED  BY <2>2, <2>3
<1>5. WorkOK' /\ RunsOK' /\ RunShape'
  <2>1. \/ Dispatch(p, j, "verification", MaxRetries)
        \/ work' = [work EXCEPT ![p][j].at = "commit",
                      ![p][j].checked = omissions /\ w.role = "verification"]
        \/ \E stage \in {"quota", "release", "fail", "cancel"} : Goto(p, j, stage)
        \/ w.retries > 0 /\ work' = [work EXCEPT ![p][j].at = "retry"]
    BY DEF Settle, MayRetry, Answers
  <2>2. CASE Dispatch(p, j, "verification", MaxRetries)
    <3>1. "verification" \in Roles /\ MaxRetries \in Nat
      BY BoundsAssumption DEF Roles
    <3> QED  BY <1>3, <2>2, <3>1, DispatchStep
  <2>3. CASE work' = [work EXCEPT ![p][j].at = "commit",
                        ![p][j].checked = omissions /\ w.role = "verification"]
    <3> DEFINE checked == omissions /\ w.role = "verification"
               v == [w EXCEPT !.at = "commit", !.checked = checked]
    <3>1. work' = [work EXCEPT ![p][j] = v]
      BY <1>2, <2>3
    <3>2. checked \in BOOLEAN
      OBVIOUS
    <3>3. v \in WorkRecord /\ v.at = "commit"
      <4> HIDE DEF checked
      <4> QED  BY <1>2, <3>2 DEF WorkRecord
    <3> HIDE DEF v
    <3> QED  BY <1>3, <3>1, <3>3, WorkStep
  <2>4. CASE \E stage \in {"quota", "release", "fail", "cancel"} : Goto(p, j, stage)
    BY <1>3, <2>4, GotoStep
  <2>5. CASE w.retries > 0 /\ work' = [work EXCEPT ![p][j].at = "retry"]
    <3> DEFINE v == [w EXCEPT !.at = "retry"]
    <3>1. work' = [work EXCEPT ![p][j] = v]
      BY <1>2, <2>5
    <3>2. v \in WorkRecord /\ v.retries > 0
      BY <1>2, <2>5 DEF WorkRecord
    <3> HIDE DEF v
    <3> QED  BY <1>3, <3>1, <3>2, WorkStep
  <2> QED  BY <2>1, <2>2, <2>3, <2>4, <2>5
<1> QED  BY <1>1, <1>4, <1>5, SameStore, Rejoin DEF BooksKept

\* So does a registered retry.
LEMMA RegisterRetryStep ==
    ASSUME Shape, NEW p \in Pipelines, NEW j \in Jobs, RegisterRetry(p, j)
    PROVE  Shape' /\ BooksKept
<1> DEFINE b == run[p].batch
           retried == [batch[b] EXCEPT !.retries = batch[b].retries + 1, !.lease = "live"]
<1>1. /\ work[p][j].at = "retry"
      /\ UNCHANGED <<superseded, manual, attempts, analyses, sweep, run>>
  BY DEF RegisterRetry
<1>2. RunKept(p) /\ run[p].phase = "pool" /\ b \in BatchIds
  BY <1>1, InPool, RunUnchanged
<1>3. JobsOK' /\ JobCallsKept
  BY StepOnJob DEF RegisterRetry
<1>4. BatchesOK' /\ BatchCallsKept
  <2>1. CASE UNCHANGED batch
    BY <2>1, SameStore
  <2>2. CASE ~UNCHANGED batch
    <3>1. /\ batch' = [batch EXCEPT ![b].retries = batch[b].retries + 1, ![b].lease = "live"]
          /\ batch[b].status = "running"
      BY <2>2 DEF RegisterRetry, OwnsBatch
    <3>2. batch \in [BatchIds -> BatchRecord] /\ BatchOK(batch[b])
      BY <1>2, TypeParts DEF Shape, BatchesOK, BatchOK
    <3>3. batch' = [batch EXCEPT ![b] = retried]
      BY <1>2, <3>1, <3>2
    <3>4. BatchOK(retried) /\ retried.calls = batch[b].calls /\ retried.status = "running"
      <4>1. batch[b].retries + 1 \in Nat
        BY <3>2 DEF BatchOK, BatchRecord
      <4> QED  BY <3>1, <3>2, <4>1 DEF BatchOK, BatchRecord, LeaseShape, Leases
    <3> HIDE DEF retried
    <3> QED  BY <1>2, <3>3, <3>4, OneBatch
  <2> QED  BY <2>1, <2>2
<1>5. WorkOK' /\ RunsOK' /\ RunShape'
  <2>1. \/ Goto(p, j, "release") \/ Goto(p, j, "fail")
        \/ Dispatch(p, j, work[p][j].role, work[p][j].retries - 1)
    BY DEF RegisterRetry
  <2>2. work[p][j].role \in Roles /\ work[p][j].retries - 1 \in Nat
    <3>1. work[p][j] \in WorkRecord
      BY TypeParts DEF Shape, WorkOK
    <3>2. work[p][j].retries \in Nat /\ work[p][j].role \in Roles /\ work[p][j].retries > 0
      BY <1>1, <3>1 DEF Shape, RunShape, WorkRecord
    <3> QED  BY <3>2
  <2> QED  BY <1>2, <2>1, <2>2, GotoStep, DispatchStep
<1> QED  BY <1>1, <1>3, <1>4, <1>5, SameStore, Rejoin DEF BooksKept

\* So does a pause for the quota.
LEMMA PauseForQuotaStep ==
    ASSUME Shape, NEW p \in Pipelines, NEW j \in Jobs, PauseForQuota(p, j)
    PROVE  Shape' /\ BooksKept
<1>1. RunKept(p) /\ run[p].phase = "pool" /\ run[p].batch \in BatchIds
  BY InPool, RunUnchanged DEF PauseForQuota
<1>2. JobsOK' /\ JobCallsKept
  BY StepOnJob DEF PauseForQuota
<1>3. BatchesOK' /\ BatchCallsKept
  <2>1. "paused" \in BatchStatuses \ {"running", "absent"}
    BY DEF BatchStatuses
  <2> QED  BY <1>1, <2>1, LeaveBatch, SameStore DEF PauseForQuota
<1>4. WorkOK' /\ RunsOK' /\ RunShape'
  BY <1>1, GotoStep DEF PauseForQuota
<1> QED  BY <1>2, <1>3, <1>4, SameStore, Rejoin DEF PauseForQuota, BooksKept

\* So does a job that is released or fails.
LEMMA LeaveJobStep ==
    ASSUME Shape, NEW p \in Pipelines, NEW j \in Jobs, ReleaseJob(p, j) \/ FailJob(p, j)
    PROVE  Shape' /\ BooksKept
<1>1. RunKept(p) /\ run[p].phase = "pool"
  BY InPool, RunUnchanged DEF ReleaseJob, FailJob
<1>2. JobsOK' /\ JobCallsKept
  BY StepOnJob DEF ReleaseJob, FailJob
<1>3. WorkOK' /\ RunsOK' /\ RunShape'
  BY <1>1, GotoStep DEF ReleaseJob, FailJob
<1> QED  BY <1>2, <1>3, SameStore, Rejoin DEF ReleaseJob, FailJob, BooksKept

\* So does an adoption.
LEMMA CommitAdoptionStep ==
    ASSUME Shape, NEW p \in Pipelines, NEW j \in Jobs, CommitAdoption(p, j)
    PROVE  Shape' /\ BooksKept
<1> DEFINE result == [job |-> j, batch |-> run[p].batch, checked |-> work[p][j].checked]
<1>1. RunKept(p) /\ run[p].phase = "pool" /\ run[p].batch \in BatchIds
  BY InPool, RunUnchanged DEF CommitAdoption
<1>2. JobsOK' /\ JobCallsKept
  BY StepOnJob DEF CommitAdoption
<1>3. WorkOK' /\ RunsOK' /\ RunShape'
  BY <1>1, GotoStep DEF CommitAdoption
<1>4. EnvOK'
  <2>1. result \in ResultRecord
    <3>1. work[p][j] \in WorkRecord
      BY TypeParts DEF Shape, WorkOK
    <3> QED  BY <1>1, <3>1 DEF ResultRecord, WorkRecord
  <2>2. analyses' = analyses \/ analyses' = analyses \cup {result}
    BY DEF CommitAdoption
  <2>3. UNCHANGED <<superseded, manual, sweep>>
    BY DEF CommitAdoption
  <2> HIDE DEF result
  <2> QED  BY <2>1, <2>2, <2>3, TypeParts DEF Shape, EnvOK
<1> QED  BY <1>2, <1>3, <1>4, SameStore, Rejoin DEF CommitAdoption, BooksKept

\* So does a cancellation found in the commit.
LEMMA CancelInCommitStep ==
    ASSUME Shape, NEW p \in Pipelines, NEW j \in Jobs, CancelInCommit(p, j)
    PROVE  Shape' /\ BooksKept
<1>1. RunKept(p) /\ run[p].phase = "pool" /\ run[p].batch \in BatchIds
  BY InPool, RunUnchanged DEF CancelInCommit
<1>2. WorkOK' /\ RunsOK' /\ RunShape'
  BY <1>1, GotoStep DEF CancelInCommit
<1>3. JobsOK' /\ JobCallsKept /\ BatchesOK' /\ BatchCallsKept
  BY <1>1, CancelPersistedStep DEF CancelInCommit
<1> QED  BY <1>2, <1>3, SameStore, Rejoin DEF CancelInCommit, BooksKept

\* So does a failure of the store.
LEMMA StoreFailureStep ==
    ASSUME Shape, NEW p \in Pipelines, NEW j \in Jobs, StoreFailure(p, j)
    PROVE  Shape' /\ BooksKept
<1> DEFINE r == [run[p] EXCEPT !.failed = TRUE, !.workers = run[p].workers - 1]
<1>1. run \in [Pipelines -> RunRecord] /\ run[p] \in RunRecord
  BY TypeParts DEF Shape, RunsOK
<1>2. run' = [run EXCEPT ![p] = r]
  BY <1>1 DEF StoreFailure
<1>3. r \in RunRecord /\ r.phase = run[p].phase /\ r.batch = run[p].batch
  <2>1. run[p].workers - 1 \in Int
    BY <1>1 DEF RunRecord
  <2> QED  BY <1>1, <2>1 DEF RunRecord
<1>4. RunKept(p) /\ run[p].phase = "pool"
  <2> HIDE DEF r
  <2> QED  BY <1>2, <1>3, InPool DEF RunKept, StoreFailure
<1>5. WorkOK' /\ RunsOK' /\ RunShape'
  BY <1>4, GotoStep DEF StoreFailure
<1> QED  BY <1>5, SameStore, Rejoin DEF StoreFailure, store, BooksKept

-----------------------------------------------------------------------------
(* Steps of the environment                                                *)

\* So does a crash.
LEMMA CrashStep ==
    ASSUME Shape, NEW p \in Pipelines, Crash(p)
    PROVE  Shape' /\ BooksKept
<1>1. NoWork \in WorkRecord /\ NoWork.at = "idle"
  BY DEF NoWork, WorkRecord, Roles
<1>2. run' = [run EXCEPT ![p] = NoRun] /\ work' = [work EXCEPT ![p] = [j \in Jobs |-> NoWork]]
  BY DEF Crash
<1>3. RunsOK' /\ WorkOK'
  BY <1>1, <1>2, NoRunType, TypeParts DEF Shape, RunsOK, WorkOK
<1>4. RunShape'
  BY <1>1, <1>2, NoRunType, TypeParts DEF Shape, RunsOK, WorkOK, RunShape
<1> QED  BY <1>3, <1>4, SameStore, Rejoin DEF Crash, store, BooksKept

\* So does a lease that lapses.
LEMMA LapseStep ==
    ASSUME Shape, (\E b \in BatchIds : LapseBatch(b)) \/ (\E j \in Jobs : LapseJob(j))
    PROVE  Shape' /\ BooksKept
<1>1. ASSUME NEW b \in BatchIds, LapseBatch(b)  PROVE Shape' /\ BooksKept
  <2> DEFINE r == [batch[b] EXCEPT !.lease = "lapsed"]
  <2>1. BatchOK(batch[b]) /\ batch[b].lease = "live" /\ batch \in [BatchIds -> BatchRecord]
    BY <1>1, TypeParts DEF Shape, BatchesOK, BatchOK, LapseBatch
  <2>2. BatchOK(r) /\ r.calls = batch[b].calls /\ r.status = "running"
    BY <2>1 DEF BatchOK, BatchRecord, LeaseShape, Leases
  <2>3. batch' = [batch EXCEPT ![b] = r]
    BY <1>1, <2>1 DEF LapseBatch
  <2>4. BatchesOK' /\ BatchCallsKept
    <3> HIDE DEF r
    <3> QED  BY <2>2, <2>3, OneBatch
  <2> QED  BY <1>1, <2>4, SameStore, Rejoin DEF LapseBatch, BooksKept
<1>2. ASSUME NEW j \in Jobs, LapseJob(j)  PROVE Shape' /\ BooksKept
  <2> DEFINE r == [job[j] EXCEPT !.lease = "lapsed"]
  <2>1. JobOK(job[j]) /\ job[j].lease = "live" /\ job \in [Jobs -> JobRecord]
    BY <1>2, TypeParts DEF Shape, JobsOK, JobOK, LapseJob
  <2>2. JobOK(r) /\ r.calls = job[j].calls /\ r.status = "running"
    BY <2>1 DEF JobOK, JobRecord, LeaseShape, Leases
  <2>3. job' = [job EXCEPT ![j] = r]
    BY <1>2, <2>1 DEF LapseJob
  <2>4. JobsOK' /\ JobCallsKept
    <3> HIDE DEF r
    <3> QED  BY <2>2, <2>3, OneJob
  <2> QED  BY <1>2, <2>4, SameStore, Rejoin DEF LapseJob, BooksKept
<1> QED  BY <1>1, <1>2

\* So does a change of the material.
LEMMA MaterialStep ==
    ASSUME Shape, NEW s \in Moving, Supersede(s) \/ DecideManually(s)
    PROVE  Shape' /\ BooksKept
<1>1. s \in Snapshots
  BY BoundsAssumption
<1>2. EnvOK'
  BY <1>1, TypeParts DEF Shape, EnvOK, Supersede, DecideManually, store
<1> QED  BY <1>2, SameStore, Rejoin DEF Supersede, DecideManually, store, BooksKept

-----------------------------------------------------------------------------
(* The reservation, the one step that moves the books                      *)

\* The row and both counters of a reservation.
BooksMove(b, j, role) ==
    /\ attempts' = Append(attempts, [batch |-> b, job |-> j, role |-> role,
                                     status |-> "reserved", answered |-> FALSE])
    /\ job' = [job EXCEPT ![j] = Counted(job[j], role)]
    /\ batch' = [batch EXCEPT ![b] = Counted(batch[b], role)]
    /\ job[j].status = "running" /\ batch[b].status = "running"
    /\ BudgetLeft(b, KindOf(role))

\* A reservation keeps the shape and moves the books by its one row, or not at all.
LEMMA ReserveStep ==
    ASSUME Shape, NEW p \in Pipelines, NEW j \in Jobs, Reserve(p, j)
    PROVE  /\ Shape'
           /\ \/ BooksKept
              \/ \E b \in BatchIds, role \in Roles : BooksMove(b, j, role)
<1> DEFINE b == run[p].batch
           w == work[p][j]
           role == w.role
           row == [batch |-> b, job |-> j, role |-> role, status |-> "reserved",
                   answered |-> FALSE]
<1>1. w.at = "reserve" /\ UNCHANGED <<superseded, manual, analyses, sweep, run>>
  BY DEF Reserve
<1>2. RunKept(p) /\ run[p].phase = "pool" /\ b \in BatchIds
  BY <1>1, InPool, RunUnchanged
<1>3. w \in WorkRecord /\ work \in [Pipelines -> [Jobs -> WorkRecord]] /\ role \in Roles
  BY TypeParts DEF Shape, WorkOK, WorkRecord
<1>4. \/ /\ UNCHANGED <<batch, attempts>>
         /\ UNCHANGED job \/ job' = [job EXCEPT ![j] = Left(job[j], "paused_quota")]
         /\ Goto(p, j, "fail") \/ Goto(p, j, "release") \/ Goto(p, j, "quota")
      \/ /\ BooksMove(b, j, role)
         /\ work' = [work EXCEPT ![p][j].at = "call", ![p][j].row = Len(attempts) + 1]
  BY DEF Reserve, BooksMove, HoldsBatch, HoldsJob, OwnsBatch, OwnsJob
<1>5. CASE /\ UNCHANGED <<batch, attempts>>
           /\ UNCHANGED job \/ job' = [job EXCEPT ![j] = Left(job[j], "paused_quota")]
           /\ Goto(p, j, "fail") \/ Goto(p, j, "release") \/ Goto(p, j, "quota")
  <2>1. JobsOK' /\ JobCallsKept
    BY <1>5, StepOnJob
  <2>2. WorkOK' /\ RunsOK' /\ RunShape'
    BY <1>2, <1>5, GotoStep
  <2> QED  BY <1>1, <1>5, <2>1, <2>2, SameStore, Rejoin DEF BooksKept
<1>6. CASE /\ BooksMove(b, j, role)
           /\ work' = [work EXCEPT ![p][j].at = "call", ![p][j].row = Len(attempts) + 1]
  <2>1. JobsOK'
    BY <1>3, <1>6, CountedJob, TypeParts DEF BooksMove, Shape, JobsOK, JobOK
  <2>2. BatchesOK'
    BY <1>2, <1>3, <1>6, CountedBatch, TypeParts DEF BooksMove, Shape, BatchesOK, BatchOK
  <2>3. attempts \in Seq(AttemptRecord)
    BY TypeParts DEF Shape, AttemptsOK
  <2>4. AttemptsOK'
    <3>1. row \in AttemptRecord /\ attempts' = Append(attempts, row)
      BY <1>2, <1>3, <1>6 DEF AttemptRecord, BooksMove
    <3> HIDE DEF row
    <3> QED  BY <2>3, <3>1 DEF AttemptsOK
  <2>5. WorkOK' /\ RunsOK' /\ RunShape'
    <3> DEFINE v == [w EXCEPT !.at = "call", !.row = Len(attempts) + 1]
    <3>1. work' = [work EXCEPT ![p][j] = v]
      BY <1>3, <1>6
    <3>2. Len(attempts) + 1 \in Nat
      BY <2>3
    <3>3. v \in WorkRecord /\ v.at = "call"
      BY <1>3, <3>2 DEF WorkRecord
    <3> HIDE DEF v
    <3> QED  BY <1>2, <3>1, <3>3, WorkStep
  <2>6. AbsentIsBlank'
    BY <1>2, <1>3, <1>6, CountedJob, CountedBatch, TypeParts
    DEF BooksMove, Shape, AbsentIsBlank, JobsOK, BatchesOK, JobOK, BatchOK
  <2>7. EnvOK'
    BY <1>1, SameStore
  <2>8. TypeOK'
    BY <2>1, <2>2, <2>4, <2>5, <2>7, TypeParts
  <2> QED  BY <1>2, <1>3, <1>6, <2>5, <2>6, <2>8 DEF Shape
<1> QED  BY <1>4, <1>5, <1>6

-----------------------------------------------------------------------------
(* Type correctness                                                        *)

\* The shape holds at the start.
LEMMA InitShape == Init => Shape
<1> SUFFICES ASSUME Init  PROVE Shape
  OBVIOUS
<1>1. AbsentJob \in JobRecord /\ LeaseShape(AbsentJob) /\ AbsentJob.calls = NoCalls
  BY DEF AbsentJob, JobRecord, LeaseShape, JobStatuses, Leases, NoCalls
<1>2. AbsentBatch \in BatchRecord /\ LeaseShape(AbsentBatch) /\ AbsentBatch.calls = NoCalls
  BY DEF AbsentBatch, BatchRecord, LeaseShape, BatchStatuses, Leases, NoCalls
<1>3. NoWork \in WorkRecord /\ NoWork.at = "idle"
  BY DEF NoWork, WorkRecord, Roles
<1>4. TypeOK
  BY <1>1, <1>2, <1>3, NoRunType DEF Init, TypeOK
<1>5. RunShape /\ AbsentIsBlank
  BY <1>1, <1>2, <1>3, NoRunType DEF Init, RunShape, AbsentIsBlank
<1> QED  BY <1>4, <1>5 DEF Shape

\* Every step keeps the shape, and keeps the books unless it is a reservation.
LEMMA NextShape ==
    ASSUME Shape, [Next]_vars
    PROVE  /\ Shape'
           /\ \/ BooksKept
              \/ \E b \in BatchIds, j \in Jobs, role \in Roles : BooksMove(b, j, role)
<1>1. CASE UNCHANGED vars
  BY <1>1, SameStore, Rejoin DEF vars, BooksKept
<1>2. ASSUME NEW p \in Pipelines, RunStep(p)  PROVE Shape' /\ BooksKept
  BY <1>2, CancelUnclaimedStep, ClaimBatchStep, EndRunStep DEF RunStep
<1>3. ASSUME NEW p \in Pipelines, NEW j \in Jobs, Worker(p, j)
      PROVE  /\ Shape'
             /\ \/ BooksKept
                \/ \E b \in BatchIds, role \in Roles : BooksMove(b, j, role)
  BY <1>3, ClaimJobStep, ReserveStep, StopBeforeCallStep, SettleStep, RegisterRetryStep,
     PauseForQuotaStep, LeaveJobStep, CommitAdoptionStep, CancelInCommitStep
  DEF Worker
<1>4. CASE Control
  BY <1>4, PrepareBatchStep, PauseStep, CancelStep, ResumeStep, RecoverBatchStep,
     RecoverJobStep, StartRunStep, SignalStep
  DEF Control
<1>5. CASE Environment
  BY <1>5, CrashStep, StoreFailureStep, LapseStep, MaterialStep DEF Environment
<1> QED  BY <1>1, <1>2, <1>3, <1>4, <1>5 DEF Next

\* The stored rows and the runs over them stay well formed: a running job or
\* batch always has an owner and a lease and no other has one, whatever the
\* order of claims, crashes, pauses, quota stops and recoveries.
THEOREM TypeCorrect == Spec => []TypeOK
<1>1. Shape /\ [Next]_vars => Shape'
  BY NextShape
<1>2. Shape => TypeOK
  BY DEF Shape
<1> QED  BY InitShape, <1>1, <1>2, PTL DEF Spec

-----------------------------------------------------------------------------
(* The books are exact                                                     *)

\* The rows of a batch and of a job are finitely many, and the next row is none of them.
LEMMA RowsFinite ==
    ASSUME Shape, NEW b \in BatchIds, NEW j \in Jobs, NEW k \in Kinds
    PROVE  /\ IsFiniteSet(RowsOf(b, k)) /\ Cardinality(RowsOf(b, k)) \in Nat
           /\ IsFiniteSet(JobRowsOf(j, k)) /\ Cardinality(JobRowsOf(j, k)) \in Nat
           /\ Len(attempts) + 1 \notin RowsOf(b, k) \cup JobRowsOf(j, k)
<1>1. attempts \in Seq(AttemptRecord)
  BY TypeParts DEF Shape, AttemptsOK
<1>2. DOMAIN attempts = 1 .. Len(attempts) /\ Len(attempts) \in Nat
  BY <1>1
<1>3. IsFiniteSet(1 .. Len(attempts))
  BY <1>2, FS_Interval
<1>4. RowsOf(b, k) \subseteq 1 .. Len(attempts) /\ JobRowsOf(j, k) \subseteq 1 .. Len(attempts)
  BY <1>2 DEF RowsOf, JobRowsOf
<1>5. Len(attempts) + 1 \notin 1 .. Len(attempts)
  BY <1>2
<1> QED  BY <1>3, <1>4, <1>5, FS_Subset, FS_CardinalityType

\* Steps that keep the books keep every set of rows.
LEMMA RowsStay ==
    ASSUME RowsKept
    PROVE  /\ \A b \in BatchIds, k \in Kinds : RowsOf(b, k)' = RowsOf(b, k)
           /\ \A j \in Jobs, k \in Kinds : JobRowsOf(j, k)' = JobRowsOf(j, k)
BY DEF RowsKept, RowsOf, JobRowsOf

\* A reservation adds one row to the set of its batch, its job and its kind.
LEMMA RowsGrow ==
    ASSUME Shape, NEW b \in BatchIds, NEW j \in Jobs, NEW role \in Roles,
           BooksMove(b, j, role)
    PROVE  /\ \A c \in BatchIds, k \in Kinds :
                RowsOf(c, k)' = IF c = b /\ k = KindOf(role)
                                THEN RowsOf(c, k) \cup {Len(attempts) + 1} ELSE RowsOf(c, k)
           /\ \A i \in Jobs, k \in Kinds :
                JobRowsOf(i, k)' = IF i = j /\ k = KindOf(role)
                                   THEN JobRowsOf(i, k) \cup {Len(attempts) + 1}
                                   ELSE JobRowsOf(i, k)
<1> DEFINE row == [batch |-> b, job |-> j, role |-> role, status |-> "reserved",
                   answered |-> FALSE]
           n == Len(attempts)
<1>1. attempts \in Seq(AttemptRecord) /\ attempts' = Append(attempts, row)
  BY TypeParts DEF Shape, AttemptsOK, BooksMove
<1>2. /\ n \in Nat /\ DOMAIN attempts = 1 .. n /\ DOMAIN attempts' = 1 .. n + 1
      /\ \A i \in 1 .. n : attempts'[i] = attempts[i]
      /\ attempts'[n + 1] = row
  BY <1>1
<1>3. row.batch = b /\ row.job = j /\ row.role = role
  OBVIOUS
<1>4. 1 .. n + 1 = (1 .. n) \cup {n + 1} /\ n + 1 \notin 1 .. n
  BY <1>2
<1> HIDE DEF row, n
<1>5. ASSUME NEW c \in BatchIds, NEW k \in Kinds
      PROVE  RowsOf(c, k)' = IF c = b /\ k = KindOf(role)
                             THEN RowsOf(c, k) \cup {n + 1} ELSE RowsOf(c, k)
  BY <1>2, <1>3, <1>4 DEF RowsOf
<1>6. ASSUME NEW i \in Jobs, NEW k \in Kinds
      PROVE  JobRowsOf(i, k)' = IF i = j /\ k = KindOf(role)
                                THEN JobRowsOf(i, k) \cup {n + 1} ELSE JobRowsOf(i, k)
  BY <1>2, <1>3, <1>4 DEF JobRowsOf
<1> QED  BY <1>5, <1>6 DEF n

\* Every step keeps the accounts exact.
LEMMA AccountingStep ==
    ASSUME Shape, AccountingExact, [Next]_vars
    PROVE  AccountingExact'
<1>1. CASE BooksKept
  BY <1>1, RowsStay DEF AccountingExact, BooksKept, JobCallsKept, BatchCallsKept
<1>2. ASSUME NEW b \in BatchIds, NEW j \in Jobs, NEW role \in Roles, BooksMove(b, j, role)
      PROVE  AccountingExact'
  <2> DEFINE kind == KindOf(role)
  <2>1. /\ batch \in [BatchIds -> BatchRecord] /\ job \in [Jobs -> JobRecord]
        /\ batch' = [batch EXCEPT ![b] = Counted(batch[b], role)]
        /\ job' = [job EXCEPT ![j] = Counted(job[j], role)]
    BY <1>2, TypeParts DEF BooksMove, Shape, BatchesOK, JobsOK
  <2>2. ASSUME NEW c \in BatchIds, NEW k \in Kinds
        PROVE  batch'[c].calls[k] = Cardinality(RowsOf(c, k)')
    <3>1. batch'[c].calls[k] = IF c = b /\ k = kind THEN batch[c].calls[k] + 1
                               ELSE batch[c].calls[k]
      BY <2>1 DEF Counted, BatchRecord
    <3>2. /\ batch[c].calls[k] = Cardinality(RowsOf(c, k)) /\ IsFiniteSet(RowsOf(c, k))
          /\ Len(attempts) + 1 \notin RowsOf(c, k)
      BY RowsFinite DEF AccountingExact
    <3>3. Cardinality(RowsOf(c, k) \cup {Len(attempts) + 1}) = Cardinality(RowsOf(c, k)) + 1
      BY <3>2, FS_AddElement
    <3>4. RowsOf(c, k)' = IF c = b /\ k = kind THEN RowsOf(c, k) \cup {Len(attempts) + 1}
                          ELSE RowsOf(c, k)
      BY <1>2, RowsGrow
    <3> QED  BY <3>1, <3>2, <3>3, <3>4
  <2>3. ASSUME NEW i \in Jobs, NEW k \in Kinds
        PROVE  job'[i].calls[k] = Cardinality(JobRowsOf(i, k)')
    <3>1. job'[i].calls[k] = IF i = j /\ k = kind THEN job[i].calls[k] + 1
                             ELSE job[i].calls[k]
      BY <2>1 DEF Counted, JobRecord
    <3>2. /\ job[i].calls[k] = Cardinality(JobRowsOf(i, k)) /\ IsFiniteSet(JobRowsOf(i, k))
          /\ Len(attempts) + 1 \notin JobRowsOf(i, k)
      BY <1>2, RowsFinite DEF AccountingExact
    <3>3. Cardinality(JobRowsOf(i, k) \cup {Len(attempts) + 1})
             = Cardinality(JobRowsOf(i, k)) + 1
      BY <3>2, FS_AddElement
    <3>4. JobRowsOf(i, k)' = IF i = j /\ k = kind
                             THEN JobRowsOf(i, k) \cup {Len(attempts) + 1}
                             ELSE JobRowsOf(i, k)
      BY <1>2, RowsGrow
    <3> QED  BY <3>1, <3>2, <3>3, <3>4
  <2> QED  BY <2>2, <2>3 DEF AccountingExact
<1> QED  BY <1>1, <1>2, NextShape

\* They are exact at the start.
LEMMA InitAccounting == Init => AccountingExact
<1> SUFFICES ASSUME Init  PROVE AccountingExact
  OBVIOUS
<1>1. \A b \in BatchIds, k \in Kinds : RowsOf(b, k) = {} /\ batch[b].calls[k] = 0
  BY DEF Init, RowsOf, AbsentBatch, NoCalls
<1>2. \A j \in Jobs, k \in Kinds : JobRowsOf(j, k) = {} /\ job[j].calls[k] = 0
  BY DEF Init, JobRowsOf, AbsentJob, NoCalls
<1> QED  BY <1>1, <1>2, FS_EmptySet DEF AccountingExact

\* The books are exact for any number of runs, jobs and calls: every counter is
\* the number of rows reserved on its account.
THEOREM BooksExact == Spec => []AccountingExact
<1> DEFINE IInv == Shape /\ AccountingExact
<1>1. Init => IInv
  BY InitShape, InitAccounting
<1>2. IInv /\ [Next]_vars => IInv'
  BY NextShape, AccountingStep
<1>3. IInv => AccountingExact
  OBVIOUS
<1> QED  BY <1>1, <1>2, <1>3, PTL DEF Spec

-----------------------------------------------------------------------------
(* A stopped batch spends nothing                                          *)

\* Results are only added by an adoption that holds the batch and the job.
LEMMA ResultsStep ==
    ASSUME Shape, [Next]_vars
    PROVE  \/ UNCHANGED analyses
           \/ \E p \in Pipelines, j \in Jobs :
                 /\ CommitAdoption(p, j)
                 /\ HoldsBatch(p, run[p].batch) /\ HoldsJob(p, j)
                 /\ analyses' = analyses \cup
                      {[job |-> j, batch |-> run[p].batch, checked |-> work[p][j].checked]}
                 /\ job' = [job EXCEPT ![j] = Left(job[j], "succeeded")]
                 /\ UNCHANGED <<batch, attempts>>
<1>1. CASE UNCHANGED vars
  BY <1>1 DEF vars
<1>2. ASSUME NEW p \in Pipelines, RunStep(p)  PROVE UNCHANGED analyses
  BY <1>2 DEF RunStep, CancelUnclaimed, ClaimBatch, EndRun
<1>3. ASSUME NEW p \in Pipelines, NEW j \in Jobs, Worker(p, j), ~CommitAdoption(p, j)
      PROVE  UNCHANGED analyses
  BY <1>3 DEF Worker, ClaimJob, Reserve, StopBeforeCall, Settle, RegisterRetry,
     PauseForQuota, ReleaseJob, FailJob, CancelInCommit, store
<1>4. ASSUME NEW p \in Pipelines, NEW j \in Jobs, CommitAdoption(p, j)
      PROVE  \/ UNCHANGED analyses
             \/ /\ HoldsBatch(p, run[p].batch) /\ HoldsJob(p, j)
                /\ analyses' = analyses \cup
                     {[job |-> j, batch |-> run[p].batch, checked |-> work[p][j].checked]}
                /\ job' = [job EXCEPT ![j] = Left(job[j], "succeeded")]
                /\ UNCHANGED <<batch, attempts>>
  BY <1>4 DEF CommitAdoption
<1>5. CASE Control
  BY <1>5 DEF Control, PrepareBatch, Pause, Cancel, Resume, RecoverBatch, RecoverJob,
     StartRun, DeliverNotice, CancelToken, store
<1>6. CASE Environment
  BY <1>6 DEF Environment, Crash, StoreFailure, LapseBatch, LapseJob, Supersede,
     DecideManually, store
<1> QED  BY <1>1, <1>2, <1>3, <1>4, <1>5, <1>6 DEF Next

\* A batch that is not running gets no new row and no new result, by whichever
\* worker of whichever pipeline.
THEOREM StoppedSpendsNothing == Spec => StoppedBatchSpendsNothing
<1> DEFINE Quiet == \A b \in BatchIds : batch[b].status # "running" =>
              /\ \A k \in Kinds : RowsOf(b, k)' = RowsOf(b, k)
              /\ \A a \in analyses' \ analyses : a.batch # b
<1>1. Shape /\ [Next]_vars => Shape'
  BY NextShape
<1>2. ASSUME Shape, [Next]_vars  PROVE Quiet
  <2> SUFFICES ASSUME NEW b \in BatchIds, batch[b].status # "running"
               PROVE  /\ \A k \in Kinds : RowsOf(b, k)' = RowsOf(b, k)
                      /\ \A a \in analyses' \ analyses : a.batch # b
    OBVIOUS
  <2>1. \A k \in Kinds : RowsOf(b, k)' = RowsOf(b, k)
    <3>1. CASE BooksKept
      BY <3>1, RowsStay DEF BooksKept
    <3>2. ASSUME NEW c \in BatchIds, NEW j \in Jobs, NEW role \in Roles, BooksMove(c, j, role)
          PROVE  \A k \in Kinds : RowsOf(b, k)' = RowsOf(b, k)
      <4>1. b # c
        BY <3>2 DEF BooksMove
      <4> QED  BY <3>2, <4>1, RowsGrow, <1>2
    <3> QED  BY <1>2, <3>1, <3>2, NextShape
  <2>2. \A a \in analyses' \ analyses : a.batch # b
    BY <1>2, ResultsStep DEF HoldsBatch, OwnsBatch
  <2> QED  BY <2>1, <2>2
<1>3. Shape /\ [Next]_vars => [Quiet]_vars
  BY <1>2
<1> QED
  BY InitShape, <1>1, <1>3, PTL DEF Spec, StoppedBatchSpendsNothing

-----------------------------------------------------------------------------
(* Finished history                                                        *)

JobFinished(r) == r.status \in {"succeeded", "cancelled"}

\* The only jobs prepareBatch schedules are open, failed or new ones.
LEMMA ScheduledOpen ==
    ASSUME NEW s \in Snapshots, NEW reanalyze \in BOOLEAN, NEW j \in Schedulable(s, reanalyze)
    PROVE  ~JobFinished(job[j])
<1>1. CASE j = <<s, Legacy>>
  BY <1>1 DEF Schedulable, JobFinished
<1>2. CASE j # <<s, Legacy>>
  BY <1>2 DEF Schedulable, JobFinished
<1> QED  BY <1>1, <1>2

\* A succeeded or cancelled job never changes again.
LEMMA FinishedJobs ==
    ASSUME Shape, [Next]_vars, NEW j \in Jobs, JobFinished(job[j])
    PROVE  job'[j] = job[j]
<1> DEFINE Still == job'[j] = job[j]
<1>0. job \in [Jobs -> JobRecord] /\ LeaseShape(job[j]) /\ job[j].lease = "none"
  BY TypeParts DEF Shape, JobsOK, JobFinished, LeaseShape, JobRecord
<1>1. ASSUME NEW b \in BatchIds, CancelPersisted(b)  PROVE Still
  BY <1>0, <1>1 DEF CancelPersisted, JobFinished, JobOver
<1>2. CASE UNCHANGED vars
  BY <1>2 DEF vars
<1>3. ASSUME NEW p \in Pipelines, RunStep(p)  PROVE Still
  <2>1. CASE CancelUnclaimed(p)
    <3>1. run[p].batch \in BatchIds
      BY <2>1 DEF Shape, RunShape, CancelUnclaimed
    <3> QED  BY <1>1, <2>1, <3>1 DEF CancelUnclaimed
  <2>2. CASE ClaimBatch(p)
    BY <2>2 DEF ClaimBatch
  <2>3. CASE EndRun(p)
    <3>1. run[p].batch \in BatchIds
      BY <2>3 DEF Shape, RunShape, EndRun, RunDone
    <3> QED  BY <1>1, <2>3, <3>1 DEF EndRun
  <2> QED  BY <1>3, <2>1, <2>2, <2>3 DEF RunStep
<1>4. ASSUME NEW p \in Pipelines, NEW i \in Jobs, Worker(p, i)  PROVE Still
  <2>1. CASE ClaimJob(p, i)
    BY <1>0, <2>1 DEF ClaimJob, Claimable, JobFinished
  <2>2. CASE Reserve(p, i)
    BY <1>0, <2>2 DEF Reserve, HoldsJob, OwnsJob, JobFinished
  <2>3. CASE RegisterRetry(p, i)
    BY <1>0, <2>3 DEF RegisterRetry, OwnsJob, JobFinished
  <2>4. CASE PauseForQuota(p, i)
    BY <1>0, <2>4 DEF PauseForQuota, JobOver, JobFinished
  <2>5. CASE ReleaseJob(p, i) \/ FailJob(p, i)
    BY <1>0, <2>5 DEF ReleaseJob, FailJob, OwnsJob, JobOver, JobFinished
  <2>6. CASE CommitAdoption(p, i)
    BY <1>0, <2>6 DEF CommitAdoption, HoldsJob, OwnsJob, JobFinished
  <2>7. CASE CancelInCommit(p, i)
    <3>1. run[p].batch \in BatchIds
      BY <2>7, InPool DEF CancelInCommit
    <3> QED  BY <1>1, <2>7, <3>1 DEF CancelInCommit
  <2>8. CASE StopBeforeCall(p, i) \/ \E answer \in Answers, omissions \in BOOLEAN :
                Settle(p, i, answer, omissions)
    BY <2>8 DEF StopBeforeCall, Settle, store
  <2> QED  BY <1>4, <2>1, <2>2, <2>3, <2>4, <2>5, <2>6, <2>7, <2>8 DEF Worker
<1>5. ASSUME NEW b \in BatchIds, NEW chosen \in SUBSET Snapshots, NEW reanalyze \in BOOLEAN,
             NEW limits \in LimitChoices, PrepareBatch(b, chosen, reanalyze, limits)
      PROVE  Still
  <2> DEFINE left == {s \in chosen : reanalyze \/ ~CurrentlyChecked(s)}
  <2>1. PICK pick \in [left -> Jobs] :
           /\ \A s \in left : pick[s] \in Schedulable(s, reanalyze)
           /\ j \notin {pick[s] : s \in left} => job'[j] = job[j]
    BY <1>5 DEF PrepareBatch
  <2>2. j \notin {pick[s] : s \in left}
    BY <2>1, ScheduledOpen
  <2> QED  BY <2>1, <2>2
<1>6. CASE \E b \in BatchIds, limits \in LimitChoices : Resume(b, limits)
  BY <1>6 DEF Resume, JobFinished
<1>7. CASE \E p \in Pipelines, b \in BatchIds : Cancel(p, b)
  BY <1>1, <1>7 DEF Cancel
<1>8. CASE \E i \in Jobs : RecoverJob(i)
  BY <1>0, <1>8 DEF RecoverJob, JobFinished
<1>9. CASE Control
  BY <1>5, <1>6, <1>7, <1>8, <1>9
  DEF Control, Pause, RecoverBatch, StartRun, DeliverNotice, CancelToken, store
<1>10. CASE Environment
  BY <1>0, <1>10 DEF Environment, Crash, StoreFailure, LapseBatch, LapseJob, Supersede,
     DecideManually, store
<1> QED  BY <1>2, <1>3, <1>4, <1>9, <1>10 DEF Next

\* How a step moves the batches: none changes status or budget, or exactly one
\* unfinished batch is granted a budget, opened or closed.
BatchSame == \A c \in BatchIds :
    /\ batch'[c].status = batch[c].status /\ batch'[c].limits = batch[c].limits
    /\ BatchOver(batch[c]) => batch'[c] = batch[c]
OneMoved(b) ==
    /\ ~BatchOver(batch[b])
    /\ \A c \in BatchIds \ {b} : batch'[c] = batch[c]
Granted(b) ==
    /\ OneMoved(b) /\ batch[b].status # "running"
    /\ batch'[b].status = "pending" /\ batch'[b].limits \in LimitChoices
Opened(b) ==
    OneMoved(b) /\ batch'[b].status = "running" /\ batch'[b].limits = batch[b].limits
Closed(b) ==
    OneMoved(b) /\ batch'[b].status # "running" /\ batch'[b].limits = batch[b].limits
BatchMoved == BatchSame \/ \E b \in BatchIds : Granted(b) \/ Opened(b) \/ Closed(b)

\* Batches that rest have moved as BatchMoved allows.
LEMMA BatchUnchanged == UNCHANGED batch => BatchMoved
BY DEF BatchMoved, BatchSame

\* So have they when one leaves for a status that is not running.
LEMMA BatchLeft ==
    ASSUME Shape, NEW b \in BatchIds, NEW s \in BatchStatuses \ {"running"},
           ~BatchOver(batch[b]), batch' = [batch EXCEPT ![b] = Left(batch[b], s)]
    PROVE  BatchMoved
<1>1. batch \in [BatchIds -> BatchRecord]
  BY TypeParts DEF Shape, BatchesOK
<1>2. Left(batch[b], s).limits = batch[b].limits /\ Left(batch[b], s).status = s
  BY <1>1, LeftBatch
<1> QED  BY <1>1, <1>2 DEF BatchMoved, Closed, OneMoved

\* Every step moves the batches as BatchMoved allows.
LEMMA BatchMoves ==
    ASSUME Shape, [Next]_vars
    PROVE  BatchMoved
<1>0. /\ batch \in [BatchIds -> BatchRecord]
      /\ {"pending", "paused", "cancelled"} \subseteq BatchStatuses \ {"running"}
  BY TypeParts DEF Shape, BatchesOK, BatchStatuses
<1>1. ASSUME NEW b \in BatchIds, CancelPersisted(b)  PROVE BatchMoved
  BY <1>0, <1>1, BatchLeft, BatchUnchanged DEF CancelPersisted
<1>2. CASE UNCHANGED vars
  BY <1>2, BatchUnchanged DEF vars
<1>3. ASSUME NEW p \in Pipelines, RunStep(p)  PROVE BatchMoved
  <2> DEFINE b == run[p].batch
  <2>1. b \in BatchIds
    BY <1>3 DEF Shape, RunShape, RunStep, CancelUnclaimed, ClaimBatch, EndRun, RunDone
  <2>2. CASE CancelUnclaimed(p)
    BY <1>1, <2>1, <2>2 DEF CancelUnclaimed
  <2>3. CASE ClaimBatch(p)
    <3>1. CASE UNCHANGED batch
      BY <3>1, BatchUnchanged
    <3>2. CASE ~UNCHANGED batch
      <4> DEFINE claimed == [batch[b] EXCEPT !.status = "running", !.owner = p,
                                             !.lease = "live"]
      <4>1. batch' = [batch EXCEPT ![b].status = "running", ![b].owner = p,
                                   ![b].lease = "live"]
        BY <2>3, <3>2 DEF ClaimBatch
      <4>2. batch[b].status = "pending" \/ batch[b].status = "running"
        BY <2>3, <3>2 DEF ClaimBatch
      <4>3. batch' = [batch EXCEPT ![b] = claimed]
        BY <1>0, <2>1, <4>1
      <4>4. claimed.status = "running" /\ claimed.limits = batch[b].limits
        BY <1>0, <2>1 DEF BatchRecord
      <4> HIDE DEF claimed
      <4> QED  BY <1>0, <2>1, <4>2, <4>3, <4>4 DEF BatchMoved, Opened, OneMoved, BatchOver
    <3> QED  BY <3>1, <3>2
  <2>4. CASE EndRun(p)
    <3>1. CASE FinalizeBatch(p, b)
      BY <2>1, <3>1, FinalStatusType, BatchLeft, BatchUnchanged
      DEF FinalizeBatch, OwnsBatch, BatchOver
    <3> QED  BY <1>1, <2>1, <2>4, <3>1, BatchUnchanged DEF EndRun
  <2> QED  BY <1>3, <2>2, <2>3, <2>4 DEF RunStep
<1>4. ASSUME NEW p \in Pipelines, NEW j \in Jobs, Worker(p, j)  PROVE BatchMoved
  <2> DEFINE b == run[p].batch
  <2>1. CASE Reserve(p, j)
    <3>1. CASE UNCHANGED batch
      BY <3>1, BatchUnchanged
    <3>2. CASE ~UNCHANGED batch
      <4>1. batch' = [batch EXCEPT ![b] = Counted(batch[b], work[p][j].role)]
        BY <2>1, <3>2 DEF Reserve
      <4>2. batch[b].status = "running" /\ b \in BatchIds
        BY <2>1, <3>2, InPool DEF Reserve, HoldsBatch, OwnsBatch
      <4>3. Counted(batch[b], work[p][j].role).limits = batch[b].limits
        BY <1>0, <4>2 DEF Counted, BatchRecord
      <4>4. Counted(batch[b], work[p][j].role).status = batch[b].status
        BY <1>0, <4>2 DEF Counted, BatchRecord
      <4> QED
        BY <1>0, <4>1, <4>2, <4>3, <4>4 DEF BatchMoved, BatchSame, BatchOver
    <3> QED  BY <3>1, <3>2
  <2>2. CASE RegisterRetry(p, j)
    <3>1. CASE UNCHANGED batch
      BY <3>1, BatchUnchanged
    <3>2. CASE ~UNCHANGED batch
      <4>1. /\ batch' = [batch EXCEPT ![b].retries = batch[b].retries + 1,
                                      ![b].lease = "live"]
            /\ batch[b].status = "running"
        BY <2>2, <3>2 DEF RegisterRetry, OwnsBatch
      <4> QED  BY <1>0, <4>1 DEF BatchRecord, BatchMoved, BatchSame, BatchOver
    <3> QED  BY <3>1, <3>2
  <2>3. CASE PauseForQuota(p, j)
    <3>1. b \in BatchIds
      BY <2>3, InPool DEF PauseForQuota
    <3> QED  BY <1>0, <2>3, <3>1, BatchLeft, BatchUnchanged
             DEF PauseForQuota, OwnsBatch, BatchOver
  <2>4. CASE CancelInCommit(p, j)
    <3>1. b \in BatchIds
      BY <2>4, InPool DEF CancelInCommit
    <3> QED  BY <1>1, <2>4, <3>1 DEF CancelInCommit
  <2> QED  BY <1>4, <2>1, <2>2, <2>3, <2>4, BatchUnchanged
           DEF Worker, ClaimJob, StopBeforeCall, Settle, ReleaseJob, FailJob, CommitAdoption,
               store
<1>5. CASE Control
  <2>1. ASSUME NEW b \in BatchIds, NEW chosen \in SUBSET Snapshots,
               NEW reanalyze \in BOOLEAN, NEW limits \in LimitChoices,
               PrepareBatch(b, chosen, reanalyze, limits)
        PROVE  BatchMoved
    <3>1. PICK r : /\ batch' = [batch EXCEPT ![b] = r]
                   /\ r.status = "pending" /\ r.limits = limits
      <4>1. PICK jobs, captured :
               batch' = [batch EXCEPT ![b] =
                  [AbsentBatch EXCEPT !.status = "pending", !.jobs = jobs,
                                      !.limits = limits, !.captured = captured]]
        BY <2>1 DEF PrepareBatch
      <4> DEFINE r == [AbsentBatch EXCEPT !.status = "pending", !.jobs = jobs,
                                         !.limits = limits, !.captured = captured]
      <4>2. r.status = "pending" /\ r.limits = limits
        BY DEF AbsentBatch
      <4>3. batch' = [batch EXCEPT ![b] = r]
        BY <4>1
      <4> HIDE DEF r
      <4> QED  BY <4>2, <4>3
    <3> QED  BY <1>0, <2>1, <3>1 DEF BatchMoved, Granted, OneMoved, BatchOver, PrepareBatch
  <2>2. ASSUME NEW b \in BatchIds, NEW limits \in LimitChoices, Resume(b, limits)
        PROVE  BatchMoved
    <3> DEFINE r == [Left(batch[b], "pending") EXCEPT !.limits = limits]
    <3>1. batch' = [batch EXCEPT ![b] = r] /\ batch[b].status \in {"pending", "paused", "failed"}
      BY <2>2 DEF Resume
    <3>2. Left(batch[b], "pending") \in BatchRecord /\ Left(batch[b], "pending").status = "pending"
      BY <1>0, LeftBatch DEF BatchOK
    <3>3. r.status = "pending" /\ r.limits = limits
      BY <3>2 DEF BatchRecord
    <3> HIDE DEF r
    <3> QED  BY <1>0, <3>1, <3>3 DEF BatchMoved, Granted, OneMoved, BatchOver
  <2>3. ASSUME NEW p \in Pipelines, NEW b \in BatchIds, Pause(p, b)  PROVE BatchMoved
    BY <1>0, <2>3, BatchLeft DEF Pause, BatchOver
  <2>4. ASSUME NEW b \in BatchIds, RecoverBatch(b)  PROVE BatchMoved
    BY <1>0, <2>4, BatchLeft, BatchUnchanged DEF RecoverBatch, BatchOver
  <2> QED  BY <1>1, <1>5, <2>1, <2>2, <2>3, <2>4, BatchUnchanged
           DEF Control, Cancel, RecoverJob, StartRun, DeliverNotice, CancelToken, store
<1>6. CASE Environment
  <2>1. ASSUME NEW b \in BatchIds, LapseBatch(b)  PROVE BatchMoved
    <3>1. /\ batch' = [batch EXCEPT ![b].lease = "lapsed"]
          /\ batch[b].lease = "live" /\ LeaseShape(batch[b])
      BY <2>1, TypeParts DEF LapseBatch, Shape, BatchesOK
    <3> QED  BY <1>0, <3>1 DEF BatchRecord, BatchMoved, BatchSame, BatchOver, LeaseShape
  <2> QED  BY <1>6, <2>1, BatchUnchanged
           DEF Environment, Crash, StoreFailure, LapseJob, Supersede, DecideManually, store
<1> QED  BY <1>2, <1>3, <1>4, <1>5, <1>6 DEF Next

-----------------------------------------------------------------------------
(* The pipeline implements its ledger                                      *)

\* An adopted result belongs to a succeeded job.
ResultsSucceeded == \A a \in analyses : job[a.job].status = "succeeded"

\* Every step keeps the results those of jobs that succeeded.
LEMMA ResultsSucceededStep ==
    ASSUME Shape, ResultsSucceeded, [Next]_vars
    PROVE  ResultsSucceeded'
<1>1. \A a \in analyses : a.job \in Jobs
  BY TypeParts DEF Shape, EnvOK, ResultRecord
<1>2. \A a \in analyses : job'[a.job] = job[a.job]
  BY <1>1, FinishedJobs DEF ResultsSucceeded, JobFinished
<1>3. CASE UNCHANGED analyses
  BY <1>2, <1>3 DEF ResultsSucceeded
<1>4. ASSUME NEW p \in Pipelines, NEW j \in Jobs,
             analyses' = analyses \cup
                {[job |-> j, batch |-> run[p].batch, checked |-> work[p][j].checked]},
             job' = [job EXCEPT ![j] = Left(job[j], "succeeded")]
      PROVE  ResultsSucceeded'
  <2>1. job \in [Jobs -> JobRecord] /\ "succeeded" \in JobStatuses \ {"running"}
    BY TypeParts DEF Shape, JobsOK, JobStatuses
  <2>2. job'[j].status = "succeeded"
    BY <1>4, <2>1, LeftJob
  <2> QED  BY <1>2, <1>4, <2>2 DEF ResultsSucceeded
<1> QED  BY <1>3, <1>4, ResultsStep

\* What the refinement mapping gives for the calls spent.
spentRows == [b \in BatchIds |-> [k \in Kinds |-> Cardinality(RowsOf(b, k))]]

\* The pipeline begins where the ledger begins.
LEMMA LedgerInit == Init => Ledger!Init
<1> SUFFICES ASSUME Init  PROVE Ledger!Init
  OBVIOUS
<1>1. \A b \in BatchIds : batch[b] = AbsentBatch /\ \A k \in Kinds : RowsOf(b, k) = {}
  BY DEF Init, RowsOf
<1>2. AbsentBatch.limits = [k \in Kinds |-> 0] /\ AbsentBatch.status = "absent"
  BY DEF AbsentBatch, NoCalls
<1>3. analyses = {}
  BY DEF Init
<1> QED  BY <1>1, <1>2, <1>3, FS_EmptySet DEF Ledger!Init, BatchOver

\* A reservation spends one call of an open batch within its budget.
LEMMA LedgerSpends ==
    ASSUME Shape, AccountingExact, UNCHANGED analyses,
           NEW b \in BatchIds, NEW j \in Jobs, NEW role \in Roles, BooksMove(b, j, role)
    PROVE  Ledger!Spend(b, KindOf(role)) /\ KindOf(role) \in Kinds
<1> DEFINE kind == KindOf(role)
<1>0. kind \in Kinds /\ batch \in [BatchIds -> BatchRecord]
  BY TypeParts DEF KindOf, Kinds, Roles, Shape, BatchesOK
<1>1. /\ batch' = [batch EXCEPT ![b] = Counted(batch[b], role)]
      /\ batch[b].status = "running" /\ batch[b].calls[kind] < batch[b].limits[kind]
  BY DEF BooksMove, BudgetLeft
<1>2. /\ Counted(batch[b], role).limits = batch[b].limits
      /\ Counted(batch[b], role).status = batch[b].status
  BY <1>0 DEF Counted, BatchRecord
<1>3. \A c \in BatchIds : batch'[c].limits = batch[c].limits /\ batch'[c].status = batch[c].status
  BY <1>0, <1>1, <1>2
<1>4. ASSUME NEW c \in BatchIds, NEW k \in Kinds
      PROVE  Cardinality(RowsOf(c, k)') = IF c = b /\ k = kind
                THEN Cardinality(RowsOf(c, k)) + 1 ELSE Cardinality(RowsOf(c, k))
  <2>1. IsFiniteSet(RowsOf(c, k)) /\ Len(attempts) + 1 \notin RowsOf(c, k)
    BY RowsFinite
  <2>2. Cardinality(RowsOf(c, k) \cup {Len(attempts) + 1}) = Cardinality(RowsOf(c, k)) + 1
    BY <2>1, FS_AddElement
  <2>3. RowsOf(c, k)' = IF c = b /\ k = kind THEN RowsOf(c, k) \cup {Len(attempts) + 1}
                        ELSE RowsOf(c, k)
    BY RowsGrow
  <2> QED  BY <2>2, <2>3
<1>5. batch[b].calls[kind] = Cardinality(RowsOf(b, kind))
  BY <1>0 DEF AccountingExact
<1>6. spentRows' = [spentRows EXCEPT ![b][kind] = spentRows[b][kind] + 1]
  BY <1>0, <1>4 DEF spentRows
<1> HIDE DEF kind
<1>7. Ledger!Spend(b, kind)
  BY <1>0, <1>1, <1>3, <1>5, <1>6 DEF Ledger!Spend, spentRows, BatchOver
<1> QED  BY <1>0, <1>7 DEF kind

\* Every step of the pipeline is a step of the ledger or invisible to it.
LEMMA LedgerNext ==
    ASSUME Shape, AccountingExact, ResultsSucceeded, [Next]_vars
    PROVE  [Ledger!Next]_Ledger!vars
<1>1. ASSUME NEW b \in BatchIds, NEW j \in Jobs, NEW role \in Roles, BooksMove(b, j, role),
             UNCHANGED analyses
      PROVE  Ledger!Next
  BY <1>1, LedgerSpends DEF Ledger!Next
<1>2. ASSUME NEW p \in Pipelines, NEW j \in Jobs,
             HoldsBatch(p, run[p].batch), HoldsJob(p, j), CommitAdoption(p, j),
             analyses' = analyses \cup
                {[job |-> j, batch |-> run[p].batch, checked |-> work[p][j].checked]},
             UNCHANGED <<batch, attempts>>
      PROVE  Ledger!Next
  <2> DEFINE b == run[p].batch
             a == [job |-> j, batch |-> b, checked |-> work[p][j].checked]
  <2>1. b \in BatchIds /\ batch[b].status = "running" /\ job[j].status = "running"
    BY <1>2, InPool DEF CommitAdoption, HoldsBatch, HoldsJob, OwnsBatch, OwnsJob
  <2>2. j \notin {x.job : x \in analyses}
    BY <2>1 DEF ResultsSucceeded
  <2>3. a.job = j
    OBVIOUS
  <2>4. {x.job : x \in analyses'} = {x.job : x \in analyses} \cup {j}
    BY <1>2, <2>3
  <2>5. \A c \in BatchIds, k \in Kinds : RowsOf(c, k)' = RowsOf(c, k)
    BY <1>2 DEF RowsOf
  <2>6. Ledger!Adopt(b, j)
    BY <1>2, <2>1, <2>2, <2>4, <2>5 DEF Ledger!Adopt, BatchOver
  <2> QED  BY <2>1, <2>6 DEF Ledger!Next
<1>3. CASE BooksKept /\ UNCHANGED analyses
  <2>1. \A c \in BatchIds, k \in Kinds : RowsOf(c, k)' = RowsOf(c, k)
    BY <1>3, RowsStay DEF BooksKept
  <2>2. CASE BatchSame
    <3>1. UNCHANGED Ledger!vars
      BY <1>3, <2>1, <2>2 DEF BatchSame, Ledger!vars, BatchOver
    <3> QED  BY <3>1
  <2>3. ASSUME NEW b \in BatchIds, Granted(b)  PROVE Ledger!Next
    <3>1. Ledger!Grant(b)
      BY <1>3, <2>1, <2>3 DEF Granted, OneMoved, Ledger!Grant, BatchOver
    <3> QED  BY <3>1 DEF Ledger!Next
  <2>4. ASSUME NEW b \in BatchIds, Opened(b)  PROVE Ledger!Next
    <3>1. Ledger!Open(b)
      BY <1>3, <2>1, <2>4 DEF Opened, OneMoved, Ledger!Open, BatchOver
    <3> QED  BY <3>1 DEF Ledger!Next
  <2>5. ASSUME NEW b \in BatchIds, Closed(b)  PROVE Ledger!Next
    <3>1. Ledger!Close(b)
      BY <1>3, <2>1, <2>5 DEF Closed, OneMoved, Ledger!Close, BatchOver
    <3> QED  BY <3>1 DEF Ledger!Next
  <2> QED  BY <2>2, <2>3, <2>4, <2>5, BatchMoves DEF BatchMoved
<1>4. ASSUME NEW b \in BatchIds, NEW j \in Jobs, NEW role \in Roles, BooksMove(b, j, role),
             UNCHANGED <<batch, attempts>>
      PROVE  FALSE
  <2>1. attempts \in Seq(AttemptRecord)
    BY TypeParts DEF Shape, AttemptsOK
  <2>2. \E row : attempts' = Append(attempts, row)
    BY <1>4 DEF BooksMove
  <2> QED  BY <1>4, <2>1, <2>2
<1> QED  BY <1>1, <1>2, <1>3, <1>4, NextShape, ResultsStep

\* Every behaviour of the pipeline is a behaviour of AnalysisLedger: through all
\* pauses, crashes, takeovers, retries and resumes money is only spent, and
\* results are only adopted, as the ledger allows.
THEOREM PipelineImplementsLedger == Spec => ImplementsLedger
<1> DEFINE IInv == Shape /\ AccountingExact /\ ResultsSucceeded
<1>1. Init => IInv
  BY InitShape, InitAccounting DEF Init, ResultsSucceeded
<1>2. IInv /\ [Next]_vars => IInv'
  BY NextShape, AccountingStep, ResultsSucceededStep
<1>3. IInv /\ [Next]_vars => [Ledger!Next]_Ledger!vars
  BY LedgerNext
<1> QED  BY <1>1, <1>2, <1>3, LedgerInit, PTL DEF Spec, ImplementsLedger, Ledger!Spec

-----------------------------------------------------------------------------
(* Finished history is immutable                                           *)

\* No worker enters a call, and the ones in a call keep their row.
CallsStay == \A p \in Pipelines, j \in Jobs : work'[p][j].at = "call" =>
    work[p][j].at = "call" /\ work'[p][j].row = work[p][j].row

\* Every call in flight has a row of its own that is not settled yet.
CallShape == \A p \in Pipelines, j \in Jobs : InCall(p, j) =>
    /\ work[p][j].row \in DOMAIN attempts
    /\ attempts[work[p][j].row].status # "settled"
    /\ \A q \in Pipelines, i \in Jobs :
          InCall(q, i) /\ work[q][i].row = work[p][j].row => q = p /\ i = j

\* A worker that leaves its stage for another one than a call.
LEMMA WorkLeaves ==
    ASSUME Shape, NEW p \in Pipelines, NEW j \in Jobs,
           \/ Done(p, j)
           \/ \E stage \in {"quota", "release", "fail", "cancel"} : Goto(p, j, stage)
           \/ \E role \in Roles, retries \in Nat : Dispatch(p, j, role, retries)
           \/ UNCHANGED work
    PROVE  CallsStay
<1>1. work \in [Pipelines -> [Jobs -> WorkRecord]]
  BY TypeParts DEF Shape, WorkOK
<1>2. CASE UNCHANGED work
  BY <1>2 DEF CallsStay
<1>3. CASE Done(p, j)
  BY <1>1, <1>3 DEF Done, NoWork, CallsStay
<1>4. ASSUME NEW stage \in {"quota", "release", "fail", "cancel"}, Goto(p, j, stage)
      PROVE  CallsStay
  <2> DEFINE w == [NoWork EXCEPT !.at = stage]
  <2>1. w.at # "call"
    BY DEF NoWork
  <2>2. work' = [work EXCEPT ![p][j] = w]
    BY <1>4 DEF Goto
  <2> HIDE DEF w
  <2> QED  BY <1>1, <2>1, <2>2 DEF CallsStay
<1>5. ASSUME NEW role \in Roles, NEW retries \in Nat, Dispatch(p, j, role, retries)
      PROVE  CallsStay
  <2>1. CASE Flagged(p)
    BY <1>4, <1>5, <2>1 DEF Dispatch
  <2>2. CASE ~Flagged(p)
    <3>1. work' = [work EXCEPT ![p][j].at = "reserve", ![p][j].role = role,
                               ![p][j].retries = retries]
      BY <1>5, <2>2 DEF Dispatch
    <3> QED  BY <1>1, <3>1 DEF CallsStay, WorkRecord
  <2> QED  BY <2>1, <2>2
<1> QED  BY <1>2, <1>3, <1>4, <1>5

\* Who writes rows: a reservation, a booking and the recovery of a job.
LEMMA RowsStep ==
    ASSUME Shape, [Next]_vars
    PROVE  \/ UNCHANGED attempts /\ CallsStay
           \/ \E j \in Jobs : RecoverJob(j) /\ UNCHANGED work
           \/ \E p \in Pipelines, j \in Jobs :
                 /\ \E b \in BatchIds, role \in Roles : BooksMove(b, j, role)
                 /\ work' = [work EXCEPT ![p][j].at = "call", ![p][j].row = Len(attempts) + 1]
           \/ \E p \in Pipelines, j \in Jobs, answer \in Answers, omissions \in BOOLEAN :
                 Settle(p, j, answer, omissions)
<1> DEFINE Quiet == UNCHANGED attempts /\ CallsStay
<1>0. work \in [Pipelines -> [Jobs -> WorkRecord]] /\ MaxRetries \in Nat
  BY TypeParts, BoundsAssumption DEF Shape, WorkOK
<1>1. UNCHANGED work => CallsStay
  BY DEF CallsStay
<1>2. CASE UNCHANGED vars
  BY <1>1, <1>2 DEF vars
<1>3. ASSUME NEW p \in Pipelines, RunStep(p)  PROVE Quiet
  BY <1>1, <1>3 DEF RunStep, CancelUnclaimed, ClaimBatch, EndRun
<1>4. ASSUME NEW p \in Pipelines, NEW j \in Jobs, Worker(p, j)
      PROVE  \/ Quiet
             \/ /\ \E b \in BatchIds, role \in Roles : BooksMove(b, j, role)
                /\ work' = [work EXCEPT ![p][j].at = "call", ![p][j].row = Len(attempts) + 1]
             \/ \E answer \in Answers, omissions \in BOOLEAN : Settle(p, j, answer, omissions)
  <2>1. CASE ClaimJob(p, j)
    <3>1. FirstRole(run[p].batch, j) \in Roles
      BY DEF FirstRole, Roles
    <3> QED  BY <1>0, <2>1, <3>1, WorkLeaves DEF ClaimJob
  <2>2. CASE Reserve(p, j)
    <3>1. work[p][j].role \in Roles /\ run[p].batch \in BatchIds
      BY <1>0, <2>2, InPool DEF Reserve, WorkRecord
    <3>2. CASE Goto(p, j, "fail") \/ Goto(p, j, "release") \/ Goto(p, j, "quota")
      <4>1. UNCHANGED attempts
        BY <2>2, <3>2, <1>0 DEF Reserve, Goto, NoWork
      <4> QED  BY <3>2, <4>1, WorkLeaves
    <3>3. CASE ~(Goto(p, j, "fail") \/ Goto(p, j, "release") \/ Goto(p, j, "quota"))
      <4>1. /\ BooksMove(run[p].batch, j, work[p][j].role)
            /\ work' = [work EXCEPT ![p][j].at = "call", ![p][j].row = Len(attempts) + 1]
        BY <2>2, <3>3 DEF Reserve, BooksMove, HoldsBatch, HoldsJob, OwnsBatch, OwnsJob
      <4> QED  BY <3>1, <4>1
    <3> QED  BY <3>2, <3>3
  <2>3. CASE RegisterRetry(p, j)
    <3>1. work[p][j].role \in Roles /\ work[p][j].retries - 1 \in Nat
      <4>1. work[p][j] \in WorkRecord
        BY <1>0
      <4>2. work[p][j].retries \in Nat /\ work[p][j].role \in Roles /\ work[p][j].retries > 0
        BY <2>3, <4>1 DEF Shape, RunShape, WorkRecord, RegisterRetry
      <4> QED  BY <4>2
    <3>2. UNCHANGED attempts
      BY <2>3 DEF RegisterRetry
    <3> QED  BY <2>3, <3>1, <3>2, WorkLeaves DEF RegisterRetry
  <2>4. CASE StopBeforeCall(p, j) \/ PauseForQuota(p, j) \/ ReleaseJob(p, j) \/ FailJob(p, j)
             \/ CommitAdoption(p, j) \/ CancelInCommit(p, j)
    BY <2>4, WorkLeaves
    DEF StopBeforeCall, PauseForQuota, ReleaseJob, FailJob, CommitAdoption, CancelInCommit, store
  <2> QED  BY <1>4, <2>1, <2>2, <2>3, <2>4 DEF Worker
<1>5. CASE Control
  BY <1>1, <1>5 DEF Control, PrepareBatch, Pause, Cancel, Resume, RecoverBatch, RecoverJob,
     StartRun, DeliverNotice, CancelToken, store
<1>6. CASE Environment
  <2>1. ASSUME NEW p \in Pipelines, Crash(p)  PROVE Quiet
    BY <1>0, <2>1 DEF Crash, store, CallsStay, NoWork
  <2>2. ASSUME NEW p \in Pipelines, NEW j \in Jobs, StoreFailure(p, j)  PROVE Quiet
    BY <2>2, WorkLeaves DEF StoreFailure, store
  <2> QED  BY <1>1, <1>6, <2>1, <2>2
           DEF Environment, LapseBatch, LapseJob, Supersede, DecideManually, store
<1> QED  BY <1>2, <1>3, <1>4, <1>5, <1>6 DEF Next

\* Booking an answer: the row of the call, and the call is over.
LEMMA SettleEffect ==
    ASSUME Shape, NEW p \in Pipelines, NEW j \in Jobs, NEW answer \in Answers,
           NEW omissions \in BOOLEAN, Settle(p, j, answer, omissions)
    PROVE  /\ InCall(p, j)
           /\ attempts' = [attempts EXCEPT ![work[p][j].row]
                                       = Booked(attempts[work[p][j].row], answer)]
           /\ work'[p][j].at # "call"
           /\ \A q \in Pipelines, i \in Jobs : q # p \/ i # j => work'[q][i] = work[q][i]
<1>0. work \in [Pipelines -> [Jobs -> WorkRecord]]
  BY TypeParts DEF Shape, WorkOK
<1>1. /\ InCall(p, j)
      /\ attempts' = [attempts EXCEPT ![work[p][j].row]
                                  = Booked(attempts[work[p][j].row], answer)]
  BY DEF Settle, InCall
<1>2. \/ Dispatch(p, j, "verification", MaxRetries)
      \/ work' = [work EXCEPT ![p][j].at = "commit",
                    ![p][j].checked = omissions /\ work[p][j].role = "verification"]
      \/ \E stage \in {"quota", "release", "fail", "cancel"} : Goto(p, j, stage)
      \/ work' = [work EXCEPT ![p][j].at = "retry"]
  BY DEF Settle, MayRetry, Answers
<1>3. CASE \E stage \in {"quota", "release", "fail", "cancel"} : Goto(p, j, stage)
  <2>1. PICK stage \in {"quota", "release", "fail", "cancel"} : Goto(p, j, stage)
    BY <1>3
  <2>2. work' = [work EXCEPT ![p][j] = [NoWork EXCEPT !.at = stage]]
    BY <2>1 DEF Goto
  <2>3. [NoWork EXCEPT !.at = stage].at = stage
    BY DEF NoWork
  <2> QED  BY <1>0, <1>1, <2>2, <2>3
<1>4. CASE Dispatch(p, j, "verification", MaxRetries)
  <2>1. CASE Flagged(p)
    BY <1>3, <1>4, <2>1 DEF Dispatch
  <2>2. CASE ~Flagged(p)
    BY <1>0, <1>1, <1>4, <2>2 DEF Dispatch, WorkRecord
  <2> QED  BY <2>1, <2>2
<1>5. CASE work' = [work EXCEPT ![p][j].at = "commit",
                      ![p][j].checked = omissions /\ work[p][j].role = "verification"]
  <2> DEFINE checked == omissions /\ work[p][j].role = "verification"
  <2>1. work' = [work EXCEPT ![p][j].at = "commit", ![p][j].checked = checked]
    BY <1>5
  <2> HIDE DEF checked
  <2> QED  BY <1>0, <1>1, <2>1 DEF WorkRecord
<1>6. CASE work' = [work EXCEPT ![p][j].at = "retry"]
  BY <1>0, <1>1, <1>6 DEF WorkRecord
<1> QED  BY <1>2, <1>3, <1>4, <1>5, <1>6

\* Every step keeps the shape of the calls.
LEMMA CallShapeStep ==
    ASSUME Shape, CallShape, [Next]_vars
    PROVE  CallShape'
<1>0. attempts \in Seq(AttemptRecord) /\ work \in [Pipelines -> [Jobs -> WorkRecord]]
  BY TypeParts DEF Shape, AttemptsOK, WorkOK
<1>1. CASE UNCHANGED attempts /\ CallsStay
  BY <1>1 DEF CallShape, CallsStay, InCall
<1>2. ASSUME NEW j \in Jobs, RecoverJob(j), UNCHANGED work
      PROVE  CallShape'
  <2>1. /\ DOMAIN attempts' = DOMAIN attempts
        /\ \A i \in DOMAIN attempts :
              attempts[i].status # "settled" => attempts'[i].status # "settled"
    <3>1. CASE UNCHANGED attempts
      BY <3>1
    <3>2. CASE ~UNCHANGED attempts
      <4>1. attempts' = [i \in DOMAIN attempts |->
               IF attempts[i].job = j /\ attempts[i].status = "reserved"
               THEN [attempts[i] EXCEPT !.status = "uncertain"] ELSE attempts[i]]
        BY <1>2, <3>2 DEF RecoverJob
      <4>2. \A i \in DOMAIN attempts : attempts[i] \in AttemptRecord
        BY <1>0
      <4> QED  BY <4>1, <4>2 DEF AttemptRecord
    <3> QED  BY <3>1, <3>2
  <2> QED  BY <1>2, <2>1 DEF CallShape, InCall
<1>3. ASSUME NEW p \in Pipelines, NEW j \in Jobs, NEW b \in BatchIds, NEW role \in Roles,
             BooksMove(b, j, role),
             work' = [work EXCEPT ![p][j].at = "call", ![p][j].row = Len(attempts) + 1]
      PROVE  CallShape'
  <2> DEFINE n == Len(attempts)
             row == [batch |-> b, job |-> j, role |-> role, status |-> "reserved",
                     answered |-> FALSE]
  <2>1. n \in Nat /\ DOMAIN attempts = 1 .. n /\ attempts' = Append(attempts, row)
    BY <1>0, <1>3 DEF BooksMove
  <2>2. /\ DOMAIN attempts' = 1 .. n + 1
        /\ \A i \in 1 .. n : attempts'[i] = attempts[i]
        /\ attempts'[n + 1] = row
    BY <1>0, <2>1
  <2>3. attempts'[n + 1].status # "settled"
    BY <2>2
  <2>4. work'[p][j].at = "call" /\ work'[p][j].row = n + 1
    BY <1>0, <1>3 DEF WorkRecord
  <2>5. \A q \in Pipelines, i \in Jobs : q # p \/ i # j => work'[q][i] = work[q][i]
    BY <1>0, <1>3
  <2> HIDE DEF n, row
  <2>6. ASSUME NEW q \in Pipelines, NEW i \in Jobs, q # p \/ i # j, InCall(q, i)
        PROVE  work[q][i].row \in 1 .. n /\ work[q][i].row # n + 1
    BY <2>1, <2>6 DEF CallShape
  <2>7. ASSUME NEW q \in Pipelines, NEW i \in Jobs, work'[q][i].at = "call"
        PROVE  /\ work'[q][i].row \in DOMAIN attempts'
               /\ attempts'[work'[q][i].row].status # "settled"
    <3>1. CASE q = p /\ i = j
      BY <2>1, <2>2, <2>3, <2>4, <3>1
    <3>2. CASE q # p \/ i # j
      <4>1. work'[q][i] = work[q][i] /\ InCall(q, i)
        BY <2>5, <2>7, <3>2 DEF InCall
      <4>2. work[q][i].row \in 1 .. n /\ attempts[work[q][i].row].status # "settled"
        BY <2>6, <3>2, <4>1 DEF CallShape
      <4> QED  BY <2>1, <2>2, <4>1, <4>2
    <3> QED  BY <3>1, <3>2
  <2>8. ASSUME NEW q \in Pipelines, NEW i \in Jobs, NEW r \in Pipelines, NEW k \in Jobs,
               work'[q][i].at = "call", work'[r][k].at = "call",
               work'[r][k].row = work'[q][i].row
        PROVE  r = q /\ k = i
    <3>1. CASE q = p /\ i = j
      BY <2>4, <2>5, <2>6, <2>8, <3>1 DEF InCall
    <3>2. CASE r = p /\ k = j
      BY <2>4, <2>5, <2>6, <2>8, <3>2 DEF InCall
    <3>3. CASE (q # p \/ i # j) /\ (r # p \/ k # j)
      BY <2>5, <2>8, <3>3 DEF InCall, CallShape
    <3> QED  BY <3>1, <3>2, <3>3
  <2> QED  BY <2>7, <2>8 DEF CallShape, InCall
<1>4. ASSUME NEW p \in Pipelines, NEW j \in Jobs, NEW answer \in Answers,
             NEW omissions \in BOOLEAN, Settle(p, j, answer, omissions)
      PROVE  CallShape'
  <2>1. /\ DOMAIN attempts' = DOMAIN attempts
        /\ \A i \in DOMAIN attempts : i # work[p][j].row => attempts'[i] = attempts[i]
    BY <1>0, <1>4, SettleEffect
  <2>2. ASSUME NEW q \in Pipelines, NEW i \in Jobs, work'[q][i].at = "call"
        PROVE  /\ q # p \/ i # j
               /\ work'[q][i] = work[q][i] /\ InCall(q, i)
               /\ work[q][i].row # work[p][j].row
    <3>1. q # p \/ i # j
      BY <1>4, <2>2, SettleEffect
    <3>2. work'[q][i] = work[q][i]
      BY <1>4, <3>1, SettleEffect
    <3>3. InCall(q, i) /\ InCall(p, j)
      BY <1>4, <2>2, <3>2, SettleEffect DEF InCall
    <3> QED  BY <3>1, <3>2, <3>3 DEF CallShape
  <2> QED  BY <2>1, <2>2 DEF CallShape, InCall
<1> QED  BY <1>1, <1>2, <1>3, <1>4, RowsStep

\* A settled row, a succeeded or cancelled job, a completed or cancelled batch
\* and an adopted result never change again, for any number of late workers,
\* recoveries and further batches.
THEOREM HistoryImmutable == Spec => HistoryKept
<1> DEFINE IInv == Shape /\ CallShape
           Kept == /\ \A j \in Jobs : job[j].status \in {"succeeded", "cancelled"} =>
                         job'[j] = job[j]
                   /\ \A b \in BatchIds : batch[b].status \in {"completed", "cancelled"} =>
                         batch'[b] = batch[b]
                   /\ \A i \in DOMAIN attempts :
                         attempts[i].status = "settled" => attempts'[i] = attempts[i]
                   /\ analyses \subseteq analyses'
<1>1. Init => IInv
  BY InitShape DEF Init, CallShape, InCall, NoWork
<1>2. IInv /\ [Next]_vars => IInv'
  BY NextShape, CallShapeStep
<1>3. ASSUME IInv, [Next]_vars  PROVE Kept
  <2>1. ASSUME NEW b \in BatchIds, batch[b].status \in {"completed", "cancelled"}
        PROVE  batch'[b] = batch[b]
    BY <1>3, <2>1, BatchMoves
    DEF BatchMoved, BatchSame, Granted, Opened, Closed, OneMoved, BatchOver
  <2>2. ASSUME NEW i \in DOMAIN attempts, attempts[i].status = "settled"
        PROVE  attempts'[i] = attempts[i]
    <3>0. attempts \in Seq(AttemptRecord)
      BY <1>3, TypeParts DEF Shape, AttemptsOK
    <3>1. CASE UNCHANGED attempts
      BY <3>1
    <3>2. CASE \E j \in Jobs : RecoverJob(j)
      BY <2>2, <3>2 DEF RecoverJob
    <3>3. ASSUME NEW b \in BatchIds, NEW j \in Jobs, NEW role \in Roles, BooksMove(b, j, role)
          PROVE  attempts'[i] = attempts[i]
      <4>1. \E row : attempts' = Append(attempts, row)
        BY <3>3 DEF BooksMove
      <4> QED  BY <2>2, <3>0, <4>1
    <3>4. ASSUME NEW p \in Pipelines, NEW j \in Jobs, NEW answer \in Answers,
                 NEW omissions \in BOOLEAN, Settle(p, j, answer, omissions)
          PROVE  attempts'[i] = attempts[i]
      <4>1. InCall(p, j) /\ i # work[p][j].row
        BY <1>3, <2>2, <3>4, SettleEffect DEF CallShape
      <4> QED  BY <1>3, <3>0, <3>4, <4>1, SettleEffect
    <3> QED  BY <1>3, <3>1, <3>2, <3>3, <3>4, RowsStep
  <2>3. analyses \subseteq analyses'
    BY <1>3, ResultsStep
  <2> QED  BY <1>3, <2>1, <2>2, <2>3, FinishedJobs DEF JobFinished
<1>4. IInv /\ [Next]_vars => [Kept]_vars
  BY <1>3
<1> QED  BY <1>1, <1>2, <1>4, PTL DEF Spec, HistoryKept
=============================================================================
