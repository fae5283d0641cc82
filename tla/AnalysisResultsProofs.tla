------------------------ MODULE AnalysisResultsProofs ------------------------
(***************************************************************************)
(* Theorems about what AnalysisPipeline pays for and what it gets: every   *)
(* retry and every adopted result rests on settled calls, adoption happens *)
(* once and only for current material, and no job is asked about twice at  *)
(* the same time.                                                          *)
(***************************************************************************)
EXTENDS AnalysisPipelineProofs

-----------------------------------------------------------------------------
(* What a step does to the workers                                         *)

\* Stages at which a worker remembers no call any more.
Stopped == {"idle", "quota", "release", "fail", "cancel"}

\* Worker i of q keeps its memory, and its batch unless it has none.
Rests(q, i) ==
    /\ work'[q][i] = work[q][i]
    /\ work[q][i].at # "idle" => run'[q].batch = run[q].batch

\* Worker i of q ends its work on the job, or only has to write that it does.
Stops(q, i) ==
    /\ work'[q][i].at \in Stopped /\ work'[q][i].row = 0
    /\ work'[q][i].at = "idle" \/ work[q][i].at # "idle" \/ ClaimJob(q, i)

\* Worker j of p takes its job, reserves a call, or reserves a retry.
Picks(p, j) ==
    /\ ClaimJob(p, j) /\ run'[p].batch = run[p].batch /\ UNCHANGED attempts
    /\ work'[p][j] = [work[p][j] EXCEPT !.at = "reserve",
                        !.role = FirstRole(run[p].batch, j), !.retries = MaxRetries]
Reserves(p, j) ==
    /\ Reserve(p, j) /\ UNCHANGED run
    /\ BooksMove(run[p].batch, j, work[p][j].role)
    /\ HoldsBatch(p, run[p].batch) /\ HoldsJob(p, j) /\ Fresh(run[p].batch, j)
    /\ work'[p][j] = [work[p][j] EXCEPT !.at = "call", !.row = Len(attempts) + 1]
Retries(p, j) ==
    /\ RegisterRetry(p, j) /\ UNCHANGED <<run, attempts>>
    /\ work[p][j].at = "retry" /\ OwnsBatch(p, run[p].batch) /\ OwnsJob(p, j)
    /\ batch' = [batch EXCEPT ![run[p].batch].retries = @ + 1,
                              ![run[p].batch].lease = "live"]
    /\ work'[p][j] = [work[p][j] EXCEPT !.at = "reserve",
                        !.retries = work[p][j].retries - 1]
Settles(p, j) ==
    \E answer \in Answers, omissions \in BOOLEAN : Settle(p, j, answer, omissions)

\* No worker moves on, and rows change only by the recovery of a job.
NoneMoves ==
    /\ \A q \in Pipelines, i \in Jobs : Rests(q, i) \/ Stops(q, i)
    /\ UNCHANGED attempts \/ \E j \in Jobs : RecoverJob(j)

\* Worker j of p moves on and every other one rests.
OneMoves(p, j) ==
    /\ \A q \in Pipelines, i \in Jobs : q # p \/ i # j => Rests(q, i)
    /\ Picks(p, j) \/ Reserves(p, j) \/ Retries(p, j) \/ Settles(p, j)

\* Where the work rests and no busy run changes its batch, every worker rests.
LEMMA AllRest ==
    ASSUME UNCHANGED work,
           \A q \in Pipelines : Busy(q) # {} => run'[q].batch = run[q].batch
    PROVE  \A q \in Pipelines, i \in Jobs : Rests(q, i)
BY DEF Rests, Busy

\* A worker that gives up its job leaves all others alone.
LEMMA GivesUp ==
    ASSUME Shape, NEW p \in Pipelines, NEW j \in Jobs,
           \/ Done(p, j)
           \/ \E stage \in {"quota", "release", "fail", "cancel"} : Goto(p, j, stage),
           work[p][j].at # "idle" \/ ClaimJob(p, j),
           \A q \in Pipelines : run'[q].batch = run[q].batch
    PROVE  \A q \in Pipelines, i \in Jobs : Rests(q, i) \/ Stops(q, i)
<1>1. PICK w : work' = [work EXCEPT ![p][j] = w] /\ w.at \in Stopped /\ w.row = 0
  <2>1. CASE Done(p, j)
    <3>1. NoWork.at \in Stopped /\ NoWork.row = 0
      BY DEF NoWork, Stopped
    <3> QED  BY <2>1, <3>1 DEF Done
  <2>2. ASSUME NEW stage \in {"quota", "release", "fail", "cancel"}, Goto(p, j, stage)
        PROVE  \E w : work' = [work EXCEPT ![p][j] = w] /\ w.at \in Stopped /\ w.row = 0
    <3> DEFINE w == [NoWork EXCEPT !.at = stage]
    <3>1. w.at \in Stopped /\ w.row = 0
      BY DEF NoWork, Stopped
    <3>2. work' = [work EXCEPT ![p][j] = w]
      BY <2>2 DEF Goto
    <3> HIDE DEF w
    <3> QED  BY <3>1, <3>2
  <2> QED  BY <2>1, <2>2
<1>2. work \in [Pipelines -> [Jobs -> WorkRecord]]
  BY TypeParts DEF Shape, WorkOK
<1> QED  BY <1>1, <1>2 DEF Rests, Stops

\* A worker that moves on leaves all others alone.
LEMMA MovesAlone ==
    ASSUME Shape, NEW p \in Pipelines, NEW j \in Jobs, NEW w,
           work' = [work EXCEPT ![p][j] = w],
           \A q \in Pipelines : run'[q].batch = run[q].batch
    PROVE  /\ work'[p][j] = w
           /\ \A q \in Pipelines, i \in Jobs : q # p \/ i # j => Rests(q, i)
<1>1. work \in [Pipelines -> [Jobs -> WorkRecord]]
  BY TypeParts DEF Shape, WorkOK
<1> QED  BY <1>1 DEF Rests

\* A signal reaches the run of one pipeline and leaves its batch,
\* its queue and its phase alone.
LEMMA SignalKeepsBatch ==
    ASSUME Shape, NEW p \in Pipelines, DeliverNotice(p) \/ CancelToken(p)
    PROVE  \E r : /\ run' = [run EXCEPT ![p] = r]
                 /\ r.batch = run[p].batch /\ r.todo = run[p].todo
                 /\ r.phase = run[p].phase
<1>1. run[p] \in RunRecord
  BY TypeParts DEF Shape, RunsOK
<1>2. CASE DeliverNotice(p)
  <2> DEFINE pause == run[p].pause \/ run[p].notice = "pause"
             r == [run[p] EXCEPT !.notice = "none", !.token = TRUE, !.pause = pause]
  <2>1. /\ r.batch = run[p].batch /\ r.todo = run[p].todo
        /\ r.phase = run[p].phase
    <3> HIDE DEF pause
    <3> QED  BY <1>1 DEF RunRecord
  <2>2. run' = [run EXCEPT ![p] = r]
    BY <1>2 DEF DeliverNotice
  <2> HIDE DEF r
  <2> QED  BY <2>1, <2>2
<1>3. CASE CancelToken(p)
  <2> DEFINE r == [run[p] EXCEPT !.token = TRUE]
  <2>1. /\ r.batch = run[p].batch /\ r.todo = run[p].todo
        /\ r.phase = run[p].phase
    BY <1>1 DEF RunRecord
  <2>2. run' = [run EXCEPT ![p] = r]
    BY <1>3 DEF CancelToken
  <2> HIDE DEF r
  <2> QED  BY <2>1, <2>2
<1> QED  BY <1>2, <1>3

\* A step of a worker moves that worker at most.
LEMMA WorkerMoves ==
    ASSUME Shape, NEW p \in Pipelines, NEW j \in Jobs, Worker(p, j)
    PROVE  NoneMoves \/ OneMoves(p, j)
<1> DEFINE b == run[p].batch
           w == work[p][j]
<1>0. /\ work \in [Pipelines -> [Jobs -> WorkRecord]] /\ w \in WorkRecord
      /\ run \in [Pipelines -> RunRecord]
  BY TypeParts DEF Shape, WorkOK, RunsOK
<1>1. CASE ClaimJob(p, j)
  <2>1. UNCHANGED attempts /\ \A q \in Pipelines : run'[q].batch = run[q].batch
    BY <1>0, <1>1 DEF ClaimJob, RunRecord
  <2>2. CASE UNCHANGED work
    BY <2>1, <2>2, AllRest DEF NoneMoves
  <2>3. CASE Goto(p, j, "fail") \/ Goto(p, j, "release")
    BY <1>1, <2>1, <2>3, GivesUp DEF NoneMoves
  <2>4. CASE work' = [work EXCEPT ![p][j].at = "reserve", ![p][j].role = FirstRole(b, j),
                                  ![p][j].retries = MaxRetries]
    <3> DEFINE v == [w EXCEPT !.at = "reserve", !.role = FirstRole(b, j),
                              !.retries = MaxRetries]
    <3>1. work' = [work EXCEPT ![p][j] = v]
      BY <1>0, <2>4
    <3>2. work'[p][j] = v /\ \A q \in Pipelines, i \in Jobs : q # p \/ i # j => Rests(q, i)
      <4> HIDE DEF v
      <4> QED  BY <2>1, <3>1, MovesAlone
    <3>3. Picks(p, j)
      BY <1>1, <2>1, <3>2 DEF Picks
    <3> QED  BY <3>2, <3>3 DEF OneMoves
  <2> QED  BY <1>1, <2>2, <2>3, <2>4 DEF ClaimJob, Dispatch
<1>2. CASE Reserve(p, j)
  <2>1. UNCHANGED run /\ w.at # "idle"
    BY <1>2 DEF Reserve
  <2>2. CASE /\ UNCHANGED attempts
             /\ Goto(p, j, "fail") \/ Goto(p, j, "release") \/ Goto(p, j, "quota")
    BY <2>1, <2>2, GivesUp DEF NoneMoves
  <2>3. CASE /\ BooksMove(b, j, w.role) /\ HoldsBatch(p, b) /\ HoldsJob(p, j) /\ Fresh(b, j)
             /\ work' = [work EXCEPT ![p][j].at = "call", ![p][j].row = Len(attempts) + 1]
    <3> DEFINE v == [w EXCEPT !.at = "call", !.row = Len(attempts) + 1]
    <3>1. work' = [work EXCEPT ![p][j] = v]
      BY <1>0, <2>3
    <3>2. work'[p][j] = v /\ \A q \in Pipelines, i \in Jobs : q # p \/ i # j => Rests(q, i)
      <4> HIDE DEF v
      <4> QED  BY <2>1, <3>1, MovesAlone
    <3>3. Reserves(p, j)
      BY <1>2, <2>1, <2>3, <3>2 DEF Reserves
    <3> QED  BY <3>2, <3>3 DEF OneMoves
  <2> QED  BY <1>2, <2>2, <2>3
           DEF Reserve, BooksMove, HoldsBatch, HoldsJob, OwnsBatch, OwnsJob
<1>3. CASE RegisterRetry(p, j)
  <2>1. UNCHANGED <<run, attempts>> /\ w.at = "retry"
    BY <1>3 DEF RegisterRetry
  <2>2. CASE Goto(p, j, "fail") \/ Goto(p, j, "release")
    BY <2>1, <2>2, GivesUp DEF NoneMoves
  <2>3. CASE /\ OwnsBatch(p, b) /\ OwnsJob(p, j)
             /\ batch' = [batch EXCEPT ![b].retries = @ + 1, ![b].lease = "live"]
             /\ work' = [work EXCEPT ![p][j].at = "reserve", ![p][j].role = w.role,
                                     ![p][j].retries = w.retries - 1]
    <3> DEFINE v == [w EXCEPT !.at = "reserve", !.role = w.role, !.retries = w.retries - 1]
    <3>1. work' = [work EXCEPT ![p][j] = v]
      BY <1>0, <2>3
    <3>2. work'[p][j] = v /\ \A q \in Pipelines, i \in Jobs : q # p \/ i # j => Rests(q, i)
      <4> HIDE DEF v
      <4> QED  BY <2>1, <3>1, MovesAlone
    <3>3. v = [w EXCEPT !.at = "reserve", !.retries = w.retries - 1]
      BY <1>0 DEF WorkRecord
    <3>4. Retries(p, j)
      BY <1>3, <2>1, <2>3, <3>2, <3>3 DEF Retries
    <3> QED  BY <3>2, <3>4 DEF OneMoves
  <2> QED  BY <1>3, <2>2, <2>3 DEF RegisterRetry, Dispatch
<1>4. ASSUME NEW answer \in Answers, NEW omissions \in BOOLEAN,
             Settle(p, j, answer, omissions)
      PROVE  OneMoves(p, j)
  <2>1. UNCHANGED run
    BY <1>4 DEF Settle
  <2>2. \A q \in Pipelines, i \in Jobs : q # p \/ i # j => work'[q][i] = work[q][i]
    BY <1>4, SettleEffect
  <2>3. Settles(p, j)
    BY <1>4 DEF Settles
  <2> QED  BY <2>1, <2>2, <2>3 DEF OneMoves, Rests
<1>5. CASE StopBeforeCall(p, j) \/ PauseForQuota(p, j) \/ ReleaseJob(p, j) \/ FailJob(p, j)
           \/ CommitAdoption(p, j) \/ CancelInCommit(p, j)
  <2>1. UNCHANGED <<run, attempts>> /\ w.at # "idle"
    BY <1>5 DEF StopBeforeCall, PauseForQuota, ReleaseJob, FailJob, CommitAdoption,
       CancelInCommit, store
  <2>2. \/ Done(p, j)
        \/ \E stage \in {"quota", "release", "fail", "cancel"} : Goto(p, j, stage)
    BY <1>5 DEF StopBeforeCall, PauseForQuota, ReleaseJob, FailJob, CommitAdoption,
       CancelInCommit
  <2> QED  BY <2>1, <2>2, GivesUp DEF NoneMoves
<1> QED  BY <1>1, <1>2, <1>3, <1>4, <1>5 DEF Worker

\* Every step moves at most one worker.
LEMMA StepMoves ==
    ASSUME Shape, [Next]_vars
    PROVE  NoneMoves \/ \E p \in Pipelines, j \in Jobs : OneMoves(p, j)
<1>0. /\ work \in [Pipelines -> [Jobs -> WorkRecord]]
      /\ run \in [Pipelines -> RunRecord]
  BY TypeParts DEF Shape, WorkOK, RunsOK
<1>1. CASE UNCHANGED vars
  BY <1>1, AllRest DEF vars, NoneMoves
<1>2. ASSUME NEW p \in Pipelines, RunStep(p)  PROVE NoneMoves
  <2>1. UNCHANGED <<attempts, work>> /\ Busy(p) = {}
    BY <1>2, BusyInPool DEF RunStep, CancelUnclaimed, ClaimBatch, EndRun, RunDone
  <2>2. \A q \in Pipelines : q # p => run'[q] = run[q]
    BY <1>0, <1>2 DEF RunStep, CancelUnclaimed, ClaimBatch, EndRun
  <2> QED  BY <2>1, <2>2, AllRest DEF NoneMoves
<1>3. CASE Control
  <2>1. UNCHANGED work /\ (UNCHANGED attempts \/ \E j \in Jobs : RecoverJob(j))
    BY <1>3 DEF Control, PrepareBatch, Pause, Cancel, Resume, RecoverBatch, RecoverJob,
       StartRun, DeliverNotice, CancelToken, store
  <2>2. CASE \E p \in Pipelines, b \in BatchIds, cancelled \in BOOLEAN :
                StartRun(p, b, cancelled)
    <3>1. PICK p \in Pipelines : run[p].phase = "idle" /\ \A q \in Pipelines :
             q # p => run'[q] = run[q]
      BY <1>0, <2>2 DEF StartRun
    <3>2. Busy(p) = {}
      BY <3>1, BusyInPool
    <3> QED  BY <2>1, <3>1, <3>2, AllRest DEF NoneMoves
  <2>3. CASE ~(\E p \in Pipelines, b \in BatchIds, cancelled \in BOOLEAN :
                StartRun(p, b, cancelled))
    <3>1. \A q \in Pipelines : run'[q].batch = run[q].batch
      <4>1. CASE \E p \in Pipelines : DeliverNotice(p) \/ CancelToken(p)
        <5>1. PICK p \in Pipelines : DeliverNotice(p) \/ CancelToken(p)
          BY <4>1
        <5>2. \E r : run' = [run EXCEPT ![p] = r] /\ r.batch = run[p].batch
          BY <5>1, SignalKeepsBatch
        <5> QED  BY <1>0, <5>2
      <4>2. CASE \E p \in Pipelines, b \in BatchIds : Pause(p, b) \/ Cancel(p, b)
        BY <1>0, <4>2 DEF RunRecord, Pause, Cancel, Notified
      <4>3. CASE UNCHANGED run
        BY <4>3
      <4> QED  BY <1>3, <2>3, <4>1, <4>2, <4>3
               DEF Control, PrepareBatch, Resume, RecoverBatch, RecoverJob
    <3> QED  BY <2>1, <3>1, AllRest DEF NoneMoves
  <2> QED  BY <2>2, <2>3
<1>4. CASE Environment
  <2>1. ASSUME NEW p \in Pipelines, Crash(p)  PROVE NoneMoves
    <3>1. UNCHANGED attempts
      BY <2>1 DEF Crash, store
    <3>2. \A q \in Pipelines, i \in Jobs : Rests(q, i) \/ Stops(q, i)
      BY <1>0, <2>1 DEF Crash, Rests, Stops, NoWork, Stopped
    <3> QED  BY <3>1, <3>2 DEF NoneMoves
  <2>2. ASSUME NEW p \in Pipelines, NEW j \in Jobs, StoreFailure(p, j)  PROVE NoneMoves
    <3>1. UNCHANGED attempts /\ \A q \in Pipelines : run'[q].batch = run[q].batch
      BY <1>0, <2>2 DEF StoreFailure, store, RunRecord
    <3> QED  BY <2>2, <3>1, GivesUp DEF NoneMoves, StoreFailure
  <2>3. CASE UNCHANGED <<attempts, run, work>>
    BY <2>3, AllRest DEF NoneMoves
  <2> QED  BY <1>4, <2>1, <2>2, <2>3
           DEF Environment, LapseBatch, LapseJob, Supersede, DecideManually, store
<1> QED  BY <1>1, <1>2, <1>3, <1>4, WorkerMoves DEF Next

-----------------------------------------------------------------------------
(* Nothing is paid for or adopted for material that moved                  *)

\* A reservation adds the row of a fresh job, an adoption the result of one.
LEMMA FreshStep ==
    ASSUME Shape, [Next]_vars,
           NEW r \in (analyses' \ analyses)
              \cup {attempts'[i] : i \in DOMAIN attempts' \ DOMAIN attempts}
    PROVE  /\ SnapshotOf(r.job) \notin superseded
           /\ manual[SnapshotOf(r.job)] = batch[r.batch].captured[r.job]
<1>1. CASE r \in analyses' \ analyses
  <2>1. PICK p \in Pipelines, j \in Jobs :
           /\ CommitAdoption(p, j)
           /\ analyses' = analyses \cup
                {[job |-> j, batch |-> run[p].batch, checked |-> work[p][j].checked]}
    BY <1>1, ResultsStep
  <2>2. r.job = j /\ r.batch = run[p].batch
    BY <1>1, <2>1
  <2>3. Fresh(run[p].batch, j)
    BY <1>1, <2>1 DEF CommitAdoption
  <2> QED  BY <2>2, <2>3 DEF Fresh
<1>2. ASSUME NEW i \in DOMAIN attempts' \ DOMAIN attempts, r = attempts'[i]
      PROVE  /\ SnapshotOf(r.job) \notin superseded
             /\ manual[SnapshotOf(r.job)] = batch[r.batch].captured[r.job]
  <2>0. attempts \in Seq(AttemptRecord)
    BY TypeParts DEF Shape, AttemptsOK
  <2>1. ~NoneMoves
    BY <1>2 DEF NoneMoves, RecoverJob
  <2>2. PICK p \in Pipelines, j \in Jobs : OneMoves(p, j)
    BY <2>1, StepMoves
  <2>3. ~Settles(p, j)
    BY <1>2, <2>0, SettleEffect DEF Settles
  <2>4. Reserves(p, j)
    BY <1>2, <2>2, <2>3 DEF OneMoves, Picks, Retries
  <2> DEFINE row == [batch |-> run[p].batch, job |-> j, role |-> work[p][j].role,
                     status |-> "reserved", answered |-> FALSE]
  <2>5. attempts' = Append(attempts, row)
    BY <2>4 DEF Reserves, BooksMove
  <2>6. r = row
    <3> HIDE DEF row
    <3> QED  BY <1>2, <2>0, <2>5
  <2>7. r.job = j /\ r.batch = run[p].batch
    BY <2>6
  <2> QED  BY <2>4, <2>7 DEF Reserves, Fresh
<1> QED  BY <1>1, <1>2

\* No call is reserved and no result adopted for a snapshot that was superseded
\* or whose manual decisions moved since the batch was prepared, by whichever
\* worker, retry or takeover (reserveAttempt, commitAdoption).
THEOREM PaidAndAdoptedFresh == Spec => FreshOnly
<1> DEFINE Timely == \A r \in (analyses' \ analyses)
              \cup {attempts'[i] : i \in DOMAIN attempts' \ DOMAIN attempts} :
            /\ SnapshotOf(r.job) \notin superseded
            /\ manual[SnapshotOf(r.job)] = batch[r.batch].captured[r.job]
<1>1. Shape /\ [Next]_vars => Shape'
  BY NextShape
<1>2. Shape /\ [Next]_vars => [Timely]_vars
  BY FreshStep
<1> QED  BY InitShape, <1>1, <1>2, PTL DEF Spec, FreshOnly

-----------------------------------------------------------------------------
(* Rows are never rewritten once they are settled                          *)

\* Rows keep their account, and settled rows everything.
RowsPast == \A i \in DOMAIN attempts :
    /\ i \in DOMAIN attempts'
    /\ attempts'[i].batch = attempts[i].batch /\ attempts'[i].job = attempts[i].job
    /\ attempts'[i].role = attempts[i].role
    /\ attempts[i].status = "settled" => attempts'[i] = attempts[i]

\* Only a settled row is an answer.
AnsweredSettled == \A i \in DOMAIN attempts :
    attempts[i].answered => attempts[i].status = "settled"

\* An appended row is the last, and the others stay.
LEMMA AppendedRow ==
    ASSUME Shape, NEW row, attempts' = Append(attempts, row)
    PROVE  /\ Len(attempts) \in Nat /\ DOMAIN attempts = 1 .. Len(attempts)
           /\ DOMAIN attempts' = 1 .. Len(attempts) + 1
           /\ \A i \in DOMAIN attempts : attempts'[i] = attempts[i]
           /\ attempts'[Len(attempts) + 1] = row
BY TypeParts DEF Shape, AttemptsOK

\* Rows keep what they are about, and an answered one stays settled.
LEMMA RowsPastStep ==
    ASSUME Shape, CallShape, AnsweredSettled, [Next]_vars
    PROVE  RowsPast /\ AnsweredSettled'
<1>0. attempts \in Seq(AttemptRecord) /\ \A i \in DOMAIN attempts : attempts[i] \in AttemptRecord
  BY TypeParts DEF Shape, AttemptsOK
<1>1. CASE UNCHANGED attempts
  BY <1>1 DEF RowsPast, AnsweredSettled
<1>2. ASSUME NEW j \in Jobs, RecoverJob(j), ~UNCHANGED attempts
      PROVE  RowsPast /\ AnsweredSettled'
  <2>1. attempts' = [i \in DOMAIN attempts |->
               IF attempts[i].job = j /\ attempts[i].status = "reserved"
               THEN [attempts[i] EXCEPT !.status = "uncertain"] ELSE attempts[i]]
    BY <1>2 DEF RecoverJob
  <2> QED  BY <1>0, <2>1 DEF RowsPast, AnsweredSettled, AttemptRecord
<1>3. ASSUME NEW b \in BatchIds, NEW j \in Jobs, NEW role \in Roles, BooksMove(b, j, role)
      PROVE  RowsPast /\ AnsweredSettled'
  <2> DEFINE row == [batch |-> b, job |-> j, role |-> role, status |-> "reserved",
                     answered |-> FALSE]
  <2>1. attempts' = Append(attempts, row) /\ row.answered = FALSE
    BY <1>3 DEF BooksMove
  <2> HIDE DEF row
  <2> QED  BY <2>1, AppendedRow DEF RowsPast, AnsweredSettled
<1>4. ASSUME NEW p \in Pipelines, NEW j \in Jobs, NEW answer \in Answers,
             NEW omissions \in BOOLEAN, Settle(p, j, answer, omissions)
      PROVE  RowsPast /\ AnsweredSettled'
  <2> DEFINE n == work[p][j].row
             row == Booked(attempts[n], answer)
  <2>1. attempts' = [attempts EXCEPT ![n] = row]
    BY <1>4, SettleEffect
  <2>2. n \in DOMAIN attempts /\ attempts[n].status # "settled"
    BY <1>4, SettleEffect DEF CallShape
  <2>3. /\ row.batch = attempts[n].batch /\ row.job = attempts[n].job
        /\ row.role = attempts[n].role
    BY <1>0, <2>2, BookedRow
  <2>4. row.answered => row.status = "settled"
    BY <1>0, <2>2 DEF Booked, Answers, AttemptRecord
  <2> HIDE DEF n, row
  <2> QED  BY <1>0, <2>1, <2>2, <2>3, <2>4 DEF RowsPast, AnsweredSettled
<1> QED  BY <1>1, <1>2, <1>3, <1>4, RowsStep

-----------------------------------------------------------------------------
(* What a worker has paid for                                              *)

\* Where an answer leads the worker.
LEMMA SettleOutcome ==
    ASSUME Shape, NEW p \in Pipelines, NEW j \in Jobs, NEW answer \in Answers,
           NEW omissions \in BOOLEAN, Settle(p, j, answer, omissions)
    PROVE  LET w == work[p][j]
               v == work'[p][j]
           IN  \/ v.at \in Stopped /\ v.row = 0
               \/ /\ answer.result = "ok" /\ w.role = "analysis" /\ v.row = w.row
                  /\ v.at = "reserve" /\ v.role = "verification"
               \/ /\ answer.result = "ok" /\ w.role # "analysis" /\ v.row = w.row
                  /\ v.at = "commit" /\ v.role = w.role
               \/ /\ answer.result # "ok" /\ answer.known /\ v.row = w.row
                  /\ v.at = "retry" /\ v.role = w.role
<1> DEFINE w == work[p][j]
           v == work'[p][j]
<1>0. work \in [Pipelines -> [Jobs -> WorkRecord]] /\ w \in WorkRecord
  BY TypeParts DEF Shape, WorkOK
<1>1. \/ /\ answer.result = "ok" /\ w.role = "analysis"
         /\ Dispatch(p, j, "verification", MaxRetries)
      \/ /\ answer.result = "ok" /\ w.role # "analysis"
         /\ work' = [work EXCEPT ![p][j].at = "commit",
                       ![p][j].checked = omissions /\ w.role = "verification"]
      \/ \E stage \in {"quota", "release", "fail", "cancel"} : Goto(p, j, stage)
      \/ /\ answer.result # "ok" /\ answer.known
         /\ work' = [work EXCEPT ![p][j].at = "retry"]
  BY DEF Settle, MayRetry, Answers
<1>2. CASE \E stage \in {"quota", "release", "fail", "cancel"} : Goto(p, j, stage)
  <2>1. PICK stage \in {"quota", "release", "fail", "cancel"} : Goto(p, j, stage)
    BY <1>2
  <2>2. work' = [work EXCEPT ![p][j] = [NoWork EXCEPT !.at = stage]]
    BY <2>1 DEF Goto
  <2>3. [NoWork EXCEPT !.at = stage].at = stage /\ [NoWork EXCEPT !.at = stage].row = 0
    BY DEF NoWork
  <2> QED  BY <1>0, <2>2, <2>3 DEF Stopped
<1>3. CASE /\ answer.result = "ok" /\ w.role = "analysis"
           /\ Dispatch(p, j, "verification", MaxRetries)
  <2>1. CASE Flagged(p)
    BY <1>2, <1>3, <2>1 DEF Dispatch
  <2>2. CASE ~Flagged(p)
    BY <1>0, <1>3, <2>2 DEF Dispatch, WorkRecord
  <2> QED  BY <2>1, <2>2
<1>4. CASE /\ answer.result = "ok" /\ w.role # "analysis"
           /\ work' = [work EXCEPT ![p][j].at = "commit",
                         ![p][j].checked = omissions /\ w.role = "verification"]
  <2> DEFINE checked == omissions /\ w.role = "verification"
  <2>1. work' = [work EXCEPT ![p][j].at = "commit", ![p][j].checked = checked]
    BY <1>4
  <2> HIDE DEF checked
  <2> QED  BY <1>0, <1>4, <2>1 DEF WorkRecord
<1>5. CASE /\ answer.result # "ok" /\ answer.known
           /\ work' = [work EXCEPT ![p][j].at = "retry"]
  BY <1>0, <1>5 DEF WorkRecord
<1> QED  BY <1>1, <1>2, <1>3, <1>4, <1>5

\* The answered analysis passes of a batch on a job.
Analysed(b, j) == {i \in DOMAIN attempts :
    /\ attempts[i].batch = b /\ attempts[i].job = j /\ attempts[i].role = "analysis"
    /\ attempts[i].status = "settled" /\ attempts[i].answered}

\* The row a worker remembers is a call of its batch on its job; its cost is
\* known at every later stage, and a verification follows an analysis.
WorkPaid(p, j) ==
    LET w == work[p][j]
        b == run[p].batch
    IN
    /\ w.at \in Stopped => w.row = 0
    /\ w.row # 0 => /\ w.row \in DOMAIN attempts
                    /\ attempts[w.row].batch = b /\ attempts[w.row].job = j
    /\ w.row # 0 /\ w.at \in {"reserve", "retry", "commit"} =>
          attempts[w.row].status = "settled"
    /\ w.at = "retry" => w.row # 0 /\ ~attempts[w.row].answered
    /\ w.at \in {"call", "commit"} => w.row # 0 /\ attempts[w.row].role = w.role
    /\ w.at = "commit" => attempts[w.row].answered /\ w.role # "analysis"
    /\ w.role = "verification" /\ w.at \in {"reserve", "retry"} => Analysed(b, j) # {}
    /\ w.role = "verification" /\ w.at \in {"call", "commit"} =>
          \E i \in Analysed(b, j) : i < w.row

\* A job that still waits in the pool has no worker.
TodoIdle == \A p \in Pipelines, j \in Jobs : j \in run[p].todo => work[p][j].at = "idle"

AllPaid == \A p \in Pipelines, j \in Jobs : WorkPaid(p, j)

\* What a step does to the run of a pipeline.
LEMMA RunFate ==
    ASSUME Shape, [Next]_vars, NEW q \in Pipelines
    PROVE  \/ /\ run'[q].batch = run[q].batch /\ run'[q].todo \subseteq run[q].todo
              /\ run'[q].phase = run[q].phase
           \/ run'[q].phase = "idle" /\ run'[q].todo = {}
           \/ /\ run[q].phase = "idle" /\ run'[q].todo = {} /\ UNCHANGED work
              /\ run'[q].batch \in BatchIds /\ batch[run'[q].batch].status # "absent"
           \/ /\ run[q].phase = "starting" /\ run'[q].batch = run[q].batch
              /\ run'[q].todo = batch[run[q].batch].jobs
              /\ run'[q].phase = "pool" /\ UNCHANGED work
<1> DEFINE Fate == \/ /\ run'[q].batch = run[q].batch /\ run'[q].todo \subseteq run[q].todo
                      /\ run'[q].phase = run[q].phase
                   \/ run'[q].phase = "idle" /\ run'[q].todo = {}
<1>0. run \in [Pipelines -> RunRecord] /\ NoRun.todo = {} /\ NoRun.phase = "idle"
  BY TypeParts DEF Shape, RunsOK, NoRun
<1>1. run'[q] = run[q] => Fate
  OBVIOUS
<1>2. ASSUME NEW p \in Pipelines, run' = [run EXCEPT ![p] = NoRun]  PROVE Fate
  BY <1>0, <1>2
<1>3. ASSUME NEW p \in Pipelines, NEW r, run' = [run EXCEPT ![p] = r],
             r.batch = run[p].batch, r.todo \subseteq run[p].todo, r.phase = run[p].phase
      PROVE  Fate
  BY <1>0, <1>3
<1>4. ASSUME NEW p \in Pipelines, RunStep(p)
      PROVE  \/ Fate
             \/ /\ run[q].phase = "starting" /\ run'[q].batch = run[q].batch
                /\ run'[q].todo = batch[run[q].batch].jobs
                /\ run'[q].phase = "pool" /\ UNCHANGED work
  <2>1. CASE ClaimBatch(p) /\ run' # [run EXCEPT ![p] = NoRun]
    <3> DEFINE r == [run[p] EXCEPT !.phase = "pool", !.workers = Concurrency,
                                   !.todo = batch[run[p].batch].jobs]
    <3>1. run[p].phase = "starting" /\ UNCHANGED work /\ run' = [run EXCEPT ![p] = r]
      BY <1>0, <2>1 DEF ClaimBatch
    <3>2. r.batch = run[p].batch /\ r.todo = batch[run[p].batch].jobs /\ r.phase = "pool"
      BY <1>0 DEF RunRecord
    <3> HIDE DEF r
    <3> QED  BY <1>0, <1>1, <3>1, <3>2
  <2>2. CASE run' = [run EXCEPT ![p] = NoRun]
    BY <1>2, <2>2
  <2> QED  BY <1>4, <2>1, <2>2 DEF RunStep, CancelUnclaimed, ClaimBatch, EndRun
<1>5. ASSUME NEW p \in Pipelines, NEW j \in Jobs, Worker(p, j)  PROVE Fate
  <2>1. CASE ClaimJob(p, j)
    <3> DEFINE r == [run[p] EXCEPT !.todo = run[p].todo \ {j}]
    <3>1. /\ run' = [run EXCEPT ![p] = r] /\ r.batch = run[p].batch
          /\ r.todo \subseteq run[p].todo /\ r.phase = run[p].phase
      BY <1>0, <2>1 DEF ClaimJob, RunRecord
    <3> HIDE DEF r
    <3> QED  BY <1>3, <3>1
  <2> QED
    BY <1>1, <1>5, <2>1
    DEF Worker, Reserve, StopBeforeCall, Settle, RegisterRetry, PauseForQuota, ReleaseJob,
        FailJob, CommitAdoption, CancelInCommit
<1>6. ASSUME Control
      PROVE  \/ Fate
             \/ /\ run[q].phase = "idle" /\ run'[q].todo = {} /\ UNCHANGED work
                /\ run'[q].batch \in BatchIds /\ batch[run'[q].batch].status # "absent"
  <2>1. ASSUME NEW p \in Pipelines, NEW b \in BatchIds, NEW c \in BOOLEAN, StartRun(p, b, c)
        PROVE  \/ Fate
               \/ /\ run[q].phase = "idle" /\ run'[q].todo = {} /\ UNCHANGED work
                  /\ run'[q].batch \in BatchIds /\ batch[run'[q].batch].status # "absent"
    <3> DEFINE phase == IF c THEN "cancelling" ELSE "starting"
               r == [NoRun EXCEPT !.batch = b, !.token = c, !.phase = phase]
    <3>1. r.todo = {} /\ r.batch = b
      <4> HIDE DEF phase
      <4> QED  BY DEF NoRun
    <3>2. /\ run' = [run EXCEPT ![p] = r] /\ run[p].phase = "idle" /\ UNCHANGED work
          /\ batch[b].status # "absent"
      BY <2>1 DEF StartRun
    <3> HIDE DEF r
    <3> QED  BY <1>0, <1>1, <3>1, <3>2
  <2>2. ASSUME NEW p \in Pipelines, NEW b \in BatchIds, Pause(p, b) \/ Cancel(p, b)
        PROVE  Fate
    <3>1. PICK notice : run' = [run EXCEPT ![p].notice = notice]
      BY <2>2 DEF Pause, Cancel, Notified
    <3> QED  BY <1>0, <3>1 DEF RunRecord
  <2>3. ASSUME NEW p \in Pipelines, DeliverNotice(p) \/ CancelToken(p)  PROVE Fate
    BY <1>3, <2>3, SignalKeepsBatch
  <2> QED  BY <1>1, <1>6, <2>1, <2>2, <2>3
           DEF Control, PrepareBatch, Resume, RecoverBatch, RecoverJob
<1>7. CASE Environment
  <2>1. ASSUME NEW p \in Pipelines, NEW j \in Jobs, StoreFailure(p, j)  PROVE Fate
    <3> DEFINE r == [run[p] EXCEPT !.failed = TRUE, !.workers = run[p].workers - 1]
    <3>1. /\ run' = [run EXCEPT ![p] = r] /\ r.batch = run[p].batch
          /\ r.todo = run[p].todo /\ r.phase = run[p].phase
      BY <1>0, <2>1 DEF StoreFailure, RunRecord
    <3> HIDE DEF r
    <3> QED  BY <1>3, <3>1
  <2> QED  BY <1>1, <1>2, <1>7, <2>1
           DEF Environment, Crash, LapseBatch, LapseJob, Supersede, DecideManually
<1> QED  BY <1>1, <1>4, <1>5, <1>6, <1>7 DEF Next, vars

\* A worker starts on a job by claiming it.
LEMMA WokenByClaim ==
    ASSUME Shape, [Next]_vars, NEW q \in Pipelines, NEW i \in Jobs,
           work[q][i].at = "idle", work'[q][i].at # "idle"
    PROVE  ClaimJob(q, i)
<1>1. ~Rests(q, i)
  BY DEF Rests
<1>2. CASE NoneMoves
  BY <1>1, <1>2 DEF NoneMoves, Stops
<1>3. ASSUME NEW p \in Pipelines, NEW j \in Jobs, OneMoves(p, j)
      PROVE  ClaimJob(q, i)
  <2>1. p = q /\ j = i
    BY <1>1, <1>3 DEF OneMoves
  <2>2. ~Reserves(p, j) /\ ~Retries(p, j) /\ ~Settles(p, j)
    BY <2>1, SettleEffect DEF Reserves, Reserve, Retries, Settles, InCall
  <2> QED  BY <1>3, <2>1, <2>2 DEF OneMoves, Picks
<1> QED  BY <1>2, <1>3, StepMoves

\* A job that is still to do has no call at work.
LEMMA TodoIdleStep ==
    ASSUME Shape, TodoIdle, [Next]_vars
    PROVE  TodoIdle'
<1>0. /\ work \in [Pipelines -> [Jobs -> WorkRecord]]
      /\ run \in [Pipelines -> RunRecord]
  BY TypeParts DEF Shape, WorkOK, RunsOK
<1>1. ASSUME NEW q \in Pipelines, NEW i \in Jobs, i \in run'[q].todo
      PROVE  i \in run[q].todo \/ (Busy(q) = {} /\ UNCHANGED work)
  BY <1>1, RunFate, BusyInPool
<1>2. ASSUME NEW q \in Pipelines, NEW i \in Jobs, i \in run'[q].todo,
             work'[q][i].at # "idle"
      PROVE  FALSE
  <2>1. work[q][i].at = "idle"
    BY <1>1, <1>2 DEF TodoIdle, Busy
  <2>2. ClaimJob(q, i)
    BY <1>2, <2>1, WokenByClaim
  <2> QED  BY <1>0, <1>2, <2>2 DEF ClaimJob, RunRecord
<1> QED  BY <1>2 DEF TodoIdle

\* Every step keeps a worker's call backed by the rows it paid for.
LEMMA WorkPaidStep ==
    ASSUME Shape, CallShape, AnsweredSettled, TodoIdle, AllPaid, [Next]_vars
    PROVE  AllPaid'
<1> SUFFICES ASSUME NEW q \in Pipelines, NEW i \in Jobs
             PROVE  WorkPaid(q, i)'
  BY DEF AllPaid
<1> DEFINE b == run[q].batch
           w == work[q][i]
           v == work'[q][i]
<1>0. /\ attempts \in Seq(AttemptRecord) /\ RowsPast /\ WorkPaid(q, i)
      /\ w \in WorkRecord /\ DOMAIN attempts = 1 .. Len(attempts) /\ Len(attempts) \in Nat
  BY TypeParts, RowsPastStep DEF Shape, AttemptsOK, WorkOK, AllPaid
<1>3. CASE Rests(q, i)
  <2>1. CASE w.at = "idle"
    BY <1>0, <1>3, <2>1 DEF Rests, WorkPaid, Stopped
  <2>2. CASE w.at # "idle"
    <3>1. v = w /\ run'[q].batch = b
      BY <1>3, <2>2 DEF Rests
    <3>2. w.row # 0 => /\ attempts'[w.row].batch = b /\ attempts'[w.row].job = i
                       /\ attempts'[w.row].role = attempts[w.row].role
                       /\ w.row \in DOMAIN attempts'
      BY <1>0 DEF RowsPast, WorkPaid
    <3>3. w.row # 0 /\ attempts[w.row].status = "settled" =>
             attempts'[w.row] = attempts[w.row]
      BY <1>0 DEF RowsPast, WorkPaid
    <3>4. Analysed(b, i) \subseteq Analysed(b, i)'
      BY <1>0, <3>1 DEF RowsPast, Analysed
    <3> QED  BY <1>0, <3>1, <3>2, <3>3, <3>4 DEF WorkPaid
  <2> QED  BY <2>1, <2>2
<1>4. CASE Stops(q, i)
  BY <1>4 DEF Stops, WorkPaid, Stopped
<1>5. ASSUME OneMoves(q, i)  PROVE WorkPaid(q, i)'
  <2>1. CASE Picks(q, i)
    <3>1. w.row = 0
      BY <1>0, <2>1 DEF Picks, ClaimJob, TodoIdle, WorkPaid, Stopped
    <3>2. /\ v.at = "reserve" /\ v.role = FirstRole(b, i) /\ v.row = 0
          /\ run'[q].batch = b /\ UNCHANGED attempts
      BY <1>0, <2>1, <3>1 DEF Picks, WorkRecord
    <3>3. FirstRole(b, i) = "verification" => Analysed(b, i) # {}
      BY DEF FirstRole, Reusable, Analysed, AnsweredSettled
    <3>4. Analysed(b, i)' = Analysed(b, i)
      BY <3>2 DEF Analysed
    <3> QED  BY <3>2, <3>3, <3>4 DEF WorkPaid, Stopped
  <2>2. CASE Reserves(q, i)
    <3> DEFINE row == [batch |-> b, job |-> i, role |-> w.role, status |-> "reserved",
                       answered |-> FALSE]
               n == Len(attempts) + 1
    <3>1. attempts' = Append(attempts, row) /\ UNCHANGED run /\ w.at = "reserve"
      BY <2>2 DEF Reserves, Reserve, BooksMove
    <3>2. v.at = "call" /\ v.row = n /\ v.role = w.role
      BY <1>0, <2>2 DEF Reserves, WorkRecord
    <3>3. n \in DOMAIN attempts' /\ attempts'[n] = row
      <4> HIDE DEF row
      <4> QED  BY <1>0, <3>1, AppendedRow
    <3>4. /\ attempts'[n].batch = b /\ attempts'[n].job = i /\ attempts'[n].role = w.role
      BY <3>3
    <3>5. w.role = "verification" => \E k \in Analysed(b, i)' : k < n
      <4>1. ASSUME NEW k \in Analysed(b, i)  PROVE k \in Analysed(b, i)' /\ k < n
        BY <1>0, <3>1 DEF RowsPast, Analysed
      <4> QED  BY <1>0, <3>1, <4>1 DEF WorkPaid
    <3> HIDE DEF row, n
    <3>6. n # 0
      BY <1>0 DEF n
    <3> QED  BY <3>1, <3>2, <3>3, <3>4, <3>5, <3>6 DEF WorkPaid, Stopped
  <2>3. CASE Retries(q, i)
    <3>1. /\ v.at = "reserve" /\ v.role = w.role /\ v.row = w.row /\ w.at = "retry"
          /\ run'[q].batch = b /\ UNCHANGED attempts
      BY <1>0, <2>3 DEF Retries, WorkRecord
    <3>2. Analysed(b, i)' = Analysed(b, i)
      BY <3>1 DEF Analysed
    <3> QED  BY <1>0, <3>1, <3>2 DEF WorkPaid, Stopped
  <2>4. ASSUME NEW answer \in Answers, NEW omissions \in BOOLEAN, Settle(q, i, answer, omissions)
        PROVE  WorkPaid(q, i)'
    <3> DEFINE row == Booked(attempts[w.row], answer)
    <3>1. /\ w.at = "call" /\ run'[q].batch = b
          /\ attempts' = [attempts EXCEPT ![w.row] = row]
      BY <2>4, SettleEffect DEF InCall, Settle
    <3>2. /\ w.row \in DOMAIN attempts /\ attempts[w.row] \in AttemptRecord
          /\ attempts[w.row].batch = b /\ attempts[w.row].job = i
          /\ attempts[w.row].role = w.role /\ w.row # 0
      BY <1>0, <3>1 DEF WorkPaid
    <3>3. /\ row.batch = b /\ row.job = i /\ row.role = w.role
          /\ answer.known => row.status = "settled"
          /\ row.answered <=> answer.result = "ok"
          /\ answer.result = "ok" => answer.known
      BY <3>2, BookedRow DEF Booked, AttemptRecord, Answers
    <3>4. attempts'[w.row] = row /\ DOMAIN attempts' = DOMAIN attempts
      BY <1>0, <3>1, <3>2
    <3>5. /\ attempts'[w.row].batch = b /\ attempts'[w.row].job = i
          /\ attempts'[w.row].role = w.role
          /\ answer.known => attempts'[w.row].status = "settled"
          /\ attempts'[w.row].answered <=> answer.result = "ok"
      BY <3>3, <3>4
    <3>6. \A k \in Analysed(b, i) : k \in Analysed(b, i)'
      BY <1>0, <3>1 DEF RowsPast, Analysed
    <3>7. answer.result = "ok" /\ w.role = "analysis" => w.row \in Analysed(b, i)'
      BY <3>1, <3>2, <3>3, <3>4, <3>5 DEF Analysed
    <3>8. w.role = "verification" => \E k \in Analysed(b, i) : k < w.row
      BY <1>0, <3>1 DEF WorkPaid
    <3> HIDE DEF row
    <3>9. \/ v.at \in Stopped /\ v.row = 0
          \/ /\ answer.result = "ok" /\ w.role = "analysis" /\ v.row = w.row
             /\ v.at = "reserve" /\ v.role = "verification"
          \/ /\ answer.result = "ok" /\ w.role # "analysis" /\ v.row = w.row
             /\ v.at = "commit" /\ v.role = w.role
          \/ /\ answer.result # "ok" /\ answer.known /\ v.row = w.row
             /\ v.at = "retry" /\ v.role = w.role
      BY <2>4, SettleOutcome
    <3>10. CASE v.at \in Stopped /\ v.row = 0
      BY <3>10 DEF WorkPaid, Stopped
    <3>11. CASE v.at = "reserve" /\ answer.result = "ok" /\ w.role = "analysis" /\ v.row = w.row
      BY <3>1, <3>2, <3>3, <3>4, <3>5, <3>7, <3>11 DEF WorkPaid, Stopped
    <3>12. CASE /\ answer.result = "ok" /\ w.role # "analysis" /\ v.row = w.row
                /\ v.at = "commit" /\ v.role = w.role
      BY <3>1, <3>2, <3>3, <3>4, <3>5, <3>6, <3>8, <3>12 DEF WorkPaid, Stopped
    <3>13. CASE /\ answer.result # "ok" /\ answer.known /\ v.row = w.row
                /\ v.at = "retry" /\ v.role = w.role
      BY <3>1, <3>2, <3>3, <3>4, <3>5, <3>6, <3>8, <3>13 DEF WorkPaid, Stopped
    <3> QED  BY <3>9, <3>10, <3>11, <3>12, <3>13
  <2> QED  BY <1>5, <2>1, <2>2, <2>3, <2>4 DEF OneMoves, Settles
<1> QED  BY <1>3, <1>4, <1>5, StepMoves DEF NoneMoves, OneMoves

\* A worker that may spend again or adopt knows what its latest call cost.
LEMMA PaidKnowsCost == AllPaid => KnownCostFirst
BY DEF AllPaid, WorkPaid, KnownCostFirst

\* An adoption rests on the row of its worker and on the analysis before it.
LEMMA AdoptionPaidStep ==
    ASSUME Shape, CallShape, AnsweredSettled, AllPaid, AdoptionPaid, [Next]_vars
    PROVE  AdoptionPaid'
<1>1. RowsPast
  BY RowsPastStep
<1>2. ASSUME NEW a, NEW i \in DOMAIN attempts, NEW role \in Roles, Answered(a, i, role)
      PROVE  i \in DOMAIN attempts' /\ Answered(a, i, role)'
  BY <1>1, <1>2 DEF RowsPast, Answered
<1>3. Roles = {"analysis", "verification", "reasoning"}
  BY DEF Roles
<1>4. ASSUME NEW a,
             \/ \E i \in DOMAIN attempts : Answered(a, i, "reasoning")
             \/ \E i, k \in DOMAIN attempts :
                   i < k /\ Answered(a, i, "analysis") /\ Answered(a, k, "verification")
      PROVE  \/ \E i \in DOMAIN attempts' : Answered(a, i, "reasoning")'
             \/ \E i, k \in DOMAIN attempts' :
                   i < k /\ Answered(a, i, "analysis")' /\ Answered(a, k, "verification")'
  BY <1>2, <1>3, <1>4
<1>5. ASSUME NEW a \in analyses', a \notin analyses
      PROVE  \/ \E i \in DOMAIN attempts : Answered(a, i, "reasoning")
             \/ \E i, k \in DOMAIN attempts :
                   i < k /\ Answered(a, i, "analysis") /\ Answered(a, k, "verification")
  <2>1. PICK p \in Pipelines, j \in Jobs :
           /\ CommitAdoption(p, j)
           /\ analyses' = analyses \cup
                {[job |-> j, batch |-> run[p].batch, checked |-> work[p][j].checked]}
    BY <1>5, ResultsStep
  <2> DEFINE w == work[p][j]
  <2>2. a.job = j /\ a.batch = run[p].batch
    BY <1>5, <2>1
  <2>3. w.at = "commit" /\ WorkPaid(p, j) /\ w.role \in Roles
    BY <2>1, TypeParts DEF CommitAdoption, AllPaid, Shape, WorkOK, WorkRecord
  <2>4. w.row \in DOMAIN attempts /\ Answered(a, w.row, w.role) /\ w.role # "analysis"
    BY <2>2, <2>3 DEF WorkPaid, Answered
  <2>5. CASE w.role = "verification"
    <3>1. PICK i \in Analysed(run[p].batch, j) : i < w.row
      BY <2>3, <2>5 DEF WorkPaid
    <3>2. i \in DOMAIN attempts /\ Answered(a, i, "analysis")
      BY <2>2, <3>1 DEF Analysed, Answered
    <3> QED  BY <2>4, <2>5, <3>1, <3>2
  <2> QED  BY <1>3, <2>3, <2>4, <2>5
<1> QED  BY <1>4, <1>5 DEF AdoptionPaid

-----------------------------------------------------------------------------
(* Retries are backed by settled failures                                  *)

\* The settled failures of a batch that no worker waits to retry any more.
Spent(b) == {i \in DOMAIN attempts :
    /\ attempts[i].batch = b /\ attempts[i].status = "settled" /\ ~attempts[i].answered
    /\ \A p \in Pipelines, j \in Jobs :
          work[p][j].at = "retry" => work[p][j].row # i}

\* Every retry of a batch used up a failure of its own.
RetriesSpent == \A b \in BatchIds : batch[b].retries <= Cardinality(Spent(b))

\* No two workers wait to retry the same failure.
RetryAlone == \A p, q \in Pipelines, i, j \in Jobs :
    /\ work[p][i].at = "retry" /\ work[q][j].at = "retry"
    /\ work[p][i].row = work[q][j].row
    => p = q /\ i = j

\* A worker that waits to retry was waiting already or was in the call.
LEMMA RetryOrigin ==
    ASSUME Shape, [Next]_vars, NEW q \in Pipelines, NEW i \in Jobs,
           work'[q][i].at = "retry"
    PROVE  /\ work'[q][i].row = work[q][i].row
           /\ work[q][i].at = "retry" \/ InCall(q, i)
           /\ InCall(q, i) => Settles(q, i)
<1>0. work[q][i] \in WorkRecord
  BY TypeParts DEF Shape, WorkOK
<1>1. CASE Rests(q, i)
  BY <1>1 DEF Rests, InCall
<1>2. CASE Stops(q, i)
  BY <1>2 DEF Stops, Stopped
<1>3. ASSUME OneMoves(q, i), ~Rests(q, i)
      PROVE  Settles(q, i) /\ InCall(q, i) /\ work'[q][i].row = work[q][i].row
  <2>1. Settles(q, i)
    BY <1>0, <1>3 DEF OneMoves, Picks, Reserves, Retries, WorkRecord
  <2>2. PICK answer \in Answers, omissions \in BOOLEAN : Settle(q, i, answer, omissions)
    BY <2>1 DEF Settles
  <2> QED  BY <2>1, <2>2, SettleOutcome, SettleEffect DEF Stopped
<1> QED  BY <1>1, <1>2, <1>3, StepMoves DEF NoneMoves, OneMoves, InCall

\* Registering a retry, planned, exhausted or lost, ends the waiting.
LEMMA RetryEffect ==
    ASSUME Shape, NEW p \in Pipelines, NEW j \in Jobs, RegisterRetry(p, j)
    PROVE  /\ work[p][j].at = "retry" /\ UNCHANGED attempts
           /\ work'[p][j].at # "retry"
           /\ \A q \in Pipelines, i \in Jobs : q # p \/ i # j => work'[q][i] = work[q][i]
<1>0. work \in [Pipelines -> [Jobs -> WorkRecord]]
  BY TypeParts DEF Shape, WorkOK
<1>1. PICK w : work' = [work EXCEPT ![p][j] = w] /\ w.at # "retry"
  <2>1. ASSUME NEW stage \in {"release", "fail"}, Goto(p, j, stage)
        PROVE  \E w : work' = [work EXCEPT ![p][j] = w] /\ w.at # "retry"
    <3> DEFINE w == [NoWork EXCEPT !.at = stage]
    <3>1. w.at # "retry" /\ work' = [work EXCEPT ![p][j] = w]
      BY <2>1 DEF NoWork, Goto
    <3> HIDE DEF w
    <3> QED  BY <3>1
  <2>2. ASSUME NEW role, NEW retries,
               work' = [work EXCEPT ![p][j].at = "reserve", ![p][j].role = role,
                                    ![p][j].retries = retries]
        PROVE  \E w : work' = [work EXCEPT ![p][j] = w] /\ w.at # "retry"
    <3> DEFINE w == [work[p][j] EXCEPT !.at = "reserve", !.role = role, !.retries = retries]
    <3>1. work' = [work EXCEPT ![p][j] = w]
      BY <1>0, <2>2
    <3>2. w.at # "retry"
      BY <1>0 DEF WorkRecord
    <3> HIDE DEF w
    <3> QED  BY <3>1, <3>2
  <2> QED  BY <2>1, <2>2 DEF RegisterRetry, Dispatch
<1> QED  BY <1>0, <1>1 DEF RegisterRetry

\* Every step keeps two workers from waiting to retry the same failure.
LEMMA RetryAloneStep ==
    ASSUME Shape, CallShape, AllPaid, RetryAlone, [Next]_vars
    PROVE  RetryAlone'
<1> SUFFICES ASSUME NEW p \in Pipelines, NEW q \in Pipelines, NEW i \in Jobs, NEW j \in Jobs,
                    work'[p][i].at = "retry", work'[q][j].at = "retry",
                    work'[p][i].row = work'[q][j].row
             PROVE  p = q /\ i = j
  BY DEF RetryAlone
<1>1. work[p][i].row = work[q][j].row
  BY RetryOrigin
<1>2. \A r \in Pipelines, k \in Jobs : work[r][k].at = "retry" =>
         attempts[work[r][k].row].status = "settled"
  BY DEF AllPaid, WorkPaid
<1>3. \A r \in Pipelines, k \in Jobs : InCall(r, k) =>
         attempts[work[r][k].row].status # "settled"
  BY DEF CallShape
<1> QED  BY <1>1, <1>2, <1>3, RetryOrigin DEF RetryAlone, CallShape

\* A claimed batch changes its status, its owner and its lease only.
LEMMA ClaimEffect ==
    ASSUME Shape, NEW p \in Pipelines, ClaimBatch(p)
    PROVE  \/ UNCHANGED batch
           \/ \E r : /\ batch' = [batch EXCEPT ![run[p].batch] = r]
                     /\ r.status = "running" /\ r.owner = p
                     /\ r.retries = batch[run[p].batch].retries
                     /\ r.jobs = batch[run[p].batch].jobs
<1> DEFINE b == run[p].batch
           r == [batch[b] EXCEPT !.status = "running", !.owner = p, !.lease = "live"]
<1>0. batch \in [BatchIds -> BatchRecord] /\ b \in BatchIds
  BY TypeParts DEF Shape, BatchesOK, RunShape, ClaimBatch
<1>1. \/ UNCHANGED batch
      \/ batch' = [batch EXCEPT ![b].status = "running", ![b].owner = p, ![b].lease = "live"]
  BY DEF ClaimBatch
<1>2. UNCHANGED batch \/ batch' = [batch EXCEPT ![b] = r]
  BY <1>0, <1>1
<1>3. /\ r.status = "running" /\ r.owner = p /\ r.retries = batch[b].retries
      /\ r.jobs = batch[b].jobs
  BY <1>0 DEF BatchRecord
<1> HIDE DEF r
<1> QED  BY <1>2, <1>3

\* Only a registered retry moves the retry counter of a batch up.
LEMMA RetriesMove ==
    ASSUME Shape, [Next]_vars, NEW b \in BatchIds
    PROVE  \/ batch'[b].retries <= batch[b].retries
           \/ /\ batch'[b].retries = batch[b].retries + 1
              /\ \E p \in Pipelines, j \in Jobs : RegisterRetry(p, j) /\ run[p].batch = b
<1> DEFINE Lower == batch'[b].retries <= batch[b].retries
<1>0. /\ batch \in [BatchIds -> BatchRecord] /\ batch[b] \in BatchRecord
      /\ batch[b].retries \in Nat
  BY TypeParts DEF Shape, BatchesOK, BatchRecord
<1>1. UNCHANGED batch => Lower
  BY <1>0
<1>2. ASSUME NEW c \in BatchIds, NEW s, batch' = [batch EXCEPT ![c] = Left(batch[c], s)]
      PROVE  Lower
  BY <1>0, <1>2 DEF Left, BatchRecord
<1>3. ASSUME NEW c \in BatchIds, CancelPersisted(c)  PROVE Lower
  BY <1>1, <1>2, <1>3 DEF CancelPersisted
<1>4. ASSUME NEW p \in Pipelines, RunStep(p)  PROVE Lower
  <2>1. run[p].batch \in BatchIds
    BY <1>4 DEF Shape, RunShape, RunStep, CancelUnclaimed, ClaimBatch, EndRun, RunDone
  <2>2. CASE ClaimBatch(p)
    <3>1. batch'[b].retries = batch[b].retries
      BY <1>0, <2>1, <2>2, ClaimEffect
    <3> QED  BY <1>0, <3>1
  <2>3. CASE CancelUnclaimed(p) \/ EndRun(p)
    BY <1>1, <1>2, <1>3, <2>1, <2>3 DEF CancelUnclaimed, EndRun, FinalizeBatch
  <2> QED  BY <1>4, <2>2, <2>3 DEF RunStep
<1>5. ASSUME NEW p \in Pipelines, NEW j \in Jobs, Worker(p, j), ~RegisterRetry(p, j)
      PROVE  Lower
  <2>1. CASE Reserve(p, j)
    <3>1. \/ UNCHANGED batch
          \/ batch' = [batch EXCEPT ![run[p].batch]
                                 = Counted(batch[run[p].batch], work[p][j].role)]
      BY <2>1 DEF Reserve
    <3>2. \A c \in BatchIds : \A role : Counted(batch[c], role).retries = batch[c].retries
      BY <1>0 DEF Counted, BatchRecord
    <3>3. batch'[b].retries = batch[b].retries
      BY <1>0, <3>1, <3>2
    <3> QED  BY <1>0, <3>3
  <2>2. CASE PauseForQuota(p, j) \/ CancelInCommit(p, j)
    <3>1. run[p].batch \in BatchIds
      BY <2>2, InPool DEF PauseForQuota, CancelInCommit
    <3> QED  BY <1>1, <1>2, <1>3, <2>2, <3>1 DEF PauseForQuota, CancelInCommit
  <2> QED  BY <1>1, <1>5, <2>1, <2>2
           DEF Worker, ClaimJob, StopBeforeCall, Settle, ReleaseJob, FailJob, CommitAdoption,
               store
<1>6. ASSUME NEW p \in Pipelines, NEW j \in Jobs, RegisterRetry(p, j)
      PROVE  \/ Lower
             \/ batch'[b].retries = batch[b].retries + 1 /\ run[p].batch = b
  <2>1. \/ UNCHANGED batch
        \/ batch' = [batch EXCEPT ![run[p].batch].retries = @ + 1,
                                  ![run[p].batch].lease = "live"]
    BY <1>6 DEF RegisterRetry
  <2> QED  BY <1>0, <1>1, <2>1 DEF BatchRecord
<1>7. CASE Control
  <2>1. ASSUME NEW c \in BatchIds, NEW chosen \in SUBSET Snapshots, NEW reanalyze \in BOOLEAN,
               NEW limits \in LimitChoices, PrepareBatch(c, chosen, reanalyze, limits)
        PROVE  Lower
    <3>1. PICK jobs, captured :
             batch' = [batch EXCEPT ![c] =
                [AbsentBatch EXCEPT !.status = "pending", !.jobs = jobs,
                                    !.limits = limits, !.captured = captured]]
      BY <2>1 DEF PrepareBatch
    <3> DEFINE r == [AbsentBatch EXCEPT !.status = "pending", !.jobs = jobs,
                                       !.limits = limits, !.captured = captured]
    <3>2. r.retries = 0
      BY DEF AbsentBatch
    <3> HIDE DEF r
    <3> QED  BY <1>0, <3>1, <3>2 DEF r
  <2>2. ASSUME NEW c \in BatchIds, NEW limits \in LimitChoices, Resume(c, limits)
        PROVE  Lower
    <3> DEFINE r == [Left(batch[c], "pending") EXCEPT !.limits = limits]
    <3>1. r.retries = batch[c].retries
      BY <1>0 DEF Left, BatchRecord
    <3>2. batch' = [batch EXCEPT ![c] = r]
      BY <2>2 DEF Resume
    <3> HIDE DEF r
    <3> QED  BY <1>0, <3>1, <3>2
  <2>3. ASSUME NEW c \in BatchIds, NEW p \in Pipelines, Pause(p, c) \/ RecoverBatch(c)
        PROVE  Lower
    BY <1>1, <1>2, <2>3 DEF Pause, RecoverBatch
  <2>4. ASSUME NEW c \in BatchIds, RecoverBatch(c)
        PROVE  Lower
    BY <1>1, <1>2, <2>4 DEF RecoverBatch
  <2> QED  BY <1>1, <1>3, <1>7, <2>1, <2>2, <2>3, <2>4
           DEF Control, Cancel, RecoverJob, StartRun, DeliverNotice, CancelToken, store
<1>8. CASE Environment
  <2>1. ASSUME NEW c \in BatchIds, LapseBatch(c)  PROVE Lower
    <3>1. batch'[b].retries = batch[b].retries
      BY <1>0, <2>1 DEF LapseBatch, BatchRecord
    <3> QED  BY <1>0, <3>1
  <2> QED  BY <1>1, <1>8, <2>1 DEF Environment, Crash, StoreFailure, LapseJob, Supersede,
           DecideManually, store
<1> QED  BY <1>1, <1>4, <1>5, <1>6, <1>7, <1>8 DEF Next, vars

\* Every step keeps each retry counted spent on a failure of its own.
LEMMA RetriesSpentStep ==
    ASSUME Shape, CallShape, AnsweredSettled, AllPaid, RetryAlone, RetriesSpent, [Next]_vars
    PROVE  RetriesSpent'
<1> SUFFICES ASSUME NEW b \in BatchIds
             PROVE  batch'[b].retries <= Cardinality(Spent(b)')
  BY DEF RetriesSpent
<1>0. attempts \in Seq(AttemptRecord) /\ attempts' \in Seq(AttemptRecord) /\ RowsPast
  BY NextShape, TypeParts, RowsPastStep DEF Shape, AttemptsOK
<1>1. batch[b].retries \in Nat /\ batch'[b].retries \in Nat
  BY NextShape, TypeParts DEF Shape, BatchesOK, BatchRecord
<1>2. /\ IsFiniteSet(Spent(b)) /\ IsFiniteSet(Spent(b)')
      /\ Cardinality(Spent(b)) \in Nat /\ Cardinality(Spent(b)') \in Nat
  <2>1. /\ DOMAIN attempts = 1 .. Len(attempts) /\ Len(attempts) \in Nat
        /\ DOMAIN attempts' = 1 .. Len(attempts') /\ Len(attempts') \in Nat
    BY <1>0
  <2>2. IsFiniteSet(DOMAIN attempts) /\ IsFiniteSet(DOMAIN attempts')
    BY <2>1, FS_Interval
  <2>3. Spent(b) \subseteq DOMAIN attempts /\ Spent(b)' \subseteq DOMAIN attempts'
    BY DEF Spent
  <2> QED  BY <2>2, <2>3, FS_Subset, FS_CardinalityType
<1>3. Spent(b) \subseteq Spent(b)'
  <2>1. ASSUME NEW k \in Spent(b), NEW q \in Pipelines, NEW i \in Jobs,
               work'[q][i].at = "retry", work'[q][i].row = k
        PROVE  FALSE
    <3>1. work[q][i].row = k /\ (work[q][i].at = "retry" \/ InCall(q, i))
      BY <2>1, RetryOrigin
    <3> QED  BY <2>1, <3>1 DEF Spent, CallShape
  <2> QED  BY <1>0, <2>1 DEF Spent, RowsPast
<1>4. batch[b].retries <= Cardinality(Spent(b)) /\ Cardinality(Spent(b)) <= Cardinality(Spent(b)')
  BY <1>2, <1>3, FS_Subset DEF RetriesSpent
<1>5. CASE batch'[b].retries <= batch[b].retries
  BY <1>1, <1>2, <1>4, <1>5
<1>6. ASSUME NEW p \in Pipelines, NEW j \in Jobs, RegisterRetry(p, j), run[p].batch = b,
             batch'[b].retries = batch[b].retries + 1
      PROVE  batch'[b].retries <= Cardinality(Spent(b)')
  <2> DEFINE n == work[p][j].row
  <2>1. n \in DOMAIN attempts /\ attempts[n].batch = b /\ attempts[n].status = "settled"
        /\ ~attempts[n].answered /\ work[p][j].at = "retry"
    BY <1>6, RetryEffect DEF AllPaid, WorkPaid
  <2>2. n \notin Spent(b)
    BY <2>1 DEF Spent
  <2>3. n \in Spent(b)'
    <3>1. ASSUME NEW q \in Pipelines, NEW i \in Jobs, work'[q][i].at = "retry"
          PROVE  work'[q][i].row # n
      <4>1. (q # p \/ i # j) /\ work'[q][i] = work[q][i]
        BY <1>6, <3>1, RetryEffect
      <4> QED  BY <2>1, <3>1, <4>1 DEF RetryAlone
    <3> QED  BY <1>6, <2>1, <3>1, RetryEffect DEF Spent
  <2>4. Cardinality(Spent(b) \cup {n}) = Cardinality(Spent(b)) + 1
    BY <1>2, <2>2, FS_AddElement
  <2>5. Spent(b) \cup {n} \subseteq Spent(b)'
    BY <1>3, <2>3
  <2>6. Cardinality(Spent(b) \cup {n}) <= Cardinality(Spent(b)')
    BY <1>2, <2>5, FS_Subset
  <2> QED  BY <1>1, <1>2, <1>4, <1>6, <2>4, <2>6
<1> QED  BY <1>5, <1>6, RetriesMove

\* Retries that were spent are backed by their rows.
LEMMA SpentBacks == Shape /\ RetriesSpent => RetriesBacked
<1> SUFFICES ASSUME Shape, RetriesSpent, NEW b \in BatchIds
             PROVE  batch[b].retries <= Cardinality({i \in DOMAIN attempts :
                      attempts[i].batch = b /\ attempts[i].status = "settled"
                      /\ ~attempts[i].answered})
  BY DEF RetriesBacked
<1> DEFINE failed == {i \in DOMAIN attempts :
              attempts[i].batch = b /\ attempts[i].status = "settled" /\ ~attempts[i].answered}
<1>1. DOMAIN attempts = 1 .. Len(attempts) /\ Len(attempts) \in Nat
  BY TypeParts DEF Shape, AttemptsOK
<1>2. IsFiniteSet(DOMAIN attempts)
  BY <1>1, FS_Interval
<1>3. IsFiniteSet(failed) /\ Spent(b) \subseteq failed
  BY <1>2, FS_Subset DEF Spent
<1>4. /\ Cardinality(failed) \in Nat /\ Cardinality(Spent(b)) \in Nat
      /\ Cardinality(Spent(b)) <= Cardinality(failed)
  BY <1>3, FS_Subset, FS_CardinalityType
<1>5. batch[b].retries \in Nat /\ batch[b].retries <= Cardinality(Spent(b))
  BY TypeParts DEF Shape, BatchesOK, BatchRecord, RetriesSpent
<1> QED  BY <1>4, <1>5

\* Everything the payment properties rest on.
Payments ==
    /\ Shape /\ CallShape /\ AnsweredSettled /\ TodoIdle /\ AllPaid /\ AdoptionPaid
    /\ RetryAlone /\ RetriesSpent

\* The payments are in order at the start.
LEMMA InitPayments == Init => Payments
<1> SUFFICES ASSUME Init  PROVE Payments
  OBVIOUS
<1>1. \A p \in Pipelines, j \in Jobs : /\ work[p][j].at = "idle" /\ work[p][j].row = 0
                                       /\ work[p][j].role = "analysis"
                                       /\ run[p].todo = {}
  BY DEF Init, NoWork, NoRun
<1>2. attempts = <<>> /\ analyses = {} /\ DOMAIN attempts = {}
  BY DEF Init
<1>3. CallShape /\ AnsweredSettled /\ TodoIdle /\ AllPaid /\ AdoptionPaid /\ RetryAlone
  BY <1>1, <1>2 DEF CallShape, InCall, AnsweredSettled, TodoIdle, AllPaid, WorkPaid, Stopped,
     AdoptionPaid, RetryAlone
<1>4. RetriesSpent
  <2>1. \A b \in BatchIds : batch[b].retries = 0 /\ Spent(b) = {}
    BY <1>2 DEF Init, AbsentBatch, Spent
  <2> QED  BY <2>1, FS_EmptySet DEF RetriesSpent
<1> QED  BY <1>3, <1>4, InitShape DEF Payments

\* Every step keeps them in order.
LEMMA PaymentsStep == Payments /\ [Next]_vars => Payments'
BY NextShape, CallShapeStep, RowsPastStep, TodoIdleStep, WorkPaidStep, AdoptionPaidStep,
   RetryAloneStep, RetriesSpentStep
DEF Payments

\* Every retry and every adopted result rests on settled calls, and no worker
\* spends again on a call of unknown cost, through every crash, pause, recovery,
\* retry and takeover (callRole, registerRetry, commitAdoption).
THEOREM WorkIsPaid == Spec => []PaidWork
<1>1. Payments => PaidWork
  BY PaidKnowsCost, SpentBacks DEF Payments, PaidWork
<1> QED  BY <1>1, InitPayments, PaymentsStep, PTL DEF Spec

-----------------------------------------------------------------------------
(* Adoption is all or nothing and happens once                             *)

\* Worker j of p adopts its result.
Adopts(p, j) ==
    /\ CommitAdoption(p, j)
    /\ HoldsBatch(p, run[p].batch) /\ HoldsJob(p, j)
    /\ analyses' = analyses \cup
         {[job |-> j, batch |-> run[p].batch, checked |-> work[p][j].checked]}
    /\ job' = [job EXCEPT ![j] = Left(job[j], "succeeded")]
    /\ UNCHANGED <<batch, attempts>>

\* No other step makes a job succeed.
LEMMA SucceedsByAdoption ==
    ASSUME Shape, [Next]_vars, NEW j \in Jobs,
           job[j].status # "succeeded", job'[j].status = "succeeded"
    PROVE  \E p \in Pipelines : Adopts(p, j)
<1> DEFINE Not == job'[j].status # "succeeded"
<1>0. job \in [Jobs -> JobRecord]
  BY TypeParts DEF Shape, JobsOK
<1>1. UNCHANGED job => Not
  OBVIOUS
<1>2. ASSUME NEW i \in Jobs, NEW s \in JobStatuses \ {"running", "succeeded"},
             job' = [job EXCEPT ![i] = Left(job[i], s)]
      PROVE  Not
  BY <1>0, <1>2, LeftJob
<1>3. ASSUME NEW i \in Jobs, NEW p \in Pipelines, job' = [job EXCEPT ![i] = Started(job[i], p)]
      PROVE  Not
  BY <1>0, <1>3, StartedJob
<1>4. {"pending", "paused_quota", "failed", "cancelled"}
         \subseteq JobStatuses \ {"running", "succeeded"}
  BY DEF JobStatuses
<1>5. ASSUME NEW c \in BatchIds, CancelPersisted(c)  PROVE Not
  BY <1>0, <1>1, <1>4, <1>5, LeftJob DEF CancelPersisted
<1>6. ASSUME NEW p \in Pipelines, RunStep(p)  PROVE Not
  <2>1. run[p].batch \in BatchIds
    BY <1>6 DEF Shape, RunShape, RunStep, CancelUnclaimed, ClaimBatch, EndRun, RunDone
  <2> QED  BY <1>1, <1>5, <1>6, <2>1 DEF RunStep, CancelUnclaimed, ClaimBatch, EndRun
<1>7. ASSUME NEW p \in Pipelines, NEW i \in Jobs, Worker(p, i), ~Adopts(p, i)
      PROVE  Not
  <2>1. CASE Reserve(p, i)
    <3>1. \/ UNCHANGED job
          \/ job' = [job EXCEPT ![i] = Left(job[i], "paused_quota")]
          \/ job' = [job EXCEPT ![i] = Counted(job[i], work[p][i].role)]
      BY <2>1 DEF Reserve
    <3>2. \A role : Counted(job[i], role).status = job[i].status
      BY <1>0 DEF Counted, JobRecord
    <3> QED  BY <1>0, <1>1, <1>2, <1>4, <3>1, <3>2
  <2>2. CASE CancelInCommit(p, i)
    <3>1. run[p].batch \in BatchIds
      BY <2>2, InPool DEF CancelInCommit
    <3> QED  BY <1>5, <2>2, <3>1 DEF CancelInCommit
  <2>3. CASE ClaimJob(p, i) \/ RegisterRetry(p, i)
    BY <1>1, <1>2, <1>3, <1>4, <2>3 DEF ClaimJob, RegisterRetry
  <2>4. CASE PauseForQuota(p, i) \/ ReleaseJob(p, i) \/ FailJob(p, i)
    BY <1>1, <1>2, <1>4, <2>4 DEF PauseForQuota, ReleaseJob, FailJob
  <2>5. CASE CommitAdoption(p, i)
    BY <1>1, <1>7, <2>5 DEF CommitAdoption, Adopts
  <2> QED  BY <1>1, <1>7, <2>1, <2>2, <2>3, <2>4, <2>5
           DEF Worker, StopBeforeCall, Settle, store
<1>8. ASSUME NEW p \in Pipelines, NEW i \in Jobs, Adopts(p, i)  PROVE Not \/ i = j
  BY <1>0, <1>8 DEF Adopts
<1>9. CASE Control
  <2>1. ASSUME NEW c \in BatchIds, NEW chosen \in SUBSET Snapshots, NEW reanalyze \in BOOLEAN,
               NEW limits \in LimitChoices, PrepareBatch(c, chosen, reanalyze, limits)
        PROVE  Not
    <3>1. \/ job'[j] = job[j] \/ job'[j] = Requeued(job[j])
          \/ job'[j] = [AbsentJob EXCEPT !.status = "pending"]
      BY <2>1 DEF PrepareBatch
    <3>2. Requeued(job[j]) = job[j] \/ Requeued(job[j]).status = "pending"
      BY <1>0, <1>4, LeftJob DEF Requeued
    <3>3. [AbsentJob EXCEPT !.status = "pending"].status = "pending"
      BY DEF AbsentJob
    <3> QED  BY <3>1, <3>2, <3>3
  <2>2. ASSUME NEW c \in BatchIds, NEW limits \in LimitChoices, Resume(c, limits)
        PROVE  Not
    <3>1. job'[j] = job[j] \/ job'[j] = Left(job[j], "pending")
      BY <2>2 DEF Resume
    <3> QED  BY <1>0, <1>4, <3>1, LeftJob
  <2>3. ASSUME NEW i \in Jobs, RecoverJob(i)  PROVE Not
    <3>1. job'[j] = job[j] \/ job'[j] = Left(job[j], "pending")
      BY <1>0, <2>3 DEF RecoverJob
    <3> QED  BY <1>0, <1>4, <3>1, LeftJob
  <2> QED  BY <1>1, <1>5, <1>9, <2>1, <2>2, <2>3
           DEF Control, Pause, Cancel, RecoverBatch, StartRun, DeliverNotice, CancelToken, store
<1>10. CASE Environment
  <2>1. ASSUME NEW i \in Jobs, LapseJob(i)  PROVE Not
    <3>1. job'[j].status = job[j].status
      BY <1>0, <2>1 DEF LapseJob, JobRecord
    <3> QED  BY <3>1
  <2> QED  BY <1>1, <1>10, <2>1
           DEF Environment, Crash, StoreFailure, LapseBatch, Supersede, DecideManually, store
<1> QED  BY <1>1, <1>6, <1>7, <1>8, <1>9, <1>10 DEF Next, vars

\* A succeeded job has one result, and no other job has any.
ResultsOf(j) == {a \in analyses : a.job = j}
SucceededOnce == \A j \in Jobs : job[j].status = "succeeded" =>
    \E a : ResultsOf(j) = {a}
AdoptedOnce == ResultsSucceeded /\ SucceededOnce

\* Every step keeps an adoption the only one of its job.
LEMMA AdoptedOnceStep ==
    ASSUME Shape, AdoptedOnce, [Next]_vars
    PROVE  AdoptedOnce'
<1>1. ResultsSucceeded'
  BY ResultsSucceededStep DEF AdoptedOnce
<1>2. ASSUME NEW j \in Jobs, job'[j].status = "succeeded"
      PROVE  \E a : ResultsOf(j)' = {a}
  <2>1. CASE job[j].status = "succeeded"
    <3>1. PICK a : ResultsOf(j) = {a}
      BY <2>1 DEF AdoptedOnce, SucceededOnce
    <3>2. ResultsOf(j)' = ResultsOf(j)
      <4>1. CASE UNCHANGED analyses
        BY <4>1 DEF ResultsOf
      <4>2. ASSUME NEW p \in Pipelines, NEW i \in Jobs, HoldsJob(p, i),
                   analyses' = analyses \cup
                     {[job |-> i, batch |-> run[p].batch, checked |-> work[p][i].checked]}
            PROVE  ResultsOf(j)' = ResultsOf(j)
        <5>1. i # j
          BY <2>1, <4>2 DEF HoldsJob, OwnsJob
        <5> QED  BY <4>2, <5>1 DEF ResultsOf
      <4> QED  BY <4>1, <4>2, ResultsStep
    <3> QED  BY <3>1, <3>2
  <2>2. CASE job[j].status # "succeeded"
    <3>1. PICK p \in Pipelines : Adopts(p, j)
      BY <1>2, <2>2, SucceedsByAdoption
    <3> DEFINE a == [job |-> j, batch |-> run[p].batch, checked |-> work[p][j].checked]
    <3>2. analyses' = analyses \cup {a} /\ a.job = j
      BY <3>1 DEF Adopts
    <3>3. ResultsOf(j) = {}
      BY <2>2 DEF AdoptedOnce, ResultsSucceeded, ResultsOf
    <3> HIDE DEF a
    <3>4. ResultsOf(j)' = {a}
      BY <3>2, <3>3 DEF ResultsOf
    <3> QED  BY <3>4
  <2> QED  BY <2>1, <2>2
<1> QED  BY <1>1, <1>2 DEF AdoptedOnce, SucceededOnce

\* Jobs adopted once each are counted exactly by the results.
LEMMA AdoptedOnceCounts == AdoptedOnce => AdoptedIffSucceeded
<1> SUFFICES ASSUME AdoptedOnce, NEW j \in Jobs
             PROVE  Cardinality(ResultsOf(j)) = IF job[j].status = "succeeded" THEN 1 ELSE 0
  BY DEF AdoptedIffSucceeded, ResultsOf
<1>1. CASE job[j].status = "succeeded"
  BY <1>1, FS_Singleton DEF AdoptedOnce, SucceededOnce
<1>2. CASE job[j].status # "succeeded"
  <2>1. ResultsOf(j) = {}
    BY <1>2 DEF AdoptedOnce, ResultsSucceeded, ResultsOf
  <2> QED  BY <1>2, <2>1, FS_EmptySet
<1> QED  BY <1>1, <1>2

-----------------------------------------------------------------------------
(* A completed batch has its results                                       *)

\* A batch only becomes completed when every job of it has succeeded.
LEMMA CompletesWhenDone ==
    ASSUME Shape, [Next]_vars, NEW b \in BatchIds,
           batch[b].status # "completed", batch'[b].status = "completed"
    PROVE  /\ batch'[b].jobs = batch[b].jobs
           /\ \A j \in batch[b].jobs : job[j].status = "succeeded"
<1> DEFINE Not == batch'[b].status # "completed"
<1>0. batch \in [BatchIds -> BatchRecord]
  BY TypeParts DEF Shape, BatchesOK
<1>1. UNCHANGED batch => Not
  OBVIOUS
<1>2. ASSUME NEW c \in BatchIds, NEW s \in BatchStatuses \ {"running", "completed"},
             batch' = [batch EXCEPT ![c] = Left(batch[c], s)]
      PROVE  Not
  BY <1>0, <1>2, LeftBatch
<1>3. {"pending", "paused", "failed", "cancelled"} \subseteq BatchStatuses \ {"running", "completed"}
  BY DEF BatchStatuses
<1>4. ASSUME NEW c \in BatchIds, CancelPersisted(c)  PROVE Not
  BY <1>1, <1>2, <1>3, <1>4 DEF CancelPersisted
<1>5. ASSUME NEW p \in Pipelines, RunStep(p)
      PROVE  \/ Not
             \/ /\ batch'[b].jobs = batch[b].jobs
                /\ \A j \in batch[b].jobs : job[j].status = "succeeded"
  <2>1. run[p].batch \in BatchIds
    BY <1>5 DEF Shape, RunShape, RunStep, CancelUnclaimed, ClaimBatch, EndRun, RunDone
  <2>2. CASE FinalizeBatch(p, run[p].batch)
    <3>1. CASE UNCHANGED batch
      BY <3>1
    <3>2. CASE ~UNCHANGED batch
      <4> DEFINE c == run[p].batch
      <4>1. batch' = [batch EXCEPT ![c] = Left(batch[c], FinalStatus(c))]
        BY <2>2, <3>2 DEF FinalizeBatch
      <4>2. /\ batch'[c].jobs = batch[c].jobs /\ batch'[c].status = FinalStatus(c)
            /\ \A d \in BatchIds \ {c} : batch'[d] = batch[d]
        BY <1>0, <2>1, <4>1, FinalStatusType, LeftBatch
      <4>3. b = c /\ FinalStatus(c) = "completed"
        BY <4>2
      <4>4. {job[j].status : j \in batch[c].jobs} = {"succeeded"}
        BY <4>3 DEF FinalStatus
      <4>5. \A j \in batch[c].jobs : job[j].status \in {job[k].status : k \in batch[c].jobs}
        OBVIOUS
      <4> QED  BY <4>2, <4>3, <4>4, <4>5
    <3> QED  BY <3>1, <3>2
  <2>3. CASE ClaimBatch(p)
    BY <1>0, <2>1, <2>3, ClaimEffect
  <2> QED  BY <1>1, <1>4, <1>5, <2>1, <2>2, <2>3 DEF RunStep, CancelUnclaimed, EndRun
<1>6. ASSUME NEW p \in Pipelines, NEW j \in Jobs, Worker(p, j)  PROVE Not
  <2>1. CASE PauseForQuota(p, j) \/ CancelInCommit(p, j)
    <3>1. run[p].batch \in BatchIds
      BY <2>1, InPool DEF PauseForQuota, CancelInCommit
    <3> QED  BY <1>1, <1>2, <1>3, <1>4, <2>1, <3>1 DEF PauseForQuota, CancelInCommit
  <2>2. CASE Reserve(p, j)
    <3>1. \/ UNCHANGED batch
          \/ batch' = [batch EXCEPT ![run[p].batch]
                                 = Counted(batch[run[p].batch], work[p][j].role)]
      BY <2>2 DEF Reserve
    <3>2. \A c \in BatchIds : \A role : Counted(batch[c], role).status = batch[c].status
      BY <1>0 DEF Counted, BatchRecord
    <3> QED  BY <1>0, <3>1, <3>2
  <2>3. CASE RegisterRetry(p, j)
    <3>1. \/ UNCHANGED batch
          \/ batch' = [batch EXCEPT ![run[p].batch].retries = @ + 1,
                                    ![run[p].batch].lease = "live"]
      BY <2>3 DEF RegisterRetry
    <3> QED  BY <1>0, <3>1 DEF BatchRecord
  <2> QED  BY <1>1, <1>6, <2>1, <2>2, <2>3
           DEF Worker, ClaimJob, StopBeforeCall, Settle, ReleaseJob, FailJob, CommitAdoption,
               store
<1>7. CASE Control
  <2>1. ASSUME NEW c \in BatchIds, NEW chosen \in SUBSET Snapshots, NEW reanalyze \in BOOLEAN,
               NEW limits \in LimitChoices, PrepareBatch(c, chosen, reanalyze, limits)
        PROVE  Not
    <3>1. PICK jobs, captured :
             batch' = [batch EXCEPT ![c] =
                [AbsentBatch EXCEPT !.status = "pending", !.jobs = jobs,
                                    !.limits = limits, !.captured = captured]]
      BY <2>1 DEF PrepareBatch
    <3> DEFINE r == [AbsentBatch EXCEPT !.status = "pending", !.jobs = jobs,
                                       !.limits = limits, !.captured = captured]
    <3>2. r.status = "pending"
      BY DEF AbsentBatch
    <3>3. batch' = [batch EXCEPT ![c] = r]
      BY <3>1
    <3> HIDE DEF r
    <3> QED  BY <1>0, <3>2, <3>3
  <2>2. ASSUME NEW c \in BatchIds, NEW limits \in LimitChoices, Resume(c, limits)
        PROVE  Not
    <3> DEFINE r == [Left(batch[c], "pending") EXCEPT !.limits = limits]
    <3>1. r.status = "pending"
      BY <1>0 DEF Left, BatchRecord
    <3>2. batch' = [batch EXCEPT ![c] = r]
      BY <2>2 DEF Resume
    <3> HIDE DEF r
    <3> QED  BY <1>0, <3>1, <3>2
  <2>3. ASSUME NEW c \in BatchIds, NEW p \in Pipelines, Pause(p, c)  PROVE Not
    BY <1>1, <1>2, <1>3, <2>3 DEF Pause
  <2>4. ASSUME NEW c \in BatchIds, RecoverBatch(c)  PROVE Not
    BY <1>1, <1>2, <1>3, <2>4 DEF RecoverBatch
  <2> QED  BY <1>1, <1>4, <1>7, <2>1, <2>2, <2>3, <2>4
           DEF Control, Cancel, RecoverJob, StartRun, DeliverNotice, CancelToken, store
<1>8. CASE Environment
  <2>1. ASSUME NEW c \in BatchIds, LapseBatch(c)  PROVE Not
    <3>1. batch'[b].status = batch[b].status
      BY <1>0, <2>1 DEF LapseBatch, BatchRecord
    <3> QED  BY <3>1
  <2> QED  BY <1>1, <1>8, <2>1
           DEF Environment, Crash, StoreFailure, LapseJob, Supersede, DecideManually, store
<1> QED  BY <1>1, <1>5, <1>6, <1>7, <1>8 DEF Next, vars

\* Every step keeps a completed batch one whose jobs were adopted.
LEMMA CompletedStep ==
    ASSUME Shape, AdoptedOnce, CompletedMeansAdopted, [Next]_vars
    PROVE  CompletedMeansAdopted'
<1> SUFFICES ASSUME NEW b \in BatchIds, batch'[b].status = "completed",
                    NEW j \in batch'[b].jobs
             PROVE  \E a \in analyses' : a.job = j
  BY DEF CompletedMeansAdopted
<1>1. analyses \subseteq analyses'
  BY ResultsStep
<1>2. CASE batch[b].status = "completed"
  <2>1. batch'[b] = batch[b]
    BY <1>2, BatchMoves
    DEF BatchMoved, BatchSame, Granted, Opened, Closed, OneMoved, BatchOver
  <2> QED  BY <1>1, <1>2, <2>1 DEF CompletedMeansAdopted
<1>3. CASE batch[b].status # "completed"
  <2>1. j \in batch[b].jobs /\ job[j].status = "succeeded"
    BY <1>3, CompletesWhenDone
  <2>2. j \in Jobs
    BY <2>1, TypeParts DEF Shape, BatchesOK, BatchRecord
  <2>3. \E a : ResultsOf(j) = {a}
    BY <2>1, <2>2 DEF AdoptedOnce, SucceededOnce
  <2> QED  BY <1>1, <2>3 DEF ResultsOf
<1> QED  BY <1>2, <1>3

\* What the results are counted from.
Results == Shape /\ AdoptedOnce /\ CompletedMeansAdopted

\* The results are in order at the start.
LEMMA InitResults == Init => Results
BY InitShape DEF Init, Results, AdoptedOnce, ResultsSucceeded, SucceededOnce, AbsentJob,
   AbsentBatch, CompletedMeansAdopted

\* Every step keeps them in order.
LEMMA ResultsInvStep == Results /\ [Next]_vars => Results'
BY NextShape, AdoptedOnceStep, CompletedStep DEF Results

\* A job has exactly one adopted result when it succeeded and none before,
\* whichever workers race to commitAdoption.
THEOREM AdoptionOnce == Spec => []AdoptedIffSucceeded
<1>1. Results => AdoptedIffSucceeded
  BY AdoptedOnceCounts DEF Results
<1> QED  BY <1>1, InitResults, ResultsInvStep, PTL DEF Spec

\* A succeeded job and a completed batch have their results in full, whatever
\* recovery, cancellation or another batch did to the jobs (finalizeBatch).
THEOREM ResultsComplete == Spec => []ResultsBacked
<1>1. Results => ResultsBacked
  BY AdoptedOnceCounts DEF Results, ResultsBacked
<1> QED  BY <1>1, InitResults, ResultsInvStep, PTL DEF Spec

-----------------------------------------------------------------------------
(* The model is asked about a job by one worker at a time                  *)

\* What a step does to a batch that exists.
LEMMA BatchFate ==
    ASSUME Shape, [Next]_vars, NEW b \in BatchIds, batch[b].status # "absent"
    PROVE  /\ batch'[b].jobs = batch[b].jobs
           /\ \/ batch'[b].status = batch[b].status /\ batch'[b].owner = batch[b].owner
              \/ batch'[b].status \in {"pending", "paused"}
              \/ CancelPersisted(b) /\ batch'[b].status = "cancelled"
              \/ UNCHANGED job /\ batch'[b].status = FinalStatus(b)
              \/ \E q \in Pipelines : /\ ClaimBatch(q) /\ run[q].batch = b
                                      /\ batch'[b].status = "running" /\ batch'[b].owner = q
<1> DEFINE Fate == /\ batch'[b].jobs = batch[b].jobs
                   /\ \/ batch'[b].status = batch[b].status /\ batch'[b].owner = batch[b].owner
                      \/ batch'[b].status \in {"pending", "paused"}
<1>0. batch \in [BatchIds -> BatchRecord]
  BY TypeParts DEF Shape, BatchesOK
<1>1. UNCHANGED batch => Fate
  OBVIOUS
<1>2. ASSUME NEW c \in BatchIds, NEW s \in {"pending", "paused"},
             batch' = [batch EXCEPT ![c] = Left(batch[c], s)]
      PROVE  Fate
  BY <1>0, <1>2 DEF Left, BatchRecord
<1>3. ASSUME NEW c \in BatchIds, CancelPersisted(c)
      PROVE  /\ batch'[b].jobs = batch[b].jobs
             /\ \/ batch'[b].status = batch[b].status /\ batch'[b].owner = batch[b].owner
                \/ CancelPersisted(b) /\ batch'[b].status = "cancelled"
  <2>1. CASE UNCHANGED batch
    BY <2>1
  <2>2. CASE batch' = [batch EXCEPT ![c] = Left(batch[c], "cancelled")]
    BY <1>0, <1>3, <2>2 DEF Left, BatchRecord
  <2> QED  BY <1>3, <2>1, <2>2 DEF CancelPersisted
<1>4. ASSUME NEW p \in Pipelines, RunStep(p)
      PROVE  /\ batch'[b].jobs = batch[b].jobs
             /\ \/ batch'[b].status = batch[b].status /\ batch'[b].owner = batch[b].owner
                \/ CancelPersisted(b) /\ batch'[b].status = "cancelled"
                \/ UNCHANGED job /\ batch'[b].status = FinalStatus(b)
                \/ /\ ClaimBatch(p) /\ run[p].batch = b
                   /\ batch'[b].status = "running" /\ batch'[b].owner = p
  <2>1. run[p].batch \in BatchIds
    BY <1>4 DEF Shape, RunShape, RunStep, CancelUnclaimed, ClaimBatch, EndRun, RunDone
  <2>2. CASE ClaimBatch(p)
    BY <1>0, <2>1, <2>2, ClaimEffect
  <2>3. CASE FinalizeBatch(p, run[p].batch) /\ UNCHANGED job
    <3>1. CASE UNCHANGED batch
      BY <3>1
    <3>2. CASE batch' = [batch EXCEPT ![run[p].batch]
                                  = Left(batch[run[p].batch], FinalStatus(run[p].batch))]
      BY <1>0, <2>1, <2>3, <3>2 DEF Left, BatchRecord
    <3> QED  BY <2>3, <3>1, <3>2 DEF FinalizeBatch
  <2>4. CASE UNCHANGED batch
    BY <2>4
  <2>5. CASE CancelPersisted(run[p].batch)
    BY <1>3, <2>1, <2>5
  <2> QED  BY <1>4, <2>2, <2>3, <2>4, <2>5 DEF RunStep, CancelUnclaimed, EndRun
<1>5. ASSUME NEW p \in Pipelines, NEW j \in Jobs, Worker(p, j), ~CancelInCommit(p, j)
      PROVE  Fate
  <2>1. CASE PauseForQuota(p, j)
    <3>1. run[p].batch \in BatchIds
      BY <2>1, InPool DEF PauseForQuota
    <3> QED  BY <1>1, <1>2, <2>1, <3>1 DEF PauseForQuota
  <2>2. CASE Reserve(p, j)
    <3>1. \/ UNCHANGED batch
          \/ batch' = [batch EXCEPT ![run[p].batch]
                                 = Counted(batch[run[p].batch], work[p][j].role)]
      BY <2>2 DEF Reserve
    <3>2. \A c \in BatchIds : \A role :
             /\ Counted(batch[c], role).status = batch[c].status
             /\ Counted(batch[c], role).owner = batch[c].owner
             /\ Counted(batch[c], role).jobs = batch[c].jobs
      BY <1>0 DEF Counted, BatchRecord
    <3> QED  BY <1>0, <3>1, <3>2
  <2>3. CASE RegisterRetry(p, j)
    <3>1. \/ UNCHANGED batch
          \/ batch' = [batch EXCEPT ![run[p].batch].retries = @ + 1,
                                    ![run[p].batch].lease = "live"]
      BY <2>3 DEF RegisterRetry
    <3> DEFINE c == run[p].batch
               r == [batch[c] EXCEPT !.retries = batch[c].retries + 1, !.lease = "live"]
    <3>2. /\ c \in BatchIds /\ r.status = batch[c].status /\ r.owner = batch[c].owner
          /\ r.jobs = batch[c].jobs
      BY <1>0, <2>3, InPool DEF RegisterRetry, BatchRecord
    <3>3. UNCHANGED batch \/ batch' = [batch EXCEPT ![c] = r]
      BY <1>0, <3>1, <3>2
    <3> HIDE DEF r
    <3> QED  BY <1>0, <1>1, <3>2, <3>3
  <2> QED  BY <1>1, <1>5, <2>1, <2>2, <2>3
           DEF Worker, ClaimJob, StopBeforeCall, Settle, ReleaseJob, FailJob, CommitAdoption,
               store
<1>6. ASSUME NEW p \in Pipelines, NEW j \in Jobs, CancelInCommit(p, j)
      PROVE  /\ batch'[b].jobs = batch[b].jobs
             /\ \/ batch'[b].status = batch[b].status /\ batch'[b].owner = batch[b].owner
                \/ CancelPersisted(b) /\ batch'[b].status = "cancelled"
  <2>1. run[p].batch \in BatchIds
    BY <1>6, InPool DEF CancelInCommit
  <2> QED  BY <1>3, <1>6, <2>1 DEF CancelInCommit
<1>7. ASSUME Control, ~(\E p \in Pipelines, c \in BatchIds : Cancel(p, c))
      PROVE  Fate
  <2>1. ASSUME NEW c \in BatchIds, NEW chosen \in SUBSET Snapshots, NEW reanalyze \in BOOLEAN,
               NEW limits \in LimitChoices, PrepareBatch(c, chosen, reanalyze, limits)
        PROVE  Fate
    <3>1. c # b /\ \E r : batch' = [batch EXCEPT ![c] = r]
      BY <2>1 DEF PrepareBatch
    <3> QED  BY <1>0, <3>1
  <2>2. ASSUME NEW c \in BatchIds, NEW limits \in LimitChoices, Resume(c, limits)
        PROVE  Fate
    <3> DEFINE r == [Left(batch[c], "pending") EXCEPT !.limits = limits]
    <3>1. r.status = "pending" /\ r.jobs = batch[c].jobs
      BY <1>0 DEF Left, BatchRecord
    <3>2. batch' = [batch EXCEPT ![c] = r]
      BY <2>2 DEF Resume
    <3> HIDE DEF r
    <3> QED  BY <1>0, <3>1, <3>2
  <2>3. ASSUME NEW c \in BatchIds, NEW p \in Pipelines, Pause(p, c)  PROVE Fate
    BY <1>1, <1>2, <2>3 DEF Pause
  <2>4. ASSUME NEW c \in BatchIds, RecoverBatch(c)  PROVE Fate
    BY <1>1, <1>2, <2>4 DEF RecoverBatch
  <2> QED  BY <1>1, <1>7, <2>1, <2>2, <2>3, <2>4
           DEF Control, RecoverJob, StartRun, DeliverNotice, CancelToken, store
<1>8. ASSUME NEW p \in Pipelines, NEW c \in BatchIds, Cancel(p, c)
      PROVE  /\ batch'[b].jobs = batch[b].jobs
             /\ \/ batch'[b].status = batch[b].status /\ batch'[b].owner = batch[b].owner
                \/ CancelPersisted(b) /\ batch'[b].status = "cancelled"
  BY <1>3, <1>8 DEF Cancel
<1>9. CASE Environment
  <2>1. ASSUME NEW c \in BatchIds, LapseBatch(c)  PROVE Fate
    BY <1>0, <2>1 DEF LapseBatch, BatchRecord
  <2> QED  BY <1>1, <1>9, <2>1
           DEF Environment, Crash, StoreFailure, LapseJob, Supersede, DecideManually, store
<1> QED  BY <1>1, <1>4, <1>5, <1>6, <1>7, <1>8, <1>9 DEF Next, vars

\* A job under a call stays with its caller unless it is cancelled or a quota
\* stop of another worker of the same job takes it away.
LEMMA CalledJobFate ==
    ASSUME Shape, [Next]_vars, LeaseOutlivesCall, NEW p \in Pipelines, NEW j \in Jobs,
           InCall(p, j), HoldsJob(p, j)
    PROVE  \/ HoldsJob(p, j)' \/ job'[j].status = "cancelled"
           \/ \E q \in Pipelines \ {p} :
                 PauseForQuota(q, j) /\ OwnsBatch(q, run[q].batch) /\ ~JobOver(job[j])
<1> DEFINE Fate == HoldsJob(p, j)' \/ job'[j].status = "cancelled"
<1>0. /\ job \in [Jobs -> JobRecord] /\ work[p][j].at = "call"
      /\ job[j].status = "running" /\ job[j].owner = p /\ job[j].lease = "live"
  BY TypeParts DEF Shape, JobsOK, InCall, HoldsJob, OwnsJob
<1>1. job'[j] = job[j] => Fate
  BY <1>0 DEF HoldsJob, OwnsJob
<1>2. \A s : Left(job[j], s).status = s
  BY <1>0 DEF Left, JobRecord
<1>3. ASSUME NEW c \in BatchIds, CancelPersisted(c)  PROVE Fate
  <2>1. job'[j] = job[j] \/ job'[j] = Left(job[j], "cancelled")
    BY <1>3 DEF CancelPersisted
  <2> QED  BY <1>1, <1>2, <2>1
<1>4. ASSUME NEW q \in Pipelines, RunStep(q)  PROVE Fate
  <2>1. run[q].batch \in BatchIds
    BY <1>4 DEF Shape, RunShape, RunStep, CancelUnclaimed, ClaimBatch, EndRun, RunDone
  <2> QED  BY <1>1, <1>3, <1>4, <2>1 DEF RunStep, CancelUnclaimed, ClaimBatch, EndRun
<1>5. ASSUME NEW q \in Pipelines, NEW i \in Jobs, Worker(q, i)
      PROVE  \/ Fate
             \/ q # p /\ PauseForQuota(q, j) /\ OwnsBatch(q, run[q].batch) /\ ~JobOver(job[j])
  <2>1. CASE i # j /\ ~CancelInCommit(q, i)
    <3>1. job'[j] = job[j]
      BY <1>0, <1>5, <2>1
      DEF Worker, ClaimJob, Reserve, StopBeforeCall, Settle, RegisterRetry, PauseForQuota,
          ReleaseJob, FailJob, CommitAdoption, store
    <3> QED  BY <1>1, <3>1
  <2>2. CASE CancelInCommit(q, i)
    <3>1. run[q].batch \in BatchIds
      BY <2>2, InPool DEF CancelInCommit
    <3> QED  BY <1>3, <2>2, <3>1 DEF CancelInCommit
  <2>3. CASE ClaimJob(q, j) \/ StopBeforeCall(q, j) \/ ReleaseJob(q, j) \/ FailJob(q, j)
             \/ (\E answer \in Answers, omissions \in BOOLEAN : Settle(q, j, answer, omissions))
    <3>1. job'[j] = job[j]
      BY <1>0, <2>3 DEF ClaimJob, Claimable, StopBeforeCall, ReleaseJob, FailJob, Settle,
         OwnsJob, store
    <3> QED  BY <1>1, <3>1
  <2>4. CASE Reserve(q, j) \/ RegisterRetry(q, j) \/ CommitAdoption(q, j)
    <3>1. job'[j] = job[j]
      BY <1>0, <2>4 DEF Reserve, RegisterRetry, CommitAdoption, HoldsJob, OwnsJob
    <3> QED  BY <1>1, <3>1
  <2>5. CASE PauseForQuota(q, j)
    <3>1. q # p
      BY <1>0, <2>5 DEF PauseForQuota
    <3> QED  BY <1>1, <2>5, <3>1 DEF PauseForQuota
  <2> QED  BY <1>5, <2>1, <2>2, <2>3, <2>4, <2>5 DEF Worker
<1>6. CASE Control
  <2>1. ASSUME NEW c \in BatchIds, NEW chosen \in SUBSET Snapshots, NEW reanalyze \in BOOLEAN,
               NEW limits \in LimitChoices, PrepareBatch(c, chosen, reanalyze, limits)
        PROVE  Fate
    <3>1. job'[j] = job[j]
      BY <1>0, <2>1 DEF PrepareBatch, Requeued
    <3> QED  BY <1>1, <3>1
  <2>2. CASE \E c \in BatchIds, limits \in LimitChoices : Resume(c, limits)
    BY <1>0, <1>1, <2>2 DEF Resume
  <2>3. CASE \E i \in Jobs : RecoverJob(i)
    <3>1. job'[j] = job[j]
      BY <1>0, <2>3 DEF RecoverJob
    <3> QED  BY <1>1, <3>1
  <2> QED  BY <1>1, <1>3, <1>6, <2>1, <2>2, <2>3
           DEF Control, Pause, Cancel, RecoverBatch, StartRun, DeliverNotice, CancelToken, store
<1>7. CASE Environment
  <2>1. ASSUME NEW i \in Jobs, LapseJob(i)  PROVE Fate
    <3>1. i # j
      BY <1>0, <2>1 DEF LapseJob, InCall
    <3> QED  BY <1>0, <1>1, <2>1, <3>1 DEF LapseJob
  <2> QED  BY <1>1, <1>7, <2>1
           DEF Environment, Crash, StoreFailure, LapseBatch, Supersede, DecideManually, store
<1> QED  BY <1>1, <1>4, <1>5, <1>6, <1>7 DEF Next, vars

\* A run names a batch that exists, and its workers and its queue hold jobs of it.
BatchExists == \A p \in Pipelines :
    IF run[p].phase = "idle" THEN run[p].todo = {}
    ELSE batch[run[p].batch].status # "absent"
JobsOfBatch == \A p \in Pipelines, j \in Jobs :
    work[p][j].at # "idle" \/ j \in run[p].todo => j \in batch[run[p].batch].jobs

\* The caller holds the job, for an active batch, until the job is over.
CallHeld == \A p \in Pipelines, j \in Jobs : InCall(p, j) =>
    JobOver(job[j]) \/ (HoldsJob(p, j) /\ Active(run[p].batch))

\* No second run of the same batch that still owns it has a worker on the job.
CallAlone == \A p, q \in Pipelines, j \in Jobs :
    /\ p # q /\ work[q][j].at # "idle" /\ OwnsBatch(q, run[q].batch)
    /\ InCall(p, j) /\ ~JobOver(job[j])
    => run[p].batch # run[q].batch

Calls == BatchExists /\ JobsOfBatch /\ CallHeld /\ CallAlone /\ OneCallInFlight

\* Every step keeps the batch of a run one that exists.
LEMMA BatchExistsStep ==
    ASSUME Shape, BatchExists, [Next]_vars
    PROVE  BatchExists'
<1> SUFFICES ASSUME NEW p \in Pipelines
             PROVE  IF run'[p].phase = "idle" THEN run'[p].todo = {}
                    ELSE batch'[run'[p].batch].status # "absent"
  BY DEF BatchExists
<1>1. ASSUME NEW b \in BatchIds, batch[b].status # "absent"
      PROVE  batch'[b].status # "absent"
  <2>1. FinalStatus(b) # "absent"
    BY FinalStatusType
  <2> QED  BY <1>1, <2>1, BatchFate
<1>2. CASE run[p].phase = "idle"
  BY <1>1, <1>2, RunFate DEF BatchExists
<1>3. CASE run[p].phase # "idle"
  <2>1. run[p].batch \in BatchIds /\ batch[run[p].batch].status # "absent"
    BY <1>3 DEF Shape, RunShape, BatchExists
  <2> QED  BY <1>1, <1>3, <2>1, RunFate
<1> QED  BY <1>2, <1>3

\* Every step keeps a run on the jobs of its batch.
LEMMA JobsOfBatchStep ==
    ASSUME Shape, BatchExists, JobsOfBatch, [Next]_vars
    PROVE  JobsOfBatch'
<1> SUFFICES ASSUME NEW p \in Pipelines, NEW j \in Jobs,
                    work'[p][j].at # "idle" \/ j \in run'[p].todo
             PROVE  j \in batch'[run'[p].batch].jobs
  BY DEF JobsOfBatch
<1>1. CASE /\ run'[p].batch = run[p].batch /\ j \in batch[run[p].batch].jobs
           /\ run[p].phase # "idle"
  <2>1. run[p].batch \in BatchIds /\ batch[run[p].batch].status # "absent"
    BY <1>1 DEF Shape, RunShape, BatchExists
  <2> QED  BY <1>1, <2>1, BatchFate
<1>2. CASE work'[p][j].at # "idle"
  <2>1. run[p].phase = "pool" /\ run'[p].batch = run[p].batch /\ j \in batch[run[p].batch].jobs
    <3>1. work[p][j].at # "idle" \/ ClaimJob(p, j)
      BY <1>2, WokenByClaim
    <3>2. run[p].phase = "pool" /\ j \in batch[run[p].batch].jobs
      BY <3>1, InPool DEF ClaimJob, JobsOfBatch
    <3>3. run'[p].phase = "pool"
      BY <1>2, NextShape DEF Shape, RunShape
    <3> QED  BY <3>2, <3>3, RunFate
  <2> QED  BY <1>1, <2>1
<1>3. CASE j \in run'[p].todo
  <2>1. CASE j \in run[p].todo
    <3>1. run[p].phase # "idle" /\ j \in batch[run[p].batch].jobs
      BY <2>1 DEF BatchExists, JobsOfBatch
    <3> QED  BY <1>1, <1>3, <3>1, RunFate
  <2>2. CASE j \notin run[p].todo
    BY <1>1, <1>3, <2>2, RunFate
  <2> QED  BY <2>1, <2>2
<1> QED  BY <1>2, <1>3

\* A worker in a call was in it already, for the same batch, or reserves it now.
LEMMA CallOrigin ==
    ASSUME Shape, [Next]_vars, NEW p \in Pipelines, NEW j \in Jobs, InCall(p, j)'
    PROVE  (InCall(p, j) /\ run'[p].batch = run[p].batch) \/ Reserves(p, j)
<1>0. work[p][j] \in WorkRecord
  BY TypeParts DEF Shape, WorkOK
<1>1. CASE Rests(p, j)
  BY <1>1 DEF Rests, InCall
<1>2. CASE Stops(p, j)
  BY <1>2 DEF Stops, Stopped, InCall
<1>3. ASSUME OneMoves(p, j)  PROVE Reserves(p, j)
  <2>1. ~Picks(p, j) /\ ~Retries(p, j)
    BY <1>0 DEF Picks, Retries, InCall, WorkRecord
  <2>2. ~Settles(p, j)
    BY SettleOutcome DEF Settles, InCall, Stopped
  <2> QED  BY <1>3, <2>1, <2>2 DEF OneMoves
<1> QED  BY <1>1, <1>2, <1>3, StepMoves DEF NoneMoves, OneMoves

\* A reservation leaves the job and the batch running under the caller's leases.
LEMMA ReservesHeld ==
    ASSUME Shape, NEW p \in Pipelines, NEW j \in Jobs, Reserves(p, j)
    PROVE  /\ HoldsJob(p, j)' /\ OwnsBatch(p, run[p].batch)' /\ UNCHANGED run
           /\ \A q \in Pipelines, i \in Jobs : q # p \/ i # j => work'[q][i] = work[q][i]
<1> DEFINE b == run[p].batch
           role == work[p][j].role
<1>0. /\ job \in [Jobs -> JobRecord] /\ batch \in [BatchIds -> BatchRecord]
      /\ work \in [Pipelines -> [Jobs -> WorkRecord]] /\ b \in BatchIds /\ UNCHANGED run
      /\ HoldsJob(p, j) /\ HoldsBatch(p, b)
  BY TypeParts, InPool DEF Shape, JobsOK, BatchesOK, WorkOK, Reserves, Reserve
<1>1. job' = [job EXCEPT ![j] = Counted(job[j], role)]
      /\ batch' = [batch EXCEPT ![b] = Counted(batch[b], role)]
  BY DEF Reserves, BooksMove
<1>2. /\ Counted(job[j], role).status = job[j].status
      /\ Counted(job[j], role).owner = job[j].owner
      /\ Counted(job[j], role).lease = job[j].lease
  BY <1>0 DEF Counted, JobRecord
<1>3. /\ Counted(batch[b], role).status = batch[b].status
      /\ Counted(batch[b], role).owner = batch[b].owner
  BY <1>0 DEF Counted, BatchRecord
<1>4. HoldsJob(p, j)' /\ OwnsBatch(p, run[p].batch)'
  BY <1>0, <1>1, <1>2, <1>3 DEF HoldsJob, OwnsJob, HoldsBatch, OwnsBatch
<1>5. ASSUME NEW q \in Pipelines, NEW i \in Jobs, q # p \/ i # j
      PROVE  work'[q][i] = work[q][i]
  BY <1>0, <1>5 DEF Reserves, Reserve, Goto
<1> QED  BY <1>0, <1>4, <1>5

\* Every step keeps a call at work the holder of its job, where its lease outlives the call.
LEMMA CallHeldStep ==
    ASSUME Shape, BatchExists, JobsOfBatch, CallHeld, CallAlone, LeaseOutlivesCall,
           OneActiveBatchPerSnapshot, [Next]_vars
    PROVE  CallHeld'
<1> SUFFICES ASSUME NEW p \in Pipelines, NEW j \in Jobs, InCall(p, j)', ~JobOver(job'[j])
             PROVE  HoldsJob(p, j)' /\ Active(run[p].batch)'
  BY DEF CallHeld
<1>1. CASE Reserves(p, j)
  BY <1>1, ReservesHeld DEF OwnsBatch, Active
<1>2. CASE InCall(p, j) /\ run'[p].batch = run[p].batch
  <2> DEFINE b == run[p].batch
  <2>1. ~JobOver(job[j])
    BY FinishedJobs DEF JobFinished, JobOver
  <2>2. /\ HoldsJob(p, j) /\ Active(b) /\ b \in BatchIds /\ j \in batch[b].jobs
        /\ batch[b].status # "absent"
    BY <1>2, <2>1, InPool DEF CallHeld, InCall, JobsOfBatch, Active
  <2>3. ASSUME NEW q \in Pipelines \ {p}, PauseForQuota(q, j), OwnsBatch(q, run[q].batch)
        PROVE  FALSE
    <3>1. /\ work[q][j].at # "idle" /\ run[q].batch \in BatchIds
          /\ j \in batch[run[q].batch].jobs /\ Active(run[q].batch)
      BY <2>3, InPool DEF PauseForQuota, JobsOfBatch, OwnsBatch, Active
    <3>2. run[q].batch = b
      BY <2>2, <3>1 DEF OneActiveBatchPerSnapshot
    <3> QED  BY <1>2, <2>1, <2>3, <3>1, <3>2 DEF CallAlone
  <2>4. HoldsJob(p, j)'
    BY <1>2, <2>2, <2>3, CalledJobFate DEF JobOver
  <2>5. CASE CancelPersisted(b)
    <3>1. job'[j] = Left(job[j], "cancelled")
      BY <2>1, <2>2, <2>5 DEF CancelPersisted, BatchOver, Active
    <3>2. job[j] \in JobRecord
      BY TypeParts DEF Shape, JobsOK
    <3> QED  BY <3>1, <3>2 DEF Left, JobOver, JobRecord
  <2>6. CASE UNCHANGED job /\ batch'[b].status = FinalStatus(b)
    <3> DEFINE statuses == {job[i].status : i \in batch[b].jobs}
    <3>1. "running" \in statuses
      BY <2>2 DEF HoldsJob, OwnsJob
    <3>2. FinalStatus(b) = IF "paused_quota" \in statuses THEN "paused" ELSE "pending"
      BY <3>1 DEF FinalStatus
    <3> QED  BY <1>2, <2>4, <2>6, <3>2 DEF Active
  <2> QED  BY <1>2, <2>2, <2>4, <2>5, <2>6, BatchFate DEF Active
<1> QED  BY <1>1, <1>2, CallOrigin

\* Every step keeps a caller the only run of its batch at work on its job.
LEMMA CallAloneStep ==
    ASSUME Shape, CallHeld, CallAlone, BatchExists, [Next]_vars
    PROVE  CallAlone'
<1> SUFFICES ASSUME NEW p \in Pipelines, NEW q \in Pipelines, NEW j \in Jobs, p # q,
                    work'[q][j].at # "idle", OwnsBatch(q, run[q].batch)', InCall(p, j)',
                    ~JobOver(job'[j]), run'[p].batch = run'[q].batch
             PROVE  FALSE
  BY DEF CallAlone
<1>0. work \in [Pipelines -> [Jobs -> WorkRecord]]
  BY TypeParts DEF Shape, WorkOK
<1>1. ~JobOver(job[j])
  BY FinishedJobs DEF JobFinished, JobOver
<1>2. CASE work[q][j].at = "idle"
  <2>1. ClaimJob(q, j)
    BY <1>2, WokenByClaim
  <2>2. Claimable(q, run[q].batch, j)
    BY <1>2, <2>1 DEF ClaimJob
  <2>3. work'[p][j] = work[p][j]
    BY <1>0, <2>1 DEF ClaimJob, Dispatch, Goto
  <2>4. HoldsJob(p, j)
    BY <1>1, <2>3 DEF CallHeld, InCall
  <2> QED  BY <2>2, <2>4 DEF Claimable, HoldsJob, OwnsJob
<1>3. CASE work[q][j].at # "idle"
  <2> DEFINE b == run[q].batch
  <2>1. run[q].phase = "pool" /\ b \in BatchIds /\ batch[b].status # "absent"
    BY <1>3, InPool DEF BatchExists
  <2>2. run'[q].phase = "pool"
    BY NextShape DEF Shape, RunShape
  <2>3. run'[q].batch = b
    BY <2>1, <2>2, RunFate
  <2>4. OwnsBatch(q, b)
    <3>1. FinalStatus(b) # "running"
      BY <2>1, FinalStatusType
    <3>2. ~ClaimBatch(q)
      BY <2>1 DEF ClaimBatch
    <3> QED  BY <2>1, <2>3, <3>1, <3>2, BatchFate DEF OwnsBatch
  <2>5. CASE Reserves(p, j)
    BY <2>3, <2>4, <2>5 DEF Reserves, HoldsBatch, OwnsBatch
  <2>6. CASE InCall(p, j) /\ run'[p].batch = run[p].batch
    BY <1>1, <1>3, <2>3, <2>4, <2>6 DEF CallAlone
  <2> QED  BY <2>5, <2>6, CallOrigin
<1> QED  BY <1>2, <1>3

\* Every step keeps the calls of a job to one over all pipelines.
LEMMA OneCallStep ==
    ASSUME Shape, CallHeld, OneCallInFlight, [Next]_vars
    PROVE  OneCallInFlight'
<1> SUFFICES ASSUME NEW j \in Jobs, NEW p \in Pipelines, NEW q \in Pipelines,
                    InCall(p, j)', InCall(q, j)'
             PROVE  p = q
  BY DEF OneCallInFlight
<1>1. \A r \in Pipelines : Reserves(r, j) => job[j].status = "running" /\ job[j].owner = r
  BY DEF Reserves, HoldsJob, OwnsJob
<1>2. \A r \in Pipelines :
         InCall(r, j) /\ job[j].status = "running" => job[j].owner = r
  BY DEF CallHeld, HoldsJob, OwnsJob, JobOver
<1>3. \A r \in Pipelines : InCall(r, j)' => InCall(r, j) \/ Reserves(r, j)
  BY CallOrigin
<1> QED  BY <1>1, <1>2, <1>3 DEF OneCallInFlight

\* The calls are in order at the start.
LEMMA InitCalls == Init => Calls
BY DEF Init, Calls, BatchExists, JobsOfBatch, CallHeld, CallAlone, OneCallInFlight, InCall,
   NoRun, NoWork

\* Every step keeps them in order.
LEMMA CallsStep ==
    ASSUME Shape, Calls, LeaseOutlivesCall, OneActiveBatchPerSnapshot, [Next]_vars
    PROVE  Calls'
BY BatchExistsStep, JobsOfBatchStep, CallHeldStep, CallAloneStep, OneCallStep DEF Calls

\* While no two active batches schedule the same snapshot, the model is asked
\* about a job by one worker at a time, whatever pauses, lapses, takeovers,
\* crashes and late signals happen, if no lease lapses under a call (claimBatch,
\* reserveAttempt, the constructor's leaseMs > requestTimeoutMs).
THEOREM OneCallAtATime ==
    ASSUME LeaseOutlivesCall
    PROVE  Spec /\ []OneActiveBatchPerSnapshot => []OneCallInFlight
<1>1. Shape /\ [Next]_vars => Shape'
  BY NextShape
<1>2. Shape /\ Calls /\ OneActiveBatchPerSnapshot /\ [Next]_vars => Calls'
  BY CallsStep
<1>3. Calls => OneCallInFlight
  BY DEF Calls
<1> QED  BY InitShape, InitCalls, <1>1, <1>2, <1>3, PTL DEF Spec

=============================================================================
