--------------------------- MODULE MaterialBatch ---------------------------
(***************************************************************************)
(* Bulk material refresh (src/application/material-refresh-batch-service   *)
(* and its record rules in material-refresh-batch-types): durable batches  *)
(* of platform reads, run one at a time by a service that can be closed.   *)
(*                                                                         *)
(* `queue` is the service's `exclusive` queue.  Serving its head is one    *)
(* step: a section does at most one save and nothing but another section   *)
(* writes the rows it reads.  `fifo` is `sequence`; the runs in it are the *)
(* ones `owned` maps.                                                      *)
(***************************************************************************)
EXTENDS Integers, Sequences

CONSTANTS
    Batches,
    ItemCount,   \* items of a batch; they are tried in this order
    MaxQueue,    \* bound: callers only call while the queue is shorter than this
    Faults       \* "crash", "store", "abort" (a start whose request was cancelled)

ASSUME CountAssumption == ItemCount \in Nat \ {0}
ASSUME QueueAssumption == MaxQueue \in Nat
ASSUME FaultsAssumption == Faults \subseteq {"crash", "store", "abort"}

Items == 1 .. ItemCount
ItemStatuses == {"pending", "running", "completed", "attention", "cancelled"}
BatchStatuses == {"absent", "prepared", "running", "paused", "completed", "cancelled"}

VARIABLES
    batch,      \* store: the batch records
    phase,      \* the service: recovering, open, then the stages of close()
    queue,      \* sections waiting for their turn
    fifo,       \* batches with an unsettled run, in claim order
    run,        \* the run of each batch
    leaving,    \* runs close() still has to detach
    committed   \* items whose platform read committed its snapshot

vars == <<batch, phase, queue, fifo, run, leaving, committed>>

AbsentBatch ==
    [status |-> "absent", started |-> FALSE, items |-> [i \in Items |-> "pending"]]
NoRun == [at |-> "none", item |-> 1, outcome |-> "cancelled", cancelled |-> FALSE,
          detached |-> FALSE]

Init ==
    /\ batch = [b \in Batches |-> AbsentBatch]
    /\ phase = "recovering"
    /\ queue = <<>> /\ fifo = <<>> /\ leaving = <<>>
    /\ run = [b \in Batches |-> NoRun]
    /\ committed = {}

-----------------------------------------------------------------------------
(* Record rules                                                            *)

\* Operators marked "Defect" are no part of the specification; each is a wrong
\* version of the definition that follows it, for the mutation runs.

HasWork(r) == \E i \in Items : r.items[i] \in {"pending", "running"}
AllCompleted(r) == \A i \in Items : r.items[i] = "completed"
Settled(r) == IF AllCompleted(r) THEN "completed" ELSE "paused"

\* Defect: the scan stops one behind the last pending item.
PendingAfter(r) ==
    1 + CHOOSE i \in Items :
          r.items[i] = "pending" /\ \A k \in i + 1 .. ItemCount : r.items[k] # "pending"

FirstPending(r) ==
    CHOOSE i \in Items : r.items[i] = "pending" /\ \A k \in 1 .. i - 1 : r.items[k] # "pending"

\* Defect: the item in flight is left as it is.
PausedOnly(r) == [r EXCEPT !.status = "paused"]

Interrupted(r) ==
    [r EXCEPT !.status = "paused",
              !.items = [i \in Items |-> IF r.items[i] = "running" THEN "attention"
                                         ELSE r.items[i]]]

\* Defect: the last outcome is written without settling the batch.
RecordedUnsettled(r, i, status) == [r EXCEPT !.items[i] = status]

\* One outcome and, when it was the last work of the run, the end of the run in
\* the same write.
Recorded(r, i, status) ==
    LET next == [r EXCEPT !.items[i] = status]
    IN  IF HasWork(next) THEN next ELSE [next EXCEPT !.status = Settled(next)]

\* Defect: completed siblings are not preserved.
CancelledEntirely(r) ==
    [r EXCEPT !.status = "cancelled", !.items = [i \in Items |-> "cancelled"]]

Cancelled(r) ==
    [r EXCEPT !.status = "cancelled",
              !.items = [i \in Items |-> IF r.items[i] = "completed" THEN "completed"
                                         ELSE "cancelled"]]

Retried(r) ==
    IF \A i \in Items : r.items[i] \notin {"attention", "cancelled"} THEN r
    ELSE [r EXCEPT
            !.status = IF r.status = "cancelled" /\ ~r.started THEN "prepared" ELSE "paused",
            !.items = [i \in Items |-> IF r.items[i] \in {"attention", "cancelled"}
                                       THEN "pending" ELSE r.items[i]]]

-----------------------------------------------------------------------------
(* Calls and their sections                                                *)

Section(op, b) == [op |-> op, batch |-> b]
Enqueue(op, b) == queue' = Append(queue, Section(op, b))
Owned(b) == run[b].at # "none"

\* prepare, start and retryFailed: refused at once while closing; retryFailed
\* also while a run of the batch has not settled.
Call(op, b) ==
    /\ phase = "open" /\ Len(queue) < MaxQueue
    /\ op = "retry" => ~Owned(b)
    /\ op = "abortedStart" => "abort" \in Faults
    /\ Enqueue(op, b)
    /\ UNCHANGED <<batch, phase, fifo, run, leaving, committed>>

\* Defect: cancel waits for its section before it reaches the live token.
CallCancelQuietly(b) ==
    /\ phase = "open" /\ Len(queue) < MaxQueue
    /\ Enqueue("cancel", b)
    /\ UNCHANGED <<batch, phase, fifo, run, leaving, committed>>

\* cancel: the token of the live run is reached before the section is queued.
CallCancel(b) ==
    /\ phase = "open" /\ Len(queue) < MaxQueue
    /\ run' = IF Owned(b) THEN [run EXCEPT ![b].cancelled = TRUE] ELSE run
    /\ Enqueue("cancel", b)
    /\ UNCHANGED <<batch, phase, fifo, leaving, committed>>

\* What a section writes to its batch; a refused or failed one writes nothing.
Write(r, op) ==
    CASE op = "prepare" /\ r.status = "absent" -> [r EXCEPT !.status = "prepared"]
      [] op = "cancel" /\ r.status \notin {"absent", "completed", "cancelled"} -> Cancelled(r)
      [] op = "retry" /\ r.status \notin {"absent", "running", "completed"} -> Retried(r)
      [] OTHER -> r

\* Sections of prepare, cancel and retryFailed.
ServeCall(b) ==
    /\ queue # <<>> /\ Head(queue).batch = b
    /\ Head(queue).op \in {"prepare", "cancel", "retry"}
    /\ queue' = Tail(queue)
    /\ batch' = IF phase = "open" THEN [batch EXCEPT ![b] = Write(@, Head(queue).op)] ELSE batch
    /\ UNCHANGED <<phase, fifo, run, leaving, committed>>

\* Defect: the claim does not install its run in the same section.
ClaimedLater(b) == fifo' = fifo /\ run' = run

\* ensureRun: a run that has not settled keeps its entry.
Claimed(b) ==
    IF Owned(b) THEN fifo' = fifo /\ run' = run
    ELSE fifo' = Append(fifo, b) /\ run' = [run EXCEPT ![b] = [NoRun EXCEPT !.at = "top"]]

\* The section of start.
ServeStart(b) ==
    LET r == batch[b]
        open == phase = "open"
        claims == open /\ r.status \in {"prepared", "paused"} /\ HasWork(r)
        stray == open /\ r.status = "running" /\ ~Owned(b)
    IN
    /\ queue # <<>> /\ Head(queue) = Section("start", b)
    /\ queue' = Tail(queue)
    /\ IF claims
       THEN batch' = [batch EXCEPT ![b].status = "running", ![b].started = TRUE] /\ Claimed(b)
       ELSE /\ batch' = IF stray THEN [batch EXCEPT ![b] = Interrupted(@)] ELSE batch
            /\ UNCHANGED <<fifo, run>>
    /\ UNCHANGED <<phase, leaving, committed>>

\* A start whose request is cancelled before it answers: the run it claimed, or
\* found, is cancelled and its batch is to be interrupted.  The worker of an idle
\* service has entered its first section before the caller learns of the claim.
ServeAbortedStart(b) ==
    LET r == batch[b]
        claims == phase = "open" /\ r.status \in {"prepared", "paused"} /\ HasWork(r)
        stray == phase = "open" /\ r.status = "running" /\ ~Owned(b)
        entered == ~Owned(b) /\ fifo = <<>>
    IN
    /\ queue # <<>> /\ Head(queue) = Section("abortedStart", b)
    /\ IF claims
       THEN /\ queue' = Append(IF entered THEN Append(Tail(queue), Section("begin", b))
                                          ELSE Tail(queue), Section("abort", b))
            /\ batch' = [batch EXCEPT ![b].status = "running", ![b].started = TRUE]
            /\ fifo' = IF Owned(b) THEN fifo ELSE Append(fifo, b)
            /\ run' = [run EXCEPT ![b] =
                         IF Owned(b) THEN [@ EXCEPT !.cancelled = TRUE]
                         ELSE [NoRun EXCEPT !.at = IF entered THEN "section" ELSE "top",
                                            !.cancelled = TRUE]]
       ELSE /\ queue' = Tail(queue)
            /\ batch' = IF stray THEN [batch EXCEPT ![b] = Interrupted(@)] ELSE batch
            /\ UNCHANGED <<fifo, run>>
    /\ UNCHANGED <<phase, leaving, committed>>

\* interruptOwned of an aborted start.
ServeAbort(b) ==
    /\ queue # <<>> /\ Head(queue) = Section("abort", b)
    /\ queue' = Tail(queue)
    /\ batch' = IF batch[b].status = "running" /\ ~run[b].detached
                THEN [batch EXCEPT ![b] = Interrupted(@)] ELSE batch
    /\ UNCHANGED <<phase, fifo, run, leaving, committed>>

\* The store refuses the write of a section that touches nothing else: the call
\* fails, and interruptDurably swallows the failure.
DropSection(b) ==
    /\ "store" \in Faults
    /\ queue # <<>> /\ Head(queue).batch = b
    /\ Head(queue).op \in {"prepare", "start", "abortedStart", "cancel", "retry", "abort"}
    /\ queue' = Tail(queue)
    /\ UNCHANGED <<batch, phase, fifo, run, leaving, committed>>

-----------------------------------------------------------------------------
(* The run of a batch: runBatch and runItem                                *)

\* Defect: runs do not wait for each other.
TurnAtOnce(b) == \E k \in 1 .. Len(fifo) : fifo[k] = b

Turn(b) == fifo # <<>> /\ Head(fifo) = b

EndRun(b) == fifo' = Tail(fifo) /\ run' = [run EXCEPT ![b] = NoRun]
Moves(b, at) == run' = [run EXCEPT ![b].at = at] /\ UNCHANGED fifo

\* The head of the loop; a cancelled run leaves by interruptOwned.
Top(b) ==
    /\ Turn(b) /\ run[b].at = "top"
    /\ IF run[b].detached THEN EndRun(b) /\ UNCHANGED queue
       ELSE /\ Moves(b, "section")
            /\ Enqueue(IF run[b].cancelled THEN "interrupt" ELSE "begin", b)
    /\ UNCHANGED <<batch, phase, leaving, committed>>

\* The section that picks the next pending item, or settles the batch.
ServeBegin(b) ==
    LET r == batch[b]
        pending == \E i \in Items : r.items[i] = "pending"
        works == ~run[b].detached /\ r.status = "running"
    IN
    /\ queue # <<>> /\ Head(queue) = Section("begin", b)
    /\ queue' = Tail(queue)
    /\ IF works /\ pending
       THEN /\ batch' = [batch EXCEPT ![b].items[FirstPending(r)] = "running"]
            /\ run' = [run EXCEPT ![b].at = "check", ![b].item = FirstPending(r)]
            /\ UNCHANGED fifo
       ELSE /\ batch' = IF works THEN [batch EXCEPT ![b].status = Settled(r)] ELSE batch
            /\ EndRun(b)
    /\ UNCHANGED <<phase, leaving, committed>>

\* The item has an outcome: it is to be recorded, unless close() gave the run up.
Outcome(b, kind) ==
    IF run[b].detached THEN EndRun(b) /\ UNCHANGED queue
    ELSE /\ run' = [run EXCEPT ![b].at = "section", ![b].outcome = kind]
         /\ Enqueue("record", b)
         /\ UNCHANGED fifo

\* A detached or cancelled run reads nothing; neither does one whose problem,
\* adapter or account is gone.
SkipRead(b) ==
    /\ Turn(b) /\ run[b].at = "check"
    /\ Outcome(b, IF run[b].detached \/ run[b].cancelled THEN "cancelled" ELSE "failed")
    /\ UNCHANGED <<batch, phase, leaving, committed>>

\* refreshMaterial is called.
Read(b) ==
    /\ Turn(b) /\ run[b].at = "check" /\ ~run[b].detached /\ ~run[b].cancelled
    /\ Moves(b, "reading")
    /\ UNCHANGED <<batch, phase, queue, leaving, committed>>

\* The platform answers: the snapshot is committed, or the read failed or was
\* cancelled (by the token or by the source itself).
Return(b) ==
    /\ Turn(b) /\ run[b].at = "reading"
    /\ \E kind \in {"completed", "failed", "cancelled"} :
         /\ Outcome(b, kind)
         /\ committed' = IF kind = "completed" THEN committed \cup {<<b, run[b].item>>}
                         ELSE committed
    /\ UNCHANGED <<batch, phase, leaving>>

\* Defect: a success that lands on a cancelled batch is dropped.
OutcomedUnlessCancelled(b) ==
    LET r == batch[b]
        i == run[b].item
        kind == run[b].outcome
    IN
    CASE r.status = "running" /\ kind = "completed" -> Recorded(r, i, "completed")
      [] r.status = "running" /\ kind = "failed" -> Recorded(r, i, "attention")
      [] r.status = "running" /\ kind = "cancelled" -> Interrupted(r)
      [] OTHER -> r

\* What recording the outcome makes of the batch.
Outcomed(b) ==
    LET r == batch[b]
        i == run[b].item
        kind == run[b].outcome
    IN
    CASE r.status = "cancelled" /\ kind = "completed" /\ r.items[i] = "cancelled" ->
             [r EXCEPT !.items[i] = "completed"]
      [] r.status = "running" /\ kind = "completed" -> Recorded(r, i, "completed")
      [] r.status = "running" /\ kind = "failed" -> Recorded(r, i, "attention")
      [] r.status = "running" /\ kind = "cancelled" -> Interrupted(r)
      [] OTHER -> r

\* The section that records an outcome, and the way on.
ServeRecord(b) ==
    LET refused == /\ batch[b].status = "running" /\ run[b].outcome # "cancelled"
                   /\ batch[b].items[run[b].item] # "running"
    IN
    /\ queue # <<>> /\ Head(queue) = Section("record", b)
    /\ IF run[b].detached \/ ~refused
       THEN /\ queue' = Tail(queue)
            /\ batch' = IF run[b].detached THEN batch ELSE [batch EXCEPT ![b] = Outcomed(b)]
            /\ IF run[b].outcome = "cancelled" THEN EndRun(b) ELSE Moves(b, "top")
       ELSE /\ queue' = Append(Tail(queue), Section("interrupt", b))
            /\ UNCHANGED <<batch, fifo, run>>
    /\ UNCHANGED <<phase, leaving, committed>>

\* A begin or a record the store refused: the run leaves by interruptOwned.
FailSection(b) ==
    /\ "store" \in Faults
    /\ queue # <<>> /\ Head(queue) \in {Section("begin", b), Section("record", b)}
    /\ ~run[b].detached
    /\ queue' = Append(Tail(queue), Section("interrupt", b))
    /\ UNCHANGED <<batch, phase, fifo, run, leaving, committed>>

\* interruptOwned of a run on its way out; the store may refuse the write.
ServeInterrupt(b) ==
    /\ queue # <<>> /\ Head(queue) = Section("interrupt", b)
    /\ queue' = Tail(queue)
    /\ \/ batch' = IF batch[b].status = "running" /\ ~run[b].detached
                   THEN [batch EXCEPT ![b] = Interrupted(@)] ELSE batch
       \/ "store" \in Faults /\ UNCHANGED batch
    /\ EndRun(b)
    /\ UNCHANGED <<phase, leaving, committed>>

-----------------------------------------------------------------------------
(* Disposal, crash and activation                                          *)

Drain == [op |-> "drain", batch |-> "none"]

\* close: the barrier falls and the queued claims are drained.
Close ==
    /\ phase = "open"
    /\ phase' = "draining"
    /\ queue' = Append(queue, Drain)
    /\ UNCHANGED <<batch, fifo, run, leaving, committed>>

\* Every run is cancelled; close waits for all of them under one deadline.
ServeDrain ==
    /\ queue # <<>> /\ Head(queue) = Drain
    /\ queue' = Tail(queue)
    /\ phase' = "waiting" /\ leaving' = fifo
    /\ run' = [b \in Batches |-> IF Owned(b) THEN [run[b] EXCEPT !.cancelled = TRUE] ELSE run[b]]
    /\ UNCHANGED <<batch, fifo, committed>>

\* Defect: close waits until every run has settled.
WaitForAll ==
    /\ phase = "waiting" /\ \A k \in 1 .. Len(leaving) : ~Owned(leaving[k])
    /\ phase' = "detaching"
    /\ UNCHANGED <<batch, queue, fifo, run, leaving, committed>>

\* All runs settled, or the deadline passed.
StopWaiting ==
    /\ phase = "waiting"
    /\ phase' = "detaching"
    /\ UNCHANGED <<batch, queue, fifo, run, leaving, committed>>

\* Defect: close gives up on a run without detaching it.
LeaveAttached ==
    /\ phase = "detaching" /\ leaving # <<>>
    /\ leaving' = Tail(leaving)
    /\ IF Owned(Head(leaving))
       THEN Enqueue("detach", Head(leaving)) /\ phase' = "interrupting"
       ELSE UNCHANGED <<phase, queue>>
    /\ UNCHANGED <<batch, fifo, run, committed>>

\* Defect: a run is detached, its batch is not interrupted.
DetachSilently ==
    /\ phase = "detaching" /\ leaving # <<>>
    /\ run' = IF Owned(Head(leaving)) THEN [run EXCEPT ![Head(leaving)].detached = TRUE] ELSE run
    /\ leaving' = Tail(leaving)
    /\ UNCHANGED <<batch, phase, queue, fifo, committed>>

\* Runs that outlived the deadline are detached one by one, each batch
\* interrupted before the next is looked at.
Detach ==
    /\ phase = "detaching" /\ leaving # <<>>
    /\ leaving' = Tail(leaving)
    /\ IF Owned(Head(leaving))
       THEN /\ run' = [run EXCEPT ![Head(leaving)].detached = TRUE]
            /\ Enqueue("detach", Head(leaving))
            /\ phase' = "interrupting"
       ELSE UNCHANGED <<phase, queue, run>>
    /\ UNCHANGED <<batch, fifo, committed>>

\* interruptDurably for a detached run; the store may refuse the write.
ServeDetach(b) ==
    /\ queue # <<>> /\ Head(queue) = Section("detach", b)
    /\ queue' = Tail(queue)
    /\ \/ batch' = IF batch[b].status = "running"
                   THEN [batch EXCEPT ![b] = Interrupted(@)] ELSE batch
       \/ "store" \in Faults /\ UNCHANGED batch
    /\ phase' = "detaching"
    /\ UNCHANGED <<fifo, run, leaving, committed>>

Closed ==
    /\ phase = "detaching" /\ leaving = <<>>
    /\ phase' = "closed"
    /\ UNCHANGED <<batch, queue, fifo, run, leaving, committed>>

\* The process ends, after close() or by a crash; only the store survives.
Down ==
    /\ phase # "down"
    /\ phase = "closed" \/ "crash" \in Faults
    /\ phase' = "down"
    /\ queue' = <<>> /\ fifo' = <<>> /\ leaving' = <<>> /\ committed' = {}
    /\ run' = [b \in Batches |-> NoRun]
    /\ UNCHANGED batch

Activate ==
    /\ phase = "down"
    /\ phase' = "recovering"
    /\ UNCHANGED <<batch, queue, fifo, run, leaving, committed>>

\* recoverInterrupted, awaited by the plugin before the routes exist: one save
\* per batch the dead process left running.
Recover(b) ==
    /\ phase = "recovering" /\ batch[b].status = "running"
    /\ batch' = [batch EXCEPT ![b] = Interrupted(@)]
    /\ UNCHANGED <<phase, queue, fifo, run, leaving, committed>>

Open ==
    /\ phase = "recovering" /\ \A b \in Batches : batch[b].status # "running"
    /\ phase' = "open"
    /\ UNCHANGED <<batch, queue, fifo, run, leaving, committed>>

-----------------------------------------------------------------------------

Calls(b) ==
    \/ \E op \in {"prepare", "start", "abortedStart", "retry"} : Call(op, b)
    \/ CallCancel(b)

\* The section at the head of the queue runs, or the store refuses its write.
Serve(b) ==
    /\ queue # <<>> /\ Head(queue).batch = b
    /\ \/ ServeCall(b)
       \/ ServeStart(b)
       \/ ServeAbortedStart(b)
       \/ ServeAbort(b)
       \/ DropSection(b)
       \/ ServeBegin(b)
       \/ ServeRecord(b)
       \/ FailSection(b)
       \/ ServeInterrupt(b)
       \/ ServeDetach(b)

Work(b) == Top(b) \/ SkipRead(b) \/ Read(b)

Disposal == ServeDrain \/ StopWaiting \/ Detach \/ Closed

Activation == Activate \/ Open \/ \E b \in Batches : Recover(b)

Next ==
    \/ \E b \in Batches : Calls(b) \/ Serve(b) \/ Work(b) \/ Return(b)
    \/ Close \/ Disposal \/ Down \/ Activation

Spec == Init /\ [][Next]_vars

\* The event loop runs every queued section and every ready run, and the close
\* timer expires.  Nothing makes a platform answer.
FairSpec ==
    /\ Spec
    /\ WF_vars(\E b \in Batches : Serve(b))
    /\ WF_vars(\E b \in Batches : Work(b))
    /\ WF_vars(Disposal)

\* Also, every platform read returns.
AnswersSpec == FairSpec /\ WF_vars(\E b \in Batches : Return(b))

-----------------------------------------------------------------------------
(* Properties                                                              *)

Ops == {"prepare", "start", "abortedStart", "cancel", "retry", "abort", "begin", "record",
        "interrupt", "detach"}
Phases == {"recovering", "open", "draining", "waiting", "detaching", "interrupting",
           "closed", "down"}
BatchRecord == [status : BatchStatuses, started : BOOLEAN, items : [Items -> ItemStatuses]]
RunRecord == [at : {"none", "top", "section", "check", "reading"}, item : Items,
              outcome : {"completed", "failed", "cancelled"},
              cancelled : BOOLEAN, detached : BOOLEAN]

Sections == [op : Ops, batch : Batches] \cup {Drain}

\* The records and the service state keep their shape.
TypeOK ==
    /\ batch \in [Batches -> BatchRecord]
    /\ phase \in Phases
    /\ queue \in Seq(Sections)
    /\ fifo \in Seq(Batches) /\ leaving \in Seq(Batches)
    /\ run \in [Batches -> RunRecord]
    /\ committed \subseteq Batches \X Items

\* The store never holds a record its own validator refuses: a running batch has
\* work left, a completed one has none, an item is in flight only in a running
\* batch, and only one at a time; `started` is what decides between prepared and
\* paused after a retry (validateMaterialRefreshBatch, replaceItemAndSettle).
RecordsValid ==
    \A b \in Batches :
        LET r == batch[b] IN
        /\ r.status = "running" => HasWork(r)
        /\ r.status = "completed" => AllCompleted(r)
        /\ r.status # "cancelled" => r.started = (r.status \in {"running", "paused", "completed"})
        /\ \A i, k \in Items : r.items[i] = "running" /\ r.items[k] = "running" => i = k
        /\ r.status # "running" => \A i \in Items : r.items[i] # "running"

\* However many batches are started, one platform read is in flight ("global
\* platform concurrency one", docs/architecture.md), detached runs included.
OneRead ==
    \A b, c \in Batches : run[b].at = "reading" /\ run[c].at = "reading" => b = c

\* While the service is open and the store accepts its writes, a batch stored as
\* running has a live run that will move it: the claim and its run are installed
\* in one section, and a run leaves only behind the write that stops its batch.
RunningIsOwned ==
    phase = "open" /\ "store" \notin Faults
        => \A b \in Batches : batch[b].status = "running" => Owned(b)

\* A stored in-flight item belongs to the run that holds it; between recoveries
\* nothing else claims to be in flight.
InFlightTruth ==
    phase = "open" /\ "store" \notin Faults
        => \A b \in Batches, i \in Items :
             batch[b].items[i] = "running" => Owned(b) /\ run[b].item = i

\* A completed item is never rewritten: not by cancel, retry, interruption,
\* recovery or a late outcome (validateMaterialRefreshBatchTransition).
CompletedKept ==
    [][\A b \in Batches, i \in Items :
         batch[b].items[i] = "completed" => batch'[b].items[i] = "completed"]_vars

\* A platform read starts only for the item the store shows in flight in a
\* running batch: never behind a cancel or an interruption already written.
ReadsOnlyRunning ==
    [][\A b \in Batches :
         run[b].at # "reading" /\ run'[b].at = "reading"
            => batch[b].status = "running" /\ batch[b].items[run[b].item] = "running"]_vars

\* Platform IO whose snapshot was committed is not repeated in the same
\* activation, whatever cancels and retries raced the read (the reason a cancelled
\* item is restored, completeCancelledMaterialRefreshItem), if the store accepts
\* its writes.
CommittedNotRepeated ==
    [][\A b \in Batches :
         run[b].at # "reading" /\ run'[b].at = "reading" /\ "store" \notin Faults
            => <<b, run[b].item>> \notin committed]_vars

\* Once close() has returned the service writes nothing, though detached reads may
\* still answer ("the late promise can never write").
ClosedIsQuiet == [][phase = "closed" /\ phase' = "closed" => batch' = batch]_vars

\* When close() returns no batch is left running, if the store accepts its writes.
ClosedIsTruthful ==
    phase = "closed" /\ "store" \notin Faults
        => \A b \in Batches : batch[b].status # "running"

\* close() returns though a read may never answer: disposal is bounded.
CloseReturns == phase = "draining" ~> phase \in {"closed", "down"}

\* If platform reads answer, a running batch comes to rest.
RunningSettles ==
    \A b \in Batches : batch[b].status = "running" ~> batch[b].status # "running"

\* What is stored of a run is true while nothing refuses a write: a running batch and an
\* item in flight have their run, and a closed service leaves none running.
StatusTruthful == RunningIsOwned /\ InFlightTruth /\ ClosedIsTruthful

\* Reads follow what is stored: none behind a cancel, none for what is already
\* committed, and no write at all once the service is closed.
RunsQuiet == ReadsOnlyRunning /\ CommittedNotRepeated /\ ClosedIsQuiet

=============================================================================
