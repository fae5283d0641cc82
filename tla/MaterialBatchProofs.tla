------------------------- MODULE MaterialBatchProofs -------------------------
(***************************************************************************)
(* Theorems about MaterialBatch for every number of batches, items and     *)
(* queued calls, with proofs for TLAPS: the types, the reads and the kept  *)
(* items first, then what is stored. The records stay valid, they tell the *)
(* truth about the runs, and the runs follow what is stored.               *)
(***************************************************************************)
EXTENDS MaterialBatch, TLAPS, SequenceTheorems, WellFoundedInduction

-----------------------------------------------------------------------------
(* The record rules                                                        *)

\* The item a run picks is an item, and it is pending.
LEMMA PickedPending ==
    ASSUME NEW r \in BatchRecord, NEW i \in Items, r.items[i] = "pending"
    PROVE  FirstPending(r) \in Items /\ r.items[FirstPending(r)] = "pending"
<1> DEFINE T == {k \in Items : r.items[k] = "pending"}
<1>1. T \subseteq Nat /\ T # {}
  BY CountAssumption DEF Items
<1>2. PICK x \in T : \A y \in T : <<y, x>> \notin OpToRel(<, Nat)
  BY <1>1, WFMin, NatLessThanWellFounded, Zenon
<1>3. \A y \in T : ~(y < x)
  BY <1>1, <1>2, Zenon DEF OpToRel
<1>4. x \in Items /\ r.items[x] = "pending" /\ \A k \in 1 .. x - 1 : r.items[k] # "pending"
  BY <1>3, CountAssumption DEF Items
<1> QED  BY <1>4 DEF FirstPending

\* Every record rule returns a record.
LEMMA RuleTypes ==
    ASSUME NEW r \in BatchRecord, NEW i \in Items, NEW status \in ItemStatuses
    PROVE  /\ Settled(r) \in BatchStatuses
           /\ Interrupted(r) \in BatchRecord
           /\ Recorded(r, i, status) \in BatchRecord
           /\ Cancelled(r) \in BatchRecord
           /\ Retried(r) \in BatchRecord
<1>1. \A x \in BatchRecord : Settled(x) \in BatchStatuses
  BY DEF Settled, BatchStatuses
<1>2. Interrupted(r) \in BatchRecord
  BY DEF Interrupted, BatchRecord, BatchStatuses, ItemStatuses
<1>3. [r EXCEPT !.items[i] = status] \in BatchRecord
  BY DEF BatchRecord
<1>4. \A x \in BatchRecord : [x EXCEPT !.status = Settled(x)] \in BatchRecord
  BY <1>1 DEF BatchRecord
<1>5. Recorded(r, i, status) \in BatchRecord
  BY <1>3, <1>4 DEF Recorded
<1>6. Cancelled(r) \in BatchRecord
  BY DEF Cancelled, BatchRecord, BatchStatuses, ItemStatuses
<1>7. Retried(r) \in BatchRecord
  BY DEF Retried, BatchRecord, BatchStatuses, ItemStatuses
<1> QED  BY <1>1, <1>2, <1>5, <1>6, <1>7

\* Recording a result leaves every completed item completed.
LEMMA RulesKeepCompleted ==
    ASSUME NEW r \in BatchRecord, NEW i \in Items, r.items[i] = "completed"
    PROVE  /\ Interrupted(r).items[i] = "completed"
           /\ Cancelled(r).items[i] = "completed"
           /\ Retried(r).items[i] = "completed"
           /\ \A k \in Items, status \in ItemStatuses :
                k # i => Recorded(r, k, status).items[i] = "completed"
<1>1. Interrupted(r).items[i] = "completed" /\ Cancelled(r).items[i] = "completed"
  BY DEF Interrupted, Cancelled, BatchRecord
<1>2. Retried(r).items[i] = "completed"
  BY DEF Retried, BatchRecord
<1>3. ASSUME NEW k \in Items, NEW status \in ItemStatuses, k # i
      PROVE  Recorded(r, k, status).items[i] = "completed"
  <2> DEFINE next == [r EXCEPT !.items[k] = status]
  <2>1. next.items[i] = "completed" /\ next \in BatchRecord
    BY <1>3 DEF BatchRecord
  <2>2. [next EXCEPT !.status = Settled(next)].items[i] = "completed"
    BY <2>1 DEF BatchRecord
  <2> QED  BY <2>1, <2>2 DEF Recorded
<1> QED  BY <1>1, <1>2, <1>3

-----------------------------------------------------------------------------
(* The queue of sections                                                   *)

\* The sections a run waits for: while one is queued, the run is at "section".
OwnOps == {"begin", "record", "interrupt"}
NoOwn(q) == \A k \in 1 .. Len(q) : q[k].op \notin OwnOps

\* A run waits for at most one section, and at most one run waits.
Awaited(q, r) ==
    /\ \A k \in 1 .. Len(q) : q[k].op \in OwnOps => r[q[k].batch].at = "section"
    /\ \A k, l \in 1 .. Len(q) : q[k].op \in OwnOps /\ q[l].op \in OwnOps => k = l

\* The elements of the queue once its head is served.
LEMMA Served ==
    ASSUME NEW q \in Seq(Sections), q # <<>>
    PROVE  /\ Head(q) \in Sections /\ Head(q) = q[1] /\ 1 \in 1 .. Len(q)
           /\ Tail(q) \in Seq(Sections) /\ Len(Tail(q)) = Len(q) - 1 /\ Len(q) \in Nat \ {0}
           /\ \A k \in 1 .. Len(Tail(q)) : k + 1 \in 1 .. Len(q) /\ Tail(q)[k] = q[k + 1]
BY HeadTailProperties, EmptySeq

\* Serving the head of the queue, whatever it is.
LEMMA ServedAwaited ==
    ASSUME NEW q \in Seq(Sections), q # <<>>, NEW r, NEW r1, Awaited(q, r),
           Head(q).op \in OwnOps
             \/ \A b \in Batches : r[b].at = "section" => r1[b].at = "section"
    PROVE  Awaited(Tail(q), r1) /\ (Head(q).op \in OwnOps => NoOwn(Tail(q)))
<1>1. CASE Head(q).op \in OwnOps
  <2>1. NoOwn(Tail(q))
    BY <1>1, Served DEF Awaited, NoOwn
  <2> QED  BY <2>1 DEF Awaited, NoOwn
<1>2. CASE Head(q).op \notin OwnOps
  <2>1. \A k \in 1 .. Len(Tail(q)) : Tail(q)[k] \in Sections
    BY Served, ElementOfSeq
  <2>2. \A k \in 1 .. Len(Tail(q)) : Tail(q)[k].op \in OwnOps => Tail(q)[k].batch \in Batches
    BY <2>1 DEF Sections, Drain, OwnOps
  <2>3. \A k \in 1 .. Len(Tail(q)) : Tail(q)[k].op \in OwnOps => r1[Tail(q)[k].batch].at = "section"
    BY <1>2, <2>2, Served DEF Awaited
  <2>4. \A k, l \in 1 .. Len(Tail(q)) :
           Tail(q)[k].op \in OwnOps /\ Tail(q)[l].op \in OwnOps => k = l
    BY Served DEF Awaited
  <2> QED  BY <1>2, <2>3, <2>4 DEF Awaited
<1> QED  BY <1>1, <1>2

\* The elements of a queue a section is added to.
LEMMA Queued ==
    ASSUME NEW q \in Seq(Sections), NEW s \in Sections
    PROVE  /\ Append(q, s) \in Seq(Sections) /\ Len(Append(q, s)) = Len(q) + 1
           /\ Append(q, s)[Len(q) + 1] = s
           /\ \A k \in 1 .. Len(q) : Append(q, s)[k] = q[k]
           /\ \A k \in 1 .. Len(Append(q, s)) : k \in 1 .. Len(q) \/ k = Len(q) + 1
<1>1. Len(q) \in Nat
  BY LenProperties
<1> QED  BY <1>1, AppendProperties

\* Queueing a section no run waits for.
LEMMA QueuedForeign ==
    ASSUME NEW q \in Seq(Sections), NEW s \in Sections, NEW r, Awaited(q, r), s.op \notin OwnOps
    PROVE  Append(q, s) \in Seq(Sections) /\ Awaited(Append(q, s), r)
BY Queued DEF Awaited

\* Queueing the section of a run, when no other run waits.
LEMMA QueuedOwn ==
    ASSUME NEW q \in Seq(Sections), NEW s \in Sections, NEW r, NoOwn(q), r[s.batch].at = "section"
    PROVE  Append(q, s) \in Seq(Sections) /\ Awaited(Append(q, s), r)
BY Queued DEF Awaited, NoOwn

-----------------------------------------------------------------------------
(* Types                                                                   *)

USE DEF Owned, Turn

BatchesOK == batch \in [Batches -> BatchRecord]
RunsOK == run \in [Batches -> RunRecord]
QueueOK == queue \in Seq(Sections)
FifoOK == fifo \in Seq(Batches)
RestOK == phase \in Phases /\ leaving \in Seq(Batches) /\ committed \subseteq Batches \X Items

\* The type invariant is its parts.
LEMMA TypeParts == TypeOK <=> BatchesOK /\ RunsOK /\ QueueOK /\ FifoOK /\ RestOK
BY DEF TypeOK, BatchesOK, RunsOK, QueueOK, FifoOK, RestOK

\* The same after a step.
LEMMA TypeNext == BatchesOK' /\ RunsOK' /\ QueueOK' /\ FifoOK' /\ RestOK' => TypeOK'
BY DEF TypeOK, BatchesOK, RunsOK, QueueOK, FifoOK, RestOK

\* A batch without a run is typed.
LEMMA NoRunType == NoRun \in RunRecord /\ 1 \in Items
BY CountAssumption DEF NoRun, RunRecord, Items

\* Named sections are sections, and serving or adding one leaves a queue of them.
LEMMA QueueMoves ==
    ASSUME QueueOK
    PROVE  /\ \A op \in Ops, b \in Batches :
                Section(op, b) \in Sections /\ Append(queue, Section(op, b)) \in Seq(Sections)
           /\ Append(queue, Drain) \in Seq(Sections)
           /\ queue # <<>> =>
                /\ Tail(queue) \in Seq(Sections)
                /\ \A op \in Ops, b \in Batches :
                     Append(Tail(queue), Section(op, b)) \in Seq(Sections)
<1>1. \A op \in Ops, b \in Batches : Section(op, b) \in Sections
  BY DEF Section, Sections
<1>2. Drain \in Sections
  BY DEF Sections
<1>3. \A q \in Seq(Sections), s \in Sections : Append(q, s) \in Seq(Sections)
  BY AppendProperties
<1>4. queue # <<>> => Tail(queue) \in Seq(Sections)
  BY Served DEF QueueOK
<1> QED  BY <1>1, <1>2, <1>3, <1>4 DEF QueueOK

\* What the queue of claims looks like after a claim and after a turn.
LEMMA FifoMoves ==
    ASSUME FifoOK
    PROVE  /\ fifo # <<>> => Tail(fifo) \in Seq(Batches) /\ Head(fifo) \in Batches
           /\ \A b \in Batches : /\ Append(fifo, b) \in Seq(Batches) /\ Append(fifo, b) # <<>>
                                 /\ fifo # <<>> => Head(Append(fifo, b)) = Head(fifo)
                                 /\ fifo = <<>> => Head(Append(fifo, b)) = b
<1>1. fifo # <<>> => Tail(fifo) \in Seq(Batches) /\ Head(fifo) \in Batches
  BY HeadTailProperties DEF FifoOK
<1>2. ASSUME NEW b \in Batches
      PROVE  /\ Append(fifo, b) \in Seq(Batches) /\ Append(fifo, b) # <<>>
             /\ fifo # <<>> => Head(Append(fifo, b)) = Head(fifo)
             /\ fifo = <<>> => Head(Append(fifo, b)) = b
  BY HeadTailAppend, AppendProperties DEF FifoOK
<1> QED  BY <1>1, <1>2

\* The types hold at the start.
LEMMA InitType == Init => TypeOK
<1> SUFFICES ASSUME Init  PROVE TypeOK
  OBVIOUS
<1>1. AbsentBatch \in BatchRecord
  BY DEF AbsentBatch, BatchRecord, BatchStatuses, ItemStatuses
<1>2. <<>> \in Seq(Sections) /\ <<>> \in Seq(Batches)
  BY EmptySeq
<1> QED  BY <1>1, <1>2, NoRunType DEF Init, TypeOK, Phases

\* The callers' own steps.
LEMMA CallTypes ==
    ASSUME TypeOK, NEW b \in Batches, Calls(b)
    PROVE  TypeOK'
<1>1. ASSUME NEW op \in {"prepare", "start", "abortedStart", "retry"}, Call(op, b)
      PROVE  TypeOK'
  <2>1. op \in Ops
    BY <1>1 DEF Ops
  <2>2. queue' \in Seq(Sections)
    BY <1>1, <2>1, TypeParts, QueueMoves DEF Call, Enqueue
  <2> QED  BY <1>1, <2>2 DEF Call, TypeOK
<1>2. CASE CallCancel(b)
  <2>1. queue' \in Seq(Sections)
    BY <1>2, TypeParts, QueueMoves DEF CallCancel, Enqueue, Ops
  <2>2. run' \in [Batches -> RunRecord]
    BY <1>2 DEF CallCancel, TypeOK, RunRecord
  <2> QED  BY <1>2, <2>1, <2>2 DEF CallCancel, TypeOK
<1> QED  BY <1>1, <1>2 DEF Calls

\* The sections of the callers' operations.
LEMMA ServeCallTypes ==
    ASSUME TypeOK, NEW b \in Batches,
           ServeCall(b) \/ ServeStart(b) \/ ServeAbortedStart(b) \/ ServeAbort(b) \/ DropSection(b)
    PROVE  TypeOK'
<1> USE TypeParts, TypeNext, QueueMoves, FifoMoves, RuleTypes
<1>0. batch[b] \in BatchRecord /\ Interrupted(batch[b]) \in BatchRecord
  BY CountAssumption, NoRunType DEF BatchesOK, ItemStatuses
<1>1. CASE ServeCall(b)
  <2>1. \A op : Write(batch[b], op) \in BatchRecord
    <3>1. Cancelled(batch[b]) \in BatchRecord /\ Retried(batch[b]) \in BatchRecord
      BY <1>0, NoRunType DEF ItemStatuses
    <3>2. [batch[b] EXCEPT !.status = "prepared"] \in BatchRecord
      BY <1>0 DEF BatchRecord, BatchStatuses
    <3> QED  BY <1>0, <3>1, <3>2 DEF Write
  <2>2. BatchesOK'
    BY <1>1, <2>1 DEF ServeCall, BatchesOK
  <2> QED  BY <1>1, <2>2 DEF ServeCall, RunsOK, QueueOK, FifoOK, RestOK
<1>2. [batch[b] EXCEPT !.status = "running", !.started = TRUE] \in BatchRecord
  BY <1>0 DEF BatchRecord, BatchStatuses
<1>3. \A at \in {"top", "section"}, c \in BOOLEAN :
         /\ [NoRun EXCEPT !.at = at, !.cancelled = c] \in RunRecord
         /\ [NoRun EXCEPT !.at = at] \in RunRecord
  BY NoRunType DEF RunRecord, NoRun
<1>4. CASE ServeStart(b)
  <2>1. BatchesOK'
    BY <1>0, <1>2, <1>4 DEF ServeStart, BatchesOK
  <2>2. FifoOK' /\ RunsOK'
    BY <1>3, <1>4 DEF ServeStart, Claimed, FifoOK, RunsOK
  <2> QED  BY <1>4, <2>1, <2>2 DEF ServeStart, QueueOK, RestOK
<1>5. CASE ServeAbortedStart(b)
  <2>1. BatchesOK'
    BY <1>0, <1>2, <1>5 DEF ServeAbortedStart, BatchesOK
  <2>2. FifoOK'
    BY <1>5 DEF ServeAbortedStart, FifoOK
  <2>3. [run[b] EXCEPT !.cancelled = TRUE] \in RunRecord
    BY DEF RunsOK, RunRecord
  <2>4. RunsOK'
    BY <1>3, <1>5, <2>3 DEF ServeAbortedStart, RunsOK
  <2>5. QueueOK'
    <3>1. Section("begin", b) \in Sections /\ Section("abort", b) \in Sections
      BY DEF Ops
    <3>2. Tail(queue) \in Seq(Sections)
      BY <1>5 DEF ServeAbortedStart
    <3>3. \A q \in Seq(Sections), x \in Sections : Append(q, x) \in Seq(Sections)
      BY AppendProperties
    <3>4. queue' = Tail(queue)
          \/ queue' = Append(Tail(queue), Section("abort", b))
          \/ queue' = Append(Append(Tail(queue), Section("begin", b)), Section("abort", b))
      BY <1>5 DEF ServeAbortedStart
    <3> QED  BY <3>1, <3>2, <3>3, <3>4 DEF QueueOK
  <2> QED  BY <1>5, <2>1, <2>2, <2>4, <2>5 DEF ServeAbortedStart, RestOK
<1>6. CASE ServeAbort(b)
  <2>1. BatchesOK'
    BY <1>0, <1>6 DEF ServeAbort, BatchesOK
  <2> QED  BY <1>6, <2>1 DEF ServeAbort, RunsOK, QueueOK, FifoOK, RestOK
<1>7. CASE DropSection(b)
  BY <1>7 DEF DropSection, BatchesOK, RunsOK, QueueOK, FifoOK, RestOK
<1> QED  BY <1>1, <1>4, <1>5, <1>6, <1>7

\* The loop of a run and its sections.
LEMMA RunTypes ==
    ASSUME TypeOK, NEW b \in Batches,
           Work(b) \/ Return(b) \/ ServeBegin(b) \/ ServeRecord(b) \/ FailSection(b)
             \/ ServeInterrupt(b),
           ServeBegin(b) \/ ServeRecord(b) \/ ServeInterrupt(b) => fifo # <<>>
    PROVE  TypeOK'
<1> USE TypeParts, TypeNext, QueueMoves, FifoMoves, RuleTypes
<1>0. /\ batch[b] \in BatchRecord /\ run[b] \in RunRecord /\ Interrupted(batch[b]) \in BatchRecord
  BY NoRunType DEF BatchesOK, RunsOK, ItemStatuses
<1>1. EndRun(b) /\ fifo # <<>> => FifoOK' /\ RunsOK'
  BY NoRunType DEF EndRun, FifoOK, RunsOK
<1>2. \A at \in {"none", "top", "section", "check", "reading"} :
         Moves(b, at) => FifoOK' /\ RunsOK'
  BY <1>0 DEF Moves, FifoOK, RunsOK, RunRecord
<1>3. \A op \in Ops : Enqueue(op, b) => QueueOK'
  BY DEF Enqueue, QueueOK
<1>4. \A kind \in {"completed", "failed", "cancelled"} :
         Outcome(b, kind) /\ fifo # <<>> => FifoOK' /\ RunsOK' /\ QueueOK'
  <2> TAKE kind \in {"completed", "failed", "cancelled"}
  <2>1. [run[b] EXCEPT !.at = "section", !.outcome = kind] \in RunRecord
    BY <1>0 DEF RunRecord
  <2>2. "record" \in Ops
    BY DEF Ops
  <2> QED  BY <1>1, <1>3, <2>1, <2>2 DEF Outcome, FifoOK, RunsOK, QueueOK
<1>5. CASE Top(b)
  <2>1. QueueOK'
    BY <1>3, <1>5 DEF Top, Ops, QueueOK
  <2>2. FifoOK' /\ RunsOK'
    BY <1>1, <1>2, <1>5 DEF Top
  <2> QED  BY <1>5, <2>1, <2>2 DEF Top, BatchesOK, RestOK
<1>6. CASE SkipRead(b)
  BY <1>4, <1>6 DEF SkipRead, BatchesOK, RestOK
<1>7. CASE Read(b)
  BY <1>2, <1>7 DEF Read, BatchesOK, RestOK, QueueOK
<1>8. CASE Return(b)
  <2>1. run[b].item \in Items
    BY <1>0 DEF RunRecord
  <2> QED  BY <1>4, <1>8, <2>1 DEF Return, BatchesOK, RestOK
<1> DEFINE r == batch[b]
           i == run[b].item
<1>9. CASE ServeBegin(b) /\ fifo # <<>>
  <2>1. CASE /\ \E k \in Items : r.items[k] = "pending"
             /\ ~run[b].detached /\ r.status = "running"
    <3>1. FirstPending(r) \in Items
      BY <1>0, <2>1, PickedPending
    <3>2. [r EXCEPT !.items[FirstPending(r)] = "running"] \in BatchRecord
      BY <1>0, <3>1 DEF BatchRecord, ItemStatuses
    <3>3. [run[b] EXCEPT !.at = "check", !.item = FirstPending(r)] \in RunRecord
      BY <1>0, <3>1 DEF RunRecord
    <3>4. batch' = [batch EXCEPT ![b] = [r EXCEPT !.items[FirstPending(r)] = "running"]]
          /\ run' = [run EXCEPT ![b] = [run[b] EXCEPT !.at = "check", !.item = FirstPending(r)]]
          /\ UNCHANGED fifo
      BY <1>9, <2>1 DEF ServeBegin
    <3> QED  BY <1>9, <3>2, <3>3, <3>4 DEF ServeBegin, BatchesOK, RunsOK, FifoOK, QueueOK, RestOK
  <2>2. CASE ~(/\ \E k \in Items : r.items[k] = "pending"
               /\ ~run[b].detached /\ r.status = "running")
    <3>1. [r EXCEPT !.status = Settled(r)] \in BatchRecord
      BY <1>0, NoRunType DEF BatchRecord, ItemStatuses
    <3>2. EndRun(b) /\ (batch' = batch \/ batch' = [batch EXCEPT ![b].status = Settled(r)])
      BY <1>9, <2>2 DEF ServeBegin
    <3> QED  BY <1>1, <1>9, <3>1, <3>2 DEF ServeBegin, BatchesOK, QueueOK, RestOK
  <2> QED  BY <2>1, <2>2
<1>10. CASE ServeRecord(b) /\ fifo # <<>>
  <2>1. Outcomed(b) \in BatchRecord
    <3>1. i \in Items
      BY <1>0 DEF RunRecord
    <3>2. \A status \in ItemStatuses : /\ Recorded(r, i, status) \in BatchRecord
                                       /\ [r EXCEPT !.items[i] = status] \in BatchRecord
      BY <1>0, <3>1 DEF BatchRecord
    <3> QED  BY <1>0, <3>2 DEF Outcomed, ItemStatuses
  <2>2. BatchesOK'
    BY <1>10, <2>1 DEF ServeRecord, BatchesOK
  <2>3. QueueOK'
    BY <1>10 DEF ServeRecord, QueueOK, Ops
  <2>4. FifoOK' /\ RunsOK'
    BY <1>1, <1>2, <1>10 DEF ServeRecord, FifoOK, RunsOK
  <2> QED  BY <1>10, <2>2, <2>3, <2>4 DEF ServeRecord, RestOK
<1>11. CASE FailSection(b)
  BY <1>11 DEF FailSection, BatchesOK, RunsOK, QueueOK, FifoOK, RestOK, Ops
<1>12. CASE ServeInterrupt(b) /\ fifo # <<>>
  <2>1. BatchesOK'
    BY <1>0, <1>12 DEF ServeInterrupt, BatchesOK
  <2> QED  BY <1>1, <1>12, <2>1 DEF ServeInterrupt, QueueOK, RestOK
<1> QED  BY <1>5, <1>6, <1>7, <1>8, <1>9, <1>10, <1>11, <1>12 DEF Work

\* Disposal, crash and activation.
LEMMA LifecycleTypes ==
    ASSUME TypeOK,
           Close \/ Disposal \/ Down \/ Activation \/ \E b \in Batches : ServeDetach(b)
    PROVE  TypeOK'
<1> USE TypeParts, TypeNext, QueueMoves, FifoMoves
<1>1. CASE Close
  BY <1>1 DEF Close, BatchesOK, RunsOK, QueueOK, FifoOK, RestOK, Phases
<1>2. CASE ServeDrain
  <2>1. \A b \in Batches : [run[b] EXCEPT !.cancelled = TRUE] \in RunRecord
    BY DEF RunsOK, RunRecord
  <2>2. RunsOK'
    BY <1>2, <2>1 DEF ServeDrain, RunsOK
  <2> QED  BY <1>2, <2>2 DEF ServeDrain, BatchesOK, QueueOK, FifoOK, RestOK, Phases
<1>3. CASE StopWaiting \/ Closed
  BY <1>3 DEF StopWaiting, Closed, BatchesOK, RunsOK, QueueOK, FifoOK, RestOK, Phases
<1>4. CASE Detach
  <2>1. Head(leaving) \in Batches /\ Tail(leaving) \in Seq(Batches)
    BY <1>4, HeadTailProperties DEF Detach, RestOK
  <2>2. [run[Head(leaving)] EXCEPT !.detached = TRUE] \in RunRecord
    BY <2>1 DEF RunsOK, RunRecord
  <2>3. RunsOK'
    BY <1>4, <2>2 DEF Detach, RunsOK
  <2>4. QueueOK'
    BY <1>4, <2>1 DEF Detach, Enqueue, QueueOK, Ops
  <2> QED  BY <1>4, <2>1, <2>3, <2>4 DEF Detach, BatchesOK, FifoOK, RestOK, Phases
<1>5. CASE Down
  <2>1. <<>> \in Seq(Sections) /\ <<>> \in Seq(Batches)
    BY EmptySeq
  <2> QED  BY <1>5, <2>1, NoRunType DEF Down, BatchesOK, RunsOK, QueueOK, FifoOK, RestOK, Phases
<1>6. ASSUME NEW b \in Batches, Recover(b) \/ ServeDetach(b)
      PROVE  BatchesOK'
  <2>1. Interrupted(batch[b]) \in BatchRecord
    BY RuleTypes, NoRunType DEF BatchesOK, ItemStatuses
  <2> QED  BY <1>6, <2>1 DEF Recover, ServeDetach, BatchesOK
<1>7. ASSUME NEW b \in Batches, ServeDetach(b)
      PROVE  TypeOK'
  BY <1>6, <1>7 DEF ServeDetach, RunsOK, QueueOK, FifoOK, RestOK, Phases
<1>8. CASE Activation
  <2>1. CASE Activate \/ Open
    BY <2>1 DEF Activate, Open, BatchesOK, RunsOK, QueueOK, FifoOK, RestOK, Phases
  <2>2. ASSUME NEW b \in Batches, Recover(b)  PROVE TypeOK'
    BY <1>6, <2>2 DEF Recover, RunsOK, QueueOK, FifoOK, RestOK
  <2> QED  BY <1>8, <2>1, <2>2 DEF Activation
<1> QED  BY <1>1, <1>2, <1>3, <1>4, <1>5, <1>7, <1>8 DEF Disposal

-----------------------------------------------------------------------------
(* One run at a time                                                       *)

Busy(r, b) == r[b].at \in {"section", "check", "reading"}

\* Only the run whose turn it is does anything.
InTurn == \A b \in Batches : Busy(run, b) => Turn(b)

OneAtATime == InTurn /\ Awaited(queue, run)

\* What the invariant says to the run at the head of the line.
LEMMA NothingQueued ==
    ASSUME TypeOK, OneAtATime
    PROVE  /\ fifo = <<>> => NoOwn(queue)
           /\ \A b \in Batches : Turn(b) /\ run[b].at # "section" => NoOwn(queue)
           /\ \A b, c \in Batches : Turn(b) /\ c # b => ~Busy(run, c)
           /\ \A b \in Batches, op \in OwnOps :
                queue # <<>> /\ Head(queue) = Section(op, b) =>
                  /\ Turn(b) /\ run[b].at = "section" /\ NoOwn(Tail(queue))
<1>1. \A k \in 1 .. Len(queue) : queue[k].op \in OwnOps =>
         queue[k].batch \in Batches /\ run[queue[k].batch].at = "section" /\ Turn(queue[k].batch)
  <2>1. \A k \in 1 .. Len(queue) : queue[k] \in Sections
    BY ElementOfSeq DEF TypeOK
  <2>2. \A s \in Sections : s.op \in OwnOps => s.batch \in Batches
    BY DEF Sections, Drain, OwnOps
  <2> QED  BY <2>1, <2>2 DEF OneAtATime, Awaited, InTurn, Busy
<1>2. ASSUME NEW b \in Batches, NEW op \in OwnOps, queue # <<>>, Head(queue) = Section(op, b)
      PROVE  Turn(b) /\ run[b].at = "section" /\ NoOwn(Tail(queue))
  <2>1. Head(queue) = queue[1] /\ 1 \in 1 .. Len(queue)
    BY <1>2, Served DEF TypeOK
  <2>2. Head(queue).op = op /\ Head(queue).batch = b
    BY <1>2 DEF Section
  <2>3. NoOwn(Tail(queue))
    BY <1>2, <2>2, ServedAwaited DEF TypeOK, OneAtATime
  <2> QED  BY <1>1, <2>1, <2>2, <2>3
<1>3. \A b, c \in Batches : Turn(b) /\ c # b => ~Busy(run, c)
  BY DEF OneAtATime, InTurn
<1> QED  BY <1>1, <1>2, <1>3 DEF NoOwn

\* Sections no run waits for keep the order of the runs as long as no run that
\* waits is touched.
LEMMA AwaitedAt ==
    ASSUME NEW q \in Seq(Sections), NEW r, NEW r1, Awaited(q, r),
           \A b \in Batches : r[b].at = "section" => r1[b].at = "section"
    PROVE  Awaited(q, r1)
<1>1. \A k \in 1 .. Len(q) : q[k] \in Sections
  BY ElementOfSeq
<1>2. \A k \in 1 .. Len(q) : q[k].op \in OwnOps => q[k].batch \in Batches
  BY <1>1 DEF Sections, Drain, OwnOps
<1> QED  BY <1>2 DEF Awaited

\* A step that adds or serves a section of a caller and moves no run.
LEMMA ForeignSection ==
    ASSUME TypeOK, OneAtATime,
           \A b \in Batches : run'[b].at = run[b].at,
           UNCHANGED fifo,
           \/ UNCHANGED queue
           \/ queue # <<>> /\ queue' = Tail(queue) /\ Head(queue).op \notin OwnOps
           \/ \E s \in Sections : s.op \notin OwnOps /\ queue' = Append(queue, s)
    PROVE  OneAtATime'
<1>0. queue \in Seq(Sections)
  BY DEF TypeOK
<1>1. InTurn'
  BY DEF OneAtATime, InTurn, Busy
<1>2. Awaited(queue, run')
  <2>1. Awaited(queue, run) /\ \A b \in Batches : run[b].at = "section" => run'[b].at = "section"
    BY DEF OneAtATime
  <2> QED  BY <1>0, <2>1, AwaitedAt, Zenon
<1>3. CASE UNCHANGED queue
  BY <1>1, <1>2, <1>3 DEF OneAtATime, Awaited
<1>4. CASE queue # <<>> /\ queue' = Tail(queue) /\ Head(queue).op \notin OwnOps
  <2>1. Awaited(Tail(queue), run')
    BY <1>0, <1>4, ServedAwaited DEF OneAtATime
  <2> QED  BY <1>1, <1>4, <2>1 DEF OneAtATime, Awaited
<1>5. CASE \E s \in Sections : s.op \notin OwnOps /\ queue' = Append(queue, s)
  <2>1. PICK s \in Sections : s.op \notin OwnOps /\ queue' = Append(queue, s)
    BY <1>5
  <2>2. Awaited(Append(queue, s), run')
    BY <1>0, <1>2, <2>1, QueuedForeign
  <2> QED  BY <1>1, <2>1, <2>2 DEF OneAtATime, Awaited
<1> QED  BY <1>3, <1>4, <1>5

\* The calls of a user keep one run at work at a time.
LEMMA CallsInOrder ==
    ASSUME TypeOK, OneAtATime, NEW b \in Batches,
           Calls(b) \/ ServeCall(b) \/ ServeAbort(b) \/ DropSection(b) \/ ServeDetach(b)
    PROVE  OneAtATime'
<1>0. \A op \in Ops : Section(op, b) \in Sections /\ Section(op, b).op = op
  BY DEF Section, Sections
<1>1. CASE \E op \in {"prepare", "start", "abortedStart", "retry"} : Call(op, b)
  <2>1. PICK op \in Ops : Call(op, b) /\ op \notin OwnOps
    BY <1>1 DEF Ops, OwnOps
  <2> QED  BY <1>0, <2>1, ForeignSection DEF Call, Enqueue
<1>2. CASE CallCancel(b)
  <2>1. \A c \in Batches : run'[c].at = run[c].at
    BY <1>2 DEF CallCancel, TypeOK, RunRecord
  <2>2. "cancel" \in Ops /\ "cancel" \notin OwnOps
    BY DEF Ops, OwnOps
  <2> QED  BY <1>0, <1>2, <2>1, <2>2, ForeignSection DEF CallCancel, Enqueue
<1>3. CASE ServeCall(b) \/ ServeAbort(b) \/ DropSection(b) \/ ServeDetach(b)
  <2>1. queue # <<>> /\ queue' = Tail(queue) /\ UNCHANGED <<fifo, run>>
    BY <1>3 DEF ServeCall, ServeAbort, DropSection, ServeDetach
  <2>2. Head(queue).op \notin OwnOps
    <3>1. CASE ServeCall(b) \/ DropSection(b)
      BY <3>1 DEF ServeCall, DropSection, OwnOps
    <3>2. CASE ServeAbort(b) \/ ServeDetach(b)
      <4>1. \E op \in {"abort", "detach"} : Head(queue) = Section(op, b)
        BY <3>2 DEF ServeAbort, ServeDetach
      <4> QED  BY <4>1 DEF Section, OwnOps
    <3> QED  BY <1>3, <3>1, <3>2
  <2> QED  BY <2>1, <2>2, ForeignSection
<1> QED  BY <1>1, <1>2, <1>3 DEF Calls

\* So do the host's closing, disposal and activation.
LEMMA LifecycleInOrder ==
    ASSUME TypeOK, OneAtATime, Close \/ Disposal \/ Down \/ Activation
    PROVE  OneAtATime'
<1>0. Drain \in Sections /\ Drain.op \notin OwnOps
  BY DEF Drain, Sections, OwnOps
<1>1. CASE Close
  BY <1>0, <1>1, ForeignSection DEF Close
<1>2. CASE ServeDrain
  <2>1. \A c \in Batches : run'[c].at = run[c].at
    BY <1>2 DEF ServeDrain, TypeOK, RunRecord
  <2> QED  BY <1>0, <1>2, <2>1, ForeignSection DEF ServeDrain
<1>3. CASE Detach
  <2>1. \A c \in Batches : run'[c].at = run[c].at
    <3>1. \A x \in RunRecord : [x EXCEPT !.detached = TRUE].at = x.at
      BY DEF RunRecord
    <3> QED  BY <1>3, <3>1 DEF Detach, TypeOK
  <2>2. Head(leaving) \in Batches
    BY <1>3, HeadTailProperties DEF Detach, TypeOK
  <2>3. Section("detach", Head(leaving)) \in Sections
        /\ Section("detach", Head(leaving)).op \notin OwnOps
    BY <2>2 DEF Section, Sections, Ops, OwnOps
  <2> QED  BY <1>3, <2>1, <2>3, ForeignSection DEF Detach, Enqueue
<1>4. CASE Down
  <2>1. Len(queue') = 0
    BY <1>4 DEF Down
  <2> QED  BY <1>4, <2>1 DEF Down, OneAtATime, InTurn, Busy, Awaited, NoRun
<1>5. CASE StopWaiting \/ Closed \/ Activation
  <2>1. UNCHANGED <<queue, fifo, run>>
    BY <1>5 DEF StopWaiting, Closed, Activation, Activate, Open, Recover
  <2> QED  BY <2>1, ForeignSection
<1> QED  BY <1>1, <1>2, <1>3, <1>4, <1>5 DEF Disposal

\* A claim puts a new run at the end of the line.
LEMMA ClaimsInOrder ==
    ASSUME TypeOK, OneAtATime, NEW b \in Batches, ServeStart(b) \/ ServeAbortedStart(b)
    PROVE  OneAtATime'
<1>0. /\ queue \in Seq(Sections) /\ queue # <<>> /\ Tail(queue) \in Seq(Sections)
      /\ run \in [Batches -> RunRecord] /\ FifoOK
  BY Served DEF ServeStart, ServeAbortedStart, TypeOK, FifoOK
<1>1. Head(queue).op \notin OwnOps
  <2>1. CASE Head(queue) = Section("start", b)
    BY <2>1 DEF Section, OwnOps
  <2>2. CASE Head(queue) = Section("abortedStart", b)
    BY <2>2 DEF Section, OwnOps
  <2> QED  BY <2>1, <2>2 DEF ServeStart, ServeAbortedStart
<1>2. \A op \in Ops : Section(op, b) \in Sections /\ Section(op, b).op = op
                        /\ Section(op, b).batch = b
  BY DEF Section, Sections
<1>3. \A x \in RunRecord : [x EXCEPT !.cancelled = TRUE].at = x.at
  BY DEF RunRecord
<1>4. /\ \A at : [NoRun EXCEPT !.at = at].at = at
      /\ \A at : [NoRun EXCEPT !.at = at, !.cancelled = TRUE].at = at
  BY DEF NoRun
<1>5. \A c \in Batches : Busy(run, c) => fifo # <<>> /\ Head(fifo) = c
  BY DEF OneAtATime, InTurn
<1>6. CASE queue' = Tail(queue) /\ UNCHANGED <<fifo, run>>
  BY <1>0, <1>1, <1>6, ForeignSection
<1>7. CASE ServeStart(b) /\ Claimed(b) /\ ~Owned(b)
  <2>1. fifo' = Append(fifo, b) /\ run' = [run EXCEPT ![b] = [NoRun EXCEPT !.at = "top"]]
    BY <1>7 DEF Claimed
  <2>2. /\ run'[b].at = "top" /\ run[b].at = "none"
        /\ \A c \in Batches : c # b => run'[c].at = run[c].at
    BY <1>0, <1>4, <1>7, <2>1
  <2>3. InTurn'
    BY <1>0, <1>5, <2>1, <2>2, FifoMoves DEF InTurn, Busy
  <2>4. Awaited(queue, run) /\ \A c \in Batches : run[c].at = "section" => run'[c].at = "section"
    BY <2>2 DEF OneAtATime
  <2>5. Awaited(Tail(queue), run')
    BY <1>0, <2>4, ServedAwaited
  <2> QED  BY <1>7, <2>3, <2>5 DEF ServeStart, OneAtATime
<1>8. CASE ServeAbortedStart(b) /\ Owned(b) /\ queue' = Append(Tail(queue), Section("abort", b))
             /\ run' = [run EXCEPT ![b] = [@ EXCEPT !.cancelled = TRUE]] /\ UNCHANGED fifo
  <2>1. \A c \in Batches : run'[c].at = run[c].at
    BY <1>0, <1>3, <1>8
  <2>2. InTurn'
    BY <1>5, <1>8, <2>1 DEF InTurn, Busy
  <2>3. Awaited(queue, run) /\ \A c \in Batches : run[c].at = "section" => run'[c].at = "section"
    BY <2>1 DEF OneAtATime
  <2>4. Awaited(Tail(queue), run')
    BY <1>0, <2>3, ServedAwaited
  <2>5. Section("abort", b) \in Sections /\ Section("abort", b).op \notin OwnOps
    BY <1>2 DEF Ops, OwnOps
  <2>6. Awaited(Append(Tail(queue), Section("abort", b)), run')
    BY <1>0, <2>4, <2>5, QueuedForeign
  <2> QED  BY <1>8, <2>2, <2>6 DEF OneAtATime
<1>9. CASE /\ ServeAbortedStart(b) /\ ~Owned(b) /\ fifo' = Append(fifo, b)
           /\ run' = [run EXCEPT ![b] = [NoRun EXCEPT
                        !.at = IF fifo = <<>> THEN "section" ELSE "top", !.cancelled = TRUE]]
           /\ queue' = Append(IF fifo = <<>> THEN Append(Tail(queue), Section("begin", b))
                                             ELSE Tail(queue), Section("abort", b))
  <2>1. /\ run'[b].at = IF fifo = <<>> THEN "section" ELSE "top"
        /\ run[b].at = "none"
        /\ \A c \in Batches : c # b => run'[c].at = run[c].at
    BY <1>0, <1>4, <1>9
  <2>2. InTurn'
    BY <1>0, <1>5, <1>9, <2>1, FifoMoves DEF InTurn, Busy
  <2>3. /\ Section("abort", b) \in Sections /\ Section("abort", b).op \notin OwnOps
        /\ Section("begin", b) \in Sections /\ Section("begin", b).batch = b
    BY <1>2 DEF Ops, OwnOps
  <2>4. Awaited(queue, run) /\ \A c \in Batches : run[c].at = "section" => run'[c].at = "section"
    BY <2>1 DEF OneAtATime
  <2>5. Awaited(Tail(queue), run')
    BY <1>0, <2>4, ServedAwaited
  <2>6. CASE fifo # <<>>
    <3>1. Awaited(Append(Tail(queue), Section("abort", b)), run')
      BY <1>0, <2>3, <2>5, QueuedForeign
    <3> QED  BY <1>9, <2>2, <2>6, <3>1 DEF OneAtATime
  <2>7. CASE fifo = <<>>
    <3>1. NoOwn(queue) /\ run'[b].at = "section"
      BY <2>1, <2>7, NothingQueued
    <3>2. NoOwn(Tail(queue))
      BY <1>0, <3>1, Served DEF NoOwn
    <3>3. /\ Append(Tail(queue), Section("begin", b)) \in Seq(Sections)
          /\ Awaited(Append(Tail(queue), Section("begin", b)), run')
      BY <1>0, <2>3, <3>1, <3>2, QueuedOwn
    <3>4. Awaited(Append(Append(Tail(queue), Section("begin", b)), Section("abort", b)), run')
      BY <2>3, <3>3, QueuedForeign
    <3> QED  BY <1>9, <2>2, <2>7, <3>4 DEF OneAtATime
  <2> QED  BY <2>6, <2>7
<1>10. CASE ServeStart(b)
  BY <1>6, <1>7, <1>10 DEF ServeStart, Claimed
<1>11. CASE ServeAbortedStart(b)
  <2> DEFINE claims == /\ phase = "open" /\ batch[b].status \in {"prepared", "paused"}
                       /\ HasWork(batch[b])
  <2>1. CASE ~claims
    BY <1>6, <1>11, <2>1 DEF ServeAbortedStart
  <2>2. CASE claims /\ Owned(b)
    BY <1>8, <1>11, <2>2 DEF ServeAbortedStart
  <2>3. CASE claims /\ ~Owned(b)
    BY <1>9, <1>11, <2>3 DEF ServeAbortedStart
  <2> QED  BY <2>1, <2>2, <2>3
<1> QED  BY <1>10, <1>11

\* A run that is not waiting for a section moves on, ends, or queues its next one.
LEMMA TurnMoves ==
    ASSUME TypeOK, OneAtATime, NEW b \in Batches, Turn(b),
           NEW q \in Seq(Sections), NoOwn(q),
           \/ queue' = q /\ UNCHANGED fifo
                /\ \E at \in {"top", "check", "reading"}, x \in RunRecord :
                     run' = [run EXCEPT ![b] = x] /\ x.at = at
           \/ queue' = q /\ EndRun(b)
           \/ /\ UNCHANGED fifo
              /\ \E op \in OwnOps : queue' = Append(q, Section(op, b))
              /\ \E x \in RunRecord : run' = [run EXCEPT ![b] = x] /\ x.at = "section"
    PROVE  OneAtATime'
<1>1. run \in [Batches -> RunRecord] /\ \A c \in Batches : c # b => ~Busy(run, c)
  BY NothingQueued DEF TypeOK
<1>2. CASE queue' = q /\ UNCHANGED fifo
             /\ \E at \in {"top", "check", "reading"}, x \in RunRecord :
                  run' = [run EXCEPT ![b] = x] /\ x.at = at
  <2>1. InTurn'
    BY <1>1, <1>2 DEF InTurn, Busy
  <2> QED  BY <1>2, <2>1 DEF OneAtATime, Awaited, NoOwn
<1>3. CASE queue' = q /\ EndRun(b)
  <2>1. \A c \in Batches : ~Busy(run', c)
    BY <1>1, <1>3 DEF EndRun, NoRun, Busy
  <2> QED  BY <1>3, <2>1 DEF OneAtATime, Awaited, NoOwn, InTurn, Busy
<1>4. CASE /\ UNCHANGED fifo
           /\ \E op \in OwnOps : queue' = Append(q, Section(op, b))
           /\ \E x \in RunRecord : run' = [run EXCEPT ![b] = x] /\ x.at = "section"
  <2>1. InTurn' /\ run'[b].at = "section"
    BY <1>1, <1>4 DEF InTurn, Busy
  <2>2. PICK op \in OwnOps : queue' = Append(q, Section(op, b))
    BY <1>4
  <2>3. Section(op, b) \in Sections /\ Section(op, b).batch = b
    BY DEF OwnOps, Section, Sections, Ops
  <2>4. Awaited(Append(q, Section(op, b)), run')
    BY <2>1, <2>3, QueuedOwn
  <2> QED  BY <2>1, <2>2, <2>4 DEF OneAtATime
<1> QED  BY <1>2, <1>3, <1>4

\* The steps of a run and its sections.
LEMMA RunsInOrder ==
    ASSUME TypeOK, OneAtATime, NEW b \in Batches,
           Work(b) \/ Return(b) \/ ServeBegin(b) \/ ServeRecord(b) \/ FailSection(b)
             \/ ServeInterrupt(b)
    PROVE  OneAtATime'
<1>0. queue \in Seq(Sections) /\ (queue # <<>> => Tail(queue) \in Seq(Sections))
      /\ run[b] \in RunRecord
  BY Served DEF TypeOK
<1>1. \A op \in OwnOps : queue # <<>> /\ Head(queue) = Section(op, b) =>
         Turn(b) /\ run[b].at = "section" /\ NoOwn(Tail(queue))
  BY NothingQueued
<1>2. Turn(b) /\ run[b].at # "section" => NoOwn(queue)
  BY NothingQueued
<1>3. \A at \in {"section", "top", "check", "reading"} :
         /\ [run[b] EXCEPT !.at = at] \in RunRecord
         /\ [run[b] EXCEPT !.at = at].at = at
  BY <1>0 DEF RunRecord
<1>4. \A kind \in {"completed", "failed", "cancelled"} :
         /\ [run[b] EXCEPT !.at = "section", !.outcome = kind] \in RunRecord
         /\ [run[b] EXCEPT !.at = "section", !.outcome = kind].at = "section"
  BY <1>0 DEF RunRecord
<1>5. {"begin", "record", "interrupt"} = OwnOps
  BY DEF OwnOps
<1>6. CASE Top(b)
  <2>1. Turn(b) /\ NoOwn(queue)
    BY <1>2, <1>6 DEF Top
  <2>2. \/ queue' = queue /\ EndRun(b)
        \/ /\ UNCHANGED fifo /\ \E op \in OwnOps : queue' = Append(queue, Section(op, b))
           /\ run' = [run EXCEPT ![b] = [@ EXCEPT !.at = "section"]]
    BY <1>5, <1>6 DEF Top, Moves, Enqueue
  <2> QED  BY <1>0, <1>3, <2>1, <2>2, TurnMoves
<1>7. ASSUME NEW kind \in {"completed", "failed", "cancelled"}, Outcome(b, kind),
             Turn(b), run[b].at # "section"
      PROVE  OneAtATime'
  <2>1. NoOwn(queue)
    BY <1>2, <1>7
  <2>2. \/ queue' = queue /\ EndRun(b)
        \/ /\ UNCHANGED fifo /\ \E op \in OwnOps : queue' = Append(queue, Section(op, b))
           /\ run' = [run EXCEPT ![b] = [@ EXCEPT !.at = "section", !.outcome = kind]]
    BY <1>5, <1>7 DEF Outcome, Enqueue
  <2> QED  BY <1>0, <1>4, <1>7, <2>1, <2>2, TurnMoves
<1>8. CASE SkipRead(b)
  <2>1. \E kind \in {"cancelled", "failed"} : Outcome(b, kind)
    BY <1>8 DEF SkipRead
  <2> QED  BY <1>7, <1>8, <2>1 DEF SkipRead
<1>9. CASE Return(b)
  BY <1>7, <1>9 DEF Return
<1>10. CASE Read(b)
  <2>1. Turn(b) /\ NoOwn(queue) /\ queue' = queue /\ UNCHANGED fifo
        /\ run' = [run EXCEPT ![b] = [@ EXCEPT !.at = "reading"]]
    BY <1>2, <1>10 DEF Read, Moves
  <2> QED  BY <1>0, <1>3, <2>1, TurnMoves
<1>11. CASE ServeBegin(b)
  <2>1. /\ queue # <<>> /\ queue' = Tail(queue) /\ Turn(b) /\ NoOwn(Tail(queue))
    BY <1>1, <1>5, <1>11 DEF ServeBegin
  <2>2. CASE EndRun(b)
    BY <1>0, <2>1, <2>2, TurnMoves
  <2>3. CASE ~EndRun(b)
    <3>1. /\ run' = [run EXCEPT ![b] = [@ EXCEPT !.at = "check", !.item = FirstPending(batch[b])]]
          /\ UNCHANGED fifo
          /\ \E k \in Items : batch[b].items[k] = "pending"
      BY <1>11, <2>3 DEF ServeBegin
    <3>2. FirstPending(batch[b]) \in Items
      BY <3>1, PickedPending DEF TypeOK
    <3>3. /\ [run[b] EXCEPT !.at = "check", !.item = FirstPending(batch[b])] \in RunRecord
          /\ [run[b] EXCEPT !.at = "check", !.item = FirstPending(batch[b])].at = "check"
      BY <1>0, <3>2 DEF RunRecord
    <3> QED  BY <1>0, <2>1, <3>1, <3>3, TurnMoves
  <2> QED  BY <2>2, <2>3
<1>12. CASE ServeRecord(b)
  <2>1. /\ queue # <<>> /\ Turn(b) /\ run[b].at = "section" /\ NoOwn(Tail(queue))
    BY <1>1, <1>5, <1>12 DEF ServeRecord
  <2>2. CASE queue' = Tail(queue) /\ EndRun(b)
    BY <1>0, <2>1, <2>2, TurnMoves
  <2>3. CASE queue' = Tail(queue) /\ Moves(b, "top")
    BY <1>0, <1>3, <2>1, <2>3, TurnMoves DEF Moves
  <2>4. CASE queue' = Append(Tail(queue), Section("interrupt", b)) /\ UNCHANGED <<fifo, run>>
    <3>1. run' = [run EXCEPT ![b] = run[b]]
      BY <2>4 DEF TypeOK
    <3> QED  BY <1>0, <1>5, <2>1, <2>4, <3>1, TurnMoves
  <2> QED  BY <1>12, <2>2, <2>3, <2>4 DEF ServeRecord
<1>13. CASE FailSection(b)
  <2>1. /\ queue # <<>> /\ Turn(b) /\ run[b].at = "section" /\ NoOwn(Tail(queue))
    BY <1>1, <1>5, <1>13 DEF FailSection
  <2>2. queue' = Append(Tail(queue), Section("interrupt", b)) /\ UNCHANGED fifo
        /\ run' = [run EXCEPT ![b] = run[b]]
    BY <1>13 DEF FailSection, TypeOK
  <2> QED  BY <1>0, <1>5, <2>1, <2>2, TurnMoves
<1>14. CASE ServeInterrupt(b)
  <2>1. /\ queue # <<>> /\ queue' = Tail(queue) /\ Turn(b) /\ NoOwn(Tail(queue)) /\ EndRun(b)
    BY <1>1, <1>5, <1>14 DEF ServeInterrupt
  <2> QED  BY <1>0, <2>1, TurnMoves
<1> QED  BY <1>6, <1>8, <1>9, <1>10, <1>11, <1>12, <1>13, <1>14 DEF Work

-----------------------------------------------------------------------------
(* The theorems                                                            *)

\* One run is at work at the start at most.
LEMMA InitInOrder == Init => OneAtATime
BY DEF Init, OneAtATime, InTurn, Busy, NoRun, Awaited

\* Every step keeps the types and the order.
LEMMA InvariantStep == TypeOK /\ OneAtATime /\ [Next]_vars => TypeOK' /\ OneAtATime'
<1> SUFFICES ASSUME TypeOK, OneAtATime, [Next]_vars  PROVE TypeOK' /\ OneAtATime'
  OBVIOUS
<1>1. ASSUME NEW b \in Batches, Calls(b)  PROVE TypeOK' /\ OneAtATime'
  BY <1>1, CallTypes, CallsInOrder
<1>2. ASSUME NEW b \in Batches, Serve(b)  PROVE TypeOK' /\ OneAtATime'
  <2>1. ServeBegin(b) \/ ServeRecord(b) \/ ServeInterrupt(b) => fifo # <<>>
    <3>1. \A op \in {"begin", "record", "interrupt"} :
             queue # <<>> /\ Head(queue) = Section(op, b) => Turn(b)
      BY NothingQueued DEF OwnOps
    <3> QED  BY <3>1 DEF ServeBegin, ServeRecord, ServeInterrupt
  <2>2. CASE ServeCall(b) \/ ServeAbort(b) \/ DropSection(b)
    BY <2>2, ServeCallTypes, CallsInOrder
  <2>3. CASE ServeStart(b) \/ ServeAbortedStart(b)
    BY <2>3, ServeCallTypes, ClaimsInOrder
  <2>4. CASE ServeBegin(b) \/ ServeRecord(b) \/ FailSection(b) \/ ServeInterrupt(b)
    BY <2>1, <2>4, RunTypes, RunsInOrder
  <2>5. CASE ServeDetach(b)
    BY <2>5, LifecycleTypes, CallsInOrder
  <2> QED  BY <1>2, <2>2, <2>3, <2>4, <2>5 DEF Serve
<1>3. ASSUME NEW b \in Batches, Work(b) \/ Return(b)  PROVE TypeOK' /\ OneAtATime'
  <2>1. fifo # <<>> 
    BY <1>3 DEF Work, Top, SkipRead, Read, Return
  <2> QED  BY <1>3, <2>1, RunTypes, RunsInOrder
<1>4. CASE Close \/ Disposal \/ Down \/ Activation
  BY <1>4, LifecycleTypes, LifecycleInOrder
<1>5. CASE UNCHANGED vars
  BY <1>5 DEF vars, TypeOK, OneAtATime, InTurn, Busy, Awaited
<1> QED  BY <1>1, <1>2, <1>3, <1>4, <1>5 DEF Next

\* Whatever is called, in whatever order, and wherever the process or the store
\* fails, the records, the queue and the runs keep their shape.
THEOREM BatchTypes == Spec => []TypeOK
<1>1. Init => TypeOK /\ OneAtATime
  BY InitType, InitInOrder
<1> QED  BY <1>1, InvariantStep, PTL DEF Spec

\* However many batches are started, at most one platform read is in flight.
THEOREM ReadsAreSerial == Spec => []OneRead
<1>1. Init => TypeOK /\ OneAtATime
  BY InitType, InitInOrder
<1>2. TypeOK /\ OneAtATime => OneRead
  BY DEF OneAtATime, InTurn, Busy, OneRead
<1> QED  BY <1>1, <1>2, InvariantStep, PTL DEF Spec

\* No step rewrites a completed item.
LEMMA CompletedStep ==
    ASSUME TypeOK, [Next]_vars, NEW c \in Batches, NEW i \in Items, batch[c].items[i] = "completed"
    PROVE  batch'[c].items[i] = "completed"
<1>0. batch \in [Batches -> BatchRecord]
  BY DEF TypeOK
<1>1. \A b \in Batches : /\ batch[b] \in BatchRecord
                         /\ c = b => Interrupted(batch[b]).items[i] = "completed"
  BY <1>0, RulesKeepCompleted
<1>2. CASE UNCHANGED batch
  BY <1>2
<1>3. ASSUME NEW b \in Batches, batch' = [batch EXCEPT ![b] = Interrupted(@)]
      PROVE  batch'[c].items[i] = "completed"
  BY <1>0, <1>1, <1>3
<1>4. ASSUME NEW b \in Batches, ServeCall(b)
      PROVE  batch'[c].items[i] = "completed"
  <2>1. \A op : c = b => Write(batch[b], op).items[i] = "completed"
    <3>1. c = b => Cancelled(batch[b]).items[i] = "completed" /\ Retried(batch[b]).items[i] = "completed"
      BY <1>1, RulesKeepCompleted
    <3>2. c = b => [batch[b] EXCEPT !.status = "prepared"].items[i] = "completed"
      BY <1>1 DEF BatchRecord
    <3> QED  BY <3>1, <3>2 DEF Write
  <2> QED  BY <1>0, <1>4, <2>1 DEF ServeCall
<1>5. ASSUME NEW b \in Batches, ServeStart(b) \/ ServeAbortedStart(b)
      PROVE  batch'[c].items[i] = "completed"
  <2>1. CASE batch' = [batch EXCEPT ![b].status = "running", ![b].started = TRUE]
    BY <1>0, <1>1, <2>1 DEF BatchRecord
  <2> QED  BY <1>2, <1>3, <1>5, <2>1 DEF ServeStart, ServeAbortedStart
<1>6. ASSUME NEW b \in Batches, ServeBegin(b)
      PROVE  batch'[c].items[i] = "completed"
  <2>1. CASE batch' = [batch EXCEPT ![b].items[FirstPending(batch[b])] = "running"]
             /\ \E k \in Items : batch[b].items[k] = "pending"
    <3>1. FirstPending(batch[b]) \in Items /\ batch[b].items[FirstPending(batch[b])] = "pending"
      BY <1>1, <2>1, PickedPending
    <3> QED  BY <1>0, <1>1, <2>1, <3>1 DEF BatchRecord
  <2>2. CASE batch' = [batch EXCEPT ![b].status = Settled(batch[b])]
    BY <1>0, <1>1, <2>2 DEF BatchRecord
  <2> QED  BY <1>2, <1>6, <2>1, <2>2 DEF ServeBegin
<1>7. ASSUME NEW b \in Batches, ServeRecord(b)
      PROVE  batch'[c].items[i] = "completed"
  <2>1. CASE UNCHANGED batch
    BY <2>1
  <2>2. CASE batch' = [batch EXCEPT ![b] = Outcomed(b)]
             /\ ~(/\ batch[b].status = "running" /\ run[b].outcome # "cancelled"
                  /\ batch[b].items[run[b].item] # "running")
    <3> DEFINE k == run[b].item
    <3>1. k \in Items
      BY DEF TypeOK, RunRecord
    <3>2. c = b /\ k # i => \A status \in {"completed", "attention"} :
             Recorded(batch[b], k, status).items[i] = "completed"
      BY <1>1, <3>1, RulesKeepCompleted DEF ItemStatuses
    <3>3. c = b => [batch[b] EXCEPT !.items[k] = "completed"].items[i] = "completed"
      BY <1>1, <3>1 DEF BatchRecord
    <3>4. c = b => Outcomed(b).items[i] = "completed"
      BY <1>1, <2>2, <3>2, <3>3 DEF Outcomed
    <3> QED  BY <1>0, <2>2, <3>4
  <2> QED  BY <1>7, <2>1, <2>2 DEF ServeRecord
<1>8. ASSUME NEW b \in Batches, ServeAbort(b) \/ ServeInterrupt(b) \/ ServeDetach(b) \/ Recover(b)
      PROVE  batch'[c].items[i] = "completed"
  BY <1>2, <1>3, <1>8 DEF ServeAbort, ServeInterrupt, ServeDetach, Recover
<1>9. ASSUME NEW b \in Batches,
             Calls(b) \/ DropSection(b) \/ FailSection(b) \/ Work(b) \/ Return(b)
      PROVE  UNCHANGED batch
  BY <1>9 DEF Calls, Call, CallCancel, DropSection, FailSection, Work, Top, SkipRead, Read, Return
<1>10. CASE Close \/ Disposal \/ Down \/ Activate \/ Open \/ UNCHANGED vars
  <2>1. UNCHANGED batch
    BY <1>10 DEF Close, Disposal, ServeDrain, StopWaiting, Detach, Closed, Down, Activate,
                 Open, vars
  <2> QED  BY <2>1
<1> QED  BY <1>2, <1>4, <1>5, <1>6, <1>7, <1>8, <1>9, <1>10 DEF Next, Serve, Activation

\* A completed item is never rewritten, by whatever order of cancels, retries,
\* interruptions, recoveries and late outcomes.
THEOREM CompletedItemsKept == Spec => CompletedKept
<1> DEFINE Kept == \A b \in Batches, i \in Items :
                     batch[b].items[i] = "completed" => batch'[b].items[i] = "completed"
<1>1. TypeOK /\ [Next]_vars => [Kept]_vars
  BY CompletedStep
<1> QED  BY <1>1, BatchTypes, PTL DEF Spec, CompletedKept

-----------------------------------------------------------------------------
(* The stored records                                                      *)

USE DEF Owned, Turn

-----------------------------------------------------------------------------
(* Valid records                                                           *)

Resting(r) == \A i \in Items : r.items[i] # "running"

\* What the validator asks of a record, and that a batch that was never started
\* has at most been cancelled.
Valid(r) ==
    /\ r.status = "running" => HasWork(r)
    /\ r.status = "completed" => AllCompleted(r)
    /\ r.status # "cancelled" => r.started = (r.status \in {"running", "paused", "completed"})
    /\ \A i, k \in Items : r.items[i] = "running" /\ r.items[k] = "running" => i = k
    /\ r.status # "running" => Resting(r)
    /\ r.status \in {"absent", "prepared"} => \A i \in Items : r.items[i] = "pending"
    /\ ~r.started => \A i \in Items : r.items[i] \in {"pending", "cancelled"}

\* An interrupted record is valid, and nothing of it runs.
LEMMA InterruptedValid ==
    ASSUME NEW r \in BatchRecord, Valid(r), r.status = "running"
    PROVE  /\ Valid(Interrupted(r)) /\ Resting(Interrupted(r))
           /\ Interrupted(r).status = "paused" /\ Interrupted(r).started = r.started
BY DEF Valid, Interrupted, BatchRecord, HasWork, AllCompleted, Resting

\* So is a cancelled one.
LEMMA CancelledValid ==
    ASSUME NEW r \in BatchRecord, Valid(r)
    PROVE  /\ Valid(Cancelled(r)) /\ Resting(Cancelled(r))
           /\ Cancelled(r).status = "cancelled" /\ Cancelled(r).started = r.started
<1> DEFINE items == [i \in Items |-> IF r.items[i] = "completed" THEN "completed" ELSE "cancelled"]
           x == Cancelled(r)
<1>1. x.status = "cancelled" /\ x.started = r.started /\ x.items = items
  BY DEF Cancelled, BatchRecord
<1>2. \A i \in Items : items[i] \in {"completed", "cancelled"}
                       /\ (items[i] = "completed" => r.items[i] = "completed")
  OBVIOUS
<1> HIDE DEF items, x
<1>3. Resting(x)
  BY <1>1, <1>2 DEF Resting
<1>4. ~r.started => \A i \in Items : items[i] = "cancelled"
  BY <1>2 DEF Valid
<1> QED  BY <1>1, <1>2, <1>3, <1>4 DEF Valid, x, Resting

\* So is one that is retried.
LEMMA RetriedValid ==
    ASSUME NEW r \in BatchRecord, Valid(r), r.status \notin {"absent", "running", "completed"}
    PROVE  /\ Valid(Retried(r)) /\ Resting(Retried(r)) /\ Retried(r).started = r.started
           /\ Retried(r).status \in {"prepared", "paused", "cancelled"}
<1>1. CASE \A i \in Items : r.items[i] \notin {"attention", "cancelled"}
  BY <1>1 DEF Retried, Valid, BatchRecord, BatchStatuses, Resting
<1>2. CASE ~(\A i \in Items : r.items[i] \notin {"attention", "cancelled"})
  <2> DEFINE status == IF r.status = "cancelled" /\ ~r.started THEN "prepared" ELSE "paused"
             items == [i \in Items |-> IF r.items[i] \in {"attention", "cancelled"}
                                       THEN "pending" ELSE r.items[i]]
             x == Retried(r)
  <2>1. x.status = status /\ x.started = r.started /\ x.items = items
    BY <1>2 DEF Retried, BatchRecord
  <2>2. Resting(r)
    BY DEF Valid
  <2>3. \A i \in Items : items[i] # "running"
    BY <2>2 DEF Resting
  <2>4. r.status # "prepared" /\ r.started \in BOOLEAN
    BY <1>2 DEF Valid, BatchRecord
  <2>5. ~r.started => r.status = "cancelled" /\ \A i \in Items : items[i] = "pending"
    BY <2>4 DEF Valid, BatchRecord, BatchStatuses
  <2>6. status \in {"prepared", "paused"} /\ (status = "prepared" => ~r.started)
        /\ (status = "paused" => r.started)
    BY <2>5
  <2> HIDE DEF status, items, x
  <2> QED  BY <2>1, <2>3, <2>4, <2>5, <2>6 DEF Valid, Resting, x
<1> QED  BY <1>1, <1>2

\* So is one that is prepared.
LEMMA PreparedValid ==
    ASSUME NEW r \in BatchRecord, Valid(r), r.status = "absent"
    PROVE  LET x == [r EXCEPT !.status = "prepared"]
           IN  Valid(x) /\ Resting(x) /\ x.started = r.started /\ x.status = "prepared"
BY DEF Valid, BatchRecord, Resting, HasWork, AllCompleted

\* So is one that is claimed, and it has work left.
LEMMA ClaimedValid ==
    ASSUME NEW r \in BatchRecord, Valid(r), r.status \in {"prepared", "paused"}, HasWork(r)
    PROVE  LET x == [r EXCEPT !.status = "running", !.started = TRUE]
           IN  Valid(x) /\ Resting(x) /\ x.started /\ x.status = "running" /\ HasWork(x)
BY DEF Valid, BatchRecord, Resting, HasWork, AllCompleted

\* The next item goes in flight when none is.
LEMMA BegunValid ==
    ASSUME NEW r \in BatchRecord, Valid(r), r.status = "running", Resting(r), NEW i \in Items
    PROVE  LET x == [r EXCEPT !.items[i] = "running"]
           IN  /\ Valid(x) /\ x.status = "running" /\ x.started = r.started
               /\ \A k \in Items : x.items[k] = "running" => k = i
               /\ x.items[i] = "running"
BY DEF Valid, BatchRecord, Resting, HasWork, AllCompleted

\* So is one that is settled.
LEMMA SettledValid ==
    ASSUME NEW r \in BatchRecord, Valid(r), r.status = "running", Resting(r)
    PROVE  LET x == [r EXCEPT !.status = Settled(r)]
           IN  Valid(x) /\ Resting(x) /\ x.started = r.started /\ x.status # "running"
BY DEF Valid, BatchRecord, Resting, HasWork, AllCompleted, Settled

\* So is one with an item recorded.
LEMMA RecordedValid ==
    ASSUME NEW r \in BatchRecord, Valid(r), r.status = "running", NEW i \in Items,
           r.items[i] = "running", NEW status \in {"completed", "attention"}
    PROVE  LET x == Recorded(r, i, status)
           IN  Valid(x) /\ Resting(x) /\ x.started = r.started /\ x.items[i] = status
<1> DEFINE next == [r EXCEPT !.items[i] = status]
           x == [next EXCEPT !.status = Settled(next)]
<1>1. /\ next \in BatchRecord /\ next.status = "running" /\ next.started = r.started
      /\ next.items[i] = status /\ \A k \in Items : k # i => next.items[k] = r.items[k]
  BY DEF BatchRecord, ItemStatuses
<1>2. r.started /\ Resting(next)
  BY <1>1 DEF Valid, Resting
<1> HIDE DEF next
<1>3. CASE HasWork(next)
  <2>1. Valid(next)
    BY <1>1, <1>2, <1>3 DEF Valid, Resting
  <2> QED  BY <1>1, <1>2, <1>3, <2>1 DEF Recorded, next
<1>4. CASE ~HasWork(next)
  <2>1. /\ x.status = Settled(next) /\ x.started = r.started /\ x.items = next.items
    BY <1>1 DEF BatchRecord
  <2>2. Recorded(r, i, status) = x
    BY <1>4 DEF Recorded, next
  <2>3. x.status \in {"completed", "paused"} /\ (x.status = "completed" => AllCompleted(x))
    BY <2>1 DEF Settled, AllCompleted
  <2>4. Resting(x)
    BY <1>2, <2>1 DEF Resting
  <2> HIDE DEF x
  <2>5. Valid(x)
    BY <1>2, <2>1, <2>3, <2>4 DEF Valid, Resting
  <2> QED  BY <1>1, <2>1, <2>2, <2>4, <2>5
<1> QED  BY <1>3, <1>4

\* A success that lands on a cancelled batch is restored.
LEMMA RestoredValid ==
    ASSUME NEW r \in BatchRecord, Valid(r), r.status = "cancelled", r.started, NEW i \in Items
    PROVE  LET x == [r EXCEPT !.items[i] = "completed"]
           IN  /\ Valid(x) /\ Resting(x) /\ x.started = r.started /\ x.status = "cancelled"
               /\ x.items[i] = "completed"
BY DEF Valid, BatchRecord, Resting

-----------------------------------------------------------------------------
(* What a step does to a record, to a run and to the queue                 *)

\* A start that claims its batch.
Claims(c) ==
    /\ phase = "open" /\ batch[c].status \in {"prepared", "paused"} /\ HasWork(batch[c])
    /\ ServeStart(c) \/ ServeAbortedStart(c)
    /\ batch' = [batch EXCEPT ![c].status = "running", ![c].started = TRUE]

\* A section or a recovery that interrupts its running batch.
Interrupts(c) ==
    /\ batch[c].status = "running"
    /\ \/ ServeAbort(c) /\ ~run[c].detached
       \/ ServeInterrupt(c) /\ ~run[c].detached
       \/ ServeDetach(c)
       \/ (ServeStart(c) \/ ServeAbortedStart(c)) /\ ~Owned(c) /\ phase = "open"
       \/ Recover(c)

\* What a step does to the record of a batch.
LEMMA RecordFate ==
    ASSUME TypeOK, [Next]_vars, NEW c \in Batches
    PROVE  \/ batch'[c] = batch[c]
           \/ /\ ServeCall(c) /\ phase = "open"
              /\ batch'[c] = Write(batch[c], Head(queue).op)
           \/ /\ Claims(c)
              /\ batch'[c] = [batch[c] EXCEPT !.status = "running", !.started = TRUE]
           \/ Interrupts(c) /\ batch'[c] = Interrupted(batch[c])
           \/ /\ ServeBegin(c) /\ ~run[c].detached /\ batch[c].status = "running"
              /\ \E i \in Items : batch[c].items[i] = "pending"
              /\ batch'[c] = [batch[c] EXCEPT !.items[FirstPending(batch[c])] = "running"]
           \/ /\ ServeBegin(c) /\ ~run[c].detached /\ batch[c].status = "running"
              /\ run'[c] = NoRun
              /\ batch'[c] = [batch[c] EXCEPT !.status = Settled(batch[c])]
           \/ /\ ServeRecord(c) /\ ~run[c].detached
              /\ batch'[c] = Outcomed(c)
              /\ batch[c].status = "running" /\ run[c].outcome # "cancelled" =>
                    batch[c].items[run[c].item] = "running"
<1>0. batch \in [Batches -> BatchRecord] /\ run \in [Batches -> RunRecord]
  BY DEF TypeOK
<1>1. CASE UNCHANGED batch
  BY <1>1
<1>2. ASSUME NEW b \in Batches, Serve(b), b # c  PROVE batch'[c] = batch[c]
  BY <1>0, <1>2 DEF Serve, ServeCall, ServeStart, ServeAbortedStart, ServeAbort, DropSection,
     ServeBegin, ServeRecord, FailSection, ServeInterrupt, ServeDetach
<1>3. CASE ServeCall(c)
  BY <1>0, <1>1, <1>3 DEF ServeCall
<1>4. CASE ServeStart(c) \/ ServeAbortedStart(c)
  <2>1. CASE batch' = [batch EXCEPT ![c].status = "running", ![c].started = TRUE]
             /\ phase = "open" /\ batch[c].status \in {"prepared", "paused"} /\ HasWork(batch[c])
    BY <1>0, <1>4, <2>1 DEF Claims
  <2>2. CASE batch' = [batch EXCEPT ![c] = Interrupted(@)] /\ phase = "open"
             /\ batch[c].status = "running" /\ ~Owned(c)
    BY <1>0, <1>4, <2>2 DEF Interrupts
  <2> QED  BY <1>1, <1>4, <2>1, <2>2 DEF ServeStart, ServeAbortedStart
<1>5. CASE ServeAbort(c) \/ ServeInterrupt(c) \/ ServeDetach(c) \/ Recover(c)
  BY <1>0, <1>1, <1>5 DEF ServeAbort, ServeInterrupt, ServeDetach, Recover, Interrupts
<1>6. CASE ServeBegin(c)
  BY <1>0, <1>1, <1>6 DEF ServeBegin, EndRun
<1>7. CASE ServeRecord(c)
  BY <1>0, <1>1, <1>7 DEF ServeRecord
<1>8. ASSUME NEW b \in Batches, Calls(b) \/ Work(b) \/ Return(b) \/ DropSection(b) \/ FailSection(b)
      PROVE  UNCHANGED batch
  BY <1>8 DEF Calls, Call, CallCancel, Work, Top, SkipRead, Read, Return, DropSection, FailSection
<1>9. CASE Close \/ Disposal \/ Down
  BY <1>1, <1>9 DEF Close, Disposal, ServeDrain, StopWaiting, Detach, Closed, Down
<1>10. CASE Activation
  <2>1. ASSUME NEW b \in Batches, Recover(b), b # c  PROVE batch'[c] = batch[c]
    BY <1>0, <2>1 DEF Recover
  <2> QED  BY <1>1, <1>5, <1>10, <2>1 DEF Activation, Activate, Open
<1>11. CASE UNCHANGED vars
  BY <1>11 DEF vars
<1>12. ASSUME NEW b \in Batches, Serve(b)
       PROVE  batch'[c] = batch[c] \/ (b = c /\ Serve(c))
  BY <1>2, <1>12
<1>13. CASE Serve(c)
  BY <1>3, <1>4, <1>5, <1>6, <1>7, <1>8, <1>13 DEF Serve
<1> QED  BY <1>8, <1>9, <1>10, <1>11, <1>12, <1>13 DEF Next

\* The run of c comes to its end.
Ends(c) ==
    /\ EndRun(c) /\ Turn(c)
    /\ Top(c) \/ SkipRead(c) \/ Return(c) \/ ServeBegin(c) \/ ServeRecord(c) \/ ServeInterrupt(c)

\* What a step does to the run of a batch.
LEMMA RunFate ==
    ASSUME TypeOK, OneAtATime, [Next]_vars, NEW c \in Batches
    PROVE  \/ run'[c] = run[c]
           \/ /\ Owned(c) /\ run'[c] = [run[c] EXCEPT !.cancelled = TRUE]
              /\ CallCancel(c) \/ ServeDrain \/ (Claims(c) /\ ServeAbortedStart(c))
           \/ /\ Claims(c) /\ ~Owned(c) /\ ~run'[c].detached /\ run'[c].at \in {"top", "section"}
              /\ run'[c].outcome = "cancelled"
              /\ run'[c].at = "section" => ServeAbortedStart(c)
              /\ ServeAbortedStart(c) => run'[c].cancelled
           \/ run'[c] = NoRun /\ (Down \/ Ends(c))
           \/ Top(c) /\ run'[c] = [run[c] EXCEPT !.at = "section"]
           \/ /\ ServeBegin(c) /\ ~run[c].detached /\ batch[c].status = "running"
              /\ \E i \in Items : batch[c].items[i] = "pending"
              /\ run'[c] = [run[c] EXCEPT !.at = "check", !.item = FirstPending(batch[c])]
              /\ batch'[c] = [batch[c] EXCEPT !.items[FirstPending(batch[c])] = "running"]
           \/ Read(c) /\ run'[c] = [run[c] EXCEPT !.at = "reading"]
           \/ /\ SkipRead(c)
              /\ \E kind \in {"failed", "cancelled"} :
                   run'[c] = [run[c] EXCEPT !.at = "section", !.outcome = kind]
           \/ /\ Return(c)
              /\ \E kind \in {"completed", "failed", "cancelled"} :
                   run'[c] = [run[c] EXCEPT !.at = "section", !.outcome = kind]
           \/ /\ ServeRecord(c) /\ run'[c] = [run[c] EXCEPT !.at = "top"]
              /\ run[c].outcome # "cancelled" /\ queue' = Tail(queue)
              /\ batch' = IF run[c].detached THEN batch ELSE [batch EXCEPT ![c] = Outcomed(c)]
           \/ Detach /\ Owned(c) /\ c = Head(leaving) /\ run'[c] = [run[c] EXCEPT !.detached = TRUE]
<1>0. run \in [Batches -> RunRecord] /\ batch \in [Batches -> BatchRecord]
  BY DEF TypeOK
<1>1. CASE UNCHANGED run
  BY <1>1
<1>2. ASSUME NEW b \in Batches, Calls(b) \/ Serve(b) \/ Work(b) \/ Return(b), b # c
      PROVE  run'[c] = run[c]
  BY <1>0, <1>2 DEF Calls, Call, CallCancel, Serve, Work, Top, SkipRead, Read, Return, Outcome,
     EndRun, Moves, ServeCall, ServeStart, ServeAbortedStart, Claimed, ServeAbort, DropSection,
     ServeBegin, ServeRecord, FailSection, ServeInterrupt, ServeDetach
<1>3. CASE Calls(c)
  BY <1>0, <1>1, <1>3 DEF Calls, Call, CallCancel
<1>4. CASE ServeStart(c)
  <2>1. CASE UNCHANGED run
    BY <2>1
  <2>2. CASE Claims(c) /\ ~Owned(c) /\ run' = [run EXCEPT ![c] = [NoRun EXCEPT !.at = "top"]]
    <3>1. /\ [NoRun EXCEPT !.at = "top"].at = "top"
          /\ [NoRun EXCEPT !.at = "top"].detached = FALSE
          /\ [NoRun EXCEPT !.at = "top"].outcome = "cancelled"
      BY DEF NoRun
    <3>2. ~ServeAbortedStart(c)
      BY <1>4 DEF ServeStart, ServeAbortedStart, Section
    <3> QED  BY <1>0, <1>4, <2>2, <3>1, <3>2
  <2> QED  BY <1>4, <2>1, <2>2 DEF ServeStart, Claimed, Claims
<1>5. CASE ServeAbortedStart(c)
  <2>1. CASE UNCHANGED run
    BY <2>1
  <2>2. CASE Claims(c) /\ Owned(c) /\ run' = [run EXCEPT ![c] = [@ EXCEPT !.cancelled = TRUE]]
    BY <1>0, <1>5, <2>2
  <2>3. ASSUME NEW at \in {"section", "top"}, Claims(c), ~Owned(c),
               run' = [run EXCEPT ![c] = [NoRun EXCEPT !.at = at, !.cancelled = TRUE]]
        PROVE  /\ ~run'[c].detached /\ run'[c].at \in {"top", "section"} /\ run'[c].cancelled
               /\ run'[c].outcome = "cancelled"
    <3>1. /\ [NoRun EXCEPT !.at = at, !.cancelled = TRUE].at = at
          /\ [NoRun EXCEPT !.at = at, !.cancelled = TRUE].detached = FALSE
          /\ [NoRun EXCEPT !.at = at, !.cancelled = TRUE].cancelled = TRUE
          /\ [NoRun EXCEPT !.at = at, !.cancelled = TRUE].outcome = "cancelled"
      BY DEF NoRun
    <3> QED  BY <1>0, <2>3, <3>1
  <2>4. \/ UNCHANGED run
        \/ Claims(c) /\ Owned(c) /\ run' = [run EXCEPT ![c] = [@ EXCEPT !.cancelled = TRUE]]
        \/ \E at \in {"section", "top"} :
             /\ Claims(c) /\ ~Owned(c)
             /\ run' = [run EXCEPT ![c] = [NoRun EXCEPT !.at = at, !.cancelled = TRUE]]
    BY <1>5 DEF ServeAbortedStart, Claims
  <2> QED  BY <1>5, <2>1, <2>2, <2>3, <2>4
<1>6. ASSUME EndRun(c), Turn(c)  PROVE run'[c] = NoRun
  BY <1>0, <1>6 DEF EndRun
<1>7. \A op \in OwnOps : queue # <<>> /\ Head(queue) = Section(op, c) => Turn(c)
  BY NothingQueued
<1>8. CASE Top(c)
  <2>1. CASE EndRun(c)
    BY <1>6, <1>8, <2>1 DEF Ends, Top
  <2>2. CASE Moves(c, "section")
    BY <1>0, <1>8, <2>2 DEF Moves
  <2> QED  BY <1>8, <2>1, <2>2 DEF Top
<1>9. CASE ServeBegin(c)
  <2>1. Turn(c)
    BY <1>7, <1>9 DEF ServeBegin, OwnOps
  <2>2. CASE EndRun(c)
    BY <1>6, <1>9, <2>1, <2>2 DEF Ends
  <2>3. CASE ~EndRun(c)
    BY <1>0, <1>9, <2>3 DEF ServeBegin
  <2> QED  BY <2>2, <2>3
<1>10. CASE Read(c)
  BY <1>0, <1>10 DEF Read, Moves
<1>11. CASE SkipRead(c)
  <2>1. CASE EndRun(c)
    BY <1>6, <1>11, <2>1 DEF Ends, SkipRead
  <2>2. CASE ~EndRun(c)
    BY <1>0, <1>11, <2>2 DEF SkipRead, Outcome
  <2> QED  BY <2>1, <2>2
<1>12. CASE Return(c)
  <2>1. CASE EndRun(c)
    BY <1>6, <1>12, <2>1 DEF Ends, Return
  <2>2. CASE ~EndRun(c)
    BY <1>0, <1>12, <2>2 DEF Return, Outcome
  <2> QED  BY <2>1, <2>2
<1>13. CASE ServeRecord(c)
  <2>1. Turn(c)
    BY <1>7, <1>13 DEF ServeRecord, OwnOps
  <2>2. CASE EndRun(c)
    BY <1>6, <1>13, <2>1, <2>2 DEF Ends
  <2>3. CASE ~EndRun(c)
    BY <1>0, <1>13, <2>3 DEF ServeRecord, Moves
  <2> QED  BY <2>2, <2>3
<1>14. CASE ServeInterrupt(c)
  <2>1. Turn(c) /\ EndRun(c)
    BY <1>7, <1>14 DEF ServeInterrupt, OwnOps
  <2> QED  BY <1>6, <1>14, <2>1 DEF Ends
<1>15. CASE ServeCall(c) \/ ServeAbort(c) \/ DropSection(c) \/ FailSection(c) \/ ServeDetach(c)
  BY <1>1, <1>15 DEF ServeCall, ServeAbort, DropSection, FailSection, ServeDetach
<1>16. CASE Close \/ Activation \/ StopWaiting \/ Closed \/ UNCHANGED vars
  BY <1>1, <1>16 DEF Close, Activation, Activate, Open, Recover, StopWaiting, Closed, vars
<1>17. CASE ServeDrain
  BY <1>17 DEF ServeDrain
<1>18. CASE Detach
  BY <1>0, <1>18 DEF Detach
<1>19. CASE Down
  BY <1>19 DEF Down
<1> QED  BY <1>2, <1>3, <1>4, <1>5, <1>8, <1>9, <1>10, <1>11, <1>12, <1>13, <1>14, <1>15, <1>16,
            <1>17, <1>18, <1>19 DEF Next, Serve, Work, Disposal

\* What of a run can change: it ends, a claim starts it, or it keeps its flags
\* and moves to its next stage.
LEMMA RunMoves ==
    ASSUME TypeOK, OneAtATime, [Next]_vars, NEW c \in Batches
    PROVE  \/ /\ run'[c].at = "none" /\ run'[c] \in {run[c], NoRun}
              /\ Owned(c) => Down \/ Ends(c)
           \/ /\ Claims(c) /\ ~Owned(c) /\ ~run'[c].detached /\ run'[c].at \in {"top", "section"}
              /\ run'[c].outcome = "cancelled"
              /\ run'[c].at = "section" => ServeAbortedStart(c)
              /\ ServeAbortedStart(c) => run'[c].cancelled
           \/ /\ Owned(c)
              /\ run[c].detached => run'[c].detached
              /\ run'[c].detached => run[c].detached \/ (Detach /\ c = Head(leaving))
              /\ run[c].cancelled => run'[c].cancelled
              /\ run'[c].item = run[c].item \/ ServeBegin(c)
              /\ \/ run'[c].outcome = run[c].outcome
                 \/ Return(c)
                 \/ SkipRead(c) /\ run'[c].outcome # "completed"
              /\ \/ run'[c].at = run[c].at
                 \/ Top(c) /\ run'[c].at = "section"
                 \/ ServeBegin(c) /\ run'[c].at = "check"
                 \/ Read(c) /\ run'[c].at = "reading"
                 \/ SkipRead(c) /\ run'[c].at = "section" /\ run'[c].outcome # "completed"
                 \/ Return(c) /\ run'[c].at = "section"
                 \/ ServeRecord(c) /\ run'[c].at = "top"
<1> DEFINE r == run[c]
           Flags == run'[c].detached = r.detached /\ run'[c].cancelled = r.cancelled
           Same == Flags /\ run'[c].item = r.item /\ run'[c].outcome = r.outcome
<1>0. r \in RunRecord /\ (run'[c] = NoRun => run'[c].at = "none")
  BY DEF TypeOK, NoRun
<1>1. \A at : [r EXCEPT !.at = at].at = at /\ [r EXCEPT !.at = at].item = r.item
               /\ [r EXCEPT !.at = at].detached = r.detached
               /\ [r EXCEPT !.at = at].cancelled = r.cancelled
               /\ [r EXCEPT !.at = at].outcome = r.outcome
  BY <1>0 DEF RunRecord
<1>2. \A at, kind : /\ [r EXCEPT !.at = at, !.outcome = kind].at = at
                    /\ [r EXCEPT !.at = at, !.outcome = kind].item = r.item
                    /\ [r EXCEPT !.at = at, !.outcome = kind].detached = r.detached
                    /\ [r EXCEPT !.at = at, !.outcome = kind].cancelled = r.cancelled
                    /\ [r EXCEPT !.at = at, !.outcome = kind].outcome = kind
  BY <1>0 DEF RunRecord
<1>3. \A at, i : /\ [r EXCEPT !.at = at, !.item = i].at = at
                 /\ [r EXCEPT !.at = at, !.item = i].detached = r.detached
                 /\ [r EXCEPT !.at = at, !.item = i].cancelled = r.cancelled
                 /\ [r EXCEPT !.at = at, !.item = i].outcome = r.outcome
  BY <1>0 DEF RunRecord
<1>4. /\ [r EXCEPT !.cancelled = TRUE].at = r.at /\ [r EXCEPT !.cancelled = TRUE].item = r.item
      /\ [r EXCEPT !.cancelled = TRUE].detached = r.detached
      /\ [r EXCEPT !.cancelled = TRUE].outcome = r.outcome
      /\ [r EXCEPT !.cancelled = TRUE].cancelled = TRUE
      /\ [r EXCEPT !.detached = TRUE].at = r.at /\ [r EXCEPT !.detached = TRUE].item = r.item
      /\ [r EXCEPT !.detached = TRUE].detached = TRUE
      /\ [r EXCEPT !.detached = TRUE].outcome = r.outcome
      /\ [r EXCEPT !.detached = TRUE].cancelled = r.cancelled
  BY <1>0 DEF RunRecord
<1>5. \A op \in OwnOps : queue # <<>> /\ Head(queue) = Section(op, c) => r.at = "section"
  BY NothingQueued
<1>6. /\ Top(c) => r.at = "top"
      /\ Read(c) \/ SkipRead(c) => r.at = "check"
      /\ Return(c) => r.at = "reading"
      /\ ServeBegin(c) \/ ServeRecord(c) => r.at = "section"
  BY <1>5 DEF Top, Read, SkipRead, Return, ServeBegin, ServeRecord, OwnOps
<1>7. CASE run'[c] = r
  BY <1>7
<1>8. CASE Owned(c) /\ run'[c] = [r EXCEPT !.cancelled = TRUE]
  BY <1>4, <1>8
<1>9. CASE Top(c) /\ run'[c] = [r EXCEPT !.at = "section"]
  <2>1. Owned(c) /\ Same /\ run'[c].at = "section"
    BY <1>1, <1>6, <1>9
  <2> QED  BY <1>9, <2>1
<1>10. CASE ServeBegin(c) /\ run'[c] = [r EXCEPT !.at = "check", !.item = FirstPending(batch[c])]
  <2>1. Owned(c) /\ Flags /\ run'[c].at = "check" /\ run'[c].outcome = r.outcome
    BY <1>3, <1>6, <1>10
  <2> QED  BY <1>10, <2>1
<1>11. CASE Read(c) /\ run'[c] = [r EXCEPT !.at = "reading"]
  <2>1. Owned(c) /\ Same /\ run'[c].at = "reading"
    BY <1>1, <1>6, <1>11
  <2> QED  BY <1>11, <2>1
<1>12. ASSUME NEW kind, SkipRead(c) \/ Return(c),
              run'[c] = [r EXCEPT !.at = "section", !.outcome = kind]
       PROVE  /\ Owned(c) /\ Flags /\ run'[c].item = r.item /\ run'[c].at = "section"
              /\ run'[c].outcome = kind
  BY <1>2, <1>6, <1>12
<1>13. CASE ServeRecord(c) /\ run'[c] = [r EXCEPT !.at = "top"]
  <2>1. Owned(c) /\ Same /\ run'[c].at = "top"
    BY <1>1, <1>6, <1>13
  <2> QED  BY <1>13, <2>1
<1>14. CASE Detach /\ Owned(c) /\ c = Head(leaving) /\ run'[c] = [r EXCEPT !.detached = TRUE]
  BY <1>4, <1>14
<1>15. CASE run'[c] = NoRun /\ (Down \/ Ends(c))
  BY <1>0, <1>15
<1>16. CASE /\ Claims(c) /\ ~Owned(c) /\ ~run'[c].detached /\ run'[c].at \in {"top", "section"}
            /\ run'[c].outcome = "cancelled"
            /\ run'[c].at = "section" => ServeAbortedStart(c)
            /\ ServeAbortedStart(c) => run'[c].cancelled
  BY <1>16
<1>17. CASE /\ SkipRead(c)
            /\ \E kind \in {"failed", "cancelled"} :
                 run'[c] = [r EXCEPT !.at = "section", !.outcome = kind]
  BY <1>12, <1>17
<1>18. CASE /\ Return(c)
            /\ \E kind \in {"completed", "failed", "cancelled"} :
                 run'[c] = [r EXCEPT !.at = "section", !.outcome = kind]
  BY <1>12, <1>18
<1> QED  BY <1>7, <1>8, <1>9, <1>10, <1>11, <1>13, <1>14, <1>15, <1>16, <1>17, <1>18, RunFate

\* A section waits in a queue.
Has(q, s) == \E k \in 1 .. Len(q) : q[k] = s

\* The sections in a queue after it moves.
LEMMA HasMoves ==
    ASSUME NEW q \in Seq(Sections), NEW s, NEW t \in Sections
    PROVE  /\ q # <<>> /\ Has(Tail(q), s) => Has(q, s)
           /\ q # <<>> => Has(q, Head(q)) /\ (Has(q, s) => s = Head(q) \/ Has(Tail(q), s))
           /\ Has(Append(q, t), s) <=> Has(q, s) \/ s = t
           /\ Has(q, s) => s \in Sections
<1>0. Len(q) \in Nat /\ (q # <<>> => Len(q) > 0)
  BY EmptySeq, LenProperties
<1>1. q # <<>> /\ Has(Tail(q), s) => Has(q, s)
  BY Served DEF Has
<1>2. ASSUME q # <<>>
      PROVE  Has(q, Head(q)) /\ (Has(q, s) => s = Head(q) \/ Has(Tail(q), s))
  <2>1. Has(q, Head(q))
    BY <1>2, Served DEF Has
  <2>2. ASSUME NEW k \in 1 .. Len(q), q[k] = s, k # 1
        PROVE  Has(Tail(q), s)
    <3>1. k - 1 \in 1 .. Len(Tail(q)) /\ Tail(q)[k - 1] = q[(k - 1) + 1]
      BY <1>0, <1>2, <2>2, Served
    <3> QED  BY <1>0, <2>2, <3>1 DEF Has
  <2> QED  BY <1>2, <2>1, <2>2, Served DEF Has
<1>3. Has(Append(q, t), s) <=> Has(q, s) \/ s = t
  <2>1. Len(q) + 1 \in 1 .. Len(Append(q, t)) /\ \A k \in 1 .. Len(q) : k \in 1 .. Len(Append(q, t))
    BY <1>0, Queued
  <2> QED  BY <2>1, Queued DEF Has
<1>4. Has(q, s) => s \in Sections
  BY ElementOfSeq DEF Has
<1> QED  BY <1>1, <1>2, <1>3, <1>4

\* q1 is q without its first d elements, with elements of N at its end.
MovesOn(q, q1, d, N) ==
    /\ Len(q1) + d >= Len(q)
    /\ \A k \in 1 .. Len(q1) : \/ k + d \in 1 .. Len(q) /\ q1[k] = q[k + d]
                               \/ k + d > Len(q) /\ q1[k] \in N
    /\ \A l \in 1 + d .. Len(q) : l - d \in 1 .. Len(q1) /\ q1[l - d] = q[l]

\* The moves of the queue, as shifts and additions at its end.
LEMMA OnwardMoves ==
    ASSUME NEW q \in Seq(Sections), NEW t \in Sections
    PROVE  /\ MovesOn(q, q, 0, {}) /\ MovesOn(q, Append(q, t), 0, {t})
           /\ q # <<>> => /\ MovesOn(q, Tail(q), 1, {})
                          /\ MovesOn(q, Append(Tail(q), t), 1, {t})
                          /\ \A u \in Sections :
                               MovesOn(q, Append(Append(Tail(q), t), u), 1, {t, u})
<1>0. Len(q) \in Nat
  BY LenProperties
<1>1. ASSUME NEW q1 \in Seq(Sections), NEW d \in {0, 1}, NEW N, MovesOn(q, q1, d, N),
             NEW u \in Sections, NEW M, M = N \cup {u}
      PROVE  MovesOn(q, Append(q1, u), d, M)
  <2> DEFINE q2 == Append(q1, u)
  <2>1. Len(q1) \in Nat /\ Len(q2) = Len(q1) + 1
    BY Queued, LenProperties
  <2>2. \A k \in 1 .. Len(q2) : \/ k \in 1 .. Len(q1) /\ q2[k] = q1[k]
                                \/ k = Len(q1) + 1 /\ q2[k] = u
    BY Queued
  <2>3. \A k \in 1 .. Len(q1) : k \in 1 .. Len(q2) /\ q2[k] = q1[k]
    BY <2>1, Queued
  <2> HIDE DEF q2
  <2>4. ASSUME NEW k \in 1 .. Len(q2)
        PROVE  \/ k + d \in 1 .. Len(q) /\ q2[k] = q[k + d]
               \/ k + d > Len(q) /\ q2[k] \in M
    <3>1. CASE k \in 1 .. Len(q1) /\ q2[k] = q1[k]
      BY <1>1, <3>1 DEF MovesOn
    <3>2. CASE k = Len(q1) + 1 /\ q2[k] = u
      BY <1>0, <1>1, <2>1, <3>2 DEF MovesOn
    <3> QED  BY <2>2, <3>1, <3>2
  <2>5. \A l \in 1 + d .. Len(q) : l - d \in 1 .. Len(q2) /\ q2[l - d] = q[l]
    BY <1>1, <2>3 DEF MovesOn
  <2> QED  BY <1>0, <1>1, <2>1, <2>4, <2>5 DEF MovesOn, q2
<1>2. MovesOn(q, q, 0, {})
  BY <1>0 DEF MovesOn
<1>3. q # <<>> => MovesOn(q, Tail(q), 1, {}) /\ Tail(q) \in Seq(Sections)
  <2> SUFFICES ASSUME q # <<>>  PROVE MovesOn(q, Tail(q), 1, {}) /\ Tail(q) \in Seq(Sections)
    OBVIOUS
  <2>1. /\ Len(Tail(q)) = Len(q) - 1 /\ Len(q) \in Nat \ {0} /\ Tail(q) \in Seq(Sections)
        /\ \A k \in 1 .. Len(Tail(q)) : k + 1 \in 1 .. Len(q) /\ Tail(q)[k] = q[k + 1]
    BY Served
  <2>2. \A l \in 2 .. Len(q) : l - 1 \in 1 .. Len(Tail(q)) /\ Tail(q)[l - 1] = q[l]
    <3> TAKE l \in 2 .. Len(q)
    <3>1. l - 1 \in 1 .. Len(Tail(q)) /\ (l - 1) + 1 = l
      BY <2>1
    <3> QED  BY <2>1, <3>1
  <2> QED  BY <2>1, <2>2 DEF MovesOn
<1>4. {} \cup {t} = {t} /\ \A u : {t} \cup {u} = {t, u}
  OBVIOUS
<1>5. ASSUME q # <<>>  PROVE Append(Tail(q), t) \in Seq(Sections) /\ MovesOn(q, Append(Tail(q), t), 1, {t})
  <2>1. Tail(q) \in Seq(Sections) /\ MovesOn(q, Tail(q), 1, {})
    BY <1>3, <1>5
  <2> QED  BY <1>1, <1>4, <2>1, Queued
<1>6. ASSUME q # <<>>, NEW u \in Sections
      PROVE  MovesOn(q, Append(Append(Tail(q), t), u), 1, {t, u})
  <2>1. Append(Tail(q), t) \in Seq(Sections) /\ MovesOn(q, Append(Tail(q), t), 1, {t})
    BY <1>5, <1>6
  <2>2. {t, u} = {t} \cup {u} /\ 1 \in {0, 1}
    OBVIOUS
  <2> QED  BY <1>1, <2>1, <2>2
<1>7. MovesOn(q, Append(q, t), 0, {t})
  BY <1>1, <1>2, <1>4
<1> QED  BY <1>2, <1>3, <1>5, <1>6, <1>7

\* A section a step adds to the queue, by the step that adds it.
QueueSteps(s) ==
    \/ /\ phase = "open" /\ s.op \in {"prepare", "start", "abortedStart", "cancel", "retry"}
       /\ s.batch \in Batches
       /\ s.op = "retry" => ~Owned(s.batch)
       /\ s.op = "cancel" => CallCancel(s.batch)
       /\ s.op # "cancel" => UNCHANGED run
    \/ \E b \in Batches : Top(b) /\ s \in {Section("begin", b), Section("interrupt", b)}
    \/ \E b \in Batches : /\ ServeAbortedStart(b) /\ Claims(b)
                          /\ s \in {Section("begin", b), Section("abort", b)}
    \/ \E b \in Batches : (SkipRead(b) \/ Return(b)) /\ s = Section("record", b)
    \/ \E b \in Batches : (ServeRecord(b) \/ FailSection(b)) /\ s = Section("interrupt", b)
    \/ Close /\ s = Drain
    \/ Detach /\ phase' = "interrupting" /\ s = Section("detach", Head(leaving))

\* The step of the queue: the next section is served or none, and sections are
\* added behind the others.
QueueStep ==
    \E d \in {0, 1}, N \in SUBSET Sections :
       /\ MovesOn(queue, queue', d, N)
       /\ \A s \in N : QueueSteps(s)
       /\ d = 1 => queue # <<>> /\ (ServeDrain \/ \E b \in Batches : Serve(b))

\* Every step but the end of the plugin moves the queue onward.
LEMMA QueueShift ==
    ASSUME TypeOK, [Next]_vars
    PROVE  Down \/ QueueStep
<1>0. queue \in Seq(Sections) /\ Drain \in Sections
  BY DEF TypeOK, Sections
<1>1. \A op \in Ops, b \in Batches : /\ Section(op, b) \in Sections
                                     /\ Section(op, b).op = op /\ Section(op, b).batch = b
  BY DEF Section, Sections
<1>2. UNCHANGED queue => QueueStep
  <2>1. UNCHANGED queue => MovesOn(queue, queue', 0, {})
    BY <1>0, OnwardMoves
  <2>2. {} \in SUBSET Sections /\ 0 \in {0, 1} /\ 0 # 1
    OBVIOUS
  <2> QED  BY <2>1, <2>2 DEF QueueStep
<1>3. ASSUME queue # <<>>, queue' = Tail(queue), ServeDrain \/ \E b \in Batches : Serve(b)
      PROVE  QueueStep
  <2>1. MovesOn(queue, queue', 1, {})
    BY <1>0, <1>3, OnwardMoves
  <2> QED  BY <1>3, <2>1 DEF QueueStep
<1>4. ASSUME NEW t \in Sections, queue' = Append(queue, t), QueueSteps(t)
      PROVE  QueueStep
  <2>1. MovesOn(queue, queue', 0, {t}) /\ \A s \in {t} : QueueSteps(s)
    BY <1>0, <1>4, OnwardMoves
  <2> QED  BY <2>1 DEF QueueStep
<1>5. ASSUME NEW t \in Sections, queue # <<>>, queue' = Append(Tail(queue), t), QueueSteps(t),
             \E b \in Batches : Serve(b)
      PROVE  QueueStep
  <2>1. MovesOn(queue, queue', 1, {t}) /\ \A s \in {t} : QueueSteps(s)
    BY <1>0, <1>5, OnwardMoves
  <2> QED  BY <1>5, <2>1 DEF QueueStep
<1>6. ASSUME NEW b \in Batches, Calls(b)  PROVE QueueStep
  <2>1. ASSUME NEW op \in {"prepare", "start", "abortedStart", "retry"}, Call(op, b)
        PROVE  QueueStep
    <3>1. op \in Ops /\ queue' = Append(queue, Section(op, b))
      BY <2>1 DEF Call, Enqueue, Ops
    <3>2. QueueSteps(Section(op, b))
      BY <1>1, <2>1, <3>1 DEF Call, QueueSteps
    <3> QED  BY <1>1, <1>4, <3>1, <3>2
  <2>2. ASSUME CallCancel(b)  PROVE QueueStep
    <3>1. "cancel" \in Ops /\ queue' = Append(queue, Section("cancel", b)) /\ phase = "open"
      BY <2>2 DEF CallCancel, Enqueue, Ops
    <3>2. QueueSteps(Section("cancel", b))
      BY <1>1, <2>2, <3>1 DEF QueueSteps
    <3> QED  BY <1>1, <1>4, <3>1, <3>2
  <2> QED  BY <1>6, <2>1, <2>2 DEF Calls
<1>7. ASSUME NEW b \in Batches, Top(b)  PROVE QueueStep
  <2>1. UNCHANGED queue \/ \E t \in {Section("begin", b), Section("interrupt", b)} :
           queue' = Append(queue, t)
    BY <1>7 DEF Top, Enqueue
  <2>2. \A t \in {Section("begin", b), Section("interrupt", b)} : t \in Sections /\ QueueSteps(t)
    BY <1>1, <1>7 DEF QueueSteps, Ops
  <2> QED  BY <1>2, <1>4, <2>1, <2>2
<1>8. ASSUME NEW b \in Batches, SkipRead(b) \/ Return(b)  PROVE QueueStep
  <2>1. UNCHANGED queue \/ queue' = Append(queue, Section("record", b))
    BY <1>8 DEF SkipRead, Return, Outcome, Enqueue
  <2>2. Section("record", b) \in Sections /\ QueueSteps(Section("record", b))
    BY <1>1, <1>8 DEF QueueSteps, Ops
  <2> QED  BY <1>2, <1>4, <2>1, <2>2
<1>9. ASSUME NEW b \in Batches, ServeAbortedStart(b), Serve(b)  PROVE QueueStep
  <2>1. /\ Section("begin", b) \in Sections /\ Section("abort", b) \in Sections
        /\ Claims(b) => QueueSteps(Section("begin", b)) /\ QueueSteps(Section("abort", b))
    BY <1>1, <1>9 DEF Ops, QueueSteps
  <2>2. queue # <<>>
    BY <1>9 DEF ServeAbortedStart
  <2>3. ASSUME Claims(b), queue' = Append(Append(Tail(queue), Section("begin", b)), Section("abort", b))
        PROVE  QueueStep
    <3> DEFINE N == {Section("begin", b), Section("abort", b)}
    <3>1. MovesOn(queue, queue', 1, N) /\ N \in SUBSET Sections /\ \A s \in N : QueueSteps(s)
      BY <1>0, <2>1, <2>2, <2>3, OnwardMoves
    <3> HIDE DEF N
    <3> QED  BY <1>9, <2>2, <3>1 DEF QueueStep
  <2>4. \/ queue' = Tail(queue)
        \/ Claims(b) /\ queue' = Append(Tail(queue), Section("abort", b))
        \/ Claims(b) /\ queue' = Append(Append(Tail(queue), Section("begin", b)), Section("abort", b))
    BY <1>9 DEF ServeAbortedStart, Claims
  <2> QED  BY <1>3, <1>5, <1>9, <2>1, <2>2, <2>3, <2>4
<1>10. ASSUME NEW b \in Batches, ServeRecord(b) \/ FailSection(b), Serve(b)  PROVE QueueStep
  <2>1. queue # <<>> /\ (queue' = Tail(queue) \/ queue' = Append(Tail(queue), Section("interrupt", b)))
    BY <1>10 DEF ServeRecord, FailSection
  <2>2. Section("interrupt", b) \in Sections /\ QueueSteps(Section("interrupt", b))
    BY <1>1, <1>10 DEF QueueSteps, Ops
  <2> QED  BY <1>3, <1>5, <1>10, <2>1, <2>2
<1>11. ASSUME NEW b \in Batches, Serve(b),
              ServeCall(b) \/ ServeStart(b) \/ ServeAbort(b) \/ DropSection(b)
                \/ ServeBegin(b) \/ ServeInterrupt(b) \/ ServeDetach(b)
       PROVE  QueueStep
  <2>1. queue # <<>> /\ queue' = Tail(queue)
    BY <1>11 DEF ServeCall, ServeStart, ServeAbort, DropSection, ServeBegin, ServeInterrupt,
       ServeDetach
  <2> QED  BY <1>3, <1>11, <2>1
<1>12. CASE Close
  <2>1. QueueSteps(Drain) /\ queue' = Append(queue, Drain)
    BY <1>12 DEF QueueSteps, Close
  <2> QED  BY <1>0, <1>4, <2>1
<1>13. CASE Detach
  <2>1. Head(leaving) \in Batches
    BY <1>13, HeadTailProperties DEF Detach, TypeOK
  <2>2. /\ Section("detach", Head(leaving)) \in Sections
        /\ phase' = "interrupting" => QueueSteps(Section("detach", Head(leaving)))
    BY <1>1, <1>13, <2>1 DEF Ops, QueueSteps
  <2>3. \/ UNCHANGED queue
        \/ phase' = "interrupting" /\ queue' = Append(queue, Section("detach", Head(leaving)))
    BY <1>13 DEF Detach, Enqueue
  <2> QED  BY <1>2, <1>4, <2>2, <2>3
<1>14. CASE ServeDrain
  BY <1>3, <1>14 DEF ServeDrain
<1>15. CASE StopWaiting \/ Closed \/ Activation \/ UNCHANGED vars
  BY <1>2, <1>15 DEF StopWaiting, Closed, Activation, Activate, Open, Recover, vars
<1>16. ASSUME NEW b \in Batches, Read(b)  PROVE QueueStep
  <2>1. UNCHANGED queue
    BY <1>16 DEF Read
  <2> QED  BY <1>2, <2>1
<1>17. ASSUME NEW b \in Batches, Serve(b)  PROVE QueueStep
  BY <1>9, <1>10, <1>11, <1>17 DEF Serve
<1> QED  BY <1>6, <1>7, <1>8, <1>12, <1>13, <1>14, <1>15, <1>16, <1>17 DEF Next, Work, Disposal

\* Where a section in the queue comes from.
LEMMA QueueFate ==
    ASSUME TypeOK, [Next]_vars, NEW s, Has(queue', s)
    PROVE  Has(queue, s) \/ QueueSteps(s)
<1>1. CASE Down
  BY <1>1 DEF Down, Has
<1>2. CASE QueueStep
  BY <1>2 DEF QueueStep, MovesOn, Has
<1> QED  BY <1>1, <1>2, QueueShift

-----------------------------------------------------------------------------
(* The store holds valid records only                                      *)

\* A run belongs to a batch that was started, its next section finds no item in
\* flight, and an item in flight is the one the run is at.
StartedRuns == \A c \in Batches : Owned(c) => batch[c].started
Grounded == \A c \in Batches :
    /\ ~run[c].detached
    /\ run[c].at = "top" \/ Has(queue, Section("begin", c))
    => Resting(batch[c])
Flight == \A c \in Batches, i \in Items :
    Owned(c) /\ batch[c].items[i] = "running" => run[c].item = i

Records == /\ \A c \in Batches : Valid(batch[c])
           /\ StartedRuns /\ Grounded /\ Flight

\* A begin section in service finds no item in flight.
LEMMA BeginsGrounded ==
    ASSUME TypeOK, Grounded, NEW c \in Batches, ServeBegin(c), ~run[c].detached
    PROVE  Resting(batch[c])
<1>1. queue \in Seq(Sections) /\ queue # <<>> /\ Head(queue) = Section("begin", c)
  BY DEF TypeOK, ServeBegin
<1>2. Head(queue) = queue[1] /\ 1 \in 1 .. Len(queue)
  BY <1>1, Served
<1> QED  BY <1>1, <1>2 DEF Has, Grounded

\* Every step keeps a record valid, and resting unless an item of it begins or ends.
LEMMA RecordStep ==
    ASSUME TypeOK, OneAtATime, Records, [Next]_vars, NEW c \in Batches
    PROVE  /\ Valid(batch'[c])
           /\ batch[c].started => batch'[c].started
           /\ Claims(c) => batch'[c].started /\ Resting(batch'[c])
           /\ \/ batch'[c] = batch[c]
              \/ Resting(batch'[c])
              \/ /\ ServeBegin(c) /\ ~run[c].detached
                 /\ batch'[c] = [batch[c] EXCEPT !.items[FirstPending(batch[c])] = "running"]
<1> DEFINE r == batch[c]
           i == run[c].item
<1>0. /\ r \in BatchRecord /\ Valid(r) /\ i \in Items /\ run[c] \in RunRecord
      /\ batch \in [Batches -> BatchRecord]
  BY DEF TypeOK, Records, RunRecord
<1>1. CASE Claims(c)
  <2>1. batch'[c] = [r EXCEPT !.status = "running", !.started = TRUE]
    BY <1>0, <1>1 DEF Claims
  <2> QED  BY <1>0, <1>1, <2>1, ClaimedValid DEF Claims
<1>2. CASE batch'[c] = batch[c] /\ ~Claims(c)
  BY <1>0, <1>2
<1>3. CASE ServeCall(c) /\ batch'[c] = Write(r, Head(queue).op) /\ ~Claims(c)
  <2>1. CASE r.status = "absent" /\ batch'[c] = [r EXCEPT !.status = "prepared"]
    BY <1>0, <1>3, <2>1, PreparedValid
  <2>2. CASE batch'[c] = Cancelled(r)
    BY <1>0, <1>3, <2>2, CancelledValid
  <2>3. CASE r.status \notin {"absent", "running", "completed"} /\ batch'[c] = Retried(r)
    BY <1>0, <1>3, <2>3, RetriedValid
  <2> QED  BY <1>2, <1>3, <2>1, <2>2, <2>3 DEF Write
<1>4. CASE Interrupts(c) /\ batch'[c] = Interrupted(r) /\ ~Claims(c)
  <2>1. r.status = "running"
    BY <1>4 DEF Interrupts
  <2> QED  BY <1>0, <1>4, <2>1, InterruptedValid
<1>5. CASE /\ ServeBegin(c) /\ ~run[c].detached /\ r.status = "running" /\ ~Claims(c)
           /\ \E k \in Items : r.items[k] = "pending"
           /\ batch'[c] = [r EXCEPT !.items[FirstPending(r)] = "running"]
  <2>1. FirstPending(r) \in Items
    BY <1>0, <1>5, PickedPending
  <2>2. Resting(r)
    BY <1>5, BeginsGrounded DEF Records
  <2> QED  BY <1>0, <1>5, <2>1, <2>2, BegunValid
<1>6. CASE /\ ServeBegin(c) /\ ~run[c].detached /\ r.status = "running" /\ ~Claims(c)
           /\ batch'[c] = [r EXCEPT !.status = Settled(r)]
  <2>1. Resting(r)
    BY <1>6, BeginsGrounded DEF Records
  <2> QED  BY <1>0, <1>6, <2>1, SettledValid
<1>7. CASE /\ ServeRecord(c) /\ ~run[c].detached /\ batch'[c] = Outcomed(c) /\ ~Claims(c)
           /\ r.status = "running" /\ run[c].outcome # "cancelled" => r.items[i] = "running"
  <2>1. CASE r.status = "cancelled" /\ batch'[c] = [r EXCEPT !.items[i] = "completed"]
    <3>1. run[c].at = "section"
      BY <1>7, NothingQueued DEF ServeRecord, OwnOps
    <3>2. r.started
      BY <3>1 DEF Records, StartedRuns
    <3> QED  BY <1>0, <1>7, <2>1, <3>2, RestoredValid
  <2>2. ASSUME NEW status \in {"completed", "attention"}, r.status = "running",
               run[c].outcome # "cancelled", batch'[c] = Recorded(r, i, status)
        PROVE  Valid(batch'[c]) /\ Resting(batch'[c]) /\ batch'[c].started = r.started
    BY <1>0, <1>7, <2>2, RecordedValid
  <2>3. CASE r.status = "running" /\ batch'[c] = Interrupted(r)
    BY <1>0, <1>7, <2>3, InterruptedValid
  <2> QED  BY <1>2, <1>7, <2>1, <2>2, <2>3 DEF Outcomed
<1> QED  BY <1>1, <1>2, <1>3, <1>4, <1>5, <1>6, <1>7, RecordFate
\* A served section of a run is the only one, so the run waits for no other.
LEMMA OwnServed ==
    ASSUME TypeOK, OneAtATime, NEW c \in Batches, ServeBegin(c) \/ ServeRecord(c),
           queue' = Tail(queue)
    PROVE  \A op \in OwnOps, b \in Batches : ~Has(queue', Section(op, b))
<1>1. \E op \in OwnOps : queue # <<>> /\ Head(queue) = Section(op, c)
  BY DEF ServeBegin, ServeRecord, OwnOps
<1>2. NoOwn(Tail(queue))
  BY <1>1, NothingQueued
<1> QED  BY <1>2 DEF NoOwn, Has, Section

\* Every step keeps the records in order.
LEMMA RecordsStep ==
    ASSUME TypeOK, OneAtATime, Records, [Next]_vars
    PROVE  Records'
<1>0. /\ batch \in [Batches -> BatchRecord] /\ run \in [Batches -> RunRecord]
      /\ TypeOK' /\ OneAtATime'
  BY InvariantStep DEF TypeOK
<1>1. \A c \in Batches : Valid(batch'[c])
  BY RecordStep
<1>2. ASSUME NEW c \in Batches, run'[c].at # "none"
      PROVE  batch'[c].started
  <2>1. Owned(c) \/ Claims(c)
    BY <1>2, RunMoves
  <2> QED  BY <2>1, RecordStep DEF Records, StartedRuns
<1>3. ASSUME NEW c \in Batches, ~run'[c].detached,
             run'[c].at = "top" \/ Has(queue', Section("begin", c))
      PROVE  Resting(batch'[c])
  <2>1. Section("begin", c).op = "begin" /\ Section("begin", c).batch = c
    BY DEF Section
  <2>2. CASE Claims(c)
    BY <2>2, RecordStep
  <2>3. CASE ServeBegin(c)
    <3>1. queue' = Tail(queue)
      BY <2>3 DEF ServeBegin
    <3>2. ~Has(queue', Section("begin", c))
      BY <2>3, <3>1, OwnServed DEF OwnOps
    <3>3. run'[c] = NoRun \/ run'[c].at = "check"
      BY <1>0, <2>3 DEF ServeBegin, EndRun, RunRecord
    <3> QED  BY <1>3, <3>2, <3>3 DEF NoRun
  <2>4. CASE ServeRecord(c) /\ ~Claims(c) /\ ~Has(queue, Section("begin", c)) /\ run'[c].at = "top"
    <3>1. CASE run[c].at = "top"
      BY <2>4, <3>1, NothingQueued DEF ServeRecord, OwnOps
    <3>2. CASE run[c].at # "top"
      <4>1. /\ run'[c] = [run[c] EXCEPT !.at = "top"] /\ run[c].outcome # "cancelled"
            /\ batch' = IF run[c].detached THEN batch ELSE [batch EXCEPT ![c] = Outcomed(c)]
            /\ queue' = Tail(queue)
        BY <1>0, <2>4, <3>2 DEF ServeRecord, EndRun, Moves, NoRun
      <4>2. ~run[c].detached
        BY <1>0, <1>3, <4>1 DEF RunRecord
      <4>3. CASE batch'[c] = batch[c]
        <5>1. batch[c].status = "running" /\ run[c].outcome # "cancelled" =>
                 batch[c].items[run[c].item] = "running"
          BY <2>4, <4>1, <4>2 DEF ServeRecord
        <5>2. CASE batch[c].status = "running"
          <6>1. /\ batch[c].items[run[c].item] = "running" /\ run[c].item \in Items
                /\ run[c].outcome \in {"completed", "failed"} /\ Valid(batch[c])
            BY <1>0, <4>1, <5>1, <5>2 DEF RunRecord, Records
          <6>2. batch'[c] = Recorded(batch[c], run[c].item, "completed")
                \/ batch'[c] = Recorded(batch[c], run[c].item, "attention")
            BY <1>0, <4>1, <4>2, <5>2, <6>1 DEF Outcomed
          <6> QED  BY <1>0, <5>2, <6>1, <6>2, RecordedValid
        <5>3. CASE batch[c].status # "running"
          BY <4>3, <5>3 DEF Records, Valid
        <5> QED  BY <5>2, <5>3
      <4>4. CASE batch'[c] # batch[c]
        <5>1. Head(queue) # Section("begin", c)
          BY <2>4 DEF ServeRecord, Section
        <5> QED  BY <4>4, <5>1, RecordStep DEF ServeBegin
      <4> QED  BY <4>3, <4>4
    <3> QED  BY <3>1, <3>2
  <2>5. CASE ~run[c].detached /\ (run[c].at = "top" \/ Has(queue, Section("begin", c)))
             /\ ~ServeBegin(c)
    BY <2>5, RecordStep DEF Records, Grounded
  <2>6. run[c].detached => run'[c].detached \/ Claims(c) \/ run'[c].at = "none"
    BY RunMoves
  <2>7. CASE run[c].detached /\ ~Claims(c)
    <3>1. run'[c].at = "none" /\ Has(queue', Section("begin", c))
      BY <1>3, <2>6, <2>7
    <3>2. run'[c].at = "section"
      BY <1>0, <2>1, <3>1 DEF OneAtATime, Awaited, Has, OwnOps
    <3> QED  BY <3>1, <3>2
  <2>8. Has(queue', Section("begin", c)) =>
           Has(queue, Section("begin", c)) \/ run[c].at = "top" \/ Claims(c)
    BY <2>1, QueueFate DEF QueueSteps, Section, Top, Drain
  <2>9. run'[c].at = "top" => run[c].at = "top" \/ Claims(c) \/ ServeRecord(c)
    BY RunMoves
  <2> QED  BY <1>3, <2>2, <2>3, <2>4, <2>5, <2>7, <2>8, <2>9
<1>4. ASSUME NEW c \in Batches, NEW i \in Items, run'[c].at # "none",
             batch'[c].items[i] = "running"
      PROVE  run'[c].item = i
  <2>1. ~Resting(batch'[c])
    BY <1>4 DEF Resting
  <2>2. CASE batch'[c] = batch[c] /\ ~Claims(c) /\ ~ServeBegin(c)
    <3>1. Owned(c) /\ run'[c].item = run[c].item
      BY <1>4, <2>2, RunMoves
    <3> QED  BY <1>4, <2>2, <3>1 DEF Records, Flight
  <2>3. CASE ServeBegin(c)
    <3>1. run'[c] # NoRun
      BY <1>4 DEF NoRun
    <3>2. /\ batch' = [batch EXCEPT ![c].items[FirstPending(batch[c])] = "running"]
          /\ run' = [run EXCEPT ![c].at = "check", ![c].item = FirstPending(batch[c])]
          /\ ~run[c].detached /\ batch[c].status = "running"
          /\ \E k \in Items : batch[c].items[k] = "pending"
      BY <1>0, <2>3, <3>1 DEF ServeBegin, EndRun
    <3>3. Resting(batch[c]) /\ Valid(batch[c]) /\ FirstPending(batch[c]) \in Items
      BY <1>0, <2>3, <3>2, BeginsGrounded, PickedPending DEF Records
    <3>4. i = FirstPending(batch[c])
      BY <1>0, <1>4, <3>2, <3>3 DEF Resting, BatchRecord
    <3> QED  BY <1>0, <3>2, <3>4 DEF RunRecord
  <2> QED  BY <2>1, <2>2, <2>3, RecordStep
<1> QED  BY <1>1, <1>2, <1>3, <1>4 DEF Records, StartedRuns, Grounded, Flight

\* They are in order at the start.
LEMMA InitRecords == Init => Records
<1> SUFFICES ASSUME Init  PROVE Records
  OBVIOUS
<1>1. \A c \in Batches : batch[c] = AbsentBatch /\ run[c] = NoRun
  BY DEF Init
<1>2. Valid(AbsentBatch) /\ Resting(AbsentBatch)
  <2>1. /\ AbsentBatch.status = "absent" /\ AbsentBatch.started = FALSE
        /\ \A i \in Items : AbsentBatch.items[i] = "pending"
    BY DEF AbsentBatch
  <2>2. AbsentBatch.started \in BOOLEAN /\ ~AbsentBatch.started
        /\ AbsentBatch.status \notin {"running", "paused", "completed"}
    BY <2>1
  <2>3. \A i \in Items : AbsentBatch.items[i] # "running"
    BY <2>1
  <2> QED  BY <2>1, <2>2, <2>3 DEF Valid, Resting
<1>3. NoRun.at = "none"
  BY DEF NoRun
<1> QED  BY <1>1, <1>2, <1>3 DEF Records, StartedRuns, Grounded, Flight

\* So they always are.
LEMMA RecordsHold == Spec => [](TypeOK /\ OneAtATime /\ Records)
<1>1. Init => TypeOK /\ OneAtATime /\ Records
  BY InitType, InitInOrder, InitRecords
<1>2. TypeOK /\ OneAtATime /\ Records /\ [Next]_vars => (TypeOK /\ OneAtATime /\ Records)'
  BY InvariantStep, RecordsStep
<1> QED  BY <1>1, <1>2, PTL DEF Spec

\* The store never holds a record its validator refuses, whatever starts,
\* cancels, retries, interruptions, late outcomes and refused writes come in
\* which order (validateMaterialRefreshBatch, replaceItemAndSettle).
THEOREM RecordsStayValid == Spec => []RecordsValid
<1>1. Records => RecordsValid
  BY DEF Records, RecordsValid, Valid, Resting
<1> QED  BY <1>1, RecordsHold, PTL

-----------------------------------------------------------------------------
(* The stages of close()                                                   *)

Gone == {"recovering", "down"}
Late == {"waiting", "detaching", "interrupting", "closed"}

\* What a step does to the phase of the disposal.
LEMMA PhaseFate ==
    ASSUME [Next]_vars
    PROVE  \/ phase' = phase /\ UNCHANGED leaving
           \/ Detach /\ phase' \in {"detaching", "interrupting"}
           \/ Close /\ phase = "open" /\ phase' = "draining"
           \/ ServeDrain /\ phase' = "waiting" /\ leaving' = fifo
           \/ phase = "waiting" /\ phase' = "detaching" /\ UNCHANGED <<queue, leaving>>
           \/ \E b \in Batches : ServeDetach(b) /\ phase' = "detaching" /\ UNCHANGED leaving
           \/ phase = "detaching" /\ leaving = <<>> /\ phase' = "closed" /\ UNCHANGED <<queue, leaving>>
           \/ Down /\ phase' = "down"
           \/ phase = "down" /\ phase' = "recovering" /\ UNCHANGED queue
           \/ Open /\ phase = "recovering" /\ phase' = "open" /\ UNCHANGED queue
<1>1. ASSUME NEW b \in Batches, Calls(b) \/ Work(b) \/ Return(b)
      PROVE  phase' = phase /\ UNCHANGED leaving
  BY <1>1 DEF Calls, Call, CallCancel, Work, Top, SkipRead, Read, Return
<1>2. ASSUME NEW b \in Batches, Serve(b), ~ServeDetach(b)
      PROVE  phase' = phase /\ UNCHANGED leaving
  BY <1>2 DEF Serve, ServeCall, ServeStart, ServeAbortedStart, ServeAbort, DropSection,
     ServeBegin, ServeRecord, FailSection, ServeInterrupt
<1>3. ASSUME NEW b \in Batches, ServeDetach(b)
      PROVE  phase' = "detaching" /\ UNCHANGED leaving
  BY <1>3 DEF ServeDetach
<1>4. CASE Close
  BY <1>4 DEF Close
<1>5. CASE Disposal
  BY <1>5 DEF Disposal, ServeDrain, StopWaiting, Detach, Closed
<1>6. CASE Down
  BY <1>6 DEF Down
<1>7. CASE Activation
  BY <1>7 DEF Activation, Activate, Open, Recover
<1>8. CASE UNCHANGED vars
  BY <1>8 DEF vars
<1> QED  BY <1>1, <1>2, <1>3, <1>4, <1>5, <1>6, <1>7, <1>8 DEF Next

\* What a step does to the queue of claims.
LEMMA FifoFate ==
    ASSUME TypeOK, OneAtATime, [Next]_vars
    PROVE  \/ Down
           \/ UNCHANGED fifo
           \/ \E c \in Batches : Turn(c) /\ fifo' = Tail(fifo) /\ run'[c] = NoRun
           \/ \E c \in Batches : Claims(c) /\ ~Owned(c) /\ fifo' = Append(fifo, c)
<1>0. run \in [Batches -> RunRecord]
  BY DEF TypeOK
<1>1. ASSUME NEW c \in Batches, EndRun(c), Turn(c)
      PROVE  Turn(c) /\ fifo' = Tail(fifo) /\ run'[c] = NoRun
  BY <1>0, <1>1 DEF EndRun
<1>2. ASSUME NEW c \in Batches, Calls(c)  PROVE UNCHANGED fifo
  BY <1>2 DEF Calls, Call, CallCancel
<1>3. ASSUME NEW c \in Batches, Work(c) \/ Return(c)
      PROVE  UNCHANGED fifo \/ (EndRun(c) /\ Turn(c))
  BY <1>3 DEF Work, Top, SkipRead, Read, Return, Outcome, Moves
<1>4. ASSUME NEW c \in Batches, ServeBegin(c) \/ ServeRecord(c) \/ ServeInterrupt(c)
      PROVE  UNCHANGED fifo \/ (EndRun(c) /\ Turn(c))
  <2>1. \A op \in OwnOps : queue # <<>> /\ Head(queue) = Section(op, c) => Turn(c)
    BY NothingQueued
  <2>2. Turn(c)
    BY <1>4, <2>1 DEF ServeBegin, ServeRecord, ServeInterrupt, OwnOps
  <2> QED  BY <1>4, <2>2 DEF ServeBegin, ServeRecord, ServeInterrupt, Moves
<1>5. ASSUME NEW c \in Batches, ServeStart(c) \/ ServeAbortedStart(c)
      PROVE  UNCHANGED fifo \/ (Claims(c) /\ ~Owned(c) /\ fifo' = Append(fifo, c))
  BY <1>5 DEF ServeStart, ServeAbortedStart, Claimed, Claims
<1>6. ASSUME NEW c \in Batches,
             ServeCall(c) \/ ServeAbort(c) \/ DropSection(c) \/ FailSection(c) \/ ServeDetach(c)
      PROVE  UNCHANGED fifo
  BY <1>6 DEF ServeCall, ServeAbort, DropSection, FailSection, ServeDetach
<1>7. CASE Close \/ Disposal \/ Activation \/ UNCHANGED vars
  BY <1>7 DEF Close, Disposal, ServeDrain, StopWaiting, Detach, Closed, Activation, Activate,
     Open, Recover, vars
<1> QED  BY <1>1, <1>2, <1>3, <1>4, <1>5, <1>6, <1>7 DEF Next, Serve

\* The drain and the detaching sections are in the queue in their own stage
\* only, one of them at most; an aborted start's interruption is served before
\* the drain.
Once(q, op) == \A k, l \in 1 .. Len(q) : q[k].op = op /\ q[l].op = op => k = l
Barrier ==
    /\ Once(queue, "drain") /\ Once(queue, "detach")
    /\ \A k \in 1 .. Len(queue) :
         /\ queue[k].op = "drain" => phase = "draining"
         /\ queue[k].op = "detach" => phase = "interrupting"
         /\ queue[k].op = "abort" =>
               \/ phase = "open"
               \/ phase = "draining" /\ \E l \in k + 1 .. Len(queue) : queue[l].op = "drain"

\* The queue begins with no drain and no detaching section.
LEMMA InitBarrier == Init => Barrier
<1> SUFFICES ASSUME Init  PROVE Barrier
  OBVIOUS
<1>1. Len(queue) = 0
  BY DEF Init
<1> QED  BY <1>1 DEF Barrier, Once

\* Every step keeps the drain and the detaching sections in their own stage.
LEMMA BarrierStep ==
    ASSUME TypeOK, Barrier, [Next]_vars
    PROVE  Barrier'
<1>0. queue \in Seq(Sections) /\ Drain \in Sections /\ Drain.op = "drain" /\ Len(queue) \in Nat
  BY LenProperties DEF TypeOK, Sections, Drain
<1>1. CASE Down
  <2>1. Len(queue') = 0
    BY <1>1 DEF Down
  <2> QED  BY <2>1 DEF Barrier, Once
<1>2. ASSUME NEW t \in Sections, NEW op \in {"drain", "detach"}, t.op = op,
             queue' = Append(queue, t), \A k \in 1 .. Len(queue) : queue[k].op # op
      PROVE  /\ Once(queue', "drain") /\ Once(queue', "detach")
             /\ \A k \in 1 .. Len(queue') : \/ k \in 1 .. Len(queue) /\ queue'[k] = queue[k]
                                            \/ k = Len(queue) + 1 /\ queue'[k] = t
             /\ Len(queue') = Len(queue) + 1 /\ queue'[Len(queue) + 1] = t
  <2>1. /\ \A k \in 1 .. Len(queue') : \/ k \in 1 .. Len(queue) /\ queue'[k] = queue[k]
                                       \/ k = Len(queue) + 1 /\ queue'[k] = t
        /\ Len(queue') = Len(queue) + 1 /\ queue'[Len(queue) + 1] = t
    BY <1>0, <1>2, Queued
  <2> QED  BY <1>2, <2>1 DEF Barrier, Once
<1>3. CASE Close
  <2>1. /\ queue' = Append(queue, Drain) /\ phase = "open" /\ phase' = "draining"
        /\ \A k \in 1 .. Len(queue) : queue[k].op \notin {"drain", "detach"}
    BY <1>3 DEF Close, Barrier
  <2>2. /\ Once(queue', "drain") /\ Once(queue', "detach")
        /\ \A k \in 1 .. Len(queue') : \/ k \in 1 .. Len(queue) /\ queue'[k] = queue[k]
                                       \/ k = Len(queue) + 1 /\ queue'[k] = Drain
        /\ Len(queue') = Len(queue) + 1 /\ queue'[Len(queue) + 1] = Drain
    BY <1>0, <1>2, <2>1
  <2>3. \A k \in 1 .. Len(queue') : queue'[k].op = "abort" =>
           \E l \in k + 1 .. Len(queue') : queue'[l].op = "drain"
    BY <1>0, <2>2
  <2> QED  BY <1>0, <2>1, <2>2, <2>3 DEF Barrier
<1>4. CASE Detach /\ Owned(Head(leaving))
  <2> DEFINE t == Section("detach", Head(leaving))
  <2>1. Head(leaving) \in Batches
    BY <1>4, HeadTailProperties DEF Detach, TypeOK
  <2>2. t \in Sections /\ t.op = "detach"
    BY <2>1 DEF Section, Sections, Ops
  <2>3. /\ queue' = Append(queue, t) /\ phase = "detaching" /\ phase' = "interrupting"
        /\ \A k \in 1 .. Len(queue) : queue[k].op \notin {"drain", "detach", "abort"}
    BY <1>4 DEF Detach, Enqueue, Barrier
  <2> HIDE DEF t
  <2>4. /\ Once(queue', "drain") /\ Once(queue', "detach")
        /\ \A k \in 1 .. Len(queue') : \/ k \in 1 .. Len(queue) /\ queue'[k] = queue[k]
                                       \/ k = Len(queue) + 1 /\ queue'[k] = t
    BY <1>2, <2>2, <2>3
  <2> QED  BY <2>2, <2>3, <2>4 DEF Barrier
<1>5. ASSUME NEW op \in {"drain", "detach"}, queue # <<>>, Head(queue).op = op, queue' = Tail(queue)
      PROVE  /\ \A k \in 1 .. Len(queue') : queue'[k].op # op
             /\ Once(queue', "drain") /\ Once(queue', "detach")
             /\ \A k \in 1 .. Len(queue') : k + 1 \in 1 .. Len(queue) /\ queue'[k] = queue[k + 1]
  BY <1>0, <1>5, Served DEF Barrier, Once
<1>6. CASE ServeDrain
  <2>1. queue # <<>> /\ Head(queue).op = "drain" /\ queue' = Tail(queue)
    BY <1>0, <1>6 DEF ServeDrain
  <2>2. 1 \in 1 .. Len(queue) /\ queue[1].op = "drain"
    BY <1>0, <2>1, Served
  <2>3. phase = "draining"
    BY <2>2 DEF Barrier
  <2>4. \A k \in 1 .. Len(queue') : queue'[k].op \notin {"drain", "detach", "abort"}
    <3> TAKE k \in 1 .. Len(queue')
    <3>1. /\ k + 1 \in 1 .. Len(queue) /\ queue'[k] = queue[k + 1] /\ queue'[k].op # "drain"
      BY <1>5, <2>1
    <3>2. queue'[k].op = "abort" => \E l \in k + 2 .. Len(queue) : queue[l].op = "drain"
      BY <2>3, <3>1 DEF Barrier
    <3> QED  BY <1>0, <2>2, <2>3, <3>1, <3>2 DEF Barrier, Once
  <2> QED  BY <1>5, <2>1, <2>4 DEF Barrier
<1>7. ASSUME NEW b \in Batches, ServeDetach(b)  PROVE Barrier'
  <2>1. queue # <<>> /\ Head(queue).op = "detach" /\ queue' = Tail(queue)
    BY <1>7 DEF ServeDetach, Section
  <2>2. 1 \in 1 .. Len(queue) /\ queue[1].op = "detach"
    BY <1>0, <2>1, Served
  <2>3. phase = "interrupting"
    BY <2>2 DEF Barrier
  <2>4. \A k \in 1 .. Len(queue') : queue'[k].op \notin {"drain", "detach", "abort"}
    BY <1>5, <2>1, <2>3 DEF Barrier
  <2> QED  BY <1>5, <2>1, <2>4 DEF Barrier
<1>8. CASE /\ ~Down /\ ~Close /\ ~ServeDrain /\ ~(Detach /\ Owned(Head(leaving)))
           /\ \A b \in Batches : ~ServeDetach(b)
  <2>1. PICK d \in {0, 1}, N \in SUBSET Sections :
           MovesOn(queue, queue', d, N) /\ \A s \in N : QueueSteps(s)
    BY <1>8, QueueShift DEF QueueStep
  <2>2. Detach => phase' = "detaching"
    BY <1>8 DEF Detach
  <2>3. \A s \in N : s.op \notin {"drain", "detach"} /\ (s.op = "abort" => phase = "open")
    <3> TAKE s \in N
    <3>1. /\ \A b : /\ Section("begin", b).op = "begin" /\ Section("interrupt", b).op = "interrupt"
                   /\ Section("abort", b).op = "abort" /\ Section("record", b).op = "record"
          /\ phase' = "interrupting" => ~Detach
      BY <2>2 DEF Section
    <3>2. QueueSteps(s)
      BY <2>1
    <3>3. \/ phase = "open" /\ s.op \in {"prepare", "start", "abortedStart", "cancel", "retry"}
          \/ \E b \in Batches : s \in {Section("begin", b), Section("interrupt", b), Section("record", b)}
          \/ phase = "open" /\ \E b \in Batches : s \in {Section("begin", b), Section("abort", b)}
      BY <1>8, <3>1, <3>2 DEF QueueSteps, Claims
    <3> QED  BY <3>1, <3>3
  <2>4. \A k \in 1 .. Len(queue') :
           \/ k + d \in 1 .. Len(queue) /\ queue'[k] = queue[k + d]
           \/ /\ queue'[k].op \notin {"drain", "detach"}
              /\ queue'[k].op = "abort" => phase = "open"
    BY <2>1, <2>3 DEF MovesOn
  <2>5. Once(queue', "drain") /\ Once(queue', "detach")
    <3> SUFFICES ASSUME NEW k \in 1 .. Len(queue'), NEW l \in 1 .. Len(queue'),
                        NEW op \in {"drain", "detach"}, queue'[k].op = op, queue'[l].op = op
                 PROVE  k = l
      BY DEF Once
    <3>1. /\ k + d \in 1 .. Len(queue) /\ queue[k + d].op = op
          /\ l + d \in 1 .. Len(queue) /\ queue[l + d].op = op
      BY <2>4
    <3>2. k + d = l + d
      BY <3>1 DEF Barrier, Once
    <3> QED  BY <3>2
  <2>6. \/ phase' = phase
        \/ UNCHANGED queue /\ phase \notin {"open", "draining", "interrupting"}
    BY <1>8, <2>2, PhaseFate DEF Detach
  <2>7. CASE phase' = phase
    <3> SUFFICES ASSUME NEW k \in 1 .. Len(queue')
                 PROVE  /\ queue'[k].op = "drain" => phase = "draining"
                        /\ queue'[k].op = "detach" => phase = "interrupting"
                        /\ queue'[k].op = "abort" =>
                             \/ phase = "open"
                             \/ /\ phase = "draining"
                                /\ \E l \in k + 1 .. Len(queue') : queue'[l].op = "drain"
      BY <2>5, <2>7 DEF Barrier
    <3>1. ASSUME queue'[k].op = "abort", phase # "open"
          PROVE  phase = "draining" /\ \E l \in k + 1 .. Len(queue') : queue'[l].op = "drain"
      <4>1. k + d \in 1 .. Len(queue) /\ queue[k + d].op = "abort"
        BY <2>4, <3>1
      <4>2. PICK l \in k + d + 1 .. Len(queue) : queue[l].op = "drain" /\ phase = "draining"
        BY <3>1, <4>1 DEF Barrier
      <4>3. l - d \in 1 .. Len(queue') /\ queue'[l - d] = queue[l]
        BY <1>0, <2>1, <4>2 DEF MovesOn
      <4> QED  BY <4>2, <4>3
    <3> QED  BY <2>4, <3>1 DEF Barrier
  <2>8. CASE UNCHANGED queue /\ phase \notin {"open", "draining", "interrupting"}
    BY <2>8 DEF Barrier
  <2> QED  BY <2>6, <2>7, <2>8
<1> QED  BY <1>1, <1>3, <1>4, <1>6, <1>7, <1>8

Listed(q, b) == \E k \in 1 .. Len(q) : q[k] = b

\* The batches in a queue of claims after it moves.
LEMMA ListedMoves ==
    ASSUME NEW q \in Seq(Batches), NEW b \in Batches
    PROVE  /\ \A c \in Batches : Listed(Append(q, c), b) <=> Listed(q, b) \/ c = b
           /\ q # <<>> /\ Listed(q, b) => Head(q) = b \/ Listed(Tail(q), b)
<1>1. Len(q) \in Nat
  BY LenProperties
<1>2. ASSUME NEW c \in Batches
      PROVE  Listed(Append(q, c), b) <=> Listed(q, b) \/ c = b
  BY <1>1, AppendProperties DEF Listed
<1>3. ASSUME q # <<>>, NEW k \in 1 .. Len(q), q[k] = b, k # 1
      PROVE  Listed(Tail(q), b)
  <2>1. Len(Tail(q)) = Len(q) - 1 /\ \A i \in 1 .. Len(Tail(q)) : Tail(q)[i] = q[i + 1]
    BY <1>3, HeadTailProperties
  <2>2. k - 1 \in 1 .. Len(Tail(q)) /\ Tail(q)[k - 1] = q[(k - 1) + 1]
    BY <1>1, <1>3, <2>1
  <2>3. Tail(q)[k - 1] = b
    BY <1>1, <1>3, <2>2
  <2> QED  BY <2>2, <2>3 DEF Listed
<1>4. q # <<>> => Head(q) = q[1]
  BY HeadTailProperties
<1> QED  BY <1>2, <1>3, <1>4 DEF Listed

\* A run stands in line and lives while the service is up; it is detached by
\* close() only, which cancels every run and detaches the ones it leaves.
Draining ==
    /\ \A b \in Batches :
         /\ Owned(b) => Listed(fifo, b) /\ phase \notin Gone
         /\ run[b].detached => phase \in Late
         /\ Owned(b) /\ phase \in Late => run[b].cancelled
         /\ Owned(b) /\ phase \in Late /\ ~run[b].detached => Listed(leaving, b)
    /\ phase = "closed" => leaving = <<>>
    /\ phase \in Gone => committed = {}

\* No run is owned at the start.
LEMMA InitDraining == Init => Draining
BY DEF Init, Draining, NoRun, Gone, Late

\* The sections of close() are served in their own stage.
LEMMA InStage ==
    ASSUME TypeOK, Barrier
    PROVE  /\ ServeDrain => phase = "draining"
           /\ \A b \in Batches : ServeDetach(b) => phase = "interrupting"
<1>0. queue \in Seq(Sections)
  BY DEF TypeOK
<1>1. ServeDrain => queue # <<>> /\ Head(queue).op = "drain"
  BY DEF ServeDrain, Drain
<1>2. \A b \in Batches : ServeDetach(b) => queue # <<>> /\ Head(queue).op = "detach"
  BY DEF ServeDetach, Section
<1> QED  BY <1>0, <1>1, <1>2, Served DEF Barrier

\* Every step keeps the runs in line, and detached by close() only.
LEMMA DrainingStep ==
    ASSUME TypeOK, OneAtATime, Barrier, Draining, [Next]_vars
    PROVE  Draining'
<1>0. /\ fifo \in Seq(Batches) /\ leaving \in Seq(Batches) /\ run \in [Batches -> RunRecord]
      /\ queue \in Seq(Sections) /\ phase \in Phases
  BY DEF TypeOK
<1>1. CASE Down
  BY <1>1 DEF Down, Draining, NoRun, Gone, Late
<1>2. (ServeDrain => phase = "draining") /\ \A b \in Batches : ServeDetach(b) => phase = "interrupting"
  BY InStage
<1>4. CASE ~Down
  <2>1. ASSUME NEW b \in Batches, run'[b].at # "none"
        PROVE  Owned(b) \/ (Claims(b) /\ ~Owned(b) /\ ~run'[b].detached)
    BY <2>1, RunMoves
  <2>2. ASSUME NEW b \in Batches, Claims(b)
        PROVE  phase = "open" /\ phase' = "open"
    BY <2>2 DEF Claims, ServeStart, ServeAbortedStart
  <2>3. /\ phase \notin Gone => phase' \notin Gone
        /\ phase \in Late => phase' \in Late
        /\ phase' \in Late => phase \in Late \/ (ServeDrain /\ leaving' = fifo)
        /\ phase' \in Gone => phase \in Gone
        /\ phase' = "closed" => leaving' = <<>>
    BY <1>2, <1>4, PhaseFate DEF Gone, Late, Draining, Detach
  <2>4. ASSUME NEW b \in Batches, run'[b].at # "none"
        PROVE  Listed(fifo', b) /\ phase' \notin Gone
    <3>1. phase' \notin Gone
      BY <2>1, <2>2, <2>3, <2>4 DEF Draining, Gone
    <3>2. CASE UNCHANGED fifo /\ Owned(b)
      BY <3>1, <3>2 DEF Draining, Listed
    <3>3. ASSUME NEW c \in Batches, Turn(c), fifo' = Tail(fifo), run'[c] = NoRun, Owned(b)
          PROVE  Listed(fifo', b)
      <4>1. c # b
        BY <2>4, <3>3 DEF NoRun
      <4> QED  BY <1>0, <3>3, <4>1, ListedMoves DEF Draining
    <3>4. ASSUME NEW c \in Batches, fifo' = Append(fifo, c), Owned(b) \/ b = c
          PROVE  Listed(fifo', b)
      BY <1>0, <3>4, ListedMoves DEF Draining
    <3>5. CASE Claims(b) /\ ~Owned(b)
      <4>1. run'[b] # run[b] /\ fifo' = Append(fifo, b)
        BY <1>0, <2>4, <3>5 DEF Claims, ServeStart, ServeAbortedStart, Claimed
      <4> QED  BY <3>1, <3>4, <4>1
    <3> QED  BY <1>4, <2>1, <2>4, <3>1, <3>2, <3>3, <3>4, <3>5, FifoFate
  <2>5. ASSUME NEW b \in Batches, run'[b].detached
        PROVE  phase' \in Late
    <3>1. run'[b] # NoRun
      BY <2>5 DEF NoRun
    <3>2. run[b].detached \/ (Detach /\ phase \in Late)
      <4>1. run'[b] = run[b] => run[b].detached
        BY <2>5
      <4>2. Detach => phase \in Late
        BY DEF Detach, Late
      <4> QED  BY <2>5, <3>1, <4>1, <4>2, RunMoves
    <3> QED  BY <2>3, <3>2 DEF Draining
  <2>6. ASSUME NEW b \in Batches, run'[b].at # "none", phase' \in Late
        PROVE  run'[b].cancelled
    <3>1. Owned(b)
      BY <2>1, <2>2, <2>6 DEF Late
    <3>2. CASE phase \in Late
      <4>1. run[b].cancelled /\ run'[b].at # "none" /\ ~(Claims(b) /\ ~Owned(b))
        BY <2>6, <3>1, <3>2 DEF Draining
      <4> QED  BY <4>1, RunMoves
    <3>3. CASE ServeDrain
      BY <1>0, <3>1, <3>3 DEF ServeDrain, RunRecord
    <3> QED  BY <2>3, <2>6, <3>2, <3>3
  <2>7. ASSUME NEW b \in Batches, run'[b].at # "none", phase' \in Late, ~run'[b].detached
        PROVE  Listed(leaving', b)
    <3>1. Owned(b) /\ ~run[b].detached
      <4>1. Owned(b)
        BY <2>1, <2>2, <2>7 DEF Late
      <4> QED  BY <2>7, <4>1, RunMoves
    <3>2. CASE ServeDrain /\ leaving' = fifo
      BY <3>1, <3>2 DEF Draining, Listed
    <3>3. CASE phase \in Late /\ UNCHANGED leaving
      BY <3>1, <3>3 DEF Draining, Listed
    <3>4. CASE Detach /\ phase \in Late
      <4>1. leaving # <<>> /\ leaving' = Tail(leaving) /\ Listed(leaving, b)
        BY <3>1, <3>4 DEF Detach, Draining
      <4>2. Head(leaving) # b
        <5>1. Head(leaving) = b => run' = [run EXCEPT ![b].detached = TRUE]
          BY <3>1, <3>4 DEF Detach
        <5> QED  BY <1>0, <2>7, <5>1 DEF RunRecord
      <4> QED  BY <1>0, <4>1, <4>2, ListedMoves
    <3>5. phase \in Late => UNCHANGED leaving \/ Detach \/ ServeDrain
      BY <1>4, PhaseFate DEF Late, Close, Open
    <3>6. ServeDrain => leaving' = fifo
      BY DEF ServeDrain
    <3> QED  BY <2>3, <2>7, <3>2, <3>3, <3>4, <3>5, <3>6
  <2>8. ASSUME phase' \in Gone  PROVE committed' = {}
    <3>1. phase \in Gone /\ committed = {}
      BY <2>3, <2>8 DEF Draining
    <3>2. \A b \in Batches : ~Return(b)
      BY <3>1 DEF Return, Draining
    <3>3. UNCHANGED committed
      BY <1>4, <3>2 DEF Next, Calls, Call, CallCancel, Serve, ServeCall, ServeStart, ServeAbortedStart,
         ServeAbort, DropSection, ServeBegin, ServeRecord, FailSection, ServeInterrupt, ServeDetach,
         Work, Top, SkipRead, Read, Close, Disposal, ServeDrain, StopWaiting, Detach, Closed,
         Activation, Activate, Open, Recover, vars
    <3> QED  BY <3>1, <3>3
  <2> QED  BY <2>3, <2>4, <2>5, <2>6, <2>7, <2>8 DEF Draining
<1> QED  BY <1>1, <1>4

-----------------------------------------------------------------------------
(* What is stored of a run is true                                         *)

\* While the store accepts its writes, a running batch has its run, or the
\* interruption of the run that close() detached is in the queue.
Backed ==
    "store" \notin Faults /\ phase \notin Gone =>
       \A b \in Batches : batch[b].status = "running" =>
          (Owned(b) /\ ~run[b].detached) \/ Has(queue, Section("detach", b))

\* A record runs after a step that does not claim it only if it ran before.
LEMMA RunningFate ==
    ASSUME TypeOK, OneAtATime, Records, [Next]_vars, NEW b \in Batches, ~Claims(b),
           batch'[b].status = "running"
    PROVE  batch[b].status = "running" /\ batch'[b] # Interrupted(batch[b])
<1> DEFINE r == batch[b]
<1>0. r \in BatchRecord /\ Valid(r) /\ run[b] \in RunRecord
  BY DEF TypeOK, Records
<1>1. Interrupted(r).status = "paused"
  BY <1>0 DEF Interrupted, BatchRecord
<1>2. batch'[b] # Interrupted(r)
  BY <1>1
<1>3. CASE batch'[b] = Write(r, Head(queue).op)
  <2>1. Cancelled(r).status = "cancelled" /\ [r EXCEPT !.status = "prepared"].status = "prepared"
    BY <1>0 DEF Cancelled, BatchRecord
  <2>2. r.status \notin {"absent", "running", "completed"} =>
           Retried(r).status \in {"prepared", "paused", "cancelled"}
    BY <1>0, RetriedValid
  <2> QED  BY <1>2, <1>3, <2>1, <2>2 DEF Write
<1>4. CASE batch'[b] = Outcomed(b)
  <2>1. \A i : [r EXCEPT !.items[i] = "completed"].status = r.status
    BY <1>0 DEF BatchRecord
  <2> QED  BY <1>2, <1>4, <2>1 DEF Outcomed
<1> QED  BY <1>0, <1>2, <1>3, <1>4, RecordFate

\* A section leaves the queue by being served.
LEMMA SectionServed ==
    ASSUME TypeOK, [Next]_vars, ~Down, NEW s, Has(queue, s), ~Has(queue', s)
    PROVE  queue # <<>> /\ Head(queue) = s /\ (ServeDrain \/ \E c \in Batches : Serve(c))
<1>1. PICK d \in {0, 1}, N \in SUBSET Sections :
         /\ MovesOn(queue, queue', d, N)
         /\ d = 1 => queue # <<>> /\ (ServeDrain \/ \E c \in Batches : Serve(c))
  BY QueueShift DEF QueueStep
<1>2. PICK k \in 1 .. Len(queue) : queue[k] = s
  BY DEF Has
<1>3. k \notin 1 + d .. Len(queue)
  BY <1>1, <1>2 DEF MovesOn, Has
<1>4. d = 1 /\ k = 1
  BY <1>2, <1>3
<1> QED  BY <1>1, <1>2, <1>4, Served DEF TypeOK

\* A run that close() has not detached stops its batch when it ends.
LEMMA EndStops ==
    ASSUME TypeOK, OneAtATime, Records, "store" \notin Faults, NEW b \in Batches, Ends(b),
           ~run[b].detached
    PROVE  batch'[b].status # "running"
<1>0. /\ run \in [Batches -> RunRecord] /\ batch \in [Batches -> BatchRecord]
      /\ Valid(batch[b]) /\ run'[b].at = "none"
  BY DEF TypeOK, Records, Ends, EndRun, NoRun
<1>1. Interrupted(batch[b]).status = "paused"
  BY <1>0 DEF Interrupted, BatchRecord
<1>2. ~Top(b)
  BY <1>0 DEF Top, Moves, RunRecord
<1>3. ~SkipRead(b) /\ ~Return(b)
  BY <1>0 DEF SkipRead, Return, Outcome, RunRecord
<1>4. CASE ServeBegin(b)
  <2>1. CASE batch[b].status = "running" /\ \E i \in Items : batch[b].items[i] = "pending"
    BY <1>0, <1>4, <2>1 DEF ServeBegin, RunRecord
  <2>2. CASE batch[b].status = "running" /\ batch' = [batch EXCEPT ![b].status = Settled(batch[b])]
    BY <1>0, <2>2 DEF Settled, BatchRecord
  <2>3. CASE batch[b].status # "running" /\ batch' = batch
    BY <2>3
  <2> QED  BY <1>4, <2>1, <2>2, <2>3 DEF ServeBegin
<1>5. CASE ServeRecord(b)
  <2>1. batch' = [batch EXCEPT ![b] = Outcomed(b)] /\ run[b].outcome = "cancelled"
    <3>1. CASE run[b].outcome # "cancelled" /\ Moves(b, "top")
      BY <1>0, <3>1 DEF Moves, RunRecord
    <3>2. CASE UNCHANGED run
      <4>1. Owned(b)
        <5>1. run[b].at = "section"
          BY <1>5, NothingQueued DEF ServeRecord, OwnOps
        <5> QED  BY <5>1
      <4> QED  BY <1>0, <3>2, <4>1
    <3> QED  BY <1>5, <3>1, <3>2 DEF ServeRecord
  <2>2. Outcomed(b) = IF batch[b].status = "running" THEN Interrupted(batch[b]) ELSE batch[b]
    BY <2>1 DEF Outcomed
  <2> QED  BY <1>0, <1>1, <2>1, <2>2
<1>6. CASE ServeInterrupt(b)
  BY <1>0, <1>1, <1>6 DEF ServeInterrupt
<1> QED  BY <1>2, <1>3, <1>4, <1>5, <1>6 DEF Ends

\* Every step keeps a running record backed by a run that will settle it.
LEMMA BackedStep ==
    ASSUME TypeOK, OneAtATime, Records, Barrier, Draining, Backed, [Next]_vars
    PROVE  Backed'
<1> SUFFICES ASSUME "store" \notin Faults, phase' \notin Gone,
                    NEW b \in Batches, batch'[b].status = "running",
                    ~Has(queue', Section("detach", b))
             PROVE  run'[b].at # "none" /\ ~run'[b].detached
  BY DEF Backed
<1>0. /\ run \in [Batches -> RunRecord] /\ batch \in [Batches -> BatchRecord]
      /\ queue \in Seq(Sections) /\ batch[b] \in BatchRecord
  BY DEF TypeOK
<1>1. ~Down
  BY DEF Down, Gone
<1>2. CASE Claims(b)
  <2>1. phase = "open" /\ ~run[b].detached
    BY <1>2 DEF Claims, Draining, Late
  <2>2. CASE ~Owned(b)
    <3>1. run'[b].at # "none"
      BY <1>0, <1>2, <2>2 DEF Claims, ServeStart, ServeAbortedStart, Claimed, NoRun
    <3> QED  BY <2>2, <3>1, RunMoves
  <2>3. CASE Owned(b)
    <3>1. run' = run \/ run' = [run EXCEPT ![b].cancelled = TRUE]
      BY <1>2, <2>3 DEF Claims, ServeStart, ServeAbortedStart, Claimed
    <3> QED  BY <1>0, <2>1, <2>3, <3>1 DEF RunRecord
  <2> QED  BY <2>2, <2>3
<1>3. CASE ~Claims(b)
  <2>1. batch[b].status = "running" /\ batch'[b] # Interrupted(batch[b])
    BY <1>3, RunningFate
  <2>2. phase \notin Gone
    BY <1>1, <2>1, PhaseFate, InStage DEF Gone, Open, Detach
  <2>3. CASE Has(queue, Section("detach", b))
    <3>1. Head(queue) = Section("detach", b) /\ (ServeDrain \/ \E c \in Batches : Serve(c))
      BY <1>1, <2>3, SectionServed
    <3>2. Head(queue).op = "detach" /\ Head(queue).batch = b /\ Drain.op # "detach"
      BY <3>1 DEF Section, Drain
    <3>3. ServeDetach(b)
      <4>1. Serve(b)
        BY <3>1, <3>2 DEF ServeDrain, Serve
      <4> QED  BY <3>2, <4>1 DEF Serve, ServeCall, ServeStart, ServeAbortedStart, ServeAbort, DropSection,
               ServeBegin, ServeRecord, FailSection, ServeInterrupt, Section
    <3> QED  BY <1>0, <2>1, <3>3 DEF ServeDetach
  <2>4. CASE Owned(b) /\ ~run[b].detached
    <3>1. run'[b].at # "none"
      <4>1. ~Ends(b)
        BY <2>4, EndStops
      <4> QED  BY <1>1, <2>4, <4>1, RunMoves
    <3>2. ~(Detach /\ b = Head(leaving))
      <4>1. Detach /\ b = Head(leaving) => queue' = Append(queue, Section("detach", b))
        BY <2>4 DEF Detach, Enqueue
      <4>2. Section("detach", b) \in Sections
        BY DEF Section, Sections, Ops
      <4>3. Has(Append(queue, Section("detach", b)), Section("detach", b))
        BY <1>0, <4>2, HasMoves
      <4> QED  BY <4>1, <4>3
    <3> QED  BY <1>3, <2>4, <3>1, <3>2, RunMoves
  <2> QED  BY <2>1, <2>2, <2>3, <2>4 DEF Backed
<1> QED  BY <1>2, <1>3

\* So the stored status is backed in every state.
LEMMA TruthHolds == Spec => [](TypeOK /\ OneAtATime /\ Records /\ Barrier /\ Draining /\ Backed)
<1> DEFINE Truth == TypeOK /\ OneAtATime /\ Records /\ Barrier /\ Draining /\ Backed
<1>1. Init => Truth
  <2>1. Init => Backed
    BY DEF Init, Backed, Gone
  <2> QED  BY <2>1, InitType, InitInOrder, InitRecords, InitBarrier, InitDraining
<1>2. Truth /\ [Next]_vars => Truth'
  BY InvariantStep, RecordsStep, BarrierStep, DrainingStep, BackedStep
<1> HIDE DEF Truth
<1>3. Spec => []Truth
  BY <1>1, <1>2, PTL DEF Spec
<1> QED  BY <1>3 DEF Truth

\* What is stored of a run is true while the store accepts its writes: a batch
\* stored as running has a live run, an item stored in flight is the one its run
\* is at, and a closed service leaves no batch running, however claims, cancels,
\* aborted starts, outcomes and the stages of close() interleave.
THEOREM StoredTruth == Spec => []StatusTruthful
<1> SUFFICES ASSUME TypeOK, Records, Barrier, Draining, Backed  PROVE StatusTruthful
  BY TruthHolds, PTL
<1>1. \A b \in Batches : Has(queue, Section("detach", b)) => phase = "interrupting"
  BY DEF Has, Section, Barrier
<1>2. RunningIsOwned
  BY <1>1 DEF RunningIsOwned, Backed, Gone
<1>3. InFlightTruth
  BY <1>2 DEF InFlightTruth, RunningIsOwned, Records, Flight, Valid, Resting
<1>4. ClosedIsTruthful
  <2> SUFFICES ASSUME phase = "closed", "store" \notin Faults, NEW b \in Batches,
                      batch[b].status = "running"
               PROVE  FALSE
    BY DEF ClosedIsTruthful
  <2>1. Owned(b) /\ ~run[b].detached
    BY <1>1 DEF Backed, Gone
  <2>2. Listed(leaving, b) /\ leaving = <<>>
    BY <2>1 DEF Draining, Late
  <2> QED  BY <2>2 DEF Listed
<1> QED  BY <1>2, <1>3, <1>4 DEF StatusTruthful

-----------------------------------------------------------------------------
(* The runs follow what is stored                                          *)

\* The next section of the run of b comes behind the k-th one.
Ahead(b, k) ==
    \/ run[b].at = "top"
    \/ \E l \in k + 1 .. Len(queue) : queue[l] \in {Section("begin", b), Section("interrupt", b)}

\* The platform is asked, or it answered and its snapshot is to be recorded.
Reading(b) ==
    \/ run[b].at = "reading"
    \/ run[b].at = "section" /\ run[b].outcome = "completed" /\ Has(queue, Section("record", b))

\* A section that can stop the batch of a run is served before the run looks for
\* an item, or the run knows of it and reads nothing more; a retry never meets a
\* run that is at an item.
Ordered == \A b \in Batches, k \in 1 .. Len(queue) :
    Owned(b) =>
       /\ queue[k] = Section("cancel", b) => run[b].cancelled \/ Ahead(b, k)
       /\ queue[k] = Section("retry", b) => Ahead(b, k)
       /\ queue[k] = Section("abort", b) => Ahead(b, k) \/ (run[b].cancelled /\ ~Reading(b))

CheckLive == \A b \in Batches :
    run[b].at = "check" /\ ~run[b].cancelled =>
       batch[b].status = "running" /\ batch[b].items[run[b].item] = "running"

Recordable(b) ==
    \/ batch[b].status = "running" /\ batch[b].items[run[b].item] = "running"
    \/ batch[b].status = "cancelled" /\ batch[b].items[run[b].item] = "cancelled"

\* What a read commits can be recorded until close() gives the run up.
ReadLive == \A b \in Batches :
    phase \in {"open", "draining"} /\ Reading(b) => Recordable(b)

CommittedDone == \A b \in Batches, i \in Items :
    "store" \notin Faults /\ phase \in {"open", "draining"} /\ <<b, i>> \in committed =>
       \/ batch[b].items[i] = "completed"
       \/ Reading(b) /\ run[b].at = "section" /\ run[b].item = i

\* A run reads after a step only from its own section or from a read before it.
LEMMA ReadingFate ==
    ASSUME TypeOK, OneAtATime, [Next]_vars, NEW b \in Batches, Reading(b)'
    PROVE  Owned(b) /\ (Reading(b) \/ Read(b) \/ Return(b))
<1>0. queue \in Seq(Sections)
  BY DEF TypeOK
<1>1. \A op : Section(op, b).op = op /\ Section(op, b).batch = b
  BY DEF Section
<1>2. Has(queue, Section("record", b)) => run[b].at = "section"
  BY <1>1 DEF Has, OneAtATime, Awaited, OwnOps
<1>3. Has(queue', Section("record", b)) =>
         Has(queue, Section("record", b)) \/ SkipRead(b) \/ Return(b)
  BY <1>1, QueueFate DEF QueueSteps, Section, Drain
<1>4. run'[b].at # "none" /\ ~(run'[b].at = "top")
  BY DEF Reading
<1>5. SkipRead(b) => run[b].at = "check"
  BY DEF SkipRead
<1>6. ~(Claims(b) /\ ~Owned(b) /\ run'[b].outcome = "cancelled" /\ run'[b].at \in {"top", "section"})
  BY DEF Reading
<1>7. Top(b) => run[b].at = "top"
  BY DEF Top
<1> QED  BY <1>2, <1>3, <1>4, <1>5, <1>6, <1>7, RunMoves DEF Reading

\* Every step keeps the sections that can stop a run ahead of its next item.
LEMMA OrderedStep ==
    ASSUME TypeOK, OneAtATime, ReadLive, Ordered, [Next]_vars
    PROVE  Ordered'
<1> SUFFICES ASSUME NEW b \in Batches, NEW k \in 1 .. Len(queue'), run'[b].at # "none"
             PROVE  /\ queue'[k] = Section("cancel", b) => run'[b].cancelled \/ Ahead(b, k)'
                    /\ queue'[k] = Section("retry", b) => Ahead(b, k)'
                    /\ queue'[k] = Section("abort", b) =>
                         Ahead(b, k)' \/ (run'[b].cancelled /\ ~Reading(b)')
  BY DEF Ordered
<1>0. /\ queue \in Seq(Sections) /\ run \in [Batches -> RunRecord] /\ Len(queue) \in Nat
      /\ \A op, c : Section(op, c).op = op /\ Section(op, c).batch = c
  BY LenProperties DEF TypeOK, Section
<1>1. ~Down
  BY DEF Down, NoRun
<1>2. PICK d \in {0, 1}, N \in SUBSET Sections :
         MovesOn(queue, queue', d, N) /\ \A s \in N : QueueSteps(s)
  BY <1>1, QueueShift DEF QueueStep
<1>3. ASSUME queue'[k] \in N
      PROVE  /\ queue'[k] = Section("cancel", b) => run'[b].cancelled
             /\ queue'[k] # Section("retry", b)
             /\ queue'[k] = Section("abort", b) => run'[b].cancelled /\ ~Reading(b)'
  <2>1. QueueSteps(queue'[k])
    BY <1>2, <1>3
  <2>2. queue'[k] = Section("cancel", b) => CallCancel(b)
    BY <1>0, <2>1 DEF QueueSteps, Drain
  <2>3. CallCancel(b) => run'[b].cancelled
    BY <1>0 DEF CallCancel, RunRecord
  <2>4. queue'[k] # Section("retry", b)
    BY <1>0, <2>1 DEF QueueSteps, Drain
  <2>5. ASSUME queue'[k] = Section("abort", b)
        PROVE  run'[b].cancelled /\ ~Reading(b)'
    <3>1. ServeAbortedStart(b) /\ Claims(b)
      BY <1>0, <2>1, <2>5 DEF QueueSteps, Drain
    <3>2. CASE ~Owned(b)
      <4>1. ~Reading(b)'
        BY <3>2, ReadingFate
      <4> QED  BY <3>1, <3>2, <4>1, RunMoves
    <3>3. CASE Owned(b)
      <4>1. run'[b].cancelled
        BY <1>0, <3>1, <3>3 DEF ServeAbortedStart, Claims, RunRecord
      <4>2. ~Reading(b)
        BY <3>1 DEF Claims, ReadLive, Recordable
      <4>3. run'[b].at = run[b].at
        BY <1>0, <3>1, <3>3 DEF ServeAbortedStart, Claims, RunRecord
      <4>4. ~Read(b)
        BY <1>0, <4>3 DEF Read, Moves, RunRecord
      <4>5. ~Return(b)
        BY <4>2 DEF Return, Reading
      <4> QED  BY <4>1, <4>2, <4>4, <4>5, ReadingFate
    <3> QED  BY <3>2, <3>3
  <2> QED  BY <2>2, <2>3, <2>4, <2>5
<1>4. ASSUME k + d \in 1 .. Len(queue), queue'[k] = queue[k + d], Owned(b), Ahead(b, k + d)
      PROVE  Ahead(b, k)'
  <2>1. ASSUME NEW l \in k + d + 1 .. Len(queue),
               queue[l] \in {Section("begin", b), Section("interrupt", b)}
        PROVE  Ahead(b, k)'
    <3>1. l \in 1 + d .. Len(queue) /\ l - d \in k + 1 .. Len(queue)
      BY <1>0
    <3>2. l - d \in 1 .. Len(queue') /\ queue'[l - d] = queue[l]
      BY <1>2, <3>1 DEF MovesOn
    <3> QED  BY <2>1, <3>1, <3>2 DEF Ahead
  <2>2. ASSUME run[b].at = "top", run'[b].at # "top"
        PROVE  Ahead(b, k)'
    <3>1. ~ServeBegin(b) /\ ~ServeRecord(b) /\ ~SkipRead(b) /\ ~Read(b) /\ ~Return(b)
      BY <2>2, NothingQueued DEF ServeBegin, ServeRecord, SkipRead, Read, Return, OwnOps
    <3>2. Top(b) /\ run'[b].at = "section"
      BY <1>4, <2>2, <3>1, RunMoves
    <3>3. PICK s \in {Section("begin", b), Section("interrupt", b)} : queue' = Append(queue, s)
      BY <1>0, <3>2 DEF Top, EndRun, NoRun, Enqueue
    <3>4. s \in Sections
      BY DEF Section, Sections, Ops
    <3>5. Len(queue') = Len(queue) + 1 /\ queue'[Len(queue) + 1] = s
      BY <1>0, <3>3, <3>4, Queued
    <3>6. Len(queue) + 1 \in k + 1 .. Len(queue')
      BY <1>0, <1>4, <3>5
    <3> QED  BY <3>3, <3>5, <3>6 DEF Ahead
  <2> QED  BY <1>4, <2>1, <2>2 DEF Ahead
<1>5. ASSUME k + d \in 1 .. Len(queue), queue'[k] = queue[k + d], Owned(b)
      PROVE  /\ queue'[k] = Section("cancel", b) => run'[b].cancelled \/ Ahead(b, k)'
             /\ queue'[k] = Section("retry", b) => Ahead(b, k)'
             /\ queue'[k] = Section("abort", b) =>
                  Ahead(b, k)' \/ (run'[b].cancelled /\ ~Reading(b)')
  <2>1. run[b].cancelled => run'[b].cancelled
    BY <1>5, RunMoves
  <2>2. run[b].cancelled /\ ~Reading(b) => ~Reading(b)'
    BY ReadingFate DEF Read, Return, Reading
  <2> QED  BY <1>4, <1>5, <2>1, <2>2 DEF Ordered
<1>6. ASSUME k + d \in 1 .. Len(queue), ~Owned(b),
             queue'[k] \in {Section("cancel", b), Section("retry", b), Section("abort", b)}
      PROVE  Ahead(b, k)'
  <2>1. CASE run'[b].at = "top"
    BY <2>1 DEF Ahead
  <2>2. CASE run'[b].at # "top"
    <3>1. ServeAbortedStart(b) /\ Claims(b) /\ run'[b].at = "section"
      BY <1>6, <2>2, RunMoves
    <3>2. /\ queue # <<>>
          /\ queue' = Append(Append(Tail(queue), Section("begin", b)), Section("abort", b))
      BY <1>0, <1>6, <3>1 DEF ServeAbortedStart, Claims, NoRun
    <3>3. Section("begin", b) \in Sections /\ Section("abort", b) \in Sections
      BY DEF Section, Sections, Ops
    <3>4. /\ Tail(queue) \in Seq(Sections) /\ Len(Tail(queue)) = Len(queue) - 1
          /\ Append(Tail(queue), Section("begin", b)) \in Seq(Sections)
      BY <1>0, <3>2, <3>3, Served, Queued
    <3>5. /\ Len(Append(Tail(queue), Section("begin", b))) = Len(queue)
          /\ Append(Tail(queue), Section("begin", b))[Len(queue)] = Section("begin", b)
          /\ Len(queue) \in Nat \ {0}
      BY <1>0, <3>2, <3>3, <3>4, Queued, Served
    <3>6. /\ Len(queue') = Len(queue) + 1 /\ queue'[Len(queue)] = Section("begin", b)
      <4> DEFINE q == Append(Tail(queue), Section("begin", b))
      <4>1. q \in Seq(Sections) /\ Len(q) = Len(queue) /\ q[Len(queue)] = Section("begin", b)
            /\ queue' = Append(q, Section("abort", b)) /\ Len(queue) \in 1 .. Len(q)
        BY <3>2, <3>4, <3>5
      <4> HIDE DEF q
      <4> QED  BY <3>3, <4>1, Queued
    <3>7. k # Len(queue)
      BY <1>0, <1>6, <3>6
    <3>8. Len(queue) \in k + 1 .. Len(queue')
      <4>1. k \in Int /\ k <= Len(queue) /\ Len(queue) \in Int
        BY <1>0, <1>2, <1>6
      <4>2. k + 1 <= Len(queue)
        BY <3>7, <4>1
      <4>3. Len(queue') \in Int /\ Len(queue) <= Len(queue')
        BY <3>6, <4>1
      <4> QED  BY <4>1, <4>2, <4>3
    <3> QED  BY <3>6, <3>8 DEF Ahead
  <2> QED  BY <2>1, <2>2
<1> QED  BY <1>2, <1>3, <1>5, <1>6 DEF MovesOn

\* At an item, the run has queued neither its next look nor its way out.
LEMMA NothingAhead ==
    ASSUME TypeOK, OneAtATime, NEW b \in Batches, run[b].at = "check" \/ Reading(b)
    PROVE  /\ \A l \in 1 .. Len(queue) : queue[l] \notin {Section("begin", b), Section("interrupt", b)}
           /\ Owned(b) /\ ~ServeBegin(b) /\ ~ServeInterrupt(b)
<1>0. /\ queue \in Seq(Sections)
      /\ \A op : Section(op, b).op = op /\ Section(op, b).batch = b
  BY DEF TypeOK, Section
<1>1. ASSUME NEW l \in 1 .. Len(queue), queue[l] \in {Section("begin", b), Section("interrupt", b)}
      PROVE  FALSE
  <2>1. queue[l].op \in {"begin", "interrupt"} /\ run[b].at = "section"
    BY <1>0, <1>1 DEF OneAtATime, Awaited, OwnOps
  <2>2. PICK m \in 1 .. Len(queue) : queue[m] = Section("record", b)
    BY <2>1 DEF Reading, Has
  <2>3. queue[m].op = "record"
    BY <1>0, <2>2
  <2>4. l = m
    BY <2>1, <2>3 DEF OneAtATime, Awaited, OwnOps
  <2> QED  BY <2>1, <2>3, <2>4
<1>2. queue # <<>> => Head(queue) = queue[1] /\ 1 \in 1 .. Len(queue)
  BY <1>0, Served
<1> QED  BY <1>1, <1>2 DEF ServeBegin, ServeInterrupt, Reading

\* Behind a run at an item no section stops or retries its batch unknown to it.
LEMMA ItemKept ==
    ASSUME TypeOK, OneAtATime, Barrier, Draining, Ordered, [Next]_vars, NEW b \in Batches,
           \/ run[b].at = "check" /\ ~run[b].cancelled
           \/ Reading(b) /\ phase \in {"open", "draining"},
           batch[b].status \in {"running", "cancelled"}, ~ServeRecord(b)
    PROVE  \/ batch'[b] = batch[b]
           \/ Reading(b) /\ batch[b].status = "running" /\ batch'[b] = Cancelled(batch[b])
<1>0. /\ queue \in Seq(Sections) /\ Owned(b) /\ ~ServeBegin(b) /\ ~ServeInterrupt(b)
      /\ \A l \in 1 .. Len(queue) : queue[l] \notin {Section("begin", b), Section("interrupt", b)}
      /\ run[b].at # "top"
  BY NothingAhead DEF TypeOK, Reading
<1>1. ~Ahead(b, 1)
  BY <1>0 DEF Ahead
<1>2. queue # <<>> => Head(queue) = queue[1] /\ 1 \in 1 .. Len(queue) /\ Head(queue) \in Sections
  BY <1>0, Served
<1>3. ~ServeAbort(b)
  BY <1>0, <1>1, <1>2 DEF ServeAbort, Ordered
<1>4. ~ServeDetach(b)
  BY <1>0, InStage DEF Draining, Late
<1>5. ~Recover(b)
  BY <1>0 DEF Recover, Draining, Gone
<1>6. ~Interrupts(b)
  BY <1>0, <1>3, <1>4, <1>5 DEF Interrupts
<1>7. ~(batch[b].status \in {"prepared", "paused"}) /\ ~Claims(b)
  BY DEF Claims
<1>8. ASSUME ServeCall(b), batch'[b] = Write(batch[b], Head(queue).op)
      PROVE  \/ batch'[b] = batch[b]
             \/ Reading(b) /\ batch[b].status = "running" /\ batch'[b] = Cancelled(batch[b])
  <2>1. queue # <<>> /\ Head(queue).batch = b /\ Head(queue).op \in {"prepare", "cancel", "retry"}
    BY <1>8 DEF ServeCall
  <2>2. \A s \in Sections : s.op # "drain" => s = Section(s.op, s.batch)
    BY DEF Sections, Section, Drain
  <2>3. Head(queue) = Section(Head(queue).op, b)
    BY <1>2, <2>1, <2>2
  <2>4. Head(queue).op # "retry"
    BY <1>0, <1>1, <1>2, <2>1, <2>3 DEF Ordered
  <2>5. Head(queue).op = "cancel" => run[b].cancelled
    BY <1>0, <1>1, <1>2, <2>1, <2>3 DEF Ordered
  <2> QED  BY <1>8, <2>1, <2>4, <2>5 DEF Write
<1> QED  BY <1>0, <1>6, <1>7, <1>8, RecordFate

\* Every step keeps the item of a run that checks it running.
LEMMA CheckStep ==
    ASSUME TypeOK, OneAtATime, Barrier, Draining, Ordered, CheckLive, [Next]_vars
    PROVE  CheckLive'
<1> SUFFICES ASSUME NEW b \in Batches, run'[b].at = "check", ~run'[b].cancelled
             PROVE  batch'[b].status = "running" /\ batch'[b].items[run'[b].item] = "running"
  BY DEF CheckLive
<1>0. batch \in [Batches -> BatchRecord] /\ run \in [Batches -> RunRecord]
  BY DEF TypeOK
<1>1. CASE run[b].at = "check" /\ ~ServeBegin(b)
  <2>1. ~run[b].cancelled /\ run'[b].item = run[b].item
    BY <1>1, RunMoves
  <2>2. batch[b].status = "running" /\ batch[b].items[run[b].item] = "running"
    BY <1>1, <2>1 DEF CheckLive
  <2>3. ~Reading(b) /\ ~ServeRecord(b)
    BY <1>1, NothingQueued DEF Reading, ServeRecord, OwnOps
  <2> QED  BY <1>1, <2>1, <2>2, <2>3, ItemKept
<1>2. CASE ServeBegin(b)
  <2> DEFINE i == FirstPending(batch[b])
  <2>1. /\ batch' = [batch EXCEPT ![b].items[i] = "running"]
        /\ run' = [run EXCEPT ![b].at = "check", ![b].item = i]
        /\ batch[b].status = "running" /\ \E k \in Items : batch[b].items[k] = "pending"
    BY <1>0, <1>2 DEF ServeBegin, EndRun, NoRun
  <2>2. i \in Items
    BY <1>0, <2>1, PickedPending
  <2> HIDE DEF i
  <2>3. run'[b].item = i
    BY <1>0, <2>1 DEF RunRecord
  <2> QED  BY <1>0, <2>1, <2>2, <2>3 DEF BatchRecord
<1> QED  BY <1>1, <1>2, RunMoves

\* Once its outcome is recorded, or given up, a run is no longer reading.
LEMMA RecordedOnce ==
    ASSUME TypeOK, OneAtATime, NEW b \in Batches, ServeRecord(b)
    PROVE  ~Reading(b)'
<1>0. /\ run \in [Batches -> RunRecord] /\ queue \in Seq(Sections)
      /\ queue # <<>> /\ run[b].at = "section" /\ NoOwn(Tail(queue))
      /\ \A op : Section(op, b).op = op
  BY NothingQueued DEF TypeOK, ServeRecord, OwnOps, Section
<1>1. CASE EndRun(b) \/ Moves(b, "top")
  BY <1>0, <1>1 DEF EndRun, Moves, NoRun, Reading, RunRecord
<1>2. CASE queue' = Append(Tail(queue), Section("interrupt", b)) /\ UNCHANGED run
  <2>1. ~Has(Tail(queue), Section("record", b))
    BY <1>0 DEF NoOwn, Has, OwnOps
  <2>2. Section("interrupt", b) \in Sections /\ Tail(queue) \in Seq(Sections)
    BY <1>0, Served DEF Section, Sections, Ops
  <2>3. Section("interrupt", b) # Section("record", b)
    BY <1>0
  <2>4. ~Has(Append(Tail(queue), Section("interrupt", b)), Section("record", b))
    BY <2>1, <2>2, <2>3, HasMoves
  <2> QED  BY <1>0, <1>2, <2>4 DEF Reading
<1> QED  BY <1>1, <1>2 DEF ServeRecord

\* Every step keeps what a read commits recordable.
LEMMA ReadStep ==
    ASSUME TypeOK, OneAtATime, Barrier, Draining, Ordered, CheckLive, ReadLive, [Next]_vars
    PROVE  ReadLive'
<1> SUFFICES ASSUME NEW b \in Batches, phase' \in {"open", "draining"}, Reading(b)'
             PROVE  Recordable(b)'
  BY DEF ReadLive
<1>0. batch \in [Batches -> BatchRecord] /\ run \in [Batches -> RunRecord]
  BY DEF TypeOK
<1>1. Owned(b) /\ (Reading(b) \/ Read(b) \/ Return(b))
  BY ReadingFate
<1>2. phase \in {"open", "draining"}
  <2>1. phase # "recovering"
    BY <1>1 DEF Draining, Gone
  <2>2. Down => FALSE
    BY DEF Down
  <2> QED  BY <2>1, <2>2, PhaseFate DEF Detach
<1>3. CASE Read(b)
  <2>1. run'[b].item = run[b].item /\ UNCHANGED batch /\ run[b].at = "check" /\ ~run[b].cancelled
    BY <1>0, <1>3 DEF Read, Moves, RunRecord
  <2> QED  BY <2>1 DEF CheckLive, Recordable
<1>4. CASE Reading(b) /\ ~Read(b)
  <2>1. run'[b].item = run[b].item /\ Recordable(b)
    <3>1. ~ServeBegin(b)
      BY <1>4, NothingAhead
    <3>2. run'[b].at # "none"
      BY DEF Reading
    <3> QED  BY <1>1, <1>2, <1>4, <3>1, <3>2, RunMoves DEF ReadLive
  <2>2. ~ServeRecord(b)
    BY RecordedOnce
  <2>3. \/ batch'[b] = batch[b]
        \/ batch[b].status = "running" /\ batch'[b] = Cancelled(batch[b])
    BY <1>2, <1>4, <2>1, <2>2, ItemKept DEF Recordable
  <2>4. run[b].item \in Items
    BY <1>0 DEF RunRecord
  <2>5. batch[b].items[run[b].item] = "running" =>
           /\ Cancelled(batch[b]).status = "cancelled"
           /\ Cancelled(batch[b]).items[run[b].item] = "cancelled"
    BY <1>0, <2>4 DEF Cancelled, BatchRecord
  <2> QED  BY <2>1, <2>3, <2>5 DEF Recordable
<1>5. Return(b) => Reading(b)
  BY DEF Return, Reading
<1> QED  BY <1>1, <1>3, <1>4, <1>5

\* An item is committed by its own return only.
LEMMA CommittedFate ==
    ASSUME TypeOK, [Next]_vars, NEW b \in Batches, NEW i \in Items, <<b, i>> \in committed'
    PROVE  <<b, i>> \in committed \/ (Return(b) /\ run[b].item = i /\ Outcome(b, "completed"))
<1>1. ASSUME NEW c \in Batches, Return(c)
      PROVE  <<b, i>> \in committed \/ (Return(b) /\ run[b].item = i /\ Outcome(b, "completed"))
  BY <1>1 DEF Return
<1>2. CASE Down
  BY <1>2 DEF Down
<1>3. CASE ~Down /\ \A c \in Batches : ~Return(c)
  <2>1. UNCHANGED committed
    BY <1>3 DEF Next, Calls, Call, CallCancel, Serve, ServeCall, ServeStart, ServeAbortedStart,
       ServeAbort, DropSection, ServeBegin, ServeRecord, FailSection, ServeInterrupt, ServeDetach,
       Work, Top, SkipRead, Read, Close, Disposal, ServeDrain, StopWaiting, Detach, Closed,
       Activation, Activate, Open, Recover, vars
  <2> QED  BY <2>1
<1> QED  BY <1>1, <1>2, <1>3

\* Every step keeps a committed item completed, or in the section that completes it.
LEMMA CommittedStep ==
    ASSUME TypeOK, OneAtATime, Records, Barrier, Draining, Ordered, ReadLive, CommittedDone,
           [Next]_vars
    PROVE  CommittedDone'
<1> SUFFICES ASSUME "store" \notin Faults, phase' \in {"open", "draining"},
                    NEW b \in Batches, NEW i \in Items, <<b, i>> \in committed'
             PROVE  \/ batch'[b].items[i] = "completed"
                    \/ Reading(b)' /\ run'[b].at = "section" /\ run'[b].item = i
  BY DEF CommittedDone
<1>0. /\ batch \in [Batches -> BatchRecord] /\ run \in [Batches -> RunRecord]
      /\ queue \in Seq(Sections) /\ Valid(batch[b])
  BY DEF TypeOK, Records
<1>1. ~Down
  BY DEF Down
<1>2. CASE Return(b) /\ run[b].item = i /\ Outcome(b, "completed")
  <2>1. phase \in {"open", "draining"}
    BY <1>2 DEF Return
  <2>2. ~run[b].detached
    BY <2>1 DEF Draining, Late
  <2>3. /\ run' = [run EXCEPT ![b].at = "section", ![b].outcome = "completed"]
        /\ queue' = Append(queue, Section("record", b))
    BY <1>2, <2>2 DEF Outcome, Enqueue
  <2>4. run'[b].at = "section" /\ run'[b].outcome = "completed" /\ run'[b].item = i
    BY <1>0, <1>2, <2>3 DEF RunRecord
  <2>5. Section("record", b) \in Sections
    BY DEF Section, Sections, Ops
  <2>6. Has(Append(queue, Section("record", b)), Section("record", b))
    BY <1>0, <2>5, HasMoves
  <2> QED  BY <2>3, <2>4, <2>6 DEF Reading
<1>3. CASE <<b, i>> \in committed
  <2>1. phase \in {"open", "draining"}
    <3>1. phase # "recovering"
      BY <1>3 DEF Draining, Gone
    <3> QED  BY <1>1, <3>1, PhaseFate DEF Detach
  <2>2. CASE batch[b].items[i] = "completed"
    BY <2>2, CompletedStep
  <2>3. CASE Reading(b) /\ run[b].at = "section" /\ run[b].item = i
    <3>1. /\ Owned(b) /\ run[b].outcome = "completed" /\ Has(queue, Section("record", b))
          /\ Recordable(b) /\ ~run[b].detached /\ ~ServeBegin(b) /\ ~ServeInterrupt(b)
      BY <2>1, <2>3, NothingAhead DEF Reading, ReadLive, Draining, Late
    <3>2. CASE ServeRecord(b)
      <4>1. batch' = [batch EXCEPT ![b] = Outcomed(b)]
        BY <2>3, <3>1, <3>2 DEF ServeRecord, Recordable
      <4>2. CASE batch[b].status = "running" /\ batch[b].items[i] = "running"
        <5>1. Outcomed(b) = Recorded(batch[b], i, "completed")
          BY <2>3, <3>1, <4>2 DEF Outcomed
        <5> QED  BY <1>0, <4>1, <4>2, <5>1, RecordedValid
      <4>3. CASE batch[b].status = "cancelled" /\ batch[b].items[i] = "cancelled"
        <5>1. Outcomed(b) = [batch[b] EXCEPT !.items[i] = "completed"]
          BY <2>3, <3>1, <4>3 DEF Outcomed
        <5> QED  BY <1>0, <4>1, <5>1 DEF BatchRecord
      <4> QED  BY <2>3, <3>1, <4>2, <4>3 DEF Recordable
    <3>3. CASE ~ServeRecord(b)
      <4>1. Has(queue', Section("record", b))
        <5> SUFFICES ASSUME ~Has(queue', Section("record", b))  PROVE FALSE
          OBVIOUS
        <5>1. /\ Head(queue) = Section("record", b)
              /\ ServeDrain \/ \E c \in Batches : Serve(c)
          BY <1>1, <3>1, SectionServed
        <5>2. Head(queue).op = "record" /\ Head(queue).batch = b /\ Drain.op # "record"
          BY <5>1 DEF Section, Drain
        <5>3. Serve(b)
          BY <5>1, <5>2 DEF ServeDrain, Serve
        <5> QED  BY <3>3, <5>2, <5>3 DEF Serve, ServeCall, ServeStart, ServeAbortedStart, ServeAbort,
                 DropSection, ServeBegin, FailSection, ServeInterrupt, ServeDetach, Section
      <4>2. ~Top(b) /\ ~SkipRead(b) /\ ~Return(b) /\ ~Read(b)
        BY <2>3 DEF Top, SkipRead, Return, Read
      <4>3. ~Ends(b)
        BY <3>1, <3>3, <4>2 DEF Ends
      <4>4. run'[b].at # "none" /\ ~(Claims(b) /\ ~Owned(b))
        BY <1>1, <3>1, <4>3, RunMoves
      <4>5. run'[b].at = "section" /\ run'[b].item = i /\ run'[b].outcome = "completed"
        BY <2>3, <3>1, <3>3, <4>2, <4>4, RunMoves
      <4> QED  BY <4>1, <4>5 DEF Reading
    <3> QED  BY <3>2, <3>3
  <2> QED  BY <1>3, <2>1, <2>2, <2>3 DEF CommittedDone
<1> QED  BY <1>2, <1>3, CommittedFate

Quiet == Ordered /\ CheckLive /\ ReadLive /\ CommittedDone

\* So the four hold in every state.
LEMMA QuietHolds ==
    Spec => [](TypeOK /\ OneAtATime /\ Records /\ Barrier /\ Draining /\ Quiet)
<1> DEFINE Truth == TypeOK /\ OneAtATime /\ Records /\ Barrier /\ Draining /\ Quiet
<1>1. Init => Truth
  <2>1. Init => Quiet
    BY DEF Init, Quiet, Ordered, CheckLive, ReadLive, CommittedDone, NoRun, Reading
  <2> QED  BY <2>1, InitType, InitInOrder, InitRecords, InitBarrier, InitDraining
<1>2. Truth /\ [Next]_vars => Truth'
  BY InvariantStep, RecordsStep, BarrierStep, DrainingStep, OrderedStep, CheckStep, ReadStep,
     CommittedStep DEF Quiet
<1> HIDE DEF Truth
<1>3. Spec => []Truth
  BY <1>1, <1>2, PTL DEF Spec
<1> QED  BY <1>3 DEF Truth

\* The platform is asked only for the item the store shows in flight in a running
\* batch.
LEMMA ReadsFollow ==
    ASSUME TypeOK, OneAtATime, Quiet, [Next]_vars, NEW b \in Batches,
           run[b].at # "reading", run'[b].at = "reading"
    PROVE  /\ Read(b) /\ Owned(b) /\ run[b].at = "check" /\ ~run[b].cancelled
           /\ batch[b].status = "running" /\ batch[b].items[run[b].item] = "running"
<1>1. Read(b)
  BY RunMoves
<1> QED  BY <1>1 DEF Read, Quiet, CheckLive

\* In a closed service nothing writes: no caller's section does, and every run
\* left behind is detached.
LEMMA ClosedWrites ==
    ASSUME TypeOK, OneAtATime, Barrier, Draining, [Next]_vars, phase = "closed"
    PROVE  batch' = batch \/ phase' # "closed"
<1>0. batch \in [Batches -> BatchRecord] /\ batch' \in [Batches -> BatchRecord] /\ queue \in Seq(Sections)
  BY InvariantStep DEF TypeOK
<1>1. ASSUME NEW b \in Batches, phase' = "closed"
      PROVE  batch'[b] = batch[b]
  <2>1. Owned(b) => run[b].detached
    BY DEF Draining, Late, Listed
  <2>2. /\ ~ServeDetach(b) /\ ~Recover(b) /\ ~Claims(b)
    BY InStage DEF Recover, Claims
  <2>3. ~ServeAbort(b)
    <3>1. ServeAbort(b) => queue # <<>> /\ Head(queue).op = "abort"
      BY DEF ServeAbort, Section
    <3> QED  BY <1>0, <3>1, Served DEF Barrier
  <2>4. ServeBegin(b) \/ ServeRecord(b) \/ ServeInterrupt(b) => run[b].detached
    <3>1. ServeBegin(b) \/ ServeRecord(b) \/ ServeInterrupt(b) => run[b].at = "section"
      BY NothingQueued DEF ServeBegin, ServeRecord, ServeInterrupt, OwnOps
    <3> QED  BY <2>1, <3>1
  <2>5. ~Interrupts(b)
    BY <2>2, <2>3, <2>4 DEF Interrupts
  <2> QED  BY <2>2, <2>4, <2>5, RecordFate
<1> QED  BY <1>0, <1>1

\* The runs follow what is stored: a platform read starts only for the item the
\* store shows in flight in a running batch, is not repeated once its snapshot is
\* committed, and a closed service writes nothing, whatever cancels, retries,
\* aborted starts and late answers race.
THEOREM RunsAreQuiet == Spec => RunsQuiet
<1> DEFINE Inv == TypeOK /\ OneAtATime /\ Records /\ Barrier /\ Draining /\ Quiet
           Running == \A b \in Batches :
             run[b].at # "reading" /\ run'[b].at = "reading"
                => batch[b].status = "running" /\ batch[b].items[run[b].item] = "running"
           Fresh == \A b \in Batches :
             run[b].at # "reading" /\ run'[b].at = "reading" /\ "store" \notin Faults
                => <<b, run[b].item>> \notin committed
           Still == phase = "closed" /\ phase' = "closed" => batch' = batch
<1>1. Inv /\ [Next]_vars => Running
  BY ReadsFollow
<1>2. Inv /\ [Next]_vars => Fresh
  <2> SUFFICES ASSUME Inv, [Next]_vars, NEW b \in Batches, run[b].at # "reading",
                      run'[b].at = "reading", "store" \notin Faults
               PROVE  <<b, run[b].item>> \notin committed
    OBVIOUS
  <2>1. /\ Owned(b) /\ run[b].at = "check" /\ ~run[b].cancelled
        /\ batch[b].items[run[b].item] = "running"
    BY ReadsFollow
  <2>2. phase \in {"open", "draining"}
    BY <2>1 DEF Draining, Late, Gone, TypeOK, Phases
  <2>3. run[b].item \in Items
    BY DEF TypeOK, RunRecord
  <2> QED  BY <2>1, <2>2, <2>3 DEF Quiet, CommittedDone
<1>3. Inv /\ [Next]_vars => Still
  BY ClosedWrites
<1> HIDE DEF Inv, Running, Fresh, Still
<1>4. Spec => []Inv
  BY QuietHolds DEF Inv
<1>5. Spec => [][Running]_vars /\ [][Fresh]_vars /\ [][Still]_vars
  BY <1>1, <1>2, <1>3, <1>4, PTL DEF Spec
<1> QED  BY <1>5 DEF RunsQuiet, ReadsOnlyRunning, CommittedNotRepeated, ClosedIsQuiet,
            Running, Fresh, Still

=============================================================================
