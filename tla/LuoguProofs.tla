----------------------------- MODULE LuoguProofs -----------------------------
(***************************************************************************)
(* Proofs about the parts of MCLuogu, each alone and then in the run of    *)
(* all of them: the history and the backlog for any number of services,    *)
(* submissions and keys, the gate and the transport for any callers and    *)
(* any instants a source names, the file for any number of processes and   *)
(* versions, the bank and the reports for any problems, ratings and times. *)
(*                                                                         *)
(* The history comes first.  HistoryCovered speaks of the watermark of the *)
(* last complete scan and is about to change only when a scan ends.  Why   *)
(* it holds then is said of the scan under way: everything before its      *)
(* bound is stored (PastKnown), everything its pages passed is stored or   *)
(* fetched (CheckpointCovers, PageCovers), and the instant that becomes    *)
(* the watermark was taken before its first page was read.                 *)
(***************************************************************************)
EXTENDS MCLuogu, LuoguConnectionProofs, FiniteSetTheorems, WellFoundedInduction, TLAPS

\* Everything submitted before the instant is stored.
Covered(x) == x <= made /\ \A k \in 1 .. made : k < x => k \in stored

\* What the pages before a cursor held of their window.
Behind(cursor, since) == {k \in 1 .. cursor.count : k > cursor.count - cursor.seen /\ k >= since}

\* No instant lies ahead, and the bound of every scan is one of a complete history.
PastKnown ==
    /\ sync.scan <= made /\ sync.last <= made
    /\ Covered(checkpoint.since) /\ \A s \in Services : Covered(scanning[s].since)

\* What the unfinished scan has passed is stored.
CheckpointCovers ==
    /\ checkpoint.cursor.count <= made
    /\ Behind(checkpoint.cursor, checkpoint.since) \subseteq stored

\* What a fetched page leaves behind is stored or on the page; the last page of the owner's
\* scan reaches the instant the scan began.
PageCovered(s, p) ==
    /\ p.at = "fetched" =>
          p.next.count <= made /\ Behind(p.next, p.since) \subseteq stored \cup p.page
    /\ p.at = "fetched" /\ p.next = NoCursor /\ owner = s
          => \A k \in 1 .. made : k <= sync.scan /\ k >= p.since => k \in stored \cup p.page
    /\ p.at \in {"paging", "fetched"} /\ owner = s => sync.scan # Never

PageCovers == \A s \in Services : PageCovered(s, scanning[s])

HistoryInv == HistoryTypeOK /\ PastKnown /\ CheckpointCovers /\ PageCovers /\ HistoryCovered

Cursors == [seen : Nat, count : 0 .. MaxMade]
Syncs == [complete : BOOLEAN, scan : Instants, last : Instants, failure : Failures]
Passes(m) ==
    [at : {"idle", "paging", "fetched", "repairing", "settling"}, metadataOnly : BOOLEAN,
     mode : {"start", "continue", "restart"}, since : Bounds, page : SUBSET (1 .. m),
     next : Cursors, before : Checkpoints, prior : Failures, failed : Failures, keep : BOOLEAN]

-----------------------------------------------------------------------------
(* What the operators return                                               *)

\* Instants and bounds are integers.
LEMMA Instant == Instants \subseteq Int /\ Bounds \subseteq Int /\ Never \in Instants /\ Never \in Bounds
               /\ Instants \subseteq Bounds
  BY HistoryAssumption DEF Instants, Bounds, Never

\* The types, with the sets of records by name.
LEMMA Types ==
    HistoryTypeOK <=>
        /\ made \in 0 .. MaxMade /\ stored \subseteq 1 .. made
        /\ sync \in Syncs /\ checkpoint \in Checkpoints
        /\ owner \in Services \cup {Nobody} /\ live \in BOOLEAN
        /\ scanning \in [Services -> Passes(made)]
  BY DEF HistoryTypeOK, Syncs, Passes, Cursors

\* The types after a step.
LEMMA TypesAgain ==
    /\ made' \in 0 .. MaxMade /\ stored' \subseteq 1 .. made'
    /\ sync' \in Syncs /\ checkpoint' \in Checkpoints
    /\ owner' \in Services \cup {Nobody} /\ live' \in BOOLEAN
    /\ scanning' \in [Services -> Passes(made')]
    => HistoryTypeOK'
  BY DEF HistoryTypeOK, Syncs, Passes, Cursors

\* A pass that has not begun is a pass, and knows no bound.
LEMMA NoScanTyped == \A m \in Nat : NoScan \in Passes(m) /\ NoScan.since = Never
  <1>1. NoCursor \in Cursors BY HistoryAssumption DEF NoCursor, Cursors
  <1>2. [cursor |-> NoCursor, since |-> Never] \in Checkpoints
    BY <1>1, Instant DEF Checkpoints, Cursors
  <1> QED BY <1>1, <1>2, Instant DEF NoScan, Passes, Failures

\* Bounds and counts are integers wherever they are kept.
LEMMA Numbers ==
    /\ \A c \in Cursors : c.seen \in Nat /\ c.count \in Nat
    /\ \A c \in Checkpoints : c.cursor \in Cursors /\ c.since \in Bounds
    /\ \A m \in Nat : \A q \in Passes(m) : q.next \in Cursors /\ q.since \in Bounds
    /\ Bounds \subseteq Int
  <1>1. \A c \in Cursors : c.seen \in Nat /\ c.count \in Nat
    BY HistoryAssumption DEF Cursors
  <1>2. \A c \in Checkpoints : c.cursor \in Cursors /\ c.since \in Bounds
    BY DEF Checkpoints, Cursors
  <1>3. \A m \in Nat : \A q \in Passes(m) : q.next \in Cursors /\ q.since \in Bounds
    BY DEF Passes
  <1> QED BY <1>1, <1>2, <1>3, Instant

\* Nothing is submitted before no instant.
LEMMA NeverCovered == ASSUME made \in Nat PROVE Covered(Never)
  BY DEF Covered, Never

\* A page holds the newest rows of its window, and all of them once the reader is done.
LEMMA PageOfWindow ==
    ASSUME made \in Nat, NEW seen \in Nat, NEW since \in Int
    PROVE  LET W == Window(seen, since)
           IN  /\ NewestOf(W) \subseteq W
               /\ Done(seen, since) => NewestOf(W) = W
               /\ \A k \in W : k > made - seen - PageSize => k \in NewestOf(W)
  <1> DEFINE W == Window(seen, since)
  <1>0. PageSize \in Nat \ {0} BY HistoryAssumption
  <1>1. IsFiniteSet(1 .. made - seen)
       /\ Cardinality(1 .. made - seen) = IF 1 > made - seen THEN 0 ELSE made - seen
    BY FS_Interval
  <1>2. W \subseteq 1 .. made - seen BY DEF Window
  <1>3. IsFiniteSet(W) /\ Cardinality(W) <= Cardinality(1 .. made - seen)
    BY <1>1, <1>2, FS_Subset
  <1>4. \A k \in W : {j \in W : j >= k} \subseteq W OBVIOUS
  <1>5. \A k \in W : IsFiniteSet({j \in W : j >= k}) /\ Cardinality({j \in W : j >= k}) <= Cardinality(W)
    BY <1>3, <1>4, FS_Subset
  <1>6. Cardinality(W) \in Nat /\ \A k \in W : Cardinality({j \in W : j >= k}) \in Nat
    BY <1>3, <1>5, FS_CardinalityType
  <1>7. NewestOf(W) \subseteq W BY DEF NewestOf
  <1>8. ASSUME Done(seen, since) PROVE NewestOf(W) = W
    <2>1. Cardinality(W) <= PageSize
      <3>1. CASE Cardinality(W) < PageSize BY <3>1, <1>0, <1>6
      <3>2. CASE made - seen <= PageSize BY <3>2, <1>0, <1>1, <1>3, <1>6
      <3> QED BY <1>8, <3>1, <3>2 DEF Done
    <2>2. \A k \in W : Cardinality({j \in W : j >= k}) <= PageSize BY <2>1, <1>0, <1>5, <1>6
    <2> QED BY <2>2 DEF NewestOf
  <1>9. ASSUME NEW k \in W, k > made - seen - PageSize PROVE k \in NewestOf(W)
    <2>1. k \in Int /\ k <= made - seen BY <1>2
    <2>2. {j \in W : j >= k} \subseteq k .. made - seen BY <1>2, <2>1
    <2>3. IsFiniteSet(k .. made - seen) /\ Cardinality(k .. made - seen) = made - seen - k + 1
      BY <2>1, FS_Interval
    <2>4. Cardinality({j \in W : j >= k}) <= made - seen - k + 1
      <3> DEFINE from == {j \in W : j >= k}
                 to == k .. made - seen
      <3>1. from \in SUBSET to /\ IsFiniteSet(to) BY <2>2, <2>3
      <3> HIDE DEF from, to
      <3>2. Cardinality(from) <= Cardinality(to) BY <3>1, FS_Subset
      <3> QED BY <2>3, <3>2 DEF from, to
    <2>5. made - seen - k + 1 <= PageSize BY <1>0, <1>9, <2>1
    <2>6. Cardinality({j \in W : j >= k}) <= PageSize BY <1>0, <1>6, <2>1, <2>4, <2>5
    <2> QED BY <2>6 DEF NewestOf
  <1> QED BY <1>7, <1>8, <1>9

-----------------------------------------------------------------------------
(* The steps                                                               *)

\* The types, for a step that gives one service another pass.
LEMMA PassTypes ==
    ASSUME HistoryTypeOK, NEW s \in Services, NEW q \in Passes(made), UNCHANGED made,
           scanning' = [scanning EXCEPT ![s] = q]
    PROVE  /\ scanning' \in [Services -> Passes(made)] /\ scanning'[s] = q
           /\ \A t \in Services : t # s => scanning'[t] = scanning[t]
  BY Types

\* A service stops reading: its pass repairs, settles or ends, and no watermark moves.
LEMMA LeaveKeeps ==
    ASSUME HistoryInv, NEW s \in Services, NEW q \in Passes(made), Covered(q.since),
           q.at \notin {"paging", "fetched"}, scanning' = [scanning EXCEPT ![s] = q],
           sync' \in Syncs, sync'.complete = sync.complete, sync'.scan = sync.scan,
           sync'.last = sync.last, owner' \in {owner, Nobody}, live' \in BOOLEAN,
           UNCHANGED <<made, stored, checkpoint>>
    PROVE  HistoryInv'
  <1>1. HistoryTypeOK BY DEF HistoryInv
  <1>2. /\ scanning' \in [Services -> Passes(made)] /\ scanning'[s] = q
        /\ \A t \in Services : t # s => scanning'[t] = scanning[t]
    BY <1>1, PassTypes
  <1>3. HistoryTypeOK' BY <1>1, <1>2, Types, TypesAgain
  <1>4. PastKnown' BY <1>2 DEF HistoryInv, PastKnown, Covered
  <1>5. CheckpointCovers' BY DEF HistoryInv, CheckpointCovers, Behind
  <1>6. ASSUME NEW t \in Services PROVE PageCovered(t, scanning[t])'
    <2>1. CASE t = s BY <1>2, <2>1 DEF PageCovered
    <2>2. CASE t # s
      <3>1. PageCovered(t, scanning[t]) /\ scanning'[t] = scanning[t]
        BY <1>2, <2>2 DEF HistoryInv, PageCovers
      <3>2. owner' = t => owner = t BY SourceAssumption
      <3> QED BY <3>1, <3>2 DEF PageCovered, Behind
    <2> QED BY <2>1, <2>2
  <1>7. HistoryCovered' BY DEF HistoryInv, HistoryCovered
  <1> QED BY <1>3, <1>4, <1>5, <1>6, <1>7 DEF HistoryInv, PageCovers

\* A service claims the account: who else reads it no longer owns it.
LEMMA ClaimKeeps ==
    ASSUME HistoryInv, NEW s \in Services, NEW q \in Passes(made), Covered(q.since),
           q.at \in {"paging", "repairing"}, q.at = "paging" => sync'.scan # Never,
           scanning[s].at = "idle", Reserve(s, q),
           sync' \in Syncs, sync'.complete => sync.complete, sync'.scan <= made,
           sync'.last = sync.last
    PROVE  HistoryInv'
  <1>1. HistoryTypeOK BY DEF HistoryInv
  <1>2. /\ scanning' = [scanning EXCEPT ![s] = q] /\ owner' = s /\ live' = TRUE
        /\ UNCHANGED <<made, stored, checkpoint>>
    BY DEF Reserve
  <1>3. /\ scanning' \in [Services -> Passes(made)] /\ scanning'[s] = q
        /\ \A t \in Services : t # s => scanning'[t] = scanning[t]
    BY <1>1, <1>2, PassTypes
  <1>4. HistoryTypeOK' BY <1>1, <1>2, <1>3, Types, TypesAgain
  <1>5. PastKnown' BY <1>2, <1>3 DEF HistoryInv, PastKnown, Covered
  <1>6. CheckpointCovers' BY <1>2 DEF HistoryInv, CheckpointCovers, Behind
  <1>7. ASSUME NEW t \in Services PROVE PageCovered(t, scanning[t])'
    <2>1. CASE t = s BY <1>3, <2>1 DEF PageCovered
    <2>2. CASE t # s
      <3>1. PageCovered(t, scanning[t]) /\ scanning'[t] = scanning[t] /\ owner' # t
        BY <1>2, <1>3, <2>2 DEF HistoryInv, PageCovers
      <3> QED BY <1>2, <3>1 DEF PageCovered, Behind
    <2> QED BY <2>1, <2>2
  <1>8. HistoryCovered' BY <1>2 DEF HistoryInv, HistoryCovered
  <1> QED BY <1>4, <1>5, <1>6, <1>7, <1>8 DEF HistoryInv, PageCovers

\* A full reconciliation and a new window begin now, an unfinished scan where it began.
LEMMA ClaimsKeep ==
    ASSUME HistoryInv, NEW s \in Services,
           ClaimFull(s) \/ ClaimUnfinished(s) \/ ClaimNew(s) \/ ClaimMetadata(s)
    PROVE  HistoryInv'
  <1>1. /\ made \in 0 .. MaxMade /\ made \in Nat /\ sync \in Syncs /\ checkpoint \in Checkpoints
        /\ NoScan \in Passes(made) /\ NoScan.since = Never /\ Covered(Never)
    BY Types, NoScanTyped, NeverCovered, HistoryAssumption DEF HistoryInv
  <1>2. made \in Instants /\ made # Never /\ sync.scan \in Instants /\ sync.last \in Instants
    BY <1>1, HistoryAssumption DEF Instants, Never, Syncs
  <1>3. CASE ClaimFull(s)
    <2> DEFINE q == [NoScan EXCEPT !.at = "paging", !.mode = "restart"]
    <2>1. q \in Passes(made) /\ q.since = Never /\ q.at = "paging" BY <1>1 DEF Passes
    <2>2. sync' \in Syncs /\ ~sync'.complete /\ sync'.scan = made /\ sync'.last = sync.last
      BY <1>1, <1>2, <1>3 DEF ClaimFull, Syncs
    <2>3. Reserve(s, q) /\ scanning[s].at = "idle" BY <1>3 DEF ClaimFull, Claimable
    <2> HIDE DEF q
    <2> QED BY <1>1, <1>2, <2>1, <2>2, <2>3, ClaimKeeps
  <1>4. CASE ClaimUnfinished(s)
    <2> DEFINE q == [NoScan EXCEPT !.at = "paging", !.mode = "continue", !.since = checkpoint.since]
    <2>0. checkpoint.since \in Bounds BY <1>1 DEF Checkpoints
    <2>1. q \in Passes(made) /\ q.since = checkpoint.since /\ q.at = "paging"
      BY <1>1, <2>0 DEF Passes
    <2>2. Covered(q.since) BY <2>1 DEF HistoryInv, PastKnown
    <2>3. /\ sync' \in Syncs /\ sync'.complete = sync.complete /\ sync'.last = sync.last
          /\ sync'.scan = IF sync.scan = Never THEN made ELSE sync.scan
      BY <1>1, <1>2, <1>4 DEF ClaimUnfinished, Syncs
    <2>4. sync'.scan <= made /\ sync'.scan # Never
      BY <1>1, <1>2, <2>3 DEF HistoryInv, PastKnown
    <2>5. Reserve(s, q) /\ scanning[s].at = "idle" BY <1>4 DEF ClaimUnfinished, Claimable
    <2> HIDE DEF q
    <2> QED BY <2>1, <2>2, <2>3, <2>4, <2>5, ClaimKeeps
  <1>5. CASE ClaimNew(s)
    <2> DEFINE since == IF sync.complete THEN IncrementalSince ELSE Never
               q == [NoScan EXCEPT !.at = "paging", !.since = since]
    <2>1. since \in Bounds
      BY <1>2, HistoryAssumption DEF IncrementalSince, Instants, Bounds, Never
    <2>2. Covered(since)
      <3>1. CASE since = Never BY <3>1, <1>1
      <3>2. CASE since = sync.last - Overlap /\ sync.complete
        <4>1. sync.last <= made /\ \A k \in 1 .. made : k <= sync.last => k \in stored
          BY <3>2 DEF HistoryInv, PastKnown, HistoryCovered
        <4>2. sync.last \in Int /\ Overlap \in Nat BY <1>2, Instant, HistoryAssumption
        <4> QED BY <1>1, <3>2, <4>1, <4>2 DEF Covered
      <3> QED BY <3>1, <3>2 DEF IncrementalSince
    <2>3. q \in Passes(made) /\ q.since = since /\ q.at = "paging" BY <1>1, <2>1 DEF Passes
    <2>4. /\ sync' \in Syncs /\ sync'.complete = sync.complete /\ sync'.scan = made
          /\ sync'.last = sync.last
      BY <1>1, <1>2, <1>5 DEF ClaimNew, Syncs
    <2>5. Reserve(s, q) /\ scanning[s].at = "idle" BY <1>5 DEF ClaimNew, Claimable
    <2> HIDE DEF q, since
    <2> QED BY <1>1, <1>2, <2>2, <2>3, <2>4, <2>5, ClaimKeeps
  <1>6. CASE ClaimMetadata(s)
    <2> DEFINE q == [NoScan EXCEPT !.at = "repairing", !.metadataOnly = TRUE]
    <2>1. q \in Passes(made) /\ q.since = Never /\ q.at = "repairing" BY <1>1 DEF Passes
    <2>2. Reserve(s, q) /\ scanning[s].at = "idle" /\ sync' = sync
      BY <1>6 DEF ClaimMetadata, Claimable
    <2>3. sync.scan <= made BY DEF HistoryInv, PastKnown
    <2> HIDE DEF q
    <2> QED BY <1>1, <2>1, <2>2, <2>3, ClaimKeeps
  <1> QED BY <1>3, <1>4, <1>5, <1>6

\* Another submission is made: it lies behind no bound and no watermark.
LEMMA SubmitKeeps == ASSUME HistoryInv, Submit PROVE HistoryInv'
  <1>1. /\ made \in 0 .. MaxMade /\ made \in Nat /\ made' = made + 1 /\ made' \in 0 .. MaxMade
        /\ UNCHANGED <<stored, sync, checkpoint, owner, live, scanning>>
    BY Types, HistoryAssumption DEF HistoryInv, Submit
  <1>2. 1 .. made \subseteq 1 .. made' BY <1>1
  <1>3. sync \in Syncs /\ checkpoint \in Checkpoints /\ scanning \in [Services -> Passes(made)]
       /\ stored \subseteq 1 .. made
    BY Types DEF HistoryInv
  <1>4. Passes(made) \subseteq Passes(made')
    BY <1>2 DEF Passes
  <1>5. HistoryTypeOK' BY <1>1, <1>2, <1>3, <1>4, Types, TypesAgain DEF HistoryInv
  <1>6. sync.scan \in Int /\ sync.last \in Int /\ checkpoint.since \in Int
       /\ checkpoint.cursor.count \in Int
       /\ \A s \in Services : scanning[s].since \in Int /\ scanning[s].next.count \in Int
    <2>1. sync.scan \in Int /\ sync.last \in Int BY <1>3, Instant DEF Syncs
    <2>2. checkpoint.since \in Int /\ checkpoint.cursor.count \in Int
      <3>1. checkpoint.cursor \in Cursors /\ checkpoint.since \in Bounds BY <1>3, Numbers
      <3>2. checkpoint.cursor.count \in Nat BY <3>1, Numbers
      <3>3. checkpoint.since \in Int BY <3>1, Instant
      <3>4. checkpoint.cursor.count \in Int BY <3>2
      <3> QED BY <3>3, <3>4
    <2>3. \A q \in Passes(made) : q.since \in Int /\ q.next.count \in Int
      <3> TAKE q \in Passes(made)
      <3>1. q.next \in Cursors /\ q.since \in Bounds BY <1>1, Numbers
      <3>2. q.next.count \in Nat BY <3>1, Numbers
      <3>3. q.since \in Int BY <3>1, Instant
      <3>4. q.next.count \in Int BY <3>2
      <3> QED BY <3>3, <3>4
    <2> QED BY <1>3, <2>1, <2>2, <2>3
  <1>7. \A x \in Int : Covered(x) => Covered(x)' BY <1>1 DEF Covered
  <1>8. PastKnown' BY <1>1, <1>6, <1>7 DEF HistoryInv, PastKnown
  <1>9. CheckpointCovers' BY <1>1, <1>6 DEF HistoryInv, CheckpointCovers, Behind
  <1>10. ASSUME NEW t \in Services PROVE PageCovered(t, scanning[t])'
    <2>1. PageCovered(t, scanning[t]) BY DEF HistoryInv, PageCovers
    <2>2. \A k \in 1 .. made' : k <= sync.scan => k \in 1 .. made
      BY <1>1, <1>6 DEF HistoryInv, PastKnown
    <2> QED BY <1>1, <1>6, <2>1, <2>2 DEF PageCovered, Behind
  <1>11. HistoryCovered' BY <1>1, <1>6 DEF HistoryInv, HistoryCovered, PastKnown
  <1> QED BY <1>5, <1>8, <1>9, <1>10, <1>11 DEF HistoryInv, PageCovers

\* A page is fetched: with those before it, it holds its window up to where it ends.
LEMMA FetchKeeps == ASSUME HistoryInv, NEW s \in Services, FetchPage(s) PROVE HistoryInv'
  <1> DEFINE p == scanning[s]
             cursor == Position(p.mode)
             since == Bound(p)
             page == NewestOf(Window(cursor.seen, since))
             done == Done(cursor.seen, since)
             next == IF done THEN NoCursor ELSE [seen |-> cursor.seen + PageSize, count |-> made]
             q == [p EXCEPT !.at = "fetched", !.since = since, !.before = checkpoint,
                            !.page = page, !.next = next]
  <1>1. HistoryTypeOK BY DEF HistoryInv
  <1>2. /\ made \in 0 .. MaxMade /\ made \in Nat /\ checkpoint \in Checkpoints
        /\ p \in Passes(made) /\ PageSize \in Nat \ {0}
    BY <1>1, Types, HistoryAssumption
  <1>3. NoCursor \in Cursors /\ NoCursor.seen = 0 /\ NoCursor.count = 0
    BY HistoryAssumption DEF NoCursor, Cursors
  <1>4. cursor \in Cursors /\ cursor.seen \in Nat /\ since \in Bounds /\ since \in Int
    BY <1>2, <1>3, Numbers DEF Position, Bound
  <1>5. Covered(since) BY DEF HistoryInv, PastKnown, Bound
  <1>6. p.at = "paging" /\ (cursor = NoCursor \/ cursor.count = made)
       /\ (p.mode = "continue" => cursor = checkpoint.cursor /\ since = checkpoint.since)
       /\ (p.mode # "continue" => cursor = NoCursor)
    BY DEF FetchPage, Steady, Position, Bound
  <1>7. scanning' = [scanning EXCEPT ![s] = q]
       /\ UNCHANGED <<made, stored, sync, checkpoint, owner, live>>
    BY DEF FetchPage
  <1>8. page \subseteq Window(cursor.seen, since)
       /\ (done => page = Window(cursor.seen, since))
       /\ \A k \in Window(cursor.seen, since) : k > made - cursor.seen - PageSize => k \in page
    BY <1>2, <1>4, PageOfWindow
  <1>9. page \subseteq 1 .. made BY <1>2, <1>4, <1>8 DEF Window
  <1>10. next \in Cursors /\ (next = NoCursor <=> done)
    BY <1>2, <1>3, <1>4 DEF Cursors, NoCursor
  <1>11. q \in Passes(made) /\ q.at = "fetched" /\ q.since = since /\ q.page = page /\ q.next = next
    <2> HIDE DEF cursor, since, page, done, next
    <2> QED BY <1>2, <1>4, <1>9, <1>10 DEF Passes
  <1>12. \A k \in 1 .. made : k > made - cursor.seen /\ k >= since => k \in stored
    <2>1. CASE cursor = NoCursor BY <2>1, <1>2, <1>3
    <2>2. CASE cursor # NoCursor
      <3>1. cursor = checkpoint.cursor /\ since = checkpoint.since /\ cursor.count = made
        BY <2>2, <1>6
      <3> QED BY <3>1 DEF HistoryInv, CheckpointCovers, Behind
    <2> QED BY <2>1, <2>2
  <1>13. \A k \in 1 .. made : k > made - cursor.seen - PageSize /\ k >= since => k \in stored \cup page
    <2>1. \A k \in 1 .. made : k <= made - cursor.seen /\ k >= since => k \in Window(cursor.seen, since)
      BY <1>2, <1>4 DEF Window
    <2> QED BY <1>2, <1>4, <1>8, <1>12, <2>1
  <1>14. done => \A k \in 1 .. made : k >= since => k \in stored \cup page
    <2>1. \A k \in 1 .. made : k <= made - cursor.seen /\ k >= since => k \in Window(cursor.seen, since)
      BY <1>2, <1>4 DEF Window
    <2> QED BY <1>2, <1>4, <1>8, <1>12, <2>1
  <1>15. next.count <= made /\ Behind(next, since) \subseteq stored \cup page
    <2>1. CASE done BY <2>1, <1>2, <1>3 DEF Behind
    <2>2. CASE ~done
      <3>1. next.count = made /\ next.seen = cursor.seen + PageSize BY <2>2
      <3>2. made - next.seen = made - cursor.seen - PageSize BY <3>1, <1>2, <1>4
      <3> HIDE DEF next, page, since, cursor, done
      <3> QED BY <3>1, <3>2, <1>2, <1>13 DEF Behind
    <2> QED BY <2>1, <2>2
  <1> HIDE DEF cursor, since, page, done, next, q
  <1>16. /\ scanning' \in [Services -> Passes(made)] /\ scanning'[s] = q
         /\ \A t \in Services : t # s => scanning'[t] = scanning[t]
    BY <1>1, <1>7, <1>11, PassTypes
  <1>17. HistoryTypeOK' BY <1>1, <1>7, <1>16, Types, TypesAgain
  <1>18. PastKnown' BY <1>5, <1>7, <1>11, <1>16 DEF HistoryInv, PastKnown, Covered
  <1>19. CheckpointCovers' BY <1>7 DEF HistoryInv, CheckpointCovers, Behind
  <1>20. ASSUME NEW t \in Services PROVE PageCovered(t, scanning[t])'
    <2>1. CASE t = s
      <3>1. PageCovered(s, p) BY DEF HistoryInv, PageCovers
      <3>2. owner = s => sync.scan # Never BY <1>6, <3>1 DEF PageCovered
      <3>3. q.next = NoCursor => \A k \in 1 .. made : k >= q.since => k \in stored \cup q.page
        BY <1>10, <1>11, <1>14
      <3>4. PageCovered(s, q)
        BY <1>11, <1>15, <3>2, <3>3 DEF PageCovered
      <3> QED BY <2>1, <3>4, <1>7, <1>16 DEF PageCovered, Behind
    <2>2. CASE t # s
      <3>1. PageCovered(t, scanning[t]) /\ scanning'[t] = scanning[t]
        BY <1>16, <2>2 DEF HistoryInv, PageCovers
      <3> QED BY <1>7, <3>1 DEF PageCovered, Behind
    <2> QED BY <2>1, <2>2
  <1>21. HistoryCovered' BY <1>7 DEF HistoryInv, HistoryCovered
  <1> QED BY <1>17, <1>18, <1>19, <1>20, <1>21 DEF HistoryInv, PageCovers

\* A page is committed: what it left behind is stored, and the last one moves the
\* watermark to where the scan began.
LEMMA CommitKeeps == ASSUME HistoryInv, NEW s \in Services, CommitPage(s) PROVE HistoryInv'
  <1> DEFINE p == scanning[s]
             complete == p.next = NoCursor
             q == IF complete THEN [NoScan EXCEPT !.at = "repairing"]
                  ELSE [NoScan EXCEPT !.at = "paging", !.mode = "continue", !.since = p.since]
  <1>1. HistoryTypeOK BY DEF HistoryInv
  <1>2. /\ made \in 0 .. MaxMade /\ made \in Nat /\ checkpoint \in Checkpoints /\ sync \in Syncs
        /\ p \in Passes(made) /\ stored \subseteq 1 .. made
    BY <1>1, Types, HistoryAssumption
  <1>3. p.next \in Cursors /\ p.since \in Bounds /\ p.page \subseteq 1 .. made
    BY <1>2 DEF Passes
  <1>4. p.at = "fetched" /\ owner = s /\ UNCHANGED <<made, owner, live>>
       /\ stored' = stored \cup p.page /\ checkpoint' = [cursor |-> p.next, since |-> p.since]
       /\ scanning' = [scanning EXCEPT ![s] = q]
    BY DEF CommitPage, OwnsLease
  <1>5. PageCovered(s, p) /\ Covered(p.since) BY DEF HistoryInv, PageCovers, PastKnown
  <1>6. sync.scan # Never /\ sync.scan <= made /\ ScannedFrom(sync.scan) = sync.scan
    BY <1>4, <1>5 DEF PageCovered, ScannedFrom, HistoryInv, PastKnown
  <1>7. /\ sync' \in Syncs /\ sync'.scan \in Instants /\ sync'.last \in Instants
        /\ sync'.complete = (complete \/ sync.complete)
        /\ sync'.last = (IF complete THEN sync.scan ELSE sync.last)
        /\ sync'.scan = (IF complete THEN Never ELSE sync.scan)
    <2>1. sync' = [sync EXCEPT !.complete = complete \/ @,
                               !.last = IF complete THEN sync.scan ELSE @,
                               !.scan = IF complete THEN Never ELSE sync.scan]
      BY <1>6 DEF CommitPage
    <2> HIDE DEF complete
    <2>2. complete \in BOOLEAN BY DEF complete
    <2> QED BY <1>2, <2>1, <2>2, Instant DEF Syncs
  <1>8. q \in Passes(made) /\ q.at \in {"repairing", "paging"}
       /\ (q.at = "paging" => ~complete) /\ q.since \in {Never, p.since}
    <2>1. NoScan \in Passes(made) /\ NoScan.since = Never BY <1>2, NoScanTyped
    <2> QED BY <1>3, <2>1 DEF Passes
  <1> HIDE DEF q, complete
  <1>9. /\ scanning' \in [Services -> Passes(made)] /\ scanning'[s] = q
        /\ \A t \in Services : t # s => scanning'[t] = scanning[t]
    BY <1>1, <1>4, <1>8, PassTypes
  <1>10. checkpoint' \in Checkpoints /\ checkpoint'.cursor = p.next /\ checkpoint'.since = p.since
    BY <1>3, <1>4 DEF Checkpoints, Cursors
  <1>11. stored \subseteq stored' /\ stored' \subseteq 1 .. made BY <1>2, <1>3, <1>4
  <1>12. HistoryTypeOK' BY <1>1, <1>4, <1>7, <1>9, <1>10, <1>11, Types, TypesAgain
  <1>13. \A x : Covered(x) => Covered(x)' BY <1>4, <1>11 DEF Covered
  <1>14. Never <= made /\ Covered(Never) BY <1>2, NeverCovered DEF Never
  <1>15. PastKnown'
    <2>1. sync'.scan <= made /\ sync'.last <= made
      BY <1>6, <1>7, <1>14 DEF HistoryInv, PastKnown
    <2>2. Covered(checkpoint.since)' BY <1>4, <1>5, <1>10, <1>11 DEF Covered
    <2>3. \A t \in Services : Covered(scanning[t].since)'
      BY <1>5, <1>8, <1>9, <1>13, <1>14 DEF HistoryInv, PastKnown
    <2> QED BY <1>4, <2>1, <2>2, <2>3 DEF PastKnown, Covered
  <1>16. CheckpointCovers'
    BY <1>4, <1>5, <1>10 DEF PageCovered, CheckpointCovers, Behind
  <1>17. ASSUME NEW t \in Services PROVE PageCovered(t, scanning[t])'
    <2>1. CASE t = s BY <2>1, <1>6, <1>7, <1>8, <1>9 DEF PageCovered
    <2>2. CASE t # s
      <3>1. PageCovered(t, scanning[t]) /\ scanning'[t] = scanning[t] /\ owner' # t
        BY <1>4, <1>9, <2>2 DEF HistoryInv, PageCovers
      <3> QED BY <1>4, <1>11, <3>1 DEF PageCovered, Behind
    <2> QED BY <2>1, <2>2
  <1>18. HistoryCovered'
    <2>1. CASE ~complete
      BY <2>1, <1>4, <1>7, <1>11 DEF HistoryInv, HistoryCovered
    <2>2. CASE complete
      <3>1. \A k \in 1 .. made : k <= sync.scan /\ k >= p.since => k \in stored \cup p.page
        BY <2>2, <1>4, <1>5 DEF PageCovered, complete
      <3>2. \A k \in 1 .. made : k < p.since => k \in stored BY <1>5 DEF Covered
      <3>3. p.since \in Int BY <1>3, Instant
      <3>4. \A k \in 1 .. made : k <= sync.scan => k \in stored' BY <3>1, <3>2, <3>3, <1>4
      <3> QED BY <2>2, <3>4, <1>4, <1>7 DEF HistoryCovered
    <2> QED BY <2>1, <2>2
  <1> QED BY <1>12, <1>15, <1>16, <1>17, <1>18 DEF HistoryInv, PageCovers

\* A pass stops reading, repairs, settles or dies.
LEMMA StopKeeps ==
    ASSUME HistoryInv, NEW s \in Services,
           StopPaging(s) \/ FailHistory(s) \/ Repair(s) \/ SettlePass(s) \/ CrashService(s)
    PROVE  HistoryInv'
  <1>1. /\ made \in Nat /\ sync \in Syncs /\ owner \in Services \cup {Nobody} /\ live \in BOOLEAN
        /\ NoScan \in Passes(made) /\ NoScan.since = Never /\ NoScan.at = "idle"
        /\ scanning[s] \in Passes(made) /\ Covered(Never) /\ Covered(scanning[s].since)
    <2>1. /\ made \in Nat /\ sync \in Syncs /\ owner \in Services \cup {Nobody} /\ live \in BOOLEAN
          /\ scanning[s] \in Passes(made)
      BY Types, HistoryAssumption DEF HistoryInv
    <2>2. NoScan \in Passes(made) /\ NoScan.since = Never /\ Covered(Never)
      BY <2>1, NoScanTyped, NeverCovered
    <2>3. NoScan.at = "idle" BY DEF NoScan
    <2>4. Covered(scanning[s].since) BY DEF HistoryInv, PastKnown
    <2> QED BY <2>1, <2>2, <2>3, <2>4
  <1>2. "none" \in Failures /\ \A x \in Failing : x \in Failures
    BY HistoryAssumption DEF Failures
  <1>3. CASE StopPaging(s)
    <2> DEFINE q == [NoScan EXCEPT !.at = "repairing"]
    <2>1. q \in Passes(made) /\ q.since = Never /\ q.at = "repairing" BY <1>1 DEF Passes
    <2>2. scanning' = [scanning EXCEPT ![s] = q]
         /\ UNCHANGED <<made, stored, sync, checkpoint, owner, live>>
      BY <1>3 DEF StopPaging
    <2> HIDE DEF q
    <2> QED BY <1>1, <2>1, <2>2, LeaveKeeps
  <1>4. CASE FailHistory(s)
    <2>1. PICK failure \in Failures :
            scanning' = [scanning EXCEPT ![s] = [NoScan EXCEPT !.at = "settling", !.failed = failure]]
      BY <1>2, <1>4 DEF FailHistory
    <2> DEFINE q == [NoScan EXCEPT !.at = "settling", !.failed = failure]
    <2>2. q \in Passes(made) /\ q.since = Never /\ q.at = "settling" BY <1>1, <2>1 DEF Passes
    <2>3. scanning' = [scanning EXCEPT ![s] = q]
         /\ UNCHANGED <<made, stored, sync, checkpoint, owner, live>>
      BY <1>4, <2>1 DEF FailHistory
    <2> HIDE DEF q
    <2> QED BY <1>1, <2>2, <2>3, LeaveKeeps
  <1>5. CASE Repair(s)
    <2>0. sync.failure \in Failures BY <1>1 DEF Syncs
    <2>1. PICK prior \in Failures, failed \in Failures, keep \in BOOLEAN :
            scanning' = [scanning EXCEPT ![s] =
                [scanning[s] EXCEPT !.at = "settling", !.prior = prior, !.failed = failed, !.keep = keep]]
      <3>0. PICK r \in Passes(made) : r = scanning[s] BY <1>1
      <3> DEFINE prior0 == IF owner = s THEN sync.failure ELSE "none"
      <3>1. prior0 \in Failures /\ r.failed \in Failures /\ r.prior \in Failures
           /\ r.metadataOnly \in BOOLEAN
        BY <3>0, <1>2, <2>0 DEF Passes
      <3>2. CASE scanning' = [scanning EXCEPT ![s] = [r EXCEPT !.at = "settling", !.prior = prior0,
                                 !.keep = r.metadataOnly /\ prior0 # "metadata"]]
        <4> DEFINE kept == r.metadataOnly /\ prior0 # "metadata"
        <4>1. kept \in BOOLEAN OBVIOUS
        <4>2. scanning' = [scanning EXCEPT ![s] = [r EXCEPT !.at = "settling", !.prior = prior0,
                                                            !.keep = kept]]
          BY <3>2
        <4> HIDE DEF kept, prior0
        <4>3. [r EXCEPT !.at = "settling", !.prior = prior0, !.keep = kept]
              = [r EXCEPT !.at = "settling", !.prior = prior0, !.failed = r.failed, !.keep = kept]
          BY <3>0 DEF Passes
        <4>4. scanning' = [scanning EXCEPT ![s] = [scanning[s] EXCEPT !.at = "settling",
                              !.prior = prior0, !.failed = r.failed, !.keep = kept]]
          BY <3>0, <4>2, <4>3
        <4> QED BY <3>1, <4>1, <4>4
      <3>3. CASE \E failure \in {"none"} \cup (Failing \cap {"metadata"}) :
                   scanning' = [scanning EXCEPT ![s] = [r EXCEPT !.at = "settling", !.failed = failure,
                                   !.keep = failure = "none"]]
        <4>1. PICK failure \in Failures :
                 scanning' = [scanning EXCEPT ![s] = [r EXCEPT !.at = "settling", !.failed = failure,
                                   !.keep = failure = "none"]]
          BY <1>2, <3>3
        <4>2. \A keep : [r EXCEPT !.at = "settling", !.failed = failure, !.keep = keep]
                 = [r EXCEPT !.at = "settling", !.prior = r.prior, !.failed = failure, !.keep = keep]
          BY <3>0 DEF Passes
        <4>3. (failure = "none") \in BOOLEAN OBVIOUS
        <4> QED BY <3>0, <3>1, <4>1, <4>2, <4>3
      <3> QED BY <1>5, <3>0, <3>2, <3>3 DEF Repair
    <2> DEFINE q == [scanning[s] EXCEPT !.at = "settling", !.prior = prior, !.failed = failed,
                                        !.keep = keep]
    <2>2. q \in Passes(made) /\ q.since = scanning[s].since /\ q.at = "settling"
      BY <1>1, <2>1 DEF Passes
    <2>3. scanning' = [scanning EXCEPT ![s] = q]
         /\ UNCHANGED <<made, stored, sync, checkpoint, owner, live>>
      BY <1>5, <2>1 DEF Repair
    <2> HIDE DEF q
    <2> QED BY <1>1, <2>2, <2>3, LeaveKeeps
  <1>6. CASE SettlePass(s)
    <2> DEFINE kept == IF scanning[s].prior # "none" THEN scanning[s].prior ELSE sync.failure
               failure == IF scanning[s].failed # "none" THEN scanning[s].failed
                          ELSE IF scanning[s].keep THEN kept ELSE "none"
    <2>1. failure \in Failures BY <1>1, <1>2 DEF Passes, Syncs
    <2>2. /\ scanning' = [scanning EXCEPT ![s] = NoScan] /\ UNCHANGED <<made, stored, checkpoint>>
          /\ \/ UNCHANGED <<sync, owner, live>>
             \/ sync' = [sync EXCEPT !.failure = failure] /\ owner' = Nobody /\ live' = FALSE
      BY <1>6 DEF SettlePass
    <2> HIDE DEF failure
    <2>3. sync' \in Syncs /\ sync'.complete = sync.complete /\ sync'.scan = sync.scan
         /\ sync'.last = sync.last
      BY <1>1, <2>1, <2>2 DEF Syncs
    <2>4. owner' \in {owner, Nobody} /\ live' \in BOOLEAN BY <1>1, <2>2
    <2> QED BY <1>1, <2>2, <2>3, <2>4, LeaveKeeps
  <1>7. CASE CrashService(s)
    BY <1>1, <1>7, LeaveKeeps DEF CrashService
  <1> QED BY <1>3, <1>4, <1>5, <1>6, <1>7

\* Neither a new connection nor a lapse moves a watermark.
LEMMA RestKeeps ==
    ASSUME HistoryInv, sync' \in Syncs, sync'.complete = sync.complete, sync'.scan = sync.scan,
           sync'.last = sync.last, live' \in BOOLEAN,
           UNCHANGED <<made, stored, checkpoint, owner, scanning>>
    PROVE  HistoryInv'
  <1>1. HistoryTypeOK' BY Types, TypesAgain DEF HistoryInv
  <1>2. PastKnown' BY DEF HistoryInv, PastKnown, Covered
  <1>3. CheckpointCovers' BY DEF HistoryInv, CheckpointCovers, Behind
  <1>4. ASSUME NEW t \in Services PROVE PageCovered(t, scanning[t])'
    BY DEF HistoryInv, PageCovers, PageCovered, Behind
  <1>5. HistoryCovered' BY DEF HistoryInv, HistoryCovered
  <1> QED BY <1>1, <1>2, <1>3, <1>4, <1>5 DEF HistoryInv, PageCovers

\* Every step keeps the invariant.
LEMMA HistoryStepKeeps == ASSUME HistoryInv, [HistoryNext]_historyVars PROVE HistoryInv'
  <1>0. sync \in Syncs /\ live \in BOOLEAN BY Types DEF HistoryInv
  <1>1. CASE Reconnect
    <2>1. sync' \in Syncs /\ sync'.complete = sync.complete /\ sync'.scan = sync.scan
         /\ sync'.last = sync.last
      BY <1>0, <1>1 DEF Reconnect, Syncs, Failures
    <2> QED BY <1>0, <1>1, <2>1, RestKeeps DEF Reconnect
  <1>2. CASE LapseLease \/ UNCHANGED historyVars
    BY <1>0, <1>2, RestKeeps DEF LapseLease, historyVars
  <1> QED BY <1>1, <1>2, SubmitKeeps, ClaimsKeep, FetchKeeps, CommitKeeps, StopKeeps
          DEF HistoryNext

\* The invariant holds throughout.
LEMMA HistoryInductive == HistorySpec => []HistoryInv
  <1>1. ASSUME HistoryInit PROVE HistoryInv
    <2>1. made \in 0 .. MaxMade /\ made \in Nat BY <1>1, HistoryAssumption DEF HistoryInit
    <2>2. NoScan \in Passes(made) /\ NoScan.since = Never /\ NoScan.at = "idle" /\ Covered(Never)
      BY <2>1, NoScanTyped, NeverCovered DEF NoScan
    <2>3. NoCursor \in Cursors /\ NoCursor.count = 0 BY HistoryAssumption DEF NoCursor, Cursors
    <2>4. sync \in Syncs /\ checkpoint \in Checkpoints
      BY <1>1, <2>3, Instant DEF HistoryInit, Syncs, Checkpoints, Cursors, Failures
    <2>5. HistoryTypeOK BY <1>1, <2>1, <2>2, <2>4, Types DEF HistoryInit
    <2>6. PastKnown BY <1>1, <2>1, <2>2 DEF HistoryInit, PastKnown, Never
    <2>7. CheckpointCovers BY <1>1, <2>1, <2>3 DEF HistoryInit, CheckpointCovers, Behind
    <2>8. PageCovers BY <1>1, <2>2 DEF HistoryInit, PageCovers, PageCovered
    <2>9. HistoryCovered BY <1>1 DEF HistoryInit, HistoryCovered
    <2> QED BY <2>5, <2>6, <2>7, <2>8, <2>9 DEF HistoryInv
  <1> QED BY <1>1, HistoryStepKeeps, PTL DEF HistorySpec

\* Watermarks, checkpoint and passes keep their shape, for any page size and overlap.
THEOREM HistoryTypes == HistorySpec => []HistoryTypeOK
  <1>1. HistoryInv => HistoryTypeOK BY DEF HistoryInv
  <1> QED BY <1>1, HistoryInductive, PTL

\* Whatever passes were cut short, resumed by another service, overtaken by new submissions
\* or robbed of their lease, a complete history misses nothing before its watermark.
THEOREM HistoryIsCovered == HistorySpec => []HistoryCovered
  <1>1. HistoryInv => HistoryCovered BY DEF HistoryInv
  <1> QED BY <1>1, HistoryInductive, PTL

-----------------------------------------------------------------------------
(* The gate of the source                                                  *)

\* Every demand lies behind the floor or the deadline, and whoever waits or works has been
\* given an instant after both.
GateInv ==
    /\ GateTypeOK
    /\ \A d \in demands : (\E f \in completed : d <= f + MinInterval) \/ (\E b \in notBefore : d <= b)
    /\ \A f \in completed : f <= now
    /\ turn # "queued" => Due(wakeAt)

\* The interval is a number.
LEMMA IntervalTyped == MinInterval \in Nat
BY GateAssumption DEF MinInterval, Later

\* A step that moves neither floor, deadline nor demands, and lets nobody wait or work who
\* did not before.
LEMMA GateRests ==
    ASSUME GateInv, GateTypeOK', UNCHANGED <<completed, notBefore, demands>>, now' >= now,
           turn' = "queued" \/ (turn # "queued" /\ wakeAt' = wakeAt)
    PROVE  GateInv'
<1>1. \A f \in completed : f <= now'
  BY DEF GateInv, GateTypeOK
<1> QED BY <1>1 DEF GateInv, Due

\* A raised deadline is behind what raised it and no earlier than the one before.
LEMMA DeadlineRaised ==
    ASSUME now \in Nat, notBefore \subseteq Int, NEW delay \in Int
    PROVE  /\ Raised(delay) \subseteq Int
           /\ \A d \in Int : (\E b \in notBefore : d <= b) => \E b \in Raised(delay) : d <= b
           /\ delay > 0 => \E b \in Raised(delay) : now + delay <= b
<1>1. ASSUME NEW x \in Raised(delay) PROVE x \in Int
  <2>1. CASE x \in notBefore
    BY <2>1
  <2>2. CASE x = now + delay \/ \E b \in notBefore : x = Later(b, now + delay)
    BY <2>2 DEF Later
  <2> QED BY <2>1, <2>2 DEF Raised
<1>2. ASSUME NEW d \in Int, NEW b \in notBefore, d <= b PROVE \E c \in Raised(delay) : d <= c
  <2>1. CASE delay <= 0
    BY <1>2, <2>1 DEF Raised
  <2>2. CASE delay > 0
    <3>1. Later(b, now + delay) \in Raised(delay)
      BY <2>2 DEF Raised
    <3>2. d <= Later(b, now + delay)
      BY <1>2 DEF Later
    <3> QED BY <3>1, <3>2
  <2> QED BY <2>1, <2>2
<1>3. ASSUME delay > 0 PROVE \E b \in Raised(delay) : now + delay <= b
  <2>1. CASE notBefore = {}
    <3>1. now + delay \in Raised(delay)
      BY <1>3, <2>1 DEF Raised
    <3> QED BY <3>1
  <2>2. CASE notBefore # {}
    <3>1. PICK b : b \in notBefore
      BY <2>2
    <3>2. Later(b, now + delay) \in Raised(delay)
      BY <1>3, <2>2, <3>1 DEF Raised
    <3>3. now + delay <= Later(b, now + delay)
      BY <3>1 DEF Later
    <3> QED BY <3>2, <3>3
  <2> QED BY <2>1, <2>2
<1> QED BY <1>1, <1>2, <1>3

\* The answer of an operation raises what the next one waits for to what it demands.
LEMMA CompletionRaises ==
    ASSUME GateInv, NEW delay \in RetryAfters, Complete(delay) PROVE GateInv'
<1>1. /\ now \in Nat /\ delay \in Int /\ completed \subseteq Int /\ notBefore \subseteq Int /\ demands \subseteq Int
      /\ waiting \in Seq(Calls) /\ withdrawn \subseteq Calls /\ waiting # <<>>
      /\ \A f \in completed : f <= now
      /\ \A d \in demands : (\E f \in completed : d <= f + MinInterval) \/ (\E b \in notBefore : d <= b)
  BY GateAssumption DEF GateInv, GateTypeOK, Complete
<1>2. /\ notBefore' = Raised(delay) /\ completed' = {now} /\ UNCHANGED <<now, withdrawn>>
      /\ demands' = demands \cup {now + MinInterval} \cup (IF delay > 0 THEN {now + delay} ELSE {})
      /\ waiting' = Tail(waiting) /\ turn' = "queued" /\ wakeAt' = 0
  BY DEF Complete, Leave
<1>3. GateTypeOK'
  <2>1. notBefore' \subseteq Int /\ completed' \subseteq Int
    BY <1>1, <1>2, DeadlineRaised
  <2>2. demands' \subseteq Int
    BY <1>1, <1>2, IntervalTyped
  <2>3. waiting' \in Seq(Calls)
    BY <1>1, <1>2
  <2> QED BY <2>1, <2>2, <2>3, <1>1, <1>2 DEF GateTypeOK
<1>4. ASSUME NEW d \in demands'
      PROVE  (\E f \in completed' : d <= f + MinInterval) \/ (\E b \in notBefore' : d <= b)
  <2>1. CASE d = now + MinInterval
    BY <2>1, <1>1, <1>2, IntervalTyped
  <2>2. CASE delay > 0 /\ d = now + delay
    BY <2>2, <1>1, <1>2, DeadlineRaised
  <2>3. CASE d \in demands
    <3>1. CASE \E b \in notBefore : d <= b
      BY <2>3, <3>1, <1>1, <1>2, DeadlineRaised
    <3>2. CASE \E f \in completed : d <= f + MinInterval
      <4>1. d <= now + MinInterval
        BY <2>3, <3>2, <1>1, IntervalTyped
      <4> QED BY <4>1, <1>2
    <3> QED BY <2>3, <3>1, <3>2, <1>1
  <2> QED BY <2>1, <2>2, <2>3, <1>2
<1> QED BY <1>1, <1>2, <1>3, <1>4 DEF GateInv

\* The first call of the queue is given an instant behind floor and deadline.
LEMMA ArmKeeps == ASSUME GateInv, Arm PROVE GateInv'
<1>1. wakeAt' \in Int
  BY IntervalTyped DEF GateInv, GateTypeOK, Arm
<1> QED BY <1>1 DEF GateInv, GateTypeOK, Arm, Due

\* Every step of the gate keeps it so.
LEMMA GateStepKeeps == ASSUME GateInv, [GateNext]_gateVars PROVE GateInv'
<1>1. /\ now \in Nat /\ wakeAt \in Int /\ waiting \in Seq(Calls) /\ withdrawn \subseteq Calls
      /\ GateTypeOK
  BY DEF GateInv, GateTypeOK
<1>2. CASE Tick
  <2>1. now' \in Nat /\ now' >= now
    BY <1>1, <1>2 DEF Tick
  <2> QED BY <1>1, <1>2, <2>1, GateRests DEF Tick, GateTypeOK
<1>3. CASE Reject
  <2>1. GateTypeOK'
    BY <1>1, <1>3 DEF Reject, Leave, GateTypeOK
  <2> QED BY <1>1, <1>3, <2>1, GateRests DEF Reject, Leave
<1>4. CASE Work
  BY <1>1, <1>4, GateRests DEF Work, GateTypeOK
<1>5. ASSUME NEW c \in Calls, Call(c) PROVE GateInv'
  <2>1. waiting' \in Seq(Calls) /\ waiting' # <<>>
    BY <1>1, <1>5 DEF Call
  <2> QED BY <1>1, <1>5, <2>1, GateRests DEF Call, GateTypeOK
<1>6. ASSUME NEW c \in Calls, CancelCall(c) PROVE GateInv'
  BY <1>1, <1>6, GateRests DEF CancelCall, GateTypeOK
<1>7. CASE UNCHANGED gateVars
  BY <1>1, <1>7 DEF gateVars, GateInv, GateTypeOK, Due
<1> QED BY <1>2, <1>3, <1>4, <1>5, <1>6, <1>7, ArmKeeps, CompletionRaises DEF GateNext

\* At the start nothing is demanded.
LEMMA GateStarts == GateInit => GateInv
BY DEF GateInit, GateInv, GateTypeOK

\* An operation that begins has waited for every demand.
LEMMA GateStepPaced ==
    ASSUME GateInv, [GateNext]_gateVars, turn # "working", turn' = "working"
    PROVE  \A d \in demands : d <= now
<1>1. Work
  BY DEF GateNext, gateVars, Tick, Reject, Leave, Arm, Call, CancelCall, Complete
<1>2. /\ Due(wakeAt) /\ now \in Nat /\ wakeAt \in Int /\ wakeAt <= now
      /\ completed \subseteq Int /\ notBefore \subseteq Int /\ demands \subseteq Int
  BY <1>1 DEF Work, GateInv, GateTypeOK
<1>3. ASSUME NEW d \in demands PROVE d <= now
  <2>1. CASE \E f \in completed : d <= f + MinInterval
    BY <2>1, <1>2, IntervalTyped DEF Due
  <2>2. CASE \E b \in notBefore : d <= b
    BY <2>2, <1>2 DEF Due
  <2> QED BY <2>1, <2>2 DEF GateInv
<1> QED BY <1>3

\* However calls are queued, cancelled and answered, none begins before what an earlier
\* answer demanded.
THEOREM GateIsPaced == GateSpec => []GateTypeOK /\ Paced
<1>1. GateInit => GateInv
  BY GateStarts
<1>2. GateInv /\ [GateNext]_gateVars => GateInv'
  BY GateStepKeeps
<1>3. GateInv /\ [GateNext]_gateVars =>
        [turn # "working" /\ turn' = "working" => \A d \in demands : d <= now]_gateVars
  BY GateStepPaced
<1>4. GateInv => GateTypeOK
  BY DEF GateInv
<1> QED BY <1>1, <1>2, <1>3, <1>4, PTL DEF GateSpec, Paced

-----------------------------------------------------------------------------
(* The transport                                                           *)

\* What is owed lies before the next slot or has passed, unless the request that heard it
\* was cancelled or waits for it itself.
Heeded(o) ==
    \/ o.at <= nextSlotAt \/ o.at <= httpNow
    \/ o.why = "Retry-After" /\ o.by \in httpCancelled
    \/ o.why = "Retry-After" /\ httpStage = "backoff" /\ o.by = Running /\ o.at <= backoffUntil

HttpInv == HttpTypeOK /\ \A o \in owed : Heeded(o)

Debts == [by : HttpRequests, at : Nat, why : {"interval", "Retry-After"}]
HttpTasks == [req : HttpRequests, interval : Intervals]

\* What is in the queue, and who runs.
LEMMA HttpParts ==
    ASSUME HttpInv
    PROVE  /\ httpNow \in Nat /\ nextSlotAt \in Nat /\ backoffUntil \in Nat /\ round \in Nat /\ hop \in Nat
           /\ httpQueue \in Seq(HttpTasks) /\ httpCancelled \subseteq HttpRequests /\ owed \subseteq Debts
           /\ httpStage \in {"queued", "pacing", "fetching", "backoff"}
           /\ httpStage # "queued" => httpQueue # <<>>
           /\ httpQueue # <<>> => Running \in HttpRequests /\ Head(httpQueue).interval \in Nat
<1>1. httpQueue \in Seq(HttpTasks)
  BY DEF HttpInv, HttpTypeOK, HttpTasks
<1>2. httpQueue # <<>> => Head(httpQueue) \in HttpTasks
  BY <1>1
<1> QED BY <1>1, <1>2, HttpAssumption DEF HttpInv, HttpTypeOK, HttpTasks, Debts, Running

\* The types, in one step.
LEMMA HttpTypesAgain ==
    ASSUME httpNow' \in Nat, nextSlotAt' \in Nat, backoffUntil' \in Nat, round' \in Nat, hop' \in Nat,
           httpQueue' \in Seq(HttpTasks), httpCancelled' \subseteq HttpRequests, owed' \subseteq Debts,
           httpStage' \in {"queued", "pacing", "fetching", "backoff"},
           httpStage' # "queued" => httpQueue' # <<>>
    PROVE  HttpTypeOK'
BY DEF HttpTypeOK, HttpTasks, Debts

\* What was heeded stays so while slot, clock and cancellations only go on, unless the
\* running request ends its own wait.
LEMMA StillHeeded ==
    ASSUME HttpInv, nextSlotAt' \in Nat, nextSlotAt' >= nextSlotAt, httpNow' \in Nat, httpNow' >= httpNow,
           httpCancelled \subseteq httpCancelled', NEW o \in owed, Heeded(o),
           \/ httpStage = "backoff" => httpNow >= backoffUntil \/ Running \in httpCancelled
           \/ httpStage' = "backoff" /\ Running' = Running /\ backoffUntil' = backoffUntil
           \/ httpStage # "backoff"
    PROVE  Heeded(o)'
<1>1. o \in Debts /\ httpNow \in Nat /\ nextSlotAt \in Nat /\ backoffUntil \in Nat
  BY HttpParts
<1>2. o.at \in Nat
  BY <1>1 DEF Debts
<1> QED BY <1>1, <1>2 DEF Heeded

\* The running task settles and what it owes is heeded.
LEMMA SettleTypes ==
    ASSUME HttpInv, Settle, httpQueue # <<>>
    PROVE  /\ backoffUntil' = 0 /\ round' = 0 /\ hop' = 0 /\ httpStage' = "queued"
           /\ httpQueue' \in Seq(HttpTasks)
BY HttpParts DEF Settle

\* A step that adds no debt and does not end a wait too early.
LEMMA NoDebtKeeps ==
    ASSUME HttpInv, HttpTypeOK', owed' \subseteq owed, nextSlotAt' >= nextSlotAt, httpNow' >= httpNow,
           httpCancelled \subseteq httpCancelled',
           \/ httpStage = "backoff" => httpNow >= backoffUntil \/ Running \in httpCancelled
           \/ httpStage' = "backoff" /\ Running' = Running /\ backoffUntil' = backoffUntil
    PROVE  HttpInv'
<1>1. nextSlotAt' \in Nat /\ httpNow' \in Nat
  BY DEF HttpTypeOK
<1> QED BY <1>1, StillHeeded DEF HttpInv

\* A fetch takes its slot, and the next one is an interval away.
LEMMA DispatchKeeps == ASSUME HttpInv, Dispatch PROVE HttpInv'
<1>1. /\ httpStage = "pacing" /\ httpStage' = "fetching" /\ httpQueue # <<>>
      /\ nextSlotAt' = LaterOf(httpNow, nextSlotAt) + Head(httpQueue).interval
      /\ owed' = owed \cup {[by |-> Running, at |-> nextSlotAt', why |-> "interval"]}
      /\ UNCHANGED <<httpNow, httpQueue, round, hop, backoffUntil, httpCancelled>>
  BY DEF Dispatch, Wanted
<1>2. nextSlotAt' \in Nat /\ nextSlotAt' >= nextSlotAt
  BY <1>1, HttpParts DEF LaterOf
<1>3. owed' \subseteq Debts
  BY <1>1, <1>2, HttpParts DEF Debts
<1>4. HttpTypeOK'
  BY <1>1, <1>2, <1>3, HttpParts, HttpTypesAgain
<1>5. ASSUME NEW o \in owed' PROVE Heeded(o)'
  <2>1. CASE o = [by |-> Running, at |-> nextSlotAt', why |-> "interval"]
    BY <2>1, <1>2 DEF Heeded
  <2>2. CASE o \in owed
    BY <2>2, <1>1, <1>2, HttpParts, StillHeeded DEF HttpInv
  <2> QED BY <2>1, <2>2, <1>1
<1> QED BY <1>4, <1>5 DEF HttpInv

\* A failure that is retried is waited out by the request itself.
LEMMA RetryKeeps ==
    ASSUME HttpInv, NEW retryable \in BOOLEAN, NEW delay \in Delays, Retry(retryable, delay) PROVE HttpInv'
<1>1. /\ httpStage = "fetching" /\ httpStage' = "backoff" /\ httpQueue # <<>>
      /\ backoffUntil' = httpNow + delay /\ round' = round + 1 /\ hop' = 0
      /\ owed' \subseteq owed \cup {[by |-> Running, at |-> httpNow + delay, why |-> "Retry-After"]}
      /\ UNCHANGED <<httpNow, nextSlotAt, httpQueue, httpCancelled>>
  BY DEF Retry, Wanted, Heard
<1>2. delay \in Nat
  BY HttpAssumption
<1>3. owed' \subseteq Debts
  BY <1>1, <1>2, HttpParts DEF Debts
<1>4. HttpTypeOK'
  BY <1>1, <1>2, <1>3, HttpParts, HttpTypesAgain
<1>5. Running' = Running
  BY <1>1 DEF Running
<1>6. ASSUME NEW o \in owed' PROVE Heeded(o)'
  <2>1. CASE o = [by |-> Running, at |-> httpNow + delay, why |-> "Retry-After"]
    BY <2>1, <1>1, <1>2, <1>5, HttpParts DEF Heeded
  <2>2. CASE o \in owed
    BY <2>2, <1>1, HttpParts, StillHeeded DEF HttpInv
  <2> QED BY <2>1, <2>2, <1>1
<1> QED BY <1>4, <1>6 DEF HttpInv

\* A failure that is not retried holds back everything behind it.
LEMMA FailureKeeps ==
    ASSUME HttpInv, NEW retryable \in BOOLEAN, NEW delay \in Delays, FailRequest(retryable, delay)
    PROVE  HttpInv'
<1>1. /\ httpStage = "fetching" /\ httpQueue # <<>> /\ Settle
      /\ nextSlotAt' = IF delay > 0 THEN HeldBack(delay) ELSE nextSlotAt
      /\ owed' = IF delay = 0 THEN owed
                 ELSE owed \cup {[by |-> Running, at |-> httpNow + delay, why |-> "Retry-After"]}
      /\ UNCHANGED <<httpNow, httpCancelled>>
  BY DEF FailRequest, Wanted, Heard
<1>2. delay \in Nat
  BY HttpAssumption
<1>3. nextSlotAt' \in Nat /\ nextSlotAt' >= nextSlotAt /\ (delay > 0 => nextSlotAt' >= httpNow + delay)
  BY <1>1, <1>2, HttpParts DEF HeldBack, LaterOf
<1>4. owed' \subseteq Debts
  BY <1>1, <1>2, HttpParts DEF Debts
<1>5. HttpTypeOK'
  BY <1>1, <1>3, <1>4, HttpParts, SettleTypes, HttpTypesAgain
<1>6. ASSUME NEW o \in owed' PROVE Heeded(o)'
  <2>1. CASE delay # 0 /\ o = [by |-> Running, at |-> httpNow + delay, why |-> "Retry-After"]
    BY <2>1, <1>2, <1>3 DEF Heeded
  <2>2. CASE o \in owed
    BY <2>2, <1>1, <1>3, HttpParts, StillHeeded DEF HttpInv
  <2> QED BY <2>1, <2>2, <1>1
<1> QED BY <1>5, <1>6 DEF HttpInv

\* Every step of the transport keeps what is owed heeded.
LEMMA HttpStepKeeps == ASSUME HttpInv, [HttpNext]_httpVars PROVE HttpInv'
<1>1. ASSUME NEW r \in HttpRequests, NEW interval \in Intervals, Queue(r, interval) PROVE HttpInv'
  <2>1. [req |-> r, interval |-> interval] \in HttpTasks
    BY DEF HttpTasks
  <2>2. /\ httpQueue' = Append(httpQueue, [req |-> r, interval |-> interval])
        /\ UNCHANGED <<httpNow, nextSlotAt, httpStage, round, hop, backoffUntil, httpCancelled, owed>>
    BY <1>1 DEF Queue
  <2>3. httpQueue' \in Seq(HttpTasks) /\ httpQueue' # <<>>
    BY <2>1, <2>2, HttpParts
  <2>4. httpQueue # <<>> => Head(httpQueue') = Head(httpQueue)
    BY <2>1, <2>2, HttpParts
  <2>5. HttpTypeOK'
    BY <2>2, <2>3, HttpParts, HttpTypesAgain
  <2> QED BY <2>2, <2>4, <2>5, HttpParts, NoDebtKeeps DEF Running
<1>2. ASSUME NEW r \in HttpRequests, CancelHttp(r) PROVE HttpInv'
  <2>1. /\ httpCancelled' = httpCancelled \cup {r}
        /\ UNCHANGED <<httpNow, nextSlotAt, httpQueue, httpStage, round, hop, backoffUntil, owed>>
    BY <1>2 DEF CancelHttp
  <2>2. HttpTypeOK'
    BY <2>1, HttpParts, HttpTypesAgain
  <2> QED BY <2>1, <2>2, HttpParts, NoDebtKeeps DEF Running
<1>3. CASE Quit
  <2>1. /\ httpQueue # <<>> /\ Running \in httpCancelled /\ Settle
        /\ UNCHANGED <<httpNow, nextSlotAt, httpCancelled, owed>>
    BY <1>3 DEF Quit
  <2>2. HttpTypeOK'
    BY <2>1, HttpParts, SettleTypes, HttpTypesAgain
  <2> QED BY <2>1, <2>2, HttpParts, NoDebtKeeps
<1>4. CASE EnterPacing \/ Redirect \/ EndBackoff
  <2>1. /\ httpQueue # <<>> /\ httpStage' = "pacing" /\ hop' \in {hop, hop + 1}
        /\ httpStage = "backoff" => httpNow >= backoffUntil
        /\ UNCHANGED <<httpNow, nextSlotAt, httpQueue, round, backoffUntil, httpCancelled, owed>>
    BY <1>4 DEF EnterPacing, Redirect, EndBackoff, Wanted
  <2>2. HttpTypeOK'
    BY <2>1, HttpParts, HttpTypesAgain
  <2> QED BY <2>1, <2>2, HttpParts, NoDebtKeeps
<1>5. CASE Succeed
  <2>1. /\ httpQueue # <<>> /\ Settle /\ httpStage = "fetching"
        /\ UNCHANGED <<httpNow, nextSlotAt, httpCancelled, owed>>
    BY <1>5 DEF Succeed, Wanted
  <2>2. HttpTypeOK'
    BY <2>1, HttpParts, SettleTypes, HttpTypesAgain
  <2> QED BY <2>1, <2>2, HttpParts, NoDebtKeeps
<1>6. CASE HttpTick
  <2>1. /\ httpNow' = httpNow + 1 /\ owed' \subseteq owed
        /\ UNCHANGED <<nextSlotAt, httpQueue, httpStage, round, hop, backoffUntil, httpCancelled>>
    BY <1>6 DEF HttpTick
  <2>2. HttpTypeOK'
    BY <2>1, HttpParts, HttpTypesAgain
  <2> QED BY <2>1, <2>2, HttpParts, NoDebtKeeps DEF Running
<1>7. CASE UNCHANGED httpVars
  BY <1>7 DEF httpVars, HttpInv, HttpTypeOK, Heeded, Running
<1> QED BY <1>1, <1>2, <1>3, <1>4, <1>5, <1>6, <1>7, DispatchKeeps, RetryKeeps, FailureKeeps DEF HttpNext

\* A fetch leaves when everything owed has passed.
LEMMA DispatchPaced ==
    ASSUME HttpInv, Dispatch
    PROVE  \A o \in owed : o.at <= httpNow \/ (o.why = "Retry-After" /\ o.by \in httpCancelled)
<1>1. httpStage = "pacing" /\ httpNow >= nextSlotAt
  BY DEF Dispatch
<1>2. ASSUME NEW o \in owed PROVE o.at <= httpNow \/ (o.why = "Retry-After" /\ o.by \in httpCancelled)
  <2>1. o.at \in Nat /\ httpNow \in Nat /\ nextSlotAt \in Nat
    BY HttpParts DEF Debts
  <2> QED BY <1>1, <2>1 DEF HttpInv, Heeded
<1> QED BY <1>2

\* However requests are queued, cancelled, redirected and retried, no fetch leaves before the
\* interval after every earlier one nor before an instant a source named.
THEOREM TransportIsPaced == HttpSpec => []HttpTypeOK /\ HttpPaced
<1>1. HttpInit => HttpInv
  BY DEF HttpInit, HttpInv, HttpTypeOK
<1>2. HttpInv /\ [HttpNext]_httpVars => HttpInv'
  BY HttpStepKeeps
<1>3. HttpInv => [Dispatch => \A o \in owed :
          o.at <= httpNow \/ (o.why = "Retry-After" /\ o.by \in httpCancelled)]_httpVars
  BY DispatchPaced
<1>4. HttpInv => HttpTypeOK
  BY DEF HttpInv
<1> QED BY <1>1, <1>2, <1>3, <1>4, PTL DEF HttpSpec, HttpPaced

-----------------------------------------------------------------------------
(* The backlog                                                             *)

\* A service that repairs a queue may write back the copy it read.
Repairing(p) ==
    \/ p.at = "repairing"
    \/ p.kind = "pass" /\ p.at \in {"asking", "renewing", "checking", "requested"}

\* What a service is at: on an account, on a key if it looks for one, and with a copy that
\* has all of the queue it holds.
ActInOrder(s, p) ==
    /\ p.at # "idle" => p.acct \in Accounts
    /\ p.at = "looking" => p.kind # "pass"
    /\ Repairing(p) /\ holder[p.acct] = s => queued[p.acct] \subseteq p.copy

BacklogInv ==
    /\ BacklogTypeOK /\ KeysKept
    /\ \A s \in Services : ActInOrder(s, act[s])

Acts ==
    [at : {"idle", "looking", "paging", "fetched", "opening", "repairing", "asking",
           "renewing", "checking", "requested", "disposing", "leaving"},
     kind : {"pass", "retry", "supplement"}, acct : Accounts \cup {NoAccount},
     key : Keys \cup {NoKey}, copy : SUBSET Keys, tried : SUBSET Keys,
     page : SUBSET Keys, sound : BOOLEAN]

\* The parts of the state by name.
LEMMA BacklogParts ==
    ASSUME BacklogInv
    PROVE  /\ referenced \subseteq Keys /\ known \subseteq Keys /\ disposed \subseteq Keys
           /\ queued \in [Accounts -> SUBSET Keys]
           /\ holder \in [Accounts -> Services \cup {Nobody}] /\ alive \in [Accounts -> BOOLEAN]
           /\ act \in [Services -> Acts] /\ KeysKept
           /\ \A s \in Services : act[s] \in Acts /\ ActInOrder(s, act[s])
BY DEF BacklogInv, BacklogTypeOK, Acts

\* The types in one step.
LEMMA BacklogTypesAgain ==
    ASSUME referenced' \subseteq Keys, known' \subseteq Keys, disposed' \subseteq Keys,
           queued' \in [Accounts -> SUBSET Keys],
           holder' \in [Accounts -> Services \cup {Nobody}], alive' \in [Accounts -> BOOLEAN],
           act' \in [Services -> Acts]
    PROVE  BacklogTypeOK'
BY DEF BacklogTypeOK, Acts

\* A step of one service that leaves the queues and their holders alone.
LEMMA ProceedKeeps ==
    ASSUME BacklogInv, NEW s \in Services, NEW p \in Acts, Proceed(s, p), ActInOrder(s, p)
    PROVE  BacklogInv'
<1>1. /\ act' = [act EXCEPT ![s] = p]
      /\ UNCHANGED <<referenced, known, disposed, queued, holder, alive>>
  BY DEF Proceed
<1>2. act' \in [Services -> Acts] /\ \A r \in Services : act'[r] = IF r = s THEN p ELSE act[r]
  BY <1>1, BacklogParts
<1>3. BacklogTypeOK'
  BY <1>1, <1>2, BacklogParts, BacklogTypesAgain
<1>4. \A r \in Services : ActInOrder(r, act[r])'
  BY <1>1, <1>2, BacklogParts DEF ActInOrder
<1> QED BY <1>1, <1>3, <1>4, BacklogParts DEF BacklogInv, KeysKept

\* A service that claims a row has no copy of its queue yet.
LEMMA ClaimRowKeeps ==
    ASSUME BacklogInv, NEW s \in Services, NEW a \in Accounts, NEW p \in Acts, ClaimRow(s, a, p),
           p.acct = a, p.at # "looking", ~Repairing(p)
    PROVE  BacklogInv'
<1>1. /\ act' = [act EXCEPT ![s] = p] /\ holder' = [holder EXCEPT ![a] = s]
      /\ alive' = [alive EXCEPT ![a] = TRUE] /\ UNCHANGED <<referenced, known, disposed, queued>>
  BY DEF ClaimRow
<1>2. /\ act' \in [Services -> Acts] /\ \A r \in Services : act'[r] = IF r = s THEN p ELSE act[r]
      /\ holder' \in [Accounts -> Services \cup {Nobody}] /\ alive' \in [Accounts -> BOOLEAN]
      /\ \A b \in Accounts : holder'[b] = IF b = a THEN s ELSE holder[b]
  BY <1>1, BacklogParts
<1>3. BacklogTypeOK'
  BY <1>1, <1>2, BacklogParts, BacklogTypesAgain
<1>4. ActInOrder(s, p)'
  BY DEF ActInOrder
<1>5. ASSUME NEW r \in Services, r # s PROVE ActInOrder(r, act[r])'
  <2>1. ActInOrder(r, act[r])
    BY BacklogParts
  <2>2. Repairing(act[r]) => act[r].at # "idle"
    BY DEF Repairing
  <2> QED BY <2>1, <2>2, <1>1, <1>2, <1>5 DEF ActInOrder, Repairing
<1>6. \A r \in Services : ActInOrder(r, act[r])'
  BY <1>2, <1>4, <1>5
<1> QED BY <1>1, <1>3, <1>6, BacklogParts DEF BacklogInv, KeysKept

\* A step of one service at the queues: no key leaves a queue that is not stored or discarded,
\* and what holds a queue still has all of it in its copy.
LEMMA QueuesKeep ==
    ASSUME BacklogInv, NEW s \in Services, NEW p \in Acts,
           act' = [act EXCEPT ![s] = p], UNCHANGED <<holder, alive>>,
           referenced' \subseteq Keys, known' \subseteq Keys, disposed' \subseteq Keys,
           queued' \in [Accounts -> SUBSET Keys],
           KeysKept', ActInOrder(s, p)',
           \A a \in Accounts : holder[a] # s => queued'[a] \subseteq queued[a]
    PROVE  BacklogInv'
<1>1. act' \in [Services -> Acts] /\ \A r \in Services : act'[r] = IF r = s THEN p ELSE act[r]
  BY BacklogParts
<1>2. BacklogTypeOK'
  BY <1>1, BacklogParts, BacklogTypesAgain
<1>3. ASSUME NEW r \in Services, r # s PROVE ActInOrder(r, act[r])'
  <2>1. ActInOrder(r, act[r]) /\ act'[r] = act[r]
    BY <1>1, <1>3, BacklogParts
  <2>2. Repairing(act[r]) => act[r].acct \in Accounts
    BY <2>1 DEF Repairing, ActInOrder
  <2> QED BY <2>1, <2>2, <1>3 DEF ActInOrder, Repairing
<1>4. \A r \in Services : ActInOrder(r, act[r])'
  BY <1>1, <1>3
<1> QED BY <1>2, <1>4 DEF BacklogInv

\* A page is stored with the keys it wants.
LEMMA CommitKeysKeeps == ASSUME BacklogInv, NEW s \in Services, CommitKeys(s) PROVE BacklogInv'
<1>1. PICK p \in Acts : p = act[s] /\ ActInOrder(s, p)
  BY BacklogParts
<1>2. PICK q : q = [p EXCEPT !.at = "paging", !.page = {}]
  OBVIOUS
<1>3. /\ p.at = "fetched" /\ holder[p.acct] = s /\ p.acct \in Accounts
      /\ referenced' = referenced \cup p.page
      /\ queued' = [queued EXCEPT ![p.acct] = queued[p.acct] \cup Wanting(p.page)]
      /\ act' = [act EXCEPT ![s] = q]
      /\ UNCHANGED <<known, disposed, holder, alive>>
  BY <1>1, <1>2 DEF CommitKeys, OwnsRow, ActInOrder
<1>4. q \in Acts /\ q.at = "paging" /\ q.acct = p.acct
  BY <1>1, <1>2 DEF Acts
<1>5. p.page \subseteq Keys
  BY <1>1 DEF Acts
<1>6. /\ queued' \in [Accounts -> SUBSET Keys] /\ referenced' \subseteq Keys
      /\ \A a \in Accounts : queued'[a] = queued[a] \cup (IF a = p.acct THEN Wanting(p.page) ELSE {})
  BY <1>3, <1>5, BacklogParts DEF Wanting
<1>7. KeysKept'
  <2>1. ASSUME NEW k \in referenced' PROVE k \in known \cup disposed \cup UNION {queued'[a] : a \in Accounts}
    <3>1. CASE k \in referenced
      BY <3>1, <1>6, BacklogParts DEF KeysKept
    <3>2. CASE k \in p.page
      BY <3>2, <1>3, <1>6 DEF Wanting
    <3> QED BY <2>1, <3>1, <3>2, <1>3
  <2> QED BY <2>1, <1>3 DEF KeysKept
<1>8. ActInOrder(s, q)'
  BY <1>3, <1>4 DEF ActInOrder, Repairing
<1> QED BY <1>3, <1>4, <1>6, <1>7, <1>8, BacklogParts, QueuesKeep

\* What is written back is the queue without a key that was discarded.
LEMMA SaveKeepsQueue ==
    ASSUME BacklogInv, NEW s \in Services, NEW p \in Acts, SaveProgress(s, p),
           p.acct \in Accounts, p.acct = act[s].acct,
           holder[p.acct] = s => queued[p.acct] \subseteq p.copy \cup disposed
    PROVE  BacklogInv'
<1>1. CASE MaySave(s)
  <2>1. PICK q : q = [p EXCEPT !.at = "repairing", !.key = NoKey]
    OBVIOUS
  <2>2. /\ holder[p.acct] = s
        /\ queued' = [queued EXCEPT ![p.acct] = p.copy] /\ act' = [act EXCEPT ![s] = q]
        /\ UNCHANGED <<referenced, known, disposed, holder, alive>>
    BY <1>1, <2>1 DEF SaveProgress, MaySave, OwnsRow
  <2>3. q \in Acts /\ q.at = "repairing" /\ q.acct = p.acct /\ q.copy = p.copy
    BY <2>1 DEF Acts
  <2>4. /\ p.copy \subseteq Keys /\ queued' \in [Accounts -> SUBSET Keys]
        /\ \A a \in Accounts : queued'[a] = IF a = p.acct THEN p.copy ELSE queued[a]
    BY <2>2, BacklogParts DEF Acts
  <2>5. KeysKept'
    <3>1. ASSUME NEW k \in referenced PROVE k \in known \cup disposed \cup UNION {queued'[a] : a \in Accounts}
      BY <2>2, <2>4, BacklogParts DEF KeysKept
    <3> QED BY <3>1, <2>2 DEF KeysKept
  <2>6. ActInOrder(s, q)'
    BY <2>3, <2>4 DEF ActInOrder
  <2> QED BY <2>2, <2>3, <2>4, <2>5, <2>6, BacklogParts, QueuesKeep
<1>2. CASE ~MaySave(s)
  <2>1. PICK q : q = [p EXCEPT !.at = "leaving"]
    OBVIOUS
  <2>2. q \in Acts /\ q.at = "leaving" /\ q.acct = p.acct
    BY <2>1 DEF Acts
  <2>3. ActInOrder(s, q)
    BY <2>2 DEF ActInOrder, Repairing
  <2> QED BY <1>2, <2>1, <2>2, <2>3, ProceedKeeps DEF SaveProgress
<1> QED BY <1>1, <1>2

\* A repair drops a key that was discarded, or one whose problem could not be read.
LEMMA ProgressKeeps ==
    ASSUME BacklogInv, NEW s \in Services, (\E k \in Keys : DropDisposed(s, k)) \/ FailItem(s)
    PROVE  BacklogInv'
<1>1. PICK p \in Acts : p = act[s] /\ ActInOrder(s, p)
  BY BacklogParts
<1>2. CASE FailItem(s)
  <2>1. p.acct \in Accounts /\ Repairing(p)
    BY <1>1, <1>2 DEF FailItem, ActInOrder, Repairing
  <2> QED BY <1>1, <1>2, <2>1, SaveKeepsQueue DEF FailItem, ActInOrder
<1>3. ASSUME NEW k \in Keys, DropDisposed(s, k) PROVE BacklogInv'
  <2>1. PICK q : q = [p EXCEPT !.copy = p.copy \ {k}]
    OBVIOUS
  <2>2. p.at = "repairing" /\ k \in disposed /\ SaveProgress(s, q)
    BY <1>1, <1>3, <2>1 DEF DropDisposed
  <2>3. q \in Acts /\ q.acct = p.acct /\ q.copy = p.copy \ {k}
    BY <1>1, <2>1 DEF Acts
  <2>4. q.acct \in Accounts /\ (holder[q.acct] = s => queued[q.acct] \subseteq q.copy \cup disposed)
    BY <1>1, <2>2, <2>3 DEF ActInOrder, Repairing
  <2> QED BY <1>1, <2>2, <2>3, <2>4, SaveKeepsQueue
<1> QED BY <1>2, <1>3

\* A problem is stored and leaves the queue and the copy at once.
LEMMA CommitItemKeeps == ASSUME BacklogInv, NEW s \in Services, CommitItem(s) PROVE BacklogInv'
<1>1. PICK p \in Acts : p = act[s] /\ ActInOrder(s, p)
  BY BacklogParts
<1>2. PICK q : q = IF p.kind = "pass" THEN [p EXCEPT !.at = "repairing", !.copy = p.copy \ {p.key}, !.key = NoKey]
                   ELSE [p EXCEPT !.at = "leaving"]
  OBVIOUS
<1>3. /\ p.at = "requested" /\ p.acct \in Accounts /\ p.key \in queued[p.acct]
      /\ known' = known \cup {p.key}
      /\ queued' = [queued EXCEPT ![p.acct] = queued[p.acct] \ {p.key}]
      /\ act' = [act EXCEPT ![s] = q]
      /\ UNCHANGED <<referenced, disposed, holder, alive>>
  BY <1>1, <1>2 DEF CommitItem, MayStore, StillWanted, ActInOrder
<1>4. /\ q \in Acts /\ q.acct = p.acct /\ q.at \in {"repairing", "leaving"}
      /\ q.at = "repairing" => Repairing(p) /\ q.copy = p.copy \ {p.key}
  BY <1>1, <1>2, <1>3 DEF Acts, Repairing
<1>5. /\ queued' \in [Accounts -> SUBSET Keys] /\ known' \subseteq Keys
      /\ \A a \in Accounts : queued'[a] = queued[a] \ (IF a = p.acct THEN {p.key} ELSE {})
  BY <1>3, BacklogParts
<1>6. KeysKept'
  <2>1. ASSUME NEW k \in referenced PROVE k \in known' \cup disposed \cup UNION {queued'[a] : a \in Accounts}
    BY <1>3, <1>5, BacklogParts DEF KeysKept
  <2> QED BY <2>1, <1>3 DEF KeysKept
<1>7. ActInOrder(s, q)'
  <2>1. q.at = "repairing" /\ holder[p.acct] = s => queued'[p.acct] \subseteq q.copy
    BY <1>1, <1>3, <1>4, <1>5 DEF ActInOrder
  <2> QED BY <2>1, <1>3, <1>4 DEF ActInOrder, Repairing
<1> QED BY <1>3, <1>4, <1>5, <1>6, <1>7, BacklogParts, QueuesKeep

\* Keys are discarded from every queue, and those restored are stored or queued again.
LEMMA DispositionsKeep ==
    ASSUME BacklogInv, NEW s \in Services, NEW S \in SUBSET Keys, Discard(s, S) \/ RestoreKeys(s, S)
    PROVE  BacklogInv'
<1>1. PICK p \in Acts : p = act[s] /\ ActInOrder(s, p)
  BY BacklogParts
<1>2. PICK q : q = [p EXCEPT !.at = "leaving"]
  OBVIOUS
<1>3. p.at = "disposing" /\ holder[p.acct] = s /\ p.acct \in Accounts
  BY <1>1 DEF Discard, RestoreKeys, OwnsRow, ActInOrder
<1>4. q \in Acts /\ q.at = "leaving" /\ q.acct = p.acct
  BY <1>1, <1>2 DEF Acts
<1>5. ActInOrder(s, q)'
  BY <1>3, <1>4 DEF ActInOrder, Repairing
<1>6. act' = [act EXCEPT ![s] = q] /\ UNCHANGED <<referenced, known, holder, alive>>
  <2>1. act' = [act EXCEPT ![s].at = "leaving"] /\ UNCHANGED <<referenced, known, holder, alive>>
    BY DEF Discard, RestoreKeys
  <2> QED BY <2>1, <1>1, <1>2
<1>7. CASE Discard(s, S)
  <2>1. disposed' = disposed \cup S /\ queued' = [a \in Accounts |-> queued[a] \ S]
    BY <1>7 DEF Discard
  <2>2. /\ queued' \in [Accounts -> SUBSET Keys] /\ disposed' \subseteq Keys
        /\ \A a \in Accounts : queued'[a] = queued[a] \ S
    BY <2>1, BacklogParts
  <2>3. KeysKept'
    <3>1. ASSUME NEW k \in referenced PROVE k \in known \cup disposed' \cup UNION {queued'[a] : a \in Accounts}
      BY <2>1, <2>2, BacklogParts DEF KeysKept
    <3> QED BY <3>1, <1>6 DEF KeysKept
  <2>4. ASSUME NEW b \in Accounts PROVE queued'[b] \subseteq queued[b]
    BY <2>2
  <2>5. referenced' \subseteq Keys /\ known' \subseteq Keys
    BY <1>6, BacklogParts
  <2> QED BY <1>4, <1>5, <1>6, <2>2, <2>3, <2>4, <2>5, QueuesKeep
<1>8. CASE RestoreKeys(s, S)
  <2>1. /\ disposed' = disposed \ S
        /\ queued' = [b \in Accounts |->
                        IF b = p.acct THEN (queued[p.acct] \ S) \cup Requeued(S) ELSE queued[b] \ S]
    BY <1>1, <1>8 DEF RestoreKeys
  <2>2. /\ queued' \in [Accounts -> SUBSET Keys] /\ disposed' \subseteq Keys
        /\ \A b \in Accounts :
              queued'[b] = IF b = p.acct THEN (queued[p.acct] \ S) \cup Requeued(S) ELSE queued[b] \ S
    BY <2>1, BacklogParts DEF Requeued
  <2>3. KeysKept'
    <3>1. ASSUME NEW k \in referenced PROVE k \in known \cup disposed' \cup UNION {queued'[a] : a \in Accounts}
      <4>1. CASE k \in S
        BY <4>1, <2>2, <1>3 DEF Requeued
      <4>2. CASE k \notin S
        BY <4>2, <2>1, <2>2, BacklogParts DEF KeysKept
      <4> QED BY <4>1, <4>2
    <3> QED BY <3>1, <1>6 DEF KeysKept
  <2>4. ASSUME NEW b \in Accounts, holder[b] # s PROVE queued'[b] \subseteq queued[b]
    BY <2>2, <2>4, <1>3
  <2>5. referenced' \subseteq Keys /\ known' \subseteq Keys
    BY <1>6, BacklogParts
  <2> QED BY <1>4, <1>5, <1>6, <2>2, <2>3, <2>4, <2>5, QueuesKeep
<1> QED BY <1>7, <1>8

\* A service lets go of its row, or its process ends.
LEMMA LeavingKeeps ==
    ASSUME BacklogInv, NEW s \in Services, LeaveRow(s) \/ EndProcess(s) PROVE BacklogInv'
<1>1. Resting \in Acts /\ Resting.at = "idle"
  BY DEF Resting, Acts
<1>2. act' = [act EXCEPT ![s] = Resting] /\ UNCHANGED <<referenced, known, disposed, queued>>
  BY DEF LeaveRow, EndProcess
<1>3. PICK p \in Acts : p = act[s] /\ ActInOrder(s, p)
  BY BacklogParts
<1>4. /\ holder' \in [Accounts -> Services \cup {Nobody}] /\ alive' \in [Accounts -> BOOLEAN]
      /\ \A a \in Accounts : holder'[a] \in {holder[a], Nobody}
  <2>1. CASE LeaveRow(s)
    BY <2>1, <1>3, BacklogParts DEF LeaveRow, ActInOrder
  <2>2. CASE EndProcess(s)
    BY <2>2, BacklogParts DEF EndProcess
  <2> QED BY <2>1, <2>2
<1>5. act' \in [Services -> Acts] /\ \A r \in Services : act'[r] = IF r = s THEN Resting ELSE act[r]
  BY <1>1, <1>2, BacklogParts
<1>6. BacklogTypeOK'
  BY <1>2, <1>4, <1>5, BacklogParts, BacklogTypesAgain
<1>7. ASSUME NEW r \in Services PROVE ActInOrder(r, act[r])'
  <2>1. CASE r = s
    BY <2>1, <1>1, <1>5 DEF ActInOrder, Repairing
  <2>2. CASE r # s
    <3>1. ActInOrder(r, act[r]) /\ act'[r] = act[r]
      BY <1>5, <2>2, BacklogParts
    <3>2. Repairing(act[r]) => act[r].acct \in Accounts
      BY <3>1 DEF Repairing, ActInOrder
    <3>3. r # Nobody
      BY SourceAssumption
    <3> QED BY <3>1, <3>2, <3>3, <1>2, <1>4 DEF ActInOrder, Repairing
  <2> QED BY <2>1, <2>2
<1> QED BY <1>2, <1>6, <1>7, BacklogParts DEF BacklogInv, KeysKept

\* The steps of a service that touch neither queues nor holders.
LEMMA WorkKeepsBacklog ==
    ASSUME BacklogInv, NEW s \in Services,
           \/ LetGo(s) \/ RefuseItem(s) \/ FetchKeys(s) \/ EndPages(s) \/ OpenRepair(s)
           \/ ReadClock(s) \/ Request(s) \/ (\E k \in Keys : PickKey(s, k))
           \/ \E a \in Accounts, k \in Keys : AskForItem(s, a, k)
    PROVE  BacklogInv'
<1>1. PICK p \in Acts : p = act[s] /\ ActInOrder(s, p)
  BY BacklogParts
<1>2. Resting \in Acts /\ Resting.at = "idle"
  BY DEF Resting, Acts
<1>3. CASE LetGo(s)
  <2>1. PICK q : q = [p EXCEPT !.at = "leaving"]
    OBVIOUS
  <2>2. q \in Acts /\ q.at = "leaving" /\ q.acct = p.acct /\ p.at # "idle" /\ Proceed(s, q)
    BY <1>1, <1>3, <2>1 DEF Acts, LetGo
  <2> QED BY <1>1, <2>2, ProceedKeeps DEF ActInOrder, Repairing
<1>4. CASE RefuseItem(s)
  BY <1>2, <1>4, ProceedKeeps DEF RefuseItem, ActInOrder, Repairing
<1>5. CASE FetchKeys(s)
  <2>1. PICK page \in SUBSET Keys : Proceed(s, [p EXCEPT !.at = "fetched", !.page = page]) /\ p.at = "paging"
    BY <1>1, <1>5 DEF FetchKeys
  <2>2. PICK q : q = [p EXCEPT !.at = "fetched", !.page = page]
    OBVIOUS
  <2>3. q \in Acts /\ q.at = "fetched" /\ q.acct = p.acct
    BY <1>1, <2>2 DEF Acts
  <2> QED BY <1>1, <2>1, <2>2, <2>3, ProceedKeeps DEF ActInOrder, Repairing
<1>6. CASE EndPages(s)
  <2>1. PICK q : q = [p EXCEPT !.at = "opening"]
    OBVIOUS
  <2>2. q \in Acts /\ q.at = "opening" /\ q.acct = p.acct /\ p.at = "paging" /\ Proceed(s, q)
    BY <1>1, <1>6, <2>1 DEF Acts, EndPages
  <2> QED BY <1>1, <2>2, ProceedKeeps DEF ActInOrder, Repairing
<1>7. CASE OpenRepair(s)
  <2>1. p.at = "opening" /\ p.acct \in Accounts
    BY <1>1, <1>7 DEF OpenRepair, ActInOrder
  <2>2. CASE holder[p.acct] = s
    <3>1. PICK q : q = [p EXCEPT !.at = "repairing", !.copy = queued[p.acct]]
      OBVIOUS
    <3>2. q \in Acts /\ q.at = "repairing" /\ q.acct = p.acct /\ q.copy = queued[p.acct] /\ Proceed(s, q)
      BY <1>1, <1>7, <2>1, <2>2, <3>1, BacklogParts DEF Acts, OpenRepair
    <3> QED BY <1>1, <2>1, <3>2, ProceedKeeps DEF ActInOrder
  <2>3. CASE holder[p.acct] # s
    <3>1. PICK q : q = [p EXCEPT !.at = "leaving"]
      OBVIOUS
    <3>2. q \in Acts /\ q.at = "leaving" /\ q.acct = p.acct /\ Proceed(s, q)
      BY <1>1, <1>7, <2>3, <3>1 DEF Acts, OpenRepair
    <3> QED BY <1>1, <2>1, <3>2, ProceedKeeps DEF ActInOrder, Repairing
  <2> QED BY <2>2, <2>3
<1>8. CASE ReadClock(s) \/ Request(s)
  <2>1. PICK at \in {"renewing", "requested"}, sound \in BOOLEAN :
            Proceed(s, [p EXCEPT !.at = at, !.sound = sound])
    <3>1. CASE ReadClock(s)
      <4>1. alive[p.acct] \in BOOLEAN
        BY <1>1, <3>1, BacklogParts DEF ReadClock, ActInOrder
      <4> QED BY <1>1, <3>1, <4>1 DEF ReadClock
    <3>2. CASE Request(s)
      <4>1. [p EXCEPT !.at = "requested"] = [p EXCEPT !.at = "requested", !.sound = p.sound] /\ p.sound \in BOOLEAN
        BY DEF Acts
      <4> QED BY <1>1, <3>2, <4>1 DEF Request
    <3> QED BY <1>8, <3>1, <3>2
  <2>2. PICK q : q = [p EXCEPT !.at = at, !.sound = sound]
    OBVIOUS
  <2>3. /\ q \in Acts /\ q.at = at /\ q.acct = p.acct /\ q.kind = p.kind /\ q.copy = p.copy
        /\ p.at \in {"asking", "checking"}
    BY <1>1, <1>8, <2>2 DEF Acts, ReadClock, Request
  <2> QED BY <1>1, <2>1, <2>2, <2>3, ProceedKeeps DEF ActInOrder, Repairing
<1>9. ASSUME NEW k \in Keys, PickKey(s, k) PROVE BacklogInv'
  <2>1. PICK q : q = [p EXCEPT !.at = "asking", !.key = k, !.tried = p.tried \cup {k}]
    OBVIOUS
  <2>2. /\ q \in Acts /\ q.at = "asking" /\ q.acct = p.acct /\ q.kind = p.kind /\ q.copy = p.copy
        /\ p.at = "repairing" /\ Proceed(s, q)
    BY <1>1, <1>9, <2>1 DEF Acts, PickKey
  <2> QED BY <1>1, <2>2, ProceedKeeps DEF ActInOrder, Repairing
<1>10. ASSUME NEW a \in Accounts, NEW k \in Keys, AskForItem(s, a, k) PROVE BacklogInv'
  <2>1. PICK kind \in {"retry", "supplement"} :
            Proceed(s, [Resting EXCEPT !.at = "looking", !.kind = kind, !.acct = a, !.key = k])
    BY <1>10 DEF AskForItem
  <2>2. PICK q : q = [Resting EXCEPT !.at = "looking", !.kind = kind, !.acct = a, !.key = k]
    OBVIOUS
  <2>3. q \in Acts /\ q.at = "looking" /\ q.kind = kind /\ q.acct = a
    BY <1>2, <2>2 DEF Acts
  <2> QED BY <2>1, <2>2, <2>3, ProceedKeeps DEF ActInOrder, Repairing
<1> QED BY <1>3, <1>4, <1>5, <1>6, <1>7, <1>8, <1>9, <1>10

\* A row is claimed or renewed.
LEMMA LeasesKeepBacklog ==
    ASSUME BacklogInv, NEW s \in Services,
           ClaimForItem(s) \/ RenewRow(s) \/ \E a \in Accounts : BeginWork(s, a)
    PROVE  BacklogInv'
<1>1. PICK p \in Acts : p = act[s] /\ ActInOrder(s, p)
  BY BacklogParts
<1>2. Resting \in Acts /\ Resting.at = "idle"
  BY DEF Resting, Acts
<1>3. ASSUME NEW a \in Accounts, BeginWork(s, a) PROVE BacklogInv'
  <2>1. PICK stage \in {"paging", "opening", "disposing"} :
            ClaimRow(s, a, [Resting EXCEPT !.at = stage, !.acct = a])
    BY <1>3 DEF BeginWork
  <2>2. PICK q : q = [Resting EXCEPT !.at = stage, !.acct = a]
    OBVIOUS
  <2>3. q \in Acts /\ q.at = stage /\ q.acct = a
    BY <1>2, <2>2 DEF Acts
  <2> QED BY <2>1, <2>2, <2>3, ClaimRowKeeps DEF Repairing
<1>4. CASE ClaimForItem(s)
  <2>1. PICK q : q = [p EXCEPT !.at = IF p.kind = "retry" THEN "asking" ELSE "requested"]
    OBVIOUS
  <2>2. p.at = "looking" /\ p.kind # "pass" /\ p.acct \in Accounts /\ ClaimRow(s, p.acct, q)
    BY <1>1, <1>4, <2>1 DEF ClaimForItem, ActInOrder
  <2>3. q \in Acts /\ q.at \in {"asking", "requested"} /\ q.acct = p.acct /\ q.kind = p.kind
    BY <1>1, <2>1 DEF Acts
  <2> QED BY <2>2, <2>3, ClaimRowKeeps DEF Repairing
<1>5. CASE RenewRow(s)
  <2>1. PICK q : q = [p EXCEPT !.at = "checking", !.sound = FALSE]
    OBVIOUS
  <2>2. /\ p.at = "renewing" /\ p.acct \in Accounts
        /\ alive' = [alive EXCEPT ![p.acct] = TRUE] /\ act' = [act EXCEPT ![s] = q]
        /\ UNCHANGED <<referenced, known, disposed, queued, holder>>
    BY <1>1, <1>5, <2>1 DEF RenewRow, ActInOrder
  <2>3. /\ q \in Acts /\ q.at = "checking" /\ q.acct = p.acct /\ q.kind = p.kind /\ q.copy = p.copy
    BY <1>1, <2>1 DEF Acts
  <2>4. /\ act' \in [Services -> Acts] /\ \A r \in Services : act'[r] = IF r = s THEN q ELSE act[r]
        /\ alive' \in [Accounts -> BOOLEAN]
    BY <2>2, <2>3, BacklogParts
  <2>5. BacklogTypeOK'
    BY <2>2, <2>4, BacklogParts, BacklogTypesAgain
  <2>6. ActInOrder(s, q)
    BY <1>1, <2>2, <2>3 DEF ActInOrder, Repairing
  <2>7. \A r \in Services : ActInOrder(r, act[r])'
    BY <2>2, <2>4, <2>6, BacklogParts DEF ActInOrder
  <2> QED BY <2>2, <2>5, <2>7, BacklogParts DEF BacklogInv, KeysKept
<1> QED BY <1>3, <1>4, <1>5

\* A lease lapses.
LEMMA LapseKeepsBacklog == ASSUME BacklogInv, NEW a \in Accounts, LapseRow(a) PROVE BacklogInv'
<1>1. alive' \in [Accounts -> BOOLEAN] /\ UNCHANGED <<referenced, known, disposed, queued, holder, act>>
  BY BacklogParts DEF LapseRow
<1> QED BY <1>1 DEF BacklogInv, BacklogTypeOK, KeysKept, ActInOrder

\* Every step of the backlog keeps it so.
LEMMA BacklogStepKeeps == ASSUME BacklogInv, [BacklogNext]_backlogVars PROVE BacklogInv'
<1>1. CASE UNCHANGED backlogVars
  BY <1>1 DEF backlogVars, BacklogInv, BacklogTypeOK, KeysKept, ActInOrder
<1>2. ASSUME NEW a \in Accounts, LapseRow(a) PROVE BacklogInv'
  BY <1>2, LapseKeepsBacklog
<1>3. ASSUME NEW s \in Services,
             \/ LetGo(s) \/ RefuseItem(s) \/ FetchKeys(s) \/ EndPages(s) \/ OpenRepair(s)
             \/ ReadClock(s) \/ Request(s) \/ (\E k \in Keys : PickKey(s, k))
             \/ \E a \in Accounts : \E k \in Keys : AskForItem(s, a, k)
      PROVE  BacklogInv'
  BY <1>3, WorkKeepsBacklog
<1>4. ASSUME NEW s \in Services,
             ClaimForItem(s) \/ RenewRow(s) \/ \E a \in Accounts : BeginWork(s, a)
      PROVE  BacklogInv'
  BY <1>4, LeasesKeepBacklog
<1>5. ASSUME NEW s \in Services, (\E k \in Keys : DropDisposed(s, k)) \/ FailItem(s)
      PROVE  BacklogInv'
  BY <1>5, ProgressKeeps
<1>6. ASSUME NEW s \in Services, CommitKeys(s) \/ CommitItem(s) \/ LeaveRow(s) \/ EndProcess(s)
      PROVE  BacklogInv'
  BY <1>6, CommitKeysKeeps, CommitItemKeeps, LeavingKeeps
<1>7. ASSUME NEW s \in Services, NEW S \in SUBSET Keys, Discard(s, S) \/ RestoreKeys(s, S)
      PROVE  BacklogInv'
  BY <1>7, DispositionsKeep
<1> QED BY <1>1, <1>2, <1>3, <1>4, <1>5, <1>6, <1>7 DEF BacklogNext

\* The backlog is empty at first.
LEMMA BacklogStarts == BacklogInit => BacklogInv
<1>1. SUFFICES ASSUME BacklogInit PROVE BacklogInv
  OBVIOUS
<1>2. Resting \in Acts /\ Resting.at = "idle"
  BY DEF Resting, Acts
<1>3. BacklogTypeOK
  BY <1>1, <1>2 DEF BacklogInit, BacklogTypeOK, Acts
<1> QED BY <1>1, <1>2, <1>3 DEF BacklogInit, BacklogInv, KeysKept, ActInOrder, Repairing

\* A problem is stored by the service that holds its account, for a key that waits there.
LEMMA OnlyWantedIsStored ==
    ASSUME [BacklogNext]_backlogVars, NEW k \in known' \ known
    PROVE  /\ k \notin disposed
           /\ \E s \in Services : k = act[s].key /\ OwnsRow(s) /\ k \in queued[act[s].acct]
<1>1. PICK s \in Services : CommitItem(s)
  <2>1. known' # known
    OBVIOUS
  <2>2. ASSUME NEW a \in Accounts, LapseRow(a) PROVE FALSE
    BY <2>1, <2>2 DEF LapseRow
  <2>3. ASSUME NEW s \in Services,
               \/ LetGo(s) \/ ClaimForItem(s) \/ RefuseItem(s) \/ LeaveRow(s) \/ FetchKeys(s)
               \/ EndPages(s) \/ CommitKeys(s) \/ OpenRepair(s) \/ ReadClock(s) \/ RenewRow(s)
               \/ Request(s) \/ FailItem(s) \/ EndProcess(s)
        PROVE  FALSE
    BY <2>1, <2>3 DEF LetGo, ClaimForItem, RefuseItem, LeaveRow, FetchKeys, EndPages, CommitKeys,
           OpenRepair, ReadClock, RenewRow, Request, FailItem, EndProcess, Proceed, ClaimRow, SaveProgress
  <2>4. ASSUME NEW s \in Services, NEW a \in Accounts, BeginWork(s, a) \/ \E b \in Keys : AskForItem(s, a, b)
        PROVE  FALSE
    BY <2>1, <2>4 DEF BeginWork, AskForItem, ClaimRow, Proceed
  <2>5. ASSUME NEW s \in Services, NEW b \in Keys, PickKey(s, b) \/ DropDisposed(s, b) PROVE FALSE
    BY <2>1, <2>5 DEF PickKey, DropDisposed, SaveProgress, Proceed
  <2>6. ASSUME NEW s \in Services, NEW S \in SUBSET Keys, Discard(s, S) \/ RestoreKeys(s, S) PROVE FALSE
    BY <2>1, <2>6 DEF Discard, RestoreKeys
  <2>7. CASE UNCHANGED backlogVars
    BY <2>1, <2>7 DEF backlogVars
  <2> QED BY <2>2, <2>3, <2>4, <2>5, <2>6, <2>7 DEF BacklogNext
<1>2. k = act[s].key
  BY <1>1 DEF CommitItem
<1> QED BY <1>1, <1>2 DEF CommitItem, MayStore, StillWanted

\* For every number of services, accounts and keys: no key that submissions refer to is lost,
\* however leases lapse and copies of a queue grow stale, and a problem is stored only for a
\* key that is still queued and not discarded, by the service that holds the account
\* (repairMetadata, manageProblems, requireLiveQueuedMetadataKey).
THEOREM BacklogIsKept == BacklogSpec => []BacklogTypeOK /\ BacklogKept
<1>1. BacklogInit => BacklogInv
  BY BacklogStarts
<1>2. BacklogInv /\ [BacklogNext]_backlogVars => BacklogInv'
  BY BacklogStepKeeps
<1>3. BacklogInv => BacklogTypeOK /\ KeysKept
  BY DEF BacklogInv
<1>4. [BacklogNext]_backlogVars
        => [\A k \in known' \ known :
              /\ k \notin disposed
              /\ \E s \in Services : k = act[s].key /\ OwnsRow(s) /\ k \in queued[act[s].acct]]_backlogVars
  BY OnlyWantedIsStored
<1> QED BY <1>1, <1>2, <1>3, <1>4, PTL DEF BacklogSpec, BacklogKept, StoresOnlyWanted

-----------------------------------------------------------------------------
(* The opening of the file                                                 *)

Files == [version : Nat, tables : SUBSET Nat, marker : BOOLEAN, rows : Nat, wal : BOOLEAN]

Openings ==
    [stage : {"start", "classify", "copy", "vacuum", "verify", "migrate", "begin", "ddl", "check",
              "configure", "open", "backup", "prove", "failed"},
     seen : Nat, name : 0 .. MaxNames]

\* Nothing was lost by migrating: the file held nothing, or a whole copy lies beside it.
OriginKept == origin.tables = {} \/ \E n \in DOMAIN saved : saved[n] = CopyOf(origin, TRUE)

\* What a process has read is a version the file had, and whoever is past a stage can rely on
\* what the stage established, whatever others did to the file since.
OpenerInOrder(o) ==
    /\ o.stage # "start" => o.seen \in {origin.version, CurrentVersion}
    /\ o.stage # "start" /\ o.seen = CurrentVersion => file.version = CurrentVersion
    /\ o.stage \notin {"start", "classify", "failed"} => Known(origin)
    /\ o.stage \in {"copy", "vacuum", "verify"} => o.seen = origin.version
    /\ o.stage \in {"copy", "vacuum", "verify", "migrate", "begin", "ddl"} =>
         origin.version < CurrentVersion
    /\ o.stage \in {"migrate", "begin", "ddl"} => OriginKept
    /\ o.stage \in {"configure", "open", "backup", "prove"} => file.version = CurrentVersion
    /\ o.stage \in {"verify", "prove"} => o.name \in DOMAIN saved
    /\ o.stage = "prove" => saved[o.name].version = CurrentVersion

\* Two processes never look at one copy.
NamesDiffer(o, q) ==
    o.stage \in {"verify", "prove"} /\ q.stage \in {"verify", "prove"} => o.name # q.name

\* A copy is of the file as it was found, or of this build's version.
CopiesInOrder ==
    \A n \in DOMAIN saved :
        /\ saved[n].whole \in BOOLEAN
        /\ saved[n].version = CurrentVersion \/ saved[n] = CopyOf(origin, saved[n].whole)

LockInOrder == lockHolder = {} \/ \E p \in Openers : lockHolder = {p}

OpeningInv ==
    /\ origin \in FilesFound /\ file \in Files /\ LockInOrder
    /\ opener \in [Openers -> Openings]
    /\ OpeningSafe /\ CopiesInOrder
    /\ \A p \in Openers : OpenerInOrder(opener[p])
    /\ \A p, q \in Openers : p # q => NamesDiffer(opener[p], opener[q])

LEMMA TablesGrow ==
    /\ CurrentVersion \in Nat \ {0} /\ CurrentVersion \in TablesOf(CurrentVersion)
    /\ 0 \in TablesOf(CurrentVersion)
    /\ \A v \in 0 .. CurrentVersion - 1 : CurrentVersion \notin TablesOf(v)
    /\ \A v \in 0 .. CurrentVersion : TablesOf(v) \subseteq TablesOf(CurrentVersion) /\ 0 \in TablesOf(v)
    /\ \A v \in 0 .. CurrentVersion : TablesOf(v) \in SUBSET Nat
BY OpeningAssumption DEF TablesOf

\* A file this store knows has the tables of its version, and only an empty one has none.
LEMMA FilesKnown ==
    ASSUME NEW f \in FilesFound
    PROVE  /\ f \in Files /\ f.version \in 0 .. CurrentVersion + 1
           /\ f.version = 0 /\ f.tables = {} => f = Empty
           /\ Known(f) => f.version <= CurrentVersion
           /\ Known(f) /\ f.version = CurrentVersion => Exact(f)
           /\ Known(f) /\ f.tables = {} => f = Empty
<1>1. CurrentVersion \in Nat \ {0}
  BY OpeningAssumption
<1>2. f \in Files /\ f.version \in 0 .. CurrentVersion + 1
  <2> DEFINE Sound(g) == g \in Files /\ g.version \in 0 .. CurrentVersion + 1
  <2>1. ASSUME NEW v \in 0 .. CurrentVersion + 1, NEW T \in SUBSET Nat, NEW m \in BOOLEAN
        PROVE  Sound(File(v, T, m))
    BY <1>1 DEF File, Files
  <2> HIDE DEF Sound
  <2>2. \A v \in 0 .. CurrentVersion : TablesOf(v) \in SUBSET Nat
    BY TablesGrow
  <2>3. Alien \in Nat /\ 0 \in Nat
    BY <1>1 DEF Alien
  <2>4. ASSUME f \in {Empty, File(0, {0}, TRUE), File(0, {0}, FALSE), File(0, {Alien}, FALSE)} PROVE Sound(f)
    <3>1. {0} \in SUBSET Nat /\ {Alien} \in SUBSET Nat /\ {} \in SUBSET Nat /\ 0 \in 0 .. CurrentVersion + 1
      BY <1>1, <2>3
    <3>2. Sound(File(0, {}, FALSE)) /\ Sound(File(0, {0}, TRUE)) /\ Sound(File(0, {0}, FALSE)) /\ Sound(File(0, {Alien}, FALSE))
      BY <2>1, <3>1
    <3> QED BY <2>4, <3>2 DEF Empty
  <2>5. ASSUME f = File(CurrentVersion + 1, TablesOf(CurrentVersion) \cup {Alien}, TRUE) PROVE Sound(f)
    <3>1. TablesOf(CurrentVersion) \cup {Alien} \in SUBSET Nat /\ CurrentVersion + 1 \in 0 .. CurrentVersion + 1
      BY <1>1, <2>2, <2>3
    <3> QED BY <2>1, <2>5, <3>1
  <2>6. ASSUME \E v \in 1 .. CurrentVersion, marker \in BOOLEAN : f = File(v, TablesOf(v), marker) PROVE Sound(f)
    <3>1. PICK v \in 1 .. CurrentVersion, marker \in BOOLEAN : f = File(v, TablesOf(v), marker)
      BY <2>6
    <3>2. TablesOf(v) \in SUBSET Nat /\ v \in 0 .. CurrentVersion + 1
      BY <1>1, <2>2, <3>1
    <3> QED BY <2>1, <3>1, <3>2
  <2>7. ASSUME \E v \in 1 .. CurrentVersion : f = File(v, TablesOf(v) \cup {Alien}, TRUE) PROVE Sound(f)
    <3>1. PICK v \in 1 .. CurrentVersion : f = File(v, TablesOf(v) \cup {Alien}, TRUE)
      BY <2>7
    <3>2. TablesOf(v) \cup {Alien} \in SUBSET Nat /\ v \in 0 .. CurrentVersion + 1
      BY <1>1, <2>2, <2>3, <3>1
    <3> QED BY <2>1, <3>1, <3>2
  <2>8. ASSUME \E v \in (1 .. CurrentVersion) \ Silent : f = File(v, TablesOf(v) \ {v}, TRUE) PROVE Sound(f)
    <3>1. PICK v \in (1 .. CurrentVersion) \ Silent : f = File(v, TablesOf(v) \ {v}, TRUE)
      BY <2>8
    <3>2. TablesOf(v) \ {v} \in SUBSET Nat /\ v \in 0 .. CurrentVersion + 1
      BY <1>1, <2>2, <3>1
    <3> QED BY <2>1, <3>1, <3>2
  <2> DEFINE Right == {File(v, TablesOf(v), marker) : v \in 1 .. CurrentVersion, marker \in BOOLEAN}
             More == {File(v, TablesOf(v) \cup {Alien}, TRUE) : v \in 1 .. CurrentVersion}
             Fewer == {File(v, TablesOf(v) \ {v}, TRUE) : v \in (1 .. CurrentVersion) \ Silent}
             Other == {Empty, File(0, {0}, TRUE), File(0, {0}, FALSE), File(0, {Alien}, FALSE),
                       File(CurrentVersion + 1, TablesOf(CurrentVersion) \cup {Alien}, TRUE)}
  <2>9. FilesFound = Other \cup Right \cup More \cup Fewer
    BY DEF FilesFound
  <2>10. f \in Right => \E v \in 1 .. CurrentVersion, marker \in BOOLEAN : f = File(v, TablesOf(v), marker)
    OBVIOUS
  <2>11. f \in More => \E v \in 1 .. CurrentVersion : f = File(v, TablesOf(v) \cup {Alien}, TRUE)
    OBVIOUS
  <2>12. f \in Fewer => \E v \in (1 .. CurrentVersion) \ Silent : f = File(v, TablesOf(v) \ {v}, TRUE)
    OBVIOUS
  <2>13. f \in Other => \/ f \in {Empty, File(0, {0}, TRUE), File(0, {0}, FALSE), File(0, {Alien}, FALSE)}
                         \/ f = File(CurrentVersion + 1, TablesOf(CurrentVersion) \cup {Alien}, TRUE)
    OBVIOUS
  <2> HIDE DEF Right, More, Fewer, Other
  <2>14. Sound(f)
    BY <2>4, <2>5, <2>6, <2>7, <2>8, <2>9, <2>10, <2>11, <2>12, <2>13
  <2> QED BY <2>14 DEF Sound
<1>3. f.version = 0 /\ f.tables = {} => f = Empty
  BY <1>1 DEF FilesFound, File, Empty, TablesOf, Alien
<1>4. Known(f) => f.version <= CurrentVersion
  BY <1>1 DEF Known, Exact, LegacyV0, Empty, File
<1>5. Known(f) /\ f.version = CurrentVersion => Exact(f)
  BY <1>1 DEF Known, Exact, LegacyV0, Empty, File
<1>6. Known(f) /\ f.tables = {} => f = Empty
  BY <1>1 DEF Known, Exact, LegacyV0, TablesOf
<1> QED BY <1>2, <1>3, <1>4, <1>5, <1>6

LEMMA OpeningParts ==
    ASSUME OpeningInv
    PROVE  /\ origin \in FilesFound /\ file \in Files /\ LockInOrder
           /\ opener \in [Openers -> Openings] /\ OriginalSaved /\ FoundOrCurrent /\ StrangersUntouched
           /\ CopiesInOrder
           /\ \A p \in Openers : opener[p] \in Openings /\ OpenerInOrder(opener[p])
           /\ \A p, q \in Openers : p # q => NamesDiffer(opener[p], opener[q])
BY DEF OpeningInv, OpeningSafe

\* A step of one process, over what may have changed of the file and the copies.
LEMMA OpeningStepOfOne ==
    ASSUME OpeningInv, NEW p \in Openers, NEW o \in Openings,
           opener' = [opener EXCEPT ![p] = o], origin' = origin,
           file' \in Files, LockInOrder', OpeningSafe', CopiesInOrder',
           file.version = CurrentVersion => file'.version = CurrentVersion,
           OriginKept /\ origin.version < CurrentVersion => OriginKept',
           OpenerInOrder(o)',
           \A q \in Openers \ {p} :
               /\ NamesDiffer(o, opener[q])
               /\ opener[q].stage \in {"verify", "prove"} /\ opener[q].name \in DOMAIN saved =>
                    opener[q].name \in DOMAIN saved' /\ saved'[opener[q].name] = saved[opener[q].name]
    PROVE  OpeningInv'
<1>1. opener' \in [Openers -> Openings] /\ \A q \in Openers : opener'[q] = IF q = p THEN o ELSE opener[q]
  BY OpeningParts
<1>2. ASSUME NEW q \in Openers, q # p PROVE OpenerInOrder(opener[q])'
  <2>1. opener'[q] = opener[q] /\ OpenerInOrder(opener[q])
    BY <1>1, <1>2, OpeningParts
  <2>2. Known(origin) => Known(origin)'
    BY DEF Known, Exact, LegacyV0
  <2> QED BY <2>1, <2>2, <1>2 DEF OpenerInOrder
<1>3. \A q \in Openers : OpenerInOrder(opener[q])'
  BY <1>1, <1>2
<1>4. ASSUME NEW q \in Openers, NEW r \in Openers, q # r PROVE NamesDiffer(opener[q], opener[r])'
  BY <1>1, <1>4, OpeningParts DEF NamesDiffer
<1> QED BY <1>1, <1>3, <1>4, OpeningParts DEF OpeningInv

\* A step that changes neither the file nor the copies, and looks at no copy it has not looked
\* at before.
LEMMA OpenerMoves ==
    ASSUME OpeningInv, NEW p \in Openers, NEW o \in Openings,
           opener' = [opener EXCEPT ![p] = o], UNCHANGED <<file, origin, saved>>, LockInOrder',
           OpenerInOrder(o),
           o.stage \in {"verify", "prove"} => opener[p].stage \in {"verify", "prove"} /\ o.name = opener[p].name
    PROVE  OpeningInv'
<1>1. OpeningSafe' /\ CopiesInOrder' /\ file' \in Files
  BY OpeningParts DEF OpeningSafe, CopiesInOrder, OriginalSaved, FoundOrCurrent, StrangersUntouched,
     Known, Exact, LegacyV0
<1>2. OpenerInOrder(o)' /\ (OriginKept => OriginKept')
  BY DEF OpenerInOrder, OriginKept, Known, Exact, LegacyV0
<1>3. \A q \in Openers \ {p} : NamesDiffer(o, opener[q])
  BY OpeningParts DEF NamesDiffer
<1> QED BY <1>1, <1>2, <1>3, OpeningStepOfOne

\* What a process finds when it classifies a file: the one that was found, of the version it
\* read, or one of this build.
LEMMA Recognises ==
    ASSUME OpeningInv, NEW p \in Openers, opener[p].stage = "classify", Recognised(opener[p].seen)
    PROVE  /\ Known(origin)
           /\ opener[p].seen < CurrentVersion =>
                origin.version = opener[p].seen /\ file.tables = origin.tables
           /\ ~(opener[p].seen < CurrentVersion) => file.version = CurrentVersion
           /\ opener[p].seen \in 0 .. CurrentVersion
<1>1. PICK v : v = opener[p].seen
  OBVIOUS
<1>2. v \in 0 .. CurrentVersion /\ CurrentVersion \in Nat \ {0}
  BY <1>1, TablesGrow DEF Recognised
<1>3. v \in {origin.version, CurrentVersion} /\ (v = CurrentVersion => file.version = CurrentVersion)
  BY <1>1, OpeningParts DEF OpenerInOrder
<1>4. Known(origin)
  <2>1. SUFFICES ASSUME ~Known(origin) PROVE FALSE
    OBVIOUS
  <2>2. file = origin
    BY <2>1, OpeningParts DEF StrangersUntouched
  <2>3. v = origin.version
    BY <1>3, <2>2
  <2>4. CASE v \in 1 .. CurrentVersion /\ LooksLike(v)
    BY <2>1, <2>2, <2>3, <2>4 DEF LooksLike, Known, Exact
  <2>5. CASE v = 0 /\ file.tables = {}
    BY <2>1, <2>2, <2>3, <2>5, FilesKnown, OpeningParts DEF Known
  <2>6. CASE v = 0 /\ file.tables = {0} /\ file.marker
    BY <2>1, <2>2, <2>3, <2>6 DEF Known, LegacyV0
  <2> QED BY <1>1, <2>4, <2>5, <2>6 DEF Recognised
<1>5. ASSUME v < CurrentVersion PROVE origin.version = v /\ file.tables = origin.tables
  <2>1. origin.version = v
    BY <1>2, <1>3, <1>5
  <2>2. CASE file = origin
    BY <2>1, <2>2
  <2>3. CASE file # origin
    <3>1. file.tables = TablesOf(CurrentVersion) /\ CurrentVersion \in file.tables
      BY <2>3, OpeningParts, TablesGrow DEF FoundOrCurrent, Exact
    <3>2. CurrentVersion \notin TablesOf(v)
      BY <1>2, <1>5, TablesGrow
    <3> QED BY <1>1, <1>2, <3>1, <3>2 DEF Recognised, LooksLike
  <2> QED BY <2>2, <2>3
<1> QED BY <1>1, <1>2, <1>3, <1>4, <1>5

\* Read and classify.
LEMMA ReadingKeeps ==
    ASSUME OpeningInv, NEW p \in Openers, ReadVersion(p) \/ Classify(p) \/ ReadFrom(p)
    PROVE  OpeningInv'
<1>1. PICK r \in Openings : r = opener[p] /\ OpenerInOrder(r)
  BY OpeningParts
<1>2. /\ file.version \in Nat /\ LockInOrder' /\ UNCHANGED <<file, origin, saved>>
      /\ file.version \in {origin.version, CurrentVersion}
  BY OpeningParts DEF Files, LockInOrder, ReadVersion, Classify, ReadFrom, FoundOrCurrent
<1>3. CASE ReadVersion(p) \/ ReadFrom(p)
  <2>1. PICK o : o = [r EXCEPT !.stage = IF ReadFrom(p) THEN "begin" ELSE "classify", !.seen = file.version]
    OBVIOUS
  <2>2. /\ o \in Openings /\ o.seen = file.version
        /\ \/ o.stage = "classify"
           \/ o.stage = "begin" /\ r.stage = "migrate"
        /\ opener' = [opener EXCEPT ![p] = o]
    <3>1. CASE ReadFrom(p)
      BY <3>1, <2>1, <1>1, <1>2 DEF Openings, ReadFrom, At
    <3>2. CASE ~ReadFrom(p)
      BY <3>2, <2>1, <1>1, <1>2, <1>3 DEF Openings, ReadVersion, At
    <3> QED BY <3>1, <3>2
  <2>3. OpenerInOrder(o)
    BY <1>1, <1>2, <2>2 DEF OpenerInOrder
  <2> QED BY <1>2, <2>2, <2>3, OpenerMoves
<1>4. CASE Classify(p)
  <2>1. PICK next : next = IF ~Recognised(r.seen) THEN "failed"
                           ELSE IF NeedsCopy(r.seen) THEN "copy"
                           ELSE IF r.seen < CurrentVersion THEN "migrate" ELSE "configure"
    OBVIOUS
  <2>2. PICK o : o = [r EXCEPT !.stage = next]
    OBVIOUS
  <2>3. r.stage = "classify" /\ opener' = [opener EXCEPT ![p] = o]
    BY <1>1, <1>4, <2>1, <2>2 DEF Classify, At, Moves
  <2>4. o \in Openings /\ o.seen = r.seen /\ o.stage = next
        /\ next \in {"failed", "copy", "migrate", "configure"}
    BY <1>1, <2>1, <2>2 DEF Openings
  <2>5. OpenerInOrder(o)
    <3>1. CASE next = "failed"
      BY <3>1, <1>1, <2>3, <2>4 DEF OpenerInOrder
    <3>2. CASE next # "failed"
      <4>1. /\ Known(origin) /\ r.seen \in 0 .. CurrentVersion
            /\ r.seen < CurrentVersion => origin.version = r.seen /\ file.tables = origin.tables
            /\ ~(r.seen < CurrentVersion) => file.version = CurrentVersion
        BY <1>1, <2>1, <2>3, <3>2, Recognises
      <4>2. /\ next = "copy" => r.seen < CurrentVersion
            /\ next = "migrate" => r.seen < CurrentVersion /\ file.tables = {}
            /\ next = "configure" => ~(r.seen < CurrentVersion)
        BY <2>1 DEF NeedsCopy
      <4>3. next = "migrate" => OriginKept
        BY <4>1, <4>2 DEF OriginKept
      <4> QED BY <4>1, <4>2, <4>3, <1>1, <2>3, <2>4 DEF OpenerInOrder
    <3> QED BY <3>1, <3>2
  <2> QED BY <1>2, <2>3, <2>4, <2>5, OpenerMoves
<1> QED BY <1>3, <1>4

\* The steps that choose a name, believe a copy, take the lock, give up or begin again.
LEMMA PassingKeeps ==
    ASSUME OpeningInv, NEW p \in Openers,
           \/ ChooseName(p) \/ VerifyBackup(p) \/ BackupTo(p) \/ BeginMigration(p)
           \/ RollBack(p) \/ CheckCurrent(p) \/ Reopen(p)
    PROVE  OpeningInv'
<1>1. PICK r \in Openings : r = opener[p] /\ OpenerInOrder(r)
  BY OpeningParts
<1>2. UNCHANGED <<file, origin, saved>>
  BY DEF ChooseName, VerifyBackup, BackupTo, BeginMigration, RollBack, CheckCurrent, Reopen
<1>3. LockInOrder'
  BY OpeningParts DEF LockInOrder, ChooseName, VerifyBackup, BackupTo, BeginMigration, RollBack,
     CheckCurrent, Reopen
<1>4. ASSUME r.stage # "start", opener' = [opener EXCEPT ![p].stage = "failed"] PROVE OpeningInv'
  <2>1. PICK o : o = [r EXCEPT !.stage = "failed"]
    OBVIOUS
  <2>2. o \in Openings /\ o.stage = "failed" /\ o.seen = r.seen /\ opener' = [opener EXCEPT ![p] = o]
    BY <1>1, <1>4, <2>1 DEF Openings
  <2>3. OpenerInOrder(o)
    BY <1>1, <1>4, <2>2 DEF OpenerInOrder
  <2> QED BY <1>2, <1>3, <2>2, <2>3, OpenerMoves
<1>5. ASSUME NEW n \in 1 .. MaxNames, NEW next \in {"vacuum", "backup"},
             r.stage = IF next = "vacuum" THEN "copy" ELSE "open",
             opener' = [opener EXCEPT ![p].stage = next, ![p].name = n]
      PROVE  OpeningInv'
  <2>1. PICK o : o = [r EXCEPT !.stage = next, !.name = n]
    OBVIOUS
  <2>2. /\ n \in 0 .. MaxNames
        /\ next \in {"start", "classify", "copy", "vacuum", "verify", "migrate", "begin", "ddl", "check",
                    "configure", "open", "backup", "prove", "failed"}
    BY OpeningAssumption
  <2>3. o \in Openings /\ o.stage = next /\ o.seen = r.seen
    BY <2>1, <2>2 DEF Openings
  <2>4. opener' = [opener EXCEPT ![p] = o]
    BY <1>1, <1>5, <2>1
  <2>5. OpenerInOrder(o)
    BY <1>1, <1>5, <2>3 DEF OpenerInOrder
  <2> QED BY <1>2, <1>3, <2>3, <2>4, <2>5, OpenerMoves
<1>6. CASE ChooseName(p)
  BY <1>1, <1>4, <1>5, <1>6 DEF ChooseName, At, Moves, FailsToOpen
<1>7. CASE BackupTo(p)
  BY <1>1, <1>5, <1>7 DEF BackupTo, At
<1>8. CASE VerifyBackup(p)
  <2>1. PICK readable \in BOOLEAN :
          /\ r.stage = "verify"
          /\ opener' = [opener EXCEPT ![p].stage = IF readable /\ Verified(p, r.seen) THEN "migrate" ELSE "failed"]
    BY <1>1, <1>8 DEF VerifyBackup, At, Moves
  <2>2. CASE ~(readable /\ Verified(p, r.seen))
    BY <1>4, <2>1, <2>2
  <2>3. CASE readable /\ Verified(p, r.seen)
    <3>1. PICK o : o = [r EXCEPT !.stage = "migrate"]
      OBVIOUS
    <3>2. o \in Openings /\ o.stage = "migrate" /\ o.seen = r.seen /\ opener' = [opener EXCEPT ![p] = o]
      BY <1>1, <2>1, <2>3, <3>1 DEF Openings
    <3>3. /\ r.name \in DOMAIN saved /\ origin.version < CurrentVersion /\ r.seen = origin.version
          /\ origin.version \in Nat /\ CurrentVersion \in Nat
      BY <1>1, <2>1, OpeningParts, FilesKnown, TablesGrow DEF OpenerInOrder, Files
    <3>4. saved[r.name].whole /\ saved[r.name].version # CurrentVersion
      BY <1>1, <2>3, <3>3 DEF Verified
    <3>5. saved[r.name].whole = TRUE /\ saved[r.name] = CopyOf(origin, saved[r.name].whole)
      BY <3>3, <3>4, OpeningParts DEF CopiesInOrder
    <3>6. OriginKept
      BY <3>3, <3>5 DEF OriginKept
    <3>7. OpenerInOrder(o)
      BY <1>1, <2>1, <3>2, <3>3, <3>6 DEF OpenerInOrder
    <3> QED BY <1>2, <1>3, <3>2, <3>7, OpenerMoves
  <2> QED BY <2>2, <2>3
<1>9. CASE BeginMigration(p)
  <2>1. CASE lockHolder = {}
    <3>1. PICK o : o = [r EXCEPT !.stage = "ddl"]
      OBVIOUS
    <3>2. /\ o \in Openings /\ o.stage = "ddl" /\ o.seen = r.seen /\ opener' = [opener EXCEPT ![p] = o]
          /\ r.stage = "begin"
      BY <1>1, <1>9, <2>1, <3>1 DEF Openings, BeginMigration, At, Moves
    <3>3. OpenerInOrder(o)
      BY <1>1, <3>2 DEF OpenerInOrder
    <3> QED BY <1>2, <1>3, <3>2, <3>3, OpenerMoves
  <2>2. CASE lockHolder # {}
    BY <1>1, <1>4, <1>9, <2>2 DEF BeginMigration, At, Moves, FailsToOpen
  <2> QED BY <2>1, <2>2
<1>10. CASE RollBack(p)
  BY <1>1, <1>4, <1>10 DEF RollBack, At, Moves, FailsToOpen
<1>11. CASE CheckCurrent(p)
  <2>1. CASE ~(file.version = CurrentVersion /\ LooksLike(CurrentVersion))
    BY <1>1, <1>4, <1>11, <2>1 DEF CheckCurrent, At, Moves
  <2>2. CASE file.version = CurrentVersion /\ LooksLike(CurrentVersion)
    <3>1. PICK o : o = [r EXCEPT !.stage = "configure"]
      OBVIOUS
    <3>2. /\ o \in Openings /\ o.stage = "configure" /\ o.seen = r.seen
          /\ opener' = [opener EXCEPT ![p] = o] /\ r.stage = "check"
      BY <1>1, <1>11, <2>2, <3>1 DEF Openings, CheckCurrent, At, Moves
    <3>3. OpenerInOrder(o)
      BY <1>1, <2>2, <3>2 DEF OpenerInOrder
    <3> QED BY <1>2, <1>3, <3>2, <3>3, OpenerMoves
  <2> QED BY <2>1, <2>2
<1>12. CASE Reopen(p)
  <2>1. NotOpening \in Openings /\ NotOpening.stage = "start"
    BY OpeningAssumption DEF NotOpening, Openings
  <2>2. opener' = [opener EXCEPT ![p] = NotOpening]
    BY <1>12 DEF Reopen
  <2> QED BY <1>2, <1>3, <2>1, <2>2, OpenerMoves DEF OpenerInOrder
<1> QED BY <1>6, <1>7, <1>8, <1>9, <1>10, <1>11, <1>12

\* The migration goes through only on the file that was found, and makes it this build's.
LEMMA MigrationIsWhole ==
    ASSUME OpeningInv, NEW p \in Openers, Commit(p)
    PROVE  /\ file = origin /\ origin.version < CurrentVersion /\ Known(origin) /\ OriginKept
           /\ file' \in Files /\ file'.version = CurrentVersion /\ Exact(file)'
<1>1. PICK r \in Openings : r = opener[p] /\ OpenerInOrder(r)
  BY OpeningParts
<1>2. /\ r.stage = "ddl" /\ (Added(p) \ {0}) \cap file.tables = {} /\ file' = Migrated(p)
  BY <1>1 DEF Commit, At, Collides
<1>3. /\ Known(origin) /\ origin.version < CurrentVersion /\ OriginKept
      /\ r.seen \in {origin.version, CurrentVersion} /\ (r.seen = CurrentVersion => file.version = CurrentVersion)
  BY <1>1, <1>2 DEF OpenerInOrder
<1>4. file = origin
  <2>1. SUFFICES ASSUME file # origin PROVE FALSE
    OBVIOUS
  <2>2. CurrentVersion \in file.tables /\ CurrentVersion # 0
    BY <2>1, OpeningParts, TablesGrow DEF FoundOrCurrent, Exact
  <2> QED BY <1>2, <2>2 DEF Added
<1>5. origin \in Files /\ origin.version \in 0 .. CurrentVersion - 1 /\ CurrentVersion \in Nat \ {0}
  BY <1>3, OpeningParts, FilesKnown, TablesGrow
<1>6. r.seen = origin.version
  BY <1>3, <1>4, <1>5
<1>7. PICK v : v = r.seen
  OBVIOUS
<1>8. v \in 0 .. CurrentVersion - 1 /\ origin.version = v
  BY <1>5, <1>6, <1>7
<1>9. Added(p) = IF v = 0 THEN TablesOf(CurrentVersion) ELSE TablesOf(CurrentVersion) \ TablesOf(v)
  BY <1>1, <1>7, <1>8, TablesGrow DEF Added
<1>10. file'.version = CurrentVersion /\ file'.tables = origin.tables \cup Added(p)
       /\ file'.marker = (origin.marker \/ v = 0) /\ file'.rows = origin.rows /\ file'.wal = origin.wal
       /\ file' \in [version : {CurrentVersion}, tables : {origin.tables \cup Added(p)}, marker : BOOLEAN, rows : Nat, wal : BOOLEAN]
  BY <1>1, <1>2, <1>4, <1>5, <1>7 DEF Migrated, Files
<1>11. origin.tables \subseteq TablesOf(CurrentVersion) /\ (v # 0 => origin.tables = TablesOf(v) /\ origin.marker)
  BY <1>3, <1>5, <1>8, TablesGrow DEF Known, Exact, LegacyV0, Empty, File
<1>12. file'.tables = TablesOf(CurrentVersion) /\ file'.marker
  <2>1. CASE v = 0
    BY <2>1, <1>9, <1>10, <1>11
  <2>2. CASE v # 0
    BY <2>2, <1>8, <1>9, <1>10, <1>11, TablesGrow
  <2> QED BY <2>1, <2>2
<1>13. file' \in Files
  BY <1>5, <1>10, <1>12, TablesGrow DEF Files
<1> QED BY <1>3, <1>4, <1>5, <1>10, <1>12, <1>13 DEF Exact

\* The steps that write the file.
LEMMA WritingKeepsFile ==
    ASSUME OpeningInv, NEW p \in Openers, Commit(p) \/ Configure(p) \/ WriteRow(p)
    PROVE  OpeningInv'
<1>1. PICK r \in Openings : r = opener[p] /\ OpenerInOrder(r)
  BY OpeningParts
<1>2. origin' = origin /\ saved' = saved /\ LockInOrder'
  BY OpeningParts DEF Commit, Configure, WriteRow, LockInOrder
<1>3. CopiesInOrder' /\ (OriginKept => OriginKept')
  BY <1>2, OpeningParts DEF CopiesInOrder, OriginKept
<1>4. ASSUME NEW o \in Openings, opener' = [opener EXCEPT ![p] = o], OpenerInOrder(o)',
             o.stage \notin {"verify", "prove"}, Known(origin), OriginKept \/ origin.version = CurrentVersion,
             file' \in Files, file'.version = CurrentVersion, Exact(file)'
      PROVE  OpeningInv'
  <2>1. FoundOrCurrent' /\ StrangersUntouched'
    BY <1>2, <1>4 DEF FoundOrCurrent, StrangersUntouched, Known, Exact, LegacyV0
  <2>2. OriginalSaved'
    BY <1>2, <1>4 DEF OriginalSaved, OriginKept
  <2>3. \A q \in Openers \ {p} : NamesDiffer(o, opener[q])
    BY <1>4 DEF NamesDiffer
  <2> QED BY <1>2, <1>3, <1>4, <2>1, <2>2, <2>3, OpeningStepOfOne DEF OpeningSafe
<1>5. CASE Commit(p)
  <2>1. PICK o : o = [r EXCEPT !.stage = "check"]
    OBVIOUS
  <2>2. /\ o \in Openings /\ o.stage = "check" /\ o.seen = r.seen /\ opener' = [opener EXCEPT ![p] = o]
        /\ r.stage = "ddl"
    BY <1>1, <1>5, <2>1 DEF Openings, Commit, At, Moves
  <2>3. /\ Known(origin) /\ OriginKept /\ file' \in Files /\ file'.version = CurrentVersion /\ Exact(file)'
    BY <1>5, MigrationIsWhole
  <2>4. OpenerInOrder(o)'
    BY <1>1, <1>2, <2>2, <2>3 DEF OpenerInOrder, Known, Exact, LegacyV0
  <2> QED BY <1>4, <2>2, <2>3, <2>4
<1>6. ASSUME r.stage \in {"configure", "open"}
      PROVE  /\ Known(origin) /\ file.version = CurrentVersion /\ Exact(file)
             /\ OriginKept \/ origin.version = CurrentVersion
  <2>1. Known(origin) /\ file.version = CurrentVersion
    BY <1>1, <1>6 DEF OpenerInOrder
  <2>2. Exact(file)
    BY <2>1, OpeningParts, FilesKnown DEF FoundOrCurrent
  <2> QED BY <2>1, <2>2, OpeningParts DEF OriginalSaved, OriginKept
<1>7. CASE Configure(p)
  <2>1. r.stage = "configure"
    BY <1>1, <1>7 DEF Configure, At
  <2>2. CASE FailsToOpen(p) /\ UNCHANGED file
    <3>1. PICK o : o = [r EXCEPT !.stage = "failed"]
      OBVIOUS
    <3>2. /\ o \in Openings /\ o.stage = "failed" /\ o.seen = r.seen /\ opener' = [opener EXCEPT ![p] = o]
      BY <1>1, <2>2, <3>1 DEF Openings, FailsToOpen, Moves
    <3>3. OpenerInOrder(o)
      BY <1>1, <2>1, <3>2 DEF OpenerInOrder
    <3> QED BY <1>2, <2>2, <3>2, <3>3, OpenerMoves
  <2>3. CASE file' = [file EXCEPT !.wal = TRUE] /\ Moves(p, "open")
    <3>1. PICK o : o = [r EXCEPT !.stage = "open"]
      OBVIOUS
    <3>2. /\ o \in Openings /\ o.stage = "open" /\ o.seen = r.seen /\ opener' = [opener EXCEPT ![p] = o]
      BY <1>1, <2>3, <3>1 DEF Openings, Moves
    <3>3. file' \in Files /\ file'.version = CurrentVersion /\ Exact(file)'
      BY <2>1, <2>3, <1>6, OpeningParts DEF Files, Exact
    <3>4. OpenerInOrder(o)'
      BY <1>1, <1>2, <2>1, <3>2, <3>3 DEF OpenerInOrder, Known, Exact, LegacyV0
    <3> QED BY <1>4, <1>6, <2>1, <3>2, <3>3, <3>4
  <2> QED BY <1>7, <2>2, <2>3 DEF Configure
<1>8. CASE WriteRow(p)
  <2>1. r.stage = "open" /\ file' = [file EXCEPT !.rows = @ + 1] /\ opener' = [opener EXCEPT ![p] = r]
    BY <1>1, <1>8, OpeningParts DEF WriteRow, At
  <2>2. file' \in Files /\ file'.version = CurrentVersion /\ Exact(file)'
    BY <2>1, <1>6, OpeningParts DEF Files, Exact
  <2>3. OpenerInOrder(r)'
    BY <1>1, <1>2, <2>1, <2>2 DEF OpenerInOrder, Known, Exact, LegacyV0
  <2> QED BY <1>4, <1>6, <2>1, <2>2, <2>3
<1> QED BY <1>5, <1>7, <1>8

\* A copy is written under a name nobody has used, of the file as it is.
LEMMA CopyingKeeps ==
    ASSUME OpeningInv, NEW p \in Openers, VacuumInto(p) \/ BackupInto(p)
    PROVE  OpeningInv'
<1>1. PICK r \in Openings : r = opener[p] /\ OpenerInOrder(r)
  BY OpeningParts
<1>2. PICK good \in {"verify", "prove"}, bad \in {"failed", "open"} :
        /\ r.stage = IF good = "verify" THEN "vacuum" ELSE "backup"
        /\ bad = IF good = "verify" THEN "failed" ELSE "open"
        /\ Vacuum(p, r.stage, good, bad)
  BY <1>1 DEF VacuumInto, BackupInto, Vacuum, At
<1>3. UNCHANGED <<file, origin, lockHolder>> /\ LockInOrder'
  BY <1>2, OpeningParts DEF Vacuum, LockInOrder
<1>4. Known(origin) /\ OpenerInOrder([r EXCEPT !.stage = bad])
  <2>1. PICK o : o = [r EXCEPT !.stage = bad]
    OBVIOUS
  <2>2. o.stage = bad /\ o.seen = r.seen /\ o.name = r.name
    BY <1>2, <2>1 DEF Openings
  <2> QED BY <1>1, <1>2, <2>1, <2>2 DEF OpenerInOrder
<1>5. CASE r.name \in DOMAIN saved
  <2>1. PICK o : o = [r EXCEPT !.stage = bad]
    OBVIOUS
  <2>2. o \in Openings /\ o.stage = bad /\ opener' = [opener EXCEPT ![p] = o] /\ saved' = saved
    BY <1>1, <1>2, <1>5, <2>1 DEF Openings, Vacuum, Taken, Moves
  <2> QED BY <1>2, <1>3, <1>4, <2>1, <2>2, OpenerMoves
<1>6. CASE r.name \notin DOMAIN saved
  <2>1. PICK whole \in BOOLEAN, done \in BOOLEAN :
          /\ saved' = [n \in DOMAIN saved \cup {r.name} |->
                         IF n = r.name THEN CopyOf(file, whole) ELSE saved[n]]
          /\ opener' = [opener EXCEPT ![p].stage = IF done THEN good ELSE bad]
    BY <1>1, <1>2, <1>6 DEF Vacuum, Taken, Moves
  <2>2. PICK o : o = [r EXCEPT !.stage = IF done THEN good ELSE bad]
    OBVIOUS
  <2>3. /\ o \in Openings /\ o.stage = (IF done THEN good ELSE bad) /\ o.seen = r.seen /\ o.name = r.name
        /\ opener' = [opener EXCEPT ![p] = o]
    BY <1>1, <1>2, <2>1, <2>2 DEF Openings
  <2>4. /\ DOMAIN saved' = DOMAIN saved \cup {r.name} /\ saved'[r.name] = CopyOf(file, whole)
        /\ \A n \in DOMAIN saved : saved'[n] = saved[n]
    BY <1>6, <2>1
  <2>5. CopiesInOrder'
    <3>1. ASSUME NEW n \in DOMAIN saved
          PROVE  /\ saved'[n].whole \in BOOLEAN
                 /\ saved'[n].version = CurrentVersion \/ saved'[n] = CopyOf(origin, saved'[n].whole)
      BY <2>4, OpeningParts DEF CopiesInOrder
    <3>2. /\ saved'[r.name].whole = whole /\ saved'[r.name].version = file.version
      BY <2>4 DEF CopyOf
    <3>3. saved'[r.name].version = CurrentVersion \/ saved'[r.name] = CopyOf(origin, saved'[r.name].whole)
      BY <2>4, <3>2, OpeningParts DEF FoundOrCurrent
    <3> QED BY <1>3, <2>4, <3>1, <3>2, <3>3 DEF CopiesInOrder
  <2>6. (OriginKept => OriginKept') /\ OriginalSaved'
    BY <1>3, <2>4, OpeningParts DEF OriginKept, OriginalSaved
  <2>7. OpeningSafe' /\ file' \in Files
    BY <1>3, <1>4, <2>6, OpeningParts DEF OpeningSafe, FoundOrCurrent, StrangersUntouched, Known, Exact, LegacyV0
  <2>8. OpenerInOrder(o)'
    <3>1. (Known(origin))' /\ (o.stage \in {"verify", "prove"} => o.name \in DOMAIN saved')
      BY <1>3, <1>4, <2>3, <2>4 DEF Known, Exact, LegacyV0
    <3>2. o.stage = "prove" => saved'[o.name].version = CurrentVersion
      BY <1>1, <1>2, <1>6, <2>3, <2>4 DEF OpenerInOrder, CopyOf
    <3> QED BY <1>1, <1>2, <1>3, <2>3, <3>1, <3>2 DEF OpenerInOrder
  <2>9. ASSUME NEW q \in Openers \ {p}
        PROVE  /\ NamesDiffer(o, opener[q])
               /\ opener[q].name \in DOMAIN saved =>
                    opener[q].name \in DOMAIN saved' /\ saved'[opener[q].name] = saved[opener[q].name]
    BY <1>6, <2>3, <2>4, OpeningParts DEF NamesDiffer, OpenerInOrder
  <2> QED BY <1>3, <2>3, <2>5, <2>6, <2>7, <2>8, <2>9, OpeningStepOfOne
<1> QED BY <1>5, <1>6

\* A copy that cannot be verified is removed by whoever has made it, and no other copy; it is
\* of this build's version.
LEMMA ProvingRemovesOwn ==
    ASSUME OpeningInv, NEW p \in Openers, ProveBackup(p), NEW n \in DOMAIN saved,
           n \notin DOMAIN saved' \/ saved'[n] # saved[n]
    PROVE  /\ n \notin DOMAIN saved' /\ At(p, "prove") /\ opener[p].name = n
           /\ saved[n].version = CurrentVersion
<1>1. saved' = saved \/ saved' = Without(opener[p].name)
  BY DEF ProveBackup
<1>2. n = opener[p].name /\ n \notin DOMAIN saved'
  BY <1>1 DEF Without
<1>3. opener[p].stage = "prove"
  BY DEF ProveBackup, At
<1>4. saved[n].version = CurrentVersion
  BY <1>2, <1>3, OpeningParts DEF OpenerInOrder
<1> QED BY <1>2, <1>3, <1>4 DEF At

LEMMA ProvingKeeps == ASSUME OpeningInv, NEW p \in Openers, ProveBackup(p) PROVE OpeningInv'
<1>1. PICK r \in Openings : r = opener[p] /\ OpenerInOrder(r)
  BY OpeningParts
<1>2. UNCHANGED <<file, origin, lockHolder>> /\ r.stage = "prove" /\ LockInOrder'
  BY <1>1, OpeningParts DEF ProveBackup, At, LockInOrder
<1>3. PICK o : o = [r EXCEPT !.stage = "open"]
  OBVIOUS
<1>4. o \in Openings /\ o.stage = "open" /\ o.seen = r.seen /\ opener' = [opener EXCEPT ![p] = o]
  BY <1>1, <1>3 DEF Openings, ProveBackup, Moves
<1>5. /\ DOMAIN saved' \subseteq DOMAIN saved /\ \A n \in DOMAIN saved' : saved'[n] = saved[n]
      /\ \A n \in DOMAIN saved : n # r.name => n \in DOMAIN saved'
  BY <1>1 DEF ProveBackup, Without
<1>6. OriginKept /\ origin.version < CurrentVersion => OriginKept'
  <2>1. ASSUME origin.version < CurrentVersion, NEW n \in DOMAIN saved, saved[n] = CopyOf(origin, TRUE)
        PROVE  n \in DOMAIN saved' /\ saved'[n] = saved[n]
    <3>1. saved[n].version = origin.version
      BY <2>1 DEF CopyOf
    <3>2. origin.version \in 0 .. CurrentVersion + 1 /\ CurrentVersion \in Nat
      BY OpeningParts, FilesKnown, TablesGrow
    <3>3. origin.version # CurrentVersion
      BY <2>1, <3>2
    <3> QED BY <3>1, <3>3, ProvingRemovesOwn
  <2> QED BY <1>2, <2>1 DEF OriginKept
<1>7. CopiesInOrder'
  BY <1>2, <1>5, OpeningParts DEF CopiesInOrder
<1>8. OpeningSafe' /\ file' \in Files
  <2>1. Known(origin) /\ file.version = CurrentVersion
    BY <1>1, <1>2 DEF OpenerInOrder
  <2>2. file.version # origin.version => origin.version < CurrentVersion
    BY <2>1, OpeningParts, FilesKnown, TablesGrow
  <2>3. OriginalSaved'
    BY <1>2, <1>6, <2>2, OpeningParts DEF OriginalSaved, OriginKept
  <2> QED BY <1>2, <2>1, <2>3, OpeningParts DEF OpeningSafe, FoundOrCurrent, StrangersUntouched, Known, Exact, LegacyV0
<1>9. OpenerInOrder(o)'
  BY <1>1, <1>2, <1>4 DEF OpenerInOrder, Known, Exact, LegacyV0
<1>10. ASSUME NEW q \in Openers \ {p}
       PROVE  /\ NamesDiffer(o, opener[q])
              /\ opener[q].stage \in {"verify", "prove"} /\ opener[q].name \in DOMAIN saved =>
                   opener[q].name \in DOMAIN saved' /\ saved'[opener[q].name] = saved[opener[q].name]
  BY <1>1, <1>2, <1>4, <1>5, OpeningParts DEF NamesDiffer
<1> QED BY <1>2, <1>4, <1>6, <1>7, <1>8, <1>9, <1>10, OpeningStepOfOne

LEMMA OpeningStepKeeps == ASSUME OpeningInv, [OpeningNext]_openingVars PROVE OpeningInv'
<1>1. CASE UNCHANGED openingVars
  BY <1>1 DEF openingVars, OpeningInv, LockInOrder, OpeningSafe, OriginalSaved, FoundOrCurrent,
     StrangersUntouched, CopiesInOrder, OpenerInOrder, OriginKept, NamesDiffer, Known, Exact, LegacyV0
<1>2. CASE OpeningNext
  BY <1>2, ReadingKeeps, PassingKeeps, WritingKeepsFile, CopyingKeeps, ProvingKeeps DEF OpeningNext
<1> QED BY <1>1, <1>2

\* No step writes over a whole copy, and whoever removes one has just written it.
LEMMA WholeCopiesStay ==
    ASSUME OpeningInv, [OpeningNext]_openingVars, NEW n \in DOMAIN saved, saved[n].whole
    PROVE  IF n \in DOMAIN saved' THEN saved'[n] = saved[n]
           ELSE \E p \in Openers : At(p, "prove") /\ opener[p].name = n
<1>1. CASE saved' = saved
  BY <1>1
<1>2. ASSUME NEW p \in Openers, VacuumInto(p) \/ BackupInto(p) PROVE n \in DOMAIN saved' /\ saved'[n] = saved[n]
  BY <1>2 DEF VacuumInto, BackupInto, Vacuum, Taken
<1>3. ASSUME NEW p \in Openers, ProveBackup(p)
      PROVE  \/ n \in DOMAIN saved' /\ saved'[n] = saved[n]
             \/ n \notin DOMAIN saved' /\ At(p, "prove") /\ opener[p].name = n
  BY <1>3, ProvingRemovesOwn
<1>4. CASE UNCHANGED openingVars
  BY <1>4 DEF openingVars
<1>5. ASSUME NEW p \in Openers,
             \/ ReadVersion(p) \/ Classify(p) \/ ChooseName(p) \/ VerifyBackup(p) \/ BackupTo(p)
             \/ ReadFrom(p) \/ BeginMigration(p) \/ Commit(p) \/ RollBack(p) \/ CheckCurrent(p)
             \/ Configure(p) \/ WriteRow(p) \/ Reopen(p)
      PROVE  saved' = saved
  BY <1>5 DEF ReadVersion, Classify, ChooseName, VerifyBackup, BackupTo, ReadFrom, BeginMigration,
     Commit, RollBack, CheckCurrent, Configure, WriteRow, Reopen
<1> QED BY <1>1, <1>2, <1>3, <1>4, <1>5 DEF OpeningNext

LEMMA OpeningStarts == OpeningInit => OpeningInv
<1>1. SUFFICES ASSUME OpeningInit PROVE OpeningInv
  OBVIOUS
<1>2. NotOpening \in Openings /\ NotOpening.stage = "start"
  BY OpeningAssumption DEF NotOpening, Openings
<1>3. DOMAIN saved = {} /\ file = origin /\ origin \in FilesFound /\ lockHolder = {}
      /\ opener = [p \in Openers |-> NotOpening]
  BY <1>1 DEF OpeningInit
<1>4. OpeningSafe /\ CopiesInOrder /\ LockInOrder /\ file \in Files
  BY <1>1, <1>3, FilesKnown DEF OpeningInit, OpeningSafe, OriginalSaved, FoundOrCurrent, StrangersUntouched,
     CopiesInOrder, LockInOrder
<1> QED BY <1>2, <1>3, <1>4 DEF OpeningInv, OpenerInOrder, NamesDiffer

LEMMA OpeningIsTyped == OpeningInv => OpeningTypeOK
<1>1. SUFFICES ASSUME OpeningInv PROVE OpeningTypeOK
  OBVIOUS
<1>2. origin.version \in 0 .. CurrentVersion + 1 /\ file.version \in 0 .. CurrentVersion + 1
  BY <1>1, OpeningParts, FilesKnown, TablesGrow DEF FoundOrCurrent
<1>3. lockHolder \subseteq Openers /\ Cardinality(lockHolder) <= 1
  <2>1. CASE lockHolder = {}
    BY <2>1, FS_EmptySet
  <2>2. ASSUME NEW p \in Openers, lockHolder = {p} PROVE Cardinality(lockHolder) = 1 /\ lockHolder \subseteq Openers
    BY <2>2, FS_Singleton
  <2> QED BY <1>1, <2>1, <2>2, OpeningParts DEF LockInOrder
<1> QED BY <1>1, <1>2, <1>3, OpeningParts DEF OpeningTypeOK, Openings

\* For every number of processes, versions and names: a file is migrated whole, over a whole copy
\* of what was found; a file of another program or a newer build is only read; and no whole copy
\* is written over, or removed by another than the one who has just made it and has told nobody
\* (openSchema, migrateToSchemaV11, backupTo, removeUnverifiedBackup).
THEOREM OpeningIsSafe == OpeningSpec => []OpeningTypeOK /\ []OpeningSafe /\ CopiesKept
<1>1. OpeningInit => OpeningInv
  BY OpeningStarts
<1>2. OpeningInv /\ [OpeningNext]_openingVars => OpeningInv'
  BY OpeningStepKeeps
<1>3. OpeningInv => OpeningTypeOK /\ OpeningSafe
  BY OpeningIsTyped DEF OpeningInv
<1>4. OpeningInv /\ [OpeningNext]_openingVars
        => [\A n \in DOMAIN saved : saved[n].whole =>
              IF n \in DOMAIN saved' THEN saved'[n] = saved[n]
              ELSE \E p \in Openers : At(p, "prove") /\ opener[p].name = n]_openingVars
  BY WholeCopiesStay
<1> QED BY <1>1, <1>2, <1>3, <1>4, PTL DEF OpeningSpec, CopiesKept

-----------------------------------------------------------------------------
(* The bank                                                                *)

LEMMA BankTypesStart == MergedInit => MergedTypeOK
<1>1. SUFFICES ASSUME MergedInit PROVE MergedTypeOK
  OBVIOUS
<1>2. DOMAIN rows = {} /\ disposition = [k \in BankKeys |-> "active"]
  BY <1>1 DEF MergedInit
<1>3. submitted \subseteq Submissions
  BY <1>1 DEF MergedInit, Legacy
<1> QED BY <1>2, <1>3 DEF MergedTypeOK

LEMMA BankStepTyped == ASSUME MergedTypeOK, [MergedNext]_mergedVars PROVE MergedTypeOK'
<1>1. CASE UNCHANGED mergedVars
  BY <1>1 DEF mergedVars, MergedTypeOK
<1>2. ASSUME NEW k \in BankKeys, NEW rating \in 0 .. MaxRated, StoreProblem(k, rating) PROVE MergedTypeOK'
  BY <1>2 DEF StoreProblem, MergedTypeOK
<1>3. ASSUME NEW s \in Submissions, StoreSubmission(s) PROVE MergedTypeOK'
  BY <1>3 DEF StoreSubmission, MergedTypeOK
<1>4. ASSUME NEW keys \in SUBSET BankKeys, NEW state \in Disposals, Dispose(keys, state) PROVE MergedTypeOK'
  BY <1>4, MergedBankAssumption DEF Dispose, MergedTypeOK
<1> QED BY <1>1, <1>2, <1>3, <1>4 DEF MergedNext

-----------------------------------------------------------------------------
(* The evidence                                                            *)

ReviewRecords == [mode : Modes4 \ {"unknown"}, skills : SUBSET Tagged, at : Nat]

EvidenceInv ==
    /\ EvidenceTypeOK /\ IsFiniteSet(tried)
    /\ reviewed \in [Exercises -> Seq(ReviewRecords)]

LEMMA EvidenceStarts == EvidenceInit => EvidenceInv
<1>1. SUFFICES ASSUME EvidenceInit PROVE EvidenceInv
  OBVIOUS
<1>2. LastDay \in Nat /\ MaxFacts \in Nat
  BY EvidenceAssumption
<1>3. described \in [Exercises -> Descriptions \cup {Undescribed}]
  BY <1>1 DEF EvidenceInit, Imported
<1>4. /\ tried = {} /\ binned = {} /\ today = 0 /\ recorded = 0
      /\ judged = [p \in Exercises |-> {}] /\ reviewed = [p \in Exercises |-> <<>>]
  BY <1>1 DEF EvidenceInit
<1>5. <<>> \in Seq(ReviewRecords) /\ IsFiniteSet(tried)
  BY <1>4, FS_EmptySet
<1> QED BY <1>2, <1>3, <1>4, <1>5 DEF EvidenceInv, EvidenceTypeOK

LEMMA EvidenceStepKeeps == ASSUME EvidenceInv, [EvidenceNext]_evidenceVars PROVE EvidenceInv'
<1>1. CASE UNCHANGED evidenceVars
  BY <1>1 DEF evidenceVars, EvidenceInv, EvidenceTypeOK
<1>2. LastDay \in Nat /\ MaxFacts \in Nat
  BY EvidenceAssumption
<1>3. /\ tried \subseteq TrySet /\ binned \subseteq Exercises /\ today \in 0 .. LastDay
      /\ recorded \in 0 .. MaxFacts /\ IsFiniteSet(tried)
      /\ described \in [Exercises -> Descriptions \cup {Undescribed}]
      /\ judged \in [Exercises -> SUBSET Tagged] /\ reviewed \in [Exercises -> Seq(ReviewRecords)]
  BY DEF EvidenceInv, EvidenceTypeOK
<1>4. Tell => recorded' \in 0 .. MaxFacts
  BY <1>2, <1>3 DEF Tell
<1>5. ASSUME reviewed' \in [Exercises -> Seq(ReviewRecords)]
      PROVE  \A p \in Exercises : \A i \in DOMAIN reviewed'[p] :
               reviewed'[p][i] \in [mode : Modes4 \ {"unknown"}, skills : SUBSET Tagged, at : Nat]
  <2>1. ASSUME NEW p \in Exercises, NEW i \in DOMAIN reviewed'[p] PROVE reviewed'[p][i] \in ReviewRecords
    <3>1. reviewed'[p] \in Seq(ReviewRecords)
      BY <1>5
    <3> QED BY <2>1, <3>1
  <2> QED BY <2>1 DEF ReviewRecords
<1>6. ASSUME NEW s \in TrySet, ImportTry(s) PROVE EvidenceInv'
  BY <1>3, <1>4, <1>5, <1>6, FS_AddElement DEF ImportTry, EvidenceInv, EvidenceTypeOK
<1>7. ASSUME NEW p \in Exercises, NEW d \in Descriptions, ImportDescription(p, d) PROVE EvidenceInv'
  BY <1>3, <1>4, <1>5, <1>7 DEF ImportDescription, EvidenceInv, EvidenceTypeOK
<1>8. ASSUME NEW p \in Exercises, NEW t \in Tagged, Judge(p, t) PROVE EvidenceInv'
  <2>1. judged' \in [Exercises -> SUBSET Tagged]
    <3>1. (IF t \in judged[p] THEN judged[p] \ {t} ELSE judged[p] \cup {t}) \in SUBSET Tagged
      BY <1>3
    <3> QED BY <1>3, <1>8, <3>1 DEF Judge
  <2> QED BY <1>3, <1>4, <1>5, <1>8, <2>1 DEF Judge, EvidenceInv, EvidenceTypeOK
<1>9. ASSUME NEW p \in Exercises, NEW mode \in Modes4 \ {"unknown"}, NEW skills \in SUBSET Tagged,
             Review(p, mode, skills)
      PROVE  EvidenceInv'
  <2>1. PICK after : after = IF reviewed[p] = <<>> THEN 0 ELSE reviewed[p][Len(reviewed[p])].at + 1
    OBVIOUS
  <2>2. after \in Nat
    <3>1. CASE reviewed[p] = <<>>
      BY <2>1, <3>1
    <3>2. CASE reviewed[p] # <<>>
      <4>1. reviewed[p] \in Seq(ReviewRecords) /\ Len(reviewed[p]) \in 1 .. Len(reviewed[p])
        BY <1>3, <3>2
      <4>2. reviewed[p][Len(reviewed[p])] \in ReviewRecords
        BY <4>1
      <4> QED BY <2>1, <3>2, <4>2 DEF ReviewRecords
    <3> QED BY <3>1, <3>2
  <2>3. PICK r : r = [mode |-> mode, skills |-> skills, at |-> IF after > today THEN after ELSE today]
    OBVIOUS
  <2>4. r \in ReviewRecords
    BY <1>2, <1>3, <2>2, <2>3 DEF ReviewRecords
  <2>5. reviewed' = [reviewed EXCEPT ![p] = Append(reviewed[p], r)]
    BY <1>9, <2>1, <2>3 DEF Review
  <2>6. reviewed' \in [Exercises -> Seq(ReviewRecords)]
    BY <1>3, <2>4, <2>5
  <2> QED BY <1>3, <1>4, <1>5, <1>9, <2>6 DEF Review, EvidenceInv, EvidenceTypeOK
<1>10. ASSUME NEW p \in Exercises, Bin(p) PROVE EvidenceInv'
  BY <1>3, <1>4, <1>5, <1>10 DEF Bin, EvidenceInv, EvidenceTypeOK
<1>11. CASE Wait
  BY <1>2, <1>3, <1>5, <1>11 DEF Wait, EvidenceInv, EvidenceTypeOK
<1> QED BY <1>1, <1>6, <1>7, <1>8, <1>9, <1>10, <1>11 DEF EvidenceNext

-----------------------------------------------------------------------------
(* Sets of numbers                                                         *)

\* Every set of natural numbers that is not empty has a least element.
LEMMA LeastOf ==
    ASSUME NEW S \in SUBSET Nat, S # {} PROVE \E n \in S : \A m \in S : n <= m
<1> DEFINE Smaller == OpToRel(<, Nat)
<1>1. \A a, b \in Nat : a < b => <<a, b>> \in Smaller
  BY DEF OpToRel
<1>2. IsWellFoundedOn(Smaller, Nat)
  BY NatLessThanWellFounded
<1> HIDE DEF Smaller
<1>3. PICK n \in S : \A m \in S : ~ (<<m, n>> \in Smaller)
  BY <1>2, WFMin
<1>4. ASSUME NEW m \in S PROVE n <= m
  <2>1. m \in Nat /\ n \in Nat /\ ~ (m < n)
    BY <1>1, <1>3
  <2> QED BY <2>1
<1> QED BY <1>4

\* What is old is what some accepted submission made old.
OldAsSubmitted ==
    \A p : p \in EarlierSolves <=>
        \E s \in tried : s.key \notin binned /\ s.key = p /\ s.accepted /\ s.at < today - RecentDays

LEMMA OldByOneSubmission == EvidenceInv => OldAsSubmitted
<1> SUFFICES ASSUME EvidenceInv, NEW p
    PROVE  p \in EarlierSolves <=>
        \E s \in tried : s.key \notin binned /\ s.key = p /\ s.accepted /\ s.at < today - RecentDays
  BY DEF OldAsSubmitted
<1>1. today \in Nat /\ RecentDays \in Nat \ {0} /\ \A s \in tried : s.at \in Nat
  BY EvidenceAssumption DEF EvidenceInv, EvidenceTypeOK, TrySet, Days
<1> DEFINE days == {s.at : s \in AcceptedOf(p)}
<1>2. \A s : s \in AcceptedOf(p) <=> s \in tried /\ s.key \notin binned /\ s.at <= today /\ s.key = p /\ s.accepted
  BY DEF AcceptedOf, Elapsed, Read
<1>3. p \in SolvedNow <=> AcceptedOf(p) # {}
  BY <1>2 DEF SolvedNow, Attempted, Elapsed, Read
<1>4. ASSUME AcceptedOf(p) # {} PROVE /\ FirstAcceptedDay(p) \in days /\ \A d \in days : FirstAcceptedDay(p) <= d
  <2>1. days \in SUBSET Nat /\ days # {}
    BY <1>1, <1>2, <1>4
  <2>2. \E n \in days : \A d \in days : n <= d
    BY <2>1, LeastOf
  <2>3. FirstAcceptedDay(p) = CHOOSE x \in days : \A y \in days : x =< y
    BY DEF FirstAcceptedDay, Min
  <2> HIDE DEF days
  <2> QED BY <2>2, <2>3
<1>5. ASSUME p \in EarlierSolves
      PROVE  \E s \in tried : /\ s.key \notin binned /\ s.key = p /\ s.accepted /\ s.at < today - RecentDays
  <2>1. p \in SolvedNow /\ ~ IsRecent(p)
    BY <1>5 DEF EarlierSolves, RecentSolves
  <2>2. PICK s \in AcceptedOf(p) : FirstAcceptedDay(p) = s.at
    BY <1>3, <1>4, <2>1
  <2>3. s.at < today - RecentDays
    BY <1>1, <1>2, <2>1, <2>2 DEF IsRecent
  <2> QED BY <1>2, <2>2, <2>3
<1>6. ASSUME NEW s \in tried, s.key \notin binned, s.key = p, s.accepted, s.at < today - RecentDays
      PROVE  p \in EarlierSolves
  <2>1. s \in AcceptedOf(p)
    BY <1>1, <1>2, <1>6
  <2>2. FirstAcceptedDay(p) <= s.at /\ FirstAcceptedDay(p) \in Nat
    <3>1. s.at \in days
      BY <2>1
    <3>2. days \subseteq Nat
      BY <1>1, <1>2
    <3> QED BY <1>4, <2>1, <3>1, <3>2
  <2>3. ~ IsRecent(p)
    BY <1>1, <1>6, <2>2 DEF IsRecent
  <2> QED BY <1>3, <2>1, <2>3 DEF EarlierSolves, RecentSolves
<1> QED BY <1>5, <1>6

\* No step but the trash takes a submission out of sight, and the clock only goes on.
LEMMA OldStays ==
    ASSUME EvidenceInv, [EvidenceNext]_evidenceVars, NEW p \in EarlierSolves
    PROVE  p \in binned' \/ p \in EarlierSolves'
<1>1. PICK s \in tried : s.key \notin binned /\ s.key = p /\ s.accepted /\ s.at < today - RecentDays
  BY OldByOneSubmission DEF OldAsSubmitted
<1>2. tried \subseteq tried' /\ today' \in {today, today + 1}
  <2>1. ASSUME NEW q \in Exercises, NEW d \in Descriptions, ImportDescription(q, d) PROVE UNCHANGED <<tried, today>>
    BY <2>1 DEF ImportDescription
  <2>2. ASSUME NEW q \in Exercises, NEW t \in Tagged, Judge(q, t) PROVE UNCHANGED <<tried, today>>
    BY <2>2 DEF Judge
  <2>3. ASSUME NEW q \in Exercises, NEW mode, NEW skills, Review(q, mode, skills) PROVE UNCHANGED <<tried, today>>
    BY <2>3 DEF Review
  <2>4. ASSUME NEW q \in Exercises, Bin(q) PROVE UNCHANGED <<tried, today>>
    BY <2>4 DEF Bin
  <2>5. ASSUME NEW r \in TrySet, ImportTry(r) PROVE tried \subseteq tried' /\ today' = today
    BY <2>5 DEF ImportTry
  <2>6. CASE Wait
    BY <2>6 DEF Wait
  <2> QED BY <2>1, <2>2, <2>3, <2>4, <2>5, <2>6 DEF EvidenceNext, evidenceVars
<1>3. OldAsSubmitted'
  <2>1. EvidenceInv'
    BY EvidenceStepKeeps
  <2>2. EvidenceInv' => OldAsSubmitted'
    BY OldByOneSubmission, PTL
  <2> QED BY <2>1, <2>2
<1>4. s.at < today' - RecentDays
  BY <1>1, <1>2, EvidenceAssumption DEF EvidenceInv, EvidenceTypeOK, TrySet, Days
<1>5. ASSUME p \notin binned' PROVE p \in EarlierSolves'
  <2>1. \E r \in tried' : r.key \notin binned' /\ r.key = p /\ r.accepted /\ r.at < today' - RecentDays
    BY <1>1, <1>2, <1>4, <1>5
  <2> QED BY <1>3, <2>1 DEF OldAsSubmitted
<1> QED BY <1>5

\* For any problems, ratings and times: no import, decision, retrospective or passing day makes
\* a solve new again that was no longer new (assessPeriod, isRecent of domain/ability.ts).
THEOREM OldStaysOld == EvidenceSpec => OldSolvesStayOld
<1>1. EvidenceInit => EvidenceInv
  BY EvidenceStarts
<1>2. EvidenceInv /\ [EvidenceNext]_evidenceVars => EvidenceInv'
  BY EvidenceStepKeeps
<1>3. EvidenceInv /\ [EvidenceNext]_evidenceVars
        => [\A p \in EarlierSolves : p \in binned' \/ p \in EarlierSolves']_evidenceVars
  BY OldStays
<1> QED BY <1>1, <1>2, <1>3, PTL DEF EvidenceSpec, OldSolvesStayOld

-----------------------------------------------------------------------------
(* The groups of the bank                                                  *)

BankInv == MergedTypeOK /\ IsFiniteSet(DOMAIN rows)

LEMMA BankStarts == MergedInit => BankInv
<1>1. MergedInit => DOMAIN rows = {}
  BY DEF MergedInit
<1> QED BY <1>1, BankTypesStart, FS_EmptySet DEF BankInv

LEMMA BankStepKeeps == ASSUME BankInv, [MergedNext]_mergedVars PROVE BankInv'
<1>1. MergedTypeOK'
  BY BankStepTyped DEF BankInv
<1>2. IsFiniteSet(DOMAIN rows)
  BY DEF BankInv
<1>3. IsFiniteSet((DOMAIN rows)')
  <2>1. ASSUME NEW k \in BankKeys, NEW rating, StoreProblem(k, rating) PROVE IsFiniteSet((DOMAIN rows)')
    <3>1. DOMAIN rows' = DOMAIN rows \cup {k}
      BY <2>1 DEF StoreProblem
    <3> QED BY <1>2, <3>1, FS_AddElement
  <2>2. ASSUME NEW s \in Submissions, StoreSubmission(s) PROVE IsFiniteSet((DOMAIN rows)')
    BY <1>2, <2>2 DEF StoreSubmission
  <2>3. ASSUME NEW keys, NEW state, Dispose(keys, state) PROVE IsFiniteSet((DOMAIN rows)')
    BY <1>2, <2>3 DEF Dispose
  <2>4. CASE UNCHANGED mergedVars
    BY <1>2, <2>4 DEF mergedVars
  <2> QED BY <2>1, <2>2, <2>3, <2>4 DEF MergedNext
<1> QED BY <1>1, <1>3 DEF BankInv

\* A key is of a site and a number, of Codeforces only when it is mirrored.
LEMMA KeysOf ==
    ASSUME NEW k \in BankKeys
    PROVE  /\ k = <<k[1], k[2]>> /\ k[2] \in Nat /\ k[2] \in Mirrored \cup Native
           /\ k[1] = "codeforces" \/ k[1] = "luogu"
           /\ k[1] = "codeforces" => k[2] \in Mirrored
           /\ k[1] # "merged" /\ (k[2] \in Native => k[2] \notin Mirrored)
BY MergedBankAssumption DEF BankKeys, BankSites

LEMMA RowsInView ==
    ASSUME BankInv
    PROVE  BankRows \subseteq BankKeys /\ IsFiniteSet(BankRows) /\ \A k \in BankRows : rows[k] \in Nat
<1>1. DOMAIN rows \subseteq BankKeys /\ \A k \in DOMAIN rows : rows[k] \in Nat
  BY MergedBankAssumption DEF BankInv, MergedTypeOK
<1>2. BankRows \in SUBSET DOMAIN rows
  BY DEF BankRows
<1>3. IsFiniteSet(BankRows)
  BY <1>2, FS_Subset DEF BankInv
<1> QED BY <1>1, <1>2, <1>3

\* A group has the rows it is the group of, and a key belongs to the group of its own.
LEMMA GroupsOfKeys ==
    ASSUME NEW k \in BankKeys
    PROVE  /\ k \in SpellingsOf(GroupOf(k))
           /\ \A l \in BankKeys : l \in SpellingsOf(GroupOf(k)) <=> GroupOf(l) = GroupOf(k)
           /\ \A l \in BankKeys : GroupOf(l) = GroupOf(k) <=> l = k \/ (l[2] \in Mirrored /\ l[2] = k[2])
<1>1. CASE k[2] \in Mirrored
  <2>1. GroupOf(k) = <<"merged", k[2]>> /\ SpellingsOf(GroupOf(k)) = BankSites \X {k[2]}
    BY <1>1 DEF GroupOf, SpellingsOf
  <2>2. ASSUME NEW l \in BankKeys PROVE l \in BankSites \X {k[2]} <=> l[2] = k[2]
    BY KeysOf DEF BankSites
  <2>3. ASSUME NEW l \in BankKeys PROVE GroupOf(l) = GroupOf(k) <=> l[2] = k[2]
    <3>1. CASE l[2] \in Mirrored
      BY <2>1, <3>1 DEF GroupOf
    <3>2. CASE l[2] \notin Mirrored
      <4>1. GroupOf(l) = l /\ l = <<l[1], l[2]>> /\ l[1] # "merged"
        BY <3>2, KeysOf DEF GroupOf
      <4> QED BY <1>1, <2>1, <3>2, <4>1
    <3> QED BY <3>1, <3>2
  <2> QED BY <1>1, <2>1, <2>2, <2>3
<1>2. CASE k[2] \notin Mirrored
  <2>1. k[1] # "merged"
    BY KeysOf
  <2>2. GroupOf(k) = k /\ SpellingsOf(k) = {k}
    BY <1>2, <2>1 DEF GroupOf, SpellingsOf
  <2>3. ASSUME NEW l \in BankKeys PROVE GroupOf(l) = k <=> l = k
    <3>1. CASE l[2] \in Mirrored
      <4>1. GroupOf(l) = <<"merged", l[2]>> /\ k = <<k[1], k[2]>>
        BY <3>1, KeysOf DEF GroupOf
      <4> QED BY <1>2, <2>1, <3>1, <4>1
    <3>2. CASE l[2] \notin Mirrored
      BY <3>2 DEF GroupOf
    <3> QED BY <3>1, <3>2
  <2>4. ASSUME NEW l \in BankKeys, l[2] \in Mirrored PROVE l[2] # k[2]
    BY <1>2, <2>4
  <2> QED BY <2>2, <2>3, <2>4
<1> QED BY <1>1, <1>2

LEMMA MembersAreOfGroup ==
    ASSUME BankInv, NEW k \in BankRows
    PROVE  /\ k \in MembersOf(GroupOf(k))
           /\ \A l \in MembersOf(GroupOf(k)) : l \in BankRows /\ l \in BankKeys /\ GroupOf(l) = GroupOf(k)
<1>1. k \in BankKeys /\ BankRows \subseteq BankKeys
  BY RowsInView
<1> QED BY <1>1, GroupsOfKeys DEF MembersOf

LEMMA FewMembers ==
    ASSUME BankInv, NEW k \in BankRows
    PROVE  /\ IsFiniteSet(MembersOf(GroupOf(k)))
           /\ Cardinality(MembersOf(GroupOf(k))) <= IF GroupOf(k)[1] = "merged" THEN 2 ELSE 1
<1>1. k \in BankKeys
  BY RowsInView
<1> DEFINE g == GroupOf(k)
<1>2. MembersOf(g) \in SUBSET SpellingsOf(g)
  BY DEF MembersOf
<1>3. CASE g[1] = "merged"
  <2>1. SpellingsOf(g) = {<<"codeforces", g[2]>>} \cup {<<"luogu", g[2]>>}
    BY <1>3 DEF SpellingsOf, BankSites
  <2>2. IsFiniteSet(SpellingsOf(g)) /\ Cardinality(SpellingsOf(g)) <= 2 /\ Cardinality(SpellingsOf(g)) \in Nat
    <3>1. IsFiniteSet({<<"codeforces", g[2]>>}) /\ Cardinality({<<"codeforces", g[2]>>}) = 1
      BY FS_Singleton
    <3>2. IsFiniteSet(SpellingsOf(g)) /\ Cardinality(SpellingsOf(g)) <= 2
      BY <2>1, <3>1, FS_AddElement
    <3> QED BY <3>2, FS_CardinalityType
  <2> HIDE DEF g
  <2>3. IsFiniteSet(MembersOf(g)) /\ Cardinality(MembersOf(g)) <= Cardinality(SpellingsOf(g))
        /\ Cardinality(MembersOf(g)) \in Nat
    BY <1>2, <2>2, FS_Subset, FS_CardinalityType
  <2> QED BY <1>3, <2>2, <2>3 DEF g
<1>4. CASE g[1] # "merged"
  <2>1. SpellingsOf(g) = {g}
    BY <1>4 DEF SpellingsOf
  <2>2. IsFiniteSet(SpellingsOf(g)) /\ Cardinality(SpellingsOf(g)) = 1
    BY <2>1, FS_Singleton
  <2> HIDE DEF g
  <2>3. IsFiniteSet(MembersOf(g)) /\ Cardinality(MembersOf(g)) <= 1
    BY <1>2, <2>2, FS_Subset
  <2> QED BY <1>4, <2>3 DEF g
<1> QED BY <1>3, <1>4

\* A page is never refused by the service's own checks.
LEMMA PagesAreTrusted == ASSUME BankInv PROVE NeverRefused
<1> SUFFICES ASSUME NEW selected \in Selections, NEW k \in BankRows PROVE Trusted(GroupOf(k), selected)
  BY DEF NeverRefused
<1> DEFINE g == GroupOf(k)
<1>1. /\ MembersOf(g) # {} /\ \A l \in MembersOf(g) : GroupOf(l) = g
  BY MembersAreOfGroup
<1>2. Cardinality(MembersOf(g)) <= IF g[1] = "merged" THEN 2 ELSE 1
  BY FewMembers
<1> HIDE DEF g
<1>3. ASSUME NEW s \in EvidenceFor(g, selected)
      PROVE  /\ s.account \in selected /\ ReadBack(s) /\ s.accepted
             /\ s.account = s.key[1] /\ GroupOf(s.key) = g
  BY DEF EvidenceFor, Scoped, ReadBack
<1>4. ASSUME NEW l \in MembersOf(g), SolvedByAccount(l, selected)
      PROVE  \E s \in EvidenceFor(g, selected) : s.account = l[1] /\ s.key = l
  BY <1>1, <1>4 DEF SolvedByAccount
<1> QED BY <1>1, <1>2, <1>3, <1>4 DEF Trusted, g

\* The tags of a problem are shown to nobody who has not solved it on that very site.
LEMMA NothingIsSpoiled == NoSpoiler
BY DEF NoSpoiler, SolvedByAccount, EvidenceFor, Scoped

\* The groups of a request are groups of rows.
LEMMA GroupsShown ==
    ASSUME NEW request, NEW g \in Filtered(request) PROVE \E k \in BankRows : g = GroupOf(k)
BY DEF Filtered

LEMMA SolvedAsStored == ASSUME BankInv PROVE SolvedAsSubmitted
<1> SUFFICES ASSUME NEW selected \in Selections \ {{}}, NEW source \in BankSites \cup {"any"}
    PROVE LET With(status) == Filtered(Query(selected, source, status, FALSE, "default"))
              Solves(s, k) ==
                /\ s.accepted /\ s.account \in selected /\ s.account = s.key[1] /\ InView(s.key)
                /\ s.key = k \/ (s.key[2] \in Mirrored /\ s.key[2] = k[2])
          IN  /\ With("all") = With("solved") \cup With("unconfirmed")
              /\ With("solved") \cap With("unconfirmed") = {}
              /\ \A g \in With("all") :
                   g \in With("solved") <=> \E k \in MembersOf(g) : \E s \in submitted : Solves(s, k)
  BY DEF SolvedAsSubmitted
<1> DEFINE With(status) == Filtered(Query(selected, source, status, FALSE, "default"))
           Solves(s, k) ==
                /\ s.accepted /\ s.account \in selected /\ s.account = s.key[1] /\ InView(s.key)
                /\ s.key = k \/ (s.key[2] \in Mirrored /\ s.key[2] = k[2])
           Fits(g) ==
                /\ g \in {GroupOf(k) : k \in BankRows}
                /\ source \in BankSites => \E k \in MembersOf(g) : k[1] = source
<1>1. ASSUME NEW g
      PROVE  /\ g \in With("all") <=> Fits(g)
             /\ g \in With("solved") <=> Fits(g) /\ EvidenceFor(g, selected) # {}
             /\ g \in With("unconfirmed") <=> Fits(g) /\ EvidenceFor(g, selected) = {}
  <2>1. ASSUME NEW status
        PROVE  g \in With(status) <=>
                 /\ Fits(g)
                 /\ status = "solved" => EvidenceFor(g, selected) # {}
                 /\ status = "unconfirmed" => EvidenceFor(g, selected) = {}
    <3>1. PICK q : q = Query(selected, source, status, FALSE, "default")
      OBVIOUS
    <3>2. q.selected = selected /\ q.source = source /\ q.status = status /\ q.attempted = FALSE
      BY <3>1 DEF Query
    <3>3. g \in Filtered(q) <=>
             /\ g \in {GroupOf(k) : k \in BankRows}
             /\ q.source \in BankSites => \E k \in MembersOf(g) : k[1] = q.source
             /\ q.status = "solved" => EvidenceFor(g, q.selected) # {}
             /\ q.status = "unconfirmed" => EvidenceFor(g, q.selected) = {}
             /\ q.attempted => \E s \in Scoped(q.selected) : GroupOf(s.key) = g
      BY DEF Filtered
    <3> QED BY <3>1, <3>2, <3>3
  <2> HIDE DEF With, Fits
  <2> QED BY <2>1
<1>2. ASSUME NEW g \in With("all")
      PROVE  g \in With("solved") <=> \E k \in MembersOf(g) : \E s \in submitted : Solves(s, k)
  <2>1. PICK k0 \in BankRows : g = GroupOf(k0)
    BY GroupsShown
  <2>2. k0 \in BankKeys /\ k0 \in MembersOf(g)
        /\ \A k \in MembersOf(g) : k \in BankKeys /\ GroupOf(k) = g
    BY <2>1, RowsInView, MembersAreOfGroup
  <2>3. \A s \in submitted : s.key \in BankKeys
    BY DEF BankInv, MergedTypeOK, Submissions
  <2>4. g \in With("solved") <=> EvidenceFor(g, selected) # {}
    BY <1>1, <1>2
  <2>5. ASSUME NEW s \in EvidenceFor(g, selected) PROVE \E k \in MembersOf(g) : \E r \in submitted : Solves(r, k)
    <3>1. s \in submitted /\ s.accepted /\ s.account \in selected /\ s.key[1] = s.account /\ InView(s.key)
          /\ GroupOf(s.key) = g
      BY DEF EvidenceFor, Scoped
    <3>2. s.key = k0 \/ (s.key[2] \in Mirrored /\ s.key[2] = k0[2])
      BY <2>1, <2>2, <2>3, <3>1, GroupsOfKeys
    <3>3. Solves(s, k0)
      BY <3>1, <3>2
    <3> HIDE DEF Solves
    <3> QED BY <2>2, <3>1, <3>3
  <2>6. ASSUME NEW k \in MembersOf(g), NEW s \in submitted, Solves(s, k) PROVE EvidenceFor(g, selected) # {}
    <3>1. GroupOf(s.key) = GroupOf(k)
      BY <2>2, <2>3, <2>6, GroupsOfKeys
    <3>2. s \in EvidenceFor(g, selected)
      BY <2>2, <2>6, <3>1 DEF EvidenceFor, Scoped
    <3> QED BY <3>2
  <2> HIDE DEF With, Solves
  <2> QED BY <2>4, <2>5, <2>6
<1>3. /\ With("all") = With("solved") \cup With("unconfirmed")
      /\ With("solved") \cap With("unconfirmed") = {}
  <2> HIDE DEF With, Fits
  <2> QED BY <1>1
<1> QED BY <1>2, <1>3

-----------------------------------------------------------------------------
(* Places in an order                                                      *)

\* How many are before g in an order of F, with g itself.
UpTo(F, Ord, g) == {h \in F : h = g \/ <<h, g>> \in Ord}
Ordered(F, Ord) ==
    /\ \A g \in F : <<g, g>> \notin Ord
    /\ \A g, h \in F : g = h \/ <<g, h>> \in Ord \/ <<h, g>> \in Ord
    /\ \A f, g, h \in F : <<f, g>> \in Ord /\ <<g, h>> \in Ord => <<f, h>> \in Ord

\* In a total order of finitely many every place is taken once.
LEMMA PlacesOfOrder ==
    ASSUME NEW F, IsFiniteSet(F), NEW Ord, Ordered(F, Ord)
    PROVE  /\ Cardinality(F) \in Nat
           /\ \A g \in F : Cardinality(UpTo(F, Ord, g)) \in 1 .. Cardinality(F)
           /\ \A g, h \in F : Cardinality(UpTo(F, Ord, g)) = Cardinality(UpTo(F, Ord, h)) => g = h
           /\ \A i \in 1 .. Cardinality(F) : \E g \in F : Cardinality(UpTo(F, Ord, g)) = i
<1> DEFINE N == Cardinality(F)
           place(g) == Cardinality(UpTo(F, Ord, g))
<1>1. N \in Nat
  BY FS_CardinalityType
<1>2. \A g \in F : /\ UpTo(F, Ord, g) \in SUBSET F /\ g \in UpTo(F, Ord, g)
                   /\ IsFiniteSet(UpTo(F, Ord, g)) /\ place(g) \in Nat /\ place(g) <= N /\ place(g) # 0
  <2>1. ASSUME NEW g \in F PROVE UpTo(F, Ord, g) \in SUBSET F /\ g \in UpTo(F, Ord, g)
    BY DEF UpTo
  <2>2. ASSUME NEW g \in F
        PROVE IsFiniteSet(UpTo(F, Ord, g)) /\ place(g) \in Nat /\ place(g) <= N /\ place(g) # 0
    <3>1. IsFiniteSet(UpTo(F, Ord, g)) /\ place(g) <= N /\ UpTo(F, Ord, g) # {}
      BY <2>1, FS_Subset
    <3> QED BY <3>1, FS_CardinalityType, FS_EmptySet
  <2> QED BY <2>1, <2>2
<1>3. ASSUME NEW g \in F, NEW h \in F, <<g, h>> \in Ord PROVE place(g) # place(h)
  <2>1. UpTo(F, Ord, g) \in SUBSET UpTo(F, Ord, h)
    BY <1>3 DEF UpTo, Ordered
  <2>2. h \notin UpTo(F, Ord, g)
    BY <1>3 DEF UpTo, Ordered
  <2>3. UpTo(F, Ord, g) # UpTo(F, Ord, h)
    BY <1>2, <2>2
  <2> QED BY <1>2, <2>1, <2>3, FS_Subset
<1>4. \A g, h \in F : place(g) = place(h) => g = h
  <2> HIDE DEF place
  <2> QED BY <1>3 DEF Ordered
<1> DEFINE f == [g \in F |-> place(g)]
<1>5. f \in Injection(F, 1 .. N)
  <2>1. \A g \in F : place(g) \in 1 .. N
    BY <1>1, <1>2
  <2> HIDE DEF place, N
  <2> QED BY <1>4, <2>1 DEF Injection, IsInjective
<1>6. IsFiniteSet(1 .. N) /\ Cardinality(1 .. N) = N
  BY <1>1, FS_Interval
<1>7. f \in Surjection(F, 1 .. N)
  <2> HIDE DEF f
  <2> QED BY <1>5, <1>6, FS_Injection
<1>8. \A i \in 1 .. N : \E g \in F : f[g] = i
  <2> HIDE DEF f
  <2> QED BY <1>7 DEF Surjection
<1> HIDE DEF N
<1>9. \A g \in F : place(g) \in 1 .. N
  BY <1>1, <1>2
<1>10. \A i \in 1 .. N : \E g \in F : place(g) = i
  BY <1>8
<1> HIDE DEF place
<1> QED BY <1>1, <1>4, <1>9, <1>10 DEF place, N

\* Up to a place and from it on together count one more than all.
LEMMA PlacesFromBothEnds ==
    ASSUME NEW F, IsFiniteSet(F), NEW Ord, Ordered(F, Ord), NEW g \in F,
           NEW Back, \A h \in F : h # g => (<<h, g>> \in Back <=> <<g, h>> \in Ord), <<g, g>> \notin Back
    PROVE  Cardinality(UpTo(F, Ord, g)) + Cardinality(UpTo(F, Back, g)) = Cardinality(F) + 1
<1> DEFINE A == UpTo(F, Ord, g)
           B == UpTo(F, Back, g)
<1>1. A \in SUBSET F /\ B \in SUBSET F
  BY DEF UpTo
<1>2. A \cup B = F
  BY DEF UpTo, Ordered
<1>3. A \cap B = {g}
  <2>1. g \in A /\ g \in B
    BY DEF UpTo
  <2>2. ASSUME NEW h \in A, h \in B, h # g PROVE FALSE
    <3>1. <<h, g>> \in Ord /\ <<g, h>> \in Ord /\ h \in F
      BY <2>2 DEF UpTo
    <3> QED BY <3>1 DEF Ordered
  <2> QED BY <2>1, <2>2
<1> HIDE DEF A, B
<1>4. IsFiniteSet(A) /\ IsFiniteSet(B)
  BY <1>1, FS_Subset
<1>5. Cardinality(A \cup B) = Cardinality(A) + Cardinality(B) - Cardinality(A \cap B)
  BY <1>4, FS_Union
<1>6. Cardinality(A \cap B) = 1
  BY <1>3, FS_Singleton
<1>7. Cardinality(A) \in Nat /\ Cardinality(B) \in Nat /\ Cardinality(F) \in Nat
  BY <1>4, FS_CardinalityType
<1>8. Cardinality(A) + Cardinality(B) = Cardinality(F) + 1
  <2>1. Cardinality(F) = Cardinality(A) + Cardinality(B) - 1
    BY <1>2, <1>5, <1>6
  <2> QED BY <1>7, <2>1
<1> QED BY <1>8 DEF A, B

LEMMA DivisionOf ==
    ASSUME NEW x \in Nat, NEW n \in Nat \ {0}
    PROVE  x \div n \in Nat /\ (x \div n) * n <= x /\ x < (x \div n) * n + n
OBVIOUS

LEMMA Multiples ==
    ASSUME NEW a \in Nat, NEW b \in Nat, NEW n \in Nat, a < b PROVE a * n + n <= b * n
OBVIOUS

\* The page of a place: pages have size places each, the first page the first of them.
LEMMA PageOfPlace ==
    ASSUME NEW i \in Nat \ {0}, NEW size \in Nat \ {0}, NEW page \in Nat \ {0}
    PROVE  /\ (i + size - 1) \div size = page <=> (page - 1) * size < i /\ i <= page * size
           /\ (i + size - 1) \div size \in Nat \ {0}
           /\ (page - 1) * size + size = page * size /\ (page - 1) * size \in Nat
<1> DEFINE q == (i + size - 1) \div size
<1>1. i + size - 1 \in Nat
  OBVIOUS
<1>2. q \in Nat /\ q * size <= i + size - 1 /\ i + size - 1 < q * size + size
  BY <1>1, DivisionOf
<1> HIDE DEF q
<1>3. (page - 1) * size + size = page * size /\ (page - 1) * size \in Nat /\ q * size \in Nat /\ page * size \in Nat
  BY <1>2
<1>4. q # 0
  <2> SUFFICES ASSUME q = 0 PROVE FALSE
    OBVIOUS
  <2>1. q * size = 0
    OBVIOUS
  <2> QED BY <1>2, <2>1
<1>5. q = page => (page - 1) * size < i /\ i <= page * size
  <2> SUFFICES ASSUME q = page PROVE (page - 1) * size < i /\ i <= page * size
    OBVIOUS
  <2>1. q * size = page * size
    OBVIOUS
  <2> QED BY <1>2, <1>3, <2>1
<1>6. q < page => ~ ((page - 1) * size < i)
  <2> SUFFICES ASSUME q < page PROVE ~ ((page - 1) * size < i)
    OBVIOUS
  <2>1. q * size + size <= page * size
    BY <1>2, Multiples
  <2> QED BY <1>2, <1>3, <2>1
<1>7. page < q => ~ (i <= page * size)
  <2> SUFFICES ASSUME page < q PROVE ~ (i <= page * size)
    OBVIOUS
  <2>1. page * size + size <= q * size
    BY <1>2, Multiples
  <2> QED BY <1>2, <1>3, <2>1
<1>8. q < page \/ q = page \/ page < q
  BY <1>2
<1> QED BY <1>2, <1>3, <1>4, <1>5, <1>6, <1>7, <1>8 DEF q

\* Pages cut an order into pieces of their size, and leave none of it out.
LEMMA PagesOfOrder ==
    ASSUME NEW F, IsFiniteSet(F), NEW Ord, Ordered(F, Ord), NEW size \in Nat \ {0}, NEW total,
           total = (Cardinality(F) + size - 1) \div size
    PROVE  /\ total \in Nat
           /\ \A g \in F : (Cardinality(UpTo(F, Ord, g)) + size - 1) \div size \in 1 .. total
           /\ \A page \in 1 .. total :
                Cardinality({g \in F : (Cardinality(UpTo(F, Ord, g)) + size - 1) \div size = page}) \in 1 .. size
<1> DEFINE N == Cardinality(F)
           place(g) == Cardinality(UpTo(F, Ord, g))
           pageOf(i) == (i + size - 1) \div size
<1>1. /\ N \in Nat /\ \A g \in F : place(g) \in 1 .. N
      /\ \A g, h \in F : place(g) = place(h) => g = h
      /\ \A i \in 1 .. N : \E g \in F : place(g) = i
  BY PlacesOfOrder
<1> HIDE DEF N, place
<1>2. total = pageOf(N)
  BY DEF N
<1>3. total \in Nat
  <2>1. N + size - 1 \in Nat
    BY <1>1
  <2> QED BY <1>2, <2>1, DivisionOf
<1>4. ASSUME NEW i \in 1 .. N PROVE pageOf(i) \in 1 .. total
  <2>1. i \in Nat \ {0} /\ N \in Nat \ {0} /\ i <= N
    BY <1>1
  <2>2. pageOf(i) \in Nat \ {0} /\ total \in Nat \ {0}
    BY <1>2, <2>1, PageOfPlace
  <2>3. PICK p : p = pageOf(i)
    OBVIOUS
  <2>4. p \in Nat \ {0} /\ (p - 1) * size < i /\ (p - 1) * size \in Nat
    BY <2>1, <2>2, <2>3, PageOfPlace
  <2>5. N <= total * size /\ total * size \in Nat
    BY <1>2, <2>1, <2>2, PageOfPlace
  <2>6. ASSUME total < p PROVE FALSE
    <3>1. p - 1 \in Nat /\ (total = p - 1 \/ total < p - 1)
      BY <2>2, <2>4, <2>6
    <3>2. total * size <= (p - 1) * size
      <4>1. CASE total = p - 1
        BY <2>4, <4>1
      <4>2. CASE total < p - 1
        BY <2>2, <2>5, <2>4, <3>1, <4>2, Multiples
      <4> QED BY <3>1, <4>1, <4>2
    <3> QED BY <2>1, <2>4, <2>5, <3>2
  <2> QED BY <2>2, <2>3, <2>4, <2>6
<1>5. ASSUME NEW page \in 1 .. total PROVE Cardinality({g \in F : pageOf(place(g)) = page}) \in 1 .. size
  <2> DEFINE S == {g \in F : pageOf(place(g)) = page}
             before == (page - 1) * size
  <2>1. page \in Nat \ {0} /\ page <= total /\ N # 0
    <3>1. page \in Nat \ {0} /\ page <= total
      BY <1>3
    <3>2. ASSUME N = 0 PROVE FALSE
      <4>1. pageOf(0) = (size - 1) \div size /\ size - 1 \in Nat
        OBVIOUS
      <4>2. PICK z : z = (size - 1) \div size
        OBVIOUS
      <4>3. z \in Nat /\ z * size <= size - 1
        BY <4>1, <4>2, DivisionOf
      <4>4. z = 0
        <5> SUFFICES ASSUME z # 0 PROVE FALSE
          OBVIOUS
        <5>1. 0 * size + size <= z * size /\ 0 * size = 0
          BY <4>3, Multiples
        <5> QED BY <4>3, <5>1
      <4> QED BY <1>2, <3>1, <3>2, <4>1, <4>2, <4>4
    <3> QED BY <3>1, <3>2
  <2>2. before \in Nat /\ before + size = page * size
    BY <2>1, PageOfPlace
  <2>3. ASSUME NEW g \in F PROVE pageOf(place(g)) = page <=> place(g) \in before + 1 .. before + size
    <3>1. place(g) \in Nat \ {0}
      BY <1>1
    <3>2. pageOf(place(g)) = page <=> before < place(g) /\ place(g) <= page * size
      BY <2>1, <3>1, PageOfPlace
    <3> HIDE DEF before, pageOf
    <3> QED BY <2>2, <3>1, <3>2
  <2> HIDE DEF before
  <2>4. S \in SUBSET F /\ IsFiniteSet(S) /\ Cardinality(S) \in Nat
    <3>1. S \in SUBSET F
      OBVIOUS
    <3> HIDE DEF S
    <3> QED BY <3>1, FS_Subset, FS_CardinalityType
  <2>5. Cardinality(S) <= size
    <3> DEFINE f == [g \in S |-> place(g)]
    <3>1. f \in Injection(S, before + 1 .. before + size)
      <4>1. \A g \in S : g \in F /\ place(g) \in before + 1 .. before + size
        BY <2>3
      <4> HIDE DEF S
      <4> QED BY <1>1, <4>1 DEF Injection, IsInjective
    <3>2. IsFiniteSet(before + 1 .. before + size) /\ Cardinality(before + 1 .. before + size) = size
      <4>1. /\ before + 1 \in Int /\ before + size \in Int /\ ~ (before + 1 > before + size)
            /\ (before + size) - (before + 1) + 1 = size
        BY <2>2
      <4> QED BY ONLY <4>1, FS_Interval
    <3> HIDE DEF f, S
    <3> QED BY <3>1, <3>2, FS_Injection
  <2>6. S # {}
    <3>1. before + 1 \in 1 .. N
      <4>1. N \in Nat \ {0}
        BY <1>1, <2>1
      <4>2. (total - 1) * size < N /\ total \in Nat \ {0} /\ (total - 1) * size \in Nat
        <5>1. total \in Nat \ {0}
          BY <1>3, <2>1
        <5> QED BY <1>2, <4>1, <5>1, PageOfPlace
      <4>3. before <= (total - 1) * size
        <5>1. CASE page = total
          BY <2>2, <5>1 DEF before
        <5>2. CASE page < total
          <6>1. page - 1 \in Nat /\ total - 1 \in Nat /\ page - 1 < total - 1
            BY <2>1, <4>2, <5>2
          <6>2. (page - 1) * size + size <= (total - 1) * size
            BY <6>1, Multiples
          <6> QED BY <2>2, <4>2, <6>2 DEF before
        <5> QED BY <2>1, <4>2, <5>1, <5>2
      <4> QED BY <2>2, <4>1, <4>2, <4>3
    <3>2. PICK g \in F : place(g) = before + 1
      BY <1>1, <3>1
    <3>3. place(g) \in before + 1 .. before + size
      BY <2>2, <3>2
    <3> QED BY <2>3, <3>3
  <2>7. Cardinality(S) # 0
    <3> HIDE DEF S
    <3> QED BY <2>4, <2>6, FS_EmptySet
  <2> HIDE DEF S
  <2>8. Cardinality(S) \in 1 .. size
    BY <2>4, <2>5, <2>7
  <2> QED BY <2>8 DEF S
<1>6. \A g \in F : pageOf(place(g)) \in 1 .. total
  BY <1>1, <1>4
<1> QED BY <1>3, <1>5, <1>6 DEF place

-----------------------------------------------------------------------------
(* The order of the bank, and its pages                                    *)

LEMMA LessOrders ==
    ASSUME NEW a \in Nat \X Nat, NEW b \in Nat \X Nat, NEW c \in Nat \X Nat
    PROVE  /\ ~ Less(a, a) /\ (a = b \/ Less(a, b) \/ Less(b, a))
           /\ Less(a, b) => ~ Less(b, a) /\ a # b
           /\ Less(a, b) /\ Less(b, c) => Less(a, c)
<1>1. a[1] \in Nat /\ a[2] \in Nat /\ b[1] \in Nat /\ b[2] \in Nat /\ c[1] \in Nat /\ c[2] \in Nat
  OBVIOUS
<1>2. a = b <=> a[1] = b[1] /\ a[2] = b[2]
  OBVIOUS
<1> QED BY <1>1, <1>2 DEF Less

\* Lexical and natural order tell keys apart, and the lexical one groups.
LEMMA KeysAreRanked ==
    ASSUME NEW k \in BankKeys, NEW l \in BankKeys
    PROVE  /\ Lexical(k) \in Nat \X Nat /\ Natural(k) \in Nat \X Nat /\ Lexical(GroupOf(k)) \in Nat \X Nat
           /\ Lexical(k) = Lexical(l) => k = l
           /\ Natural(k) = Natural(l) => k = l
           /\ Lexical(GroupOf(k)) = Lexical(GroupOf(l)) => GroupOf(k) = GroupOf(l)
<1>1. /\ k = <<k[1], k[2]>> /\ k[2] \in Nat /\ (k[1] = "codeforces" \/ k[1] = "luogu")
      /\ l = <<l[1], l[2]>> /\ l[2] \in Nat /\ (l[1] = "codeforces" \/ l[1] = "luogu")
      /\ k[1] = "codeforces" => k[2] \in Mirrored
      /\ l[1] = "codeforces" => l[2] \in Mirrored
  BY KeysOf
<1>2. /\ Lexical(k) = IF k[1] = "codeforces" THEN <<0, k[2]>> ELSE <<1, k[2]>>
      /\ Lexical(l) = IF l[1] = "codeforces" THEN <<0, l[2]>> ELSE <<1, l[2]>>
  BY <1>1 DEF Lexical
<1>3. /\ Lexical(GroupOf(k)) = IF k[2] \in Mirrored THEN <<2, k[2]>> ELSE <<1, k[2]>>
      /\ Lexical(GroupOf(l)) = IF l[2] \in Mirrored THEN <<2, l[2]>> ELSE <<1, l[2]>>
  <2>1. Lexical(<<"merged", k[2]>>) = <<2, k[2]>> /\ Lexical(<<"merged", l[2]>>) = <<2, l[2]>>
    BY DEF Lexical
  <2> QED BY <1>1, <1>2, <2>1 DEF GroupOf
<1>4. /\ GroupOf(k) = IF k[2] \in Mirrored THEN <<"merged", k[2]>> ELSE k
      /\ GroupOf(l) = IF l[2] \in Mirrored THEN <<"merged", l[2]>> ELSE l
  BY DEF GroupOf
<1>5. Lexical(k) \in Nat \X Nat /\ Lexical(GroupOf(k)) \in Nat \X Nat
  BY <1>1, <1>2, <1>3
<1>6. Natural(k) \in Nat \X Nat
  BY <1>1 DEF Natural
<1>7. Lexical(k) = Lexical(l) => k = l
  BY <1>1, <1>2
<1>8. Natural(k) = Natural(l) => k = l
  BY <1>1 DEF Natural
<1>9. Lexical(GroupOf(k)) = Lexical(GroupOf(l)) => GroupOf(k) = GroupOf(l)
  BY <1>1, <1>3, <1>4
<1> QED BY <1>5, <1>6, <1>7, <1>8, <1>9

\* The first of some members of a group is one of them.
LEMMA FirstIsMember ==
    ASSUME BankInv, NEW k \in BankRows, NEW keys \in SUBSET MembersOf(GroupOf(k)), keys # {}
    PROVE  FirstOf(keys) \in keys
<1> DEFINE g == GroupOf(k)
<1>1. keys \in SUBSET SpellingsOf(g)
  BY DEF MembersOf
<1>2. \E m \in keys : \A l \in keys \ {m} : Less(Lexical(m), Lexical(l))
  <2>1. CASE g[1] = "merged"
    <3> DEFINE a == <<"codeforces", g[2]>>
               b == <<"luogu", g[2]>>
    <3>1. keys \subseteq {a, b}
      BY <1>1, <2>1 DEF SpellingsOf, BankSites
    <3>2. Less(Lexical(a), Lexical(b))
      BY DEF Less, Lexical
    <3> HIDE DEF a, b, g
    <3>3. CASE a \in keys
      BY <3>1, <3>2, <3>3
    <3>4. CASE a \notin keys
      <4>1. keys = {b}
        BY <3>1, <3>4
      <4> QED BY <4>1
    <3> QED BY <3>3, <3>4
  <2>2. CASE g[1] # "merged"
    <3>1. keys = {g}
      BY <1>1, <2>2 DEF SpellingsOf
    <3> QED BY <3>1
  <2> QED BY <2>1, <2>2
<1> QED BY <1>2 DEF FirstOf

\* What each group of a request is ordered by.
Sorts4 == {"default", "problem_asc", "problem_desc", "difficulty_desc"}

LEMMA SortedBy ==
    ASSUME BankInv, NEW request, request.sort \in Sorts4, NEW g \in Filtered(request)
    PROVE  /\ SortKey(g, request) \in Nat \X Nat /\ Lexical(g) \in Nat \X Nat
           /\ DisplayMember(g, request) \in MembersOf(g) /\ MembersOf(g) \subseteq BankKeys
<1>1. PICK k \in BankRows : g = GroupOf(k)
  BY GroupsShown
<1>2. k \in MembersOf(g) /\ MembersOf(g) \subseteq BankRows /\ MembersOf(g) \subseteq BankKeys /\ k \in BankKeys
  BY <1>1, RowsInView, MembersAreOfGroup
<1> DEFINE own == {l \in MembersOf(g) : l[1] = request.source}
<1>3. \A keys \in SUBSET MembersOf(g) : keys # {} => FirstOf(keys) \in keys
  BY <1>1, FirstIsMember
<1>4. DisplayMember(g, request) = FirstOf(IF own # {} THEN own ELSE MembersOf(g))
  BY DEF DisplayMember
<1>5. DifficultyOf(g, request) = IF own = {} THEN 0 ELSE rows[FirstOf(own)]
  BY DEF DifficultyOf
<1>6. own \in SUBSET MembersOf(g)
  OBVIOUS
<1> HIDE DEF own
<1>7. DisplayMember(g, request) \in MembersOf(g)
  <2>1. CASE own # {}
    BY <1>3, <1>4, <1>6, <2>1
  <2>2. CASE own = {}
    BY <1>2, <1>3, <1>4, <2>2
  <2> QED BY <2>1, <2>2
<1>8. DifficultyOf(g, request) \in Nat
  <2>1. CASE own # {}
    BY <1>2, <1>3, <1>5, <1>6, <2>1, RowsInView
  <2>2. CASE own = {}
    BY <1>5, <2>2
  <2> QED BY <2>1, <2>2
<1>9. FirstOf(MembersOf(g)) \in BankKeys
  BY <1>2, <1>3
<1>10. Lexical(g) \in Nat \X Nat
  BY <1>1, <1>2, KeysAreRanked
<1>11. SortKey(g, request) \in Nat \X Nat
  <2>1. CASE request.sort = "default"
    BY <1>9, <2>1, KeysAreRanked DEF SortKey
  <2>2. CASE request.sort \in {"problem_asc", "problem_desc"}
    BY <1>2, <1>7, <2>2, KeysAreRanked DEF SortKey
  <2>3. CASE request.sort = "difficulty_desc"
    <3>1. SortKey(g, request) = <<DifficultyOf(g, request), 0>>
      BY <2>3 DEF SortKey
    <3> QED BY <1>8, <3>1
  <2> QED BY <2>1, <2>2, <2>3 DEF Sorts4
<1> QED BY <1>2, <1>7, <1>10, <1>11

Before(request) ==
    {e \in Filtered(request) \X Filtered(request) : ComesBefore(e[1], e[2], request)}

LEMMA BankIsOrdered ==
    ASSUME BankInv, NEW request, request.sort \in Sorts4
    PROVE  Ordered(Filtered(request), Before(request))
<1> DEFINE F == Filtered(request)
           K(g) == SortKey(g, request)
           rated == request.sort \in {"difficulty_asc", "difficulty_desc"}
           desc == request.sort \in {"problem_desc", "difficulty_desc"}
           Apart(g, h) == rated /\ (K(g)[1] = 0) # (K(h)[1] = 0)
           Rest(g, h) == IF K(g) = K(h) THEN Less(Lexical(g), Lexical(h))
                         ELSE IF desc THEN Less(K(h), K(g)) ELSE Less(K(g), K(h))
<1>1. \A g \in F : K(g) \in Nat \X Nat /\ Lexical(g) \in Nat \X Nat
  BY SortedBy
<1>2. \A g, h \in F : Lexical(g) = Lexical(h) => g = h
  <2> SUFFICES ASSUME NEW g \in F, NEW h \in F, Lexical(g) = Lexical(h) PROVE g = h
    OBVIOUS
  <2>1. PICK k \in BankRows : g = GroupOf(k)
    BY GroupsShown
  <2>2. PICK l \in BankRows : h = GroupOf(l)
    BY GroupsShown
  <2>3. k \in BankKeys /\ l \in BankKeys
    BY RowsInView
  <2> QED BY <2>1, <2>2, <2>3, KeysAreRanked
<1>3. \A g, h : ComesBefore(g, h, request) <=> IF Apart(g, h) THEN K(h)[1] = 0 ELSE Rest(g, h)
  BY DEF ComesBefore
<1>4. \A g, h \in F : <<g, h>> \in Before(request) <=> ComesBefore(g, h, request)
  BY DEF Before
<1> HIDE DEF F, K, rated, desc
<1>5. ASSUME NEW g \in F, NEW h \in F, NEW f \in F
      PROVE  /\ ~ Rest(g, g) /\ (g = h \/ Rest(g, h) \/ Rest(h, g))
             /\ Rest(f, g) /\ Rest(g, h) => Rest(f, h)
  <2>1. /\ K(f) \in Nat \X Nat /\ K(g) \in Nat \X Nat /\ K(h) \in Nat \X Nat
        /\ Lexical(f) \in Nat \X Nat /\ Lexical(g) \in Nat \X Nat /\ Lexical(h) \in Nat \X Nat
    BY <1>1
  <2>2. ~ Less(Lexical(g), Lexical(g))
    BY <2>1, LessOrders
  <2>3. ~ Rest(g, g)
    BY <2>2
  <2>4. g = h \/ Rest(g, h) \/ Rest(h, g)
    <3>1. g = h \/ Less(Lexical(g), Lexical(h)) \/ Less(Lexical(h), Lexical(g))
      BY <1>2, <2>1, LessOrders
    <3>2. K(g) = K(h) \/ Less(K(g), K(h)) \/ Less(K(h), K(g))
      BY <2>1, LessOrders
    <3> QED BY <3>1, <3>2
  <2>5. ASSUME Rest(f, g), Rest(g, h) PROVE Rest(f, h)
    <3>1. Less(Lexical(f), Lexical(g)) /\ Less(Lexical(g), Lexical(h)) => Less(Lexical(f), Lexical(h))
      BY <2>1, LessOrders
    <3>2. /\ Less(K(f), K(g)) /\ Less(K(g), K(h)) => Less(K(f), K(h)) /\ K(f) # K(h)
          /\ Less(K(h), K(g)) /\ Less(K(g), K(f)) => Less(K(h), K(f)) /\ K(f) # K(h)
      BY <2>1, LessOrders
    <3>3. CASE K(f) = K(g) /\ K(g) = K(h)
      BY <2>5, <3>1, <3>3
    <3>4. CASE K(f) # K(g) /\ K(g) # K(h)
      BY <2>5, <3>2, <3>4
    <3>5. CASE K(f) = K(g) /\ K(g) # K(h)
      BY <2>5, <3>5
    <3>6. CASE K(f) # K(g) /\ K(g) = K(h)
      BY <2>5, <3>6
    <3> QED BY <3>3, <3>4, <3>5, <3>6
  <2> QED BY <2>3, <2>4, <2>5
<1> HIDE DEF Rest
<1>6. \A g \in F : <<g, g>> \notin Before(request)
  BY <1>3, <1>4, <1>5
<1>7. ASSUME NEW g \in F, NEW h \in F PROVE g = h \/ <<g, h>> \in Before(request) \/ <<h, g>> \in Before(request)
  <2>1. CASE Apart(g, h)
    <3>1. Apart(h, g) /\ (K(g)[1] = 0 \/ K(h)[1] = 0)
      BY <2>1
    <3> HIDE DEF Apart
    <3> QED BY <1>3, <1>4, <2>1, <3>1
  <2>2. CASE ~ Apart(g, h)
    <3>1. ~ Apart(h, g)
      BY <2>2
    <3> HIDE DEF Apart
    <3> QED BY <1>3, <1>4, <1>5, <2>2, <3>1
  <2> QED BY <2>1, <2>2
<1>8. ASSUME NEW f \in F, NEW g \in F, NEW h \in F, <<f, g>> \in Before(request), <<g, h>> \in Before(request)
      PROVE  <<f, h>> \in Before(request)
  <2>1. /\ IF Apart(f, g) THEN K(g)[1] = 0 ELSE Rest(f, g)
        /\ IF Apart(g, h) THEN K(h)[1] = 0 ELSE Rest(g, h)
    BY <1>3, <1>4, <1>8
  <2>2. Rest(f, g) /\ Rest(g, h) => Rest(f, h)
    BY <1>5
  <2>3. IF Apart(f, h) THEN K(h)[1] = 0 ELSE Rest(f, h)
    BY <2>1, <2>2
  <2> HIDE DEF Apart
  <2> QED BY <1>3, <1>4, <2>3
<1> QED BY <1>6, <1>7, <1>8 DEF Ordered, F

LEMMA FewGroups == ASSUME BankInv, NEW request PROVE IsFiniteSet(Filtered(request))
<1> DEFINE groups == {GroupOf(k) : k \in BankRows}
           f == [k \in BankRows |-> GroupOf(k)]
<1>1. f \in Surjection(BankRows, groups)
  BY DEF Surjection
<1>2. Filtered(request) \in SUBSET groups
  BY DEF Filtered
<1> HIDE DEF f, groups
<1>3. IsFiniteSet(groups)
  BY <1>1, RowsInView, FS_Surjection
<1> QED BY <1>2, <1>3, FS_Subset

LEMMA PlaceInOrder ==
    ASSUME NEW request, NEW g \in Filtered(request)
    PROVE  PlaceOf(g, request) = Cardinality(UpTo(Filtered(request), Before(request), g))
<1>1. {h \in Filtered(request) : h = g \/ ComesBefore(h, g, request)}
      = UpTo(Filtered(request), Before(request), g)
  BY DEF UpTo, Before
<1> QED BY <1>1 DEF PlaceOf

\* The pages of a request hold every group once.
LEMMA PagesHoldAll ==
    ASSUME BankInv, NEW request, request.sort \in Sorts4
    PROVE  /\ \A g \in Filtered(request) : \E page \in 1 .. TotalPages(request) : g \in PageGroups(request, page)
           /\ \A page \in 1 .. TotalPages(request) : Cardinality(PageGroups(request, page)) \in 1 .. BankLimit
<1> DEFINE F == Filtered(request)
           total == TotalPages(request)
           at(g) == (Cardinality(UpTo(F, Before(request), g)) + BankLimit - 1) \div BankLimit
<1>1. IsFiniteSet(F) /\ Ordered(F, Before(request)) /\ BankLimit \in Nat \ {0}
  BY FewGroups, BankIsOrdered, MergedBankAssumption
<1>2. total = (Cardinality(F) + BankLimit - 1) \div BankLimit
  BY DEF TotalPages
<1>3. \A g \in F : PlaceOf(g, request) = Cardinality(UpTo(F, Before(request), g))
  BY PlaceInOrder
<1>4. ASSUME NEW page PROVE PageGroups(request, page) = {g \in F : at(g) = PageShown(request, page)}
  BY <1>3 DEF PageGroups
<1> HIDE DEF F, total
<1>5. /\ total \in Nat /\ \A g \in F : at(g) \in 1 .. total
      /\ \A page \in 1 .. total : Cardinality({g \in F : at(g) = page}) \in 1 .. BankLimit
  BY <1>1, <1>2, PagesOfOrder
<1>6. ASSUME NEW page \in 1 .. total PROVE PageShown(request, page) = page
  BY <1>5 DEF PageShown, total
<1> HIDE DEF at
<1>7. ASSUME NEW page \in 1 .. total PROVE PageGroups(request, page) = {g \in F : at(g) = page}
  BY <1>4, <1>6
<1>8. \A g \in F : \E page \in 1 .. total : g \in PageGroups(request, page)
  BY <1>5, <1>7
<1>9. \A page \in 1 .. total : Cardinality(PageGroups(request, page)) \in 1 .. BankLimit
  BY <1>5, <1>7
<1> QED BY <1>8, <1>9 DEF F, total

\* Turning the order of problems round turns each place round.
LEMMA OrderTurnsRound ==
    ASSUME BankInv, NEW up, NEW down, up.sort = "problem_asc", down.sort = "problem_desc",
           up.source = down.source, up.status = down.status, up.selected = down.selected,
           up.attempted = down.attempted, NEW g \in Filtered(up)
    PROVE  PlaceOf(g, up) + PlaceOf(g, down) = Cardinality(Filtered(up)) + 1
<1> DEFINE F == Filtered(up)
<1>1. Filtered(down) = F
  BY DEF Filtered
<1>2. up.sort \in Sorts4 /\ down.sort \in Sorts4
  BY DEF Sorts4
<1>3. ASSUME NEW h \in F
      PROVE  /\ DisplayMember(h, up) = DisplayMember(h, down) /\ SortKey(h, up) = Natural(DisplayMember(h, up))
             /\ SortKey(h, down) = Natural(DisplayMember(h, up))
  BY DEF DisplayMember, SortKey
<1>4. ASSUME NEW h \in F, NEW i \in F, SortKey(h, up) = SortKey(i, up) PROVE h = i
  <2>1. PICK k \in BankRows : h = GroupOf(k)
    BY GroupsShown
  <2>2. PICK l \in BankRows : i = GroupOf(l)
    BY GroupsShown
  <2> DEFINE m == DisplayMember(h, up)
             n == DisplayMember(i, up)
  <2>3. m \in MembersOf(h) /\ n \in MembersOf(i) /\ m \in BankKeys /\ n \in BankKeys
    BY <1>2, SortedBy
  <2>4. GroupOf(m) = h /\ GroupOf(n) = i
    BY <2>1, <2>2, <2>3, MembersAreOfGroup
  <2>5. Natural(m) = Natural(n)
    BY <1>3, <1>4
  <2> HIDE DEF m, n
  <2> QED BY <2>3, <2>4, <2>5, KeysAreRanked
<1>5. ASSUME NEW h \in F, h # g PROVE ComesBefore(h, g, down) <=> ComesBefore(g, h, up)
  <2>1. SortKey(h, up) # SortKey(g, up) /\ SortKey(h, down) = SortKey(h, up) /\ SortKey(g, down) = SortKey(g, up)
    BY <1>3, <1>4, <1>5
  <2>2. ComesBefore(h, g, down) <=> Less(SortKey(g, up), SortKey(h, up))
    BY <2>1 DEF ComesBefore
  <2>3. ComesBefore(g, h, up) <=> Less(SortKey(g, up), SortKey(h, up))
    BY <2>1 DEF ComesBefore
  <2> QED BY <2>2, <2>3
<1>6. \A h \in F : h # g => (<<h, g>> \in Before(down) <=> <<g, h>> \in Before(up))
  <2> HIDE DEF F
  <2>1. ASSUME NEW h \in F PROVE /\ <<h, g>> \in Before(down) <=> ComesBefore(h, g, down)
                                 /\ <<g, h>> \in Before(up) <=> ComesBefore(g, h, up)
    BY <1>1 DEF Before, F
  <2> QED BY <1>5, <2>1
<1>7. <<g, g>> \notin Before(down)
  BY <1>1, <1>2, BankIsOrdered DEF Ordered
<1>8. IsFiniteSet(F) /\ Ordered(F, Before(up))
  BY <1>2, FewGroups, BankIsOrdered
<1>9. PlaceOf(g, up) = Cardinality(UpTo(F, Before(up), g)) /\ PlaceOf(g, down) = Cardinality(UpTo(F, Before(down), g))
  BY <1>1, PlaceInOrder
<1> HIDE DEF F
<1>10. g \in F
  BY DEF F
<1>11. Cardinality(UpTo(F, Before(up), g)) + Cardinality(UpTo(F, Before(down), g)) = Cardinality(F) + 1
  BY <1>6, <1>7, <1>8, <1>10, PlacesFromBothEnds
<1> QED BY <1>9, <1>11 DEF F

LEMMA PagesDoPartition == ASSUME BankInv PROVE PagesPartition
<1> SUFFICES ASSUME NEW source \in BankSites \cup {"any"}, NEW attempted \in BOOLEAN
    PROVE LET selected == IF attempted THEN BankSites ELSE {}
              By(sort) == Query(selected, source, "all", attempted, sort)
              up == By("problem_asc")
              down == By("problem_desc")
              sorts == {"default", "problem_asc"} \cup IF source = "any" THEN {} ELSE {"difficulty_desc"}
          IN  /\ \A sort \in sorts :
                   /\ \A g \in Filtered(By(sort)) :
                        \E page \in 1 .. TotalPages(By(sort)) : g \in PageGroups(By(sort), page)
                   /\ \A page \in 1 .. TotalPages(By(sort)) :
                        Cardinality(PageGroups(By(sort), page)) \in 1 .. BankLimit
              /\ \A g \in Filtered(up) :
                   PlaceOf(g, up) + PlaceOf(g, down) = Cardinality(Filtered(up)) + 1
  BY DEF PagesPartition
<1> DEFINE selected == IF attempted THEN BankSites ELSE {}
           By(sort) == Query(selected, source, "all", attempted, sort)
           sorts == {"default", "problem_asc"} \cup IF source = "any" THEN {} ELSE {"difficulty_desc"}
<1>1. \A sort : /\ By(sort).sort = sort /\ By(sort).source = source /\ By(sort).status = "all"
                /\ By(sort).selected = selected /\ By(sort).attempted = attempted
  BY DEF Query
<1>2. sorts \subseteq Sorts4
  BY DEF Sorts4
<1> HIDE DEF By, sorts, selected
<1>3. ASSUME NEW sort \in sorts
      PROVE  /\ \A g \in Filtered(By(sort)) :
                   \E page \in 1 .. TotalPages(By(sort)) : g \in PageGroups(By(sort), page)
             /\ \A page \in 1 .. TotalPages(By(sort)) :
                   Cardinality(PageGroups(By(sort), page)) \in 1 .. BankLimit
  <2>1. By(sort).sort \in Sorts4
    BY <1>1, <1>2
  <2> QED BY <2>1, PagesHoldAll
<1>4. ASSUME NEW g \in Filtered(By("problem_asc"))
      PROVE  PlaceOf(g, By("problem_asc")) + PlaceOf(g, By("problem_desc")) = Cardinality(Filtered(By("problem_asc"))) + 1
  BY <1>1, OrderTurnsRound
<1> QED BY <1>3, <1>4 DEF By, sorts, selected

\* The bank shows the problems of two sites as they are stored, and its pages hold each once.
LEMMA BankDoesAgree == BankInv => BankAgrees
BY PagesAreTrusted, SolvedAsStored, NothingIsSpoiled, PagesDoPartition DEF BankAgrees

-----------------------------------------------------------------------------
(* What the reports count                                                  *)

\* A set of numbers below a bound has a greatest one.
LEMMA GreatestOf ==
    ASSUME NEW S \in SUBSET Nat, S # {}, NEW b \in Nat, \A m \in S : m <= b
    PROVE  \E n \in S : \A m \in S : m <= n
<1> DEFINE above == {k \in Nat : \A m \in S : m <= k}
<1>1. above \in SUBSET Nat /\ above # {}
  OBVIOUS
<1>2. PICK n \in above : \A m \in above : n <= m
  BY ONLY <1>1, LeastOf
<1>3. n \in S
  <2> SUFFICES ASSUME n \notin S PROVE FALSE
    OBVIOUS
  <2>1. PICK k \in S : TRUE
    OBVIOUS
  <2>2. n - 1 \in above
    BY <2>1, <1>2
  <2> QED BY <2>2, <1>2
<1> QED BY <1>2, <1>3

\* Two sets without a common element count together.
LEMMA Together ==
    ASSUME NEW S, NEW T, IsFiniteSet(S), IsFiniteSet(T), S \cap T = {}
    PROVE  IsFiniteSet(S \cup T) /\ Cardinality(S \cup T) = Cardinality(S) + Cardinality(T)
           /\ Cardinality(S) \in Nat /\ Cardinality(T) \in Nat
<1>1. Cardinality({}) = 0 /\ Cardinality(S) \in Nat /\ Cardinality(T) \in Nat
  BY FS_EmptySet, FS_CardinalityType
<1>2. /\ IsFiniteSet(S \cup T)
      /\ Cardinality(S \cup T) = Cardinality(S) + Cardinality(T) - Cardinality(S \cap T)
  BY FS_Union
<1>3. Cardinality(S \cap T) = 0
  BY <1>1
<1> QED BY <1>1, <1>2, <1>3

LEMMA KeysFinite == ASSUME NEW S, IsFiniteSet(S) PROVE IsFiniteSet({s.key : s \in S})
<1> DEFINE keyOf == [s \in S |-> s.key]
<1>1. keyOf \in Surjection(S, {s.key : s \in S})
  BY DEF Surjection
<1> HIDE DEF keyOf
<1> QED BY <1>1, FS_Surjection

LEMMA EvidenceParts ==
    ASSUME EvidenceInv
    PROVE  /\ tried \subseteq TrySet /\ IsFiniteSet(tried) /\ today \in Nat /\ binned \subseteq Exercises
           /\ described \in [Exercises -> Descriptions \cup {Undescribed}]
           /\ judged \in [Exercises -> SUBSET Tagged]
           /\ reviewed \in [Exercises -> Seq(ReviewRecords)]
           /\ \A s \in tried : s.key \in Exercises /\ s.at \in Nat /\ s.accepted \in BOOLEAN
BY EvidenceAssumption DEF EvidenceInv, EvidenceTypeOK, TrySet, Days

\* Finitely many problems have been tried.
LEMMA FewTried ==
    ASSUME EvidenceInv
    PROVE  /\ IsFiniteSet(Read) /\ IsFiniteSet(Elapsed) /\ Elapsed \subseteq Read /\ Read \subseteq tried
           /\ IsFiniteSet(Attempted) /\ Attempted \subseteq Exercises
           /\ IsFiniteSet(AttemptedIn(Exercises)) /\ AttemptedIn(Exercises) \subseteq Exercises
<1>1. Elapsed \subseteq Read /\ Read \subseteq tried
  BY DEF Elapsed, Read
<1>2. IsFiniteSet(Read) /\ IsFiniteSet(Elapsed)
  BY <1>1, EvidenceParts, FS_Subset
<1>3. IsFiniteSet(Attempted) /\ IsFiniteSet({s.key : s \in Read})
  BY <1>2, KeysFinite DEF Attempted
<1>4. Attempted \subseteq Exercises
  BY <1>1, EvidenceParts DEF Attempted
<1>5. IsFiniteSet(AttemptedIn(Exercises)) /\ AttemptedIn(Exercises) \subseteq Exercises
  BY <1>3, FS_Intersection DEF AttemptedIn
<1> QED BY <1>1, <1>2, <1>3, <1>4, <1>5

\* What a problem's retrospectives say of it: the latest is that of the greatest index, and one
\* mode is of the four.
LEMMA ReviewsOf ==
    ASSUME EvidenceInv, NEW p \in Exercises
    PROVE  /\ Len(reviewed[p]) \in Nat /\ DOMAIN reviewed[p] = 1 .. Len(reviewed[p])
           /\ reviewed[p] # <<>> <=> Len(reviewed[p]) > 0
           /\ \A i \in DOMAIN reviewed[p] :
                /\ reviewed[p][i].mode \in Modes4 \ {"unknown"} /\ reviewed[p][i].at \in Nat
                /\ reviewed[p][i].skills \in SUBSET Tagged
<1>1. reviewed[p] \in Seq(ReviewRecords)
  BY EvidenceParts
<1>2. Len(reviewed[p]) \in Nat /\ DOMAIN reviewed[p] = 1 .. Len(reviewed[p])
      /\ (reviewed[p] # <<>> <=> Len(reviewed[p]) > 0)
  BY <1>1
<1>3. \A i \in DOMAIN reviewed[p] : reviewed[p][i] \in ReviewRecords
  BY <1>1
<1> QED BY <1>2, <1>3 DEF ReviewRecords

LEMMA ModeIsKnown ==
    ASSUME EvidenceInv, NEW p \in Exercises
    PROVE  /\ ModeOf(p) \in Modes4
           /\ ModeOf(p) = "unknown" <=> \A i \in DOMAIN reviewed[p] : reviewed[p][i].at > today
           /\ reviewed[p] # <<>> /\ (\A i \in DOMAIN reviewed[p] : reviewed[p][i].at <= today)
                => ModeOf(p) = LatestReview(p).mode
<1> DEFINE elapsed == {i \in DOMAIN reviewed[p] : reviewed[p][i].at <= today}
<1>1. today \in Nat
  BY EvidenceParts
<1>2. ModeOf(p) = IF elapsed = {} THEN "unknown" ELSE reviewed[p][Max(elapsed)].mode
  BY DEF ModeOf
<1>3. elapsed # {} => Max(elapsed) \in elapsed /\ \A i \in elapsed : i <= Max(elapsed)
  <2>1. SUFFICES ASSUME elapsed # {} PROVE Max(elapsed) \in elapsed /\ \A i \in elapsed : i <= Max(elapsed)
    OBVIOUS
  <2>2. elapsed \in SUBSET Nat /\ Len(reviewed[p]) \in Nat /\ \A i \in elapsed : i <= Len(reviewed[p])
    BY ReviewsOf
  <2> HIDE DEF elapsed
  <2>3. \E n \in elapsed : \A m \in elapsed : m <= n
    BY <2>1, <2>2, GreatestOf
  <2>4. \E n \in elapsed : \A m \in elapsed : n >= m
    BY <2>2, <2>3
  <2>5. Max(elapsed) \in elapsed /\ \A m \in elapsed : Max(elapsed) >= m
    BY <2>4 DEF Max
  <2> QED BY <2>2, <2>5
<1>4. elapsed = {} <=> \A i \in DOMAIN reviewed[p] : reviewed[p][i].at > today
  BY <1>1, ReviewsOf
<1>5. elapsed # {} => ModeOf(p) \in Modes4 \ {"unknown"}
  BY <1>2, <1>3, ReviewsOf
<1>6. ASSUME reviewed[p] # <<>>, \A i \in DOMAIN reviewed[p] : reviewed[p][i].at <= today
      PROVE  ModeOf(p) = LatestReview(p).mode
  <2>1. elapsed = 1 .. Len(reviewed[p]) /\ Len(reviewed[p]) > 0 /\ Len(reviewed[p]) \in Nat
    BY <1>6, ReviewsOf
  <2>3. Len(reviewed[p]) \in elapsed /\ elapsed # {}
    BY ONLY <2>1
  <2> HIDE DEF elapsed
  <2>2. Max(elapsed) = Len(reviewed[p])
    BY <1>3, <2>1, <2>3
  <2> QED BY <1>2, <2>2, <2>3 DEF LatestReview
<1> HIDE DEF elapsed
<1>7. "unknown" \in Modes4
  BY DEF Modes4
<1> QED BY <1>2, <1>4, <1>5, <1>6, <1>7

-----------------------------------------------------------------------------
(* The validator and the report                                            *)

\* The problems of a period by their mode.
LEMMA ModesSplit ==
    ASSUME EvidenceInv, NEW K \in SUBSET Exercises, IsFiniteSet(K)
    PROVE  /\ \A m \in Modes4 : ModeCounts(K)[m] \in Nat
           /\ Cardinality(K) = ModeCounts(K)["independent"] + ModeCounts(K)["assisted"]
                               + ModeCounts(K)["solution_used"] + ModeCounts(K)["unknown"]
           /\ IsFiniteSet(Helped(K))
           /\ Cardinality(Helped(K)) = ModeCounts(K)["assisted"] + ModeCounts(K)["solution_used"]
<1> DEFINE of(m) == {p \in K : ModeOf(p) = m}
<1>1. \A m : of(m) \in SUBSET K
  OBVIOUS
<1>2. \A m : IsFiniteSet(of(m))
  BY <1>1, FS_Subset
<1>3. \A m \in Modes4 : ModeCounts(K)[m] = Cardinality(of(m))
  BY DEF ModeCounts
<1>4. K = (of("independent") \cup of("unknown")) \cup (of("assisted") \cup of("solution_used"))
  BY ModeIsKnown DEF Modes4
<1>5. Helped(K) = of("assisted") \cup of("solution_used")
  BY DEF Helped
<1>6. /\ of("independent") \cap of("unknown") = {} /\ of("assisted") \cap of("solution_used") = {}
      /\ (of("independent") \cup of("unknown")) \cap (of("assisted") \cup of("solution_used")) = {}
  OBVIOUS
<1> HIDE DEF of
<1>7. /\ IsFiniteSet(of("independent") \cup of("unknown"))
      /\ Cardinality(of("independent") \cup of("unknown")) = Cardinality(of("independent")) + Cardinality(of("unknown"))
  BY <1>2, <1>6, Together
<1>8. /\ IsFiniteSet(of("assisted") \cup of("solution_used"))
      /\ Cardinality(of("assisted") \cup of("solution_used")) = Cardinality(of("assisted")) + Cardinality(of("solution_used"))
  BY <1>2, <1>6, Together
<1>9. Cardinality(K) = Cardinality(of("independent") \cup of("unknown")) + Cardinality(of("assisted") \cup of("solution_used"))
  BY <1>4, <1>6, <1>7, <1>8, Together
<1>10. \A m : Cardinality(of(m)) \in Nat
  BY <1>2, FS_CardinalityType
<1>11. "independent" \in Modes4 /\ "assisted" \in Modes4 /\ "solution_used" \in Modes4 /\ "unknown" \in Modes4
  BY DEF Modes4
<1> QED BY <1>3, <1>5, <1>7, <1>8, <1>9, <1>10, <1>11

\* Whatever was solved in a period, its counts pass the validator.
LEMMA PeriodsPass ==
    ASSUME EvidenceInv, NEW K \in SUBSET Exercises, IsFiniteSet(K), NEW name,
           name = "recent" => \A p \in K : IsRecent(p)
    PROVE  /\ PeriodAccepted(PeriodOf(name, K), name)
           /\ PeriodOf(name, K).solved = Cardinality(K)
           /\ PeriodOf(name, K).eligible = Cardinality(Eligible(K))
<1>1. PICK row1 : row1 = PeriodOf(name, K)
  OBVIOUS
<1> DEFINE eligible == Eligible(K)
           independent == {p \in eligible : ModeOf(p) = "independent"}
<1>2. /\ row1.period = name /\ row1.solved = Cardinality(K)
      /\ row1.excluded = ModeCounts(K)["assisted"] + ModeCounts(K)["solution_used"]
      /\ row1.missing = Cardinality(K) - Cardinality(Helped(K)) - Cardinality(eligible)
      /\ row1.eligible = Cardinality(eligible) /\ row1.independent = Cardinality(independent)
      /\ row1.modes = ModeCounts(K)
      /\ row1.confirmed = (eligible # {} /\ independent = eligible)
      /\ row1.includesEarlier = \E p \in K : ~IsRecent(p)
      /\ row1.native = [count |-> Cardinality(Numbered(K)), missing |-> Cardinality(K \ Numbered(K))]
  BY <1>1 DEF PeriodOf
<1>3. IF row1.estimateStatus = "estimated" THEN row1.eligible >= MinSamples /\ row1.estimates # <<>>
      ELSE row1.estimates = <<>>
  <2>1. CASE Cardinality(eligible) >= MinSamples
    <3>1. PICK e : row1.estimates = <<e>> /\ row1.estimateStatus = "estimated"
      BY <1>1, <2>1 DEF PeriodOf
    <3> QED BY <1>2, <2>1, <3>1
  <2>2. CASE ~(Cardinality(eligible) >= MinSamples)
    BY <1>1, <2>2 DEF PeriodOf
  <2> QED BY <2>1, <2>2
<1>4. eligible \in SUBSET K /\ eligible \cap Helped(K) = {} /\ independent \in SUBSET eligible
      /\ Helped(K) \in SUBSET K /\ Numbered(K) \in SUBSET K
  BY DEF Eligible, Helped, Numbered
<1> HIDE DEF eligible, independent
<1>5. /\ IsFiniteSet(eligible) /\ IsFiniteSet(independent) /\ IsFiniteSet(Helped(K)) /\ IsFiniteSet(Numbered(K))
      /\ Cardinality(independent) <= Cardinality(eligible)
      /\ Cardinality(independent) = Cardinality(eligible) <=> independent = eligible
  <2>1. IsFiniteSet(eligible) /\ IsFiniteSet(Helped(K)) /\ IsFiniteSet(Numbered(K))
    BY <1>4, FS_Subset
  <2> QED BY <1>4, <2>1, FS_Subset
<1>6. /\ Cardinality(K) \in Nat /\ Cardinality(eligible) \in Nat /\ Cardinality(independent) \in Nat
      /\ Cardinality(Helped(K)) \in Nat /\ Cardinality(Numbered(K)) \in Nat
  BY <1>5, FS_CardinalityType
<1>7. Cardinality(eligible) > 0 <=> eligible # {}
  BY <1>5, <1>6, FS_EmptySet
<1>8. Cardinality(Helped(K)) + Cardinality(eligible) <= Cardinality(K)
  <2>1. /\ IsFiniteSet(Helped(K) \cup eligible)
        /\ Cardinality(Helped(K) \cup eligible) = Cardinality(Helped(K)) + Cardinality(eligible)
    BY <1>4, <1>5, Together
  <2>2. Helped(K) \cup eligible \in SUBSET K
    BY <1>4
  <2> QED BY <2>1, <2>2, FS_Subset
<1>9. row1.native.count + row1.native.missing = row1.solved
  <2>1. IsFiniteSet(K \ Numbered(K)) /\ Numbered(K) \cup (K \ Numbered(K)) = K
    BY <1>4, FS_Difference
  <2>2. Cardinality(K) = Cardinality(Numbered(K)) + Cardinality(K \ Numbered(K))
    BY <1>5, <2>1, Together
  <2> QED BY <1>2, <2>2
<1>10. /\ Cardinality(K) = ModeCounts(K)["independent"] + ModeCounts(K)["assisted"]
                           + ModeCounts(K)["solution_used"] + ModeCounts(K)["unknown"]
       /\ Cardinality(Helped(K)) = ModeCounts(K)["assisted"] + ModeCounts(K)["solution_used"]
  BY ModesSplit
<1>11. /\ row1.solved = row1.excluded + row1.missing + row1.eligible
       /\ {row1.solved, row1.excluded, row1.missing, row1.eligible, row1.independent} \subseteq Nat
       /\ row1.independent <= row1.eligible
       /\ row1.solved = row1.modes["independent"] + row1.modes["assisted"]
                    + row1.modes["solution_used"] + row1.modes["unknown"]
       /\ row1.excluded = row1.modes["assisted"] + row1.modes["solution_used"]
  <2>1. row1.excluded = Cardinality(Helped(K)) /\ row1.missing \in Nat
    BY <1>2, <1>6, <1>8, <1>10
  <2> QED BY <1>2, <1>5, <1>6, <1>10, <2>1
<1>12. row1.confirmed = (row1.eligible > 0 /\ row1.independent = row1.eligible)
  BY <1>2, <1>5, <1>7
<1>13. name = "recent" => ~row1.includesEarlier
  BY <1>2
<1> QED BY <1>1, <1>2, <1>3, <1>9, <1>11, <1>12, <1>13 DEF PeriodAccepted, eligible

\* No evidence of one source makes an account unable to prepare a plan.
LEMMA ReportsPass == ASSUME EvidenceInv PROVE NeverUnpreparable
<1>1. /\ IsFiniteSet(SolvedNow) /\ SolvedNow \in SUBSET Exercises /\ SolvedNow \subseteq Attempted
      /\ IsFiniteSet(RecentSolves) /\ RecentSolves \in SUBSET Exercises
      /\ IsFiniteSet(EarlierSolves) /\ EarlierSolves \in SUBSET Exercises
  <2>1. SolvedNow \in SUBSET Attempted /\ RecentSolves \in SUBSET Attempted /\ EarlierSolves \in SUBSET Attempted
    BY DEF SolvedNow, RecentSolves, EarlierSolves
  <2> QED BY <2>1, FewTried, FS_Subset
<1>2. SolvedNow = RecentSolves \cup EarlierSolves /\ RecentSolves \cap EarlierSolves = {}
  BY DEF RecentSolves, EarlierSolves
<1>3. Cardinality(SolvedNow) = Cardinality(RecentSolves) + Cardinality(EarlierSolves)
  BY <1>1, <1>2, Together
<1>4. Cardinality(Eligible(SolvedNow)) = Cardinality(Eligible(RecentSolves)) + Cardinality(Eligible(EarlierSolves))
  <2>1. /\ Eligible(SolvedNow) = Eligible(RecentSolves) \cup Eligible(EarlierSolves)
        /\ Eligible(RecentSolves) \cap Eligible(EarlierSolves) = {}
        /\ Eligible(RecentSolves) \in SUBSET RecentSolves /\ Eligible(EarlierSolves) \in SUBSET EarlierSolves
    BY <1>2 DEF Eligible, Helped
  <2>2. IsFiniteSet(Eligible(RecentSolves)) /\ IsFiniteSet(Eligible(EarlierSolves))
    BY <1>1, <2>1, FS_Subset
  <2> QED BY <2>1, <2>2, Together
<1>5. /\ PeriodAccepted(PeriodOf("all_time", SolvedNow), "all_time")
      /\ PeriodAccepted(PeriodOf("recent", RecentSolves), "recent")
      /\ PeriodAccepted(PeriodOf("earlier", EarlierSolves), "earlier")
      /\ PeriodOf("all_time", SolvedNow).solved = Cardinality(SolvedNow)
      /\ PeriodOf("recent", RecentSolves).solved = Cardinality(RecentSolves)
      /\ PeriodOf("earlier", EarlierSolves).solved = Cardinality(EarlierSolves)
      /\ PeriodOf("all_time", SolvedNow).eligible = Cardinality(Eligible(SolvedNow))
      /\ PeriodOf("recent", RecentSolves).eligible = Cardinality(Eligible(RecentSolves))
      /\ PeriodOf("earlier", EarlierSolves).eligible = Cardinality(Eligible(EarlierSolves))
  <2>1. \A p \in RecentSolves : IsRecent(p)
    BY DEF RecentSolves
  <2> QED BY <1>1, <2>1, PeriodsPass
<1>6. PICK a : a = Aggregate
  OBVIOUS
<1>7. /\ a.periods = <<PeriodOf("all_time", SolvedNow), PeriodOf("recent", RecentSolves),
                       PeriodOf("earlier", EarlierSolves)>>
      /\ a.sampleSize = Estimate.size /\ a.attempted = Cardinality(Attempted) /\ a.solved = Cardinality(SolvedNow)
      /\ a.native.count = Cardinality(Numbered(SolvedNow))
      /\ a.native.missing = Cardinality(SolvedNow) - Cardinality(Numbered(SolvedNow))
      /\ a.undescribed = Cardinality({p \in Attempted : ~described[p].stored})
      /\ a.future = Cardinality(Read \ Elapsed)
  BY <1>6 DEF Aggregate
<1>8. a.sampleSize \in Nat
  <2>1. \A K \in SUBSET SolvedNow : Cardinality(K) \in Nat
    BY <1>1, FS_Subset, FS_CardinalityType
  <2>2. Eligible(SolvedNow) \in SUBSET SolvedNow /\ Eligible(RecentSolves) \in SUBSET SolvedNow
    BY <1>2 DEF Eligible
  <2>3. \A i \in {1, 2, 3} : Tiers[i].sample \in SUBSET SolvedNow /\ DOMAIN Tiers = {1, 2, 3}
    BY <2>2 DEF Tiers
  <2>4. Suited # {} => Min(Suited) \in {1, 2, 3}
    <3>1. Suited \in SUBSET Nat /\ Suited \in SUBSET {1, 2, 3}
      BY <2>3 DEF Suited
    <3>2. Suited # {} => \E n \in Suited : \A m \in Suited : n <= m
      BY <3>1, LeastOf
    <3> QED BY <3>1, <3>2 DEF Min
  <2>5. Estimate.size = IF Suited = {} THEN Cardinality(Eligible(SolvedNow)) ELSE Cardinality(Tiers[Min(Suited)].sample)
    BY DEF Estimate
  <2> QED BY <1>7, <2>1, <2>2, <2>3, <2>4, <2>5
<1>9. {a.attempted, a.solved, a.native.count, a.native.missing, a.undescribed, a.future} \subseteq Nat
  <2>1. Numbered(SolvedNow) \in SUBSET SolvedNow /\ {p \in Attempted : ~described[p].stored} \in SUBSET Attempted
    BY DEF Numbered
  <2>2. IsFiniteSet(Numbered(SolvedNow)) /\ IsFiniteSet({p \in Attempted : ~described[p].stored})
        /\ Cardinality(Numbered(SolvedNow)) <= Cardinality(SolvedNow)
    BY <1>1, <2>1, FewTried, FS_Subset
  <2>3. IsFiniteSet(Read \ Elapsed)
    BY FewTried, FS_Difference
  <2>4. /\ Cardinality(Attempted) \in Nat /\ Cardinality(SolvedNow) \in Nat /\ Cardinality(Numbered(SolvedNow)) \in Nat
        /\ Cardinality({p \in Attempted : ~described[p].stored}) \in Nat /\ Cardinality(Read \ Elapsed) \in Nat
    BY <1>1, <2>2, <2>3, FewTried, FS_CardinalityType
  <2> QED BY <1>7, <2>2, <2>4
<1>10. /\ PeriodAccepted(a.periods[1], "all_time") /\ PeriodAccepted(a.periods[2], "recent")
       /\ PeriodAccepted(a.periods[3], "earlier")
       /\ a.periods[1].solved = a.periods[2].solved + a.periods[3].solved
       /\ a.periods[1].eligible = a.periods[2].eligible + a.periods[3].eligible
  BY <1>3, <1>4, <1>5, <1>7
<1>11. \A i \in 1 .. 3 : PeriodAccepted(a.periods[i], <<"all_time", "recent", "earlier">>[i])
  <2>1. ASSUME NEW i \in 1 .. 3 PROVE PeriodAccepted(a.periods[i], <<"all_time", "recent", "earlier">>[i])
    <3>1. i = 1 \/ i = 2 \/ i = 3
      OBVIOUS
    <3>2. <<"all_time", "recent", "earlier">>[1] = "all_time" /\ <<"all_time", "recent", "earlier">>[2] = "recent"
          /\ <<"all_time", "recent", "earlier">>[3] = "earlier"
      OBVIOUS
    <3> QED BY <1>10, <3>1, <3>2
  <2> QED BY <2>1
<1> QED BY <1>6, <1>8, <1>9, <1>10, <1>11 DEF NeverUnpreparable, AggregateAccepted

-----------------------------------------------------------------------------
(* The two reports, and the bands                                          *)

\* The knowledge and the ability report differ by what lies ahead of the clock.
LEMMA ReportsDoAgree == ASSUME EvidenceInv PROVE ReportsAgree
<1>1. Elapsed \subseteq Read /\ \A s \in Read : s.key \in Exercises
  BY EvidenceParts DEF Elapsed, Read
<1>2. \A p : p \in SolvedNow <=> \E s \in Elapsed : s.key = p /\ s.accepted
  BY DEF SolvedNow, Attempted, AcceptedOf
<1>3. \A p : p \in SolvedIn(Exercises) <=> \E s \in Read : s.key = p /\ s.accepted
  BY <1>1 DEF SolvedIn
<1>4. Attempted \subseteq AttemptedIn(Exercises) /\ SolvedNow \subseteq SolvedIn(Exercises)
  BY <1>1, <1>2, <1>3 DEF Attempted, AttemptedIn
<1>5. ASSUME Read = Elapsed PROVE Attempted = AttemptedIn(Exercises) /\ SolvedNow = SolvedIn(Exercises)
  <2>1. Attempted = AttemptedIn(Exercises)
    BY <1>1, <1>5 DEF Attempted, AttemptedIn
  <2>2. \A p : p \in SolvedNow <=> p \in SolvedIn(Exercises)
    BY <1>2, <1>3, <1>5
  <2> QED BY <2>1, <2>2
<1> DEFINE Independent == {p \in SolvedNow : ModeOf(p) = "independent"}
<1>6. ASSUME Read = Elapsed, ~ \E p \in Exercises : \E i \in DOMAIN reviewed[p] : reviewed[p][i].at > today
      PROVE  /\ Independent \cup Helped(SolvedNow) = ReviewedIn(Exercises)
             /\ \A n \in Nodes : Completed(n, "independent", Exercises) \subseteq Independent
  <2>1. ASSUME NEW p \in SolvedNow
        PROVE  /\ p \in Exercises
               /\ ModeOf(p) = "unknown" <=> reviewed[p] = <<>>
               /\ reviewed[p] # <<>> => ModeOf(p) = LatestReview(p).mode
               /\ ModeOf(p) \in Modes4
    <3>1. p \in Exercises
      BY <1>1, <1>2, <2>1
    <3>2. today \in Nat /\ \A i \in DOMAIN reviewed[p] : reviewed[p][i].at <= today /\ reviewed[p][i].at \in Nat
      BY <1>6, <3>1, ReviewsOf, EvidenceParts
    <3>3. DOMAIN reviewed[p] = {} <=> reviewed[p] = <<>>
      <4>1. /\ DOMAIN reviewed[p] = 1 .. Len(reviewed[p]) /\ Len(reviewed[p]) \in Nat
            /\ reviewed[p] # <<>> <=> Len(reviewed[p]) > 0
        BY <3>1, ReviewsOf
      <4>2. 1 .. Len(reviewed[p]) = {} <=> ~(Len(reviewed[p]) > 0)
        BY <4>1
      <4> QED BY ONLY <4>1, <4>2
    <3>4. ModeOf(p) = "unknown" <=> DOMAIN reviewed[p] = {}
      BY <3>1, <3>2, ModeIsKnown
    <3> QED BY <3>1, <3>2, <3>3, <3>4, ModeIsKnown
  <2>2. Independent \cup Helped(SolvedNow) = {p \in SolvedNow : reviewed[p] # <<>>}
    BY <2>1 DEF Helped, Modes4
  <2>3. ReviewedIn(Exercises) = {p \in SolvedNow : reviewed[p] # <<>>}
    BY <1>5, <1>6 DEF ReviewedIn
  <2>4. ASSUME NEW n \in Nodes, NEW p \in Completed(n, "independent", Exercises) PROVE p \in Independent
    BY <2>1, <2>3 DEF Completed
  <2> QED BY <2>2, <2>3, <2>4
<1> QED BY <1>4, <1>5, <1>6 DEF ReportsAgree

\* The evidence of a set of problems is that of each of them.
LEMMA EvidenceByProblem ==
    ASSUME NEW K \in SUBSET Exercises, NEW n, NEW m
    PROVE  /\ Labelled(n, K) = Labelled(n, Exercises) \cap K /\ Confirmed(n, K) = Confirmed(n, Exercises) \cap K
           /\ Completed(n, m, K) = Completed(n, m, Exercises) \cap K
<1>1. /\ AttemptedIn(K) = AttemptedIn(Exercises) \cap K /\ SolvedIn(K) = SolvedIn(Exercises) \cap K
  BY DEF AttemptedIn, SolvedIn
<1>2. ReviewedIn(K) = ReviewedIn(Exercises) \cap K
  BY <1>1 DEF ReviewedIn
<1> QED BY <1>1, <1>2 DEF Labelled, Confirmed, Completed

LEMMA RelatedOf ==
    ASSUME NEW K, NEW n, NEW p
    PROVE  p \in Related(n, K) <=>
             p \in Labelled(n, K) \/ p \in Confirmed(n, K) \/ \E m \in Modes4 : p \in Completed(n, m, K)
<1> DEFINE some == UNION {Completed(n, m, K) : m \in Modes4}
<1>1. p \in some <=> \E m \in Modes4 : p \in Completed(n, m, K)
  OBVIOUS
<1>2. Related(n, K) = Labelled(n, K) \cup Confirmed(n, K) \cup some
  BY DEF Related
<1> HIDE DEF some
<1> QED BY <1>1, <1>2

LEMMA BandsAddUp == ASSUME EvidenceInv PROVE BandsMakeTheWhole
<1> DEFINE tried1 == AttemptedIn(Exercises)
           Band(q) == {p \in tried1 : BandOf(p) = BandOf(q)}
<1>1. /\ Bands = {Band(q) : q \in tried1} /\ tried1 \in SUBSET Exercises
      /\ \A q \in tried1 : q \in Band(q) /\ Band(q) \in SUBSET Exercises
  BY FewTried DEF Bands
<1>2. \A K, L \in Bands : K # L => K \cap L = {}
  BY <1>1
<1>3. ASSUME NEW n \in Nodes
      PROVE  /\ Related(n, Exercises) \subseteq tried1
             /\ \A K \in Bands : Related(n, K) = Related(n, Exercises) \cap K
             /\ Completed(n, "independent", Exercises) \subseteq tried1
  <2>1. \A m : Completed(n, m, Exercises) \subseteq tried1
    BY DEF Completed, ReviewedIn, SolvedIn, AttemptedIn, Read
  <2>2. Related(n, Exercises) \subseteq tried1
    BY <2>1 DEF Related, Labelled, Confirmed
  <2>3. ASSUME NEW K \in Bands PROVE Related(n, K) = Related(n, Exercises) \cap K
    <3>1. K \in SUBSET Exercises
      BY <1>1
    <3>2. ASSUME NEW p PROVE p \in Related(n, K) <=> p \in Related(n, Exercises) /\ p \in K
      <4>1. \A m : p \in Completed(n, m, K) <=> p \in Completed(n, m, Exercises) /\ p \in K
        BY <3>1, EvidenceByProblem
      <4>2. /\ p \in Labelled(n, K) <=> p \in Labelled(n, Exercises) /\ p \in K
            /\ p \in Confirmed(n, K) <=> p \in Confirmed(n, Exercises) /\ p \in K
        BY <3>1, EvidenceByProblem
      <4> QED BY <4>1, <4>2, RelatedOf
    <3> QED BY <3>2
  <2> QED BY <2>1, <2>2, <2>3
<1>4. \A n \in Nodes : \A K \in Bands : Completed(n, "independent", K) = Completed(n, "independent", Exercises) \cap K
  BY <1>1, EvidenceByProblem
<1> HIDE DEF tried1, Band
<1>5. \A p \in tried1 : \E K \in Bands : p \in K
  BY <1>1
<1>6. ASSUME NEW n \in Nodes PROVE Related(n, Exercises) = UNION {Related(n, K) : K \in Bands}
  BY <1>3, <1>5
<1>7. ASSUME NEW n \in Nodes
      PROVE  Completed(n, "independent", Exercises) = UNION {Completed(n, "independent", K) : K \in Bands}
  BY <1>3, <1>4, <1>5
<1>8. ASSUME NEW n \in Nodes, NEW K \in Bands, NEW L \in Bands, K # L PROVE Related(n, K) \cap Related(n, L) = {}
  BY <1>2, <1>3, <1>8
<1> QED BY <1>6, <1>7, <1>8 DEF BandsMakeTheWhole

-----------------------------------------------------------------------------
(* The nodes of the taxonomy                                               *)

\* What lies above a node, by a definition without recursion: what every set that holds the
\* node's parent, and the parent of whatever it holds, has in it.
Closed(C) == \A c \in C : ParentOf[c] # 0 => ParentOf[c] \in C
UpFrom(n) ==
    {m \in Nodes : \A C \in SUBSET Nodes : Closed(C) /\ (ParentOf[n] # 0 => ParentOf[n] \in C) => m \in C}

\* Hence the recursive definition of what is above a node has a solution.
LEMMA AboveUnfolds ==
    Above = [n \in Nodes |-> IF ParentOf[n] = 0 THEN {} ELSE {ParentOf[n]} \cup Above[ParentOf[n]]]
<1> DEFINE g == [n \in Nodes |-> UpFrom(n)]
<1>1. \A n \in Nodes : ParentOf[n] \in Nodes \cup {0}
  BY EvidenceAssumption
<1>2. ASSUME NEW n \in Nodes, ParentOf[n] = 0 PROVE UpFrom(n) = {}
  <2>1. Closed({}) /\ {} \in SUBSET Nodes
    BY DEF Closed
  <2> QED BY <1>2, <2>1 DEF UpFrom
<1>3. ASSUME NEW n \in Nodes, ParentOf[n] # 0
      PROVE  UpFrom(n) = {ParentOf[n]} \cup UpFrom(ParentOf[n])
  <2> DEFINE p == ParentOf[n]
  <2>1. p \in Nodes
    BY <1>1, <1>3
  <2>2. p \in UpFrom(n)
    BY <1>3, <2>1 DEF UpFrom
  <2>3. ASSUME NEW m \in UpFrom(p) PROVE m \in UpFrom(n)
    <3>1. ASSUME NEW C \in SUBSET Nodes, Closed(C), p \in C PROVE m \in C
      <4>1. ParentOf[p] # 0 => ParentOf[p] \in C
        BY <3>1 DEF Closed
      <4> QED BY <2>3, <3>1, <4>1 DEF UpFrom
    <3> QED BY <1>3, <2>3, <3>1 DEF UpFrom
  <2>4. ASSUME NEW m \in UpFrom(n) PROVE m \in {p} \cup UpFrom(p)
    <3> DEFINE D == {p} \cup UpFrom(p)
    <3>1. D \in SUBSET Nodes
      BY <2>1 DEF UpFrom
    <3>2. Closed(D)
      <4>1. ParentOf[p] # 0 => ParentOf[p] \in UpFrom(p)
        BY <1>1, <2>1 DEF UpFrom
      <4>2. ASSUME NEW c \in UpFrom(p), ParentOf[c] # 0 PROVE ParentOf[c] \in UpFrom(p)
        <5>1. c \in Nodes /\ ParentOf[c] \in Nodes
          BY <1>1, <4>2 DEF UpFrom
        <5>2. ASSUME NEW C \in SUBSET Nodes, Closed(C), ParentOf[p] # 0 => ParentOf[p] \in C PROVE ParentOf[c] \in C
          <6>1. c \in C
            BY <4>2, <5>2 DEF UpFrom
          <6> QED BY <4>2, <5>2, <6>1 DEF Closed
        <5> QED BY <5>1, <5>2 DEF UpFrom
      <4> QED BY <4>1, <4>2 DEF Closed
    <3>3. p \in D
      OBVIOUS
    <3> QED BY <1>3, <2>4, <3>1, <3>2, <3>3 DEF UpFrom
  <2> QED BY <2>2, <2>3, <2>4
<1>4. g = [n \in Nodes |-> IF ParentOf[n] = 0 THEN {} ELSE {ParentOf[n]} \cup g[ParentOf[n]]]
  <2>1. ASSUME NEW n \in Nodes PROVE g[n] = IF ParentOf[n] = 0 THEN {} ELSE {ParentOf[n]} \cup g[ParentOf[n]]
    BY <1>1, <1>2, <1>3
  <2> HIDE DEF g
  <2>2. g = [n \in Nodes |-> g[n]]
    BY DEF g
  <2> QED BY <2>1, <2>2
<1> HIDE DEF g
<1> QED BY <1>4 DEF Above

LEMMA AboveOf ==
    ASSUME NEW t \in Nodes
    PROVE  Above[t] = IF ParentOf[t] = 0 THEN {} ELSE {ParentOf[t]} \cup Above[ParentOf[t]]
BY AboveUnfolds

\* What is above a node is the parent of it or of another above it.
LEMMA AboveByChild ==
    ASSUME NEW n \in Nodes, NEW t \in Nodes
    PROVE  n \in Above[t] <=> \E m \in Nodes : ParentOf[m] = n /\ (m = t \/ m \in Above[t])
<1> DEFINE Good(u) == n \in Above[u] <=> \E m \in Nodes : ParentOf[m] = n /\ (m = u \/ m \in Above[u])
           bad == {u \in Nodes : ~Good(u)}
<1>1. /\ Nodes \subseteq Nat \ {0} /\ \A u \in Nodes : ParentOf[u] \in Nodes \cup {0} /\ ParentOf[u] < u
  BY EvidenceAssumption
<1>2. ASSUME NEW u \in bad PROVE \E v \in bad : v < u
  <2>1. u \in Nodes /\ ~Good(u) /\ n # 0
    BY <1>1
  <2>2. ParentOf[u] # 0
    <3> SUFFICES ASSUME ParentOf[u] = 0 PROVE FALSE
      OBVIOUS
    <3>1. Above[u] = {}
      BY <2>1, AboveOf
    <3> QED BY <2>1, <3>1
  <2> DEFINE p == ParentOf[u]
  <2>3. p \in Nodes /\ p < u /\ Above[u] = {p} \cup Above[p]
    BY <1>1, <2>1, <2>2, AboveOf
  <2>4. ~Good(p)
    <3> SUFFICES ASSUME Good(p) PROVE Good(u)
      BY <2>1
    <3>1. n \in Above[u] <=> n = p \/ n \in Above[p]
      BY <2>3
    <3>2. (\E m \in Nodes : ParentOf[m] = n /\ (m = u \/ m \in Above[u]))
          <=> n = p \/ \E m \in Nodes : ParentOf[m] = n /\ (m = p \/ m \in Above[p])
      BY <2>1, <2>3
    <3> QED BY <3>1, <3>2
  <2> QED BY <2>3, <2>4
<1>3. bad = {}
  <2> SUFFICES ASSUME bad # {} PROVE FALSE
    OBVIOUS
  <2>1. bad \in SUBSET Nat
    BY <1>1
  <2> HIDE DEF bad
  <2>2. PICK u \in bad : \A m \in bad : u <= m
    BY <2>1, LeastOf
  <2>3. PICK v \in bad : v < u
    BY <1>2
  <2> QED BY <2>1, <2>2, <2>3
<1> QED BY <1>3

\* Tags reach a node themselves, or a node just below it.
LEMMA ReachesByChild ==
    ASSUME NEW n \in Nodes, NEW tags \in SUBSET Nodes
    PROVE  Reaches(tags, n) <=> n \in tags \/ \E m \in Nodes : ParentOf[m] = n /\ Reaches(tags, m)
<1>1. \A t \in tags : n \in Above[t] <=> \E m \in Nodes : ParentOf[m] = n /\ (m = t \/ m \in Above[t])
  BY AboveByChild
<1>2. (\E t \in tags : n \in Above[t]) <=> \E m \in Nodes : ParentOf[m] = n /\ \E t \in tags : m = t \/ m \in Above[t]
  BY <1>1
<1> QED BY <1>2 DEF Reaches

\* The tags of a problem are nodes.
LEMMA TagsAreNodes ==
    ASSUME EvidenceInv, NEW p \in Exercises
    PROVE  /\ described[p].labels \in SUBSET Nodes /\ judged[p] \in SUBSET Nodes
           /\ reviewed[p] # <<>> => LatestReview(p).skills \in SUBSET Nodes /\ LatestReview(p).mode \in Modes4
<1>1. Tagged \in SUBSET Nodes
  BY EvidenceAssumption
<1>2. described[p] \in Descriptions \cup {Undescribed} /\ judged[p] \in SUBSET Tagged
  BY EvidenceParts
<1>3. described[p].labels \in SUBSET Tagged
  <2>1. CASE described[p] = Undescribed
    BY <2>1 DEF Undescribed
  <2>2. CASE described[p] \in Descriptions
    BY <2>2 DEF Descriptions
  <2> QED BY <1>2, <2>1, <2>2
<1>4. reviewed[p] # <<>> => LatestReview(p).skills \in SUBSET Tagged /\ LatestReview(p).mode \in Modes4
  <2>1. SUFFICES ASSUME reviewed[p] # <<>>
                 PROVE  LatestReview(p).skills \in SUBSET Tagged /\ LatestReview(p).mode \in Modes4
    OBVIOUS
  <2>2. Len(reviewed[p]) \in DOMAIN reviewed[p]
    BY <2>1, ReviewsOf
  <2> QED BY <2>2, ReviewsOf DEF LatestReview
<1> QED BY <1>1, <1>2, <1>3, <1>4

\* A category sees a problem through the nodes below it, and what it says of its techniques is
\* what they say.
LEMMA NodesDoReconcile == ASSUME EvidenceInv PROVE NodesReconcile
<1> DEFINE TagsOf(p) ==
             (IF p \in AttemptedIn(Exercises) THEN described[p].labels \cup judged[p] ELSE {})
             \cup (IF p \in ReviewedIn(Exercises) THEN LatestReview(p).skills ELSE {})
           WasTried(p) == p \in AttemptedIn(Exercises)
           WasReviewed(p) == p \in ReviewedIn(Exercises)
<1>1. /\ AttemptedIn(Exercises) \subseteq Exercises /\ ReviewedIn(Exercises) \subseteq Exercises
      /\ \A p \in ReviewedIn(Exercises) : reviewed[p] # <<>>
  BY DEF AttemptedIn, ReviewedIn, SolvedIn
<1>2. ASSUME NEW n \in Nodes, NEW p
      PROVE  p \in Related(n, Exercises) <=>
               \/ WasTried(p) /\ (Reaches(described[p].labels, n) \/ Reaches(judged[p], n))
               \/ WasReviewed(p) /\ Reaches(LatestReview(p).skills, n)
  <2>1. /\ p \in Labelled(n, Exercises) <=> WasTried(p) /\ Reaches(described[p].labels, n)
        /\ p \in Confirmed(n, Exercises) <=> WasTried(p) /\ Reaches(judged[p], n)
    BY DEF Labelled, Confirmed
  <2>2. \A m : p \in Completed(n, m, Exercises) <=> WasReviewed(p) /\ LatestReview(p).mode = m /\ Reaches(LatestReview(p).skills, n)
    BY DEF Completed
  <2>3. WasReviewed(p) => LatestReview(p).mode \in Modes4
    BY <1>1, TagsAreNodes
  <2> HIDE DEF WasTried, WasReviewed
  <2> QED BY <2>1, <2>2, <2>3, RelatedOf
<1>3. ASSUME NEW n \in Nodes
      PROVE  Related(n, Exercises) = {p \in Exercises : n \in TagsOf(p)}
                                     \cup UNION {Related(m, Exercises) : m \in {l \in Nodes : ParentOf[l] = n}}
  <2> DEFINE below == UNION {Related(m, Exercises) : m \in {l \in Nodes : ParentOf[l] = n}}
  <2>1. \A p : p \in below <=> \E m \in Nodes : ParentOf[m] = n /\ p \in Related(m, Exercises)
    OBVIOUS
  <2> HIDE DEF below
  <2>2. ASSUME NEW p \in Exercises
        PROVE  p \in Related(n, Exercises) <=> n \in TagsOf(p) \/ p \in below
    <3> DEFINE Up(tags) == \E m \in Nodes : ParentOf[m] = n /\ Reaches(tags, m)
    <3>1. /\ Reaches(described[p].labels, n) <=> n \in described[p].labels \/ Up(described[p].labels)
          /\ Reaches(judged[p], n) <=> n \in judged[p] \/ Up(judged[p])
      BY TagsAreNodes, ReachesByChild
    <3>2. WasReviewed(p) => (Reaches(LatestReview(p).skills, n) <=> n \in LatestReview(p).skills \/ Up(LatestReview(p).skills))
      BY <1>1, TagsAreNodes, ReachesByChild
    <3>3. p \in below <=>
               \/ WasTried(p) /\ (Up(described[p].labels) \/ Up(judged[p]))
               \/ WasReviewed(p) /\ Up(LatestReview(p).skills)
      <4>1. \A m \in Nodes : p \in Related(m, Exercises) <=>
               \/ WasTried(p) /\ (Reaches(described[p].labels, m) \/ Reaches(judged[p], m))
               \/ WasReviewed(p) /\ Reaches(LatestReview(p).skills, m)
        BY <1>2
      <4> HIDE DEF WasTried, WasReviewed
      <4> QED BY <2>1, <4>1
    <3>4. n \in TagsOf(p) <=>
               \/ WasTried(p) /\ (n \in described[p].labels \/ n \in judged[p])
               \/ WasReviewed(p) /\ n \in LatestReview(p).skills
      <4>1. CASE p \in AttemptedIn(Exercises) /\ p \in ReviewedIn(Exercises)
        BY ONLY <4>1
      <4>2. CASE p \in AttemptedIn(Exercises) /\ p \notin ReviewedIn(Exercises)
        BY ONLY <4>2
      <4>3. CASE p \notin AttemptedIn(Exercises) /\ p \in ReviewedIn(Exercises)
        BY ONLY <4>3
      <4>4. CASE p \notin AttemptedIn(Exercises) /\ p \notin ReviewedIn(Exercises)
        BY ONLY <4>4
      <4> QED BY ONLY <4>1, <4>2, <4>3, <4>4
    <3>5. p \in Related(n, Exercises) <=>
               \/ WasTried(p) /\ (Reaches(described[p].labels, n) \/ Reaches(judged[p], n))
               \/ WasReviewed(p) /\ Reaches(LatestReview(p).skills, n)
      BY <1>2
    <3> HIDE DEF WasTried, WasReviewed, Up, TagsOf
    <3> QED BY ONLY <3>1, <3>2, <3>3, <3>4, <3>5
  <2>3. \A m \in Nodes : Related(m, Exercises) \subseteq Exercises
    BY <1>1, <1>2
  <2>4. below \subseteq Exercises
    BY <2>1, <2>3
  <2> HIDE DEF TagsOf
  <2>5. Related(n, Exercises) = {p \in Exercises : n \in TagsOf(p)} \cup below
    BY <2>2, <2>3, <2>4
  <2> QED BY <2>5 DEF below
<1>4. ASSUME NEW n \in Nodes, NEW t \in TechniquesBelow(n)
      PROVE  Completed(t, "independent", Exercises) # {}
             <=> StatusOf(t, Exercises) \in {"practicing", "independent_evidence"}
  <2> DEFINE alone == Completed(t, "independent", Exercises)
             reviews == UNION {Completed(t, m, Exercises) : m \in Modes4}
             c == Cardinality(alone)
  <2>1. t \in Techniques /\ MinIndependent \in Nat \ {0}
    BY EvidenceAssumption DEF TechniquesBelow
  <2>2. alone \subseteq reviews /\ reviews \subseteq Related(t, Exercises)
    BY DEF Related, Modes4
  <2>3. IsFiniteSet(alone)
    <3>1. alone \in SUBSET AttemptedIn(Exercises)
      BY DEF Completed, ReviewedIn, SolvedIn, AttemptedIn, Read
    <3> HIDE DEF alone
    <3> QED BY <3>1, FewTried, FS_Subset
  <2>4. c \in Nat /\ (c = 0 <=> alone = {})
    BY <2>3, FS_CardinalityType, FS_EmptySet
  <2>5. StatusOf(t, Exercises) =
          CASE t \notin Techniques -> "category_summary"
            [] Related(t, Exercises) = {} -> "not_observed"
            [] Related(t, Exercises) # {} /\ reviews = {} -> "unconfirmed"
            [] reviews # {} /\ c = 0 -> "needs_practice"
            [] c \in 1 .. MinIndependent - 1 -> "practicing"
            [] OTHER -> "independent_evidence"
    BY DEF StatusOf
  <2> HIDE DEF alone, reviews, c
  <2>6. CASE Related(t, Exercises) = {}
    BY <2>1, <2>2, <2>4, <2>5, <2>6 DEF alone
  <2>7. CASE Related(t, Exercises) # {} /\ reviews = {}
    BY <2>1, <2>2, <2>4, <2>5, <2>7 DEF alone
  <2>8. CASE Related(t, Exercises) # {} /\ reviews # {} /\ c = 0
    BY <2>1, <2>2, <2>4, <2>5, <2>8 DEF alone
  <2>9. CASE Related(t, Exercises) # {} /\ reviews # {} /\ c # 0 /\ c \in 1 .. MinIndependent - 1
    BY <2>1, <2>2, <2>4, <2>5, <2>9 DEF alone
  <2>10. CASE Related(t, Exercises) # {} /\ reviews # {} /\ c # 0 /\ c \notin 1 .. MinIndependent - 1
    BY <2>1, <2>2, <2>4, <2>5, <2>10 DEF alone
  <2> QED BY <2>6, <2>7, <2>8, <2>9, <2>10
<1>5. \A n \in Nodes : ProvenBelow(n, Exercises) =
          {t \in TechniquesBelow(n) : StatusOf(t, Exercises) \in {"practicing", "independent_evidence"}}
  BY <1>4 DEF ProvenBelow
<1> QED BY <1>3, <1>5 DEF NodesReconcile

-----------------------------------------------------------------------------
(* The ranges around an estimate                                           *)

\* A finite set that is not empty has a member of the highest grade.
LEMMA HighestOf ==
    ASSUME NEW K, IsFiniteSet(K), K # {}, NEW f \in [K -> Nat]
    PROVE  \E p \in K : \A q \in K : f[q] <= f[p]
<1> DEFINE Has(S) == \E p \in S : \A q \in S : f[q] <= f[p]
           bad == {n \in Nat : \E S \in SUBSET K : S # {} /\ ~Has(S) /\ Cardinality(S) = n}
<1>1. \A S \in SUBSET K : IsFiniteSet(S) /\ Cardinality(S) \in Nat
  BY FS_Subset, FS_CardinalityType
<1>2. ASSUME NEW n \in bad PROVE \E m \in bad : m < n
  <2>1. PICK S \in SUBSET K : S # {} /\ ~Has(S) /\ Cardinality(S) = n
    OBVIOUS
  <2>2. PICK x \in S : TRUE
    BY <2>1
  <2> DEFINE T == S \ {x}
  <2>3. T \in SUBSET K /\ Cardinality(T) \in Nat /\ Cardinality(T) = n - 1
    BY <1>1, <2>1, <2>2, FS_RemoveElement
  <2>4. T # {}
    <3> SUFFICES ASSUME T = {} PROVE FALSE
      OBVIOUS
    <3>1. S = {x} /\ f[x] \in Nat
      BY <2>2
    <3>2. Has(S)
      BY <3>1
    <3> QED BY <2>1, <3>2
  <2>5. ~Has(T)
    <3> SUFFICES ASSUME Has(T) PROVE FALSE
      OBVIOUS
    <3>1. PICK p \in T : \A q \in T : f[q] <= f[p]
      OBVIOUS
    <3>2. \A q \in S : f[q] \in Nat
      OBVIOUS
    <3>3. CASE f[p] >= f[x]
      <4>1. \A q \in S : f[q] <= f[p]
        BY <3>1, <3>2, <3>3
      <4> QED BY <2>1, <3>1, <4>1
    <3>4. CASE ~ (f[p] >= f[x])
      <4>1. \A q \in S : f[q] <= f[x]
        BY <2>2, <3>1, <3>2, <3>4
      <4> QED BY <2>1, <2>2, <4>1
    <3> QED BY <3>3, <3>4
  <2> HIDE DEF T, Has
  <2> QED BY <2>1, <2>3, <2>4, <2>5
<1>3. bad = {}
  <2> SUFFICES ASSUME bad # {} PROVE FALSE
    OBVIOUS
  <2>1. bad \in SUBSET Nat
    OBVIOUS
  <2> HIDE DEF bad
  <2>2. PICK n \in bad : \A m \in bad : n <= m
    BY <2>1, LeastOf
  <2>3. PICK m \in bad : m < n
    BY <1>2
  <2> QED BY <2>1, <2>2, <2>3
<1>4. Has(K)
  <2> SUFFICES ASSUME ~Has(K) PROVE FALSE
    OBVIOUS
  <2> HIDE DEF Has
  <2>1. Cardinality(K) \in bad
    BY <1>1
  <2> QED BY <1>3, <2>1
<1> QED BY <1>4

\* What the ratings of a sample are, in ascending order.
LEMMA GradesAscend ==
    ASSUME EvidenceInv, NEW K \in SUBSET Exercises, IsFiniteSet(K), K # {},
           \A p \in K : \E g \in described[p].grades : g > 0
    PROVE  /\ Cardinality(K) \in Nat \ {0}
           /\ Len(GradesOf(K)) = Cardinality(K)
           /\ \A i \in 1 .. Cardinality(K) : GradesOf(K)[i] \in Nat
           /\ \A i, j \in 1 .. Cardinality(K) : i <= j => GradesOf(K)[i] <= GradesOf(K)[j]
<1> DEFINE N == Cardinality(K)
           grade(p) == CHOOSE g \in described[p].grades : TRUE
           Below(g) == {p \in K : grade(p) < g}
           Same(g) == {p \in K : grade(p) = g}
           Fits(i, g) == Cardinality(Below(g)) < i /\ i <= Cardinality(Below(g) \cup Same(g))
<1>1. \A p \in K : grade(p) \in Gradings
  <2>1. ASSUME NEW p \in K PROVE grade(p) \in Gradings
    <3>1. described[p] \in Descriptions \cup {Undescribed} /\ described[p].grades # {}
      BY EvidenceParts
    <3>2. described[p].grades \subseteq Gradings
      <4>1. CASE described[p] = Undescribed
        BY <3>1, <4>1 DEF Undescribed
      <4>2. CASE described[p] \in Descriptions
        BY <4>2 DEF Descriptions
      <4> QED BY <3>1, <4>1, <4>2
    <3> QED BY <3>1, <3>2
  <2> QED BY <2>1
<1>2. Gradings \subseteq Nat
  BY EvidenceAssumption
<1>3. N \in Nat \ {0}
  BY FS_CardinalityType, FS_EmptySet
<1>4. GradesOf(K) = [i \in 1 .. N |-> CHOOSE g \in Gradings : Fits(i, g)]
  BY DEF GradesOf
<1> HIDE DEF grade
<1>5. \A g : /\ Below(g) \in SUBSET K /\ Same(g) \in SUBSET K
             /\ IsFiniteSet(Below(g)) /\ IsFiniteSet(Below(g) \cup Same(g))
             /\ Cardinality(Below(g)) \in Nat /\ Cardinality(Below(g) \cup Same(g)) \in Nat
  <2>1. ASSUME NEW g PROVE Below(g) \in SUBSET K /\ Same(g) \in SUBSET K /\ Below(g) \cup Same(g) \in SUBSET K
    OBVIOUS
  <2> HIDE DEF Below, Same
  <2> QED BY <2>1, FS_Subset, FS_CardinalityType
\* A set of problems of the sample that is not empty has one of the highest rating.
<1>6. ASSUME NEW S \in SUBSET K, S # {} PROVE \E p \in S : \A q \in S : grade(q) <= grade(p)
  <2> DEFINE f == [p \in S |-> grade(p)]
  <2>1. f \in [S -> Nat] /\ IsFiniteSet(S)
    BY <1>1, <1>2, FS_Subset
  <2>2. \A p \in S : f[p] = grade(p)
    OBVIOUS
  <2> HIDE DEF f
  <2>3. PICK p \in S : \A q \in S : f[q] <= f[p]
    BY <1>6, <2>1, HighestOf
  <2> QED BY <2>2, <2>3
<1>7. ASSUME NEW i \in 1 .. N PROVE \E g \in Gradings : Fits(i, g)
  <2> DEFINE up == {g \in Gradings : i <= Cardinality(Below(g) \cup Same(g))}
  <2>1. up # {}
    <3>1. PICK p \in K : \A q \in K : grade(q) <= grade(p)
      BY <1>6
    <3>2. Below(grade(p)) \cup Same(grade(p)) = K
      <4>1. ASSUME NEW q \in K PROVE grade(q) < grade(p) \/ grade(q) = grade(p)
        <5>1. grade(q) \in Nat /\ grade(p) \in Nat /\ grade(q) <= grade(p)
          BY <1>1, <1>2, <3>1
        <5> QED BY <5>1
      <4> QED BY <4>1
    <3> HIDE DEF Below, Same
    <3>3. i <= Cardinality(Below(grade(p)) \cup Same(grade(p)))
      BY <1>3, <3>2
    <3>4. grade(p) \in up
      BY <1>1, <3>3
    <3> QED BY <3>4
  <2>2. up \in SUBSET Nat
    BY <1>2
  <2>3. PICK g \in up : \A h \in up : g <= h
    <3> HIDE DEF up
    <3> QED BY <2>1, <2>2, LeastOf
  <2>4. Cardinality(Below(g)) < i
    <3> SUFFICES ASSUME ~ (Cardinality(Below(g)) < i) PROVE FALSE
      OBVIOUS
    <3>1. Cardinality(Below(g)) \in Nat /\ i \in Nat /\ i <= Cardinality(Below(g)) /\ i >= 1
      <4>1. Cardinality(Below(g)) \in Nat
        BY <1>5
      <4> HIDE DEF Below, N
      <4> QED BY <1>3, <4>1
    <3>2. Below(g) # {}
      <4> SUFFICES ASSUME Below(g) = {} PROVE FALSE
        OBVIOUS
      <4>1. Cardinality(Below(g)) = Cardinality({}) /\ Cardinality({}) = 0
        BY FS_EmptySet
      <4> HIDE DEF Below, N
      <4> QED BY <3>1, <4>1
    <3>3. PICK p \in Below(g) : \A q \in Below(g) : grade(q) <= grade(p)
      BY <1>6, <3>2
    <3>4. p \in K /\ grade(p) < g /\ grade(p) \in Gradings
      BY <1>1
    <3>5. Below(grade(p)) \cup Same(grade(p)) = Below(g)
      <4>1. \A q \in K : grade(q) \in Nat /\ g \in Nat
        BY <1>1, <1>2
      <4>2. ASSUME NEW q \in K PROVE q \in Below(g) <=> grade(q) <= grade(p)
        BY <3>3, <3>4, <4>1
      <4>3. ASSUME NEW q \in K PROVE q \in Below(grade(p)) \cup Same(grade(p)) <=> grade(q) <= grade(p)
        BY <3>4, <4>1
      <4>4. Below(g) \subseteq K /\ Below(grade(p)) \cup Same(grade(p)) \subseteq K
        OBVIOUS
      <4> HIDE DEF Below, Same
      <4> QED BY <4>2, <4>3, <4>4
    <3>6. grade(p) \in up
      <4> HIDE DEF Below, Same
      <4> QED BY <3>1, <3>4, <3>5
    <3>7. g \in Nat /\ grade(p) \in Nat /\ g <= grade(p)
      <4> HIDE DEF up
      <4> QED BY <2>2, <2>3, <3>6
    <3> QED BY <3>4, <3>7
  <2> HIDE DEF Below, Same
  <2> QED BY <2>3, <2>4
<1>8. ASSUME NEW i \in 1 .. N PROVE GradesOf(K)[i] \in Gradings /\ Fits(i, GradesOf(K)[i])
  <2>1. GradesOf(K)[i] = CHOOSE g \in Gradings : Fits(i, g)
    BY <1>4
  <2> HIDE DEF Fits
  <2> QED BY <1>7, <2>1
<1>9. ASSUME NEW i \in 1 .. N, NEW j \in 1 .. N, i <= j, GradesOf(K)[j] < GradesOf(K)[i] PROVE FALSE
  <2>1. PICK g, h : g = GradesOf(K)[i] /\ h = GradesOf(K)[j]
    OBVIOUS
  <2>2. g \in Nat /\ h \in Nat /\ h < g /\ Fits(i, g) /\ Fits(j, h) /\ i \in Nat /\ j \in Nat
    <3>1. /\ g \in Gradings /\ h \in Gradings /\ h < g /\ Fits(i, g) /\ Fits(j, h)
      <4> HIDE DEF Fits
      <4> QED BY <1>8, <1>9, <2>1
    <3>2. i \in Nat /\ j \in Nat
      BY <1>3
    <3> QED BY <1>2, <3>1, <3>2
  <2>3. Below(h) \cup Same(h) \in SUBSET Below(g)
    <3>1. ASSUME NEW p \in K, grade(p) < h \/ grade(p) = h PROVE grade(p) < g
      <4>1. grade(p) \in Nat
        BY <1>1, <1>2
      <4> QED BY <2>2, <3>1, <4>1
    <3> QED BY <3>1
  <2>4. Cardinality(Below(h) \cup Same(h)) <= Cardinality(Below(g))
    <3> HIDE DEF Below, Same
    <3> QED BY <1>5, <2>3, FS_Subset
  <2>5. Cardinality(Below(g)) < i /\ j <= Cardinality(Below(h) \cup Same(h))
    BY <2>2
  <2>6. Cardinality(Below(g)) \in Nat /\ Cardinality(Below(h) \cup Same(h)) \in Nat
    BY <1>5
  <2> HIDE DEF Below, Same
  <2> QED BY ONLY <1>9, <2>2, <2>4, <2>5, <2>6
<1>10. Len(GradesOf(K)) = N
  <2>1. GradesOf(K) = [i \in 1 .. N |-> GradesOf(K)[i]] /\ GradesOf(K) \in Seq(Gradings)
    <3>1. \A i \in 1 .. N : GradesOf(K)[i] \in Gradings
      BY <1>8
    <3>2. GradesOf(K) = [i \in 1 .. N |-> GradesOf(K)[i]]
      BY <1>4
    <3> HIDE DEF N
    <3> QED BY <1>3, <3>1, <3>2
  <2>2. DOMAIN GradesOf(K) = 1 .. N
    BY <1>4
  <2> HIDE DEF N
  <2> QED BY <1>3, <2>1, <2>2
<1> HIDE DEF N
<1>11. \A i \in 1 .. N : GradesOf(K)[i] \in Nat
  BY <1>2, <1>8
<1>12. \A i, j \in 1 .. N : i <= j => GradesOf(K)[i] <= GradesOf(K)[j]
  BY <1>9, <1>11
<1> QED BY <1>3, <1>10, <1>11, <1>12 DEF N

\* Quantiles of an ascending sequence ascend.
LEMMA QuantilesAscend ==
    ASSUME NEW values, NEW N \in Nat \ {0}, Len(values) = N,
           \A i \in 1 .. N : values[i] \in Nat,
           \A i, j \in 1 .. N : i <= j => values[i] <= values[j],
           NEW k \in {1, 2, 3}, NEW l \in {1, 2, 3}, k <= l
    PROVE  QuantileOf(values, k) \in Nat /\ QuantileOf(values, k) <= QuantileOf(values, l)
<1> DEFINE lower(x) == values[x \div 4 + 1]
           upper(x) == IF x % 4 = 0 THEN lower(x) ELSE values[x \div 4 + 2]
           Of(x) == 4 * lower(x) + (upper(x) - lower(x)) * (x % 4)
           reach == {x \in Nat : x <= 3 * (N - 1)}
<1>1. ASSUME NEW x \in reach
      PROVE  /\ x \div 4 \in Nat /\ x % 4 \in {0, 1, 2, 3} /\ x = 4 * (x \div 4) + (x % 4)
             /\ x \div 4 + 1 \in 1 .. N /\ (x % 4 # 0 => x \div 4 + 2 \in 1 .. N)
  <2>1. x \in Nat /\ x <= 3 * (N - 1)
    OBVIOUS
  <2>2. PICK a, b : a = x \div 4 /\ b = x % 4
    OBVIOUS
  <2>3. a \in Nat /\ b \in 0 .. 3 /\ x = 4 * a + b
    BY <2>1, <2>2
  <2>4. a + 1 \in 1 .. N
    BY <2>1, <2>3
  <2>5. b # 0 => a + 2 \in 1 .. N
    BY <2>1, <2>3
  <2> QED BY <2>2, <2>3, <2>4, <2>5
<1>2. ASSUME NEW x \in reach
      PROVE  /\ lower(x) \in Nat /\ upper(x) \in Nat /\ lower(x) <= upper(x)
             /\ Of(x) \in Nat /\ 4 * lower(x) <= Of(x) /\ Of(x) <= 4 * upper(x)
  <2>1. lower(x) \in Nat /\ upper(x) \in Nat /\ lower(x) <= upper(x)
    BY <1>1
  <2> HIDE DEF lower, upper
  <2>2. x % 4 \in {0, 1, 2, 3}
    BY <1>1
  <2>3. CASE x % 4 = 0
    BY <2>1, <2>3
  <2>4. CASE x % 4 = 1
    BY <2>1, <2>4
  <2>5. CASE x % 4 = 2
    BY <2>1, <2>5
  <2>6. CASE x % 4 = 3
    BY <2>1, <2>6
  <2> QED BY <2>1, <2>2, <2>3, <2>4, <2>5, <2>6
<1>3. ASSUME NEW x \in reach, NEW y \in reach, x <= y PROVE Of(x) <= Of(y)
  <2>1. CASE x \div 4 < y \div 4
    <3>1. upper(x) <= lower(y)
      BY <1>1, <2>1
    <3> HIDE DEF lower, upper, Of
    <3>2. Of(x) \in Nat /\ upper(x) \in Nat /\ Of(x) <= 4 * upper(x)
      BY <1>2
    <3>3. Of(y) \in Nat /\ lower(y) \in Nat /\ 4 * lower(y) <= Of(y)
      BY <1>2
    <3> QED BY ONLY <3>1, <3>2, <3>3
  <2>2. CASE x \div 4 = y \div 4
    <3>1. lower(x) = lower(y) /\ x % 4 <= y % 4
      BY <1>1, <1>3, <2>2
    <3>2. CASE x % 4 = 0
      <4>1. Of(x) = 4 * lower(x)
        BY <1>2, <3>2
      <4> HIDE DEF lower, upper, Of
      <4> QED BY <1>2, <3>1, <4>1
    <3>3. CASE x % 4 # 0
      <4>1. upper(x) = upper(y)
        BY <1>1, <2>2, <3>1, <3>3
      <4>2. PICK d \in Nat : d = upper(x) - lower(x)
        <5> HIDE DEF lower, upper, Of
        <5> QED BY <1>2
      <4>3. d * (x % 4) <= d * (y % 4)
        <5>1. x % 4 \in {0, 1, 2, 3} /\ y % 4 \in {0, 1, 2, 3}
          BY <1>1
        <5> QED BY <3>1, <5>1
      <4>4. Of(x) = 4 * lower(x) + d * (x % 4) /\ Of(y) = 4 * lower(y) + d * (y % 4)
        <5> HIDE DEF lower, upper
        <5> QED BY <3>1, <4>1, <4>2
      <4>5. d * (x % 4) \in Nat /\ d * (y % 4) \in Nat
        <5>1. x % 4 \in {0, 1, 2, 3} /\ y % 4 \in {0, 1, 2, 3}
          BY <1>1
        <5> QED BY <5>1
      <4>6. 4 * lower(x) = 4 * lower(y) /\ 4 * lower(x) \in Nat
        <5>1. lower(x) \in Nat
          BY <1>2
        <5> HIDE DEF lower, upper
        <5> QED BY ONLY <3>1, <5>1
      <4> QED BY ONLY <4>3, <4>4, <4>5, <4>6
    <3> QED BY <3>2, <3>3
  <2> QED BY <1>1, <1>3, <2>1, <2>2
<1>4. /\ (N - 1) * k \in reach /\ (N - 1) * l \in reach /\ (N - 1) * k <= (N - 1) * l
  OBVIOUS
<1>5. QuantileOf(values, k) = Of((N - 1) * k) /\ QuantileOf(values, l) = Of((N - 1) * l)
  BY DEF QuantileOf
<1> HIDE DEF Of, reach
<1> QED BY <1>2, <1>3, <1>4, <1>5

LEMMA MaxOfTwo ==
    ASSUME NEW a \in Int, NEW b \in Int PROVE Max({a, b}) = IF a >= b THEN a ELSE b
<1> DEFINE S == {a, b}
<1>1. \E x \in S : \A y \in S : x >= y
  <2>1. CASE a >= b
    <3>1. \A y \in S : a >= y
      BY <2>1
    <3> QED BY <3>1
  <2>2. CASE ~ (a >= b)
    <3>1. \A y \in S : b >= y
      BY <2>2
    <3> QED BY <3>1
  <2> QED BY <2>1, <2>2
<1>2. Max(S) \in S /\ \A y \in S : Max(S) >= y
  <2> HIDE DEF S
  <2> QED BY <1>1 DEF Max
<1> QED BY <1>2

\* A pool has its lower end below the upper one, and both ends grow with what they are drawn from.
LEMMA PoolsAreOrdered ==
    ASSUME NEW b \in Int
    PROVE  /\ PoolOf(b - 100, b + 100).min <= PoolOf(b - 100, b + 100).max
           /\ PoolOf(b + 100, b + 300).min <= PoolOf(b + 100, b + 300).max
           /\ PoolOf(b - 100, b + 100).max <= PoolOf(b + 100, b + 300).max
<1> DEFINE Floored(x) == IF x >= 800 THEN x ELSE 800
<1>1. ASSUME NEW x \in Int PROVE Max({TrainingFloor, x}) = Floored(x) /\ Floored(x) \in Int
  BY <1>1, MaxOfTwo DEF TrainingFloor
<1>2. ASSUME NEW x \in Int, NEW y \in Int, x <= y
      PROVE  PoolOf(x, y).min = Floored(x) /\ PoolOf(x, y).max = Floored(y)
  <2>1. PoolOf(x, y).min = Floored(x) /\ PoolOf(x, y).max = Max({Floored(x), Floored(y)})
    BY <1>1 DEF PoolOf
  <2> QED BY <1>1, <1>2, <2>1, MaxOfTwo
<1>3. /\ PoolOf(b - 100, b + 100).min = Floored(b - 100) /\ PoolOf(b - 100, b + 100).max = Floored(b + 100)
      /\ PoolOf(b + 100, b + 300).min = Floored(b + 100) /\ PoolOf(b + 100, b + 300).max = Floored(b + 300)
  BY <1>2
<1> QED BY <1>3

\* The suggested ranges hold what they are drawn around.
LEMMA RangesDoHold == ASSUME EvidenceInv PROVE RangesHold
<1>1. PICK e : e = Estimate
  OBVIOUS
<1>2. SUFFICES ASSUME e.status = "estimated"
      PROVE  /\ e.quartiles.min <= e.baseline /\ e.baseline <= e.quartiles.max
             /\ e.basePool.min <= e.basePool.max /\ e.stretchPool.min <= e.stretchPool.max
             /\ e.basePool.max <= e.stretchPool.max /\ e.size >= MinSamples
  BY <1>1 DEF RangesHold
<1>3. Suited # {}
  BY <1>1, <1>2 DEF Estimate
<1>4. Min(Suited) \in Suited /\ DOMAIN Tiers = 1 .. 3
  <2>1. DOMAIN Tiers = 1 .. 3
    BY DEF Tiers
  <2>2. Suited \in SUBSET Nat
    BY <2>1 DEF Suited
  <2>3. \E n \in Suited : \A m \in Suited : n <= m
    BY <1>3, <2>2, LeastOf
  <2> QED BY <2>1, <2>3 DEF Min
<1> DEFINE K == Tiers[Min(Suited)].sample
           grades == GradesOf(K)
           q(k) == QuantileOf(grades, k)
<1>5. Cardinality(K) >= MinSamples
  BY <1>4 DEF Suited
<1>6. /\ K \in SUBSET Exercises /\ IsFiniteSet(K)
      /\ \A p \in K : \E g \in described[p].grades : g > 0
  <2>1. /\ SolvedNow \in SUBSET Attempted /\ RecentSolves \in SUBSET SolvedNow
    BY DEF SolvedNow, RecentSolves
  <2>2. /\ Eligible(SolvedNow) \in SUBSET Attempted /\ Eligible(RecentSolves) \in SUBSET Attempted
        /\ \A p \in Eligible(SolvedNow) \cup Eligible(RecentSolves) : \E g \in described[p].grades : g > 0
    BY <2>1 DEF Eligible
  <2>3. \A i \in {1, 2, 3} : Tiers[i].sample \subseteq Eligible(SolvedNow) \cup Eligible(RecentSolves)
    BY DEF Tiers
  <2>4. Min(Suited) \in {1, 2, 3}
    BY <1>4 DEF Suited
  <2>5. K \subseteq Eligible(SolvedNow) \cup Eligible(RecentSolves)
    BY <2>3, <2>4
  <2> HIDE DEF K
  <2>6. K \in SUBSET Attempted /\ \A p \in K : \E g \in described[p].grades : g > 0
    BY <2>2, <2>5
  <2> QED BY <2>6, FewTried, FS_Subset
<1>7. /\ e.size = Cardinality(K) /\ e.baseline = RoundTo100(q(2))
      /\ e.quartiles = [min |-> FloorTo100(q(1)), max |-> CeilTo100(q(3))]
      /\ e.basePool = PoolOf(e.baseline - 100, e.baseline + 100)
      /\ e.stretchPool = PoolOf(e.baseline + 100, e.baseline + 300)
  BY <1>1, <1>3 DEF Estimate
<1> HIDE DEF K
<1>8. K # {}
  <2>1. MinSamples \in Nat \ {0}
    BY EvidenceAssumption
  <2> QED BY <1>5, <2>1, FS_EmptySet
<1>9. /\ Cardinality(K) \in Nat \ {0} /\ Len(grades) = Cardinality(K)
      /\ \A i \in 1 .. Cardinality(K) : grades[i] \in Nat
      /\ \A i, j \in 1 .. Cardinality(K) : i <= j => grades[i] <= grades[j]
  BY <1>6, <1>8, GradesAscend
<1> HIDE DEF grades
<1>10. q(1) \in Nat /\ q(2) \in Nat /\ q(3) \in Nat /\ q(1) <= q(2) /\ q(2) <= q(3)
  BY <1>9, QuantilesAscend
<1> HIDE DEF q
<1>11. /\ FloorTo100(q(1)) <= RoundTo100(q(2)) /\ RoundTo100(q(2)) <= CeilTo100(q(3)) /\ RoundTo100(q(2)) \in Int
  BY <1>10 DEF FloorTo100, RoundTo100, CeilTo100
<1> QED BY <1>5, <1>7, <1>11, PoolsAreOrdered

\* Whatever the history, the reports agree with each other and pass the validator.
LEMMA EvidenceDoesAgree == EvidenceInv => EvidenceAgrees
BY ReportsPass, ReportsDoAgree, BandsAddUp, NodesDoReconcile, RangesDoHold DEF EvidenceAgrees

-----------------------------------------------------------------------------
(* The parts together                                                      *)

Parts == {"connection", "gate", "history", "backlog", "http", "opening", "bank", "evidence"}

\* In the run of all the parts, each of them takes only its own steps.
LEMMA EachLuoguPartRuns ==
    LuoguSpec =>
        /\ Spec /\ GateSpec /\ HistorySpec /\ BacklogSpec /\ HttpSpec
        /\ OpeningSpec /\ MergedSpec /\ EvidenceSpec
<1>1. LuoguInit =>
        /\ Init /\ GateInit /\ HistoryInit /\ BacklogInit /\ HttpInit
        /\ OpeningInit /\ MergedInit /\ EvidenceInit
  BY DEF LuoguInit
<1>2. ASSUME [LuoguNext]_luoguVars
      PROVE  /\ [Next]_vars /\ [GateNext]_gateVars /\ [HistoryNext]_historyVars
             /\ [BacklogNext]_backlogVars /\ [HttpNext]_httpVars
             /\ [OpeningNext]_openingVars /\ [MergedNext]_mergedVars /\ [EvidenceNext]_evidenceVars
  <2>1. CASE Connection \/ Gate \/ History \/ Backlog \/ Http
    BY <2>1 DEF Connection, Gate, History, Backlog, Http, localVars
  <2>2. CASE Opening \/ Bank \/ Evidence
    BY <2>2 DEF Opening, Bank, Evidence, remoteVars
  <2>3. CASE UNCHANGED luoguVars
    BY <2>3 DEF luoguVars, remoteVars, localVars
  <2> QED BY <1>2, <2>1, <2>2, <2>3 DEF LuoguNext
<1> QED BY <1>1, <1>2, PTL DEF LuoguSpec, Spec, GateSpec, HistorySpec, BacklogSpec, HttpSpec,
                              OpeningSpec, MergedSpec, EvidenceSpec

\* For any problems, submissions, ratings and dispositions: the bank keeps its types and no page
\* of it is refused, solved and unconfirmed are as submitted, tags stay hidden from who has not
\* solved the problem, and the pages hold every group once (merged-bank.ts, merged-bank-service.ts).
THEOREM BankIsAsStored == MergedSpec => []MergedTypeOK /\ []BankAgrees
<1>1. BankInv => MergedTypeOK
  BY DEF BankInv
<1> QED BY <1>1, BankStarts, BankStepKeeps, BankDoesAgree, PTL DEF MergedSpec

\* What is stored of an account keeps its types for any submissions, tags and retrospectives.
LEMMA EvidenceKept == EvidenceSpec => []EvidenceInv
BY EvidenceStarts, EvidenceStepKeeps, PTL DEF EvidenceSpec

\* For any problems, taxonomy, ratings and thresholds: the reports of an account agree with each
\* other, with the bands and the tree they are drawn over, and with the validator of a plan's
\* preparation (domain/ability.ts, domain/knowledge.ts, planning-types.ts).
THEOREM ReportsAreOfEvidence == EvidenceSpec => []EvidenceAgrees
BY EvidenceKept, EvidenceDoesAgree, PTL

\* The state of every part has its types.
THEOREM EveryLuoguPartIsTyped == LuoguSpec => []LuoguTypesOK
<1>1. /\ TypeOK /\ GateTypeOK /\ HistoryTypeOK /\ BacklogTypeOK /\ HttpTypeOK
      /\ OpeningTypeOK /\ MergedTypeOK /\ EvidenceTypeOK /\ part \in Parts
      => LuoguTypesOK
  BY DEF LuoguTypesOK, Parts
<1>2. LuoguInit => part \in Parts
  BY DEF LuoguInit, Parts
<1>3. part \in Parts /\ [LuoguNext]_luoguVars => (part \in Parts)'
  BY DEF LuoguNext, luoguVars, Connection, Gate, History, Backlog, Http, Opening, Bank, Evidence
<1>4. EvidenceInv => EvidenceTypeOK
  BY DEF EvidenceInv
<1> QED BY <1>1, <1>2, <1>3, <1>4, EachLuoguPartRuns, ConnectionTypes, GateIsPaced, HistoryTypes,
           BacklogIsKept, TransportIsPaced, OpeningIsSafe, BankIsAsStored, EvidenceKept, PTL DEF LuoguSpec

\* Neither the gate of the source nor the transport below it sends anything before the interval
\* after what was sent earlier, or before an instant an earlier answer named, whatever callers
\* come, leave and are answered (luogu-source-gate.ts, platform/http.ts).
THEOREM EveryRequestIsPaced == LuoguSpec => RequestsPaced
BY EachLuoguPartRuns, GateIsPaced, TransportIsPaced, PTL DEF RequestsPaced

\* In the run of all the parts, every secret of the vault is named by row or journal, an
\* operation in which nothing failed leaves the session alone, and a complete history misses
\* nothing before its watermark.
THEOREM LuoguStateIsSound == LuoguSpec => []Addressable /\ []CleanLeavesNothing /\ []HistoryCovered
BY EachLuoguPartRuns, SecretsAddressable, CleanStores, HistoryIsCovered, PTL

\* In the run of all the parts, a session is kept until it is forgotten, and a row is saved as
\* connected only over a secret the vault holds.
THEOREM LuoguSessionsAreSound == LuoguSpec => SessionKept /\ ConnectedIsBacked
BY EachLuoguPartRuns, SessionsSurvive, SavedIsBacked, PTL

\* In the run of all the parts, what has been stored is kept and shown for what it is: the keys
\* of the backlog, the file and its copies, the bank of two sites, and the reports.
THEOREM WhatIsStoredIsKept == LuoguSpec => StoreKept
<1>1. LuoguSpec => BacklogKept /\ []OpeningSafe /\ CopiesKept /\ OldSolvesStayOld
  BY EachLuoguPartRuns, BacklogIsKept, OpeningIsSafe, OldStaysOld, PTL
<1>2. LuoguSpec => []BankAgrees /\ []EvidenceAgrees
  BY EachLuoguPartRuns, BankIsAsStored, ReportsAreOfEvidence, PTL
<1>3. BankAgrees /\ EvidenceAgrees => (part = "bank" => BankAgrees) /\ (part = "evidence" => EvidenceAgrees)
  OBVIOUS
<1> QED BY <1>1, <1>2, <1>3, PTL DEF StoreKept

==============================================================================
