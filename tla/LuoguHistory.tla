---------------------------- MODULE LuoguHistory ----------------------------
(***************************************************************************)
(* What one account's stored history covers (the passes of                 *)
(* src/application/luogu-sync-service.ts over syncPage of import-service.ts*)
(* and the reader of src/adapters/luogu/session-reader.ts).                *)
(*                                                                         *)
(* The platform lists submissions newest first and goes on receiving them. *)
(* A pass reads pages from a durable checkpoint and commits each one with  *)
(* the account's watermarks; it may be cut short anywhere, lose its lease  *)
(* to a service of another process, or be followed by a pass of another    *)
(* mode.  Instants are counted in submissions: number k is submitted at k. *)
(***************************************************************************)
EXTENDS LuoguSource, Integers, FiniteSets

CONSTANTS
    PageSize,     \* rows of one page
    Overlap,      \* how far an incremental window reaches back
    Failing,      \* the halves of a pass that may fail
    MaxMade       \* bound: submissions made on the platform

ASSUME HistoryAssumption ==
    /\ Failing \subseteq {"history", "metadata"}
    /\ PageSize \in Nat \ {0} /\ Overlap \in Nat /\ MaxMade \in Nat

Never == -1       \* no instant; as a bound, no bound at all
NoCursor == [seen |-> 0, count |-> 0]

VARIABLES
    made,        \* submissions the platform has
    stored,      \* submissions in the store
    sync,        \* the watermarks of the account's state row
    checkpoint,  \* continuation and frozen bound of the unfinished or the last scan
    owner,       \* who holds the lease
    live,        \* whether it has not lapsed
    scanning     \* of each service: its pass over this account

historyVars == <<made, stored, sync, checkpoint, owner, live, scanning>>

\* `mode` and `since` go into the next page; `page`, `next` and `before` are of the
\* page that was fetched; `prior` is the failure the metadata half found, `failed` the
\* one to record, and `keep` whether none of its own preserves `prior`.
NoScan == [at |-> "idle", metadataOnly |-> FALSE, mode |-> "start", since |-> Never, page |-> {},
           next |-> NoCursor, before |-> [cursor |-> NoCursor, since |-> Never],
           prior |-> "none", failed |-> "none", keep |-> FALSE]

HistoryInit ==
    /\ made \in 0 .. MaxMade /\ stored = {}
    /\ sync = [complete |-> FALSE, scan |-> Never, last |-> Never, failure |-> "none"]
    /\ checkpoint = [cursor |-> NoCursor, since |-> Never]
    /\ owner = Nobody /\ live = FALSE
    /\ scanning = [s \in Services |-> NoScan]

Submit ==
    /\ made < MaxMade /\ made' = made + 1
    /\ UNCHANGED <<stored, sync, checkpoint, owner, live, scanning>>

-----------------------------------------------------------------------------
(* The claim                                                               *)

Claimable(s) == scanning[s].at = "idle" /\ ~live

Reserve(s, p) ==
    /\ owner' = s /\ live' = TRUE
    /\ scanning' = [scanning EXCEPT ![s] = p]
    /\ UNCHANGED <<made, stored, checkpoint>>

\* An explicit reconciliation starts over from the first page.
ClaimFull(s) ==
    /\ Claimable(s)
    /\ Reserve(s, [NoScan EXCEPT !.at = "paging", !.mode = "restart"])
    /\ sync' = [sync EXCEPT !.complete = FALSE, !.scan = made]

\* An unfinished scan wins over any new window, with the bound and the start it had.
ClaimUnfinished(s) ==
    /\ Claimable(s) /\ checkpoint.cursor # NoCursor
    /\ Reserve(s, [NoScan EXCEPT !.at = "paging", !.mode = "continue", !.since = checkpoint.since])
    /\ sync' = [sync EXCEPT !.scan = IF @ = Never THEN made ELSE @]

IncrementalSince == IF sync.last = Never THEN Never ELSE sync.last - Overlap

ClaimNew(s) ==
    /\ Claimable(s) /\ checkpoint.cursor = NoCursor
    /\ Reserve(s, [NoScan EXCEPT !.at = "paging",
                                 !.since = IF sync.complete THEN IncrementalSince ELSE Never])
    /\ sync' = [sync EXCEPT !.scan = made]

\* A metadata pass reads no history.
ClaimMetadata(s) ==
    /\ Claimable(s)
    /\ Reserve(s, [NoScan EXCEPT !.at = "repairing", !.metadataOnly = TRUE])
    /\ UNCHANGED sync

-----------------------------------------------------------------------------
(* One page: resolveScanPosition, the reader's scan, and the commit        *)

\* The newest records a window still holds after the first `seen` of them.
Window(seen, since) == {k \in 1 .. made - seen : k >= since}

NewestOf(S) == {k \in S : Cardinality({j \in S : j >= k}) <= PageSize}

\* The reader knows that it is done when the window ended within the page or the list
\* ended.
Done(seen, since) ==
    \/ Cardinality(Window(seen, since)) < PageSize
    \/ made - seen <= PageSize

\* A list that grew since the scan began shifted every page: the reader refuses.
Steady(cursor) == cursor = NoCursor \/ cursor.count = made

Position(mode) == IF mode = "continue" THEN checkpoint.cursor ELSE NoCursor

Bound(p) == IF p.mode = "continue" THEN checkpoint.since ELSE p.since

FetchPage(s) ==
    LET p == scanning[s]
        cursor == Position(p.mode)
    IN  /\ p.at = "paging"
        /\ p.mode = "continue" => checkpoint.cursor # NoCursor /\ checkpoint.since = p.since
        /\ p.mode = "start" => checkpoint.cursor = NoCursor
        /\ Steady(cursor)
        /\ scanning' = [scanning EXCEPT ![s] =
                [p EXCEPT !.at = "fetched", !.since = Bound(p), !.before = checkpoint,
                          !.page = NewestOf(Window(cursor.seen, Bound(p))),
                          !.next = IF Done(cursor.seen, Bound(p)) THEN NoCursor
                                   ELSE [seen |-> cursor.seen + PageSize, count |-> made]]]
        /\ UNCHANGED <<made, stored, sync, checkpoint, owner, live>>

OwnsLease(s) == owner = s /\ live

\* Defect: the last scan is taken to have started when it ended.
EndOfScan(start) == made

\* The start of the scan that ends becomes the watermark of the next window.
ScannedFrom(start) == IF start = Never THEN made ELSE start

\* Rows, checkpoint and watermarks in one transaction that checks checkpoint and lease.
CommitPage(s) ==
    LET p == scanning[s]
        complete == p.next = NoCursor
    IN  /\ p.at = "fetched" /\ checkpoint = p.before /\ OwnsLease(s)
        /\ stored' = stored \cup p.page
        /\ checkpoint' = [cursor |-> p.next, since |-> p.since]
        /\ sync' = [sync EXCEPT
                !.complete = complete \/ @,
                !.last = IF complete THEN ScannedFrom(sync.scan) ELSE @,
                !.scan = IF complete THEN Never ELSE ScannedFrom(@)]
        /\ scanning' = [scanning EXCEPT ![s] =
                IF complete THEN [NoScan EXCEPT !.at = "repairing"]
                ELSE [NoScan EXCEPT !.at = "paging", !.mode = "continue", !.since = p.since]]
        /\ UNCHANGED <<made, owner, live>>

\* The pages of the pass are used up, or before any of them the room in the backlog.
StopPaging(s) ==
    /\ scanning[s].at = "paging"
    /\ scanning' = [scanning EXCEPT ![s] = [NoScan EXCEPT !.at = "repairing"]]
    /\ UNCHANGED <<made, stored, sync, checkpoint, owner, live>>

\* A refused page, commit or session; a cancellation records no failure.
FailHistory(s) ==
    /\ scanning[s].at \in {"paging", "fetched"}
    /\ \E failure \in {"none"} \cup (Failing \cap {"history"}) :
        scanning' = [scanning EXCEPT ![s] = [NoScan EXCEPT !.at = "settling", !.failed = failure]]
    /\ UNCHANGED <<made, stored, sync, checkpoint, owner, live>>

-----------------------------------------------------------------------------
(* The metadata half and the end of the pass                               *)

\* repairMetadata does nothing on another owner's row; it succeeds, stops at a
\* failure, or is cut short.
Repair(s) ==
    /\ scanning[s].at = "repairing"
    /\ LET p == scanning[s]
           prior == IF owner = s THEN sync.failure ELSE "none"
       IN  \/ scanning' = [scanning EXCEPT ![s] = [p EXCEPT !.at = "settling", !.prior = prior,
                            !.keep = p.metadataOnly /\ prior # "metadata"]]
           \/ \E failure \in {"none"} \cup (Failing \cap {"metadata"}) :
                scanning' = [scanning EXCEPT ![s] = [p EXCEPT !.at = "settling", !.failed = failure,
                            !.keep = failure = "none"]]
    /\ UNCHANGED <<made, stored, sync, checkpoint, owner, live>>

\* settleState: a newer owner's row is left alone.
SettlePass(s) ==
    LET p == scanning[s]
        kept == IF p.prior # "none" THEN p.prior ELSE sync.failure
    IN  /\ p.at = "settling"
        /\ scanning' = [scanning EXCEPT ![s] = NoScan]
        /\ IF owner # s THEN UNCHANGED <<sync, owner, live>>
           ELSE /\ sync' = [sync EXCEPT !.failure =
                        IF p.failed # "none" THEN p.failed ELSE IF p.keep THEN kept ELSE "none"]
                /\ owner' = Nobody /\ live' = FALSE
        /\ UNCHANGED <<made, stored, checkpoint>>

\* A successful connect clears a pausing failure.
Reconnect ==
    /\ ~live /\ sync' = [sync EXCEPT !.failure = "none"]
    /\ UNCHANGED <<made, stored, checkpoint, owner, live, scanning>>

LapseLease ==
    /\ live /\ live' = FALSE
    /\ UNCHANGED <<made, stored, sync, checkpoint, owner, scanning>>

\* The process ends; its next service has another owner id.
CrashService(s) ==
    /\ scanning[s].at # "idle"
    /\ scanning' = [scanning EXCEPT ![s] = NoScan]
    /\ owner' = IF owner = s THEN Nobody ELSE owner
    /\ UNCHANGED <<made, stored, sync, checkpoint, live>>

HistoryNext ==
    \/ Submit
    \/ Reconnect
    \/ LapseLease
    \/ \E s \in Services :
        \/ ClaimFull(s)
        \/ ClaimUnfinished(s)
        \/ ClaimNew(s)
        \/ ClaimMetadata(s)
        \/ FetchPage(s)
        \/ CommitPage(s)
        \/ StopPaging(s)
        \/ FailHistory(s)
        \/ Repair(s)
        \/ SettlePass(s)
        \/ CrashService(s)

HistorySpec == HistoryInit /\ [][HistoryNext]_historyVars

-----------------------------------------------------------------------------

Instants == Never .. MaxMade
Bounds == Never - Overlap .. MaxMade       \* a window may begin before the first submission
Checkpoints == [cursor : [seen : Nat, count : 0 .. MaxMade], since : Bounds]
Failures == {"none", "history", "metadata"}

HistoryTypeOK ==
    /\ made \in 0 .. MaxMade /\ stored \subseteq 1 .. made
    /\ sync \in [complete : BOOLEAN, scan : Instants, last : Instants, failure : Failures]
    /\ checkpoint \in Checkpoints
    /\ owner \in Services \cup {Nobody} /\ live \in BOOLEAN
    /\ scanning \in [Services -> [at : {"idle", "paging", "fetched", "repairing", "settling"},
                              metadataOnly : BOOLEAN,
                              mode : {"start", "continue", "restart"}, since : Bounds,
                              page : SUBSET (1 .. made), next : [seen : Nat, count : 0 .. MaxMade],
                              before : Checkpoints, prior : Failures, failed : Failures,
                              keep : BOOLEAN]]

\* A history that counts as complete holds every submission made before its watermark,
\* from which the next window is derived: whatever passes were cut short, resumed by
\* another service or overtaken by new submissions, none is skipped for ever (claim,
\* syncPage, commitPage).
HistoryCovered == sync.complete => \A k \in 1 .. made : k <= sync.last => k \in stored

=============================================================================
