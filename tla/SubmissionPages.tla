---------------------------- MODULE SubmissionPages ----------------------------
(* The submissions of a Codeforces account read page by page, newest first, into  *)
(* the store: the list shifts between the pages, and several calls may page the  *)
(* same checkpoint. A submission is numbered in the order of its time.           *)
EXTENDS Naturals, FiniteSetsExt

CONSTANTS Callers,      \* concurrent sync.page calls
          PageLimit,    \* submissions of a page
          Bounds,       \* since bounds asked for; 0: a full scan
          Stamps,       \* readings of the clock, in any order
          MaxMade       \* bound: submissions

ASSUME PagesAssumption ==
    /\ PageLimit \in Nat \ {0} /\ MaxMade \in Nat
    /\ 0 \in Bounds /\ Bounds \cup Stamps \subseteq Nat

VARIABLES
    visible,      \* the submissions Codeforces lists
    made,         \* the newest one
    store,        \* the stored ones
    checkpoint,   \* the stored position of the scan
    owed,         \* what the scan has to deliver: all that was listed when it began
    call          \* what each call has read and fetched

pagesVars == <<visible, made, store, checkpoint, owed, call>>

Subs == 1..MaxMade
NoCursor == [returned |-> 0, boundary |-> 0]
Cursors == [returned : 0..MaxMade, boundary : 0..MaxMade]
Positions == [cursor : Cursors, since : Bounds, stamp : Stamps \cup {0}]
NoPosition == [cursor |-> NoCursor, since |-> 0, stamp |-> 0]
NoCall == [step |-> "idle", before |-> NoPosition, cursor |-> NoCursor, since |-> 0,
           items |-> {}, next |-> NoCursor, owed |-> {}]

PagesTypeOK ==
    /\ visible \subseteq 1..made /\ made \in 0..MaxMade
    /\ store \subseteq 1..made
    /\ checkpoint \in Positions /\ owed \subseteq 1..made
    /\ call \in [Callers -> [step : {"idle", "read", "fetched"}, before : Positions, cursor : Cursors,
                             since : Bounds, items : SUBSET Subs, next : Cursors, owed : SUBSET Subs]]

PagesInit ==
    /\ made \in 0..MaxMade /\ visible = 1..made
    /\ store = {} /\ checkpoint = NoPosition /\ owed = {}
    /\ call = [c \in Callers |-> NoCall]

-----------------------------------------------------------------------------

\* Where a call starts to read: a start refuses a scan in progress, a continuation needs one.
Position(mode, since) ==
    CASE mode = "start" -> [cursor |-> NoCursor, since |-> since]
      [] mode = "restart" -> [cursor |-> NoCursor, since |-> since]
      [] mode = "continue" -> [cursor |-> checkpoint.cursor, since |-> checkpoint.since]

ReadCheckpoint(c, mode, since) ==
    /\ call[c].step = "idle"
    /\ mode = "start" => checkpoint.cursor = NoCursor
    /\ mode = "continue" => checkpoint.cursor # NoCursor /\ since = checkpoint.since
    /\ LET at == Position(mode, since)
       IN  call' = [call EXCEPT ![c] = [NoCall EXCEPT !.step = "read", !.before = checkpoint,
                                                      !.cursor = at.cursor, !.since = at.since]]
    /\ UNCHANGED <<visible, made, store, checkpoint, owed>>

\* The place of a submission in the list, newest first.
Place(s) == Cardinality({t \in visible : t >= s})

\* Defect: a resumed page trusts its offset.
NoBoundary(cursor) == TRUE

\* A resumed page starts at the last delivered submission, which must still be there.
SameBoundary(cursor) ==
    cursor.boundary \in visible /\ Place(cursor.boundary) = cursor.returned

\* The submissions after the first `returned` of the list, and the page of them.
After(returned) == {s \in visible : Place(s) > returned}
PageAfter(returned) == {s \in After(returned) : Place(s) <= returned + PageLimit}

\* The page after the cursor: at most PageLimit submissions, none before the bound, and
\* the next cursor if there are more.
FetchPage(c) ==
    LET cursor == call[c].cursor
        page == PageAfter(cursor.returned)
        kept == {s \in page : s >= call[c].since}
        more == page # After(cursor.returned) /\ kept = page
    IN  /\ call[c].step = "read"
        /\ cursor # NoCursor => SameBoundary(cursor)
        /\ call' = [call EXCEPT ![c].step = "fetched", ![c].items = kept,
                                ![c].next = IF more
                                            THEN [returned |-> cursor.returned + Cardinality(kept), boundary |-> Min(kept)]
                                            ELSE NoCursor,
                                ![c].owed = IF cursor = NoCursor THEN {s \in visible : s >= call[c].since} ELSE {}]
        /\ UNCHANGED <<visible, made, store, checkpoint, owed>>

\* Nobody committed a page since the checkpoint was read.
SameCheckpoint(before) == before = checkpoint

\* A page and the checkpoint after it are one transaction.
CommitPage(c, stamp) ==
    /\ call[c].step = "fetched"
    /\ SameCheckpoint(call[c].before)
    /\ store' = store \cup call[c].items
    /\ checkpoint' = [cursor |-> call[c].next, since |-> call[c].since, stamp |-> stamp]
    /\ owed' = IF call[c].cursor = NoCursor THEN call[c].owed ELSE owed
    /\ call' = [call EXCEPT ![c] = NoCall]
    /\ UNCHANGED <<visible, made>>

\* A refused position, a shifted list, a failed request, a changed checkpoint, a cancellation.
EndCall(c) ==
    /\ call[c].step # "idle"
    /\ call' = [call EXCEPT ![c] = NoCall]
    /\ UNCHANGED <<visible, made, store, checkpoint, owed>>

Submit ==
    /\ made < MaxMade
    /\ made' = made + 1 /\ visible' = visible \cup {made + 1}
    /\ UNCHANGED <<store, checkpoint, owed, call>>

Unlist(s) ==
    /\ s \in visible
    /\ visible' = visible \ {s}
    /\ UNCHANGED <<made, store, checkpoint, owed, call>>

PagesNext ==
    \/ \E c \in Callers :
          \/ \E mode \in {"start", "continue", "restart"}, since \in Bounds : ReadCheckpoint(c, mode, since)
          \/ FetchPage(c) \/ EndCall(c)
          \/ \E stamp \in Stamps : CommitPage(c, stamp)
    \/ Submit \/ \E s \in Subs : Unlist(s)

-----------------------------------------------------------------------------

\* A scan that reached the end has stored every submission that was listed when it began
\* and still is, whatever was added or removed between its pages and whoever paged it.
ScanDelivers ==
    checkpoint.cursor = NoCursor => owed \cap visible \subseteq store

=============================================================================
