------------------------------ MODULE LuoguSlot ------------------------------
(***************************************************************************)
(* Who may use the Luogu source (src/application/luogu-sync-service.ts).   *)
(*                                                                         *)
(* One service holds at most one pass or one connection operation in       *)
(* memory; it publishes the holder before its first wait and only then     *)
(* writes the durable lease of an account, in one transaction that reads   *)
(* the rows of every account.  Other processes (`Other`) claim and release *)
(* leases in the same rows, and a lease lapses by the clock at any moment. *)
(* Requests, sweeps, cancellations, disconnects and close() fall between   *)
(* any two of these steps.                                                 *)
(***************************************************************************)
EXTENDS LuoguSource, Naturals, FiniteSets

CONSTANTS
    MaxRequests,  \* bound: start requests waiting for their account at once
    MaxSweep,     \* bound: accounts one sweep examines
    RenewalWaits  \* whether renewLease may wait for its transaction past the deadline

ASSUME SlotAssumption ==
    /\ MaxRequests \in Nat /\ MaxSweep \in Nat /\ RenewalWaits \in BOOLEAN

VARIABLES
    pass,      \* this.running: the pass that holds the slot
    sourceOp,  \* the connection operation that holds the slot
    starts,    \* start requests that have not looked at the slot yet
    sweep,     \* accounts the sweep under way has still to examine
    service,   \* "open", "closing" (close() was called) or "closed"
    lease,     \* of each account: who owns the row, and whether it is live
    unreleased \* ghost: accounts whose release the store refused

slotVars == <<pass, sourceOp, starts, sweep, service, lease, unreleased>>

Modes == {"resume", "full", "metadata"}
Us == "us"
Other == "other"
Free == [owner |-> "none", live |-> FALSE]
Held(who) == [owner |-> who, live |-> TRUE]

\* A pass goes claiming -> claimed -> running -> settled, or claimed -> releasing
\* -> released; `by` tells who asked for it and hence whose token it has.
NoPass == [acct |-> NoAccount, mode |-> "resume", stage |-> "none", by |-> "start",
           cancelled |-> FALSE, queued |-> FALSE]
NoOp == [acct |-> NoAccount, kind |-> "leased", stage |-> "none"]

SlotInit ==
    /\ pass = NoPass /\ sourceOp = NoOp
    /\ starts = 0 /\ sweep = 0 /\ service = "open"
    /\ lease = [a \in Accounts |-> Free]
    /\ unreleased = {}

-----------------------------------------------------------------------------

PassHolds == pass.stage # "none"
OpHolds == sourceOp.stage # "none"
Launched == pass.stage \in {"running", "settled"}
SlotFree == ~PassHolds /\ ~OpHolds

\* beginPass publishes the pass before anything is written.
Published(a, mode, by) ==
    [NoPass EXCEPT !.acct = a, !.mode = mode, !.stage = "claiming", !.by = by]

\* Inside the claim's transaction: no other account of the source has a live lease
\* and this one's is not another owner's.
SourceFree(a) ==
    /\ \A b \in Accounts \ {a} : ~lease[b].live
    /\ lease[a].live => lease[a].owner = Us

Take(a) ==
    /\ lease' = [lease EXCEPT ![a] = Held(Us)]
    /\ unreleased' = unreleased \ {a}

\* releaseLease and settleState: a newer owner's row is left alone; the store may
\* refuse the write, and then the lease stays until it lapses.
GiveBack(a) ==
    IF lease[a].owner # Us THEN UNCHANGED <<lease, unreleased>>
    ELSE \/ lease' = [lease EXCEPT ![a] = Free] /\ unreleased' = unreleased \ {a}
         \/ unreleased' = unreleased \cup {a} /\ UNCHANGED lease

-----------------------------------------------------------------------------
(* start                                                                   *)

\* trackLaunchAttempt: counted before the first wait.
Ask ==
    /\ service = "open" /\ starts < MaxRequests
    /\ starts' = starts + 1
    /\ UNCHANGED <<pass, sourceOp, sweep, service, lease, unreleased>>

\* What a request makes of a slot held by a pass: a launched history pass of its
\* account is asked to reconcile afterwards; everything else is refused or coalesced.
Queues(a, mode) ==
    /\ PassHolds /\ pass.acct = a /\ Launched
    /\ pass.mode # mode /\ pass.mode # "metadata" /\ mode # "metadata"

\* A closing service, an unknown account or a holder refuses the request, or it
\* coalesces with the running pass of its own mode.
AnswerAtOnce ==
    /\ starts > 0
    /\ starts' = starts - 1
    /\ UNCHANGED <<pass, sourceOp, sweep, service, lease, unreleased>>

QueueFull(a, mode) ==
    /\ starts > 0 /\ service = "open" /\ Queues(a, mode)
    /\ starts' = starts - 1
    /\ pass' = [pass EXCEPT !.queued = TRUE]
    /\ UNCHANGED <<sourceOp, sweep, service, lease, unreleased>>

\* Defect: a start looks only for another pass.
BeginPassOverOp(a, mode) ==
    /\ starts > 0 /\ service = "open" /\ ~PassHolds
    /\ starts' = starts - 1
    /\ pass' = Published(a, mode, "start")
    /\ UNCHANGED <<sourceOp, sweep, service, lease, unreleased>>

BeginPass(a, mode) ==
    /\ starts > 0 /\ service = "open" /\ SlotFree
    /\ starts' = starts - 1
    /\ pass' = Published(a, mode, "start")
    /\ UNCHANGED <<sourceOp, sweep, service, lease, unreleased>>

-----------------------------------------------------------------------------
(* startup and tick                                                        *)

BeginSweep ==
    /\ service = "open" /\ sweep = 0 /\ MaxSweep > 0
    /\ sweep' = MaxSweep
    /\ UNCHANGED <<pass, sourceOp, starts, service, lease, unreleased>>

\* The sweep waits for the reservation it is writing.
SweepWaits == pass.by = "sweep" /\ pass.stage \in {"claiming", "claimed", "releasing", "released"}

\* An account that is not due, or that finds the slot held, is skipped.
SkipAccount ==
    /\ sweep > 0 /\ ~SweepWaits
    /\ sweep' = sweep - 1
    /\ UNCHANGED <<pass, sourceOp, starts, service, lease, unreleased>>

\* A closing service, a cancelled token or a failure ends the sweep.
EndSweep ==
    /\ sweep > 0 /\ ~SweepWaits
    /\ sweep' = 0
    /\ UNCHANGED <<pass, sourceOp, starts, service, lease, unreleased>>

\* The closing flag is read at the top of the loop only; the claim reads it again.
SweepAccount(a) ==
    /\ sweep > 0 /\ ~SweepWaits /\ SlotFree
    /\ sweep' = sweep - 1
    /\ pass' = Published(a, "resume", "sweep")
    /\ UNCHANGED <<sourceOp, starts, service, lease, unreleased>>

-----------------------------------------------------------------------------
(* The pass                                                                *)

\* finishPass: the reconciliation a launched pass was asked for takes the slot in
\* the same tick.
Finished ==
    IF Launched /\ pass.queued /\ service = "open"
    THEN Published(pass.acct, "full", "queue")
    ELSE NoPass

\* The transaction of the claim refuses: busy, closing, cancelled, a store failure.
RefuseClaim ==
    /\ pass.stage = "claiming"
    /\ pass' = Finished
    /\ UNCHANGED <<sourceOp, starts, sweep, service, lease, unreleased>>

\* assertUsable before the write sees a close and the caller's token, not the pass's
\* own cancellation.
Claim ==
    /\ pass.stage = "claiming" /\ service = "open" /\ SourceFree(pass.acct)
    /\ Take(pass.acct)
    /\ pass' = [pass EXCEPT !.stage = "claimed"]
    /\ UNCHANGED <<sourceOp, starts, sweep, service>>

\* Defect: the reservation is trusted once it committed.
LaunchClaimed ==
    /\ pass.stage = "claimed"
    /\ pass' = [pass EXCEPT !.stage = "running"]
    /\ UNCHANGED <<sourceOp, starts, sweep, service, lease, unreleased>>

\* attachPass.
Launch ==
    /\ pass.stage = "claimed" /\ service = "open" /\ ~pass.cancelled
    /\ pass' = [pass EXCEPT !.stage = "running"]
    /\ UNCHANGED <<sourceOp, starts, sweep, service, lease, unreleased>>

\* Defect: a withdrawn reservation ends like a pass that was never launched.
WithdrawOnly ==
    /\ pass.stage = "claimed"
    /\ service # "open" \/ pass.cancelled \/ pass.by # "queue"
    /\ pass' = [pass EXCEPT !.stage = "released"]
    /\ UNCHANGED <<sourceOp, starts, sweep, service, lease, unreleased>>

\* A close, a cancel or the caller's token (a queued pass has none) landed while the
\* claim was being written.
Withdraw ==
    /\ pass.stage = "claimed"
    /\ service # "open" \/ pass.cancelled \/ pass.by # "queue"
    /\ pass' = [pass EXCEPT !.stage = "releasing"]
    /\ UNCHANGED <<sourceOp, starts, sweep, service, lease, unreleased>>

Release ==
    /\ pass.stage = "releasing"
    /\ GiveBack(pass.acct)
    /\ pass' = [pass EXCEPT !.stage = "released"]
    /\ UNCHANGED <<sourceOp, starts, sweep, service>>

\* runPass came to its end, cancelled or not: settleState.
Settle ==
    /\ pass.stage = "running"
    /\ GiveBack(pass.acct)
    /\ pass' = [pass EXCEPT !.stage = "settled"]
    /\ UNCHANGED <<sourceOp, starts, sweep, service>>

\* Defect: the queued reconciliation is left to whoever asks next.
FinishLater ==
    /\ pass.stage \in {"released", "settled"}
    /\ pass' = NoPass
    /\ UNCHANGED <<sourceOp, starts, sweep, service, lease, unreleased>>

Finish ==
    /\ pass.stage \in {"released", "settled"}
    /\ pass' = Finished
    /\ UNCHANGED <<sourceOp, starts, sweep, service, lease, unreleased>>

\* cancel, and disconnect before it waits: the queued reconciliation goes too.
DrainPass(a) ==
    /\ PassHolds /\ pass.acct = a
    /\ pass' = [pass EXCEPT !.queued = FALSE, !.cancelled = TRUE]
    /\ UNCHANGED <<sourceOp, starts, sweep, service, lease, unreleased>>

-----------------------------------------------------------------------------
(* runConnectionOp: connect, probe, profile and repairs take a lease;      *)
(* disconnect removes the session without one.                             *)

BeginOp(a, kind) ==
    /\ service = "open" /\ SlotFree
    /\ sourceOp' = [acct |-> a, kind |-> kind,
                    stage |-> IF kind = "leased" THEN "claiming" ELSE "working"]
    /\ UNCHANGED <<pass, starts, sweep, service, lease, unreleased>>

ClaimForOp ==
    /\ sourceOp.stage = "claiming" /\ service = "open" /\ SourceFree(sourceOp.acct)
    /\ Take(sourceOp.acct)
    /\ sourceOp' = [sourceOp EXCEPT !.stage = "working"]
    /\ UNCHANGED <<pass, starts, sweep, service>>

\* The claim was refused.
RefuseOp ==
    /\ sourceOp.stage = "claiming"
    /\ sourceOp' = NoOp
    /\ UNCHANGED <<pass, starts, sweep, service, lease, unreleased>>

\* The `finally` of the operation.
EndOp ==
    /\ sourceOp.stage = "working"
    /\ IF sourceOp.kind = "leased" THEN GiveBack(sourceOp.acct)
       ELSE UNCHANGED <<lease, unreleased>>
    /\ sourceOp' = NoOp
    /\ UNCHANGED <<pass, starts, sweep, service>>

-----------------------------------------------------------------------------
(* close                                                                   *)

Closing ==
    /\ service = "open"
    /\ service' = "closing"
    /\ pass' = IF PassHolds THEN [pass EXCEPT !.cancelled = TRUE] ELSE pass
    /\ UNCHANGED <<sourceOp, starts, sweep, lease, unreleased>>

\* Defect: only the running pass is waited for.
PassSettled == ~PassHolds /\ ~OpHolds

\* Defect: no lease of the service may be left.
LeasesGone == ~PassHolds /\ starts = 0 /\ sweep = 0 /\ ~OpHolds /\ \A a \in Accounts : lease[a].owner # Us

\* settle() waits for the slot and for every tracked attempt, then close() for the
\* connection operations.
AllSettled == ~PassHolds /\ starts = 0 /\ sweep = 0 /\ ~OpHolds

CloseService ==
    /\ service = "closing" /\ AllSettled
    /\ service' = "closed"
    /\ UNCHANGED <<pass, sourceOp, starts, sweep, lease, unreleased>>

-----------------------------------------------------------------------------
(* The clock and the other processes                                       *)

Lapse(a) ==
    /\ lease[a].live
    /\ lease' = [lease EXCEPT ![a].live = FALSE]
    /\ UNCHANGED <<pass, sourceOp, starts, sweep, service, unreleased>>

\* renewLease reads the clock before it waits for its transaction: a lease that was
\* live at the reading is renewed although it has lapsed since.
Renew(a) ==
    /\ RenewalWaits /\ lease[a] = [owner |-> Us, live |-> FALSE]
    /\ \/ pass.acct = a /\ pass.stage = "running"
       \/ sourceOp = [acct |-> a, kind |-> "leased", stage |-> "working"]
    /\ lease' = [lease EXCEPT ![a].live = TRUE]
    /\ UNCHANGED <<pass, sourceOp, starts, sweep, service, unreleased>>

\* The same claim, made by another process over the same rows.
OtherClaims(a) ==
    /\ \A b \in Accounts \ {a} : ~lease[b].live
    /\ lease[a].live => lease[a].owner = Other
    /\ lease' = [lease EXCEPT ![a] = Held(Other)]
    /\ unreleased' = unreleased \ {a}
    /\ UNCHANGED <<pass, sourceOp, starts, sweep, service>>

OtherLeaves(a) ==
    /\ lease[a].owner = Other
    /\ lease' = [lease EXCEPT ![a] = Free]
    /\ UNCHANGED <<pass, sourceOp, starts, sweep, service, unreleased>>

\* The process ends, after close() or without it; the next instance has another
\* owner id, so a lease left behind is another owner's.
Restart ==
    /\ pass' = NoPass /\ sourceOp' = NoOp /\ starts' = 0 /\ sweep' = 0
    /\ service' = "open"
    /\ lease' = [a \in Accounts |->
                    IF lease[a].owner = Us THEN [lease[a] EXCEPT !.owner = Other] ELSE lease[a]]
    /\ unreleased' = {}

\* What runs to its end by itself.
SlotProgress ==
    \/ AnswerAtOnce
    \/ EndSweep
    \/ RefuseClaim
    \/ Launch
    \/ Withdraw
    \/ Release
    \/ Settle
    \/ Finish
    \/ RefuseOp
    \/ EndOp
    \/ CloseService

SlotNext ==
    \/ Ask
    \/ BeginSweep
    \/ SkipAccount
    \/ Claim
    \/ ClaimForOp
    \/ Closing
    \/ Restart
    \/ SlotProgress
    \/ \E a \in Accounts :
        \/ SweepAccount(a)
        \/ DrainPass(a)
        \/ Lapse(a)
        \/ Renew(a)
        \/ OtherClaims(a)
        \/ OtherLeaves(a)
        \/ \E mode \in Modes : QueueFull(a, mode) \/ BeginPass(a, mode)
        \/ \E kind \in {"leased", "forget"} : BeginOp(a, kind)

SlotSpec == SlotInit /\ [][SlotNext]_slotVars

\* Store transactions answer, the platform work of a pass or of an operation is
\* bounded and honours its token, and every tracked attempt reaches its `finally`.
SlotFairness == WF_slotVars(SlotProgress)

-----------------------------------------------------------------------------

SlotTypeOK ==
    /\ pass \in [acct : Accounts \cup {NoAccount}, mode : Modes,
                stage : {"none", "claiming", "claimed", "running", "settled", "releasing", "released"},
                by : {"start", "sweep", "queue"}, cancelled : BOOLEAN, queued : BOOLEAN]
    /\ PassHolds => pass.acct \in Accounts
    /\ sourceOp \in [acct : Accounts \cup {NoAccount}, kind : {"leased", "forget"},
                    stage : {"none", "claiming", "working"}]
    /\ OpHolds => sourceOp.acct \in Accounts
    /\ starts \in 0 .. MaxRequests /\ sweep \in 0 .. MaxSweep
    /\ service \in {"open", "closing", "closed"}
    /\ lease \in [Accounts -> [owner : {"none", Us, Other}, live : BOOLEAN]]
    /\ unreleased \subseteq Accounts

\* The two halves of the slot: a pass and a connection operation never hold it
\* together, also between a published pass and its durable claim, and when a queued
\* reconciliation takes over (start, runConnectionOp, finishPass).
OneHolder == ~PassHolds \/ ~OpHolds

\* However services of several processes race, at most one account of the source
\* has a live lease, as long as no renewal outlasts the lease it renews (claim).
OneLiveLease == \A a, b \in Accounts : lease[a].live /\ lease[b].live => a = b

PassOwns(a) == pass.acct = a /\ pass.stage \in {"claimed", "running", "releasing"}
OpOwns(a) == sourceOp = [acct |-> a, kind |-> "leased", stage |-> "working"]

\* No cancellation, close or refusal leaves a lease that nothing of this service will
\* release, unless the store refused the release itself (reservePass).
LeaseIsBacked ==
    \A a \in Accounts :
        lease[a].owner = Us => PassOwns(a) \/ OpOwns(a) \/ a \in unreleased

\* close() returns only when nothing of the service can act any more (settle, close).
NothingOutlivesClose ==
    service = "closed" =>
        /\ ~PassHolds /\ ~OpHolds /\ starts = 0 /\ sweep = 0
        /\ \A a \in Accounts : lease[a].owner = Us => a \in unreleased

\* A reservation that was being written when close() or a cancellation came is
\* withdrawn, never launched (reservePass).
LaunchesOnlyWanted ==
    [][pass.stage = "claimed" /\ pass'.stage = "running"
        => service = "open" /\ ~pass.cancelled]_slotVars

\* A queued reconciliation follows the pass of its account in the same step, unless
\* it was cancelled or the service is closing (finishPass, drainPass).
QueuedIsKept ==
    [][pass.queued /\ ~pass'.queued =>
        \/ pass' = Published(pass.acct, "full", "queue")
        \/ pass'.cancelled
        \/ service # "open"
        \/ Restart]_slotVars

\* close() returns, or the process ends (settle waits for every tracked attempt).
ServiceCloses == service = "closing" ~> service # "closing"

\* The slot of the source goes to one pass at a time, under a lease it backs, to a request
\* that is still wanted; what is queued behind it is not lost and nothing outlives a close.
SlotKept ==
    /\ [](OneHolder /\ LeaseIsBacked /\ NothingOutlivesClose)
    /\ LaunchesOnlyWanted /\ QueuedIsKept

=============================================================================
