------------------------------ MODULE LuoguHost ------------------------------
(* The runtime the plugin owns around the Luogu synchronisation: recovery of the *)
(* durable state, the startup sweep, the periodic tick, and the disposal that    *)
(* drains all three. The service below it is LuoguSlot; here it is open, closing *)
(* or closed.                                                                    *)
EXTENDS Naturals

VARIABLES
    startup,      \* the one start attempt: idle, recovering, sweeping, settled
    timer,        \* the interval is armed
    ticking,      \* a sweep of the timer is in flight
    disposal,     \* none, draining, failed, done
    syncService,  \* open, closing, closed
    observer      \* "quiet", or "threw" when the failure observer itself failed

hostVars == <<startup, timer, ticking, disposal, syncService, observer>>

HostTypeOK ==
    /\ startup \in {"idle", "recovering", "sweeping", "settled"}
    /\ timer \in BOOLEAN /\ ticking \in BOOLEAN
    /\ disposal \in {"none", "draining", "failed", "done"}
    /\ syncService \in {"open", "closing", "closed"}
    /\ observer \in {"quiet", "threw"}

HostInit ==
    /\ startup = "idle" /\ timer = FALSE /\ ticking = FALSE
    /\ disposal = "none" /\ syncService = "open" /\ observer = "quiet"

-----------------------------------------------------------------------------

Starting == startup \in {"recovering", "sweeping"}

\* start() runs once, and not at all on a disposed host.
StartHost ==
    /\ startup = "idle" /\ disposal = "none"
    /\ startup' = "recovering"
    /\ UNCHANGED <<timer, ticking, disposal, syncService, observer>>

\* The durable defaults are written; a disposal that landed meanwhile ends the attempt.
RecoverSync ==
    /\ startup = "recovering"
    /\ startup' = IF disposal = "none" THEN "sweeping" ELSE "settled"
    /\ UNCHANGED <<timer, ticking, disposal, syncService, observer>>

\* Recovery or the sweep is refused (the store, a cancelled token): start() rejects.
FailStart ==
    /\ Starting
    /\ startup' = "settled"
    /\ UNCHANGED <<timer, ticking, disposal, syncService, observer>>

\* Defect: the disposal is asked about only if recovery has not passed it yet.
MayArmUnasked == startup = "sweeping"

\* No timer is armed behind a disposal.
MayArm == disposal = "none"

\* The startup sweep ends; the timer is armed unless a disposal landed meanwhile.
EndSweepAtStart ==
    /\ startup = "sweeping"
    /\ startup' = "settled"
    /\ timer' = MayArm
    /\ UNCHANGED <<ticking, disposal, syncService, observer>>

\* The interval fires: one sweep at a time, none on a disposed host.
OnTick ==
    /\ timer /\ ~ticking /\ disposal = "none"
    /\ ticking' = TRUE
    /\ UNCHANGED <<startup, timer, disposal, syncService, observer>>

\* The sweep settles. A failure is reported, and the observer that receives it may throw.
EndTick ==
    /\ ticking /\ ticking' = FALSE
    /\ observer' \in {observer, "threw"}
    /\ UNCHANGED <<startup, timer, disposal, syncService>>

DisposeHost ==
    /\ disposal = "none"
    /\ disposal' = "draining"
    /\ timer' = FALSE /\ syncService' = "closing"
    /\ UNCHANGED <<startup, ticking, observer>>

\* LuoguSlot: close() returns once every pass, lease and operation has settled.
ServiceDrained ==
    /\ syncService = "closing" /\ syncService' = "closed"
    /\ UNCHANGED <<startup, timer, ticking, disposal, observer>>

\* Defect: the attempt that raced the disposal is not waited for.
ServiceAlone == syncService = "closed" /\ ~ticking

\* The disposal waits for the service, the tick and the start that raced it.
HostDrained == syncService = "closed" /\ ~ticking /\ ~Starting

\* dispose() settles; a throwing observer, like a failed close, is its only error.
EndDisposal ==
    /\ disposal = "draining" /\ HostDrained
    /\ disposal' \in {"failed"} \cup (IF observer = "quiet" THEN {"done"} ELSE {})
    /\ UNCHANGED <<startup, timer, ticking, syncService, observer>>

HostWork == RecoverSync \/ EndSweepAtStart \/ EndTick \/ ServiceDrained \/ EndDisposal

HostNext == StartHost \/ FailStart \/ OnTick \/ DisposeHost \/ HostWork

HostSpec == HostInit /\ [][HostNext]_hostVars

-----------------------------------------------------------------------------

\* A disposal that reported its end left nothing behind that could touch the store
\* again: no timer, no sweep, no start attempt (luogu-host.ts, the check after the sweep).
HostQuiet ==
    disposal \in {"failed", "done"} =>
        /\ ~timer /\ ~ticking /\ ~Starting /\ syncService = "closed"

=============================================================================
