--------------------------- MODULE ModelOperations ---------------------------
(***************************************************************************)
(* The owned model operations of one process (src/plugin/                  *)
(* model-operations.ts) and the disposal of the store under them           *)
(* (src/plugin/index.ts).                                                  *)
(*                                                                         *)
(* A request that would start paid work or save the settings takes one     *)
(* gate, looks at what runs here and at what the database says runs        *)
(* anywhere, asks the host about the models and only then launches or      *)
(* writes; every look is an await, over which the gate is held, and other  *)
(* processes reserve, settle and save meanwhile.  Closing cancels what is  *)
(* owned, waits for a bounded time, and the store is closed at once or     *)
(* behind the last operation.                                              *)
(*                                                                         *)
(* Left out: the payloads of requests and the projections of results, and  *)
(* an operation's own token (a cancelled worker settles when it likes).    *)
(***************************************************************************)
EXTENDS Naturals

CONSTANTS
    OpCalls,        \* requests served at once
    MaxRevision     \* bound: saves of the settings

ASSUME OpsAssumption == MaxRevision \in Nat

Kinds == {"batch", "coach", "plan"}
Requests == Kinds \cup {"save", "prepare"}

VARIABLES
    gate,          \* the start gate is held
    opCall,        \* of each request: what it asks for and where it is
    owned,         \* of each kind: the operation this process owns
    liveOps,       \* kinds with a live lease or reservation in the database
    revision,      \* stored revision of the settings
    controller,    \* "open", "closing" (closed, waiting) or "closed"
    active,        \* kinds owned when the controller closed
    outstanding,   \* kinds the close reported as not settled
    storage        \* "open" or "closed"

opsVars == <<gate, opCall, owned, liveOps, revision, controller, active, outstanding, storage>>
lifecycle == <<controller, active, outstanding, storage>>

IdleCall == [at |-> "idle", kind |-> "none", revision |-> 0]
OwnedKinds == {k \in Kinds : owned[k] # "none"}

OpsInit ==
    /\ gate = FALSE /\ opCall = [c \in OpCalls |-> IdleCall]
    /\ owned = [k \in Kinds |-> "none"] /\ liveOps = {} /\ revision = 1
    /\ controller = "open" /\ active = {} /\ outstanding = {} /\ storage = "open"

-----------------------------------------------------------------------------
(* Requests that start work or save the settings                           *)

GateAlwaysFree == TRUE          \* defect: every request acquires the gate
GateFree == ~gate

Goes(c, at) == opCall' = [opCall EXCEPT ![c].at = at]
Leaves(c) == gate' = FALSE /\ opCall' = [opCall EXCEPT ![c] = IdleCall]

\* What must not be owned here when a request of this kind starts.
InTheWay(k) == CASE k = "batch" -> {"batch", "plan"}
                 [] k = "coach" -> {"coach", "plan"}
                 [] k = "prepare" -> {"plan"}
                 [] OTHER -> Kinds

\* Whose live reservations it then waits to read.
Blocking(k) == IF k \in {"plan", "save"} THEN Kinds ELSE {"plan"}

Acquire(c, k) ==
    /\ opCall[c].at = "idle" /\ GateFree /\ controller = "open"
    /\ InTheWay(k) \cap OwnedKinds = {}
    /\ gate' = TRUE /\ opCall' = [opCall EXCEPT ![c] = [IdleCall EXCEPT !.at = "checking", !.kind = k]]
    /\ UNCHANGED <<owned, liveOps, revision, lifecycle>>

\* Reading the database for live operations, and then what the request itself names.
NothingLive(c) ==
    /\ opCall[c].at = "checking" /\ liveOps \cap Blocking(opCall[c].kind) = {}
    /\ Goes(c, "reading")
    /\ UNCHANGED <<gate, owned, liveOps, revision, lifecycle>>

\* The revision the request expects is the stored one; a save compares it when it writes.
ReadSettings(c) ==
    /\ opCall[c].at = "reading" /\ opCall[c].kind # "prepare"
    /\ opCall' = [opCall EXCEPT ![c].at = "probing", ![c].revision = revision]
    /\ UNCHANGED <<gate, owned, liveOps, revision, lifecycle>>

\* A preparation is free: it leaves a durable row and starts nothing.
Prepare(c) ==
    /\ opCall[c].at = "reading" /\ opCall[c].kind = "prepare"
    /\ Leaves(c)
    /\ UNCHANGED <<owned, liveOps, revision, lifecycle>>

\* Any refusal, failed read or cancellation of the request.
RefuseRequest(c) ==
    /\ opCall[c].at \in {"checking", "reading", "probing", "writing"}
    /\ Leaves(c)
    /\ UNCHANGED <<owned, liveOps, revision, lifecycle>>

OpenWhenAsked == TRUE           \* defect: not looked at again before the launch

\* The models are valid and the controller is, synchronously, still open.
StillOpen == controller = "open"

LaunchOp(c) ==
    /\ opCall[c].at = "probing" /\ opCall[c].kind \in Kinds
    /\ StillOpen
    /\ owned' = [owned EXCEPT ![opCall[c].kind] = "launched"]
    /\ Leaves(c)
    /\ UNCHANGED <<liveOps, revision, lifecycle>>

SaveReady(c) ==
    /\ opCall[c].at = "probing" /\ opCall[c].kind = "save"
    /\ StillOpen
    /\ Goes(c, "writing")
    /\ UNCHANGED <<gate, owned, liveOps, revision, lifecycle>>

NotLookedInside == TRUE         \* defect: trusts the look before the probe

\* The write's own transaction looks for live operations again and compares the
\* revision; the controller may have been closed since.
NothingLiveInside == liveOps = {}

SaveSettings(c) ==
    /\ opCall[c].at = "writing" /\ storage = "open"
    /\ NothingLiveInside /\ opCall[c].revision = revision /\ revision < MaxRevision
    /\ revision' = revision + 1
    /\ Leaves(c)
    /\ UNCHANGED <<owned, liveOps, lifecycle>>

-----------------------------------------------------------------------------
(* Owned work, and the other processes on the same database                *)

ReserveOp(k) ==
    /\ owned[k] = "launched" /\ storage = "open"
    /\ owned' = [owned EXCEPT ![k] = "reserved"] /\ liveOps' = liveOps \cup {k}
    /\ UNCHANGED <<gate, opCall, revision, lifecycle>>

\* The operation's promise settles; a settlement that failed leaves its reservation live.
SettleOperation(k) ==
    /\ owned[k] # "none"
    /\ owned' = [owned EXCEPT ![k] = "none"]
    /\ liveOps' \in {liveOps} \cup {liveOps \ {l} : l \in {k} \cap {j \in Kinds : owned[j] = "reserved"}}
    /\ UNCHANGED <<gate, opCall, revision, lifecycle>>

ReservedElsewhere(k) ==
    /\ k \notin liveOps /\ liveOps' = liveOps \cup {k}
    /\ UNCHANGED <<gate, opCall, owned, revision, lifecycle>>

\* Settled by another process, or its lease or reservation expired.
NoLongerLive(k) ==
    /\ k \in liveOps /\ liveOps' = liveOps \ {k}
    /\ UNCHANGED <<gate, opCall, owned, revision, lifecycle>>

SavedElsewhere ==
    /\ liveOps = {} /\ revision < MaxRevision
    /\ revision' = revision + 1
    /\ UNCHANGED <<gate, opCall, owned, liveOps, lifecycle>>

-----------------------------------------------------------------------------
(* Disposal                                                                *)

CloseController ==
    /\ controller = "open"
    /\ controller' = "closing" /\ active' = OwnedKinds
    /\ UNCHANGED <<gate, opCall, owned, liveOps, revision, outstanding, storage>>

\* The bounded wait ends: by then every operation has settled, or the time is over.
ReportClose ==
    /\ controller = "closing"
    /\ controller' = "closed" /\ outstanding' = active \cap OwnedKinds
    /\ UNCHANGED <<gate, opCall, owned, liveOps, revision, active, storage>>

\* whenSettled(): nothing is owned any more.
AllOpsSettled == OwnedKinds = {}

CloseStorage ==
    /\ controller = "closed" /\ storage = "open"
    /\ outstanding = {} \/ AllOpsSettled
    /\ storage' = "closed"
    /\ UNCHANGED <<gate, opCall, owned, liveOps, revision, controller, active, outstanding>>

OpsNext ==
    \/ \E c \in OpCalls : \/ \E k \in Requests : Acquire(c, k)
                          \/ NothingLive(c) \/ ReadSettings(c) \/ Prepare(c) \/ RefuseRequest(c)
                          \/ LaunchOp(c) \/ SaveReady(c) \/ SaveSettings(c)
    \/ \E k \in Kinds : ReserveOp(k) \/ SettleOperation(k) \/ ReservedElsewhere(k) \/ NoLongerLive(k)
    \/ SavedElsewhere \/ CloseController \/ ReportClose \/ CloseStorage

OpsSpec == OpsInit /\ [][OpsNext]_opsVars

-----------------------------------------------------------------------------
(* Properties                                                              *)

\* Every variable keeps its range.
OpsTypeOK ==
    /\ gate \in BOOLEAN
    /\ opCall \in [OpCalls -> [at : {"idle", "checking", "reading", "probing", "writing"},
                               kind : Requests \cup {"none"}, revision : 0..MaxRevision + 1]]
    /\ owned \in [Kinds -> {"none", "launched", "reserved"}]
    /\ liveOps \subseteq Kinds /\ revision \in 1..MaxRevision + 1
    /\ controller \in {"open", "closing", "closed"}
    /\ active \subseteq Kinds /\ outstanding \subseteq active /\ storage \in {"open", "closed"}

\* A paid plan shares the process with no batch and no coaching call, whatever was
\* started while another start was waiting for the database or the model probe
\* (planRun, startBatchOperation and beginCoaching under one gate).
PlanRunsAlone == owned["plan"] # "none" => OwnedKinds = {"plan"}

\* The settings paid work was reserved under stay: nobody saves over a live
\* reservation of any process, and this process saves over nothing it owns, although
\* both were looked up before the model probe was awaited (saveSettings).
SettingsKept ==
    [][revision' # revision =>
         /\ liveOps = {}
         /\ (\E c \in OpCalls : opCall[c].at = "writing" /\ opCall'[c].at = "idle") => OwnedKinds = {}]_opsVars

\* The store is not closed under an operation whose settlement is still to be
\* written: not under one that outlived the bounded wait, and not under one whose
\* start was waiting when the controller closed (close, whenSettled and the plugin's
\* first disposer).
StoreOutlivesWork == storage = "closed" => OwnedKinds = {}

\* A plan runs without any other operation beside it, the settings move only while none
\* is alive, and the store is closed only after every operation has settled.
OperationsKept == [](PlanRunsAlone /\ StoreOutlivesWork) /\ SettingsKept

=============================================================================
