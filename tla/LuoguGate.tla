------------------------------ MODULE LuoguGate ------------------------------
(***************************************************************************)
(* The pacing of one Luogu source (src/application/luogu-source-gate.ts):  *)
(* operations run one after the other in the order they were asked for, an *)
(* interval apart, and never before a Retry-After instant that an earlier  *)
(* answer declared.  Callers cancel while queued or while waiting, and     *)
(* time passes between any two steps; the clock does not run backwards.    *)
(***************************************************************************)
EXTENDS Integers, Sequences

CONSTANTS
    Calls,        \* the calls of run() in a behaviour
    Configured,   \* minRequestIntervalMs of the deployment
    Platform,     \* LUOGU_SOURCE_MIN_INTERVAL_MS
    RetryAfters,  \* delays an answer may declare; 0 and less declare nothing
    MaxClock      \* bound: the last instant

ASSUME GateAssumption ==
    /\ Configured \in Nat /\ Platform \in Nat
    /\ RetryAfters \subseteq Int

VARIABLES
    now,
    waiting,     \* the calls not ended, in the order they came
    withdrawn,   \* calls whose token was cancelled
    turn,        \* of the first call: "queued", "waiting" or "working"
    wakeAt,      \* the instant the first call waits for
    completed,   \* lastCompletedAt, a set with at most one instant
    notBefore,   \* notBeforeAt, likewise
    demands      \* ghost: the instants that ended operations asked the next to wait for

gateVars == <<now, waiting, withdrawn, turn, wakeAt, completed, notBefore, demands>>

Later(x, y) == IF x < y THEN y ELSE x

MinInterval == Later(Platform, Configured)

GateInit ==
    /\ now = 0 /\ waiting = <<>> /\ withdrawn = {}
    /\ turn = "queued" /\ wakeAt = 0
    /\ completed = {} /\ notBefore = {} /\ demands = {}

\* Chained onto the previous operation.
Call(c) ==
    /\ c \notin withdrawn /\ \A i \in 1 .. Len(waiting) : waiting[i] # c
    /\ waiting' = Append(waiting, c)
    /\ UNCHANGED <<now, withdrawn, turn, wakeAt, completed, notBefore, demands>>

CancelCall(c) ==
    /\ withdrawn' = withdrawn \cup {c}
    /\ UNCHANGED <<now, waiting, turn, wakeAt, completed, notBefore, demands>>

Leave ==
    /\ waiting' = Tail(waiting)
    /\ turn' = "queued" /\ wakeAt' = 0

\* A cancelled call leaves the deadline and the queue as they were, whether it was
\* queued or waited already.
Reject ==
    /\ waiting # <<>> /\ turn # "working" /\ Head(waiting) \in withdrawn
    /\ Leave
    /\ UNCHANGED <<now, withdrawn, completed, notBefore, demands>>

\* Defect: a declared deadline replaces the floor.
DeadlineOrFloor(t) ==
    IF notBefore # {} THEN \A d \in notBefore : d <= t
    ELSE \A f \in completed : f + MinInterval <= t

\* The first call waits for the later of the floor and the deadline.
Due(t) ==
    /\ \A f \in completed : f + MinInterval <= t
    /\ \A d \in notBefore : d <= t

Arm ==
    /\ waiting # <<>> /\ turn = "queued" /\ Head(waiting) \notin withdrawn
    /\ wakeAt' \in {now} \cup {f + MinInterval : f \in completed} \cup notBefore
    /\ wakeAt' >= now /\ Due(wakeAt')
    /\ turn' = "waiting"
    /\ UNCHANGED <<now, waiting, withdrawn, completed, notBefore, demands>>

Work ==
    /\ turn = "waiting" /\ now >= wakeAt /\ Head(waiting) \notin withdrawn
    /\ turn' = "working"
    /\ UNCHANGED <<now, waiting, withdrawn, wakeAt, completed, notBefore, demands>>

\* recordRetryAfter: a positive delay raises the deadline and never lowers it.
Raised(delay) ==
    IF delay <= 0 THEN notBefore
    ELSE IF notBefore = {} THEN {now + delay}
    ELSE {Later(d, now + delay) : d \in notBefore}

\* The answer, or the thrown platform error, declares its delay while the call still
\* has its turn; then the completion is stamped.
Complete(delay) ==
    /\ turn = "working"
    /\ notBefore' = Raised(delay)
    /\ completed' = {now}
    /\ demands' = demands \cup {now + MinInterval} \cup (IF delay > 0 THEN {now + delay} ELSE {})
    /\ Leave
    /\ UNCHANGED <<now, withdrawn>>

Tick ==
    /\ now < MaxClock
    /\ now' = now + 1
    /\ UNCHANGED <<waiting, withdrawn, turn, wakeAt, completed, notBefore, demands>>

GateNext ==
    \/ Tick
    \/ Reject
    \/ Arm
    \/ Work
    \/ \E c \in Calls : Call(c) \/ CancelCall(c)
    \/ \E delay \in RetryAfters : Complete(delay)

GateSpec == GateInit /\ [][GateNext]_gateVars

-----------------------------------------------------------------------------

GateTypeOK ==
    /\ now \in Nat /\ wakeAt \in Int
    /\ waiting \in Seq(Calls) /\ withdrawn \subseteq Calls
    /\ turn \in {"queued", "waiting", "working"}
    /\ turn # "queued" => waiting # <<>>
    /\ completed \in SUBSET Int /\ notBefore \in SUBSET Int /\ demands \in SUBSET Int

\* No operation starts before the interval after any earlier one, nor before any
\* Retry-After instant any earlier answer declared, whoever was cancelled in between
\* and however the declarations followed each other (run, recordRetryAfter).
Paced == [][turn # "working" /\ turn' = "working" => \A d \in demands : d <= now]_gateVars
=============================================================================
