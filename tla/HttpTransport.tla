---------------------------- MODULE HttpTransport ----------------------------
(***************************************************************************)
(* The HTTP transport of one platform (src/adapters/platform/http.ts):     *)
(* requests run one after the other, every fetch (a retry and a redirect   *)
(* hop too) takes a pacing slot, and a Retry-After that is not waited out  *)
(* by the request that heard it holds back everything queued behind it.    *)
(* A caller may cancel at any moment: its promise rejects at once, while   *)
(* the queued task keeps its place and notices when its turn comes.        *)
(***************************************************************************)
EXTENDS Integers, Sequences

CONSTANTS
    HttpRequests,    \* the calls of request() in a behaviour
    Intervals,       \* the intervals a request may ask for, the floor applied
    Delays,          \* declared Retry-After delays; 0 declares none
    MaxRetryAfter,   \* maxRetryAfterMs
    MaxRetries,      \* maxRetries
    MaxRedirects,    \* maxRedirects
    MaxHttpClock     \* bound: the last instant

ASSUME HttpAssumption ==
    /\ Intervals \subseteq Nat /\ Delays \subseteq Nat
    /\ MaxRetryAfter \in Nat /\ MaxRetries \in Nat /\ MaxRedirects \in Nat

VARIABLES
    httpNow,
    nextSlotAt,      \* 0 also stands for null: the clock starts there
    httpQueue,       \* the tasks not settled, the running one first
    httpStage,       \* of the running task: "queued", "pacing", "fetching", "backoff"
    round, hop,      \* of the running task
    backoffUntil,    \* of the running task
    httpCancelled,   \* requests whose token was cancelled
    owed             \* ghost: instants to come that the source may expect to be left alone until

httpVars == <<httpNow, nextSlotAt, httpQueue, httpStage, round, hop, backoffUntil,
              httpCancelled, owed>>

LaterOf(x, y) == IF x < y THEN y ELSE x

HttpInit ==
    /\ httpNow = 0 /\ nextSlotAt = 0 /\ httpQueue = <<>>
    /\ httpStage = "queued" /\ round = 0 /\ hop = 0 /\ backoffUntil = 0
    /\ httpCancelled = {} /\ owed = {}

Running == Head(httpQueue).req

Wanted == httpQueue # <<>> /\ Running \notin httpCancelled

\* request: queued behind every earlier task.
Queue(r, interval) ==
    /\ r \notin httpCancelled /\ \A i \in DOMAIN httpQueue : httpQueue[i].req # r
    /\ httpQueue' = Append(httpQueue, [req |-> r, interval |-> interval])
    /\ UNCHANGED <<httpNow, nextSlotAt, httpStage, round, hop, backoffUntil, httpCancelled, owed>>

CancelHttp(r) ==
    /\ httpCancelled' = httpCancelled \cup {r}
    /\ UNCHANGED <<httpNow, nextSlotAt, httpQueue, httpStage, round, hop, backoffUntil, owed>>

\* The running task settles and the next one in the queue starts.
Settle ==
    /\ httpQueue' = Tail(httpQueue) /\ httpStage' = "queued"
    /\ round' = 0 /\ hop' = 0 /\ backoffUntil' = 0

\* A cancelled task dispatches nothing more and forgets what it heard.
Quit ==
    /\ httpQueue # <<>> /\ Running \in httpCancelled
    /\ Settle
    /\ UNCHANGED <<httpNow, nextSlotAt, httpCancelled, owed>>

EnterPacing ==
    /\ Wanted /\ httpStage = "queued"
    /\ httpStage' = "pacing"
    /\ UNCHANGED <<httpNow, nextSlotAt, httpQueue, round, hop, backoffUntil, httpCancelled, owed>>

\* pace, then the fetch: the slot after this one is an interval away.
Dispatch ==
    /\ Wanted /\ httpStage = "pacing" /\ httpNow >= nextSlotAt
    /\ nextSlotAt' = LaterOf(httpNow, nextSlotAt) + Head(httpQueue).interval
    /\ owed' = owed \cup {[by |-> Running, at |-> nextSlotAt', why |-> "interval"]}
    /\ httpStage' = "fetching"
    /\ UNCHANGED <<httpNow, httpQueue, round, hop, backoffUntil, httpCancelled>>

Succeed ==
    /\ Wanted /\ httpStage = "fetching"
    /\ Settle
    /\ UNCHANGED <<httpNow, nextSlotAt, httpCancelled, owed>>

\* A redirect inside the origin to a page not visited yet is followed in a new slot.
Redirect ==
    /\ Wanted /\ httpStage = "fetching" /\ hop < MaxRedirects
    /\ hop' = hop + 1 /\ httpStage' = "pacing"
    /\ UNCHANGED <<httpNow, nextSlotAt, httpQueue, round, backoffUntil, httpCancelled, owed>>

Heard(delay) ==
    owed' = IF delay = 0 THEN owed
            ELSE owed \cup {[by |-> Running, at |-> httpNow + delay, why |-> "Retry-After"]}

\* The failure of a fetch, a timeout or a broken body included: it is the last one when it
\* is terminal, the retries are spent or the source asks for too long a pause.
LastTry(retryable, delay) == delay > MaxRetryAfter \/ round >= MaxRetries \/ ~retryable

Retry(retryable, delay) ==
    /\ Wanted /\ httpStage = "fetching" /\ ~LastTry(retryable, delay)
    /\ Heard(delay)
    /\ round' = round + 1 /\ hop' = 0
    /\ backoffUntil' = httpNow + delay
    /\ httpStage' = "backoff"
    /\ UNCHANGED <<httpNow, nextSlotAt, httpQueue, httpCancelled>>

EndBackoff ==
    /\ Wanted /\ httpStage = "backoff" /\ httpNow >= backoffUntil
    /\ httpStage' = "pacing"
    /\ UNCHANGED <<httpNow, nextSlotAt, httpQueue, round, hop, backoffUntil, httpCancelled, owed>>

\* Defect: the deadline overwrites the slot.
HeldTo(delay) == httpNow + delay

\* A declared deadline becomes the whole transport's.
HeldBack(delay) == LaterOf(nextSlotAt, httpNow + delay)

FailRequest(retryable, delay) ==
    /\ Wanted /\ httpStage = "fetching" /\ LastTry(retryable, delay)
    /\ nextSlotAt' = IF delay > 0 THEN HeldBack(delay) ELSE nextSlotAt
    /\ Heard(delay)
    /\ Settle
    /\ UNCHANGED <<httpNow, httpCancelled>>

HttpTick ==
    /\ httpNow < MaxHttpClock
    /\ httpNow' = httpNow + 1
    /\ owed' = {o \in owed : o.at > httpNow'}
    /\ UNCHANGED <<nextSlotAt, httpQueue, httpStage, round, hop, backoffUntil, httpCancelled>>

HttpNext ==
    \/ \E r \in HttpRequests, interval \in Intervals : Queue(r, interval)
    \/ \E r \in HttpRequests : CancelHttp(r)
    \/ Quit
    \/ EnterPacing
    \/ Dispatch
    \/ Succeed
    \/ Redirect
    \/ \E retryable \in BOOLEAN, delay \in Delays :
          Retry(retryable, delay) \/ FailRequest(retryable, delay)
    \/ EndBackoff
    \/ HttpTick

HttpSpec == HttpInit /\ [][HttpNext]_httpVars

-----------------------------------------------------------------------------

HttpTypeOK ==
    /\ httpNow \in Nat /\ nextSlotAt \in Nat /\ backoffUntil \in Nat
    /\ httpQueue \in Seq([req : HttpRequests, interval : Intervals])
    /\ httpStage \in {"queued", "pacing", "fetching", "backoff"}
    /\ httpStage # "queued" => httpQueue # <<>>
    /\ round \in Nat /\ hop \in Nat
    /\ httpCancelled \subseteq HttpRequests
    /\ owed \subseteq [by : HttpRequests, at : Nat, why : {"interval", "Retry-After"}]

\* No fetch, a retry and a redirect hop included, leaves before the interval after every
\* earlier fetch, nor before an instant that an earlier answer named, whichever request
\* heard it, unless that request was cancelled (pace, execute).
HttpPaced ==
    [][Dispatch => \A o \in owed :
          o.at <= httpNow \/ (o.why = "Retry-After" /\ o.by \in httpCancelled)]_httpVars
=============================================================================
