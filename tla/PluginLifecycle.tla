--------------------------- MODULE PluginLifecycle ---------------------------
(* Activation and disposal of the plugin: the contributions are registered in    *)
(* order, any of them may fail, and what was registered is disposed in reverse   *)
(* order, the routes before the services they call and the store last.           *)
EXTENDS LuoguHost, Sequences

CONSTANTS Clients,        \* requests a client may have under way
          ModelCalls      \* model operations the controller may own

\* Registration order; every disposer is run, the last one first.
Contributions ==
    <<"storage", "assessment", "luogu", "luoguApi", "businessApi", "batches", "batchApi",
      "guidanceApi", "assessmentApi", "performanceApi", "modelApi", "bootstrapApi">>

Apis == {"luoguApi", "businessApi", "batchApi", "guidanceApi", "assessmentApi",
         "performanceApi", "modelApi", "bootstrapApi"}

VARIABLES
    stage,        \* activating, up, disposing, down
    count,        \* contributions registered so far
    next,         \* the contribution whose disposer runs
    routes,       \* the APIs whose routes are registered
    refusing,     \* the Luogu API refuses the handlers it did not accept yet
    controller,   \* none, open, closed
    storage,      \* open, closed
    calls,        \* model operations not settled
    waiter,       \* the storage waits for the last settlement, after the disposal
    request       \* the request of each client: the API and how far it is

lifeVars == <<stage, count, next, routes, refusing, controller, storage, calls, waiter, request>>
pluginVars == <<hostVars, lifeVars>>

NoRequest == [api |-> "none", at |-> "idle"]

PluginTypeOK ==
    /\ HostTypeOK
    /\ stage \in {"activating", "up", "disposing", "down"}
    /\ count \in 1..Len(Contributions) /\ next \in 0..Len(Contributions)
    /\ routes \subseteq Apis /\ refusing \in BOOLEAN
    /\ controller \in {"none", "open", "closed"} /\ storage \in {"open", "closed"}
    /\ calls \subseteq ModelCalls /\ waiter \in BOOLEAN
    /\ request \in [Clients -> {NoRequest} \cup [api : Apis, at : {"reading", "handling"}]]

\* The storage disposer exists before the first step that may fail.
PluginInit ==
    /\ HostInit
    /\ stage = "activating" /\ count = 1 /\ next = 0
    /\ routes = {} /\ refusing = FALSE
    /\ controller = "none" /\ storage = "open" /\ calls = {} /\ waiter = FALSE
    /\ request = [c \in Clients |-> NoRequest]

-----------------------------------------------------------------------------
(* Activation.                                                                    *)

\* The controller is composed after the recovery of assessments and plans.
ComposeController ==
    /\ stage = "activating" /\ count = 2 /\ controller = "none"
    /\ controller' = "open"
    /\ UNCHANGED <<hostVars, stage, count, next, routes, refusing, storage, calls, waiter, request>>

\* A contribution is registered; the Luogu host only once its start has settled.
Contribute ==
    LET c == Contributions[count + 1]
    IN  /\ stage = "activating" /\ count < Len(Contributions)
        /\ count = 2 => controller = "open"
        /\ count = 3 => startup = "settled"
        /\ count' = count + 1
        /\ routes' = IF c \in Apis THEN routes \cup {c} ELSE routes
        /\ stage' = IF count' = Len(Contributions) THEN "up" ELSE "activating"
        /\ UNCHANGED <<hostVars, next, refusing, controller, storage, calls, waiter, request>>

\* Between registering the host's disposer and the first route, activation awaits start().
AwaitHost ==
    /\ stage = "activating" /\ count = 3
    /\ StartHost \/ RecoverSync \/ EndSweepAtStart
    /\ UNCHANGED lifeVars

\* Any step of the activation fails: what was contributed so far is rolled back.
FailActivation ==
    /\ stage = "activating"
    /\ IF Starting THEN startup' = "settled" ELSE UNCHANGED startup
    /\ stage' = "disposing" /\ next' = count
    /\ UNCHANGED <<timer, ticking, disposal, syncService, observer, count, routes, refusing,
                   controller, storage, calls, waiter, request>>

-----------------------------------------------------------------------------
(* Requests.                                                                      *)

\* A route that is registered accepts a request and reads its body.
AcceptRequest(c) ==
    /\ request[c] = NoRequest
    /\ \E a \in routes : request' = [request EXCEPT ![c] = [api |-> a, at |-> "reading"]]
    /\ UNCHANGED <<hostVars, stage, count, next, routes, refusing, controller, storage, calls, waiter>>

\* Defect: a Luogu request is refused only if its route was gone before it arrived.
LuoguRefusesNothing == FALSE

\* A Luogu request is refused from the moment the disposal of its API began.
LuoguRefuses == refusing

\* The body is read: the handler runs, unless the Luogu API is closing. A handler of the
\* model API may leave an owned operation behind; every handler of a model operation is
\* refused once the controller is closed.
Handle(c) ==
    /\ request[c].at = "reading"
    /\ LET a == request[c].api
       IN  IF a = "luoguApi" /\ LuoguRefuses
           THEN request' = [request EXCEPT ![c] = NoRequest] /\ UNCHANGED calls
           ELSE /\ request' = [request EXCEPT ![c].at = "handling"]
                /\ IF a = "modelApi" /\ controller = "open"
                   THEN calls' \in {calls} \cup {calls \cup {o} : o \in ModelCalls}
                   ELSE UNCHANGED calls
    /\ UNCHANGED <<hostVars, stage, count, next, routes, refusing, controller, storage, waiter>>

\* A request ends: its handler settles, its body is refused or the client leaves. The
\* transport stops waiting for a handler the client left, the Luogu API does not.
EndRequest(c) ==
    /\ request[c] # NoRequest
    /\ request' = [request EXCEPT ![c] = NoRequest]
    /\ UNCHANGED <<hostVars, stage, count, next, routes, refusing, controller, storage, calls, waiter>>

\* A model operation settles; the detached settlement waits for the last one.
SettleCall(o) ==
    /\ o \in calls
    /\ calls' = calls \ {o}
    /\ UNCHANGED <<hostVars, stage, count, next, routes, refusing, controller, storage, waiter, request>>

\* The timer of the running host and its sweeps.
Sweeps ==
    /\ OnTick \/ EndTick
    /\ UNCHANGED lifeVars

-----------------------------------------------------------------------------
(* Disposal.                                                                      *)

StartDisposal ==
    /\ stage = "up"
    /\ stage' = "disposing" /\ next' = count
    /\ UNCHANGED <<hostVars, count, routes, refusing, controller, storage, calls, waiter, request>>

Disposing(c) == stage = "disposing" /\ next > 0 /\ Contributions[next] = c

\* Defect: the first disposer that fails ends the disposal.
OnwardUnlessFailed(failed) == IF failed THEN 0 ELSE next - 1

\* A disposer settles, well or not: the next one runs in either case.
Onward(failed) == next - 1

\* The routes of an API are released, each of them even when another one fails.
ReleaseApi ==
    \E c \in Apis \ {"luoguApi"}, failed \in BOOLEAN :
        /\ Disposing(c)
        /\ routes' = routes \ {c}
        /\ next' = Onward(failed)
        /\ UNCHANGED <<hostVars, stage, count, refusing, controller, storage, calls, waiter, request>>

\* The Luogu API refuses late handlers and cancels the ones it accepted, also when a route
\* of it stays registered ...
ReleaseLuoguApi ==
    /\ Disposing("luoguApi") /\ ~refusing
    /\ refusing' = TRUE
    /\ routes' \in {routes, routes \ {"luoguApi"}}
    /\ UNCHANGED <<hostVars, stage, count, next, controller, storage, calls, waiter, request>>

\* ... and is disposed when they have settled.
DrainLuoguApi ==
    \E failed \in BOOLEAN :
        /\ Disposing("luoguApi") /\ refusing
        /\ \A c \in Clients : request[c] # [api |-> "luoguApi", at |-> "handling"]
        /\ next' = Onward(failed)
        /\ UNCHANGED <<hostVars, stage, count, routes, refusing, controller, storage, calls, waiter, request>>

DisposeLuogu ==
    /\ Disposing("luogu")
    /\ DisposeHost \/ (disposal = "draining" /\ (ServiceDrained \/ EndTick \/ EndDisposal))
    /\ UNCHANGED lifeVars

LuoguDisposed ==
    /\ Disposing("luogu") /\ disposal \in {"failed", "done"}
    /\ next' = Onward(disposal = "failed")
    /\ UNCHANGED <<hostVars, stage, count, routes, refusing, controller, storage, calls, waiter, request>>

\* The bulk refresh closes within its deadline (MaterialBatch), the assessment desk once its
\* calls have settled (AssessRequests); either may report a failure.
EndService ==
    \E failed \in BOOLEAN :
        /\ Disposing("batches") \/ Disposing("assessment")
        /\ next' = Onward(failed)
        /\ UNCHANGED <<hostVars, stage, count, routes, refusing, controller, storage, calls, waiter, request>>

\* The controller takes no more work; what outlives its deadline keeps the store open.
CloseControllerAndStore ==
    /\ Disposing("storage")
    /\ controller' = IF controller = "none" THEN "none" ELSE "closed"
    /\ IF calls = {}
       THEN storage' = "closed" /\ UNCHANGED waiter
       ELSE waiter' = TRUE /\ UNCHANGED storage
    /\ next' = 0
    /\ UNCHANGED <<hostVars, stage, count, routes, refusing, calls, request>>

Disposed ==
    /\ stage = "disposing" /\ next = 0
    /\ stage' = "down"
    /\ UNCHANGED <<hostVars, count, next, routes, refusing, controller, storage, calls, waiter, request>>

\* whenSettled().then(closeStorage)
CloseStorageLater ==
    /\ waiter /\ calls = {}
    /\ storage' = "closed" /\ waiter' = FALSE
    /\ UNCHANGED <<hostVars, stage, count, next, routes, refusing, controller, calls, request>>

Teardown ==
    \/ ReleaseApi \/ ReleaseLuoguApi \/ DrainLuoguApi \/ DisposeLuogu \/ LuoguDisposed
    \/ EndService \/ CloseControllerAndStore \/ Disposed \/ CloseStorageLater

PluginNext ==
    \/ ComposeController \/ Contribute \/ AwaitHost \/ FailActivation
    \/ \E c \in Clients : AcceptRequest(c) \/ Handle(c) \/ EndRequest(c)
    \/ \E o \in ModelCalls : SettleCall(o)
    \/ Sweeps \/ StartDisposal \/ Teardown

PluginSpec == PluginInit /\ [][PluginNext]_pluginVars

-----------------------------------------------------------------------------

\* Once a disposal or a rollback has begun, the store is released in the end, whatever
\* disposers fail on the way (lifecycle.ts disposeAll).
StoreReleased == stage = "disposing" ~> storage = "closed"

\* No Luogu handler is at work on a host that is being disposed, nothing of a disposed host
\* is left, and no model operation outlives the store (index.ts, route-first disposal).
WorkOutlivesNothing ==
    /\ HostQuiet
    /\ disposal # "none" => \A c \in Clients : request[c] # [api |-> "luoguApi", at |-> "handling"]
    /\ storage = "closed" => calls = {}

=============================================================================
