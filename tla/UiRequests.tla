------------------------------- MODULE UiRequests -------------------------------
(* What a page of the interface shows of the server: one request hook, whose key *)
(* may change while answers are on their way, and the poll that repeats it.      *)
EXTENDS Naturals

CONSTANTS Views,         \* operation and input a page may show
          NoView,        \* nothing to show
          MaxServed,     \* bound: versions of the served data
          MaxClicks      \* bound: what the user asks for

ASSUME UiAssumption == NoView \notin Views /\ MaxServed \in Nat \ {0} /\ MaxClicks \in Nat

VARIABLES
    served,     \* the version the server has
    view,       \* what the page asks for
    effect,     \* the view the last effect ran for
    flight,     \* the request of that effect
    late,       \* the request the last effect replaced, which may still answer
    state,      \* the hook's state: whose answer it holds
    clicks      \* what the user has asked for so far

uiVars == <<served, view, effect, flight, late, state, clicks>>

NoData == 0
NoFlight == [view |-> NoView, stage |-> "none", alive |-> FALSE, data |-> NoData]
Asked == Views \cup {NoView}
Flights == [view : Asked, stage : {"none", "sent", "answered"}, alive : BOOLEAN, data : 0..MaxServed]

UiTypeOK ==
    /\ served \in 1..MaxServed
    /\ view \in Asked /\ effect \in Asked
    /\ flight \in Flights /\ late \in Flights
    /\ state \in [view : Asked, data : 0..MaxServed, pending : BOOLEAN]
    /\ clicks \in 0..MaxClicks

UiInit ==
    /\ served = 1
    /\ view = NoView /\ effect = NoView
    /\ flight = NoFlight /\ late = NoFlight
    /\ state = [view |-> NoView, data |-> NoData, pending |-> FALSE]
    /\ clicks = 0

-----------------------------------------------------------------------------

\* Defect: the state of the hook is shown whatever view it is of.
ShownOfAny == state

\* The page shows the hook's state only if it is of the view it asks for.
Shown == IF state.view = view THEN state
         ELSE [view |-> view, data |-> NoData, pending |-> view # NoView]

Click == clicks < MaxClicks /\ clicks' = clicks + 1

\* A render asks for another view; its effect has not run yet.
AskFor(v) ==
    /\ v # view /\ Click
    /\ view' = v
    /\ UNCHANGED <<served, effect, flight, late, state>>

\* The effect: the request before is given up and aborted, the data of the same view is kept.
Request ==
    /\ late' = IF flight.stage = "none" THEN late ELSE [flight EXCEPT !.alive = FALSE]
    /\ effect' = view
    /\ flight' = IF view = NoView THEN NoFlight
                 ELSE [view |-> view, stage |-> "sent", alive |-> TRUE, data |-> NoData]
    /\ state' = [view |-> view, data |-> IF state.view = view THEN state.data ELSE NoData,
                 pending |-> view # NoView]
    /\ UNCHANGED <<served, view>>

RunEffect == effect # view /\ Request /\ UNCHANGED clicks

\* The user, or an action of the page, asks for the same again.
RefreshView == effect = view /\ view # NoView /\ Click /\ Request

\* Defect: the poll repeats the request whether or not the one before has settled.
PollAlways == TRUE

\* The poll repeats the request only after the one before has settled.
PollDue == ~Shown.pending

Poll == effect = view /\ view # NoView /\ PollDue /\ Request /\ UNCHANGED clicks

ServeNewer == served < MaxServed /\ served' = served + 1 /\ UNCHANGED <<view, effect, flight, late, state, clicks>>

AnswerFlight ==
    /\ flight.stage = "sent"
    /\ flight' = [flight EXCEPT !.stage = "answered", !.data = served]
    /\ UNCHANGED <<served, view, effect, late, state, clicks>>

AnswerLate ==
    /\ late.stage = "sent"
    /\ late' = [late EXCEPT !.stage = "answered", !.data = served]
    /\ UNCHANGED <<served, view, effect, flight, state, clicks>>

\* Defect: an answer is heard although its effect was replaced.
HeardAlways(f) == TRUE

\* An answer is heard only by the effect that still stands for it.
Heard(f) == f.alive

\* The answer, or a failure, reaches the hook.
Told(f, failed) ==
    state' = IF Heard(f) THEN [view |-> f.view, data |-> IF failed THEN NoData ELSE f.data, pending |-> FALSE]
             ELSE state

TellFlight ==
    /\ flight.stage = "answered"
    /\ \E failed \in BOOLEAN : Told(flight, failed)
    /\ flight' = NoFlight
    /\ UNCHANGED <<served, view, effect, late, clicks>>

TellLate ==
    /\ late.stage = "answered"
    /\ \E failed \in BOOLEAN : Told(late, failed)
    /\ late' = NoFlight
    /\ UNCHANGED <<served, view, effect, flight, clicks>>

UiStep == RunEffect \/ Poll \/ AnswerFlight \/ TellFlight

UiNext ==
    \/ \E v \in Asked : AskFor(v)
    \/ RefreshView \/ ServeNewer \/ AnswerLate \/ TellLate \/ UiStep

-----------------------------------------------------------------------------

\* A page never shows the answer to another view, and never an older answer after a newer
\* one, whatever order the answers come in.
ShownMovesOn ==
    [][/\ Shown'.data # NoData => Shown'.view = view'
       /\ view' = view /\ Shown.data # NoData /\ Shown'.data # NoData => Shown'.data >= Shown.data]_uiVars

\* A page the user leaves alone is told: no poll aborts the request it waits for.
PollsSettle == []<>(~Shown.pending)

\* A view shows no older answer after a newer one, and polls until nothing is pending.
ViewsFollow == ShownMovesOn /\ PollsSettle

=============================================================================
