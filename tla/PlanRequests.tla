---------------------------- MODULE PlanRequests ----------------------------
(***************************************************************************)
(* The AI plans (src/application/planning-service.ts): a preparation is    *)
(* free and durable, its one paid call is reserved in a transaction,       *)
(* dispatched without one and settled in another.                          *)
(*                                                                         *)
(* Calls of several processes run over the same rows; leases lapse by the  *)
(* clock, the evidence and the settings move, the user cancels, the store  *)
(* refuses a write and a process ends between any two steps.  The content  *)
(* of evidence and plan is left out: a preparation remembers the version   *)
(* of the evidence and the revision of the settings it was built from.     *)
(***************************************************************************)
EXTENDS Naturals, FiniteSets

CONSTANTS
    PlanIds,       \* request ids
    NoPlanId,
    PlanCalls,     \* calls of prepare() and run() under way at once
    PlanQuota,     \* maxCallsPer24Hours
    MaxMoves       \* bound: moves of the evidence and of the settings

ASSUME PlanAssumption ==
    /\ NoPlanId \notin PlanIds
    /\ PlanQuota \in Nat /\ MaxMoves \in Nat

VARIABLES
    attempt,    \* the durable row of each request id
    plans,      \* requests whose plan is stored
    evidence,   \* version of what a preparation is built from
    settings,   \* revision of the workbench settings
    planCall,   \* of each call: where it is
    planPaid    \* ghost: how often each request was handed to the model

planVars == <<attempt, plans, evidence, settings, planCall, planPaid>>

\* `live` is whether the lease of a reservation has not expired, `recent` whether the
\* row is inside the quota window.
NoAttempt == [status |-> "absent", live |-> FALSE, recent |-> FALSE,
              evidence |-> 0, settings |-> 0, usage |-> "none", plan |-> FALSE]
NoPlanCall == [at |-> "idle", id |-> NoPlanId, cancelled |-> FALSE, answer |-> "none",
           evidence |-> 0, settings |-> 0]

PlanInit ==
    /\ attempt = [r \in PlanIds |-> NoAttempt]
    /\ plans = {} /\ evidence = 0 /\ settings = 0
    /\ planCall = [c \in PlanCalls |-> NoPlanCall]
    /\ planPaid = [r \in PlanIds |-> 0]

PlanMoves(c, p) == planCall' = [planCall EXCEPT ![c] = p]
PlanTo(c, at) == PlanMoves(c, [planCall[c] EXCEPT !.at = at])

-----------------------------------------------------------------------------
(* prepare                                                                 *)

BuildPreparation(c, r) ==
    /\ planCall[c].at = "idle" /\ attempt[r].status = "absent"
    /\ PlanMoves(c, [NoPlanCall EXCEPT !.at = "building", !.id = r, !.evidence = evidence, !.settings = settings])
    /\ UNCHANGED <<attempt, plans, evidence, settings, planPaid>>

SavePreparation(c) ==
    LET p == planCall[c]
    IN  /\ p.at = "building" /\ ~p.cancelled
        /\ attempt[p.id].status = "absent" /\ settings = p.settings
        /\ attempt' = [attempt EXCEPT ![p.id] = [NoAttempt EXCEPT !.status = "prepared",
                            !.evidence = p.evidence, !.settings = p.settings]]
        /\ PlanMoves(c, NoPlanCall)
        /\ UNCHANGED <<plans, evidence, settings, planPaid>>

-----------------------------------------------------------------------------
(* run                                                                     *)

AskPlan(c, r) ==
    /\ planCall[c].at = "idle" /\ attempt[r].status = "prepared"
    /\ PlanMoves(c, [NoPlanCall EXCEPT !.at = "asking", !.id = r])
    /\ UNCHANGED <<attempt, plans, evidence, settings, planPaid>>

PlanLapsed(r) == attempt[r].status = "reserved" /\ ~attempt[r].live

\* recoverExpired: the call of a lapsed reservation may have cost something.
PlansRecovered ==
    [r \in PlanIds |-> IF PlanLapsed(r) THEN [attempt[r] EXCEPT !.status = "uncertain"] ELSE attempt[r]]

PlanCharged == {r \in PlanIds : attempt[r].status \in {"reserved", "settled", "uncertain"}}

PlanFresh(r) == attempt[r].evidence = evidence /\ attempt[r].settings = settings

\* Single flight, quota and both versions are decided inside the transaction.
PlanReservable(r) ==
    /\ attempt[r].status = "prepared" /\ PlanFresh(r)
    /\ \A q \in PlanIds : attempt[q].status # "reserved" \/ ~attempt[q].live
    /\ Cardinality({q \in PlanCharged : attempt[q].recent}) < PlanQuota

ReservePlan(c) ==
    LET r == planCall[c].id
    IN  /\ planCall[c].at = "asking" /\ ~planCall[c].cancelled /\ PlanReservable(r)
        /\ attempt' = [PlansRecovered EXCEPT ![r].status = "reserved", ![r].live = TRUE, ![r].recent = TRUE]
        /\ PlanTo(c, "reserved")
        /\ UNCHANGED <<plans, evidence, settings, planPaid>>

\* Defect: a reservation that is already there is taken over.
JoinPlan(c) ==
    LET r == planCall[c].id
    IN  /\ planCall[c].at = "asking" /\ ~planCall[c].cancelled /\ ~PlanReservable(r)
        /\ attempt' = PlansRecovered
        /\ IF attempt[r].status = "reserved" THEN PlanTo(c, "reserved") ELSE PlanMoves(c, NoPlanCall)
        /\ UNCHANGED <<plans, evidence, settings, planPaid>>

\* A refusal, or the row that another call made of it, commits the recovery; a
\* cancellation rolls it back (DropPlan).
RefusePlan(c) ==
    /\ planCall[c].at = "asking" /\ ~planCall[c].cancelled /\ ~PlanReservable(planCall[c].id)
    /\ attempt' = PlansRecovered
    /\ PlanMoves(c, NoPlanCall)
    /\ UNCHANGED <<plans, evidence, settings, planPaid>>

DispatchPlan(c) ==
    LET r == planCall[c].id
    IN  /\ planCall[c].at = "reserved" /\ ~planCall[c].cancelled
        /\ planPaid' = [planPaid EXCEPT ![r] = @ + 1]
        /\ PlanTo(c, "generating")
        /\ UNCHANGED <<attempt, plans, evidence, settings>>

\* The generator throws, fails with a known or an unknown cost, gives a plan that is
\* refused by its validation, or a valid one.
AnswerPlan(c) ==
    /\ planCall[c].at = "generating"
    /\ \E answer \in {"threw", "failed", "invalid", "plan"} :
        PlanMoves(c, [planCall[c] EXCEPT !.at = "answered", !.answer = answer])
    /\ UNCHANGED <<attempt, plans, evidence, settings, planPaid>>

-----------------------------------------------------------------------------
(* Settlement                                                              *)

\* The store takes no result for a row that is not reserved any more: the whole
\* transaction fails, and the call with it.
PlanBooked(c, status, usage) ==
    LET r == planCall[c].id
    IN  /\ attempt[r].status = "reserved"
        /\ attempt' = [attempt EXCEPT ![r].status = status, ![r].usage = usage, ![r].live = FALSE]

\* Closed before it was dispatched.
SettleUnpaidPlan(c) ==
    /\ planCall[c].at = "reserved" /\ planCall[c].cancelled
    /\ PlanBooked(c, "settled", "zero")
    /\ PlanMoves(c, NoPlanCall)
    /\ UNCHANGED <<plans, evidence, settings, planPaid>>

\* Defect: what was cancelled cost nothing.
CancelledIsFree(c) == IF planCall[c].cancelled THEN <<"settled", "zero">> ELSE <<"uncertain", "none">>

\* A thrown or failed call without a usage.
CostOfFailure(c) == <<"uncertain", "none">>

SettleUnknownPlan(c) ==
    /\ planCall[c].at = "answered" /\ planCall[c].answer \in {"threw", "failed"}
    /\ PlanBooked(c, CostOfFailure(c)[1], CostOfFailure(c)[2])
    /\ PlanMoves(c, NoPlanCall)
    /\ UNCHANGED <<plans, evidence, settings, planPaid>>

\* The cost is known and there is no plan to store: the call failed, the answer was
\* invalid, or what it was built on has moved.
SettleWithoutPlan(c) ==
    /\ planCall[c].at = "answered" /\ planCall[c].answer # "threw"
    /\ planCall[c].answer = "plan" => ~PlanFresh(planCall[c].id)
    /\ PlanBooked(c, "settled", "known")
    /\ PlanMoves(c, NoPlanCall)
    /\ UNCHANGED <<plans, evidence, settings, planPaid>>

\* Defect: the versions of the reservation are good enough.
StorableOnceReserved(c) == ~planCall[c].cancelled

\* Sampled before, during and after the write of the plan.
PlanStorable(c) == PlanFresh(planCall[c].id) /\ ~planCall[c].cancelled

SettlePlan(c) ==
    LET r == planCall[c].id
    IN  /\ planCall[c].at = "answered" /\ planCall[c].answer = "plan" /\ PlanStorable(c)
        /\ attempt[r].status = "reserved"
        /\ attempt' = [attempt EXCEPT ![r].status = "settled", ![r].usage = "known",
                                      ![r].live = FALSE, ![r].plan = TRUE]
        /\ plans' = plans \cup {r}
        /\ PlanMoves(c, NoPlanCall)
        /\ UNCHANGED <<evidence, settings, planPaid>>

\* A cancellation, or a failure of the last check or of the plan write, rolls the
\* plan and its settlement back.
RollBackPlan(c) ==
    /\ planCall[c].at = "answered" /\ planCall[c].answer = "plan"
    /\ PlanTo(c, "withheld")
    /\ UNCHANGED <<attempt, plans, evidence, settings, planPaid>>

\* settleAfterAbort, in a transaction of its own: a row that is terminal by now is
\* left as it is.
SettleWithheld(c) ==
    /\ planCall[c].at = "withheld"
    /\ PlanBooked(c, "settled", "known") \/ (attempt[planCall[c].id].status # "reserved" /\ UNCHANGED attempt)
    /\ PlanMoves(c, NoPlanCall)
    /\ UNCHANGED <<plans, evidence, settings, planPaid>>

\* Nothing is written: a cancellation or a failure rolls a preparation or a
\* reservation back, the store refuses a settlement, the process ends.  A reservation
\* stays until it lapses.
DropPlan(c) ==
    /\ planCall[c].at # "idle" /\ PlanMoves(c, NoPlanCall)
    /\ UNCHANGED <<attempt, plans, evidence, settings, planPaid>>

-----------------------------------------------------------------------------
(* cancel, recovery, and what happens around the service                   *)

\* Only a preparation is abandoned; a dispatched call is cancelled by its token.
CancelPlan(r) ==
    /\ attempt[r].status = "prepared"
    /\ attempt' = [attempt EXCEPT ![r].status = "cancelled"]
    /\ UNCHANGED <<plans, evidence, settings, planCall, planPaid>>

CancelPlanCall(c) ==
    /\ planCall[c].at # "idle" /\ ~planCall[c].cancelled
    /\ PlanMoves(c, [planCall[c] EXCEPT !.cancelled = TRUE])
    /\ UNCHANGED <<attempt, plans, evidence, settings, planPaid>>

RecoverPlans ==
    /\ attempt' = PlansRecovered
    /\ UNCHANGED <<plans, evidence, settings, planCall, planPaid>>

LapsePlan(r) ==
    /\ attempt[r].status = "reserved" /\ attempt[r].live
    /\ attempt' = [attempt EXCEPT ![r].live = FALSE]
    /\ UNCHANGED <<plans, evidence, settings, planCall, planPaid>>

\* The quota window is far longer than a lease.
AgePlan(r) ==
    /\ attempt[r].recent /\ ~attempt[r].live
    /\ attempt' = [attempt EXCEPT ![r].recent = FALSE]
    /\ UNCHANGED <<plans, evidence, settings, planCall, planPaid>>

MoveEvidence ==
    /\ evidence + settings < MaxMoves /\ evidence' = evidence + 1
    /\ UNCHANGED <<attempt, plans, settings, planCall, planPaid>>

MoveSettings ==
    /\ evidence + settings < MaxMoves /\ settings' = settings + 1
    /\ UNCHANGED <<attempt, plans, evidence, planCall, planPaid>>

PlanNext ==
    \/ RecoverPlans
    \/ MoveEvidence
    \/ MoveSettings
    \/ \E r \in PlanIds : CancelPlan(r) \/ LapsePlan(r) \/ AgePlan(r)
    \/ \E c \in PlanCalls :
        \/ SavePreparation(c)
        \/ ReservePlan(c)
        \/ RefusePlan(c)
        \/ DispatchPlan(c)
        \/ AnswerPlan(c)
        \/ SettleUnpaidPlan(c)
        \/ SettleUnknownPlan(c)
        \/ SettleWithoutPlan(c)
        \/ SettlePlan(c)
        \/ RollBackPlan(c)
        \/ SettleWithheld(c)
        \/ DropPlan(c)
        \/ CancelPlanCall(c)
        \/ \E r \in PlanIds : BuildPreparation(c, r) \/ AskPlan(c, r)

PlanSpec == PlanInit /\ [][PlanNext]_planVars

-----------------------------------------------------------------------------

PlanTypeOK ==
    /\ attempt \in [PlanIds -> [
            status : {"absent", "prepared", "reserved", "settled", "uncertain", "cancelled"},
            live : BOOLEAN, recent : BOOLEAN, evidence : 0 .. MaxMoves, settings : 0 .. MaxMoves,
            usage : {"none", "known", "zero"}, plan : BOOLEAN]]
    /\ plans \subseteq PlanIds
    /\ evidence \in 0 .. MaxMoves /\ settings \in 0 .. MaxMoves
    /\ planCall \in [PlanCalls -> [
            at : {"idle", "building", "asking", "reserved", "generating", "answered", "withheld"},
            id : PlanIds \cup {NoPlanId}, cancelled : BOOLEAN,
            answer : {"none", "threw", "failed", "invalid", "plan"},
            evidence : 0 .. MaxMoves, settings : 0 .. MaxMoves]]
    /\ planPaid \in [PlanIds -> Nat]

PlanLedger == INSTANCE PaidLedger WITH
    Requests <- PlanIds, Late <- FALSE, charged <- PlanCharged, paid <- planPaid,
    booked <- [r \in PlanIds |->
        CASE attempt[r].status = "settled" -> attempt[r].usage
          [] attempt[r].status = "uncertain" -> "unknown"
          [] OTHER -> "open"]

\* A plan is charged before it is asked for, asked for at most once whatever calls,
\* processes and recoveries race, never free again, and never booked as costless
\* after it was asked for (reserve, settleAfterDispatch, recoverExpired).
PlansAreLedgered == PlanLedger!LedgerSpec

\* A plan is stored together with its settled row, and only while what it was built on
\* still stands and nobody cancelled it (settleAfterDispatch, settleAfterAbort).
PlansStoredFresh ==
    [][\A r \in plans' \ plans :
        /\ PlanFresh(r) /\ attempt'[r].plan /\ attempt'[r].usage = "known"
        /\ \A c \in PlanCalls : planCall[c].id = r /\ planCall[c].at = "answered" => ~planCall[c].cancelled]_planVars
=============================================================================
