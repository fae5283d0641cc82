---------------------------- MODULE CoachRequests ----------------------------
(***************************************************************************)
(* The progressive hints (src/application/coaching-service.ts): one paid   *)
(* call per request id, reserved in the transaction that writes its row,   *)
(* dispatched without one and settled in another.                          *)
(*                                                                         *)
(* The requests are those of one account about one problem; requests of    *)
(* others share only the quota and the single flight.  Calls of several    *)
(* processes run over the same rows while leases lapse, the snapshot head  *)
(* moves, the user cancels, the store refuses a write, a process ends.     *)
(***************************************************************************)
EXTENDS Naturals, FiniteSets

CONSTANTS
    HintIds,       \* request ids
    NoHintId,
    HintCalls,     \* calls of ask() under way at once
    Levels,        \* hint levels asked for, from 1; 0 is the full explanation
    HintQuota,     \* maxCallsPer24Hours
    MaxInFlight,   \* maxConcurrent
    MaxHeads       \* bound: snapshots that become the head of the problem

ASSUME HintAssumption ==
    /\ NoHintId \notin HintIds /\ Levels \subseteq Nat
    /\ HintQuota \in Nat /\ MaxInFlight \in Nat /\ MaxHeads \in Nat

VARIABLES
    hint,      \* the durable row of each request id
    head,      \* current snapshot of the problem
    hintCall,  \* of each call: where it is
    hintPaid   \* ghost: how often each request was handed to the model

hintVars == <<hint, head, hintCall, hintPaid>>

\* `live` is whether the lease of a reservation has not expired, `recent` whether the
\* row is inside the quota window.
NoHint == [status |-> "absent", live |-> FALSE, recent |-> FALSE, snapshot |-> 0,
           level |-> 0, usage |-> "none", text |-> FALSE]
NoHintCall == [at |-> "idle", id |-> NoHintId, level |-> 0, snapshot |-> 0,
               cancelled |-> FALSE, answer |-> "none"]

HintInit ==
    /\ hint = [r \in HintIds |-> NoHint]
    /\ head = 0
    /\ hintCall = [c \in HintCalls |-> NoHintCall]
    /\ hintPaid = [r \in HintIds |-> 0]

HintMoves(c, p) == hintCall' = [hintCall EXCEPT ![c] = p]

-----------------------------------------------------------------------------
(* ask                                                                     *)

HintLapsed(r) == hint[r].status = "reserved" /\ ~hint[r].live

\* A durable row is answered as it is; only a new id, or one whose reservation has
\* expired, goes on.  The snapshot is the head at this moment.
AskHint(c, r, level) ==
    /\ hintCall[c].at = "idle"
    /\ hint[r].status = "absent" \/ (HintLapsed(r) /\ hint[r].level = level)
    /\ HintMoves(c, [NoHintCall EXCEPT !.at = "asking", !.id = r, !.level = level, !.snapshot = head])
    /\ UNCHANGED <<hint, head, hintPaid>>

\* recoverExpiredReservations.
HintsRecovered ==
    [r \in HintIds |-> IF HintLapsed(r) THEN [hint[r] EXCEPT !.status = "uncertain"] ELSE hint[r]]

HintCharged == {r \in HintIds : hint[r].status # "absent"}

\* Defect: a success on an earlier snapshot of the problem counts as well.
EarnedOnAny(snapshot) == {hint[r].level : r \in {q \in HintIds : hint[q].text}}

\* lowerLevelSuccesses.
EarnedOn(snapshot) == {hint[r].level : r \in {q \in HintIds : hint[q].text /\ hint[q].snapshot = snapshot}}

\* A hint needs every lower level; the full explanation needs none.
HintReservable(c) ==
    LET p == hintCall[c]
    IN  /\ hint[p.id].status = "absent" /\ head = p.snapshot
        /\ Cardinality({q \in HintIds : hint[q].status = "reserved" /\ hint[q].live}) < MaxInFlight
        /\ Cardinality({q \in HintCharged : hint[q].recent}) < HintQuota
        /\ 1 .. p.level - 1 \subseteq EarnedOn(p.snapshot)

ReserveHint(c) ==
    LET p == hintCall[c]
    IN  /\ p.at = "asking" /\ ~p.cancelled /\ HintReservable(c)
        /\ hint' = [HintsRecovered EXCEPT ![p.id] = [NoHint EXCEPT
                !.status = "reserved", !.live = TRUE, !.recent = TRUE,
                !.snapshot = p.snapshot, !.level = p.level]]
        /\ HintMoves(c, [p EXCEPT !.at = "reserved"])
        /\ UNCHANGED <<head, hintPaid>>

\* Defect: a reservation whose lease has expired is taken over.
ReviveHint(c) ==
    LET p == hintCall[c]
    IN  /\ p.at = "asking" /\ ~p.cancelled /\ ~HintReservable(c)
        /\ IF HintLapsed(p.id) THEN UNCHANGED hint /\ HintMoves(c, [p EXCEPT !.at = "reserved"])
           ELSE hint' = HintsRecovered /\ HintMoves(c, NoHintCall)
        /\ UNCHANGED <<head, hintPaid>>

\* A refusal, or the row that is already there, commits the recovery.
RefuseHint(c) ==
    /\ hintCall[c].at = "asking" /\ ~hintCall[c].cancelled /\ ~HintReservable(c)
    /\ hint' = HintsRecovered
    /\ HintMoves(c, NoHintCall)
    /\ UNCHANGED <<head, hintPaid>>

DispatchHint(c) ==
    LET p == hintCall[c]
    IN  /\ p.at = "reserved" /\ ~p.cancelled
        /\ hintPaid' = [hintPaid EXCEPT ![p.id] = @ + 1]
        /\ HintMoves(c, [p EXCEPT !.at = "generating"])
        /\ UNCHANGED <<hint, head>>

AnswerHint(c) ==
    /\ hintCall[c].at = "generating"
    /\ \E answer \in {"threw", "failed", "hint"} :
        HintMoves(c, [hintCall[c] EXCEPT !.at = "answered", !.answer = answer])
    /\ UNCHANGED <<hint, head, hintPaid>>

-----------------------------------------------------------------------------
(* Settlement                                                              *)

\* The store never rewrites a settled row, and takes of an uncertain one only its
\* settlement; anything else fails the transaction.
HintTakes(r, status) ==
    \/ hint[r].status = "reserved"
    \/ hint[r].status = "uncertain" /\ status = "settled"

HintBooked(c, status, usage, text) ==
    LET r == hintCall[c].id
    IN  /\ HintTakes(r, status)
        /\ hint' = [hint EXCEPT ![r].status = status, ![r].usage = usage, ![r].text = text, ![r].live = FALSE]

SettleUnpaidHint(c) ==
    /\ hintCall[c].at = "reserved" /\ hintCall[c].cancelled
    /\ HintBooked(c, "settled", "zero", FALSE)
    /\ HintMoves(c, NoHintCall)
    /\ UNCHANGED <<head, hintPaid>>

\* A thrown call, or a failed one without a usage.
SettleUnknownHint(c) ==
    /\ hintCall[c].at = "answered" /\ hintCall[c].answer \in {"threw", "failed"}
    /\ HintBooked(c, "uncertain", "none", FALSE)
    /\ HintMoves(c, NoHintCall)
    /\ UNCHANGED <<head, hintPaid>>

\* Defect: the head was checked when the call was reserved.
GivenOnceReserved(c) == hintCall[c].answer = "hint" /\ ~hintCall[c].cancelled

\* The answer is kept unless the head moved or the user cancelled.
Given(c) ==
    hintCall[c].answer = "hint" /\ hintCall[c].snapshot = head /\ ~hintCall[c].cancelled

SettleKnownHint(c) ==
    /\ hintCall[c].at = "answered" /\ hintCall[c].answer # "threw"
    /\ HintBooked(c, "settled", "known", Given(c))
    /\ HintMoves(c, NoHintCall)
    /\ UNCHANGED <<head, hintPaid>>

\* Nothing is written: a cancellation or a failure rolls the reservation back, the
\* store refuses a settlement, the process ends.  A reservation stays until it lapses.
DropHint(c) ==
    /\ hintCall[c].at # "idle" /\ HintMoves(c, NoHintCall)
    /\ UNCHANGED <<hint, head, hintPaid>>

-----------------------------------------------------------------------------
(* What happens around the service                                         *)

CancelHint(c) ==
    /\ hintCall[c].at # "idle" /\ ~hintCall[c].cancelled
    /\ HintMoves(c, [hintCall[c] EXCEPT !.cancelled = TRUE])
    /\ UNCHANGED <<hint, head, hintPaid>>

LapseHint(r) ==
    /\ hint[r].status = "reserved" /\ hint[r].live
    /\ hint' = [hint EXCEPT ![r].live = FALSE]
    /\ UNCHANGED <<head, hintCall, hintPaid>>

\* The quota window is far longer than a lease.
AgeHint(r) ==
    /\ hint[r].recent /\ ~hint[r].live
    /\ hint' = [hint EXCEPT ![r].recent = FALSE]
    /\ UNCHANGED <<head, hintCall, hintPaid>>

MoveHead ==
    /\ head < MaxHeads /\ head' = head + 1
    /\ UNCHANGED <<hint, hintCall, hintPaid>>

HintNext ==
    \/ MoveHead
    \/ \E r \in HintIds : LapseHint(r) \/ AgeHint(r)
    \/ \E c \in HintCalls :
        \/ ReserveHint(c)
        \/ RefuseHint(c)
        \/ DispatchHint(c)
        \/ AnswerHint(c)
        \/ SettleUnpaidHint(c)
        \/ SettleUnknownHint(c)
        \/ SettleKnownHint(c)
        \/ DropHint(c)
        \/ CancelHint(c)
        \/ \E r \in HintIds, level \in Levels : AskHint(c, r, level)

HintSpec == HintInit /\ [][HintNext]_hintVars

-----------------------------------------------------------------------------

HintTypeOK ==
    /\ hint \in [HintIds -> [status : {"absent", "reserved", "settled", "uncertain"},
            live : BOOLEAN, recent : BOOLEAN, snapshot : 0 .. MaxHeads, level : Levels \cup {0},
            usage : {"none", "known", "zero"}, text : BOOLEAN]]
    /\ head \in 0 .. MaxHeads
    /\ hintCall \in [HintCalls -> [
            at : {"idle", "asking", "reserved", "generating", "answered"},
            id : HintIds \cup {NoHintId}, level : Levels \cup {0}, snapshot : 0 .. MaxHeads,
            cancelled : BOOLEAN, answer : {"none", "threw", "failed", "hint"}]]
    /\ hintPaid \in [HintIds -> Nat]

HintLedger == INSTANCE PaidLedger WITH
    Requests <- HintIds, Late <- TRUE, charged <- HintCharged, paid <- hintPaid,
    booked <- [r \in HintIds |->
        CASE hint[r].status = "settled" -> hint[r].usage
          [] hint[r].status = "uncertain" -> "unknown"
          [] OTHER -> "open"]

\* A hint is charged before it is asked for, asked for at most once whatever calls,
\* processes and recoveries race, never free again, and never booked as costless
\* after it was asked for; only the answer of the call itself may turn an unknown cost
\* into a known one (reserve, settleAfterDispatch).
HintsAreLedgered == HintLedger!LedgerSpec

\* A text is stored only while its snapshot is the head and nobody cancelled its call
\* (settleAfterDispatch).
HintsStoredFresh ==
    [][\A r \in HintIds : ~hint[r].text /\ hint'[r].text =>
        /\ hint[r].snapshot = head
        /\ \E c \in HintCalls : hintCall[c].id = r /\ hintCall[c].at = "answered" /\ ~hintCall[c].cancelled]_hintVars

\* No level of hint is ever stored before all lower ones of the same snapshot, however
\* late answers, recoveries and moves of the head fall (lowerLevelSuccesses).
HintsEarned ==
    \A r \in HintIds : hint[r].text =>
        \A level \in 1 .. hint[r].level - 1 :
            \E q \in HintIds :
                hint[q].text /\ hint[q].level = level /\ hint[q].snapshot = hint[r].snapshot
=============================================================================
