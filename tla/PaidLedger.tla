----------------------------- MODULE PaidLedger -----------------------------
(***************************************************************************)
(* What every service that pays for model calls promises of one request    *)
(* id: a call is charged before it is made, made at most once, and never   *)
(* leaves the charge again; a known cost is final, a zero cost is recorded *)
(* only for a call that was not made and then never will be.               *)
(***************************************************************************)
EXTENDS Naturals

CONSTANTS
    Requests,
    Late       \* whether a late answer may still replace an unknown cost

VARIABLES
    charged,   \* requests that count against the quota
    paid,      \* how often each was handed to the model
    booked     \* its cost: "open", "unknown", "known" or "zero"

ledgerVars == <<charged, paid, booked>>

LedgerInit ==
    /\ charged = {}
    /\ paid = [r \in Requests |-> 0]
    /\ booked = [r \in Requests |-> "open"]

\* A lease that lapsed may have been booked as unknown before its call was made.
Pay(r) ==
    /\ r \in charged /\ paid[r] = 0 /\ booked[r] # "zero"
    /\ paid' = [paid EXCEPT ![r] = 1]
    /\ UNCHANGED <<charged, booked>>

Book(r, cost) ==
    /\ r \in charged
    /\ booked[r] = "open" \/ (Late /\ booked[r] = "unknown")
    /\ cost = "zero" => paid[r] = 0
    /\ booked' = [booked EXCEPT ![r] = cost]
    /\ UNCHANGED <<charged, paid>>

\* A recovery books every lapsed reservation at once as unknown.
Recovered(S) == [r \in Requests |-> IF r \in S THEN "unknown" ELSE booked[r]]

Recover(S) ==
    /\ S \subseteq charged /\ \A r \in S : booked[r] = "open"
    /\ booked' = Recovered(S)
    /\ UNCHANGED <<charged, paid>>

\* A reservation recovers in the transaction that charges it.
Charge(r, S) ==
    /\ S \subseteq charged /\ \A q \in S : booked[q] = "open"
    /\ r \notin charged /\ paid[r] = 0 /\ booked[r] = "open"
    /\ charged' = charged \cup {r}
    /\ booked' = Recovered(S)
    /\ UNCHANGED paid

LedgerNext ==
    \/ \E r \in Requests : Pay(r) \/ \E cost \in {"unknown", "known", "zero"} : Book(r, cost)
    \/ \E S \in SUBSET Requests : Recover(S) \/ \E r \in Requests : Charge(r, S)

LedgerSpec == LedgerInit /\ [][LedgerNext]_ledgerVars
=============================================================================
