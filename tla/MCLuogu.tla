------------------------------- MODULE MCLuogu -------------------------------
(* The parts of the Luogu synchronisation, the transport below it, the file and   *)
(* the bank it fills, and what the evidence in them says, in one run: a behaviour *)
(* is a behaviour of one of them, while the others rest.                          *)
EXTENDS LuoguConnection, LuoguGate, LuoguHistory, LuoguBacklog, HttpTransport,
        StoreOpening, MergedBank, LearningEvidence, TLC

CONSTANTS s1, s2, c1, c2, a1, a2, k1, k2

Interchangeable == Permutations({s1, s2}) \cup Permutations({c1, c2}) \cup Permutations({a1, a2}) \cup Permutations({k1, k2})

\* A category, a technique below it, and one below that.
TaxonomyChain == <<0, 1, 2>>

VARIABLE part

LuoguInit ==
    /\ part \in {"connection", "gate", "history", "backlog", "http", "opening", "bank", "evidence"}
    /\ Init /\ GateInit /\ HistoryInit /\ BacklogInit /\ HttpInit
    /\ OpeningInit /\ MergedInit /\ EvidenceInit
    /\ part # "history" => made = 0         \* at rest each starts in one state
    /\ part # "opening" => file = Empty
    /\ part # "bank" => submitted = {}
    /\ part # "evidence" => described = [p \in Exercises |-> Undescribed]

localVars == <<openingVars, mergedVars, evidenceVars>>
remoteVars == <<vars, gateVars, historyVars, backlogVars, httpVars>>
luoguVars == <<part, remoteVars, localVars>>

Connection ==
    part = "connection" /\ Next /\ UNCHANGED <<part, gateVars, historyVars, backlogVars, httpVars, localVars>>

Gate ==
    part = "gate" /\ GateNext /\ UNCHANGED <<part, vars, historyVars, backlogVars, httpVars, localVars>>

History ==
    part = "history" /\ HistoryNext /\ UNCHANGED <<part, vars, gateVars, backlogVars, httpVars, localVars>>

Backlog ==
    part = "backlog" /\ BacklogNext /\ UNCHANGED <<part, vars, gateVars, historyVars, httpVars, localVars>>

Http ==
    part = "http" /\ HttpNext /\ UNCHANGED <<part, vars, gateVars, historyVars, backlogVars, localVars>>

Opening ==
    part = "opening" /\ OpeningNext /\ UNCHANGED <<part, remoteVars, mergedVars, evidenceVars>>

Bank ==
    part = "bank" /\ MergedNext /\ UNCHANGED <<part, remoteVars, openingVars, evidenceVars>>

Evidence ==
    part = "evidence" /\ EvidenceNext /\ UNCHANGED <<part, remoteVars, openingVars, mergedVars>>

LuoguNext == Connection \/ Gate \/ History \/ Backlog \/ Http \/ Opening \/ Bank \/ Evidence

LuoguSpec == LuoguInit /\ [][LuoguNext]_luoguVars

-----------------------------------------------------------------------------

\* The types of the state of the component at work.
LuoguTypesOK ==
    CASE part = "connection" -> TypeOK
      [] part = "gate" -> GateTypeOK
      [] part = "history" -> HistoryTypeOK
      [] part = "backlog" -> BacklogTypeOK
      [] part = "http" -> HttpTypeOK
      [] part = "opening" -> OpeningTypeOK
      [] part = "bank" -> MergedTypeOK
      [] part = "evidence" -> EvidenceTypeOK

\* What has been stored is kept, and shown for what it is: no key of the backlog is lost, a
\* file is migrated whole, over a copy that no later one replaces, the bank shows a problem
\* of two sites as its submissions have it, and the reports on an account agree with each
\* other and with the validator that guards a plan, while an old solve is never new again.
StoreKept ==
    /\ BacklogKept /\ []OpeningSafe /\ CopiesKept /\ [](part = "bank" => BankAgrees)
    /\ [](part = "evidence" => EvidenceAgrees) /\ OldSolvesStayOld

\* Neither the gate of the source nor the transport below it sends anything before the
\* interval after what was sent earlier, or before an instant an earlier answer named.
RequestsPaced == Paced /\ HttpPaced

=============================================================================
