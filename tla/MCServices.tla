------------------------------ MODULE MCServices ------------------------------
(* The services around the paid calls, and those that keep what a user records,   *)
(* in one run: a behaviour is a behaviour of one of them, while the others rest.  *)
EXTENDS PlanRequests, CoachRequests, AssessRequests, ModelOperations, AuditedCalls,
        MaterialHead, MCRecords

CONSTANTS r1, r2, c1, c2, e1, e2

Requesters ==
    Permutations({r1, r2}) \cup Permutations({c1, c2}) \cup Permutations({e1, e2})

ServicesInit ==
    /\ part \in {"plans", "hints", "reports", "operations", "audit", "material"} \cup RecordsParts
    /\ PlanInit /\ HintInit /\ ReportInit /\ OpsInit /\ AuditInit /\ MaterialInit
    /\ RecordsInit

paidVars == <<planVars, hintVars, reportVars, opsVars, auditVars>>
servicesVars == <<part, paidVars, materialVars, recordsVars>>

Plans ==
    /\ part = "plans" /\ PlanNext
    /\ UNCHANGED <<part, hintVars, reportVars, opsVars, auditVars, materialVars, recordsVars>>

Hints ==
    /\ part = "hints" /\ HintNext
    /\ UNCHANGED <<part, planVars, reportVars, opsVars, auditVars, materialVars, recordsVars>>

Reports ==
    /\ part = "reports" /\ ReportNext
    /\ UNCHANGED <<part, planVars, hintVars, opsVars, auditVars, materialVars, recordsVars>>

Operations ==
    /\ part = "operations" /\ OpsNext
    /\ UNCHANGED <<part, planVars, hintVars, reportVars, auditVars, materialVars, recordsVars>>

Audit ==
    /\ part = "audit" /\ AuditNext
    /\ UNCHANGED <<part, planVars, hintVars, reportVars, opsVars, materialVars, recordsVars>>

Material ==
    /\ part = "material" /\ MaterialNext
    /\ UNCHANGED <<part, paidVars, recordsVars>>

UserRecords ==
    RecordsNext /\ UNCHANGED <<part, paidVars, materialVars>>

ServicesNext ==
    Plans \/ Hints \/ Reports \/ Operations \/ Audit \/ Material \/ UserRecords

ServicesSpec == ServicesInit /\ [][ServicesNext]_servicesVars

-----------------------------------------------------------------------------

\* The types of the state of the component at work.
ServicesTypesOK ==
    CASE part = "plans" -> PlanTypeOK
      [] part = "hints" -> HintTypeOK
      [] part = "reports" -> ReportTypeOK
      [] part = "operations" -> OpsTypeOK
      [] part = "audit" -> AuditTypeOK
      [] part = "material" -> MaterialTypeOK
      [] OTHER -> RecordsTypesOK

\* The plans, hints and assessments implement one ledger of paid calls: nothing is
\* charged twice, no charge is lost by a cancellation, a crash or a late answer, and an
\* assessment desk that reports itself closed has no call left at work.
PaidCallsSettled ==
    PlansAreLedgered /\ HintsAreLedgered /\ ReportsAreLedgered /\ []DeskIsClear

\* No plan, hint or assessment is stored from an answer that its inputs outdated while
\* the provider worked, and no hint above the levels the user has earned.
AnswersFresh ==
    PlansStoredFresh /\ HintsStoredFresh /\ ReportsStoredFresh /\ []HintsEarned

=============================================================================
