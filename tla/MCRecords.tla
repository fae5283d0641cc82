------------------------------ MODULE MCRecords ------------------------------
(* What a user records, and what is recorded for one, with several views and      *)
(* requests at work: a behaviour is a behaviour of one of these components, while *)
(* the others rest.                                                               *)
EXTENDS TagDecisions, Completions, PerformanceLedger, OfficialRating, TrainingPlans,
        SubmissionPages, CredentialBridge, TLC

VARIABLE part

RecordsParts == {"tags", "completions", "entries", "rating", "planning", "pages", "bridge"}

\* A component at rest starts in one state.
RecordsInit ==
    /\ TagInit /\ CompletionInit /\ EntriesInit /\ RatingInit /\ PlanningInit /\ PagesInit /\ BridgeInit
    /\ part # "rating" => handle = NoRefresh.handle
    /\ part # "planning" => pool = <<>>
    /\ part # "pages" => made = 0
    /\ part # "bridge" => credential = CHOOSE s \in Secrets : TRUE

recordsVars == <<tagVars, completionVars, entryVars, ratingVars, planningVars, pagesVars, bridgeVars>>

RecordsNext ==
    \/ /\ part = "tags" /\ TagNext
       /\ UNCHANGED <<completionVars, entryVars, ratingVars, planningVars, pagesVars, bridgeVars>>
    \/ /\ part = "completions" /\ CompletionNext
       /\ UNCHANGED <<tagVars, entryVars, ratingVars, planningVars, pagesVars, bridgeVars>>
    \/ /\ part = "entries" /\ EntriesNext
       /\ UNCHANGED <<tagVars, completionVars, ratingVars, planningVars, pagesVars, bridgeVars>>
    \/ /\ part = "rating" /\ RatingNext
       /\ UNCHANGED <<tagVars, completionVars, entryVars, planningVars, pagesVars, bridgeVars>>
    \/ /\ part = "planning" /\ PlanningNext
       /\ UNCHANGED <<tagVars, completionVars, entryVars, ratingVars, pagesVars, bridgeVars>>
    \/ /\ part = "pages" /\ PagesNext
       /\ UNCHANGED <<tagVars, completionVars, entryVars, ratingVars, planningVars, bridgeVars>>
    \/ /\ part = "bridge" /\ BridgeNext
       /\ UNCHANGED <<tagVars, completionVars, entryVars, ratingVars, planningVars, pagesVars>>

-----------------------------------------------------------------------------

\* The types of the state of the component at work.
RecordsTypesOK ==
    CASE part = "tags" -> TagTypeOK
      [] part = "completions" -> CompletionTypeOK
      [] part = "entries" -> LedgerTypeOK
      [] part = "rating" -> RatingTypeOK
      [] part = "planning" -> PlanStateOK
      [] part = "pages" -> PagesTypeOK
      [] part = "bridge" -> BridgeTypeOK
      [] OTHER -> TRUE

\* What is stored for the user agrees with itself after any sequence of edits: reviews
\* prevail over analyses, histories are in order, a contest has one entry, a plan's
\* minutes add up, and a finished scan has what it owes.
StoredAgrees ==
    /\ ManualPrevails /\ HistoryOrdered /\ OneEntryPerContest
    /\ DaysAddUp /\ NoAvoidableGap /\ ScanDelivers

\* An edit, a run or a fetch lands on what its author saw, or not at all, and takes
\* nothing back that was recorded since.
EditsLand ==
    /\ CheckedRunGoverns /\ LandsAsPreviewed /\ EditsWhatWasSeen
    /\ RatingMovesOn /\ RecordsStayTrue /\ NothingBehindTheCaller

=============================================================================
