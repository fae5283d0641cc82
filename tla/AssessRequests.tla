--------------------------- MODULE AssessRequests ---------------------------
(***************************************************************************)
(* The paid assessments (src/application/assessment-service.ts): a free    *)
(* preparation, one reserved call that the service owns and settles on its *)
(* own, and a close() that waits for both.                                 *)
(*                                                                         *)
(* The rows outlive the service: the process may end at any moment and a   *)
(* next one starts over them.  Leases lapse, the settings or the evidence  *)
(* move (`basis` is the version of both), the user cancels, the store      *)
(* refuses a write between any two steps.                                  *)
(***************************************************************************)
EXTENDS Naturals, FiniteSets

CONSTANTS
    ReportIds,     \* request ids
    NoReportId,
    ReportCalls,   \* calls of prepare() and run() under way at once
    ReportQuota,   \* maxCallsPer24Hours
    MaxBasis       \* bound: moves of the basis

ASSUME ReportAssumption ==
    /\ NoReportId \notin ReportIds
    /\ ReportQuota \in Nat /\ MaxBasis \in Nat

VARIABLES
    report,      \* the durable row of each request id
    basis,       \* version of the settings and of the evidence
    reportCall,  \* operations: of each call where it is
    job,         \* jobs: the dispatch the service owns for a request
    desk,        \* "open", "closing", "draining" (the calls are gone) or "closed"
    reportPaid   \* ghost: how often each request was handed to the model

reportVars == <<report, basis, reportCall, job, desk, reportPaid>>

\* `live` is whether the lease of a reservation has not expired, `recent` whether the
\* row is inside the quota window.
NoReport == [status |-> "absent", live |-> FALSE, recent |-> FALSE, basis |-> 0,
             usage |-> "none", report |-> FALSE]
NoReportCall == [at |-> "idle", id |-> NoReportId, basis |-> 0]
NoJob == [at |-> "none", cancelled |-> FALSE, answer |-> "none"]

ReportInit ==
    /\ report = [r \in ReportIds |-> NoReport]
    /\ basis = 0
    /\ reportCall = [c \in ReportCalls |-> NoReportCall]
    /\ job = [r \in ReportIds |-> NoJob]
    /\ desk = "open"
    /\ reportPaid = [r \in ReportIds |-> 0]

CallMoves(c, p) == reportCall' = [reportCall EXCEPT ![c] = p]

-----------------------------------------------------------------------------
(* prepare, run and cancel                                                 *)

Capture(c, r) ==
    /\ desk = "open" /\ reportCall[c].at = "idle" /\ report[r].status = "absent"
    /\ CallMoves(c, [at |-> "captured", id |-> r, basis |-> basis])
    /\ UNCHANGED <<report, basis, job, desk, reportPaid>>

\* A double preparation replays the row of the winner.
SaveCapture(c) ==
    LET p == reportCall[c]
    IN  /\ p.at = "captured"
        /\ report' = IF report[p.id].status # "absent" THEN report
                     ELSE [report EXCEPT ![p.id] = [NoReport EXCEPT !.status = "prepared", !.basis = p.basis]]
        /\ CallMoves(c, NoReportCall)
        /\ UNCHANGED <<basis, job, desk, reportPaid>>

\* run() proves the basis before it reserves.
RunReport(c, r) ==
    /\ desk = "open" /\ reportCall[c].at = "idle"
    /\ report[r].status = "prepared" /\ report[r].basis = basis
    /\ CallMoves(c, [NoReportCall EXCEPT !.at = "asking", !.id = r])
    /\ UNCHANGED <<report, basis, job, desk, reportPaid>>

ReportLapsed(r) == report[r].status = "reserved" /\ ~report[r].live

ReportsRecovered ==
    [r \in ReportIds |-> IF ReportLapsed(r) THEN [report[r] EXCEPT !.status = "uncertain"] ELSE report[r]]

ReportCharged == {r \in ReportIds : report[r].status \in {"reserved", "settled", "uncertain"}}

ReportBusy == \E q \in ReportIds : report[q].status = "reserved" /\ report[q].live

ReportQuotaUsed == Cardinality({q \in ReportCharged : report[q].recent}) >= ReportQuota

ReserveReport(c) ==
    LET r == reportCall[c].id
    IN  /\ reportCall[c].at = "asking" /\ desk = "open"
        /\ report[r].status = "prepared" /\ report[r].basis = basis
        /\ ~ReportBusy /\ ~ReportQuotaUsed
        /\ report' = [ReportsRecovered EXCEPT ![r].status = "reserved", ![r].live = TRUE, ![r].recent = TRUE]
        /\ CallMoves(c, [reportCall[c] EXCEPT !.at = "reserved"])
        /\ UNCHANGED <<basis, job, desk, reportPaid>>

\* Another call holds the source or the quota is used: the recovery is committed.
RefuseReport(c) ==
    /\ reportCall[c].at = "asking" /\ (ReportBusy \/ ReportQuotaUsed)
    /\ report[reportCall[c].id].status = "prepared"
    /\ report' = ReportsRecovered
    /\ CallMoves(c, NoReportCall)
    /\ UNCHANGED <<basis, job, desk, reportPaid>>

\* A refusal or a failure that writes nothing: cancelled, closing, changed, not ours.
LeaveDesk(c) ==
    /\ reportCall[c].at \in {"captured", "asking"}
    /\ CallMoves(c, NoReportCall)
    /\ UNCHANGED <<report, basis, job, desk, reportPaid>>

\* startDispatch and the first synchronous part of dispatch: a closing service makes
\* no call any more.
StartJob(c) ==
    LET r == reportCall[c].id
    IN  /\ reportCall[c].at = "reserved"
        /\ CallMoves(c, NoReportCall)
        /\ IF desk = "open"
           THEN job' = [job EXCEPT ![r] = [NoJob EXCEPT !.at = "generating"]]
                /\ reportPaid' = [reportPaid EXCEPT ![r] = @ + 1]
           ELSE job' = [job EXCEPT ![r] = [NoJob EXCEPT !.at = "unpaid"]] /\ UNCHANGED reportPaid
        /\ UNCHANGED <<report, basis, desk>>

\* A preparation is abandoned; of a reservation only the owned job is told, and a
\* reservation whose job is not there yet goes on.
CancelReport(r) ==
    /\ desk = "open"
    /\ \/ /\ report[r].status = "prepared"
          /\ report' = [report EXCEPT ![r].status = "cancelled", ![r].usage = "zero"]
          /\ UNCHANGED job
       \/ /\ report[r].status = "reserved" /\ job[r].at # "none" /\ ~job[r].cancelled
          /\ job' = [job EXCEPT ![r].cancelled = TRUE]
          /\ UNCHANGED report
    /\ UNCHANGED <<basis, reportCall, desk, reportPaid>>

-----------------------------------------------------------------------------
(* The owned call and its settlement                                       *)

AnswerJob(r) ==
    /\ job[r].at = "generating"
    /\ \E answer \in {"threw", "failed", "report"} :
        job' = [job EXCEPT ![r].at = "answered", ![r].answer = answer]
    /\ UNCHANGED <<report, basis, reportCall, desk, reportPaid>>

\* Defect: the capture of the reservation is good enough.
ReportableOnceReserved(r) == job[r].answer = "report" /\ ~job[r].cancelled

\* reportBasisProblem, inside the settlement's transaction.
Reportable(r) == job[r].answer = "report" /\ ~job[r].cancelled /\ report[r].basis = basis

\* Defect: a cancelled call is settled as if it had not been made.
CancelledIsCostless(r) == IF job[r].cancelled THEN {<<"settled", "zero">>} ELSE {<<"uncertain", "none">>}

\* A throw, or a failure or an answer without a usage, has an unknown cost.
Outcomes(r) ==
    IF job[r].at = "unpaid" THEN {<<"settled", "zero">>}
    ELSE {<<"uncertain", "none">>} \cup (IF job[r].answer = "threw" THEN {} ELSE {<<"settled", "known">>})

\* The row is read again: what is not reserved any more is left as it is.
SettleJob(r) ==
    /\ job[r].at \in {"unpaid", "answered"}
    /\ IF report[r].status # "reserved" THEN UNCHANGED report
       ELSE \E outcome \in Outcomes(r) :
            report' = [report EXCEPT ![r].status = outcome[1], ![r].usage = outcome[2], ![r].live = FALSE,
                                     ![r].report = outcome[2] = "known" /\ Reportable(r)]
    /\ job' = [job EXCEPT ![r] = NoJob]
    /\ UNCHANGED <<basis, reportCall, desk, reportPaid>>

\* The store refuses the settlement: recorded for the report of close().
FailJob(r) ==
    /\ job[r].at \in {"unpaid", "answered"}
    /\ job' = [job EXCEPT ![r] = NoJob]
    /\ UNCHANGED <<report, basis, reportCall, desk, reportPaid>>

-----------------------------------------------------------------------------
(* close                                                                   *)

JobsCancelled == [r \in ReportIds |-> IF job[r].at = "none" THEN NoJob ELSE [job[r] EXCEPT !.cancelled = TRUE]]

CloseDesk ==
    /\ desk = "open" /\ desk' = "closing"
    /\ job' = JobsCancelled
    /\ UNCHANGED <<report, basis, reportCall, reportPaid>>

\* Defect: close() waits for the jobs only.
JobsGone == \A r \in ReportIds : job[r].at = "none"

CallsGone == \A c \in ReportCalls : reportCall[c].at = "idle"

DrainCalls ==
    /\ desk = "closing" /\ CallsGone
    /\ desk' = "draining"
    /\ job' = JobsCancelled
    /\ UNCHANGED <<report, basis, reportCall, reportPaid>>

DeskCloses ==
    /\ desk = "draining" /\ \A r \in ReportIds : job[r].at = "none"
    /\ desk' = "closed"
    /\ UNCHANGED <<report, basis, reportCall, job, reportPaid>>

-----------------------------------------------------------------------------
(* What happens around the service                                         *)

RecoverReports ==
    /\ desk = "open" /\ report' = ReportsRecovered
    /\ UNCHANGED <<basis, reportCall, job, desk, reportPaid>>

LapseReport(r) ==
    /\ report[r].status = "reserved" /\ report[r].live
    /\ report' = [report EXCEPT ![r].live = FALSE]
    /\ UNCHANGED <<basis, reportCall, job, desk, reportPaid>>

\* The quota window is far longer than a lease.
AgeReport(r) ==
    /\ report[r].recent /\ ~report[r].live
    /\ report' = [report EXCEPT ![r].recent = FALSE]
    /\ UNCHANGED <<basis, reportCall, job, desk, reportPaid>>

MoveBasis ==
    /\ basis < MaxBasis /\ basis' = basis + 1
    /\ UNCHANGED <<report, reportCall, job, desk, reportPaid>>

\* The process ends and the next one opens a service of its own.
RestartDesk ==
    /\ desk' = "open"
    /\ reportCall' = [c \in ReportCalls |-> NoReportCall]
    /\ job' = [r \in ReportIds |-> NoJob]
    /\ UNCHANGED <<report, basis, reportPaid>>

ReportNext ==
    \/ CloseDesk
    \/ DrainCalls
    \/ DeskCloses
    \/ RecoverReports
    \/ MoveBasis
    \/ RestartDesk
    \/ \E r \in ReportIds :
        \/ CancelReport(r)
        \/ AnswerJob(r)
        \/ SettleJob(r)
        \/ FailJob(r)
        \/ LapseReport(r)
        \/ AgeReport(r)
    \/ \E c \in ReportCalls :
        \/ SaveCapture(c)
        \/ ReserveReport(c)
        \/ RefuseReport(c)
        \/ LeaveDesk(c)
        \/ StartJob(c)
        \/ \E r \in ReportIds : Capture(c, r) \/ RunReport(c, r)

ReportSpec == ReportInit /\ [][ReportNext]_reportVars

-----------------------------------------------------------------------------

ReportTypeOK ==
    /\ report \in [ReportIds -> [
            status : {"absent", "prepared", "reserved", "settled", "uncertain", "cancelled"},
            live : BOOLEAN, recent : BOOLEAN, basis : 0 .. MaxBasis,
            usage : {"none", "known", "zero"}, report : BOOLEAN]]
    /\ basis \in 0 .. MaxBasis
    /\ reportCall \in [ReportCalls -> [at : {"idle", "captured", "asking", "reserved"},
            id : ReportIds \cup {NoReportId}, basis : 0 .. MaxBasis]]
    /\ job \in [ReportIds -> [at : {"none", "unpaid", "generating", "answered"}, cancelled : BOOLEAN,
            answer : {"none", "threw", "failed", "report"}]]
    /\ desk \in {"open", "closing", "draining", "closed"}
    /\ reportPaid \in [ReportIds -> Nat]

ReportLedger == INSTANCE PaidLedger WITH
    Requests <- ReportIds, Late <- FALSE, charged <- ReportCharged, paid <- reportPaid,
    booked <- [r \in ReportIds |->
        CASE report[r].status = "settled" -> report[r].usage
          [] report[r].status = "uncertain" -> "unknown"
          [] OTHER -> "open"]

\* An assessment is charged before it is asked for, asked for at most once whatever
\* calls, restarts and recoveries race, never free again, and never booked as costless
\* after it was asked for (reserve, dispatch, commitSettlement).
ReportsAreLedgered == ReportLedger!LedgerSpec

\* A report is stored only while what it was captured from still stands and nobody
\* cancelled it (commitDispatchOutcome, reportBasisProblem).
ReportsStoredFresh ==
    [][\A r \in ReportIds : ~report[r].report /\ report'[r].report =>
        report[r].basis = basis /\ ~job[r].cancelled]_reportVars

\* When close() has returned, nothing of the service can write any more: no call that
\* was being admitted slips a job past the drain (drain, withOperation).
DeskIsClear ==
    desk = "closed" => CallsGone /\ \A r \in ReportIds : job[r].at = "none"
=============================================================================
