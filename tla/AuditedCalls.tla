----------------------------- MODULE AuditedCalls -----------------------------
(***************************************************************************)
(* Paid calls behind the audit log (src/adapters/dsh/audited-client.ts)    *)
(* and the log's durable sessions (durable-audit-sessions.ts): the input   *)
(* row of a call must be durable before the provider is asked, its result  *)
(* row before the value is adopted.  Calls share one session, whose        *)
(* flushes run one after the other; a failed one leaves the disk in an     *)
(* unknown state.  Cancellation and the deadline of the whole call may     *)
(* strike at any await.                                                    *)
(***************************************************************************)
EXTENDS Integers, Sequences, FiniteSets

CONSTANTS AuditCalls     \* the calls of callJson in a behaviour

VARIABLES
    session,      \* "none", "creating", "ready"
    rows,         \* the session's events: [call, kind]
    cursor,       \* how many of them were handed to the persistence handle
    written,      \* the rows the handle took and did not lose
    durable,      \* the rows a successful flush covered
    flushes,      \* the flush calls not settled, in order: [call, kind, phase]
    poisoned,     \* the tail of the flushes was rejected
    auditLog,     \* "open", "closing", "closed"
    auditCall,    \* call -> [at, verdict, good, result]
    stopped,      \* calls cancelled or past their deadline
    streamed      \* calls the provider was asked for

auditVars == <<session, rows, cursor, written, durable, flushes, poisoned, auditLog,
               auditCall, stopped, streamed>>

IdleAudited == [at |-> "idle", verdict |-> "none", good |-> FALSE, result |-> "none"]

AuditInit ==
    /\ session = "none" /\ rows = <<>> /\ cursor = 0 /\ written = {} /\ durable = {}
    /\ flushes = <<>> /\ poisoned = FALSE /\ auditLog = "open"
    /\ auditCall = [c \in AuditCalls |-> IdleAudited]
    /\ stopped = {} /\ streamed = {}

logVars == <<session, cursor, written, durable, poisoned, auditLog>>

StopCall(c) ==
    /\ c \notin stopped
    /\ stopped' = stopped \cup {c}
    /\ UNCHANGED <<logVars, rows, flushes, auditCall, streamed>>

\* The call ends; "zero" says that nothing was spent.
Ends(c, result) ==
    auditCall' = [auditCall EXCEPT ![c].at = "done", ![c].result = result]

\* A failure before the provider was asked is known to cost nothing.
EndUnspent(c) ==
    /\ Ends(c, "zero")
    /\ UNCHANGED <<logVars, rows, flushes, stopped, streamed>>

\* callJson, auditSession: the first caller creates the session all of them share.
StartAudited(c) ==
    /\ auditCall[c].at = "idle" /\ c \notin stopped
    /\ auditCall' = [auditCall EXCEPT ![c].at = "session"]
    /\ session' = IF session = "none" /\ auditLog = "open" THEN "creating" ELSE session
    /\ UNCHANGED <<rows, cursor, written, durable, flushes, poisoned, auditLog, stopped, streamed>>

\* create: a log that closed meanwhile closes the new handle and refuses.
CreateSession(succeeds) ==
    /\ session = "creating"
    /\ session' = IF succeeds /\ auditLog = "open" THEN "ready" ELSE "none"
    /\ UNCHANGED <<rows, cursor, written, durable, flushes, poisoned, auditLog,
                   auditCall, stopped, streamed>>

EndEarly(c) ==
    /\ \/ auditCall[c].at = "idle" /\ c \in stopped
       \/ auditCall[c].at = "session" /\ (c \in stopped \/ session = "none")
    /\ EndUnspent(c)

\* A row and the flush that shall cover it; a closed log refuses the flush at once.
AppendAndFlush(c, kind, call) ==
    /\ rows' = Append(rows, [call |-> c, kind |-> kind])
    /\ IF auditLog = "open"
       THEN /\ flushes' = Append(flushes, [call |-> c, kind |-> kind, phase |-> "append"])
            /\ auditCall' = [auditCall EXCEPT ![c] = [call EXCEPT !.verdict = "pending"]]
       ELSE /\ auditCall' = [auditCall EXCEPT ![c] = [call EXCEPT !.verdict = "failed"]]
            /\ UNCHANGED flushes

\* dispatch, once the session and the capabilities are there.
RecordInput(c) ==
    /\ auditCall[c].at = "session" /\ session = "ready" /\ c \notin stopped
    /\ AppendAndFlush(c, "input", [auditCall[c] EXCEPT !.at = "input"])
    /\ UNCHANGED <<logVars, stopped, streamed>>

\* The session rejects the row itself.
RowRejected(c) ==
    /\ auditCall[c].at = "session" /\ session = "ready"
    /\ EndUnspent(c)

\* The flush at the head hands over what was logged since the last one.
Hand ==
    /\ flushes # <<>> /\ Head(flushes).phase = "append" /\ ~poisoned
    /\ written' = written \cup (cursor + 1 .. Len(rows))
    /\ cursor' = Len(rows)
    /\ flushes' = [flushes EXCEPT ![1].phase = "sync"]
    /\ UNCHANGED <<session, rows, durable, poisoned, auditLog, auditCall, stopped, streamed>>

\* The caller hears the flush only while it still waits for it.
Told(f, verdict) ==
    [auditCall EXCEPT ![f.call].verdict =
        IF auditCall[f.call].at = f.kind THEN verdict ELSE @]

FlushSucceeds ==
    /\ flushes # <<>> /\ Head(flushes).phase = "sync"
    /\ durable' = durable \cup written
    /\ auditCall' = Told(Head(flushes), "durable")
    /\ flushes' = Tail(flushes)
    /\ UNCHANGED <<session, rows, cursor, written, poisoned, auditLog, stopped, streamed>>

\* Defect: the next flush starts from a fresh tail.
TailAfterReset == poisoned

\* A failed flush poisons the ones that follow.
TailAfterFailure == TRUE

\* What the handle took before a failure may be gone.
FlushFails ==
    /\ flushes # <<>> /\ ~poisoned
    /\ \E kept \in SUBSET written : durable \subseteq kept /\ written' = kept
    /\ poisoned' = TailAfterFailure
    /\ auditCall' = Told(Head(flushes), "failed")
    /\ flushes' = Tail(flushes)
    /\ UNCHANGED <<session, rows, cursor, durable, auditLog, stopped, streamed>>

FlushRefused ==
    /\ flushes # <<>> /\ poisoned
    /\ auditCall' = Told(Head(flushes), "failed")
    /\ flushes' = Tail(flushes)
    /\ UNCHANGED <<logVars, rows, stopped, streamed>>

\* No row is appended to a log that is not usable.
EndUndurable(c) ==
    /\ auditCall[c].at = "input"
    /\ \/ auditCall[c].verdict = "failed"
       \/ auditCall[c].verdict = "pending" /\ c \in stopped
    /\ EndUnspent(c)

\* A stop seen after the flush, or a request too large for the model, is recorded and
\* costs nothing.
RefuseCall(c) ==
    /\ auditCall[c].at = "input" /\ auditCall[c].verdict = "durable"
    /\ AppendAndFlush(c, "refusal", [auditCall[c] EXCEPT !.at = "refusal"])
    /\ UNCHANGED <<logVars, stopped, streamed>>

\* The flush of a refusal is waited for only within its budget.
EndRefused(c) ==
    /\ auditCall[c].at = "refusal"
    /\ EndUnspent(c)

\* Defect: the stream opens while the flush is still under way.
ClearedOnce(c) == auditCall[c].verdict \in {"pending", "durable"}

Cleared(c) == auditCall[c].verdict = "durable"

Stream(c) ==
    /\ auditCall[c].at = "input" /\ Cleared(c) /\ c \notin stopped
    /\ streamed' = streamed \cup {c}
    /\ auditCall' = [auditCall EXCEPT ![c].at = "streaming"]
    /\ UNCHANGED <<logVars, rows, flushes, stopped>>

\* The stream ended, well or not; its row is logged and flushed.
RecordResult(c, good) ==
    /\ auditCall[c].at = "streaming"
    /\ good => c \notin stopped
    /\ AppendAndFlush(c, "result", [auditCall[c] EXCEPT !.at = "result", !.good = good])
    /\ UNCHANGED <<logVars, stopped, streamed>>

\* The value is adopted only while the call is live and its row durable.
Adopt(c) ==
    /\ auditCall[c].at = "result" /\ auditCall[c].verdict = "durable"
    /\ auditCall[c].good /\ c \notin stopped
    /\ Ends(c, "ok")
    /\ UNCHANGED <<logVars, rows, flushes, stopped, streamed>>

EndSpent(c) ==
    /\ \/ auditCall[c].at = "streaming"        \* the log rejects the result row
       \/ /\ auditCall[c].at = "result"
          /\ \/ c \in stopped \/ auditCall[c].verdict = "failed"
             \/ auditCall[c].verdict = "durable" /\ ~auditCall[c].good
    /\ Ends(c, "spent")
    /\ UNCHANGED <<logVars, rows, flushes, stopped, streamed>>

\* close: refuses what comes, and closes the handle after the flushes it has.
CloseAudit ==
    /\ auditLog = "open" /\ auditLog' = "closing"
    /\ UNCHANGED <<session, rows, cursor, written, durable, flushes, poisoned,
                   auditCall, stopped, streamed>>

CloseHandle ==
    /\ auditLog = "closing" /\ session # "creating" /\ flushes = <<>>
    /\ auditLog' = "closed"
    /\ UNCHANGED <<session, rows, cursor, written, durable, flushes, poisoned,
                   auditCall, stopped, streamed>>

AuditNext ==
    \/ \E c \in AuditCalls :
          \/ StopCall(c) \/ StartAudited(c) \/ EndEarly(c)
          \/ RecordInput(c) \/ RowRejected(c) \/ EndUndurable(c)
          \/ RefuseCall(c) \/ EndRefused(c) \/ Stream(c)
          \/ \E good \in BOOLEAN : RecordResult(c, good)
          \/ Adopt(c) \/ EndSpent(c)
    \/ \E succeeds \in BOOLEAN : CreateSession(succeeds)
    \/ Hand
    \/ FlushSucceeds
    \/ FlushFails
    \/ FlushRefused
    \/ CloseAudit
    \/ CloseHandle

AuditSpec == AuditInit /\ [][AuditNext]_auditVars

-----------------------------------------------------------------------------

AuditTypeOK ==
    /\ session \in {"none", "creating", "ready"}
    /\ rows \in Seq([call : AuditCalls, kind : {"input", "refusal", "result"}])
    /\ cursor \in 0 .. Len(rows)
    /\ written \subseteq 1 .. cursor /\ durable \subseteq written
    /\ flushes \in Seq([call : AuditCalls, kind : {"input", "refusal", "result"},
                        phase : {"append", "sync"}])
    /\ poisoned \in BOOLEAN /\ auditLog \in {"open", "closing", "closed"}
    /\ auditCall \in [AuditCalls -> [
          at : {"idle", "session", "input", "refusal", "streaming", "result", "done"},
          verdict : {"none", "pending", "durable", "failed"}, good : BOOLEAN,
          result : {"none", "zero", "spent", "ok"}]]
    /\ stopped \subseteq AuditCalls /\ streamed \subseteq AuditCalls

Kept(c, kind) == \E i \in durable : rows[i] = [call |-> c, kind |-> kind]

\* Whatever flush fails and whoever else writes to the log: the provider is never asked
\* for a call whose input row may be lost, a value is adopted only with its result row
\* kept, and a call reported to have cost nothing was never sent (dispatch).
CallsAudited ==
    \A c \in AuditCalls :
        /\ c \in streamed => Kept(c, "input")
        /\ auditCall[c].result = "ok" => Kept(c, "result")
        /\ auditCall[c].result = "zero" => c \notin streamed
=============================================================================
