--------------------------- MODULE ServicesProofs ---------------------------
(***************************************************************************)
(* Proofs about the services that pay for a model call, for any number of  *)
(* requests and calls: the audited client under them, the planning,        *)
(* coaching and assessment services, and the run of all of them together.  *)
(*                                                                         *)
(* Each service implements PaidLedger: its rows that were ever reserved    *)
(* are the charged requests, its dispatches the payments, and a row's      *)
(* status and usage its booked cost.  A step maps to Pay, Book, Recover,   *)
(* Charge or a stutter because of three facts that the service's invariant *)
(* keeps: a call at work holds a row that is charged and not settled, no   *)
(* two calls hold the same row, and only what is charged has been paid.    *)
(* That an answer is stored fresh is a step property: the transaction that *)
(* stores it compares what it was reserved on with what is current.        *)
(*                                                                         *)
(* That a flush reported as durable covers the row of the call that asked  *)
(* for it is not seen from the verdict: FlushesCover says that every flush *)
(* under way has its row in the log, that only the first one has handed    *)
(* its row over, and that an unpoisoned log has lost nothing of that.      *)
(***************************************************************************)
EXTENDS MCServices, TLAPS

-----------------------------------------------------------------------------
(* The audited calls                                                       *)

\* The row a flush waits for, and whether it is in the log or was handed to the disk.
AuditRow(f) == [call |-> f.call, kind |-> f.kind]
Logged(f) == \E i \in 1 .. Len(rows) : rows[i] = AuditRow(f)
Handed(f) == \E i \in written : rows[i] = AuditRow(f)

\* Every flush has its row logged, and the one that syncs has it handed over.
FlushesCover ==
    /\ ~poisoned => 1 .. cursor \subseteq written
    /\ \A n \in 1 .. Len(flushes) :
        /\ Logged(flushes[n])
        /\ flushes[n].phase = "sync" => n = 1 /\ ~poisoned /\ Handed(flushes[n])

\* A call is told that its row is durable only when the row is kept.
VerdictsTrue ==
    \A c \in AuditCalls : auditCall[c].verdict = "durable" =>
        /\ auditCall[c].at = "input" => Kept(c, "input")
        /\ auditCall[c].at = "result" => Kept(c, "result")

\* The provider is asked after the input row, and a result ends the call.
CallsOrdered ==
    \A c \in AuditCalls :
        /\ c \in streamed => auditCall[c].at \in {"streaming", "result", "done"}
        /\ auditCall[c].result # "none" => auditCall[c].at = "done"

AuditInv == AuditTypeOK /\ FlushesCover /\ VerdictsTrue /\ CallsOrdered /\ CallsAudited

\* The values of the log and of a call.
AuditKinds == {"input", "refusal", "result"}
LogRows == [call : AuditCalls, kind : AuditKinds]
AuditFlushes == [call : AuditCalls, kind : AuditKinds, phase : {"append", "sync"}]
AuditCallStates ==
    [at : {"idle", "session", "input", "refusal", "streaming", "result", "done"},
     verdict : {"none", "pending", "durable", "failed"}, good : BOOLEAN,
     result : {"none", "zero", "spent", "ok"}]

-----------------------------------------------------------------------------
(* The log                                                                 *)

\* The log grows at its end.
LogGrows == rows' = rows \/ \E row \in LogRows : rows' = Append(rows, row)

\* A row that is logged stays where it is.
LEMMA RowsStay ==
    ASSUME rows \in Seq(LogRows), LogGrows
    PROVE  /\ rows' \in Seq(LogRows) /\ Len(rows) \in Nat /\ Len(rows') \in Nat
           /\ Len(rows) <= Len(rows')
           /\ \A i \in 1 .. Len(rows) : rows'[i] = rows[i]
  BY DEF LogGrows

\* What is kept stays kept.
LEMMA KeptStays ==
    ASSUME AuditTypeOK, LogGrows, durable \subseteq durable', NEW c, NEW kind, Kept(c, kind)
    PROVE  Kept(c, kind)'
  <1>1. rows \in Seq(LogRows) /\ durable \subseteq 1 .. Len(rows)
    BY DEF AuditTypeOK, LogRows, AuditKinds
  <1> QED BY <1>1, RowsStay DEF Kept

\* One call goes on: what it is told must be so, and the other calls know what they knew.
LEMMA AuditCallStep ==
    ASSUME AuditInv, LogGrows, durable \subseteq durable', NEW c \in AuditCalls, NEW entry \in AuditCallStates,
           auditCall' = [auditCall EXCEPT ![c] = entry], streamed' \in {streamed, streamed \cup {c}},
           entry.verdict = "durable" /\ entry.at = "input" => Kept(c, "input")',
           entry.verdict = "durable" /\ entry.at = "result" => Kept(c, "result")',
           c \in streamed' => entry.at \in {"streaming", "result", "done"} /\ Kept(c, "input")',
           entry.result # "none" => entry.at = "done",
           entry.result = "ok" => Kept(c, "result")',
           entry.result = "zero" => c \notin streamed'
    PROVE  /\ auditCall' \in [AuditCalls -> AuditCallStates] /\ streamed' \subseteq AuditCalls
           /\ VerdictsTrue' /\ CallsOrdered' /\ CallsAudited'
  <1>1. auditCall \in [AuditCalls -> AuditCallStates] /\ streamed \subseteq AuditCalls
    BY DEF AuditInv, AuditTypeOK, AuditCallStates
  <1>2. auditCall' \in [AuditCalls -> AuditCallStates] /\ streamed' \subseteq AuditCalls BY <1>1
  <1>3. \A d \in AuditCalls : d # c => auditCall'[d] = auditCall[d] /\ (d \in streamed' <=> d \in streamed)
    BY <1>1
  <1>4. auditCall'[c] = entry BY <1>1
  <1>5. \A d \in AuditCalls, kind \in {"input", "result"} : Kept(d, kind) => Kept(d, kind)'
    BY KeptStays DEF AuditInv
  <1>6. VerdictsTrue'
    BY <1>3, <1>4, <1>5 DEF AuditInv, VerdictsTrue
  <1>7. CallsOrdered' BY <1>3, <1>4 DEF AuditInv, CallsOrdered
  <1>8. CallsAudited'
    BY <1>3, <1>4, <1>5 DEF AuditInv, CallsAudited
  <1> QED BY <1>2, <1>6, <1>7, <1>8

\* A step that changes neither a call nor what was streamed leaves every call what it knows.
LEMMA CallsRest ==
    ASSUME AuditInv, LogGrows, durable \subseteq durable', UNCHANGED <<auditCall, streamed>>
    PROVE  VerdictsTrue' /\ CallsOrdered' /\ CallsAudited'
  <1>1. \A d \in AuditCalls, kind \in {"input", "result"} : Kept(d, kind) => Kept(d, kind)'
    BY KeptStays DEF AuditInv
  <1>2. VerdictsTrue' /\ CallsOrdered' BY <1>1 DEF AuditInv, VerdictsTrue, CallsOrdered
  <1>3. CallsAudited' BY <1>1 DEF AuditInv, CallsAudited
  <1> QED BY <1>2, <1>3

\* What a step leaves alone when it touches no row, flush or session.
LogRests == UNCHANGED <<session, rows, cursor, written, durable, flushes, poisoned, auditLog>>

\* The type invariant, in the two halves a step disturbs.
LogTypes ==
    /\ session \in {"none", "creating", "ready"} /\ rows \in Seq(LogRows) /\ cursor \in 0 .. Len(rows)
    /\ written \subseteq 1 .. cursor /\ durable \subseteq written
    /\ flushes \in Seq(AuditFlushes) /\ poisoned \in BOOLEAN /\ auditLog \in {"open", "closing", "closed"}

CallTypes ==
    /\ auditCall \in [AuditCalls -> AuditCallStates]
    /\ stopped \subseteq AuditCalls /\ streamed \subseteq AuditCalls

\* The type invariant in two parts, one for the log and one for the calls.
LEMMA AuditTyped == AuditTypeOK <=> LogTypes /\ CallTypes
  BY DEF AuditTypeOK, LogTypes, CallTypes, LogRows, AuditFlushes, AuditKinds, AuditCallStates

\* The types hold after a step as before it.
LEMMA AuditTypedAgain == LogTypes' /\ CallTypes' => AuditTypeOK'
  BY DEF AuditTypeOK, LogTypes, CallTypes, LogRows, AuditFlushes, AuditKinds, AuditCallStates

\* With the log at rest its flushes cover what they covered.
LEMMA LogStep == ASSUME AuditInv, LogRests PROVE LogTypes' /\ FlushesCover'
  <1>1. LogTypes BY AuditTyped DEF AuditInv
  <1>2. LogTypes' BY <1>1 DEF LogTypes, LogRests
  <1>3. FlushesCover' BY DEF AuditInv, FlushesCover, LogRests, Logged, Handed
  <1> QED BY <1>2, <1>3

\* A row is logged with the flush that shall cover it, or without one once the log closed.
LEMMA AppendStep ==
    ASSUME AuditInv, NEW c \in AuditCalls, NEW kind \in AuditKinds, NEW entry,
           AppendAndFlush(c, kind, entry), UNCHANGED logVars
    PROVE  LogTypes' /\ FlushesCover' /\ LogGrows
  <1> DEFINE row == [call |-> c, kind |-> kind]
             f == [call |-> c, kind |-> kind, phase |-> "append"]
  <1>1. LogTypes BY AuditTyped DEF AuditInv
  <1>2. row \in LogRows /\ f \in AuditFlushes /\ AuditRow(f) = row BY DEF LogRows, AuditFlushes, AuditRow
  <1>3. rows' = Append(rows, row) /\ flushes' \in {flushes, Append(flushes, f)}
    BY DEF AppendAndFlush
  <1>4. LogGrows BY <1>2, <1>3 DEF LogGrows
  <1>5. f.phase = "append" OBVIOUS
  <1> HIDE DEF row, f
  <1>6. LogTypes'
    <2>1. rows' \in Seq(LogRows) /\ Len(rows') = Len(rows) + 1 /\ Len(rows) \in Nat
      BY <1>1, <1>2, <1>3 DEF LogTypes
    <2>2. flushes' \in Seq(AuditFlushes)
      <3>1. flushes \in Seq(AuditFlushes) /\ f \in AuditFlushes BY <1>1, <1>2 DEF LogTypes
      <3>2. Append(flushes, f) \in Seq(AuditFlushes) BY <3>1
      <3> QED BY <3>1, <3>2, <1>3
    <2> QED BY <1>1, <2>1, <2>2 DEF LogTypes, logVars
  <1>7. FlushesCover'
    <2>1. rows \in Seq(LogRows) /\ written \subseteq 1 .. Len(rows) /\ flushes \in Seq(AuditFlushes)
      BY <1>1 DEF LogTypes
    <2>2. \A i \in 1 .. Len(rows) : i \in 1 .. Len(rows') /\ rows'[i] = rows[i]
      BY <2>1, <1>4, RowsStay
    <2>3. Len(rows') \in 1 .. Len(rows') /\ rows'[Len(rows')] = row
      BY <2>1, <1>2, <1>3
    <2>4. \A g \in AuditFlushes : Logged(g) => Logged(g)' BY <2>2 DEF Logged
    <2>5. \A g \in AuditFlushes : Handed(g) => Handed(g)' BY <2>1, <2>2 DEF Handed, logVars
    <2>6. Logged(f)' BY <1>2, <2>3 DEF Logged
    <2>7. ASSUME NEW n \in 1 .. Len(flushes')
          PROVE  \/ n \in 1 .. Len(flushes) /\ flushes'[n] = flushes[n] /\ flushes[n] \in AuditFlushes
                 \/ flushes'[n] = f
      <3>1. CASE flushes' = flushes BY <3>1, <2>1, <2>7
      <3>2. CASE flushes' = Append(flushes, f)
        <4>1. Len(flushes') = Len(flushes) + 1 /\ Len(flushes) \in Nat BY <3>2, <2>1
        <4>2. CASE n \in 1 .. Len(flushes) BY <4>2, <3>2, <2>1
        <4>3. CASE n \notin 1 .. Len(flushes)
          <5>1. n = Len(flushes) + 1 BY <4>1, <4>3, <2>7
          <5> QED BY <5>1, <3>2, <2>1
        <4> QED BY <4>2, <4>3
      <3> QED BY <1>3, <3>1, <3>2
    <2>8. ASSUME NEW n \in 1 .. Len(flushes')
          PROVE  /\ Logged(flushes[n])'
                 /\ (flushes[n].phase = "sync" => n = 1 /\ ~poisoned /\ Handed(flushes[n]))'
      <3>1. CASE n \in 1 .. Len(flushes) /\ flushes'[n] = flushes[n] /\ flushes[n] \in AuditFlushes
        <4>1. Logged(flushes[n]) /\ (flushes[n].phase = "sync" => n = 1 /\ ~poisoned /\ Handed(flushes[n]))
          BY <3>1 DEF AuditInv, FlushesCover
        <4>2. Logged(flushes[n])' BY <4>1, <3>1, <2>4 DEF Logged
        <4>3. Handed(flushes[n]) => Handed(flushes[n])' BY <3>1, <2>5 DEF Handed
        <4> QED BY <4>1, <4>2, <4>3, <3>1 DEF logVars
      <3>2. CASE flushes'[n] = f
        <4>1. Logged(flushes[n])' BY <3>2, <2>6 DEF Logged
        <4> QED BY <4>1, <3>2, <1>5
      <3> QED BY <2>7, <3>1, <3>2
    <2>9. ~poisoned' => 1 .. cursor' \subseteq written' BY DEF AuditInv, FlushesCover, logVars
    <2> QED BY <2>8, <2>9 DEF FlushesCover
  <1> QED BY <1>4, <1>6, <1>7

-----------------------------------------------------------------------------
(* The steps                                                               *)

\* A call ends without having been sent.
LEMMA EndUnspentKeeps ==
    ASSUME AuditInv, NEW c \in AuditCalls, EndUnspent(c),
           auditCall[c].at \in {"idle", "session", "input", "refusal"}
    PROVE  AuditInv'
  <1> DEFINE entry == [auditCall[c] EXCEPT !.at = "done", !.result = "zero"]
  <1>1. CallTypes /\ auditCall[c] \in AuditCallStates BY AuditTyped DEF AuditInv, CallTypes
  <1>2. entry \in AuditCallStates /\ entry.at = "done" /\ entry.result = "zero" BY <1>1 DEF AuditCallStates
  <1>3. auditCall' = [auditCall EXCEPT ![c] = entry] BY <1>1 DEF EndUnspent, Ends, CallTypes
  <1>4. c \notin streamed /\ UNCHANGED <<stopped, streamed>> BY DEF AuditInv, CallsOrdered, EndUnspent
  <1>5. LogRests /\ LogGrows /\ durable \subseteq durable'
    BY DEF EndUnspent, logVars, LogRests, LogGrows
  <1> HIDE DEF entry
  <1>6. CallTypes' /\ VerdictsTrue' /\ CallsOrdered' /\ CallsAudited'
    BY <1>1, <1>2, <1>3, <1>4, <1>5, AuditCallStep DEF CallTypes
  <1> QED BY <1>5, <1>6, LogStep, AuditTypedAgain DEF AuditInv

\* A call ends after it was sent.
LEMMA EndSpentKeeps ==
    ASSUME AuditInv, NEW c \in AuditCalls, NEW result \in {"spent", "ok"}, Ends(c, result),
           auditCall[c].at \in {"streaming", "result"},
           result = "ok" => auditCall[c].at = "result" /\ auditCall[c].verdict = "durable",
           UNCHANGED <<logVars, rows, flushes, stopped, streamed>>
    PROVE  AuditInv'
  <1> DEFINE entry == [auditCall[c] EXCEPT !.at = "done", !.result = result]
  <1>1. CallTypes /\ auditCall[c] \in AuditCallStates BY AuditTyped DEF AuditInv, CallTypes
  <1>2. entry \in AuditCallStates /\ entry.at = "done" /\ entry.result = result BY <1>1 DEF AuditCallStates
  <1>3. auditCall' = [auditCall EXCEPT ![c] = entry] BY <1>1 DEF Ends, CallTypes
  <1>4. LogRests /\ LogGrows /\ durable \subseteq durable' BY DEF logVars, LogRests, LogGrows
  <1>5. \A kind : Kept(c, kind) => Kept(c, kind)' BY <1>4, KeptStays DEF AuditInv
  <1>6. result = "ok" => Kept(c, "result")' BY <1>5 DEF AuditInv, VerdictsTrue
  <1>7. c \in streamed' => Kept(c, "input")' BY <1>5 DEF AuditInv, CallsAudited
  <1> HIDE DEF entry
  <1>8. CallTypes' /\ VerdictsTrue' /\ CallsOrdered' /\ CallsAudited'
    BY <1>1, <1>2, <1>3, <1>4, <1>6, <1>7, AuditCallStep DEF CallTypes
  <1> QED BY <1>4, <1>8, LogStep, AuditTypedAgain DEF AuditInv

\* A row of the call is logged.
LEMMA AppendKeeps ==
    ASSUME AuditInv, NEW c \in AuditCalls, NEW kind \in AuditKinds, NEW good \in BOOLEAN,
           AppendAndFlush(c, kind, [auditCall[c] EXCEPT !.at = kind, !.good = good]),
           UNCHANGED <<logVars, stopped, streamed>>,
           auditCall[c].at \in {"session", "input", "streaming"},
           auditCall[c].at = "streaming" => kind = "result",
           kind = "result" => auditCall[c].at = "streaming"
    PROVE  AuditInv'
  <1>1. CallTypes /\ auditCall[c] \in AuditCallStates BY AuditTyped DEF AuditInv, CallTypes
  <1>2. LogTypes' /\ FlushesCover' /\ LogGrows
    BY AppendStep
  <1>3. durable \subseteq durable' BY DEF logVars
  <1>4. PICK verdict \in {"pending", "failed"} :
          auditCall' = [auditCall EXCEPT ![c] =
              [[auditCall[c] EXCEPT !.at = kind, !.good = good] EXCEPT !.verdict = verdict]]
    BY DEF AppendAndFlush
  <1> DEFINE entry == [[auditCall[c] EXCEPT !.at = kind, !.good = good] EXCEPT !.verdict = verdict]
  <1>5. entry \in AuditCallStates BY <1>1, <1>4 DEF AuditCallStates, AuditKinds
  <1>6. entry.verdict # "durable" /\ entry.at = kind BY <1>1, <1>4 DEF AuditCallStates
  <1>7. entry.result = "none" BY <1>1 DEF AuditCallStates, AuditInv, CallsOrdered
  <1>8. c \in streamed => Kept(c, "input")' /\ kind = "result"
    BY <1>2, <1>3, KeptStays DEF AuditInv, CallsAudited, CallsOrdered
  <1>9. auditCall' = [auditCall EXCEPT ![c] = entry] BY <1>4
  <1> HIDE DEF entry
  <1>10. CallTypes' /\ VerdictsTrue' /\ CallsOrdered' /\ CallsAudited'
    BY <1>1, <1>2, <1>3, <1>5, <1>6, <1>7, <1>8, <1>9, AuditCallStep DEF CallTypes
  <1> QED BY <1>2, <1>10, AuditTypedAgain DEF AuditInv

\* The provider is asked.
LEMMA StreamKeeps == ASSUME AuditInv, NEW c \in AuditCalls, Stream(c) PROVE AuditInv'
  <1> DEFINE entry == [auditCall[c] EXCEPT !.at = "streaming"]
  <1>1. CallTypes /\ auditCall[c] \in AuditCallStates BY AuditTyped DEF AuditInv, CallTypes
  <1>2. entry \in AuditCallStates /\ entry.at = "streaming" /\ entry.result = auditCall[c].result
    BY <1>1 DEF AuditCallStates
  <1>3. entry.result = "none" BY <1>2 DEF AuditInv, CallsOrdered, Stream
  <1>4. auditCall' = [auditCall EXCEPT ![c] = entry] /\ streamed' = streamed \cup {c}
       /\ UNCHANGED stopped
    BY <1>1 DEF Stream, CallTypes
  <1>5. LogRests /\ LogGrows /\ durable \subseteq durable' BY DEF Stream, logVars, LogRests, LogGrows
  <1>6. Kept(c, "input")' BY <1>5, KeptStays DEF AuditInv, VerdictsTrue, Stream, Cleared
  <1> HIDE DEF entry
  <1>7. CallTypes' /\ VerdictsTrue' /\ CallsOrdered' /\ CallsAudited'
    BY <1>1, <1>2, <1>3, <1>4, <1>5, <1>6, AuditCallStep DEF CallTypes
  <1> QED BY <1>5, <1>7, LogStep, AuditTypedAgain DEF AuditInv

\* A call begins.
LEMMA AuditStartKeeps == ASSUME AuditInv, NEW c \in AuditCalls, StartAudited(c) PROVE AuditInv'
  <1> DEFINE entry == [auditCall[c] EXCEPT !.at = "session"]
  <1>1. CallTypes /\ LogTypes /\ auditCall[c] \in AuditCallStates BY AuditTyped DEF AuditInv, CallTypes
  <1>2. entry \in AuditCallStates /\ entry.at = "session" /\ entry.result = auditCall[c].result
    BY <1>1 DEF AuditCallStates
  <1>3. entry.result = "none" /\ c \notin streamed BY <1>2 DEF AuditInv, CallsOrdered, StartAudited
  <1>4. auditCall' = [auditCall EXCEPT ![c] = entry] /\ UNCHANGED <<streamed, stopped>>
    BY <1>1 DEF StartAudited, CallTypes
  <1>5. LogTypes' /\ FlushesCover' /\ LogGrows /\ durable \subseteq durable'
    BY <1>1 DEF StartAudited, LogTypes, LogGrows, AuditInv, FlushesCover, Logged, Handed
  <1> HIDE DEF entry
  <1>6. CallTypes' /\ VerdictsTrue' /\ CallsOrdered' /\ CallsAudited'
    BY <1>1, <1>2, <1>3, <1>4, <1>5, AuditCallStep DEF CallTypes
  <1> QED BY <1>5, <1>6, AuditTypedAgain DEF AuditInv

\* The steps of the session and of the disposal touch no row.
LEMMA SessionKeeps ==
    ASSUME AuditInv,
           \/ \E succeeds \in BOOLEAN : CreateSession(succeeds)
           \/ CloseAudit \/ CloseHandle \/ \E c \in AuditCalls : StopCall(c)
    PROVE  AuditInv'
  <1>1. CallTypes /\ LogTypes BY AuditTyped DEF AuditInv
  <1>2. UNCHANGED <<rows, cursor, written, durable, flushes, poisoned, auditCall, streamed>>
    BY DEF CreateSession, CloseAudit, CloseHandle, StopCall, logVars
  <1>3. session' \in {"none", "creating", "ready"} /\ auditLog' \in {"open", "closing", "closed"}
       /\ stopped' \subseteq AuditCalls
    BY <1>1 DEF CreateSession, CloseAudit, CloseHandle, StopCall, logVars, LogTypes, CallTypes
  <1>4. LogTypes' /\ CallTypes' BY <1>1, <1>2, <1>3 DEF LogTypes, CallTypes
  <1>5. FlushesCover' BY <1>2 DEF AuditInv, FlushesCover, Logged, Handed
  <1>6. LogGrows /\ durable \subseteq durable' BY <1>2 DEF LogGrows
  <1> QED BY <1>2, <1>4, <1>5, <1>6, CallsRest, AuditTypedAgain DEF AuditInv

\* The flush at the head hands its rows over: nothing was lost, so they are all written.
LEMMA HandKeeps == ASSUME AuditInv, Hand PROVE AuditInv'
  <1>1. CallTypes /\ LogTypes BY AuditTyped DEF AuditInv
  <1>2. /\ rows \in Seq(LogRows) /\ Len(rows) \in Nat /\ cursor \in 0 .. Len(rows)
        /\ flushes \in Seq(AuditFlushes) /\ Len(flushes) \in Nat \ {0}
        /\ written \subseteq 1 .. cursor /\ ~poisoned
    BY <1>1 DEF Hand, LogTypes
  <1>3. /\ written' = written \cup (cursor + 1 .. Len(rows)) /\ cursor' = Len(rows)
        /\ flushes' = [flushes EXCEPT ![1].phase = "sync"]
        /\ UNCHANGED <<session, rows, durable, poisoned, auditLog, auditCall, stopped, streamed>>
    BY DEF Hand
  <1>4. 1 .. cursor \subseteq written BY <1>2 DEF AuditInv, FlushesCover
  <1>5. written' = 1 .. Len(rows) BY <1>2, <1>3, <1>4
  <1>6. Len(flushes') = Len(flushes) /\ flushes' \in Seq(AuditFlushes)
       /\ \A n \in 1 .. Len(flushes) : AuditRow(flushes'[n]) = AuditRow(flushes[n])
                                    /\ (n # 1 => flushes'[n] = flushes[n])
    <2>1. DOMAIN flushes = 1 .. Len(flushes) BY <1>2
    <2>2. \A n \in 1 .. Len(flushes) : flushes[n] \in AuditFlushes BY <1>2
    <2>3. \A n \in 1 .. Len(flushes) : flushes'[n] =
            IF n = 1 THEN [flushes[n] EXCEPT !.phase = "sync"] ELSE flushes[n]
      BY <1>3, <2>1
    <2>4. \A n \in 1 .. Len(flushes) : flushes'[n] \in AuditFlushes /\ AuditRow(flushes'[n]) = AuditRow(flushes[n])
      BY <2>2, <2>3 DEF AuditFlushes, AuditRow
    <2>5. flushes' \in [1 .. Len(flushes) -> AuditFlushes] BY <1>3, <2>1, <2>4
    <2> QED BY <1>2, <2>3, <2>4, <2>5
  <1>7. LogTypes' BY <1>1, <1>2, <1>3, <1>5, <1>6 DEF LogTypes
  <1>8. FlushesCover'
    <2>1. \A n \in 1 .. Len(flushes) : Logged(flushes[n]) /\ (flushes[n].phase = "sync" => n = 1)
      BY DEF AuditInv, FlushesCover
    <2>2. \A n \in 1 .. Len(flushes) : \E i \in 1 .. Len(rows) : rows[i] = AuditRow(flushes'[n])
      BY <2>1, <1>6 DEF Logged
    <2>3. \A n \in 1 .. Len(flushes') : Logged(flushes[n])' /\ Handed(flushes[n])'
      BY <2>2, <1>3, <1>5, <1>6 DEF Logged, Handed
    <2>4. \A n \in 1 .. Len(flushes') : flushes'[n].phase = "sync" => n = 1
      BY <2>1, <1>6
    <2>5. ~poisoned' /\ 1 .. cursor' \subseteq written' BY <1>2, <1>3, <1>5
    <2> QED BY <2>3, <2>4, <2>5 DEF FlushesCover
  <1>9. LogGrows /\ durable \subseteq durable' BY <1>3 DEF LogGrows
  <1> QED BY <1>1, <1>3, <1>7, <1>8, <1>9, CallsRest, AuditTypedAgain DEF AuditInv, CallTypes

\* The flush at the head is one, and those behind it keep their order.
LEMMA TailFlushes ==
    ASSUME flushes \in Seq(AuditFlushes), flushes # <<>>
    PROVE  /\ Head(flushes) = flushes[1] /\ flushes[1] \in AuditFlushes /\ 1 \in 1 .. Len(flushes)
           /\ Tail(flushes) \in Seq(AuditFlushes)
           /\ \A n \in 1 .. Len(Tail(flushes)) :
                n + 1 \in 1 .. Len(flushes) /\ n + 1 # 1 /\ Tail(flushes)[n] = flushes[n + 1]
  OBVIOUS

\* The flush at the head settles: the call that still waits for it is told, and the
\* flushes behind it have handed nothing over yet.
LEMMA SettleKeeps ==
    ASSUME AuditInv, flushes # <<>>, flushes' = Tail(flushes),
           NEW f \in AuditFlushes, Head(flushes) = f, NEW c \in AuditCalls, f.call = c,
           NEW verdict \in {"durable", "failed"}, auditCall' = Told(f, verdict),
           durable \subseteq durable', durable' \subseteq written', written' \subseteq written,
           poisoned' \in BOOLEAN, ~poisoned' => ~poisoned /\ written' = written,
           verdict = "durable" => Handed(f) /\ written \subseteq durable',
           UNCHANGED <<session, rows, cursor, auditLog, stopped, streamed>>
    PROVE  AuditInv'
  <1> DEFINE entry == [auditCall[c] EXCEPT !.verdict = IF auditCall[c].at = f.kind THEN verdict ELSE @]
  <1>1. CallTypes /\ LogTypes BY AuditTyped DEF AuditInv
  <1>2. /\ flushes \in Seq(AuditFlushes) /\ rows \in Seq(LogRows) /\ written \subseteq 1 .. cursor
        /\ cursor \in 0 .. Len(rows)
    BY <1>1 DEF LogTypes
  <1>3. c \in AuditCalls /\ f.kind \in AuditKinds BY DEF AuditFlushes
  <1>4. LogTypes' BY <1>1, <1>2, TailFlushes DEF LogTypes
  <1>5. FlushesCover'
    <2>1. \A n \in 1 .. Len(flushes') : n + 1 \in 1 .. Len(flushes) /\ n + 1 # 1
                                    /\ flushes'[n] = flushes[n + 1]
      BY <1>2, TailFlushes
    <2>2. \A n \in 1 .. Len(flushes) : Logged(flushes[n]) /\ (n # 1 => flushes[n].phase # "sync")
      BY DEF AuditInv, FlushesCover
    <2>3. \A n \in 1 .. Len(flushes') : Logged(flushes[n])' /\ flushes'[n].phase # "sync"
      BY <2>1, <2>2 DEF Logged
    <2>4. ~poisoned' => 1 .. cursor' \subseteq written' BY DEF AuditInv, FlushesCover
    <2> QED BY <2>3, <2>4 DEF FlushesCover
  <1>6. LogGrows BY DEF LogGrows
  <1>7. auditCall[c] \in AuditCallStates BY <1>1, <1>3 DEF CallTypes
  <1>8. auditCall' = [auditCall EXCEPT ![c] = entry] BY <1>1, <1>3 DEF Told, CallTypes
  <1>9. entry \in AuditCallStates /\ entry.at = auditCall[c].at /\ entry.result = auditCall[c].result
       /\ entry.verdict = (IF auditCall[c].at = f.kind THEN verdict ELSE auditCall[c].verdict)
    BY <1>7 DEF AuditCallStates
  <1>10. verdict = "durable" => Kept(c, f.kind)'
    <2> HAVE verdict = "durable"
    <2>1. PICK i \in written : rows[i] = AuditRow(f) BY <1>3 DEF Handed
    <2>2. i \in durable' /\ rows'[i] = [call |-> c, kind |-> f.kind] BY <2>1 DEF AuditRow
    <2> QED BY <2>2 DEF Kept
  <1>11. \A kind : Kept(c, kind) => Kept(c, kind)' BY <1>6, KeptStays DEF AuditInv
  <1>12. entry.verdict = "durable" /\ entry.at = "input" => Kept(c, "input")'
    BY <1>3, <1>9, <1>10, <1>11 DEF AuditInv, VerdictsTrue
  <1>13. entry.verdict = "durable" /\ entry.at = "result" => Kept(c, "result")'
    BY <1>3, <1>9, <1>10, <1>11 DEF AuditInv, VerdictsTrue
  <1>14. c \in streamed' => entry.at \in {"streaming", "result", "done"} /\ Kept(c, "input")'
    BY <1>3, <1>9, <1>11 DEF AuditInv, CallsOrdered, CallsAudited
  <1>15. /\ entry.result # "none" => entry.at = "done"
         /\ entry.result = "ok" => Kept(c, "result")'
         /\ entry.result = "zero" => c \notin streamed'
    BY <1>3, <1>9, <1>11 DEF AuditInv, CallsOrdered, CallsAudited
  <1> HIDE DEF entry
  <1>16. CallTypes' /\ VerdictsTrue' /\ CallsOrdered' /\ CallsAudited'
    BY <1>1, <1>3, <1>6, <1>8, <1>9, <1>12, <1>13, <1>14, <1>15, AuditCallStep DEF CallTypes
  <1> QED BY <1>4, <1>5, <1>16, AuditTypedAgain DEF AuditInv

\* Every flush that settles is one of the three.
LEMMA FlushKeeps == ASSUME AuditInv, FlushSucceeds \/ FlushFails \/ FlushRefused PROVE AuditInv'
  <1>0. LogTypes BY AuditTyped DEF AuditInv
  <1>f. PICK f \in AuditFlushes : f = Head(flushes) /\ f.call \in AuditCalls
    BY <1>0, TailFlushes DEF LogTypes, FlushSucceeds, FlushFails, FlushRefused, AuditFlushes
  <1>1. CASE FlushSucceeds
    <2>1. Head(flushes) = flushes[1] /\ 1 \in 1 .. Len(flushes)
      BY <1>0, <1>1, TailFlushes DEF FlushSucceeds, LogTypes
    <2>2. ~poisoned /\ Handed(Head(flushes)) BY <1>1, <2>1 DEF FlushSucceeds, AuditInv, FlushesCover
    <2>3. durable' = written BY <1>0, <1>1 DEF FlushSucceeds, LogTypes
    <2> QED BY <1>0, <1>f, <1>1, <2>2, <2>3, SettleKeeps DEF FlushSucceeds, LogTypes
  <1>2. CASE FlushFails
    BY <1>0, <1>f, <1>2, SettleKeeps DEF FlushFails, TailAfterFailure, LogTypes
  <1>3. CASE FlushRefused
    BY <1>0, <1>f, <1>3, SettleKeeps DEF FlushRefused, logVars, LogTypes
  <1> QED BY <1>1, <1>2, <1>3

\* Every step keeps the invariant.
LEMMA AuditStepKeeps == ASSUME AuditInv, [AuditNext]_auditVars PROVE AuditInv'
  <1>0. CallTypes BY AuditTyped DEF AuditInv
  <1>1. ASSUME NEW c \in AuditCalls,
               EndEarly(c) \/ RowRejected(c) \/ EndUndurable(c) \/ EndRefused(c)
        PROVE  AuditInv'
    BY <1>1, EndUnspentKeeps DEF EndEarly, RowRejected, EndUndurable, EndRefused
  <1>2. ASSUME NEW c \in AuditCalls, Adopt(c) \/ EndSpent(c) PROVE AuditInv'
    BY <1>2, EndSpentKeeps DEF Adopt, EndSpent
  <1>3. ASSUME NEW c \in AuditCalls, RecordInput(c) \/ RefuseCall(c) PROVE AuditInv'
    <2>1. auditCall[c] \in AuditCallStates /\ auditCall[c].good \in BOOLEAN
      BY <1>0 DEF CallTypes, AuditCallStates
    <2>2. \A at : [auditCall[c] EXCEPT !.at = at]
                  = [auditCall[c] EXCEPT !.at = at, !.good = auditCall[c].good]
      BY <2>1 DEF AuditCallStates
    <2>3. CASE RecordInput(c)
      BY <2>1, <2>2, <2>3, AppendKeeps DEF RecordInput, AuditKinds
    <2>4. CASE RefuseCall(c)
      BY <2>1, <2>2, <2>4, AppendKeeps DEF RefuseCall, AuditKinds
    <2> QED BY <1>3, <2>3, <2>4
  <1>4. ASSUME NEW c \in AuditCalls, NEW good \in BOOLEAN, RecordResult(c, good) PROVE AuditInv'
    BY <1>4, AppendKeeps DEF RecordResult, AuditKinds
  <1>5. CASE UNCHANGED auditVars
    <2>1. LogRests /\ CallTypes' /\ LogGrows BY <1>0, <1>5 DEF auditVars, LogRests, CallTypes, LogGrows
    <2> QED BY <2>1, <1>5, LogStep, CallsRest, AuditTypedAgain DEF auditVars, AuditInv
  <1> QED BY <1>1, <1>2, <1>3, <1>4, <1>5, AuditStartKeeps, StreamKeeps, SessionKeeps, HandKeeps,
             FlushKeeps DEF AuditNext

\* The invariant holds throughout.
LEMMA AuditInductive == AuditSpec => []AuditInv
  <1>1. ASSUME AuditInit PROVE AuditInv
    <2>1. LogTypes
      <3>1. <<>> \in Seq(LogRows) /\ <<>> \in Seq(AuditFlushes) /\ Len(<<>>) = 0 OBVIOUS
      <3>2. rows \in Seq(LogRows) /\ flushes \in Seq(AuditFlushes) /\ Len(rows) = 0
        BY <1>1, <3>1 DEF AuditInit
      <3>3. cursor \in 0 .. Len(rows) BY <1>1, <3>2 DEF AuditInit
      <3> QED BY <1>1, <3>2, <3>3 DEF AuditInit, LogTypes
    <2>6. CallTypes
      <3>1. IdleAudited \in AuditCallStates BY DEF IdleAudited, AuditCallStates
      <3> QED BY <1>1, <3>1 DEF AuditInit, CallTypes
    <2>2. AuditTypeOK BY <2>1, <2>6, AuditTyped
    <2>3. FlushesCover BY <1>1 DEF AuditInit, FlushesCover
    <2>4. VerdictsTrue /\ CallsOrdered /\ CallsAudited
      BY <1>1 DEF AuditInit, IdleAudited, VerdictsTrue, CallsOrdered, CallsAudited
    <2> QED BY <2>2, <2>3, <2>4 DEF AuditInv
  <1> QED BY <1>1, AuditStepKeeps, PTL DEF AuditSpec

\* The log, its flushes and the calls keep their shape, however many calls share them.
THEOREM AuditTypes == AuditSpec => []AuditTypeOK
  <1>1. AuditInv => AuditTypeOK BY DEF AuditInv
  <1> QED BY <1>1, AuditInductive, PTL

\* However flushes fail, calls stop and the log closes: the provider was asked only for
\* calls whose input row is kept, a value adopted has its result row kept, and a call
\* reported to cost nothing was never sent.
THEOREM CallsAreAudited == AuditSpec => []CallsAudited
  <1>1. AuditInv => CallsAudited BY DEF AuditInv
  <1> QED BY <1>1, AuditInductive, PTL

-----------------------------------------------------------------------------
(* The planning service                                                    *)

\* The values of a row and of a call.
PlanRows == [status : {"absent", "prepared", "reserved", "settled", "uncertain", "cancelled"},
             live : BOOLEAN, recent : BOOLEAN, evidence : 0 .. MaxMoves, settings : 0 .. MaxMoves,
             usage : {"none", "known", "zero"}, plan : BOOLEAN]
PlanCallStates == [at : {"idle", "building", "asking", "reserved", "generating", "answered", "withheld"},
                   id : PlanIds \cup {NoPlanId}, cancelled : BOOLEAN,
                   answer : {"none", "threw", "failed", "invalid", "plan"},
                   evidence : 0 .. MaxMoves, settings : 0 .. MaxMoves]

\* A row that was ever reserved stays on the books.
OnTheBooks(s) == s \in {"reserved", "settled", "uncertain"}

\* A call that has reserved its row and not settled it.
HoldsPlan(p) == p.at \in {"reserved", "generating", "answered", "withheld"}

\* A call at work has an id; one that holds its row finds it charged and not settled, and
\* free of a payment until it is dispatched.
PlansHeld ==
    \A c \in PlanCalls :
        /\ planCall[c].at # "idle" => planCall[c].id \in PlanIds
        /\ HoldsPlan(planCall[c]) => attempt[planCall[c].id].status \in {"reserved", "uncertain"}
        /\ planCall[c].at = "reserved" => planPaid[planCall[c].id] = 0

\* No two calls hold the same row.
PlanHeldOnce ==
    \A c, d \in PlanCalls :
        HoldsPlan(planCall[c]) /\ HoldsPlan(planCall[d]) /\ planCall[c].id = planCall[d].id => c = d

\* Only what is charged is paid, and what is settled has a cost.
PlansPaidFor ==
    \A r \in PlanIds :
        /\ ~OnTheBooks(attempt[r].status) => planPaid[r] = 0
        /\ attempt[r].status = "settled" => attempt[r].usage \in {"known", "zero"}

PlanInv == PlanTypeOK /\ PlansHeld /\ PlanHeldOnce /\ PlansPaidFor

-----------------------------------------------------------------------------

\* The type invariant by these sets of values, before and after a step.
LEMMA PlanTypes ==
    PlanTypeOK <=> /\ attempt \in [PlanIds -> PlanRows] /\ plans \subseteq PlanIds
                   /\ evidence \in 0 .. MaxMoves /\ settings \in 0 .. MaxMoves
                   /\ planCall \in [PlanCalls -> PlanCallStates] /\ planPaid \in [PlanIds -> Nat]
  BY DEF PlanTypeOK, PlanRows, PlanCallStates

\* The same after a step.
LEMMA PlanTypesAgain ==
    PlanTypeOK' <=> /\ attempt' \in [PlanIds -> PlanRows] /\ plans' \subseteq PlanIds
                    /\ evidence' \in 0 .. MaxMoves /\ settings' \in 0 .. MaxMoves
                    /\ planCall' \in [PlanCalls -> PlanCallStates] /\ planPaid' \in [PlanIds -> Nat]
  BY DEF PlanTypeOK, PlanRows, PlanCallStates

\* What every plan begins with.
LEMMA NoPlans ==
    /\ NoAttempt \in PlanRows /\ NoAttempt.status = "absent"
    /\ NoPlanCall \in PlanCallStates /\ NoPlanCall.at = "idle" /\ ~HoldsPlan(NoPlanCall)
  BY PlanAssumption DEF NoAttempt, NoPlanCall, PlanRows, PlanCallStates, HoldsPlan

\* A row on the books keeps its state and its cost; one that is not does not get there.
PlanRowSame(r) ==
    IF OnTheBooks(attempt[r].status)
    THEN attempt'[r].status = attempt[r].status /\ attempt'[r].usage = attempt[r].usage
    ELSE ~OnTheBooks(attempt'[r].status)

\* The same, but for a reservation that was recovered.
PlanRowKept(r) ==
    PlanRowSame(r) \/ (attempt[r].status = "reserved" /\ attempt'[r].status = "uncertain")

\* What a recovery does.
LEMMA PlanRecovery ==
    ASSUME PlanTypeOK
    PROVE  /\ PlansRecovered \in [PlanIds -> PlanRows]
           /\ \A r \in PlanIds :
                /\ PlansRecovered[r].usage = attempt[r].usage
                /\ PlansRecovered[r].status = IF PlanLapsed(r) THEN "uncertain" ELSE attempt[r].status
                /\ ~PlanLapsed(r) => PlansRecovered[r] = attempt[r]
  <1>1. attempt \in [PlanIds -> PlanRows] BY PlanTypes
  <1>2. ASSUME NEW r \in PlanIds
        PROVE  /\ [attempt[r] EXCEPT !.status = "uncertain"] \in PlanRows
               /\ [attempt[r] EXCEPT !.status = "uncertain"].usage = attempt[r].usage
               /\ [attempt[r] EXCEPT !.status = "uncertain"].status = "uncertain"
    BY <1>1 DEF PlanRows
  <1>3. \A r \in PlanIds : PlansRecovered[r] = IF PlanLapsed(r) THEN [attempt[r] EXCEPT !.status = "uncertain"] ELSE attempt[r]
    BY DEF PlansRecovered
  <1>4. PlansRecovered \in [PlanIds -> PlanRows] BY <1>1, <1>2 DEF PlansRecovered
  <1> QED BY <1>2, <1>3, <1>4

\* Rows that are kept, while at most one call moves on without a reservation.
LEMMA PlanKept ==
    ASSUME PlanInv, attempt' \in [PlanIds -> PlanRows], \A r \in PlanIds : PlanRowKept(r),
           evidence' \in 0 .. MaxMoves, settings' \in 0 .. MaxMoves,
           plans' = plans, planPaid' = planPaid,
           \/ UNCHANGED planCall
           \/ \E c \in PlanCalls, p \in PlanCallStates :
                /\ planCall' = [planCall EXCEPT ![c] = p]
                /\ p.at # "idle" => p.id \in PlanIds
                /\ HoldsPlan(p) => HoldsPlan(planCall[c]) /\ p.id = planCall[c].id
                /\ p.at = "reserved" => planCall[c].at = "reserved"
    PROVE  PlanInv'
  <1> USE DEF PlanInv
  <1>1. attempt \in [PlanIds -> PlanRows] /\ planCall \in [PlanCalls -> PlanCallStates]
    BY PlanTypes
  <1>2. ASSUME NEW c \in PlanCalls
        PROVE  /\ planCall'[c].at # "idle" => planCall'[c].id \in PlanIds
               /\ HoldsPlan(planCall'[c]) => HoldsPlan(planCall[c]) /\ planCall'[c].id = planCall[c].id
               /\ planCall'[c].at = "reserved" => planCall[c].at = "reserved"
    BY <1>1 DEF PlansHeld
  <1>3. planCall' \in [PlanCalls -> PlanCallStates] BY <1>1
  <1>4. PlanTypeOK' BY <1>3, PlanTypes, PlanTypesAgain
  <1>5. PlansHeld' BY <1>2 DEF PlansHeld, HoldsPlan, PlanRowKept, PlanRowSame, OnTheBooks
  <1>6. PlanHeldOnce' BY <1>2 DEF PlanHeldOnce
  <1>7. PlansPaidFor' BY DEF PlansPaidFor, PlanRowKept, PlanRowSame, OnTheBooks
  <1> QED BY <1>4, <1>5, <1>6, <1>7

\* The steps that change no row on the books.
LEMMA PlanQuiet ==
    ASSUME PlanInv,
           \/ UNCHANGED planVars
           \/ MoveEvidence \/ MoveSettings
           \/ \E r \in PlanIds : CancelPlan(r) \/ LapsePlan(r) \/ AgePlan(r)
           \/ \E c \in PlanCalls :
                \/ SavePreparation(c) \/ AnswerPlan(c) \/ RollBackPlan(c)
                \/ DropPlan(c) \/ CancelPlanCall(c)
                \/ \E r \in PlanIds : BuildPreparation(c, r) \/ AskPlan(c, r)
    PROVE  attempt' \in [PlanIds -> PlanRows] /\ \A r \in PlanIds : PlanRowSame(r)
  <1>1. attempt \in [PlanIds -> PlanRows] /\ planCall \in [PlanCalls -> PlanCallStates]
    BY PlanTypes DEF PlanInv
  <1>2. ASSUME UNCHANGED attempt PROVE attempt' \in [PlanIds -> PlanRows] /\ \A r \in PlanIds : PlanRowSame(r)
    BY <1>1, <1>2 DEF PlanRowSame
  <1>3. ASSUME NEW r \in PlanIds, NEW u \in PlanRows, attempt' = [attempt EXCEPT ![r] = u],
               \/ u.status = attempt[r].status /\ u.usage = attempt[r].usage
               \/ ~OnTheBooks(attempt[r].status) /\ ~OnTheBooks(u.status)
        PROVE  attempt' \in [PlanIds -> PlanRows] /\ \A q \in PlanIds : PlanRowSame(q)
    BY <1>1, <1>3 DEF PlanRowSame
  <1>4. ASSUME NEW r \in PlanIds, CancelPlan(r)
        PROVE  attempt' \in [PlanIds -> PlanRows] /\ \A q \in PlanIds : PlanRowSame(q)
    <2> DEFINE u == [attempt[r] EXCEPT !.status = "cancelled"]
    <2>1. attempt' = [attempt EXCEPT ![r] = u] /\ attempt[r].status = "prepared" BY <1>4 DEF CancelPlan
    <2>2. u \in PlanRows /\ u.status = "cancelled" BY <1>1 DEF PlanRows
    <2> HIDE DEF u
    <2> QED BY <1>3, <2>1, <2>2 DEF OnTheBooks
  <1>5. ASSUME NEW r \in PlanIds, LapsePlan(r)
        PROVE  attempt' \in [PlanIds -> PlanRows] /\ \A q \in PlanIds : PlanRowSame(q)
    <2> DEFINE u == [attempt[r] EXCEPT !.live = FALSE]
    <2>1. attempt' = [attempt EXCEPT ![r] = u] BY <1>5 DEF LapsePlan
    <2>2. u \in PlanRows /\ u.status = attempt[r].status /\ u.usage = attempt[r].usage BY <1>1 DEF PlanRows
    <2> HIDE DEF u
    <2> QED BY <1>3, <2>1, <2>2
  <1>6. ASSUME NEW r \in PlanIds, AgePlan(r)
        PROVE  attempt' \in [PlanIds -> PlanRows] /\ \A q \in PlanIds : PlanRowSame(q)
    <2> DEFINE u == [attempt[r] EXCEPT !.recent = FALSE]
    <2>1. attempt' = [attempt EXCEPT ![r] = u] BY <1>6 DEF AgePlan
    <2>2. u \in PlanRows /\ u.status = attempt[r].status /\ u.usage = attempt[r].usage BY <1>1 DEF PlanRows
    <2> HIDE DEF u
    <2> QED BY <1>3, <2>1, <2>2
  <1>7. ASSUME NEW c \in PlanCalls, SavePreparation(c)
        PROVE  attempt' \in [PlanIds -> PlanRows] /\ \A q \in PlanIds : PlanRowSame(q)
    <2> DEFINE u == [NoAttempt EXCEPT !.status = "prepared", !.evidence = planCall[c].evidence,
                                      !.settings = planCall[c].settings]
    <2>0. PICK r \in PlanIds : r = planCall[c].id BY <1>7 DEF SavePreparation, PlanInv, PlansHeld
    <2>1. attempt' = [attempt EXCEPT ![r] = u] /\ attempt[r].status = "absent"
      BY <1>7, <2>0 DEF SavePreparation
    <2>2. planCall[c].evidence \in 0 .. MaxMoves /\ planCall[c].settings \in 0 .. MaxMoves
      BY <1>1 DEF PlanCallStates
    <2>3. u \in PlanRows /\ u.status = "prepared" BY <2>2 DEF PlanRows, NoAttempt
    <2> HIDE DEF u
    <2> QED BY <1>3, <2>1, <2>3 DEF OnTheBooks
  <1>8. ASSUME \/ UNCHANGED planVars
               \/ MoveEvidence \/ MoveSettings
               \/ \E c \in PlanCalls :
                    \/ AnswerPlan(c) \/ RollBackPlan(c) \/ DropPlan(c) \/ CancelPlanCall(c)
                    \/ \E r \in PlanIds : BuildPreparation(c, r) \/ AskPlan(c, r)
        PROVE  UNCHANGED attempt
    BY <1>8 DEF planVars, MoveEvidence, MoveSettings, AnswerPlan, RollBackPlan, DropPlan,
                CancelPlanCall, BuildPreparation, AskPlan
  <1> QED BY <1>2, <1>4, <1>5, <1>6, <1>7, <1>8

\* They keep the invariant.
LEMMA PlanQuietStep ==
    ASSUME PlanInv,
           \/ UNCHANGED planVars
           \/ MoveEvidence \/ MoveSettings
           \/ \E r \in PlanIds : CancelPlan(r) \/ LapsePlan(r) \/ AgePlan(r)
           \/ \E c \in PlanCalls :
                \/ SavePreparation(c) \/ AnswerPlan(c) \/ RollBackPlan(c)
                \/ DropPlan(c) \/ CancelPlanCall(c)
                \/ \E r \in PlanIds : BuildPreparation(c, r) \/ AskPlan(c, r)
    PROVE  PlanInv'
  <1>1. /\ planCall \in [PlanCalls -> PlanCallStates]
        /\ evidence \in 0 .. MaxMoves /\ settings \in 0 .. MaxMoves
    BY PlanTypes DEF PlanInv
  <1>2. attempt' \in [PlanIds -> PlanRows] /\ \A r \in PlanIds : PlanRowKept(r)
    BY PlanQuiet DEF PlanRowKept
  <1>3. plans' = plans /\ planPaid' = planPaid
    BY DEF planVars, MoveEvidence, MoveSettings, CancelPlan, LapsePlan, AgePlan, SavePreparation,
           AnswerPlan, RollBackPlan, DropPlan, CancelPlanCall, BuildPreparation, AskPlan
  <1>4. CASE MoveEvidence \/ MoveSettings
    <2>1. evidence' \in 0 .. MaxMoves /\ settings' \in 0 .. MaxMoves
      BY <1>1, <1>4, PlanAssumption DEF MoveEvidence, MoveSettings
    <2>2. UNCHANGED planCall BY <1>4 DEF MoveEvidence, MoveSettings
    <2> QED BY <1>2, <1>3, <2>1, <2>2, PlanKept
  <1>5. CASE UNCHANGED planVars \/ \E r \in PlanIds : CancelPlan(r) \/ LapsePlan(r) \/ AgePlan(r)
    <2>1. UNCHANGED <<planCall, evidence, settings>> BY <1>5 DEF planVars, CancelPlan, LapsePlan, AgePlan
    <2> QED BY <1>1, <1>2, <1>3, <2>1, PlanKept
  <1>6. ASSUME NEW c \in PlanCalls, NEW p \in PlanCallStates, planCall' = [planCall EXCEPT ![c] = p],
               UNCHANGED <<evidence, settings>>,
               p.at # "idle" => p.id \in PlanIds,
               HoldsPlan(p) => HoldsPlan(planCall[c]) /\ p.id = planCall[c].id,
               p.at = "reserved" => planCall[c].at = "reserved"
        PROVE  PlanInv'
    BY <1>1, <1>2, <1>3, <1>6, PlanKept
  <1>7. ASSUME NEW c \in PlanCalls, SavePreparation(c) \/ DropPlan(c) PROVE PlanInv'
    <2>1. planCall' = [planCall EXCEPT ![c] = NoPlanCall] /\ UNCHANGED <<evidence, settings>>
      BY <1>7 DEF SavePreparation, DropPlan, PlanMoves
    <2>2. NoPlanCall.at # "reserved" /\ ~(NoPlanCall.at # "idle") BY NoPlans
    <2> QED BY <1>6, <2>1, <2>2, NoPlans
  <1>8. ASSUME NEW c \in PlanCalls, AnswerPlan(c) PROVE PlanInv'
    <2>1. PICK answer \in {"threw", "failed", "invalid", "plan"} :
            planCall' = [planCall EXCEPT ![c] = [planCall[c] EXCEPT !.at = "answered", !.answer = answer]]
      BY <1>8 DEF AnswerPlan, PlanMoves
    <2> DEFINE p == [planCall[c] EXCEPT !.at = "answered", !.answer = answer]
    <2>2. p \in PlanCallStates /\ p.at = "answered" /\ p.id = planCall[c].id BY <1>1 DEF PlanCallStates
    <2>3. HoldsPlan(planCall[c]) /\ planCall[c].id \in PlanIds
      BY <1>8 DEF AnswerPlan, HoldsPlan, PlanInv, PlansHeld
    <2>4. planCall' = [planCall EXCEPT ![c] = p] /\ UNCHANGED <<evidence, settings>> BY <1>8, <2>1 DEF AnswerPlan
    <2> HIDE DEF p
    <2> QED BY <1>6, <2>2, <2>3, <2>4
  <1>9. ASSUME NEW c \in PlanCalls, RollBackPlan(c) PROVE PlanInv'
    <2> DEFINE p == [planCall[c] EXCEPT !.at = "withheld"]
    <2>2. p \in PlanCallStates /\ p.at = "withheld" /\ p.id = planCall[c].id BY <1>1 DEF PlanCallStates
    <2>3. HoldsPlan(planCall[c]) /\ planCall[c].id \in PlanIds
      BY <1>9 DEF RollBackPlan, HoldsPlan, PlanInv, PlansHeld
    <2>4. planCall' = [planCall EXCEPT ![c] = p] /\ UNCHANGED <<evidence, settings>>
      BY <1>9 DEF RollBackPlan, PlanTo, PlanMoves
    <2> HIDE DEF p
    <2> QED BY <1>6, <2>2, <2>3, <2>4
  <1>10. ASSUME NEW c \in PlanCalls, CancelPlanCall(c) PROVE PlanInv'
    <2> DEFINE p == [planCall[c] EXCEPT !.cancelled = TRUE]
    <2>2. p \in PlanCallStates /\ p.at = planCall[c].at /\ p.id = planCall[c].id BY <1>1 DEF PlanCallStates
    <2>3. planCall[c].id \in PlanIds /\ (HoldsPlan(p) => HoldsPlan(planCall[c]))
      BY <1>10, <2>2 DEF CancelPlanCall, HoldsPlan, PlanInv, PlansHeld
    <2>4. planCall' = [planCall EXCEPT ![c] = p] /\ UNCHANGED <<evidence, settings>>
      BY <1>10 DEF CancelPlanCall, PlanMoves
    <2> HIDE DEF p
    <2> QED BY <1>6, <2>2, <2>3, <2>4
  <1>11. ASSUME NEW c \in PlanCalls, NEW r \in PlanIds, BuildPreparation(c, r) \/ AskPlan(c, r) PROVE PlanInv'
    <2> DEFINE p == [NoPlanCall EXCEPT !.at = "building", !.id = r, !.evidence = evidence, !.settings = settings]
               q == [NoPlanCall EXCEPT !.at = "asking", !.id = r]
    <2>1. planCall' = [planCall EXCEPT ![c] = p] \/ planCall' = [planCall EXCEPT ![c] = q]
      BY <1>11 DEF BuildPreparation, AskPlan, PlanMoves
    <2>2. p \in PlanCallStates /\ p.at = "building" /\ p.id = r
      BY <1>1 DEF NoPlanCall, PlanCallStates
    <2>3. q \in PlanCallStates /\ q.at = "asking" /\ q.id = r
      BY NoPlans DEF PlanCallStates
    <2>4. UNCHANGED <<evidence, settings>> BY <1>11 DEF BuildPreparation, AskPlan
    <2> HIDE DEF p, q
    <2>5. ~HoldsPlan(p) /\ ~HoldsPlan(q) BY <2>2, <2>3 DEF HoldsPlan
    <2>6. CASE planCall' = [planCall EXCEPT ![c] = p] BY <1>6, <2>2, <2>4, <2>5, <2>6
    <2>7. CASE planCall' = [planCall EXCEPT ![c] = q] BY <1>6, <2>3, <2>4, <2>5, <2>7
    <2> QED BY <2>1, <2>6, <2>7
  <1> QED BY <1>4, <1>5, <1>7, <1>8, <1>9, <1>10, <1>11

\* A recovery, alone or with the refusal that commits it.
LEMMA PlanRecoveryStep ==
    ASSUME PlanInv, RecoverPlans \/ \E c \in PlanCalls : RefusePlan(c) PROVE PlanInv'
  <1>1. evidence \in 0 .. MaxMoves /\ settings \in 0 .. MaxMoves BY PlanTypes DEF PlanInv
  <1>2. /\ attempt' = PlansRecovered /\ UNCHANGED <<plans, evidence, settings, planPaid>>
        /\ planCall' = planCall \/ \E c \in PlanCalls : planCall' = [planCall EXCEPT ![c] = NoPlanCall]
    BY DEF RecoverPlans, RefusePlan, PlanMoves
  <1>3. attempt' \in [PlanIds -> PlanRows] /\ \A r \in PlanIds : PlanRowKept(r)
    BY <1>2, PlanRecovery DEF PlanInv, PlanRowKept, PlanRowSame, PlanLapsed, OnTheBooks
  <1>4. NoPlanCall.at # "reserved" /\ ~(NoPlanCall.at # "idle") BY NoPlans
  <1> QED BY <1>1, <1>2, <1>3, <1>4, NoPlans, PlanKept

\* A reservation: the prepared row goes on the books, for a call that held none.
LEMMA PlanReserved ==
    ASSUME PlanInv, NEW c \in PlanCalls, ReservePlan(c)
    PROVE  \E r \in PlanIds, u \in PlanRows, p \in PlanCallStates :
             /\ r = planCall[c].id /\ ~HoldsPlan(planCall[c])
             /\ attempt[r].status = "prepared" /\ u.status = "reserved"
             /\ attempt' = [PlansRecovered EXCEPT ![r] = u]
             /\ planCall' = [planCall EXCEPT ![c] = p] /\ p.at = "reserved" /\ p.id = r
             /\ UNCHANGED <<plans, evidence, settings, planPaid>>
  <1>1. attempt \in [PlanIds -> PlanRows] /\ planCall[c] \in PlanCallStates
    BY PlanTypes DEF PlanInv
  <1>2. PICK r \in PlanIds : r = planCall[c].id BY DEF ReservePlan, PlanInv, PlansHeld
  <1>3. attempt[r].status = "prepared" /\ ~HoldsPlan(planCall[c])
    BY <1>2 DEF ReservePlan, PlanReservable, HoldsPlan
  <1>4. PlansRecovered[r] = attempt[r] BY <1>3, PlanRecovery DEF PlanInv, PlanLapsed
  <1> DEFINE u == [attempt[r] EXCEPT !.status = "reserved", !.live = TRUE, !.recent = TRUE]
             p == [planCall[c] EXCEPT !.at = "reserved"]
  <1>5. u \in PlanRows /\ u.status = "reserved" BY <1>1 DEF PlanRows
  <1>6. p \in PlanCallStates /\ p.at = "reserved" /\ p.id = r BY <1>1, <1>2 DEF PlanCallStates
  <1>7. attempt' = [PlansRecovered EXCEPT ![r] = [PlansRecovered[r] EXCEPT !.status = "reserved", !.live = TRUE, !.recent = TRUE]]
    <2>1. PlansRecovered \in [PlanIds -> PlanRows] BY PlanRecovery DEF PlanInv
    <2>2. attempt' = [PlansRecovered EXCEPT ![r].status = "reserved", ![r].live = TRUE, ![r].recent = TRUE]
      BY <1>2 DEF ReservePlan
    <2> QED BY <2>1, <2>2
  <1>8. attempt' = [PlansRecovered EXCEPT ![r] = u] BY <1>4, <1>7
  <1>9. planCall' = [planCall EXCEPT ![c] = p] /\ UNCHANGED <<plans, evidence, settings, planPaid>>
    BY DEF ReservePlan, PlanTo, PlanMoves
  <1> HIDE DEF u, p
  <1> QED BY <1>2, <1>3, <1>5, <1>6, <1>8, <1>9

\* It keeps the invariant.
LEMMA PlanReserveStep == ASSUME PlanInv, NEW c \in PlanCalls, ReservePlan(c) PROVE PlanInv'
  <1> USE DEF PlanInv
  <1>1. /\ attempt \in [PlanIds -> PlanRows] /\ planCall \in [PlanCalls -> PlanCallStates]
        /\ planPaid \in [PlanIds -> Nat]
    BY PlanTypes
  <1>2. PICK r \in PlanIds, u \in PlanRows, p \in PlanCallStates :
             /\ r = planCall[c].id /\ ~HoldsPlan(planCall[c])
             /\ attempt[r].status = "prepared" /\ u.status = "reserved"
             /\ attempt' = [PlansRecovered EXCEPT ![r] = u]
             /\ planCall' = [planCall EXCEPT ![c] = p] /\ p.at = "reserved" /\ p.id = r
             /\ UNCHANGED <<plans, evidence, settings, planPaid>>
    BY PlanReserved
  <1>3. /\ attempt' \in [PlanIds -> PlanRows] /\ attempt'[r] = u
        /\ \A q \in PlanIds : q # r => PlanRowKept(q)
    BY <1>1, <1>2, PlanRecovery DEF PlanRowKept, PlanRowSame, PlanLapsed, OnTheBooks
  <1>4. \A d \in PlanCalls : planCall'[d] = IF d = c THEN p ELSE planCall[d] BY <1>1, <1>2
  <1>5. \A d \in PlanCalls : HoldsPlan(planCall[d]) => planCall[d].id # r BY <1>2 DEF PlansHeld
  <1>6. planPaid[r] = 0 BY <1>2 DEF PlansPaidFor, OnTheBooks
  <1>7. PlanTypeOK'
    <2>1. planCall' \in [PlanCalls -> PlanCallStates] BY <1>1, <1>2
    <2> QED BY <1>2, <1>3, <2>1, PlanTypes, PlanTypesAgain
  <1>8. PlansHeld'
    <2>1. ASSUME NEW d \in PlanCalls, d # c
          PROVE  /\ planCall'[d].at # "idle" => planCall'[d].id \in PlanIds
                 /\ HoldsPlan(planCall'[d]) => attempt'[planCall'[d].id].status \in {"reserved", "uncertain"}
                 /\ planCall'[d].at = "reserved" => planPaid'[planCall'[d].id] = 0
      BY <1>2, <1>3, <1>4, <1>5, <2>1 DEF PlansHeld, HoldsPlan, PlanRowKept, PlanRowSame, OnTheBooks
    <2> QED BY <1>2, <1>3, <1>4, <1>6, <2>1 DEF PlansHeld
  <1>9. PlanHeldOnce' BY <1>2, <1>4, <1>5 DEF PlanHeldOnce
  <1>10. PlansPaidFor' BY <1>2, <1>3, <1>6 DEF PlansPaidFor, PlanRowKept, PlanRowSame, OnTheBooks
  <1> QED BY <1>7, <1>8, <1>9, <1>10

\* The call is made: its row was charged and not paid.
LEMMA PlanDispatchStep == ASSUME PlanInv, NEW c \in PlanCalls, DispatchPlan(c) PROVE PlanInv'
  <1> USE DEF PlanInv
  <1>1. /\ attempt \in [PlanIds -> PlanRows] /\ planCall \in [PlanCalls -> PlanCallStates]
        /\ planPaid \in [PlanIds -> Nat]
    BY PlanTypes
  <1>2. PICK r \in PlanIds : r = planCall[c].id BY DEF DispatchPlan, PlansHeld
  <1> DEFINE p == [planCall[c] EXCEPT !.at = "generating"]
  <1>3. /\ planPaid' = [planPaid EXCEPT ![r] = planPaid[r] + 1] /\ planCall' = [planCall EXCEPT ![c] = p]
        /\ UNCHANGED <<attempt, plans, evidence, settings>>
    BY <1>2 DEF DispatchPlan, PlanTo, PlanMoves
  <1>4. HoldsPlan(planCall[c]) /\ attempt[r].status \in {"reserved", "uncertain"}
    BY <1>2 DEF DispatchPlan, HoldsPlan, PlansHeld
  <1>5. p \in PlanCallStates /\ p.at = "generating" /\ p.id = r BY <1>1, <1>2 DEF PlanCallStates
  <1> HIDE DEF p
  <1>6. planPaid' \in [PlanIds -> Nat] /\ \A q \in PlanIds : q # r => planPaid'[q] = planPaid[q]
    BY <1>1, <1>3
  <1>7. \A d \in PlanCalls : planCall'[d] = IF d = c THEN p ELSE planCall[d] BY <1>1, <1>3
  <1>8. \A d \in PlanCalls : d # c /\ HoldsPlan(planCall[d]) => planCall[d].id # r
    BY <1>2, <1>4 DEF PlanHeldOnce
  <1>9. PlanTypeOK'
    <2>1. planCall' \in [PlanCalls -> PlanCallStates] BY <1>1, <1>3, <1>5
    <2> QED BY <1>3, <1>6, <2>1, PlanTypes, PlanTypesAgain
  <1>10. PlansHeld'
    BY <1>3, <1>4, <1>5, <1>6, <1>7, <1>8 DEF PlansHeld, HoldsPlan
  <1>11. PlanHeldOnce' BY <1>4, <1>5, <1>7, <1>8 DEF PlanHeldOnce
  <1>12. PlansPaidFor' BY <1>3, <1>4, <1>6 DEF PlansPaidFor, OnTheBooks
  <1> QED BY <1>9, <1>10, <1>11, <1>12

\* The ways a call settles.
SettlesPlan(c) ==
    \/ SettleUnpaidPlan(c) \/ SettleUnknownPlan(c) \/ SettleWithoutPlan(c)
    \/ SettlePlan(c) \/ SettleWithheld(c)

\* A settlement closes the row that its call held, if it is still reserved, and nothing else.
LEMMA PlanSettled ==
    ASSUME PlanInv, NEW c \in PlanCalls, SettlesPlan(c)
    PROVE  /\ HoldsPlan(planCall[c]) /\ planCall[c].id \in PlanIds
           /\ planCall' = [planCall EXCEPT ![c] = NoPlanCall] /\ UNCHANGED <<evidence, settings, planPaid>>
           /\ plans' \subseteq plans \cup {planCall[c].id}
           /\ \/ attempt' = attempt /\ plans' = plans
              \/ \E u \in PlanRows :
                   /\ attempt' = [attempt EXCEPT ![planCall[c].id] = u]
                   /\ attempt[planCall[c].id].status = "reserved" /\ u.status \in {"settled", "uncertain"}
                   /\ u.status = "settled" => u.usage \in {"known", "zero"}
                   /\ u.usage = "zero" /\ u.status = "settled" => planCall[c].at = "reserved"
                   /\ plans' # plans => SettlePlan(c) /\ u.plan /\ u.usage = "known"
  <1> DEFINE r == planCall[c].id
  <1>1. /\ attempt \in [PlanIds -> PlanRows] /\ planCall[c] \in PlanCallStates
    BY PlanTypes DEF PlanInv
  <1>2. HoldsPlan(planCall[c])
    BY DEF SettlesPlan, SettleUnpaidPlan, SettleUnknownPlan, SettleWithoutPlan, SettlePlan, SettleWithheld, HoldsPlan
  <1>3. r \in PlanIds BY <1>2 DEF PlanInv, PlansHeld, HoldsPlan
  <1>11. attempt[r] \in PlanRows BY <1>1, <1>3
  <1>4. planCall' = [planCall EXCEPT ![c] = NoPlanCall] /\ UNCHANGED <<evidence, settings, planPaid>>
    BY DEF SettlesPlan, SettleUnpaidPlan, SettleUnknownPlan, SettleWithoutPlan, SettlePlan, SettleWithheld, PlanMoves
  <1>5. ASSUME NEW status \in {"settled", "uncertain"}, NEW usage \in {"none", "known", "zero"},
               PlanBooked(c, status, usage)
        PROVE  \E u \in PlanRows :
                 /\ attempt' = [attempt EXCEPT ![r] = u] /\ attempt[r].status = "reserved"
                 /\ u.status = status /\ u.usage = usage
    <2> DEFINE u == [attempt[r] EXCEPT !.status = status, !.usage = usage, !.live = FALSE]
    <2>1. attempt' = [attempt EXCEPT ![r] = u] /\ attempt[r].status = "reserved"
      BY <1>1, <1>3, <1>5 DEF PlanBooked
    <2>2. u \in PlanRows /\ u.status = status /\ u.usage = usage BY <1>11 DEF PlanRows
    <2> HIDE DEF u
    <2> QED BY <2>1, <2>2
  <1>6. CASE SettleUnpaidPlan(c)
    <2>1. PlanBooked(c, "settled", "zero") /\ planCall[c].at = "reserved" /\ plans' = plans
      BY <1>6 DEF SettleUnpaidPlan
    <2> HIDE DEF r
    <2>2. PICK u \in PlanRows : /\ attempt' = [attempt EXCEPT ![r] = u] /\ attempt[r].status = "reserved"
                               /\ u.status = "settled" /\ u.usage = "zero"
      BY <1>5, <2>1
    <2> QED BY <1>2, <1>3, <1>4, <2>1, <2>2 DEF r
  <1>7. CASE SettleUnknownPlan(c)
    <2>1. PlanBooked(c, "uncertain", "none") /\ plans' = plans BY <1>7 DEF SettleUnknownPlan, CostOfFailure
    <2> HIDE DEF r
    <2>2. PICK u \in PlanRows : /\ attempt' = [attempt EXCEPT ![r] = u] /\ attempt[r].status = "reserved"
                               /\ u.status = "uncertain" /\ u.usage = "none"
      BY <1>5, <2>1
    <2> QED BY <1>2, <1>3, <1>4, <2>1, <2>2 DEF r
  <1>8. CASE SettleWithoutPlan(c) \/ (SettleWithheld(c) /\ PlanBooked(c, "settled", "known"))
    <2>1. PlanBooked(c, "settled", "known") /\ plans' = plans BY <1>8 DEF SettleWithoutPlan, SettleWithheld
    <2> HIDE DEF r
    <2>2. PICK u \in PlanRows : /\ attempt' = [attempt EXCEPT ![r] = u] /\ attempt[r].status = "reserved"
                               /\ u.status = "settled" /\ u.usage = "known"
      BY <1>5, <2>1
    <2> QED BY <1>2, <1>3, <1>4, <2>1, <2>2 DEF r
  <1>9. CASE SettleWithheld(c) /\ UNCHANGED attempt
    BY <1>2, <1>3, <1>4, <1>9 DEF SettleWithheld
  <1>10. CASE SettlePlan(c)
    <2> DEFINE u == [attempt[r] EXCEPT !.status = "settled", !.usage = "known", !.live = FALSE, !.plan = TRUE]
    <2>1. /\ attempt' = [attempt EXCEPT ![r] = u] /\ attempt[r].status = "reserved" /\ plans' = plans \cup {r}
      BY <1>1, <1>3, <1>10 DEF SettlePlan
    <2>2. u \in PlanRows /\ u.status = "settled" /\ u.usage = "known" /\ u.plan BY <1>11 DEF PlanRows
    <2> HIDE DEF u, r
    <2> QED BY <1>2, <1>3, <1>4, <1>10, <2>1, <2>2 DEF r
  <1> QED BY <1>6, <1>7, <1>8, <1>9, <1>10 DEF SettlesPlan, SettleWithheld

\* It keeps the invariant.
LEMMA PlanSettleStep == ASSUME PlanInv, NEW c \in PlanCalls, SettlesPlan(c) PROVE PlanInv'
  <1> USE DEF PlanInv
  <1>1. /\ attempt \in [PlanIds -> PlanRows] /\ planCall \in [PlanCalls -> PlanCallStates]
        /\ plans \subseteq PlanIds
    BY PlanTypes
  <1>2. /\ HoldsPlan(planCall[c]) /\ planCall[c].id \in PlanIds
        /\ planCall' = [planCall EXCEPT ![c] = NoPlanCall] /\ UNCHANGED <<evidence, settings, planPaid>>
        /\ plans' \subseteq plans \cup {planCall[c].id}
    BY PlanSettled
  <1>3. PICK r \in PlanIds : r = planCall[c].id BY <1>2
  <1>4. PICK u \in PlanRows :
          /\ attempt' = [attempt EXCEPT ![r] = u]
          /\ u = attempt[r] \/ (attempt[r].status = "reserved" /\ u.status \in {"settled", "uncertain"})
          /\ u.status = "settled" => u.usage \in {"known", "zero"}
    <2>1. CASE attempt' = attempt
      <3>1. attempt' = [attempt EXCEPT ![r] = attempt[r]] /\ attempt[r] \in PlanRows BY <1>1, <2>1
      <3> QED BY <3>1 DEF PlansPaidFor
    <2>2. CASE attempt' # attempt BY <1>3, <2>2, PlanSettled
    <2> QED BY <2>1, <2>2
  <1>5. \A q \in PlanIds : attempt'[q] = IF q = r THEN u ELSE attempt[q] BY <1>1, <1>4
  <1>6. \A d \in PlanCalls : planCall'[d] = IF d = c THEN NoPlanCall ELSE planCall[d] BY <1>1, <1>2
  <1>7. \A d \in PlanCalls : d # c /\ HoldsPlan(planCall[d]) => planCall[d].id # r
    BY <1>2, <1>3 DEF PlanHeldOnce
  <1>8. PlanTypeOK'
    <2>1. attempt' \in [PlanIds -> PlanRows] /\ planCall' \in [PlanCalls -> PlanCallStates]
      BY <1>1, <1>2, <1>4, NoPlans
    <2> QED BY <1>1, <1>2, <2>1, PlanTypes, PlanTypesAgain
  <1>9. PlansHeld' BY <1>2, <1>5, <1>6, <1>7, NoPlans DEF PlansHeld, HoldsPlan
  <1>10. PlanHeldOnce' BY <1>6, NoPlans DEF PlanHeldOnce
  <1>11. PlansPaidFor' BY <1>2, <1>4, <1>5 DEF PlansPaidFor, OnTheBooks
  <1> QED BY <1>8, <1>9, <1>10, <1>11

\* The invariant of the plans holds throughout.
LEMMA PlanInductive == PlanSpec => []PlanInv
  <1>1. ASSUME PlanInit PROVE PlanInv
    <2>1. PlanTypeOK BY <1>1, NoPlans, PlanTypes, PlanAssumption DEF PlanInit
    <2>2. \A r \in PlanIds : attempt[r] = NoAttempt /\ planPaid[r] = 0 BY <1>1 DEF PlanInit
    <2>3. \A c \in PlanCalls : planCall[c] = NoPlanCall BY <1>1 DEF PlanInit
    <2>4. PlansHeld /\ PlanHeldOnce BY <2>3, NoPlans DEF PlansHeld, PlanHeldOnce
    <2>5. PlansPaidFor BY <2>2, NoPlans DEF PlansPaidFor
    <2> QED BY <2>1, <2>4, <2>5 DEF PlanInv
  <1>2. ASSUME PlanInv, [PlanNext]_planVars PROVE PlanInv'
    BY <1>2, PlanQuietStep, PlanRecoveryStep, PlanReserveStep, PlanDispatchStep, PlanSettleStep
    DEF PlanNext, SettlesPlan
  <1> QED BY <1>1, <1>2, PTL DEF PlanSpec

-----------------------------------------------------------------------------
(* The plans implement the ledger                                          *)

\* What the ledger has booked for a row.
PlanBook(r) ==
    CASE attempt[r].status = "settled" -> attempt[r].usage
      [] attempt[r].status = "uncertain" -> "unknown"
      [] OTHER -> "open"

\* The costs on the books before and after a step.
LEMMA PlanBooks ==
    /\ \A r \in PlanIds :
        /\ attempt[r].status = "settled" => PlanBook(r) = attempt[r].usage
        /\ attempt[r].status = "uncertain" => PlanBook(r) = "unknown"
        /\ attempt[r].status \notin {"settled", "uncertain"} => PlanBook(r) = "open"
    /\ \A r \in PlanIds :
        /\ attempt'[r].status = "settled" => PlanBook(r)' = attempt'[r].usage
        /\ attempt'[r].status = "uncertain" => PlanBook(r)' = "unknown"
        /\ attempt'[r].status \notin {"settled", "uncertain"} => PlanBook(r)' = "open"
  BY DEF PlanBook

\* The recovery of the lapsed reservations, while a set of rows is charged.
LEMMA PlanBooksRecovered ==
    ASSUME PlanInv, NEW W \in SUBSET PlanIds, NEW L \in SUBSET PlanIds,
           L = {q \in PlanIds : PlanLapsed(q)},
           \A q \in PlanIds \ W : attempt'[q] = PlansRecovered[q],
           \A q \in W : attempt[q].status = "prepared" /\ attempt'[q].status = "reserved"
    PROVE  /\ L \subseteq PlanCharged
           /\ \A q \in L : PlanBook(q) = "open"
           /\ PlanCharged' = PlanCharged \cup W
           /\ [r \in PlanIds |-> PlanBook(r)]' = [r \in PlanIds |-> IF r \in L THEN "unknown" ELSE PlanBook(r)]
  <1>1. \A q \in PlanIds : q \in L => attempt[q].status = "reserved" BY DEF PlanLapsed
  <1>2. L \subseteq PlanCharged BY <1>1 DEF PlanCharged
  <1>3. \A q \in L : PlanBook(q) = "open" BY <1>1, PlanBooks
  <1>4. \A q \in PlanIds \ W : /\ attempt'[q].usage = attempt[q].usage
                              /\ attempt'[q].status = IF q \in L THEN "uncertain" ELSE attempt[q].status
    BY PlanRecovery DEF PlanInv
  <1>5. PlanCharged' = PlanCharged \cup W
    BY <1>1, <1>4 DEF PlanCharged
  <1>6. \A q \in PlanIds \ W : PlanBook(q)' = IF q \in L THEN "unknown" ELSE PlanBook(q)
    <2>1. ASSUME NEW q \in PlanIds \ W, q \in L PROVE PlanBook(q)' = "unknown"
      BY <1>4, <2>1, PlanBooks
    <2>2. ASSUME NEW q \in PlanIds \ W, q \notin L PROVE PlanBook(q)' = PlanBook(q)
      BY <1>4, <2>2 DEF PlanBook
    <2> QED BY <2>1, <2>2
  <1>7. \A q \in W : q \notin L /\ PlanBook(q)' = "open" /\ PlanBook(q) = "open"
    BY <1>1, PlanBooks
  <1> QED BY <1>2, <1>3, <1>5, <1>6, <1>7

\* Every step of the service is a step of the ledger, or none of its business.
LEMMA PlanLedgerStep ==
    ASSUME PlanInv, [PlanNext]_planVars PROVE [PlanLedger!LedgerNext]_(PlanLedger!ledgerVars)
  <1> DEFINE book == [r \in PlanIds |-> PlanBook(r)]
  <1> USE DEF PlanInv
  <1>0. PICK lapsed \in SUBSET PlanIds : lapsed = {q \in PlanIds : PlanLapsed(q)} OBVIOUS
  <1>1. /\ attempt \in [PlanIds -> PlanRows] /\ planPaid \in [PlanIds -> Nat]
    BY PlanTypes
  <1>2. ASSUME planPaid' = planPaid, \A r \in PlanIds : PlanRowSame(r)
        PROVE  UNCHANGED (PlanLedger!ledgerVars)
    <2>1. PlanCharged' = PlanCharged BY <1>2 DEF PlanCharged, PlanRowSame, OnTheBooks
    <2>2. ASSUME NEW r \in PlanIds PROVE PlanBook(r)' = PlanBook(r)
      <3>1. CASE OnTheBooks(attempt[r].status) BY <1>2, <3>1 DEF PlanRowSame, PlanBook
      <3>2. CASE ~OnTheBooks(attempt[r].status) BY <1>2, <3>2, PlanBooks DEF PlanRowSame, OnTheBooks
      <3> QED BY <3>1, <3>2
    <2>3. book' = book BY <2>2
    <2> QED BY <1>2, <2>1, <2>3 DEF PlanLedger!ledgerVars, PlanBook
  <1>3. ASSUME \/ UNCHANGED planVars
               \/ MoveEvidence \/ MoveSettings
               \/ \E r \in PlanIds : CancelPlan(r) \/ LapsePlan(r) \/ AgePlan(r)
               \/ \E c \in PlanCalls :
                    \/ SavePreparation(c) \/ AnswerPlan(c) \/ RollBackPlan(c)
                    \/ DropPlan(c) \/ CancelPlanCall(c)
                    \/ \E r \in PlanIds : BuildPreparation(c, r) \/ AskPlan(c, r)
        PROVE  UNCHANGED (PlanLedger!ledgerVars)
    <2>1. planPaid' = planPaid
      BY <1>3 DEF planVars, MoveEvidence, MoveSettings, CancelPlan, LapsePlan, AgePlan, SavePreparation,
             AnswerPlan, RollBackPlan, DropPlan, CancelPlanCall, BuildPreparation, AskPlan
    <2> QED BY <1>2, <1>3, <2>1, PlanQuiet
  <1>4. ASSUME RecoverPlans \/ \E c \in PlanCalls : RefusePlan(c) PROVE PlanLedger!LedgerNext
    <2>1. attempt' = PlansRecovered /\ planPaid' = planPaid BY <1>4 DEF RecoverPlans, RefusePlan
    <2>2. /\ lapsed \subseteq PlanCharged /\ \A q \in lapsed : PlanBook(q) = "open"
          /\ PlanCharged' = PlanCharged \cup {}
          /\ book' = [r \in PlanIds |-> IF r \in lapsed THEN "unknown" ELSE PlanBook(r)]
      <3>1. {} \in SUBSET PlanIds OBVIOUS
      <3>2. \A q \in PlanIds \ {} : attempt'[q] = PlansRecovered[q] BY <2>1
      <3>3. \A q \in {} : attempt[q].status = "prepared" /\ attempt'[q].status = "reserved" OBVIOUS
      <3> QED BY <1>0, <3>1, <3>2, <3>3, PlanBooksRecovered
    <2>3. PlanLedger!Recover(lapsed)
      BY <2>1, <2>2 DEF PlanLedger!Recover, PlanLedger!Recovered, PlanBook
    <2> QED BY <2>3 DEF PlanLedger!LedgerNext
  <1>5. ASSUME NEW c \in PlanCalls, ReservePlan(c) PROVE PlanLedger!LedgerNext
    <2>1. PICK r \in PlanIds, u \in PlanRows, p \in PlanCallStates :
             /\ r = planCall[c].id /\ attempt[r].status = "prepared" /\ u.status = "reserved"
             /\ attempt' = [PlansRecovered EXCEPT ![r] = u] /\ planPaid' = planPaid
      BY <1>5, PlanReserved
    <2>2. r \notin PlanCharged /\ planPaid[r] = 0 /\ PlanBook(r) = "open"
      BY <2>1, PlanBooks DEF PlanCharged, PlansPaidFor, OnTheBooks
    <2>3. /\ \A q \in PlanIds \ {r} : attempt'[q] = PlansRecovered[q]
          /\ \A q \in {r} : attempt[q].status = "prepared" /\ attempt'[q].status = "reserved"
          /\ {r} \in SUBSET PlanIds
      BY <2>1, PlanRecovery
    <2>4. /\ lapsed \subseteq PlanCharged /\ \A q \in lapsed : PlanBook(q) = "open"
          /\ PlanCharged' = PlanCharged \cup {r}
          /\ book' = [q \in PlanIds |-> IF q \in lapsed THEN "unknown" ELSE PlanBook(q)]
      BY <1>0, <2>3, PlanBooksRecovered
    <2>5. PlanLedger!Charge(r, lapsed)
      BY <2>1, <2>2, <2>4 DEF PlanLedger!Charge, PlanLedger!Recovered, PlanBook
    <2> QED BY <2>5 DEF PlanLedger!LedgerNext
  <1>6. ASSUME NEW c \in PlanCalls, DispatchPlan(c) PROVE PlanLedger!LedgerNext
    <2>1. PICK r \in PlanIds : r = planCall[c].id BY <1>6 DEF DispatchPlan, PlansHeld
    <2>2. attempt[r].status \in {"reserved", "uncertain"} /\ planPaid[r] = 0
      BY <1>6, <2>1 DEF DispatchPlan, PlansHeld, HoldsPlan
    <2>3. attempt' = attempt /\ planPaid' = [planPaid EXCEPT ![r] = planPaid[r] + 1]
      BY <1>6, <2>1 DEF DispatchPlan
    <2>4. r \in PlanCharged /\ PlanBook(r) # "zero" BY <2>2, PlanBooks DEF PlanCharged
    <2>5. planPaid' = [planPaid EXCEPT ![r] = 1] BY <2>2, <2>3
    <2>6. PlanCharged' = PlanCharged /\ book' = book BY <2>3 DEF PlanCharged, PlanBook
    <2>7. PlanLedger!Pay(r) BY <2>2, <2>4, <2>5, <2>6 DEF PlanLedger!Pay, PlanBook
    <2> QED BY <2>7 DEF PlanLedger!LedgerNext
  <1>7. ASSUME NEW c \in PlanCalls, SettlesPlan(c)
        PROVE  PlanLedger!LedgerNext \/ UNCHANGED (PlanLedger!ledgerVars)
    <2>1. PICK r \in PlanIds : r = planCall[c].id BY <1>7, PlanSettled
    <2>2. planPaid' = planPaid BY <1>7, PlanSettled
    <2>3. CASE attempt' = attempt BY <1>2, <2>2, <2>3 DEF PlanRowSame
    <2>4. CASE attempt' # attempt
      <3>1. PICK u \in PlanRows :
                   /\ attempt' = [attempt EXCEPT ![r] = u]
                   /\ attempt[r].status = "reserved" /\ u.status \in {"settled", "uncertain"}
                   /\ u.status = "settled" => u.usage \in {"known", "zero"}
                   /\ u.usage = "zero" /\ u.status = "settled" => planCall[c].at = "reserved"
        BY <1>7, <2>1, <2>4, PlanSettled
      <3>2. PICK cost \in {"unknown", "known", "zero"} :
              cost = IF u.status = "settled" THEN u.usage ELSE "unknown"
        BY <3>1
      <3>3. cost = "zero" => planPaid[r] = 0 BY <2>1, <3>1, <3>2 DEF PlansHeld
      <3>4. \A q \in PlanIds : attempt'[q] = IF q = r THEN u ELSE attempt[q] BY <1>1, <3>1
      <3>5. r \in PlanCharged /\ PlanCharged' = PlanCharged BY <3>1, <3>4 DEF PlanCharged
      <3>6. PlanBook(r) = "open" BY <3>1, PlanBooks
      <3>7. book' = [book EXCEPT ![r] = cost]
        <4>1. \A q \in PlanIds : q # r => PlanBook(q)' = PlanBook(q) BY <3>4 DEF PlanBook
        <4>2. attempt'[r].status = u.status /\ attempt'[r].usage = u.usage BY <3>4
        <4>3. PlanBook(r)' = cost BY <3>1, <3>2, <4>2, PlanBooks
        <4> QED BY <4>1, <4>3
      <3>8. PlanLedger!Book(r, cost)
        BY <2>2, <3>3, <3>5, <3>6, <3>7 DEF PlanLedger!Book, PlanBook
      <3> QED BY <3>8 DEF PlanLedger!LedgerNext
    <2> QED BY <2>3, <2>4
  <1> QED BY <1>3, <1>4, <1>5, <1>6, <1>7 DEF PlanNext, SettlesPlan

\* A plan is charged before it is asked for, asked for at most once, never free again and
\* never booked as costless after it was asked for, for any requests, calls and quotas.
THEOREM PlansImplementLedger == PlanSpec => PlansAreLedgered
  <1>1. ASSUME PlanInit PROVE PlanLedger!LedgerInit
    <2>1. \A r \in PlanIds : attempt[r] = NoAttempt BY <1>1 DEF PlanInit
    <2>2. PlanCharged = {} BY <2>1, NoPlans DEF PlanCharged
    <2>3. \A r \in PlanIds : PlanBook(r) = "open" BY <2>1, NoPlans, PlanBooks
    <2>4. [r \in PlanIds |-> PlanBook(r)] = [r \in PlanIds |-> "open"] BY <2>3
    <2> QED BY <1>1, <2>2, <2>4 DEF PlanInit, PlanLedger!LedgerInit, PlanBook
  <1> QED BY <1>1, PlanLedgerStep, PlanInductive, PTL DEF PlanSpec, PlansAreLedgered, PlanLedger!LedgerSpec

\* A plan is stored with its settled row, only while what it was built on still stands and
\* nobody cancelled it.
THEOREM PlansFresh == PlanSpec => PlansStoredFresh
  <1> DEFINE Fresh == \A r \in plans' \ plans :
        /\ PlanFresh(r) /\ attempt'[r].plan /\ attempt'[r].usage = "known"
        /\ \A c \in PlanCalls : planCall[c].id = r /\ planCall[c].at = "answered" => ~planCall[c].cancelled
  <1>1. ASSUME PlanInv, [PlanNext]_planVars PROVE [Fresh]_planVars
    <2>1. CASE plans' = plans BY <2>1
    <2>2. ASSUME NEW c \in PlanCalls, SettlesPlan(c) PROVE Fresh
      <3>1. PICK r \in PlanIds : r = planCall[c].id BY <1>1, <2>2, PlanSettled
      <3>2. plans' \subseteq plans \cup {r} /\ HoldsPlan(planCall[c]) BY <1>1, <2>2, <3>1, PlanSettled
      <3>3. CASE plans' # plans
        <4>1. PICK u \in PlanRows : attempt' = [attempt EXCEPT ![r] = u] /\ u.plan /\ u.usage = "known" /\ SettlePlan(c)
          BY <1>1, <2>2, <3>1, <3>3, PlanSettled
        <4>2. attempt'[r] = u BY <1>1, <4>1, PlanTypes DEF PlanInv
        <4>3. PlanFresh(r) /\ ~planCall[c].cancelled BY <3>1, <4>1 DEF SettlePlan, PlanStorable
        <4>4. \A d \in PlanCalls : planCall[d].id = r /\ planCall[d].at = "answered" => d = c
          BY <1>1, <3>1, <3>2 DEF PlanInv, PlanHeldOnce, HoldsPlan
        <4> QED BY <3>2, <4>1, <4>2, <4>3, <4>4
      <3> QED BY <2>1, <3>3
    <2>3. CASE ~\E c \in PlanCalls : SettlesPlan(c)
      <3>1. plans' = plans
        BY <1>1, <2>3 DEF PlanNext, SettlesPlan, planVars, MoveEvidence, MoveSettings, CancelPlan,
             LapsePlan, AgePlan, SavePreparation, AnswerPlan, RollBackPlan, DropPlan, CancelPlanCall,
             BuildPreparation, AskPlan, RecoverPlans, RefusePlan, ReservePlan, DispatchPlan
      <3> QED BY <2>1, <3>1
    <2> QED BY <2>2, <2>3
  <1> QED BY <1>1, PlanInductive, PTL DEF PlanSpec, PlansStoredFresh

-----------------------------------------------------------------------------
(* The coaching service                                                    *)

\* The values of a row and of a call.
HintRows == [status : {"absent", "reserved", "settled", "uncertain"},
             live : BOOLEAN, recent : BOOLEAN, snapshot : 0 .. MaxHeads, level : Levels \cup {0},
             usage : {"none", "known", "zero"}, text : BOOLEAN]
HintCallStates == [at : {"idle", "asking", "reserved", "generating", "answered"},
                   id : HintIds \cup {NoHintId}, level : Levels \cup {0}, snapshot : 0 .. MaxHeads,
                   cancelled : BOOLEAN, answer : {"none", "threw", "failed", "hint"}]

\* A call that has reserved its row and not settled it.
HoldsHint(p) == p.at \in {"reserved", "generating", "answered"}

\* A call at work has an id; one that holds its row finds it charged and not settled, on
\* its own snapshot, and free of a payment until it is dispatched.
HintsHeld ==
    \A c \in HintCalls :
        /\ hintCall[c].at # "idle" => hintCall[c].id \in HintIds
        /\ HoldsHint(hintCall[c]) =>
            /\ hint[hintCall[c].id].status \in {"reserved", "uncertain"}
            /\ hint[hintCall[c].id].snapshot = hintCall[c].snapshot
        /\ hintCall[c].at = "reserved" => hintPaid[hintCall[c].id] = 0

\* No two calls hold the same row.
HintHeldOnce ==
    \A c, d \in HintCalls :
        HoldsHint(hintCall[c]) /\ HoldsHint(hintCall[d]) /\ hintCall[c].id = hintCall[d].id => c = d

\* Only what is charged is paid, only what is settled has a text, and it has a cost.
HintsPaidFor ==
    \A r \in HintIds :
        /\ hint[r].status = "absent" => hintPaid[r] = 0
        /\ hint[r].text => hint[r].status = "settled"
        /\ hint[r].status = "settled" => hint[r].usage \in {"known", "zero"}

\* A row is charged only above earned levels.
HintLevelsEarned == \A r \in HintCharged : 1 .. hint[r].level - 1 \subseteq EarnedOn(hint[r].snapshot)

HintInv == HintTypeOK /\ HintsHeld /\ HintHeldOnce /\ HintsPaidFor /\ HintLevelsEarned

-----------------------------------------------------------------------------

\* The type invariant by these sets of values, before and after a step.
LEMMA HintTypes ==
    HintTypeOK <=> /\ hint \in [HintIds -> HintRows] /\ head \in 0 .. MaxHeads
                   /\ hintCall \in [HintCalls -> HintCallStates] /\ hintPaid \in [HintIds -> Nat]
  BY DEF HintTypeOK, HintRows, HintCallStates

\* The same after a step.
LEMMA HintTypesAgain ==
    HintTypeOK' <=> /\ hint' \in [HintIds -> HintRows] /\ head' \in 0 .. MaxHeads
                    /\ hintCall' \in [HintCalls -> HintCallStates] /\ hintPaid' \in [HintIds -> Nat]
  BY DEF HintTypeOK, HintRows, HintCallStates

\* What every hint begins with.
LEMMA NoHints ==
    /\ NoHint \in HintRows /\ NoHint.status = "absent" /\ ~NoHint.text /\ NoHint.usage = "none"
    /\ NoHintCall \in HintCallStates /\ NoHintCall.at = "idle"
  BY HintAssumption DEF NoHint, NoHintCall, HintRows, HintCallStates

\* A row that keeps what it is about and how it was booked; a reservation may have been
\* recovered.
HintRowKept(r) ==
    /\ hint'[r].snapshot = hint[r].snapshot /\ hint'[r].level = hint[r].level
    /\ hint'[r].text = hint[r].text /\ hint'[r].usage = hint[r].usage
    /\ hint'[r].status = hint[r].status \/ (hint[r].status = "reserved" /\ hint'[r].status = "uncertain")

HintRowsKept == hint' \in [HintIds -> HintRows] /\ \A r \in HintIds : HintRowKept(r)

\* What a recovery, a lapse and the end of the window do.
LEMMA HintRecovery ==
    ASSUME HintTypeOK
    PROVE  /\ HintsRecovered \in [HintIds -> HintRows]
           /\ \A r \in HintIds :
                /\ HintsRecovered[r].snapshot = hint[r].snapshot /\ HintsRecovered[r].level = hint[r].level
                /\ HintsRecovered[r].text = hint[r].text /\ HintsRecovered[r].usage = hint[r].usage
                /\ HintsRecovered[r].status = IF HintLapsed(r) THEN "uncertain" ELSE hint[r].status
  <1>1. hint \in [HintIds -> HintRows] BY HintTypes
  <1>2. ASSUME NEW r \in HintIds PROVE [hint[r] EXCEPT !.status = "uncertain"] \in HintRows
    BY <1>1 DEF HintRows
  <1>3. ASSUME NEW r \in HintIds
        PROVE  LET u == [hint[r] EXCEPT !.status = "uncertain"]
               IN  /\ u.snapshot = hint[r].snapshot /\ u.level = hint[r].level
                   /\ u.text = hint[r].text /\ u.usage = hint[r].usage /\ u.status = "uncertain"
    BY <1>1 DEF HintRows
  <1>4. \A r \in HintIds : HintsRecovered[r] = IF HintLapsed(r) THEN [hint[r] EXCEPT !.status = "uncertain"] ELSE hint[r]
    BY DEF HintsRecovered
  <1>5. HintsRecovered \in [HintIds -> HintRows] BY <1>1, <1>2 DEF HintsRecovered
  <1>6. ASSUME NEW r \in HintIds
        PROVE  /\ HintsRecovered[r].snapshot = hint[r].snapshot /\ HintsRecovered[r].level = hint[r].level
               /\ HintsRecovered[r].text = hint[r].text /\ HintsRecovered[r].usage = hint[r].usage
               /\ HintsRecovered[r].status = IF HintLapsed(r) THEN "uncertain" ELSE hint[r].status
    BY <1>3, <1>4
  <1> QED BY <1>5, <1>6

\* The steps that change no row but by a recovery.
LEMMA HintQuietRows ==
    ASSUME HintTypeOK,
           \/ UNCHANGED hint \/ hint' = HintsRecovered
           \/ \E r \in HintIds : LapseHint(r) \/ AgeHint(r)
    PROVE  HintRowsKept
  <1>1. hint \in [HintIds -> HintRows] BY HintTypes
  <1>2. CASE UNCHANGED hint BY <1>1, <1>2 DEF HintRowsKept, HintRowKept
  <1>3. CASE hint' = HintsRecovered BY <1>1, <1>3, HintRecovery DEF HintRowsKept, HintRowKept, HintLapsed
  <1>4. ASSUME NEW r \in HintIds, LapseHint(r) \/ AgeHint(r) PROVE HintRowsKept
    <2>1. \/ hint' = [hint EXCEPT ![r] = [hint[r] EXCEPT !.live = FALSE]]
          \/ hint' = [hint EXCEPT ![r] = [hint[r] EXCEPT !.recent = FALSE]]
      BY <1>4 DEF LapseHint, AgeHint
    <2>2. hint[r] \in HintRows BY <1>1
    <2>3. PICK u \in HintRows : /\ hint' = [hint EXCEPT ![r] = u]
            /\ u.snapshot = hint[r].snapshot /\ u.level = hint[r].level
            /\ u.text = hint[r].text /\ u.usage = hint[r].usage /\ u.status = hint[r].status
      <3>1. /\ [hint[r] EXCEPT !.live = FALSE] \in HintRows /\ [hint[r] EXCEPT !.recent = FALSE] \in HintRows
        BY <2>2 DEF HintRows
      <3> DEFINE l == [hint[r] EXCEPT !.live = FALSE]
                 m == [hint[r] EXCEPT !.recent = FALSE]
      <3>4. /\ l.snapshot = hint[r].snapshot /\ l.level = hint[r].level
            /\ l.text = hint[r].text /\ l.usage = hint[r].usage /\ l.status = hint[r].status
            /\ m.snapshot = hint[r].snapshot /\ m.level = hint[r].level
            /\ m.text = hint[r].text /\ m.usage = hint[r].usage /\ m.status = hint[r].status
        BY <2>2 DEF HintRows
      <3>5. hint' = [hint EXCEPT ![r] = l] \/ hint' = [hint EXCEPT ![r] = m] BY <2>1
      <3>6. l \in HintRows /\ m \in HintRows BY <3>1
      <3> HIDE DEF l, m
      <3>2. CASE hint' = [hint EXCEPT ![r] = l] BY <3>2, <3>4, <3>6
      <3>3. CASE hint' = [hint EXCEPT ![r] = m] BY <3>3, <3>4, <3>6
      <3> QED BY <3>5, <3>2, <3>3
    <2>4. hint' \in [HintIds -> HintRows] BY <1>1, <2>3
    <2>5. \A q \in HintIds : HintRowKept(q) BY <1>1, <2>3 DEF HintRowKept
    <2> QED BY <2>4, <2>5 DEF HintRowsKept
  <1> QED BY <1>2, <1>3, <1>4

\* What was earned stays earned.
HintTextsStay == \A r \in HintIds : hint[r].text =>
    hint'[r].text /\ hint'[r].snapshot = hint[r].snapshot /\ hint'[r].level = hint[r].level

\* So the levels earned on a snapshot only grow.
LEMMA HintEarnedStays ==
    ASSUME HintTextsStay, NEW s
    PROVE  EarnedOn(s) \subseteq {hint'[r].level : r \in {q \in HintIds : hint'[q].text /\ hint'[q].snapshot = s}}
  BY DEF HintTextsStay, EarnedOn

\* Rows that are kept, while at most one call moves on.
LEMMA HintKeptStep ==
    ASSUME HintInv, HintRowsKept, head' \in 0 .. MaxHeads, hintPaid' = hintPaid,
           \/ UNCHANGED hintCall
           \/ \E c \in HintCalls, p \in HintCallStates :
                /\ hintCall' = [hintCall EXCEPT ![c] = p]
                /\ p.at # "idle" => p.id \in HintIds
                /\ HoldsHint(p) =>
                    /\ HoldsHint(hintCall[c]) /\ p.id = hintCall[c].id /\ p.snapshot = hintCall[c].snapshot
                    /\ p.at = "reserved" => hintCall[c].at = "reserved"
    PROVE  HintInv'
  <1> USE DEF HintInv
  <1>1. hint \in [HintIds -> HintRows] /\ hintCall \in [HintCalls -> HintCallStates]
    BY HintTypes
  <1>2. ASSUME NEW c \in HintCalls
        PROVE  /\ hintCall'[c].at # "idle" => hintCall'[c].id \in HintIds
               /\ HoldsHint(hintCall'[c]) =>
                    /\ HoldsHint(hintCall[c]) /\ hintCall'[c].id = hintCall[c].id
                    /\ hintCall'[c].snapshot = hintCall[c].snapshot
                    /\ hintCall'[c].at = "reserved" => hintCall[c].at = "reserved"
    BY <1>1 DEF HintsHeld
  <1>3. hintCall' \in [HintCalls -> HintCallStates] BY <1>1
  <1>4. HintTypeOK' BY <1>3, HintTypes, HintTypesAgain DEF HintRowsKept
  <1>5. HintsHeld' BY <1>2 DEF HintsHeld, HoldsHint, HintRowsKept, HintRowKept
  <1>6. HintHeldOnce' BY <1>2 DEF HintHeldOnce
  <1>7. HintsPaidFor' BY DEF HintsPaidFor, HintRowsKept, HintRowKept
  <1>8. HintLevelsEarned'
    <2>1. HintTextsStay BY DEF HintTextsStay, HintRowsKept, HintRowKept
    <2>2. \A r \in HintIds : hint'[r].status # "absent" => hint[r].status # "absent"
      BY DEF HintRowsKept, HintRowKept
    <2>3. ASSUME NEW r \in HintIds, hint'[r].status # "absent"
          PROVE  1 .. hint'[r].level - 1 \subseteq EarnedOn(hint[r].snapshot)
      BY <2>2, <2>3 DEF HintLevelsEarned, HintCharged, HintRowsKept, HintRowKept
    <2>4. \A r \in HintIds : hint'[r].snapshot = hint[r].snapshot BY DEF HintRowsKept, HintRowKept
    <2>5. ASSUME NEW r \in HintIds, hint'[r].status # "absent"
          PROVE  1 .. hint'[r].level - 1 \subseteq {hint'[w].level : w \in {q \in HintIds : hint'[q].text /\ hint'[q].snapshot = hint'[r].snapshot}}
      BY <2>1, <2>3, <2>4, <2>5, HintEarnedStays
    <2> QED BY <2>5 DEF HintLevelsEarned, HintCharged, EarnedOn
  <1> QED BY <1>4, <1>5, <1>6, <1>7, <1>8

\* A call that is asked for, answered or cancelled, or leaves: its row is left alone.
LEMMA HintCallStep ==
    ASSUME HintInv, NEW c \in HintCalls,
           \/ \E r \in HintIds, level \in Levels : AskHint(c, r, level)
           \/ RefuseHint(c) \/ AnswerHint(c) \/ DropHint(c) \/ CancelHint(c)
    PROVE  HintInv'
  <1>1. hint \in [HintIds -> HintRows] /\ hintCall[c] \in HintCallStates /\ head \in 0 .. MaxHeads
    BY HintTypes DEF HintInv
  <1>2. HintRowsKept /\ UNCHANGED <<head, hintPaid>>
    BY HintQuietRows DEF HintInv, AskHint, RefuseHint, AnswerHint, DropHint, CancelHint
  <1>3. ASSUME NEW r \in HintIds, NEW level \in Levels, AskHint(c, r, level) PROVE HintInv'
    <2> DEFINE p == [NoHintCall EXCEPT !.at = "asking", !.id = r, !.level = level, !.snapshot = head]
    <2>1. p \in HintCallStates /\ p.id = r /\ ~HoldsHint(p)
      BY <1>1 DEF NoHintCall, HintCallStates, HoldsHint
    <2>2. hintCall' = [hintCall EXCEPT ![c] = p] BY <1>3 DEF AskHint, HintMoves
    <2> HIDE DEF p
    <2> QED BY <1>1, <1>2, <2>1, <2>2, HintKeptStep
  <1>4. CASE RefuseHint(c) \/ DropHint(c)
    <2>1. hintCall' = [hintCall EXCEPT ![c] = NoHintCall] BY <1>4 DEF RefuseHint, DropHint, HintMoves
    <2>2. NoHintCall.at = "idle" /\ ~HoldsHint(NoHintCall) BY NoHints DEF HoldsHint
    <2> QED BY <1>1, <1>2, <2>1, <2>2, NoHints, HintKeptStep
  <1>5. CASE AnswerHint(c)
    <2>1. PICK answer \in {"threw", "failed", "hint"} :
            hintCall' = [hintCall EXCEPT ![c] = [hintCall[c] EXCEPT !.at = "answered", !.answer = answer]]
      BY <1>5 DEF AnswerHint, HintMoves
    <2> DEFINE p == [hintCall[c] EXCEPT !.at = "answered", !.answer = answer]
    <2>2. p \in HintCallStates /\ p.at = "answered" /\ p.id = hintCall[c].id /\ p.snapshot = hintCall[c].snapshot
      BY <1>1 DEF HintCallStates
    <2>3. HoldsHint(hintCall[c]) /\ hintCall[c].id \in HintIds
      BY <1>5 DEF AnswerHint, HoldsHint, HintInv, HintsHeld
    <2>4. hintCall' = [hintCall EXCEPT ![c] = p] BY <2>1
    <2> HIDE DEF p
    <2> QED BY <1>1, <1>2, <2>2, <2>3, <2>4, HintKeptStep
  <1>6. CASE CancelHint(c)
    <2> DEFINE p == [hintCall[c] EXCEPT !.cancelled = TRUE]
    <2>1. hintCall' = [hintCall EXCEPT ![c] = p] BY <1>6 DEF CancelHint, HintMoves
    <2>2. /\ p \in HintCallStates /\ p.at = hintCall[c].at /\ p.id = hintCall[c].id
          /\ p.snapshot = hintCall[c].snapshot
      BY <1>1 DEF HintCallStates
    <2>3. p.at # "idle" => p.id \in HintIds BY <2>2 DEF HintInv, HintsHeld
    <2>4. HoldsHint(p) => HoldsHint(hintCall[c]) BY <2>2 DEF HoldsHint
    <2> HIDE DEF p
    <2> QED BY <1>1, <1>2, <2>1, <2>2, <2>3, <2>4, HintKeptStep
  <1> QED BY <1>3, <1>4, <1>5, <1>6

\* The clock and the head move.
LEMMA HintAroundStep ==
    ASSUME HintInv, MoveHead \/ \E r \in HintIds : LapseHint(r) \/ AgeHint(r) PROVE HintInv'
  <1>1. head \in 0 .. MaxHeads BY HintTypes DEF HintInv
  <1>2. HintRowsKept BY HintQuietRows DEF HintInv, MoveHead
  <1>3. head' \in 0 .. MaxHeads BY <1>1, HintAssumption DEF MoveHead, LapseHint, AgeHint
  <1>4. UNCHANGED <<hintCall, hintPaid>> BY DEF MoveHead, LapseHint, AgeHint
  <1> QED BY <1>2, <1>3, <1>4, HintKeptStep

\* A reservation: a new row, charged, above earned levels, for a call that held none.
LEMMA HintReserveStep == ASSUME HintInv, NEW c \in HintCalls, ReserveHint(c) PROVE HintInv'
  <1> USE DEF HintInv
  <1>1. /\ hint \in [HintIds -> HintRows] /\ hintCall \in [HintCalls -> HintCallStates]
        /\ hintPaid \in [HintIds -> Nat] /\ head \in 0 .. MaxHeads
    BY HintTypes
  <1> DEFINE r == hintCall[c].id
             p == [hintCall[c] EXCEPT !.at = "reserved"]
             u == [NoHint EXCEPT !.status = "reserved", !.live = TRUE, !.recent = TRUE,
                                 !.snapshot = hintCall[c].snapshot, !.level = hintCall[c].level]
  <1>2. /\ hint' = [HintsRecovered EXCEPT ![r] = u] /\ hintCall' = [hintCall EXCEPT ![c] = p]
        /\ UNCHANGED <<head, hintPaid>>
    BY DEF ReserveHint, HintMoves
  <1>3. r \in HintIds /\ ~HoldsHint(hintCall[c]) /\ hint[r].status = "absent"
    BY DEF ReserveHint, HintReservable, HintsHeld, HoldsHint
  <1>4. 1 .. hintCall[c].level - 1 \subseteq EarnedOn(hintCall[c].snapshot)
    BY DEF ReserveHint, HintReservable
  <1>5. /\ p \in HintCallStates /\ p.at = "reserved" /\ p.id = r /\ p.snapshot = hintCall[c].snapshot
    BY <1>1 DEF HintCallStates
  <1>6. /\ u \in HintRows /\ u.status = "reserved" /\ u.snapshot = hintCall[c].snapshot
        /\ u.level = hintCall[c].level /\ ~u.text
    <2>1. hintCall[c].level \in Levels \cup {0} /\ hintCall[c].snapshot \in 0 .. MaxHeads
      BY <1>1 DEF HintCallStates
    <2> QED BY <2>1 DEF NoHint, HintRows
  <1> HIDE DEF r, p, u
  <1>7. /\ hint' \in [HintIds -> HintRows] /\ hint'[r] = u
        /\ \A q \in HintIds \ {r} : HintRowKept(q)
    BY <1>1, <1>2, <1>3, <1>6, HintRecovery DEF HintRowKept, HintLapsed
  <1>8. hintCall' \in [HintCalls -> HintCallStates] BY <1>1, <1>2, <1>5
  <1>9. HintTypeOK' BY <1>1, <1>2, <1>7, <1>8, HintTypesAgain
  <1>10. \A d \in HintCalls : HoldsHint(hintCall[d]) => hintCall[d].id # r
    BY <1>3 DEF HintsHeld
  <1>11. HintsHeld'
    <2>1. ASSUME NEW d \in HintCalls, d # c
          PROVE  /\ hintCall'[d].at # "idle" => hintCall'[d].id \in HintIds
                 /\ HoldsHint(hintCall'[d]) =>
                    /\ hint'[hintCall'[d].id].status \in {"reserved", "uncertain"}
                    /\ hint'[hintCall'[d].id].snapshot = hintCall'[d].snapshot
                 /\ hintCall'[d].at = "reserved" => hintPaid'[hintCall'[d].id] = 0
      <3>1. hintCall'[d] = hintCall[d] BY <1>1, <1>2, <2>1
      <3> QED BY <1>2, <1>7, <1>10, <3>1 DEF HintsHeld, HoldsHint, HintRowKept
    <2>2. /\ hintCall'[c] = p /\ p.id \in HintIds
          /\ hint'[p.id].status = "reserved" /\ hint'[p.id].snapshot = p.snapshot
          /\ hintPaid'[p.id] = 0
      BY <1>1, <1>2, <1>3, <1>5, <1>6, <1>7 DEF HintsPaidFor
    <2> QED BY <2>1, <2>2 DEF HintsHeld
  <1>12. HintHeldOnce'
    BY <1>1, <1>2, <1>5, <1>10 DEF HintHeldOnce
  <1>13. HintsPaidFor'
    BY <1>2, <1>3, <1>6, <1>7 DEF HintsPaidFor, HintRowKept
  <1>14. HintLevelsEarned'
    <2>1. HintTextsStay BY <1>3, <1>7 DEF HintTextsStay, HintRowKept, HintsPaidFor
    <2>2. ASSUME NEW q \in HintIds, hint'[q].status # "absent"
          PROVE  1 .. hint'[q].level - 1 \subseteq EarnedOn(hint'[q].snapshot)
      <3>1. CASE q = r BY <1>4, <1>6, <1>7, <3>1
      <3>2. CASE q # r
        BY <1>7, <2>2, <3>2 DEF HintLevelsEarned, HintCharged, HintRowKept
      <3> QED BY <3>1, <3>2
    <2>3. ASSUME NEW q \in HintIds, hint'[q].status # "absent"
          PROVE  1 .. hint'[q].level - 1 \subseteq {hint'[w].level : w \in {v \in HintIds : hint'[v].text /\ hint'[v].snapshot = hint'[q].snapshot}}
      BY <2>1, <2>2, <2>3, HintEarnedStays
    <2> QED BY <2>3 DEF HintLevelsEarned, HintCharged, EarnedOn
  <1> QED BY <1>9, <1>11, <1>12, <1>13, <1>14

\* The call is made: its row was charged and not paid.
LEMMA HintDispatchStep == ASSUME HintInv, NEW c \in HintCalls, DispatchHint(c) PROVE HintInv'
  <1> USE DEF HintInv
  <1>1. /\ hint \in [HintIds -> HintRows] /\ hintCall \in [HintCalls -> HintCallStates]
        /\ hintPaid \in [HintIds -> Nat] /\ head \in 0 .. MaxHeads
    BY HintTypes
  <1> DEFINE r == hintCall[c].id
             p == [hintCall[c] EXCEPT !.at = "generating"]
  <1>2. /\ hintPaid' = [hintPaid EXCEPT ![r] = hintPaid[r] + 1] /\ hintCall' = [hintCall EXCEPT ![c] = p]
        /\ UNCHANGED <<hint, head>>
    BY DEF DispatchHint, HintMoves
  <1>3. HoldsHint(hintCall[c]) /\ r \in HintIds /\ hint[r].status # "absent"
    BY DEF DispatchHint, HoldsHint, HintsHeld
  <1>4. p \in HintCallStates /\ p.at = "generating" /\ p.id = r /\ p.snapshot = hintCall[c].snapshot
    BY <1>1 DEF HintCallStates
  <1> HIDE DEF r, p
  <1>5. hintPaid' \in [HintIds -> Nat] /\ \A q \in HintIds : q # r => hintPaid'[q] = hintPaid[q]
    BY <1>1, <1>2, <1>3
  <1>6. hintCall' \in [HintCalls -> HintCallStates] BY <1>1, <1>2, <1>4
  <1>7. HintTypeOK' BY <1>1, <1>2, <1>5, <1>6, HintTypesAgain
  <1>8. \A d \in HintCalls : hintCall'[d] = IF d = c THEN p ELSE hintCall[d] BY <1>1, <1>2
  <1>9. \A d \in HintCalls \ {c} : HoldsHint(hintCall[d]) => hintCall[d].id # r
    BY <1>3 DEF HintHeldOnce, r
  <1>10. HintsHeld'
    <2>1. ASSUME NEW d \in HintCalls \ {c}
          PROVE  /\ hintCall'[d].at # "idle" => hintCall'[d].id \in HintIds
                 /\ HoldsHint(hintCall'[d]) =>
                    /\ hint'[hintCall'[d].id].status \in {"reserved", "uncertain"}
                    /\ hint'[hintCall'[d].id].snapshot = hintCall'[d].snapshot
                 /\ hintCall'[d].at = "reserved" => hintPaid'[hintCall'[d].id] = 0
      BY <1>2, <1>5, <1>8, <1>9 DEF HintsHeld, HoldsHint
    <2>2. /\ hintCall'[c] = p /\ p.id \in HintIds
          /\ hint'[p.id].status \in {"reserved", "uncertain"} /\ hint'[p.id].snapshot = p.snapshot
      BY <1>2, <1>3, <1>4, <1>8 DEF HintsHeld, r
    <2> QED BY <1>4, <2>1, <2>2 DEF HintsHeld
  <1>11. HintHeldOnce' BY <1>3, <1>4, <1>8, <1>9 DEF HintHeldOnce
  <1>12. HintsPaidFor' BY <1>2, <1>3, <1>5 DEF HintsPaidFor
  <1>13. HintLevelsEarned' BY <1>2 DEF HintLevelsEarned, HintCharged, EarnedOn
  <1> QED BY <1>7, <1>10, <1>11, <1>12, <1>13

\* What a settlement writes.
HintSettles(c) ==
    \E status \in {"settled", "uncertain"}, usage \in {"none", "known", "zero"}, text \in BOOLEAN :
        /\ HintBooked(c, status, usage, text)
        /\ text => status = "settled" /\ usage = "known" /\ Given(c) /\ hintCall[c].at = "answered"
        /\ status = "settled" <=> usage # "none"
        /\ usage = "zero" => hintCall[c].at = "reserved"

\* The ways a call settles.
LEMMA HintSettlements ==
    ASSUME HintInv, NEW c \in HintCalls, SettleUnpaidHint(c) \/ SettleUnknownHint(c) \/ SettleKnownHint(c)
    PROVE  /\ HintSettles(c) /\ HoldsHint(hintCall[c])
           /\ hintCall' = [hintCall EXCEPT ![c] = NoHintCall] /\ UNCHANGED <<head, hintPaid>>
  <1>1. CASE SettleUnpaidHint(c)
    <2>1. HintBooked(c, "settled", "zero", FALSE) /\ hintCall[c].at = "reserved" BY <1>1 DEF SettleUnpaidHint
    <2> QED BY <1>1, <2>1 DEF SettleUnpaidHint, HintSettles, HoldsHint, HintMoves
  <1>2. CASE SettleUnknownHint(c)
    <2>1. HintBooked(c, "uncertain", "none", FALSE) BY <1>2 DEF SettleUnknownHint
    <2> QED BY <1>2, <2>1 DEF SettleUnknownHint, HintSettles, HoldsHint, HintMoves
  <1>3. CASE SettleKnownHint(c)
    <2>1. HintBooked(c, "settled", "known", Given(c)) BY <1>3 DEF SettleKnownHint
    <2>2. Given(c) \in BOOLEAN BY DEF Given
    <2> QED BY <1>3, <2>1, <2>2 DEF SettleKnownHint, HintSettles, HoldsHint, HintMoves
  <1> QED BY <1>1, <1>2, <1>3

\* A settlement closes the row that its call held, and nothing else.
LEMMA HintSettledRow ==
    ASSUME HintInv, NEW c \in HintCalls, HoldsHint(hintCall[c]), HintSettles(c)
    PROVE  \E u \in HintRows :
             /\ hint' = [hint EXCEPT ![hintCall[c].id] = u]
             /\ u.snapshot = hint[hintCall[c].id].snapshot /\ u.level = hint[hintCall[c].id].level
             /\ u.status \in {"settled", "uncertain"} /\ HintTakes(hintCall[c].id, u.status)
             /\ u.text => u.status = "settled" /\ Given(c) /\ hintCall[c].at = "answered"
             /\ u.status = "settled" => u.usage \in {"known", "zero"}
             /\ u.usage = "zero" => hintCall[c].at = "reserved" \/ u.status = "uncertain"
  <1> DEFINE r == hintCall[c].id
  <1>1. r \in HintIds /\ hint[r] \in HintRows BY HintTypes DEF HintInv, HintsHeld, HoldsHint
  <1>2. PICK status \in {"settled", "uncertain"}, usage \in {"none", "known", "zero"}, text \in BOOLEAN :
        /\ HintBooked(c, status, usage, text)
        /\ text => status = "settled" /\ usage = "known" /\ Given(c) /\ hintCall[c].at = "answered"
        /\ status = "settled" <=> usage # "none"
        /\ usage = "zero" => hintCall[c].at = "reserved"
    BY DEF HintSettles
  <1> DEFINE u == [hint[r] EXCEPT !.status = status, !.usage = usage, !.text = text, !.live = FALSE]
  <1>3. /\ u \in HintRows /\ u.status = status /\ u.usage = usage /\ u.text = text
        /\ u.snapshot = hint[r].snapshot /\ u.level = hint[r].level
    BY <1>1 DEF HintRows
  <1>4. hint \in [HintIds -> HintRows] BY HintTypes DEF HintInv
  <1>5. hint' = [hint EXCEPT ![r] = u] BY <1>1, <1>2, <1>4 DEF HintBooked
  <1>6. HintTakes(r, status) BY <1>2 DEF HintBooked
  <1> HIDE DEF u
  <1> QED BY <1>2, <1>3, <1>5, <1>6

\* The end of a call keeps the invariant.
LEMMA HintSettleStep ==
    ASSUME HintInv, NEW c \in HintCalls, SettleUnpaidHint(c) \/ SettleUnknownHint(c) \/ SettleKnownHint(c)
    PROVE  HintInv'
  <1> USE DEF HintInv
  <1>1. /\ hint \in [HintIds -> HintRows] /\ hintCall \in [HintCalls -> HintCallStates]
        /\ hintPaid \in [HintIds -> Nat] /\ head \in 0 .. MaxHeads
    BY HintTypes
  <1> DEFINE r == hintCall[c].id
  <1>2. /\ HintSettles(c) /\ HoldsHint(hintCall[c])
        /\ hintCall' = [hintCall EXCEPT ![c] = NoHintCall] /\ UNCHANGED <<head, hintPaid>>
    BY HintSettlements
  <1>3. PICK u \in HintRows :
             /\ hint' = [hint EXCEPT ![r] = u]
             /\ u.snapshot = hint[r].snapshot /\ u.level = hint[r].level
             /\ u.status \in {"settled", "uncertain"} /\ HintTakes(r, u.status)
             /\ u.text => u.status = "settled" /\ Given(c) /\ hintCall[c].at = "answered"
             /\ u.status = "settled" => u.usage \in {"known", "zero"}
    BY <1>2, HintSettledRow
  <1>4. r \in HintIds /\ hint[r].status \in {"reserved", "uncertain"} BY <1>2 DEF HintsHeld, HoldsHint
  <1>5. ~hint[r].text BY <1>4 DEF HintsPaidFor
  <1>6. \A d \in HintCalls \ {c} : HoldsHint(hintCall[d]) => hintCall[d].id # r
    BY <1>2 DEF HintHeldOnce
  <1> HIDE DEF r
  <1>7. \A q \in HintIds : hint'[q] = IF q = r THEN u ELSE hint[q] BY <1>1, <1>3
  <1>8. \A d \in HintCalls : hintCall'[d] = IF d = c THEN NoHintCall ELSE hintCall[d] BY <1>1, <1>2
  <1>9. HintTypeOK'
    <2>1. hint' \in [HintIds -> HintRows] /\ hintCall' \in [HintCalls -> HintCallStates]
      BY <1>1, <1>2, <1>3, NoHints
    <2> QED BY <1>1, <1>2, <2>1, HintTypesAgain
  <1>10. HintsHeld'
    BY <1>2, <1>6, <1>7, <1>8, NoHints DEF HintsHeld, HoldsHint
  <1>11. HintHeldOnce' BY <1>8, NoHints DEF HintHeldOnce, HoldsHint
  <1>12. HintsPaidFor' BY <1>2, <1>3, <1>4, <1>7 DEF HintsPaidFor
  <1>13. HintLevelsEarned'
    <2>1. HintTextsStay BY <1>5, <1>7 DEF HintTextsStay
    <2>2. ASSUME NEW q \in HintIds, hint'[q].status # "absent"
          PROVE  1 .. hint'[q].level - 1 \subseteq EarnedOn(hint'[q].snapshot)
      BY <1>3, <1>4, <1>7, <2>2 DEF HintLevelsEarned, HintCharged
    <2>3. ASSUME NEW q \in HintIds, hint'[q].status # "absent"
          PROVE  1 .. hint'[q].level - 1 \subseteq {hint'[w].level : w \in {v \in HintIds : hint'[v].text /\ hint'[v].snapshot = hint'[q].snapshot}}
      BY <2>1, <2>2, <2>3, HintEarnedStays
    <2> QED BY <2>3 DEF HintLevelsEarned, HintCharged, EarnedOn
  <1> QED BY <1>9, <1>10, <1>11, <1>12, <1>13

\* The invariant of the hints holds throughout.
LEMMA HintInductive == HintSpec => []HintInv
  <1>1. ASSUME HintInit PROVE HintInv
    <2>1. HintTypeOK BY <1>1, NoHints, HintTypes, HintAssumption DEF HintInit
    <2>2. \A r \in HintIds : hint[r] = NoHint /\ hintPaid[r] = 0 BY <1>1 DEF HintInit
    <2>3. \A c \in HintCalls : hintCall[c] = NoHintCall BY <1>1 DEF HintInit
    <2>4. HintsHeld /\ HintHeldOnce BY <2>3, NoHints DEF HintsHeld, HintHeldOnce, HoldsHint
    <2>5. HintsPaidFor /\ HintLevelsEarned BY <2>2, NoHints DEF HintsPaidFor, HintLevelsEarned, HintCharged
    <2> QED BY <2>1, <2>4, <2>5 DEF HintInv
  <1>2. ASSUME HintInv, [HintNext]_hintVars PROVE HintInv'
    <2>1. CASE UNCHANGED hintVars
      <3>1. HintRowsKept BY <1>2, <2>1, HintQuietRows DEF HintInv, hintVars
      <3>2. head' \in 0 .. MaxHeads BY <1>2, <2>1, HintTypes DEF HintInv, hintVars
      <3> QED BY <1>2, <2>1, <3>1, <3>2, HintKeptStep DEF hintVars
    <2>2. CASE HintNext
      BY <1>2, <2>2, HintCallStep, HintAroundStep, HintReserveStep, HintDispatchStep, HintSettleStep DEF HintNext
    <2> QED BY <1>2, <2>1, <2>2
  <1> QED BY <1>1, <1>2, PTL DEF HintSpec

-----------------------------------------------------------------------------
(* The hints implement the ledger                                          *)

\* What the ledger has booked for a row.
HintBook(r) ==
    CASE hint[r].status = "settled" -> hint[r].usage
      [] hint[r].status = "uncertain" -> "unknown"
      [] OTHER -> "open"

\* The costs on the books before and after a step.
LEMMA HintBooks ==
    /\ HintLedger!ledgerVars = <<HintCharged, hintPaid, [r \in HintIds |-> HintBook(r)]>>
    /\ \A r \in HintIds :
        /\ hint[r].status = "settled" => HintBook(r) = hint[r].usage
        /\ hint[r].status = "uncertain" => HintBook(r) = "unknown"
        /\ hint[r].status \notin {"settled", "uncertain"} => HintBook(r) = "open"
    /\ \A r \in HintIds :
        /\ hint'[r].status = "settled" => HintBook(r)' = hint'[r].usage
        /\ hint'[r].status = "uncertain" => HintBook(r)' = "unknown"
        /\ hint'[r].status \notin {"settled", "uncertain"} => HintBook(r)' = "open"
  BY DEF HintLedger!ledgerVars, HintBook

\* The recovery of the lapsed reservations of a set of rows.
LEMMA HintBooksRecovered ==
    ASSUME HintInv, NEW W \in SUBSET HintIds,
           \A q \in HintIds \ W : hint'[q] = HintsRecovered[q],
           \A q \in W : hint[q].status = "absent" /\ hint'[q].status = "reserved"
    PROVE  /\ {q \in HintIds : HintLapsed(q)} \subseteq HintCharged
           /\ \A q \in {q \in HintIds : HintLapsed(q)} : HintBook(q) = "open"
           /\ HintCharged' = HintCharged \cup W
           /\ [r \in HintIds |-> HintBook(r)]' =
                [r \in HintIds |-> IF r \in {q \in HintIds : HintLapsed(q)} THEN "unknown" ELSE HintBook(r)]
  <1>1. \A q \in HintIds : HintLapsed(q) => hint[q].status = "reserved" BY DEF HintLapsed
  <1>2. {q \in HintIds : HintLapsed(q)} \subseteq HintCharged BY <1>1 DEF HintCharged
  <1>3. \A q \in HintIds : HintLapsed(q) => HintBook(q) = "open" BY <1>1, HintBooks
  <1>4. \A q \in HintIds \ W : /\ hint'[q].usage = hint[q].usage
                              /\ hint'[q].status = IF HintLapsed(q) THEN "uncertain" ELSE hint[q].status
    BY HintRecovery DEF HintInv
  <1>5. HintCharged' = HintCharged \cup W
    BY <1>1, <1>4 DEF HintCharged
  <1>6. \A q \in HintIds \ W : HintBook(q)' = IF HintLapsed(q) THEN "unknown" ELSE HintBook(q)
    <2>1. ASSUME NEW q \in HintIds \ W, HintLapsed(q) PROVE HintBook(q)' = "unknown"
      BY <1>4, <2>1, HintBooks
    <2>2. ASSUME NEW q \in HintIds \ W, ~HintLapsed(q) PROVE HintBook(q)' = HintBook(q)
      BY <1>4, <2>2 DEF HintBook
    <2> QED BY <2>1, <2>2
  <1>7. \A q \in W : ~HintLapsed(q) /\ HintBook(q)' = "open" /\ HintBook(q) = "open"
    BY <1>1, HintBooks
  <1> QED BY <1>2, <1>3, <1>5, <1>6, <1>7

\* Every step of the service is a step of the ledger, or none of its business.
LEMMA HintLedgerStep ==
    ASSUME HintInv, [HintNext]_hintVars PROVE [HintLedger!LedgerNext]_(HintLedger!ledgerVars)
  <1> DEFINE book == [r \in HintIds |-> HintBook(r)]
  <1> USE DEF HintInv
  <1>0. PICK lapsed \in SUBSET HintIds : lapsed = {q \in HintIds : HintLapsed(q)} OBVIOUS
  <1>1. /\ hint \in [HintIds -> HintRows] /\ hintCall \in [HintCalls -> HintCallStates]
        /\ hintPaid \in [HintIds -> Nat] /\ head \in 0 .. MaxHeads
    BY HintTypes
  <1>2. ASSUME UNCHANGED hintPaid, \A r \in HintIds : hint'[r].status = hint[r].status /\ hint'[r].usage = hint[r].usage
        PROVE  UNCHANGED (HintLedger!ledgerVars)
    <2>1. HintCharged' = HintCharged BY <1>2 DEF HintCharged
    <2>2. \A r \in HintIds : HintBook(r)' = HintBook(r) BY <1>2 DEF HintBook
    <2>3. book' = book BY <2>2
    <2> QED BY <1>2, <2>1, <2>3 DEF HintLedger!ledgerVars, HintBook
  <1>3. ASSUME NEW r \in HintIds, LapseHint(r) \/ AgeHint(r) PROVE UNCHANGED (HintLedger!ledgerVars)
    <2>1. hint' = [hint EXCEPT ![r] = [hint[r] EXCEPT !.live = FALSE]]
          \/ hint' = [hint EXCEPT ![r] = [hint[r] EXCEPT !.recent = FALSE]]
      BY <1>3 DEF LapseHint, AgeHint
    <2>2. hint[r] \in HintRows BY <1>1
    <2>3. \A q \in HintIds : hint'[q].status = hint[q].status /\ hint'[q].usage = hint[q].usage
      BY <1>1, <2>1, <2>2 DEF HintRows
    <2> QED BY <1>2, <1>3, <2>3 DEF LapseHint, AgeHint
  <1>4. ASSUME NEW c \in HintCalls, RefuseHint(c) PROVE HintLedger!LedgerNext
    <2>1. hint' = HintsRecovered /\ hintPaid' = hintPaid BY <1>4 DEF RefuseHint
    <2>2. /\ lapsed \subseteq HintCharged /\ \A q \in lapsed : HintBook(q) = "open"
          /\ HintCharged' = HintCharged \cup {}
          /\ book' = [r \in HintIds |-> IF r \in lapsed THEN "unknown" ELSE HintBook(r)]
      <3>1. {} \in SUBSET HintIds OBVIOUS
      <3>2. \A q \in HintIds \ {} : hint'[q] = HintsRecovered[q] BY <2>1
      <3>3. \A q \in {} : hint[q].status = "absent" /\ hint'[q].status = "reserved" OBVIOUS
      <3> QED BY <3>1, <3>2, <3>3, <1>0, HintBooksRecovered
    <2>3. HintLedger!Recover(lapsed)
      BY <2>1, <2>2 DEF HintLedger!Recover, HintLedger!Recovered, HintBook
    <2> QED BY <2>3 DEF HintLedger!LedgerNext
  <1>5. ASSUME NEW c \in HintCalls, ReserveHint(c) PROVE HintLedger!LedgerNext
    <2>0. PICK r \in HintIds : r = hintCall[c].id BY <1>5 DEF ReserveHint, HintsHeld
    <2>1. hint[r].status = "absent" /\ hintPaid' = hintPaid
      BY <1>5, <2>0 DEF ReserveHint, HintReservable
    <2>2. PICK u : u.status = "reserved" /\ hint' = [HintsRecovered EXCEPT ![r] = u]
      BY <1>5, <2>0 DEF ReserveHint, NoHint
    <2>3. r \notin HintCharged /\ hintPaid[r] = 0 /\ HintBook(r) = "open"
      BY <2>1, HintBooks DEF HintCharged, HintsPaidFor
    <2>4. /\ \A q \in HintIds \ {r} : hint'[q] = HintsRecovered[q]
          /\ \A q \in {r} : hint[q].status = "absent" /\ hint'[q].status = "reserved"
          /\ {r} \in SUBSET HintIds
      BY <2>1, <2>2, HintRecovery
    <2>5. /\ lapsed \subseteq HintCharged /\ \A q \in lapsed : HintBook(q) = "open"
          /\ HintCharged' = HintCharged \cup {r}
          /\ book' = [q \in HintIds |-> IF q \in lapsed THEN "unknown" ELSE HintBook(q)]
      BY <1>0, <2>4, HintBooksRecovered
    <2>6. HintLedger!Charge(r, lapsed)
      BY <2>1, <2>3, <2>5 DEF HintLedger!Charge, HintLedger!Recovered, HintBook
    <2> QED BY <2>1, <2>6 DEF HintLedger!LedgerNext
  <1>6. ASSUME NEW c \in HintCalls, DispatchHint(c) PROVE HintLedger!LedgerNext
    <2>0. PICK r \in HintIds : r = hintCall[c].id BY <1>6 DEF DispatchHint, HintsHeld
    <2>1. /\ hint[r].status \in {"reserved", "uncertain"} /\ hintPaid[r] = 0
      BY <1>6, <2>0 DEF DispatchHint, HintsHeld, HoldsHint
    <2>2. hint' = hint /\ hintPaid' = [hintPaid EXCEPT ![r] = hintPaid[r] + 1] BY <1>6, <2>0 DEF DispatchHint
    <2>3. r \in HintCharged /\ HintBook(r) # "zero" BY <2>1, HintBooks DEF HintCharged
    <2>4. hintPaid' = [hintPaid EXCEPT ![r] = 1] BY <2>1, <2>2
    <2>5. HintCharged' = HintCharged /\ book' = book BY <2>2 DEF HintCharged, HintBook
    <2>6. HintLedger!Pay(r)
      BY <2>1, <2>3, <2>4, <2>5 DEF HintLedger!Pay, HintBook
    <2> QED BY <2>1, <2>6 DEF HintLedger!LedgerNext
  <1>7. ASSUME NEW c \in HintCalls, SettleUnpaidHint(c) \/ SettleUnknownHint(c) \/ SettleKnownHint(c)
        PROVE  HintLedger!LedgerNext
    <2>1. /\ HintSettles(c) /\ HoldsHint(hintCall[c]) /\ hintPaid' = hintPaid
      BY <1>7, HintSettlements
    <2>0. PICK r \in HintIds : r = hintCall[c].id BY <2>1 DEF HintsHeld, HoldsHint
    <2>2. PICK u \in HintRows :
             /\ hint' = [hint EXCEPT ![r] = u]
             /\ u.status \in {"settled", "uncertain"} /\ HintTakes(r, u.status)
             /\ u.status = "settled" => u.usage \in {"known", "zero"}
             /\ u.usage = "zero" => hintCall[c].at = "reserved" \/ u.status = "uncertain"
      BY <2>0, <2>1, HintSettledRow
    <2> DEFINE cost == IF u.status = "settled" THEN u.usage ELSE "unknown"
    <2>3. hint[r].status \in {"reserved", "uncertain"} BY <2>0, <2>1 DEF HintsHeld, HoldsHint
    <2>4. hintCall[c].at = "reserved" => hintPaid[r] = 0 BY <2>0 DEF HintsHeld
    <2>5. \A q \in HintIds : hint'[q] = IF q = r THEN u ELSE hint[q] BY <1>1, <2>2
    <2>6. r \in HintCharged /\ HintCharged' = HintCharged BY <2>2, <2>3, <2>5 DEF HintCharged
    <2>7. HintBook(r) = "open" \/ HintBook(r) = "unknown" BY <2>3, HintBooks
    <2>8. cost \in {"unknown", "known", "zero"} /\ (cost = "zero" => hintPaid[r] = 0) BY <2>2, <2>4
    <2>9. book' = [book EXCEPT ![r] = cost]
      <3>1. \A q \in HintIds : q # r => HintBook(q)' = HintBook(q) BY <2>5 DEF HintBook
      <3>2. HintBook(r)' = cost
        <4>1. hint'[r].status = u.status /\ hint'[r].usage = u.usage BY <2>3, <2>5
        <4> QED BY <2>2, <2>3, <4>1, HintBooks
      <3>3. \A q \in HintIds : book'[q] = IF q = r THEN cost ELSE book[q] BY <3>1, <3>2
      <3> HIDE DEF cost
      <3> QED BY <2>3, <3>3
    <2> HIDE DEF cost
    <2>10. HintLedger!Book(r, cost)
      BY <2>1, <2>3, <2>6, <2>7, <2>8, <2>9 DEF HintLedger!Book, HintBook
    <2> QED BY <2>3, <2>8, <2>10 DEF HintLedger!LedgerNext
  <1>8. CASE UNCHANGED <<hint, hintPaid>> BY <1>2, <1>8
  <1>9. CASE UNCHANGED hintVars BY <1>8, <1>9 DEF hintVars
  <1>10. CASE MoveHead BY <1>8, <1>10 DEF MoveHead
  <1>11. ASSUME NEW c \in HintCalls,
                \/ AnswerHint(c) \/ DropHint(c) \/ CancelHint(c)
                \/ \E r \in HintIds, level \in Levels : AskHint(c, r, level)
         PROVE  UNCHANGED <<hint, hintPaid>>
    BY <1>11 DEF AnswerHint, DropHint, CancelHint, AskHint
  <1> QED BY <1>3, <1>4, <1>5, <1>6, <1>7, <1>8, <1>9, <1>10, <1>11 DEF HintNext

\* A hint is charged before it is asked for, asked for at most once, never free again and
\* never booked as costless after it was asked for, for any requests, calls and quotas.
THEOREM HintsImplementLedger == HintSpec => HintsAreLedgered
  <1>1. ASSUME HintInit PROVE HintLedger!LedgerInit
    <2>1. \A r \in HintIds : hint[r] = NoHint BY <1>1 DEF HintInit
    <2>2. HintCharged = {} BY <2>1, NoHints DEF HintCharged
    <2>3. \A r \in HintIds : HintBook(r) = "open" BY <2>1, NoHints, HintBooks
    <2>4. [r \in HintIds |-> HintBook(r)] = [r \in HintIds |-> "open"] BY <2>3
    <2> QED BY <1>1, <2>2, <2>4 DEF HintInit, HintLedger!LedgerInit, HintBook
  <1> QED BY <1>1, HintLedgerStep, HintInductive, PTL DEF HintSpec, HintsAreLedgered, HintLedger!LedgerSpec

\* A hint is stored only while its snapshot is the head and nobody cancelled its call.
THEOREM HintsFresh == HintSpec => HintsStoredFresh
  <1> DEFINE Fresh == \A r \in HintIds : ~hint[r].text /\ hint'[r].text =>
        /\ hint[r].snapshot = head
        /\ \E c \in HintCalls : hintCall[c].id = r /\ hintCall[c].at = "answered" /\ ~hintCall[c].cancelled
  <1>1. ASSUME HintInv, [HintNext]_hintVars PROVE [Fresh]_hintVars
    <2>0. hint \in [HintIds -> HintRows] BY <1>1, HintTypes DEF HintInv
    <2>1. CASE \A r \in HintIds : hint'[r].text => hint[r].text BY <2>1
    <2>2. ASSUME NEW c \in HintCalls, SettleUnpaidHint(c) \/ SettleUnknownHint(c) \/ SettleKnownHint(c)
          PROVE  Fresh
      <3>1. HintSettles(c) /\ HoldsHint(hintCall[c]) BY <1>1, <2>2, HintSettlements
      <3>2. PICK u \in HintRows : /\ hint' = [hint EXCEPT ![hintCall[c].id] = u]
                                  /\ u.text => u.status = "settled" /\ Given(c) /\ hintCall[c].at = "answered"
        BY <1>1, <3>1, HintSettledRow
      <3>3. /\ hintCall[c].id \in HintIds /\ hint[hintCall[c].id].snapshot = hintCall[c].snapshot
        BY <1>1, <3>1 DEF HintInv, HintsHeld, HoldsHint
      <3>7. PICK r \in HintIds : r = hintCall[c].id BY <3>3
      <3>4. \A q \in HintIds : hint'[q] = IF q = r THEN u ELSE hint[q] BY <2>0, <3>2, <3>7
      <3>5. ASSUME NEW q \in HintIds, ~hint[q].text, hint'[q].text PROVE q = r /\ Given(c)
        BY <3>2, <3>4, <3>5
      <3>6. (\E q \in HintIds : ~hint[q].text /\ hint'[q].text) => hintCall[c].at = "answered"
        BY <3>2, <3>4
      <3> QED BY <3>3, <3>5, <3>6, <3>7 DEF Given
    <2>3. CASE HintNext /\ ~\E c \in HintCalls : SettleUnpaidHint(c) \/ SettleUnknownHint(c) \/ SettleKnownHint(c)
      <3>1. CASE HintRowsKept BY <2>1, <3>1 DEF HintRowsKept, HintRowKept
      <3>2. ASSUME NEW c \in HintCalls, ReserveHint(c) PROVE Fresh
        <4>1. PICK u : ~u.text /\ hint' = [HintsRecovered EXCEPT ![hintCall[c].id] = u]
          BY <3>2 DEF ReserveHint, NoHint
        <4>2. \A r \in HintIds : hint'[r].text => hint[r].text
          BY <1>1, <4>1, HintRecovery DEF HintInv
        <4> QED BY <4>2
      <3>3. CASE MoveHead \/ \E r \in HintIds : LapseHint(r) \/ AgeHint(r)
        BY <1>1, <3>1, <3>3, HintQuietRows DEF HintInv, MoveHead
      <3>4. ASSUME NEW c \in HintCalls,
                   \/ RefuseHint(c) \/ DispatchHint(c) \/ AnswerHint(c) \/ DropHint(c) \/ CancelHint(c)
                   \/ \E r \in HintIds, level \in Levels : AskHint(c, r, level)
            PROVE  HintRowsKept
        BY <1>1, <3>4, HintQuietRows
        DEF HintInv, RefuseHint, DispatchHint, AnswerHint, DropHint, CancelHint, AskHint
      <3> QED BY <2>3, <3>1, <3>2, <3>3, <3>4 DEF HintNext
    <2> QED BY <1>1, <2>2, <2>3
  <1> QED BY <1>1, HintInductive, PTL DEF HintSpec, HintsStoredFresh

\* No level of hint is stored before all lower ones of its snapshot.
THEOREM HintsAreEarned == HintSpec => []HintsEarned
  <1>1. HintInv => HintsEarned
    BY DEF HintInv, HintsPaidFor, HintLevelsEarned, HintsEarned, HintCharged, EarnedOn
  <1> QED BY <1>1, HintInductive, PTL

-----------------------------------------------------------------------------
(* The assessment service                                                  *)

\* The values of a row and of a call.
ReportRows == [status : {"absent", "prepared", "reserved", "settled", "uncertain", "cancelled"},
               live : BOOLEAN, recent : BOOLEAN, basis : 0 .. MaxBasis,
               usage : {"none", "known", "zero"}, report : BOOLEAN]
ReportCallStates == [at : {"idle", "captured", "asking", "reserved"},
                     id : ReportIds \cup {NoReportId}, basis : 0 .. MaxBasis]
ReportJobs == [at : {"none", "unpaid", "generating", "answered"}, cancelled : BOOLEAN,
         answer : {"none", "threw", "failed", "report"}]

\* A call at work has an id; one that has reserved its row finds it charged, not settled,
\* not paid, and without a job.
ReportsHeld ==
    \A c \in ReportCalls :
        /\ reportCall[c].at # "idle" => reportCall[c].id \in ReportIds
        /\ reportCall[c].at = "reserved" =>
            /\ report[reportCall[c].id].status \in {"reserved", "uncertain"}
            /\ reportPaid[reportCall[c].id] = 0
            /\ job[reportCall[c].id].at = "none"

\* No two calls have reserved the same row.
ReportHeldOnce ==
    \A c, d \in ReportCalls :
        /\ reportCall[c].at = "reserved" /\ reportCall[d].at = "reserved"
        /\ reportCall[c].id = reportCall[d].id
        => c = d

\* A job works on a charged row that is not settled, and pays before it generates.
JobsBacked ==
    \A r \in ReportIds :
        /\ job[r].at # "none" => report[r].status \in {"reserved", "uncertain"}
        /\ job[r].at = "unpaid" => reportPaid[r] = 0

\* Only what is charged is paid, and what is settled has a cost.
ReportsPaidFor ==
    \A r \in ReportIds :
        /\ ~OnTheBooks(report[r].status) => reportPaid[r] = 0
        /\ report[r].status = "settled" => report[r].usage \in {"known", "zero"}

\* A service that drains has no call left.
DeskDrains == desk \in {"draining", "closed"} => CallsGone

ReportInv ==
    /\ ReportTypeOK /\ ReportsHeld /\ ReportHeldOnce /\ JobsBacked /\ ReportsPaidFor
    /\ DeskDrains /\ DeskIsClear

-----------------------------------------------------------------------------

\* The type invariant by these sets of values, before and after a step.
LEMMA ReportTypes ==
    ReportTypeOK <=> /\ report \in [ReportIds -> ReportRows] /\ basis \in 0 .. MaxBasis
                     /\ reportCall \in [ReportCalls -> ReportCallStates] /\ job \in [ReportIds -> ReportJobs]
                     /\ desk \in {"open", "closing", "draining", "closed"}
                     /\ reportPaid \in [ReportIds -> Nat]
  BY DEF ReportTypeOK, ReportRows, ReportCallStates, ReportJobs

\* The same after a step.
LEMMA ReportTypesAgain ==
    ReportTypeOK' <=> /\ report' \in [ReportIds -> ReportRows] /\ basis' \in 0 .. MaxBasis
                      /\ reportCall' \in [ReportCalls -> ReportCallStates] /\ job' \in [ReportIds -> ReportJobs]
                      /\ desk' \in {"open", "closing", "draining", "closed"}
                      /\ reportPaid' \in [ReportIds -> Nat]
  BY DEF ReportTypeOK, ReportRows, ReportCallStates, ReportJobs

\* What every assessment begins with.
LEMMA NoReports ==
    /\ NoReport \in ReportRows /\ NoReport.status = "absent" /\ ~NoReport.report
    /\ NoReportCall \in ReportCallStates /\ NoReportCall.at = "idle"
    /\ NoJob \in ReportJobs /\ NoJob.at = "none"
  BY ReportAssumption DEF NoReport, NoReportCall, NoJob, ReportRows, ReportCallStates, ReportJobs

\* A row on the books keeps its state and its cost; one that is not does not get there.
\* Neither gets a report.
ReportRowSame(r) ==
    /\ report'[r].report => report[r].report
    /\ IF OnTheBooks(report[r].status)
       THEN report'[r].status = report[r].status /\ report'[r].usage = report[r].usage
       ELSE ~OnTheBooks(report'[r].status)

\* The same, but for a reservation that was recovered.
ReportRowKept(r) ==
    \/ ReportRowSame(r)
    \/ report[r].status = "reserved" /\ report'[r].status = "uncertain"

\* What a recovery does.
LEMMA ReportRecovery ==
    ASSUME ReportTypeOK
    PROVE  /\ ReportsRecovered \in [ReportIds -> ReportRows]
           /\ \A r \in ReportIds :
                /\ ReportsRecovered[r].usage = report[r].usage
                /\ ReportsRecovered[r].report = report[r].report
                /\ ReportsRecovered[r].status = IF ReportLapsed(r) THEN "uncertain" ELSE report[r].status
                /\ ~ReportLapsed(r) => ReportsRecovered[r] = report[r]
  <1>1. report \in [ReportIds -> ReportRows] BY ReportTypes
  <1>2. ASSUME NEW r \in ReportIds
        PROVE  /\ [report[r] EXCEPT !.status = "uncertain"] \in ReportRows
               /\ [report[r] EXCEPT !.status = "uncertain"].usage = report[r].usage
               /\ [report[r] EXCEPT !.status = "uncertain"].report = report[r].report
               /\ [report[r] EXCEPT !.status = "uncertain"].status = "uncertain"
    BY <1>1 DEF ReportRows
  <1>3. \A r \in ReportIds : ReportsRecovered[r] = IF ReportLapsed(r) THEN [report[r] EXCEPT !.status = "uncertain"] ELSE report[r]
    BY DEF ReportsRecovered
  <1>4. ReportsRecovered \in [ReportIds -> ReportRows] BY <1>1, <1>2 DEF ReportsRecovered
  <1> QED BY <1>2, <1>3, <1>4

\* The steps that change no row on the books.
QuietReports ==
    \/ UNCHANGED reportVars
    \/ CloseDesk \/ DrainCalls \/ DeskCloses \/ MoveBasis \/ RestartDesk
    \/ \E r \in ReportIds :
        CancelReport(r) \/ AnswerJob(r) \/ FailJob(r) \/ LapseReport(r) \/ AgeReport(r)
    \/ \E c \in ReportCalls :
        \/ SaveCapture(c) \/ LeaveDesk(c)
        \/ \E r \in ReportIds : Capture(c, r) \/ RunReport(c, r)

\* They keep every row on the books as it was.
LEMMA ReportQuiet ==
    ASSUME ReportInv, QuietReports
    PROVE  /\ report' \in [ReportIds -> ReportRows] /\ \A r \in ReportIds : ReportRowSame(r)
           /\ reportPaid' = reportPaid
  <1>0. reportPaid' = reportPaid
    BY DEF QuietReports, reportVars, CloseDesk, DrainCalls, DeskCloses, MoveBasis, RestartDesk,
           CancelReport, AnswerJob, FailJob, LapseReport, AgeReport, SaveCapture, LeaveDesk,
           Capture, RunReport
  <1> DEFINE Goal == report' \in [ReportIds -> ReportRows] /\ \A r \in ReportIds : ReportRowSame(r)
  <1>1. report \in [ReportIds -> ReportRows] /\ reportCall \in [ReportCalls -> ReportCallStates]
    BY ReportTypes DEF ReportInv
  <1>2. ASSUME UNCHANGED report PROVE Goal
    BY <1>1, <1>2 DEF ReportRowSame
  <1>3. ASSUME NEW r \in ReportIds, NEW u \in ReportRows, report' = [report EXCEPT ![r] = u],
               u.report => report[r].report,
               \/ u.status = report[r].status /\ u.usage = report[r].usage
               \/ ~OnTheBooks(report[r].status) /\ ~OnTheBooks(u.status)
        PROVE  Goal
    BY <1>1, <1>3 DEF ReportRowSame
  <1>4. ASSUME NEW r \in ReportIds, CancelReport(r) PROVE Goal
    <2> DEFINE u == [report[r] EXCEPT !.status = "cancelled", !.usage = "zero"]
    <2>1. \/ report' = [report EXCEPT ![r] = u] /\ report[r].status = "prepared"
          \/ UNCHANGED report
      BY <1>4 DEF CancelReport
    <2>2. u \in ReportRows /\ u.status = "cancelled" /\ u.report = report[r].report BY <1>1 DEF ReportRows
    <2> HIDE DEF u
    <2>3. CASE UNCHANGED report BY <1>2, <2>3
    <2>4. CASE report' = [report EXCEPT ![r] = u] /\ report[r].status = "prepared"
      <3>1. ~OnTheBooks(report[r].status) /\ ~OnTheBooks(u.status) BY <2>2, <2>4 DEF OnTheBooks
      <3> QED BY <1>3, <2>2, <2>4, <3>1
    <2> QED BY <2>1, <2>3, <2>4
  <1>5. ASSUME NEW r \in ReportIds, LapseReport(r) PROVE Goal
    <2> DEFINE u == [report[r] EXCEPT !.live = FALSE]
    <2>1. report' = [report EXCEPT ![r] = u] BY <1>5 DEF LapseReport
    <2>2. u \in ReportRows /\ u.status = report[r].status /\ u.usage = report[r].usage /\ u.report = report[r].report
      BY <1>1 DEF ReportRows
    <2> HIDE DEF u
    <2> QED BY <1>3, <2>1, <2>2
  <1>6. ASSUME NEW r \in ReportIds, AgeReport(r) PROVE Goal
    <2> DEFINE u == [report[r] EXCEPT !.recent = FALSE]
    <2>1. report' = [report EXCEPT ![r] = u] BY <1>6 DEF AgeReport
    <2>2. u \in ReportRows /\ u.status = report[r].status /\ u.usage = report[r].usage /\ u.report = report[r].report
      BY <1>1 DEF ReportRows
    <2> HIDE DEF u
    <2> QED BY <1>3, <2>1, <2>2
  <1>7. ASSUME NEW c \in ReportCalls, SaveCapture(c) PROVE Goal
    <2> DEFINE u == [NoReport EXCEPT !.status = "prepared", !.basis = reportCall[c].basis]
    <2>0. PICK r \in ReportIds : r = reportCall[c].id BY <1>7 DEF SaveCapture, ReportInv, ReportsHeld
    <2>1. \/ UNCHANGED report
          \/ report' = [report EXCEPT ![r] = u] /\ report[r].status = "absent"
      BY <1>7, <2>0 DEF SaveCapture
    <2>2. reportCall[c].basis \in 0 .. MaxBasis BY <1>1 DEF ReportCallStates
    <2>3. u \in ReportRows /\ u.status = "prepared" /\ ~u.report BY <2>2 DEF ReportRows, NoReport
    <2> HIDE DEF u
    <2>4. CASE UNCHANGED report BY <1>2, <2>4
    <2>5. CASE report' = [report EXCEPT ![r] = u] /\ report[r].status = "absent"
      <3>1. ~OnTheBooks(report[r].status) /\ ~OnTheBooks(u.status) BY <2>3, <2>5 DEF OnTheBooks
      <3> QED BY <1>3, <2>3, <2>5, <3>1
    <2> QED BY <2>1, <2>4, <2>5
  <1>8. ASSUME \/ UNCHANGED reportVars
               \/ CloseDesk \/ DrainCalls \/ DeskCloses \/ MoveBasis \/ RestartDesk
               \/ \E r \in ReportIds : AnswerJob(r) \/ FailJob(r)
               \/ \E c \in ReportCalls :
                    LeaveDesk(c) \/ \E r \in ReportIds : Capture(c, r) \/ RunReport(c, r)
        PROVE  UNCHANGED report
    BY <1>8 DEF reportVars, CloseDesk, DrainCalls, DeskCloses, MoveBasis, RestartDesk, AnswerJob,
                FailJob, LeaveDesk, Capture, RunReport
  <1> QED BY <1>0, <1>2, <1>4, <1>5, <1>6, <1>7, <1>8 DEF QuietReports

\* A call that does not reserve, and a job that does not begin.
ReportCallKept(c) ==
    /\ reportCall'[c].at # "idle" => reportCall'[c].id \in ReportIds
    /\ reportCall'[c].at = "reserved" => reportCall[c].at = "reserved" /\ reportCall'[c].id = reportCall[c].id
ReportJobKept(r) ==
    /\ job'[r].at # "none" => job[r].at # "none"
    /\ job'[r].at = "unpaid" => job[r].at = "unpaid"

\* ReportJobs that are cancelled stay where they are.
LEMMA ReportCancelled ==
    ASSUME job \in [ReportIds -> ReportJobs]
    PROVE  /\ JobsCancelled \in [ReportIds -> ReportJobs]
           /\ \A r \in ReportIds : JobsCancelled[r].at = job[r].at
  <1>1. ASSUME NEW r \in ReportIds, job[r].at # "none"
        PROVE  [job[r] EXCEPT !.cancelled = TRUE] \in ReportJobs /\ [job[r] EXCEPT !.cancelled = TRUE].at = job[r].at
    BY <1>1 DEF ReportJobs
  <1>2. \A r \in ReportIds : JobsCancelled[r] = IF job[r].at = "none" THEN NoJob ELSE [job[r] EXCEPT !.cancelled = TRUE]
    BY DEF JobsCancelled
  <1>3. JobsCancelled \in [ReportIds -> ReportJobs] BY <1>1, NoReports DEF JobsCancelled
  <1> QED BY <1>1, <1>2, <1>3, NoReports

\* In the quiet steps no call reserves and no job begins.
LEMMA QuietDesk ==
    ASSUME ReportInv, QuietReports
    PROVE  /\ reportCall' \in [ReportCalls -> ReportCallStates] /\ job' \in [ReportIds -> ReportJobs]
           /\ basis' \in 0 .. MaxBasis /\ desk' \in {"open", "closing", "draining", "closed"}
           /\ \A c \in ReportCalls : ReportCallKept(c)
           /\ \A r \in ReportIds : ReportJobKept(r)
  <1>1. /\ reportCall \in [ReportCalls -> ReportCallStates] /\ job \in [ReportIds -> ReportJobs]
        /\ basis \in 0 .. MaxBasis /\ desk \in {"open", "closing", "draining", "closed"}
    BY ReportTypes DEF ReportInv
  <1>2. basis' \in 0 .. MaxBasis /\ desk' \in {"open", "closing", "draining", "closed"}
    <2>1. basis' = basis \/ MoveBasis
      BY DEF QuietReports, reportVars, CloseDesk, DrainCalls, DeskCloses, RestartDesk,
             CancelReport, AnswerJob, FailJob, LapseReport, AgeReport, SaveCapture, LeaveDesk, Capture, RunReport
    <2>2. MoveBasis => basis' \in 0 .. MaxBasis BY <1>1, ReportAssumption DEF MoveBasis
    <2>3. desk' \in {desk, "open", "closing", "draining", "closed"}
      BY DEF QuietReports, reportVars, CloseDesk, DrainCalls, DeskCloses, MoveBasis, RestartDesk,
             CancelReport, AnswerJob, FailJob, LapseReport, AgeReport, SaveCapture, LeaveDesk, Capture, RunReport
    <2> QED BY <1>1, <2>1, <2>2, <2>3
  <1>3. reportCall' \in [ReportCalls -> ReportCallStates] /\ \A c \in ReportCalls : ReportCallKept(c)
    <2>1. CASE UNCHANGED reportCall BY <1>1, <2>1 DEF ReportCallKept, ReportInv, ReportsHeld
    <2>2. CASE reportCall' = [c \in ReportCalls |-> NoReportCall] BY <2>2, NoReports DEF ReportCallKept
    <2>3. ASSUME NEW c \in ReportCalls, NEW p \in ReportCallStates,
                 reportCall' = [reportCall EXCEPT ![c] = p], p.at # "reserved",
                 p.at # "idle" => p.id \in ReportIds
          PROVE  reportCall' \in [ReportCalls -> ReportCallStates] /\ \A d \in ReportCalls : ReportCallKept(d)
      BY <1>1, <2>3 DEF ReportCallKept, ReportInv, ReportsHeld
    <2>4. ASSUME NEW c \in ReportCalls, SaveCapture(c) \/ LeaveDesk(c)
          PROVE  reportCall' \in [ReportCalls -> ReportCallStates] /\ \A d \in ReportCalls : ReportCallKept(d)
      <3>1. reportCall' = [reportCall EXCEPT ![c] = NoReportCall] BY <2>4 DEF SaveCapture, LeaveDesk, CallMoves
      <3>2. NoReportCall.at # "reserved" /\ ~(NoReportCall.at # "idle") BY NoReports
      <3> QED BY <2>3, <3>1, <3>2, NoReports
    <2>5. ASSUME NEW c \in ReportCalls, NEW r \in ReportIds, Capture(c, r)
          PROVE  reportCall' \in [ReportCalls -> ReportCallStates] /\ \A d \in ReportCalls : ReportCallKept(d)
      <3> DEFINE p == [at |-> "captured", id |-> r, basis |-> basis]
      <3>1. reportCall' = [reportCall EXCEPT ![c] = p] BY <2>5 DEF Capture, CallMoves
      <3>2. p \in ReportCallStates /\ p.at = "captured" /\ p.id = r BY <1>1 DEF ReportCallStates
      <3> HIDE DEF p
      <3> QED BY <2>3, <3>1, <3>2
    <2>6. ASSUME NEW c \in ReportCalls, NEW r \in ReportIds, RunReport(c, r)
          PROVE  reportCall' \in [ReportCalls -> ReportCallStates] /\ \A d \in ReportCalls : ReportCallKept(d)
      <3> DEFINE p == [NoReportCall EXCEPT !.at = "asking", !.id = r]
      <3>1. reportCall' = [reportCall EXCEPT ![c] = p] BY <2>6 DEF RunReport, CallMoves
      <3>2. p \in ReportCallStates /\ p.at = "asking" /\ p.id = r BY NoReports DEF ReportCallStates
      <3> HIDE DEF p
      <3> QED BY <2>3, <3>1, <3>2
    <2>7. ASSUME \/ UNCHANGED reportVars
                 \/ CloseDesk \/ DrainCalls \/ DeskCloses \/ MoveBasis
                 \/ \E r \in ReportIds :
                     CancelReport(r) \/ AnswerJob(r) \/ FailJob(r) \/ LapseReport(r) \/ AgeReport(r)
          PROVE  UNCHANGED reportCall
      BY <2>7 DEF reportVars, CloseDesk, DrainCalls, DeskCloses, MoveBasis, CancelReport, AnswerJob,
                  FailJob, LapseReport, AgeReport
    <2>8. RestartDesk => reportCall' = [c \in ReportCalls |-> NoReportCall] BY DEF RestartDesk
    <2> QED BY <2>1, <2>2, <2>4, <2>5, <2>6, <2>7, <2>8 DEF QuietReports
  <1>4. job' \in [ReportIds -> ReportJobs] /\ \A r \in ReportIds : ReportJobKept(r)
    <2>1. CASE UNCHANGED job BY <1>1, <2>1 DEF ReportJobKept
    <2>2. CASE job' = [r \in ReportIds |-> NoJob] BY <2>2, NoReports DEF ReportJobKept
    <2>3. CASE job' = JobsCancelled BY <1>1, <2>3, ReportCancelled DEF ReportJobKept
    <2>4. ASSUME NEW r \in ReportIds, NEW j \in ReportJobs, job' = [job EXCEPT ![r] = j],
                 j.at # "none" => job[r].at # "none", j.at = "unpaid" => job[r].at = "unpaid"
          PROVE  job' \in [ReportIds -> ReportJobs] /\ \A q \in ReportIds : ReportJobKept(q)
      BY <1>1, <2>4 DEF ReportJobKept
    <2>5. ASSUME NEW r \in ReportIds, CancelReport(r)
          PROVE  job' \in [ReportIds -> ReportJobs] /\ \A q \in ReportIds : ReportJobKept(q)
      <3> DEFINE j == [job[r] EXCEPT !.cancelled = TRUE]
      <3>1. UNCHANGED job \/ job' = [job EXCEPT ![r] = j] BY <2>5 DEF CancelReport
      <3>2. j \in ReportJobs /\ j.at = job[r].at BY <1>1 DEF ReportJobs
      <3> HIDE DEF j
      <3>3. CASE job' = [job EXCEPT ![r] = j] BY <2>4, <3>2, <3>3
      <3> QED BY <2>1, <3>1, <3>3
    <2>6. ASSUME NEW r \in ReportIds, AnswerJob(r)
          PROVE  job' \in [ReportIds -> ReportJobs] /\ \A q \in ReportIds : ReportJobKept(q)
      <3>1. PICK answer \in {"threw", "failed", "report"} :
              job' = [job EXCEPT ![r] = [job[r] EXCEPT !.at = "answered", !.answer = answer]]
        BY <1>1, <2>6 DEF AnswerJob
      <3> DEFINE j == [job[r] EXCEPT !.at = "answered", !.answer = answer]
      <3>2. j \in ReportJobs /\ j.at = "answered" BY <1>1 DEF ReportJobs
      <3>3. job' = [job EXCEPT ![r] = j] /\ job[r].at = "generating" BY <2>6, <3>1 DEF AnswerJob
      <3> HIDE DEF j
      <3> QED BY <2>4, <3>2, <3>3
    <2>7. ASSUME NEW r \in ReportIds, FailJob(r)
          PROVE  job' \in [ReportIds -> ReportJobs] /\ \A q \in ReportIds : ReportJobKept(q)
      <3>1. job' = [job EXCEPT ![r] = NoJob] BY <2>7 DEF FailJob
      <3>2. ~(NoJob.at # "none") /\ NoJob.at # "unpaid" BY NoReports
      <3> QED BY <2>4, <3>1, <3>2, NoReports
    <2>8. ASSUME \/ UNCHANGED reportVars
                 \/ DeskCloses \/ MoveBasis
                 \/ \E r \in ReportIds : LapseReport(r) \/ AgeReport(r)
                 \/ \E c \in ReportCalls :
                      \/ SaveCapture(c) \/ LeaveDesk(c)
                      \/ \E r \in ReportIds : Capture(c, r) \/ RunReport(c, r)
          PROVE  UNCHANGED job
      BY <2>8 DEF reportVars, DeskCloses, MoveBasis, LapseReport, AgeReport, SaveCapture, LeaveDesk,
                  Capture, RunReport
    <2>9. CloseDesk \/ DrainCalls => job' = JobsCancelled BY DEF CloseDesk, DrainCalls
    <2>10. RestartDesk => job' = [r \in ReportIds |-> NoJob] BY DEF RestartDesk
    <2> QED BY <2>1, <2>2, <2>3, <2>5, <2>6, <2>7, <2>8, <2>9, <2>10 DEF QuietReports
  <1> QED BY <1>2, <1>3, <1>4

\* What every step says of the rows, the calls and the jobs, but for its own.
LEMMA ReportKept ==
    ASSUME ReportInv, ReportTypeOK', DeskDrains', DeskIsClear', reportPaid' = reportPaid,
           \A r \in ReportIds : ReportRowKept(r),
           \A c \in ReportCalls : ReportCallKept(c),
           \A r \in ReportIds : ReportJobKept(r)
    PROVE  ReportInv'
  <1> USE DEF ReportInv
  <1>1. ReportsHeld'
    BY DEF ReportsHeld, ReportCallKept, ReportJobKept, ReportRowKept, ReportRowSame, OnTheBooks
  <1>2. ReportHeldOnce' BY DEF ReportHeldOnce, ReportCallKept
  <1>3. JobsBacked' BY DEF JobsBacked, ReportJobKept, ReportRowKept, ReportRowSame, OnTheBooks
  <1>4. ReportsPaidFor' BY DEF ReportsPaidFor, ReportRowKept, ReportRowSame, OnTheBooks
  <1> QED BY <1>1, <1>2, <1>3, <1>4

\* No step lets a call or a job into a service that has drained.
LEMMA DeskStep == ASSUME ReportInv, [ReportNext]_reportVars PROVE DeskDrains' /\ DeskIsClear'
  <1> USE DEF ReportInv
  <1>1. /\ reportCall \in [ReportCalls -> ReportCallStates] /\ job \in [ReportIds -> ReportJobs]
    BY ReportTypes
  <1>2. CASE QuietReports
    <2>1. /\ \A r \in ReportIds : job'[r].at # "none" => job[r].at # "none"
      BY <1>2, QuietDesk DEF ReportJobKept
    <2>2. CASE CloseDesk \/ RestartDesk BY <2>2 DEF CloseDesk, RestartDesk, DeskDrains, DeskIsClear
    <2>3. CASE DrainCalls
      <3>1. CallsGone' /\ desk' = "draining" BY <2>3 DEF DrainCalls, CallsGone
      <3> QED BY <3>1 DEF DeskDrains, DeskIsClear
    <2>4. CASE DeskCloses
      BY <2>1, <2>4 DEF DeskCloses, DeskDrains, DeskIsClear, CallsGone
    <2>5. ASSUME desk' = desk, CallsGone => CallsGone' PROVE DeskDrains' /\ DeskIsClear'
      BY <2>1, <2>5 DEF DeskDrains, DeskIsClear
    <2>6. ASSUME \/ UNCHANGED reportVars \/ MoveBasis
                 \/ \E r \in ReportIds :
                    CancelReport(r) \/ AnswerJob(r) \/ FailJob(r) \/ LapseReport(r) \/ AgeReport(r)
          PROVE  desk' = desk /\ (CallsGone => CallsGone')
      BY <2>6 DEF reportVars, MoveBasis, CancelReport, AnswerJob, FailJob, LapseReport, AgeReport, CallsGone
    <2>7. ASSUME NEW c \in ReportCalls, SaveCapture(c) \/ LeaveDesk(c)
          PROVE  desk' = desk /\ (CallsGone => CallsGone')
      BY <2>7 DEF SaveCapture, LeaveDesk, CallsGone
    <2>8. ASSUME NEW c \in ReportCalls, NEW r \in ReportIds, Capture(c, r) \/ RunReport(c, r)
          PROVE  DeskDrains' /\ DeskIsClear'
      BY <2>8 DEF Capture, RunReport, DeskDrains, DeskIsClear
    <2> QED BY <1>2, <2>2, <2>3, <2>4, <2>5, <2>6, <2>7, <2>8 DEF QuietReports
  <1>3. CASE RecoverReports
    BY <1>3 DEF RecoverReports, DeskDrains, DeskIsClear
  <1>4. ASSUME NEW c \in ReportCalls, ReserveReport(c) \/ RefuseReport(c) \/ StartJob(c)
        PROVE  DeskDrains' /\ DeskIsClear'
    <2>1. ~CallsGone /\ desk' = desk BY <1>4 DEF ReserveReport, RefuseReport, StartJob, CallsGone
    <2> QED BY <2>1 DEF DeskDrains, DeskIsClear
  <1>5. ASSUME NEW r \in ReportIds, SettleJob(r) PROVE DeskDrains' /\ DeskIsClear'
    <2>1. job[r].at # "none" /\ UNCHANGED <<desk, reportCall>> BY <1>5 DEF SettleJob
    <2> QED BY <2>1 DEF DeskDrains, DeskIsClear, CallsGone
  <1> QED BY <1>2, <1>3, <1>4, <1>5 DEF ReportNext, QuietReports

\* The quiet steps keep the invariant.
LEMMA ReportQuietStep ==
    ASSUME ReportInv, QuietReports, DeskDrains', DeskIsClear' PROVE ReportInv'
  <1>1. ReportTypeOK' BY ReportQuiet, QuietDesk, ReportTypes, ReportTypesAgain DEF ReportInv
  <1> QED BY <1>1, ReportQuiet, QuietDesk, ReportKept DEF ReportRowKept

\* A recovery, alone or with the refusal that commits it.
LEMMA ReportRecoveryStep ==
    ASSUME ReportInv, RecoverReports \/ \E c \in ReportCalls : RefuseReport(c), DeskDrains', DeskIsClear'
    PROVE  ReportInv'
  <1>1. /\ report' = ReportsRecovered /\ UNCHANGED <<basis, job, desk, reportPaid>>
        /\ reportCall' = reportCall \/ \E c \in ReportCalls : reportCall' = [reportCall EXCEPT ![c] = NoReportCall]
    BY DEF RecoverReports, RefuseReport, CallMoves
  <1>2. reportCall \in [ReportCalls -> ReportCallStates] BY ReportTypes DEF ReportInv
  <1>3. /\ \A c \in ReportCalls : ReportCallKept(c)
        /\ reportCall' \in [ReportCalls -> ReportCallStates]
    BY <1>1, <1>2, NoReports DEF ReportCallKept, ReportInv, ReportsHeld
  <1>4. ReportTypeOK' BY <1>1, <1>3, ReportRecovery, ReportTypes, ReportTypesAgain DEF ReportInv
  <1>5. \A r \in ReportIds : ReportJobKept(r) BY <1>1 DEF ReportJobKept
  <1>6. \A r \in ReportIds : ReportRowKept(r)
    BY <1>1, ReportRecovery DEF ReportInv, ReportRowKept, ReportRowSame, ReportLapsed, OnTheBooks
  <1> QED BY <1>1, <1>3, <1>4, <1>5, <1>6, ReportKept

\* A reservation: the prepared row goes on the books, for a call that held none.
LEMMA ReportReserved ==
    ASSUME ReportInv, NEW c \in ReportCalls, ReserveReport(c)
    PROVE  \E r \in ReportIds, u \in ReportRows, p \in ReportCallStates :
             /\ r = reportCall[c].id /\ reportCall[c].at = "asking"
             /\ report[r].status = "prepared" /\ u.status = "reserved" /\ u.report = report[r].report
             /\ report' = [ReportsRecovered EXCEPT ![r] = u]
             /\ reportCall' = [reportCall EXCEPT ![c] = p] /\ p.at = "reserved" /\ p.id = r
             /\ UNCHANGED <<basis, job, desk, reportPaid>>
  <1>1. report \in [ReportIds -> ReportRows] /\ reportCall[c] \in ReportCallStates
    BY ReportTypes DEF ReportInv
  <1>2. PICK r \in ReportIds : r = reportCall[c].id BY DEF ReserveReport, ReportInv, ReportsHeld
  <1>3. report[r].status = "prepared" /\ reportCall[c].at = "asking" BY <1>2 DEF ReserveReport
  <1>4. ReportsRecovered[r] = report[r] BY <1>3, ReportRecovery DEF ReportInv, ReportLapsed
  <1> DEFINE u == [report[r] EXCEPT !.status = "reserved", !.live = TRUE, !.recent = TRUE]
             p == [reportCall[c] EXCEPT !.at = "reserved"]
  <1>5. u \in ReportRows /\ u.status = "reserved" /\ u.report = report[r].report BY <1>1 DEF ReportRows
  <1>6. p \in ReportCallStates /\ p.at = "reserved" /\ p.id = r BY <1>1, <1>2 DEF ReportCallStates
  <1>7. report' = [ReportsRecovered EXCEPT ![r] = [ReportsRecovered[r] EXCEPT !.status = "reserved", !.live = TRUE, !.recent = TRUE]]
    <2>1. ReportsRecovered \in [ReportIds -> ReportRows] BY ReportRecovery DEF ReportInv
    <2>2. report' = [ReportsRecovered EXCEPT ![r].status = "reserved", ![r].live = TRUE, ![r].recent = TRUE]
      BY <1>2 DEF ReserveReport
    <2> QED BY <2>1, <2>2
  <1>8. report' = [ReportsRecovered EXCEPT ![r] = u] BY <1>4, <1>7
  <1>9. reportCall' = [reportCall EXCEPT ![c] = p] /\ UNCHANGED <<basis, job, desk, reportPaid>>
    BY DEF ReserveReport, CallMoves
  <1> HIDE DEF u, p
  <1> QED BY <1>2, <1>3, <1>5, <1>6, <1>8, <1>9

\* It keeps the invariant.
LEMMA ReportReserveStep ==
    ASSUME ReportInv, NEW c \in ReportCalls, ReserveReport(c), DeskDrains', DeskIsClear' PROVE ReportInv'
  <1> USE DEF ReportInv
  <1>1. /\ report \in [ReportIds -> ReportRows] /\ reportCall \in [ReportCalls -> ReportCallStates]
    BY ReportTypes
  <1>2. PICK r \in ReportIds, u \in ReportRows, p \in ReportCallStates :
             /\ r = reportCall[c].id /\ reportCall[c].at = "asking"
             /\ report[r].status = "prepared" /\ u.status = "reserved" /\ u.report = report[r].report
             /\ report' = [ReportsRecovered EXCEPT ![r] = u]
             /\ reportCall' = [reportCall EXCEPT ![c] = p] /\ p.at = "reserved" /\ p.id = r
             /\ UNCHANGED <<basis, job, desk, reportPaid>>
    BY ReportReserved
  <1>3. /\ report' \in [ReportIds -> ReportRows] /\ report'[r] = u
        /\ \A q \in ReportIds : q # r => ReportRowKept(q)
    BY <1>1, <1>2, ReportRecovery DEF ReportRowKept, ReportRowSame, ReportLapsed, OnTheBooks
  <1>4. \A d \in ReportCalls : reportCall'[d] = IF d = c THEN p ELSE reportCall[d] BY <1>1, <1>2
  <1>5. \A d \in ReportCalls : reportCall[d].at = "reserved" => reportCall[d].id # r BY <1>2 DEF ReportsHeld
  <1>6. reportPaid[r] = 0 /\ job[r].at = "none" BY <1>2 DEF ReportsPaidFor, JobsBacked, OnTheBooks
  <1>7. ReportTypeOK'
    <2>1. reportCall' \in [ReportCalls -> ReportCallStates] BY <1>1, <1>2
    <2> QED BY <1>2, <1>3, <2>1, ReportTypes, ReportTypesAgain
  <1>8. ReportsHeld'
    <2>1. ASSUME NEW d \in ReportCalls, d # c
          PROVE  /\ reportCall'[d].at # "idle" => reportCall'[d].id \in ReportIds
                 /\ reportCall'[d].at = "reserved" =>
                    /\ report'[reportCall'[d].id].status \in {"reserved", "uncertain"}
                    /\ reportPaid'[reportCall'[d].id] = 0 /\ job'[reportCall'[d].id].at = "none"
      BY <1>2, <1>3, <1>4, <1>5, <2>1 DEF ReportsHeld, ReportRowKept, ReportRowSame, OnTheBooks
    <2> QED BY <1>2, <1>3, <1>4, <1>6, <2>1 DEF ReportsHeld
  <1>9. ReportHeldOnce' BY <1>2, <1>4, <1>5 DEF ReportHeldOnce
  <1>10. JobsBacked' BY <1>2, <1>3, <1>6 DEF JobsBacked, ReportRowKept, ReportRowSame, OnTheBooks
  <1>11. ReportsPaidFor' BY <1>2, <1>3, <1>6 DEF ReportsPaidFor, ReportRowKept, ReportRowSame, OnTheBooks
  <1> QED BY <1>7, <1>8, <1>9, <1>10, <1>11

\* The job of a reserved row begins: it pays, unless the service closes.
LEMMA StartJobStep ==
    ASSUME ReportInv, NEW c \in ReportCalls, StartJob(c), DeskDrains', DeskIsClear' PROVE ReportInv'
  <1> USE DEF ReportInv
  <1>1. /\ reportCall \in [ReportCalls -> ReportCallStates] /\ job \in [ReportIds -> ReportJobs]
        /\ reportPaid \in [ReportIds -> Nat]
    BY ReportTypes
  <1>2. PICK r \in ReportIds : r = reportCall[c].id BY DEF StartJob, ReportsHeld
  <1>3. /\ report[r].status \in {"reserved", "uncertain"} /\ reportPaid[r] = 0 /\ job[r].at = "none"
        /\ reportCall[c].at = "reserved"
    BY <1>2 DEF StartJob, ReportsHeld
  <1>4. PICK j \in ReportJobs :
          /\ job' = [job EXCEPT ![r] = j] /\ j.at \in {"unpaid", "generating"}
          /\ j.at = "generating" => reportPaid' = [reportPaid EXCEPT ![r] = reportPaid[r] + 1]
          /\ j.at = "unpaid" => reportPaid' = reportPaid
    <2>1. /\ [NoJob EXCEPT !.at = "generating"] \in ReportJobs /\ [NoJob EXCEPT !.at = "generating"].at = "generating"
          /\ [NoJob EXCEPT !.at = "unpaid"] \in ReportJobs /\ [NoJob EXCEPT !.at = "unpaid"].at = "unpaid"
      BY NoReports DEF ReportJobs
    <2>2. CASE desk = "open" BY <1>2, <2>1, <2>2 DEF StartJob
    <2>3. CASE desk # "open" BY <1>2, <2>1, <2>3 DEF StartJob
    <2> QED BY <2>2, <2>3
  <1>5. reportCall' = [reportCall EXCEPT ![c] = NoReportCall] /\ UNCHANGED <<report, basis, desk>>
    BY DEF StartJob, CallMoves
  <1>6. \A d \in ReportCalls : reportCall'[d] = IF d = c THEN NoReportCall ELSE reportCall[d] BY <1>1, <1>5
  <1>7. \A q \in ReportIds : job'[q] = IF q = r THEN j ELSE job[q] BY <1>1, <1>4
  <1>8. reportPaid' \in [ReportIds -> Nat] /\ \A q \in ReportIds : q # r => reportPaid'[q] = reportPaid[q]
    BY <1>1, <1>4
  <1>9. \A d \in ReportCalls : d # c /\ reportCall[d].at = "reserved" => reportCall[d].id # r
    BY <1>2, <1>3 DEF ReportHeldOnce
  <1>10. ReportTypeOK'
    <2>1. reportCall' \in [ReportCalls -> ReportCallStates] /\ job' \in [ReportIds -> ReportJobs]
      BY <1>1, <1>4, <1>5, NoReports
    <2> QED BY <1>5, <1>8, <2>1, ReportTypes, ReportTypesAgain
  <1>11. ReportsHeld' BY <1>5, <1>6, <1>7, <1>8, <1>9, NoReports DEF ReportsHeld
  <1>12. ReportHeldOnce' BY <1>6, NoReports DEF ReportHeldOnce
  <1>13. JobsBacked' BY <1>3, <1>4, <1>5, <1>7, <1>8 DEF JobsBacked
  <1>14. ReportsPaidFor' BY <1>3, <1>5, <1>8 DEF ReportsPaidFor, OnTheBooks
  <1> QED BY <1>10, <1>11, <1>12, <1>13, <1>14

\* A settlement closes the row of its job, if it is still reserved, and nothing else.
LEMMA ReportSettled ==
    ASSUME ReportInv, NEW r \in ReportIds, SettleJob(r)
    PROVE  /\ job[r].at \in {"unpaid", "answered"} /\ job' = [job EXCEPT ![r] = NoJob]
           /\ UNCHANGED <<basis, reportCall, desk, reportPaid>>
           /\ \/ UNCHANGED report
              \/ \E u \in ReportRows :
                   /\ report' = [report EXCEPT ![r] = u] /\ report[r].status = "reserved"
                   /\ u.status \in {"settled", "uncertain"}
                   /\ u.status = "settled" => u.usage \in {"known", "zero"}
                   /\ u.status = "settled" /\ u.usage = "zero" => job[r].at = "unpaid"
                   /\ u.report => Reportable(r)
  <1>1. report[r] \in ReportRows BY ReportTypes DEF ReportInv
  <1>2. /\ job[r].at \in {"unpaid", "answered"} /\ job' = [job EXCEPT ![r] = NoJob]
        /\ UNCHANGED <<basis, reportCall, desk, reportPaid>>
    BY DEF SettleJob
  <1>3. CASE report[r].status # "reserved" BY <1>2, <1>3 DEF SettleJob
  <1>4. CASE report[r].status = "reserved"
    <2>1. PICK outcome \in Outcomes(r) :
            report' = [report EXCEPT ![r].status = outcome[1], ![r].usage = outcome[2], ![r].live = FALSE,
                                     ![r].report = outcome[2] = "known" /\ Reportable(r)]
      BY <1>4 DEF SettleJob
    <2>2. /\ outcome \in {<<"settled", "zero">>, <<"uncertain", "none">>, <<"settled", "known">>}
          /\ outcome = <<"settled", "zero">> => job[r].at = "unpaid"
      BY <2>1 DEF Outcomes
    <2>3. /\ outcome[1] \in {"settled", "uncertain"} /\ outcome[2] \in {"none", "known", "zero"}
          /\ outcome[1] = "settled" => outcome[2] \in {"known", "zero"}
          /\ outcome[1] = "settled" /\ outcome[2] = "zero" => job[r].at = "unpaid"
      BY <2>2
    <2> DEFINE given == outcome[2] = "known" /\ Reportable(r)
               u == [report[r] EXCEPT !.status = outcome[1], !.usage = outcome[2], !.live = FALSE, !.report = given]
    <2>4. given \in BOOLEAN /\ (given => Reportable(r)) BY DEF Reportable
    <2>5. report' = [report EXCEPT ![r] = u]
      <3>1. report \in [ReportIds -> ReportRows] BY ReportTypes DEF ReportInv
      <3> QED BY <2>1, <3>1
    <2> HIDE DEF given
    <2>6. u \in ReportRows /\ u.status = outcome[1] /\ u.usage = outcome[2] /\ u.report = given
      BY <1>1, <2>3, <2>4 DEF ReportRows
    <2> HIDE DEF u
    <2> QED BY <1>2, <1>4, <2>3, <2>4, <2>5, <2>6
  <1> QED BY <1>3, <1>4

\* It keeps the invariant.
LEMMA SettleJobStep ==
    ASSUME ReportInv, NEW r \in ReportIds, SettleJob(r), DeskDrains', DeskIsClear' PROVE ReportInv'
  <1> USE DEF ReportInv
  <1>1. /\ report \in [ReportIds -> ReportRows] /\ job \in [ReportIds -> ReportJobs]
    BY ReportTypes
  <1>2. /\ job[r].at \in {"unpaid", "answered"} /\ job' = [job EXCEPT ![r] = NoJob]
        /\ UNCHANGED <<basis, reportCall, desk, reportPaid>>
    BY ReportSettled
  <1>3. PICK u \in ReportRows :
          /\ report' = [report EXCEPT ![r] = u]
          /\ u = report[r] \/ (report[r].status = "reserved" /\ u.status \in {"settled", "uncertain"})
          /\ u.status = "settled" => u.usage \in {"known", "zero"}
    <2>1. CASE report' = report
      <3>1. report' = [report EXCEPT ![r] = report[r]] /\ report[r] \in ReportRows BY <1>1, <2>1
      <3> QED BY <3>1 DEF ReportsPaidFor
    <2>2. CASE report' # report BY <2>2, ReportSettled
    <2> QED BY <2>1, <2>2
  <1>4. \A q \in ReportIds : report'[q] = IF q = r THEN u ELSE report[q] BY <1>1, <1>3
  <1>5. \A q \in ReportIds : job'[q] = IF q = r THEN NoJob ELSE job[q] BY <1>1, <1>2
  <1>6. \A d \in ReportCalls : reportCall[d].at = "reserved" => reportCall[d].id # r BY <1>2 DEF ReportsHeld
  <1>7. ReportTypeOK'
    <2>1. report' \in [ReportIds -> ReportRows] /\ job' \in [ReportIds -> ReportJobs] BY <1>1, <1>2, <1>3, NoReports
    <2> QED BY <1>2, <2>1, ReportTypes, ReportTypesAgain
  <1>8. ReportsHeld' BY <1>2, <1>4, <1>5, <1>6 DEF ReportsHeld
  <1>9. ReportHeldOnce' BY <1>2 DEF ReportHeldOnce
  <1>10. JobsBacked' BY <1>2, <1>4, <1>5, NoReports DEF JobsBacked
  <1>11. ReportsPaidFor' BY <1>2, <1>3, <1>4 DEF ReportsPaidFor, OnTheBooks
  <1> QED BY <1>7, <1>8, <1>9, <1>10, <1>11

\* The invariant of the assessments holds throughout.
LEMMA ReportInductive == ReportSpec => []ReportInv
  <1>1. ASSUME ReportInit PROVE ReportInv
    <2>1. ReportTypeOK BY <1>1, NoReports, ReportTypes, ReportAssumption DEF ReportInit
    <2>2. \A r \in ReportIds : report[r] = NoReport /\ reportPaid[r] = 0 /\ job[r] = NoJob BY <1>1 DEF ReportInit
    <2>3. \A c \in ReportCalls : reportCall[c] = NoReportCall BY <1>1 DEF ReportInit
    <2>4. ReportsHeld /\ ReportHeldOnce BY <2>3, NoReports DEF ReportsHeld, ReportHeldOnce
    <2>5. JobsBacked /\ ReportsPaidFor BY <2>2, NoReports DEF JobsBacked, ReportsPaidFor
    <2>6. DeskDrains /\ DeskIsClear BY <1>1 DEF ReportInit, DeskDrains, DeskIsClear
    <2> QED BY <2>1, <2>4, <2>5, <2>6 DEF ReportInv
  <1>2. ASSUME ReportInv, [ReportNext]_reportVars PROVE ReportInv'
    <2>1. DeskDrains' /\ DeskIsClear' BY <1>2, DeskStep
    <2>2. \/ QuietReports \/ RecoverReports
          \/ \E c \in ReportCalls : ReserveReport(c) \/ RefuseReport(c) \/ StartJob(c)
          \/ \E r \in ReportIds : SettleJob(r)
      BY <1>2 DEF ReportNext, QuietReports
    <2> QED BY <1>2, <2>1, <2>2, ReportQuietStep, ReportRecoveryStep, ReportReserveStep, StartJobStep, SettleJobStep
  <1> QED BY <1>1, <1>2, PTL DEF ReportSpec

-----------------------------------------------------------------------------
(* The assessments implement the ledger                                    *)

\* What the ledger has booked for a row.
ReportBook(r) ==
    CASE report[r].status = "settled" -> report[r].usage
      [] report[r].status = "uncertain" -> "unknown"
      [] OTHER -> "open"

\* The costs on the books before and after a step.
LEMMA ReportBooks ==
    /\ \A r \in ReportIds :
        /\ report[r].status = "settled" => ReportBook(r) = report[r].usage
        /\ report[r].status = "uncertain" => ReportBook(r) = "unknown"
        /\ report[r].status \notin {"settled", "uncertain"} => ReportBook(r) = "open"
    /\ \A r \in ReportIds :
        /\ report'[r].status = "settled" => ReportBook(r)' = report'[r].usage
        /\ report'[r].status = "uncertain" => ReportBook(r)' = "unknown"
        /\ report'[r].status \notin {"settled", "uncertain"} => ReportBook(r)' = "open"
  BY DEF ReportBook

\* The recovery of the lapsed reservations, while a set of rows is charged.
LEMMA ReportBooksRecovered ==
    ASSUME ReportInv, NEW W \in SUBSET ReportIds, NEW L \in SUBSET ReportIds,
           L = {q \in ReportIds : ReportLapsed(q)},
           \A q \in ReportIds \ W : report'[q] = ReportsRecovered[q],
           \A q \in W : report[q].status = "prepared" /\ report'[q].status = "reserved"
    PROVE  /\ L \subseteq ReportCharged
           /\ \A q \in L : ReportBook(q) = "open"
           /\ ReportCharged' = ReportCharged \cup W
           /\ [r \in ReportIds |-> ReportBook(r)]' = [r \in ReportIds |-> IF r \in L THEN "unknown" ELSE ReportBook(r)]
  <1>1. \A q \in ReportIds : q \in L => report[q].status = "reserved" BY DEF ReportLapsed
  <1>2. L \subseteq ReportCharged BY <1>1 DEF ReportCharged
  <1>3. \A q \in L : ReportBook(q) = "open" BY <1>1, ReportBooks
  <1>4. \A q \in ReportIds \ W : /\ report'[q].usage = report[q].usage
                                /\ report'[q].status = IF q \in L THEN "uncertain" ELSE report[q].status
    BY ReportRecovery DEF ReportInv
  <1>5. ReportCharged' = ReportCharged \cup W
    BY <1>1, <1>4 DEF ReportCharged
  <1>6. \A q \in ReportIds \ W : ReportBook(q)' = IF q \in L THEN "unknown" ELSE ReportBook(q)
    <2>1. ASSUME NEW q \in ReportIds \ W, q \in L PROVE ReportBook(q)' = "unknown"
      BY <1>4, <2>1, ReportBooks
    <2>2. ASSUME NEW q \in ReportIds \ W, q \notin L PROVE ReportBook(q)' = ReportBook(q)
      BY <1>4, <2>2 DEF ReportBook
    <2> QED BY <2>1, <2>2
  <1>7. \A q \in W : q \notin L /\ ReportBook(q)' = "open" /\ ReportBook(q) = "open"
    BY <1>1, ReportBooks
  <1> QED BY <1>2, <1>3, <1>5, <1>6, <1>7

\* Every step of the service is a step of the ledger, or none of its business.
LEMMA ReportLedgerStep ==
    ASSUME ReportInv, [ReportNext]_reportVars PROVE [ReportLedger!LedgerNext]_(ReportLedger!ledgerVars)
  <1> DEFINE book == [r \in ReportIds |-> ReportBook(r)]
  <1> USE DEF ReportInv
  <1>0. PICK lapsed \in SUBSET ReportIds : lapsed = {q \in ReportIds : ReportLapsed(q)} OBVIOUS
  <1>1. /\ report \in [ReportIds -> ReportRows] /\ reportPaid \in [ReportIds -> Nat]
    BY ReportTypes
  <1>2. ASSUME reportPaid' = reportPaid, \A r \in ReportIds : ReportRowSame(r)
        PROVE  UNCHANGED (ReportLedger!ledgerVars)
    <2>1. ReportCharged' = ReportCharged BY <1>2 DEF ReportCharged, ReportRowSame, OnTheBooks
    <2>2. ASSUME NEW r \in ReportIds PROVE ReportBook(r)' = ReportBook(r)
      <3>1. CASE OnTheBooks(report[r].status) BY <1>2, <3>1 DEF ReportRowSame, ReportBook
      <3>2. CASE ~OnTheBooks(report[r].status) BY <1>2, <3>2, ReportBooks DEF ReportRowSame, OnTheBooks
      <3> QED BY <3>1, <3>2
    <2>3. book' = book BY <2>2
    <2> QED BY <1>2, <2>1, <2>3 DEF ReportLedger!ledgerVars, ReportBook
  <1>3. ASSUME QuietReports PROVE UNCHANGED (ReportLedger!ledgerVars)
    BY <1>2, <1>3, ReportQuiet
  <1>4. ASSUME RecoverReports \/ \E c \in ReportCalls : RefuseReport(c) PROVE ReportLedger!LedgerNext
    <2>1. report' = ReportsRecovered /\ reportPaid' = reportPaid BY <1>4 DEF RecoverReports, RefuseReport
    <2>2. /\ lapsed \subseteq ReportCharged /\ \A q \in lapsed : ReportBook(q) = "open"
          /\ ReportCharged' = ReportCharged \cup {}
          /\ book' = [r \in ReportIds |-> IF r \in lapsed THEN "unknown" ELSE ReportBook(r)]
      <3>1. {} \in SUBSET ReportIds OBVIOUS
      <3>2. \A q \in ReportIds \ {} : report'[q] = ReportsRecovered[q] BY <2>1
      <3>3. \A q \in {} : report[q].status = "prepared" /\ report'[q].status = "reserved" OBVIOUS
      <3> QED BY <1>0, <3>1, <3>2, <3>3, ReportBooksRecovered
    <2>3. ReportLedger!Recover(lapsed)
      BY <2>1, <2>2 DEF ReportLedger!Recover, ReportLedger!Recovered, ReportBook
    <2> QED BY <2>3 DEF ReportLedger!LedgerNext
  <1>5. ASSUME NEW c \in ReportCalls, ReserveReport(c) PROVE ReportLedger!LedgerNext
    <2>1. PICK r \in ReportIds, u \in ReportRows, p \in ReportCallStates :
             /\ r = reportCall[c].id /\ report[r].status = "prepared" /\ u.status = "reserved"
             /\ report' = [ReportsRecovered EXCEPT ![r] = u] /\ reportPaid' = reportPaid
      BY <1>5, ReportReserved
    <2>2. r \notin ReportCharged /\ reportPaid[r] = 0 /\ ReportBook(r) = "open"
      BY <2>1, ReportBooks DEF ReportCharged, ReportsPaidFor, OnTheBooks
    <2>3. /\ \A q \in ReportIds \ {r} : report'[q] = ReportsRecovered[q]
          /\ \A q \in {r} : report[q].status = "prepared" /\ report'[q].status = "reserved"
          /\ {r} \in SUBSET ReportIds
      BY <2>1, ReportRecovery
    <2>4. /\ lapsed \subseteq ReportCharged /\ \A q \in lapsed : ReportBook(q) = "open"
          /\ ReportCharged' = ReportCharged \cup {r}
          /\ book' = [q \in ReportIds |-> IF q \in lapsed THEN "unknown" ELSE ReportBook(q)]
      BY <1>0, <2>3, ReportBooksRecovered
    <2>5. ReportLedger!Charge(r, lapsed)
      BY <2>1, <2>2, <2>4 DEF ReportLedger!Charge, ReportLedger!Recovered, ReportBook
    <2> QED BY <2>5 DEF ReportLedger!LedgerNext
  <1>6. ASSUME NEW c \in ReportCalls, StartJob(c)
        PROVE  ReportLedger!LedgerNext \/ UNCHANGED (ReportLedger!ledgerVars)
    <2>1. PICK r \in ReportIds : r = reportCall[c].id BY <1>6 DEF StartJob, ReportsHeld
    <2>2. report[r].status \in {"reserved", "uncertain"} /\ reportPaid[r] = 0
      BY <1>6, <2>1 DEF StartJob, ReportsHeld
    <2>3. report' = report BY <1>6 DEF StartJob
    <2>4. CASE reportPaid' = reportPaid BY <1>2, <2>3, <2>4 DEF ReportRowSame
    <2>5. CASE reportPaid' # reportPaid
      <3>1. reportPaid' = [reportPaid EXCEPT ![r] = reportPaid[r] + 1] BY <1>6, <2>1, <2>5 DEF StartJob
      <3>2. r \in ReportCharged /\ ReportBook(r) # "zero" BY <2>2, ReportBooks DEF ReportCharged
      <3>3. reportPaid' = [reportPaid EXCEPT ![r] = 1] BY <2>2, <3>1
      <3>4. ReportCharged' = ReportCharged /\ book' = book BY <2>3 DEF ReportCharged, ReportBook
      <3>5. ReportLedger!Pay(r) BY <2>2, <3>2, <3>3, <3>4 DEF ReportLedger!Pay, ReportBook
      <3> QED BY <3>5 DEF ReportLedger!LedgerNext
    <2> QED BY <2>4, <2>5
  <1>7. ASSUME NEW r \in ReportIds, SettleJob(r)
        PROVE  ReportLedger!LedgerNext \/ UNCHANGED (ReportLedger!ledgerVars)
    <2>2. reportPaid' = reportPaid BY <1>7, ReportSettled
    <2>3. CASE report' = report BY <1>2, <2>2, <2>3 DEF ReportRowSame
    <2>4. CASE report' # report
      <3>1. PICK u \in ReportRows :
                   /\ report' = [report EXCEPT ![r] = u]
                   /\ report[r].status = "reserved" /\ u.status \in {"settled", "uncertain"}
                   /\ u.status = "settled" => u.usage \in {"known", "zero"}
                   /\ u.status = "settled" /\ u.usage = "zero" => job[r].at = "unpaid"
        BY <1>7, <2>4, ReportSettled
      <3>2. PICK cost \in {"unknown", "known", "zero"} :
              cost = IF u.status = "settled" THEN u.usage ELSE "unknown"
        BY <3>1
      <3>3. cost = "zero" => reportPaid[r] = 0 BY <3>1, <3>2 DEF JobsBacked
      <3>4. \A q \in ReportIds : report'[q] = IF q = r THEN u ELSE report[q] BY <1>1, <3>1
      <3>5. r \in ReportCharged /\ ReportCharged' = ReportCharged BY <3>1, <3>4 DEF ReportCharged
      <3>6. ReportBook(r) = "open" BY <3>1, ReportBooks
      <3>7. book' = [book EXCEPT ![r] = cost]
        <4>1. \A q \in ReportIds : q # r => ReportBook(q)' = ReportBook(q) BY <3>4 DEF ReportBook
        <4>2. report'[r].status = u.status /\ report'[r].usage = u.usage BY <3>4
        <4>3. ReportBook(r)' = cost BY <3>1, <3>2, <4>2, ReportBooks
        <4> QED BY <4>1, <4>3
      <3>8. ReportLedger!Book(r, cost)
        BY <2>2, <3>3, <3>5, <3>6, <3>7 DEF ReportLedger!Book, ReportBook
      <3> QED BY <3>8 DEF ReportLedger!LedgerNext
    <2> QED BY <2>3, <2>4
  <1> QED BY <1>3, <1>4, <1>5, <1>6, <1>7 DEF ReportNext, QuietReports

\* An assessment is charged before it is asked for, asked for at most once, never free again
\* and never booked as costless after it was asked for, whatever calls and restarts race.
THEOREM ReportsImplementLedger == ReportSpec => ReportsAreLedgered
  <1>1. ASSUME ReportInit PROVE ReportLedger!LedgerInit
    <2>1. \A r \in ReportIds : report[r] = NoReport BY <1>1 DEF ReportInit
    <2>2. ReportCharged = {} BY <2>1, NoReports DEF ReportCharged
    <2>3. \A r \in ReportIds : ReportBook(r) = "open" BY <2>1, NoReports, ReportBooks
    <2>4. [r \in ReportIds |-> ReportBook(r)] = [r \in ReportIds |-> "open"] BY <2>3
    <2> QED BY <1>1, <2>2, <2>4 DEF ReportInit, ReportLedger!LedgerInit, ReportBook
  <1> QED BY <1>1, ReportLedgerStep, ReportInductive, PTL DEF ReportSpec, ReportsAreLedgered, ReportLedger!LedgerSpec

\* A report is stored only while what it was captured from stands and nobody cancelled it.
THEOREM ReportsFresh == ReportSpec => ReportsStoredFresh
  <1> DEFINE Fresh == \A r \in ReportIds : ~report[r].report /\ report'[r].report =>
        report[r].basis = basis /\ ~job[r].cancelled
  <1>1. ASSUME ReportInv, [ReportNext]_reportVars PROVE [Fresh]_reportVars
    <2>0. report \in [ReportIds -> ReportRows] BY <1>1, ReportTypes DEF ReportInv
    <2>1. CASE \A r \in ReportIds : report'[r].report => report[r].report BY <2>1
    <2>2. ASSUME NEW r \in ReportIds, SettleJob(r) PROVE Fresh
      <3>1. CASE report' = report BY <2>1, <3>1
      <3>2. CASE report' # report
        <4>1. PICK u \in ReportRows : report' = [report EXCEPT ![r] = u] /\ (u.report => Reportable(r))
          BY <1>1, <2>2, <3>2, ReportSettled
        <4>2. \A q \in ReportIds : report'[q] = IF q = r THEN u ELSE report[q] BY <2>0, <4>1
        <4> QED BY <4>1, <4>2 DEF Reportable
      <3> QED BY <3>1, <3>2
    <2>3. CASE QuietReports BY <1>1, <2>1, <2>3, ReportQuiet DEF ReportRowSame
    <2>4. CASE RecoverReports \/ \E c \in ReportCalls : RefuseReport(c)
      <3>1. report' = ReportsRecovered BY <2>4 DEF RecoverReports, RefuseReport
      <3> QED BY <1>1, <2>1, <3>1, ReportRecovery DEF ReportInv
    <2>5. ASSUME NEW c \in ReportCalls, ReserveReport(c) PROVE Fresh
      <3>1. PICK r \in ReportIds, u \in ReportRows, p \in ReportCallStates :
              u.report = report[r].report /\ report' = [ReportsRecovered EXCEPT ![r] = u]
        BY <1>1, <2>5, ReportReserved
      <3> QED BY <1>1, <2>1, <3>1, ReportRecovery DEF ReportInv
    <2>6. ASSUME NEW c \in ReportCalls, StartJob(c) PROVE Fresh BY <2>1, <2>6 DEF StartJob
    <2> QED BY <1>1, <2>2, <2>3, <2>4, <2>5, <2>6 DEF ReportNext, QuietReports
  <1> QED BY <1>1, ReportInductive, PTL DEF ReportSpec, ReportsStoredFresh

\* When close() has returned, no call and no job is left that could write.
THEOREM ReportDeskClears == ReportSpec => []DeskIsClear
  <1>1. ReportInv => DeskIsClear BY DEF ReportInv
  <1> QED BY <1>1, ReportInductive, PTL

-----------------------------------------------------------------------------
(* The services together                                                   *)

\* In the run of all the services, each of the paid ones takes only its own steps.
LEMMA EachServiceRuns == ServicesSpec => PlanSpec /\ HintSpec /\ ReportSpec /\ AuditSpec
<1>1. ServicesInit => PlanInit /\ HintInit /\ ReportInit /\ AuditInit
  BY DEF ServicesInit
<1>2. ASSUME [ServicesNext]_servicesVars
      PROVE  /\ [PlanNext]_planVars /\ [HintNext]_hintVars
             /\ [ReportNext]_reportVars /\ [AuditNext]_auditVars
  <2>1. CASE Plans
    BY <2>1 DEF Plans
  <2>2. CASE Hints
    BY <2>2 DEF Hints
  <2>3. CASE Reports
    BY <2>3 DEF Reports
  <2>4. CASE Audit
    BY <2>4 DEF Audit
  <2>5. CASE Operations
    BY <2>5 DEF Operations
  <2>6. CASE Material
    BY <2>6 DEF Material, paidVars
  <2>7. CASE UserRecords
    BY <2>7 DEF UserRecords, paidVars
  <2>8. CASE UNCHANGED servicesVars
    BY <2>8 DEF servicesVars, paidVars
  <2>. QED
    BY <1>2, <2>1, <2>2, <2>3, <2>4, <2>5, <2>6, <2>7, <2>8 DEF ServicesNext
<1>. QED
  BY <1>1, <1>2, PTL DEF ServicesSpec, PlanSpec, HintSpec, ReportSpec, AuditSpec

\* Plans, hints and assessments implement the ledger of paid calls in the run of all the
\* services, and an assessment desk that reports itself closed has no call at work.
THEOREM EveryPaidCallSettles == ServicesSpec => PaidCallsSettled
  BY EachServiceRuns, PlansImplementLedger, HintsImplementLedger, ReportsImplementLedger,
     ReportDeskClears, PTL DEF PaidCallsSettled

\* In the run of all the services nothing is stored from an answer that its inputs have
\* outdated, and no hint above the levels the user has earned.
THEOREM EveryAnswerIsFresh == ServicesSpec => AnswersFresh
  BY EachServiceRuns, PlansFresh, HintsFresh, ReportsFresh, HintsAreEarned, PTL
     DEF AnswersFresh

\* In the run of all the services a call hears that its row is durable only when it is, and
\* no provider is asked before that.
THEOREM EveryCallIsAudited == ServicesSpec => []CallsAudited
  BY EachServiceRuns, CallsAreAudited, PTL

=============================================================================
