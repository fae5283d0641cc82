--------------------------- MODULE CredentialBridge ---------------------------
(* One process per vault operation: the caller gets control back only from the   *)
(* end of the process it started, however the operation was cut short.           *)
EXTENDS Naturals

CONSTANTS Secrets,       \* values the stored credential may have, absence among them
          MaxInvokes     \* bound: invocations, each awaited before the next

ASSUME BridgeAssumption == MaxInvokes \in Nat

VARIABLES
    credential,   \* the stored credential
    invoke,       \* the invocation at hand: its number, what it asks for, its outcome
    child,        \* the process of each invocation and what it was given
    stops         \* why the process at hand was asked to stop

bridgeVars == <<credential, invoke, child, stops>>

Invocations == 1..MaxInvokes
Reasons == {"cancelled", "timedOut", "overflow", "failed"}
BridgeOutcomes == {"none", "cancelled", "failed", "done"}

BridgeTypeOK ==
    /\ credential \in Secrets
    /\ invoke \in [made : 0..MaxInvokes, asked : Secrets, outcome : BridgeOutcomes]
    /\ child \in [Invocations -> [state : {"none", "working", "finished", "closed"}, given : Secrets]]
    /\ stops \subseteq Reasons

BridgeInit ==
    /\ credential \in Secrets
    /\ invoke = [made |-> 0, asked |-> credential, outcome |-> "failed"]
    /\ child = [n \in Invocations |-> [state |-> "none", given |-> credential]]
    /\ stops = {}

-----------------------------------------------------------------------------

Waiting == invoke.outcome = "none"

\* The process is spawned and fed; if the spawn throws, the invocation has failed.
Invoke(secret) ==
    /\ ~Waiting /\ invoke.made < MaxInvokes
    /\ LET n == invoke.made + 1
       IN  \/ /\ invoke' = [made |-> n, asked |-> secret, outcome |-> "none"]
              /\ child' = [child EXCEPT ![n] = [state |-> "working", given |-> secret]]
           \/ /\ invoke' = [made |-> n, asked |-> secret, outcome |-> "failed"]
              /\ UNCHANGED child
    /\ stops' = {}
    /\ UNCHANGED credential

\* The process does what it was given, and has not ended yet.
ChildWorks(n) ==
    /\ child[n].state = "working"
    /\ credential' = child[n].given
    /\ child' = [child EXCEPT ![n].state = "finished"]
    /\ UNCHANGED <<invoke, stops>>

\* Defect: the caller is answered when the end of the process is asked for.
AnswersWhenStopped(reason) == IF reason = "cancelled" THEN "cancelled" ELSE "failed"

\* A cancellation, the timer, an excess of output or an error asks for the process's end
\* and leaves the answer to it: the signal may not arrive, or arrive too late.
Answers(reason) == "none"

StopChild(reason) ==
    /\ Waiting
    /\ stops' = stops \cup {reason}
    /\ invoke' = [invoke EXCEPT !.outcome = Answers(reason)]
    /\ UNCHANGED <<credential, child>>

\* The first reason that applies, in the order the code asks for them.
OutcomeOfExit(clean) == IF clean THEN "done" ELSE "failed"

OutcomeOf(clean) ==
    IF "cancelled" \in stops THEN "cancelled"
    ELSE IF stops # {} THEN "failed"
    ELSE OutcomeOfExit(clean)

\* The process is gone: it ended by itself, cleanly only with its work done, or was killed.
ChildCloses(n) ==
    /\ child[n].state \in {"working", "finished"}
    /\ child' = [child EXCEPT ![n].state = "closed"]
    /\ \E clean \in {FALSE, child[n].state = "finished"} :
          invoke' = IF n = invoke.made /\ Waiting
                    THEN [invoke EXCEPT !.outcome = OutcomeOf(clean)] ELSE invoke
    /\ UNCHANGED <<credential, stops>>

BridgeNext ==
    \/ \E secret \in Secrets : Invoke(secret)
    \/ \E reason \in Reasons : StopChild(reason)
    \/ \E n \in Invocations : ChildWorks(n) \/ ChildCloses(n)

-----------------------------------------------------------------------------

\* The stored credential changes only while its caller waits, and only to what it asked
\* for; an operation reported done is done, and stays so until the next one.
NothingBehindTheCaller ==
    /\ [][credential' # credential => Waiting /\ credential' = invoke.asked]_bridgeVars
    /\ [](invoke.outcome = "done" => credential = invoke.asked)

=============================================================================
