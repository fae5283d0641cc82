-------------------------- MODULE StoreTransactions --------------------------
(***************************************************************************)
(* The one connection of the SQLite store (src/adapters/sqlite/store.ts,   *)
(* concurrency.ts).  A first-in first-out mutex admits one owner of the    *)
(* connection at a time; a transaction keeps it across the awaits of its   *)
(* callback, whose own calls reach the connection directly.  A callback    *)
(* may leave work behind that calls the store after the transaction ended. *)
(***************************************************************************)
EXTENDS Naturals, Sequences, FiniteSets

CONSTANTS
    StoreClients,   \* callers outside any transaction, each with one call
    MaxInner        \* bound: the calls a callback makes, the late ones included

ASSUME StoreAssumption == MaxInner \in Nat

StoreOps == {"write", "transaction", "backup", "close"}

VARIABLES
    storeCall,     \* client -> [op, at]
    connection,    \* the queue of the mutex, its owner first: [by, op, inner]
    scope,         \* client -> the scope its transaction runs in: "none", "active", "ended"
    made,          \* client -> the calls its callback has made
    awaiting,      \* clients whose callback waits for a call it queued
    uncommitted,   \* the writes of the open SQLite transaction
    persisted,
    backup,        \* what the last backup copied
    storeClosed

storeVars == <<storeCall, connection, scope, made, awaiting, uncommitted, persisted, backup,
               storeClosed>>

StoreInit ==
    /\ storeCall = [c \in StoreClients |-> [op |-> "none", at |-> "idle"]]
    /\ connection = <<>>
    /\ scope = [c \in StoreClients |-> "none"]
    /\ made = [c \in StoreClients |-> 0]
    /\ awaiting = {} /\ uncommitted = {} /\ persisted = {} /\ backup = {}
    /\ storeClosed = FALSE

Answer(c) == storeCall' = [storeCall EXCEPT ![c].at = "answered"]

\* A call from outside every transaction takes its place in the queue.
CallStore(c, op) ==
    /\ storeCall[c].at = "idle"
    /\ storeCall' = [storeCall EXCEPT
          ![c] = [op |-> op, at |-> IF storeClosed THEN "answered" ELSE "queued"]]
    /\ connection' = IF storeClosed THEN connection
                     ELSE Append(connection, [by |-> c, op |-> op, inner |-> 0])
    /\ UNCHANGED <<scope, made, awaiting, uncommitted, persisted, backup, storeClosed>>

Owner == Head(connection)

Owns(op) == connection # <<>> /\ Owner.op = op /\ ~storeClosed

ReleaseTurn == connection' = Tail(connection)

\* A call that outlived the close in the queue.
FindClosed ==
    /\ connection # <<>> /\ storeClosed
    /\ ReleaseTurn /\ Answer(Owner.by)
    /\ UNCHANGED <<scope, made, awaiting, uncommitted, persisted, backup, storeClosed>>

\* atomic: a write batch of its own, committed or rolled back in one turn.
WriteAlone(succeeds) ==
    /\ Owns("write")
    /\ persisted' = IF succeeds THEN persisted \cup {[by |-> Owner.by, inner |-> Owner.inner]}
                    ELSE persisted
    /\ awaiting' = awaiting \ {Owner.by}
    /\ ReleaseTurn /\ Answer(Owner.by)
    /\ UNCHANGED <<scope, made, uncommitted, backup, storeClosed>>

Begin ==
    /\ Owns("transaction") /\ scope[Owner.by] = "none"
    /\ scope' = [scope EXCEPT ![Owner.by] = "active"]
    /\ UNCHANGED <<storeCall, connection, made, awaiting, uncommitted, persisted, backup,
                   storeClosed>>

\* Defect: only a transaction inside a transaction is refused.
FateOfNested(c, op) ==
    IF scope[c] = "ended" THEN "refused"
    ELSE IF op = "write" THEN "direct"
    ELSE IF op = "transaction" THEN "refused" ELSE "queued"

\* Defect: what a callback left behind queues like a call from outside.
FateOfLate(c, op) ==
    IF scope[c] = "ended" THEN "queued" ELSE IF op = "write" THEN "direct" ELSE "refused"

\* rejectOwnScope, runExclusive, close: what becomes of a call made inside the scope.  Only
\* an active scope is refused its close; an ended one queues it, or finds the store closed.
Fate(c, op) ==
    CASE scope[c] = "active" /\ op = "write"                  -> "direct"
      [] scope[c] = "ended" /\ op = "close" /\ ~storeClosed   -> "queued"
      [] OTHER                                                -> "refused"

\* A call from a transaction's callback, which waits for what it queued before it ends, or
\* from work it left behind, which waits holding nothing.
CallInside(c, op) ==
    /\ scope[c] # "none" /\ made[c] < MaxInner /\ c \notin awaiting
    /\ made' = [made EXCEPT ![c] = @ + 1]
    /\ uncommitted' = IF Fate(c, op) = "direct"
                      THEN uncommitted \cup {[by |-> c, inner |-> made'[c]]} ELSE uncommitted
    /\ connection' = IF Fate(c, op) = "queued"
                     THEN Append(connection, [by |-> c, op |-> op, inner |-> made'[c]])
                     ELSE connection
    /\ awaiting' = IF Fate(c, op) = "queued" /\ scope[c] = "active" THEN awaiting \cup {c}
                   ELSE awaiting
    /\ UNCHANGED <<storeCall, scope, persisted, backup, storeClosed>>

\* The callback returns or throws, or the commit fails.
End(commits) ==
    /\ Owns("transaction") /\ scope[Owner.by] = "active" /\ Owner.by \notin awaiting
    /\ scope' = [scope EXCEPT ![Owner.by] = "ended"]
    /\ persisted' = IF commits THEN persisted \cup uncommitted ELSE persisted
    /\ uncommitted' = {}
    /\ ReleaseTurn /\ Answer(Owner.by)
    /\ UNCHANGED <<made, awaiting, backup, storeClosed>>

BackUp ==
    /\ Owns("backup")
    /\ backup' = persisted
    /\ awaiting' = awaiting \ {Owner.by}
    /\ ReleaseTurn /\ Answer(Owner.by)
    /\ UNCHANGED <<scope, made, uncommitted, persisted, storeClosed>>

CloseStore ==
    /\ Owns("close")
    /\ storeClosed' = TRUE
    /\ awaiting' = awaiting \ {Owner.by}
    /\ ReleaseTurn /\ Answer(Owner.by)
    /\ UNCHANGED <<scope, made, uncommitted, persisted, backup>>

StoreTurn ==
    \/ FindClosed
    \/ \E succeeds \in BOOLEAN : WriteAlone(succeeds)
    \/ Begin
    \/ \E commits \in BOOLEAN : End(commits)
    \/ BackUp
    \/ CloseStore

StoreNext ==
    \/ \E c \in StoreClients, op \in StoreOps : CallStore(c, op) \/ CallInside(c, op)
    \/ StoreTurn

StoreSpec == StoreInit /\ [][StoreNext]_storeVars /\ WF_storeVars(StoreTurn)

-----------------------------------------------------------------------------

Writes == [by : StoreClients, inner : 0 .. MaxInner]

StoreTypeOK ==
    /\ storeCall \in [StoreClients -> [op : StoreOps \cup {"none"},
                                       at : {"idle", "queued", "answered"}]]
    /\ connection \in Seq([by : StoreClients, op : StoreOps, inner : 0 .. MaxInner])
    /\ scope \in [StoreClients -> {"none", "active", "ended"}]
    /\ made \in [StoreClients -> 0 .. MaxInner]
    /\ awaiting \subseteq StoreClients
    /\ uncommitted \subseteq Writes /\ persisted \subseteq Writes
    /\ backup \subseteq Writes
    /\ storeClosed \in BOOLEAN

\* The writes of a transaction's callback become stored all together in the step that
\* commits it, or never: none stays of a transaction rolled back, none arrives from work it
\* left behind, and nothing stored is taken back (transaction, withWrite, runExclusive).
TransactionsIsolated ==
    [][/\ persisted \subseteq persisted'
       /\ \A w \in persisted' \ persisted : w.inner > 0 =>
             /\ scope[w.by] = "active" /\ scope'[w.by] = "ended"
             /\ uncommitted \subseteq persisted'
       /\ backup' # backup => uncommitted = {}]_storeVars

\* Every call is answered: a transaction never waits for the connection it holds, and a
\* close or a failure does not leave the queue standing (rejectOwnScope, FifoMutex.run).
StoreAnswers ==
    \A c \in StoreClients : storeCall[c].at = "queued" ~> storeCall[c].at = "answered"

\* Transactions run apart from everything else, and every call is answered.
TransactionsServed == TransactionsIsolated /\ StoreAnswers

=============================================================================
