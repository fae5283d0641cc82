--------------------------- MODULE LuoguConnection ---------------------------
(***************************************************************************)
(* The stored session of one Luogu account (src/adapters/luogu/connection):*)
(* connect, probe and forget over three stores that share no transaction,  *)
(* the connection row, the write-ahead journal of references and the OS    *)
(* credential vault.                                                       *)
(*                                                                         *)
(* The synchronisation service admits one source operation at a time, so   *)
(* there is one `op`; every wait of it is a step, and the process may die  *)
(* between any two.  A vault call reports done, failed or cancelled, and   *)
(* only done says what happened to the secret.  A cancelled request is a   *)
(* step that gives up: it is noticed at every check of its token.          *)
(***************************************************************************)
EXTENDS Integers, FiniteSets

CONSTANT MaxRefs   \* bound: references issued in a behaviour (they are UUIDs)

ASSUME RefsAssumption == MaxRefs \in Nat

Refs == 1 .. MaxRefs

VARIABLES
    row,       \* the connection row: reference, staleReference, status = "connected"
    journal,   \* references journaled and not retired
    vault,     \* references with a secret
    issued,    \* references issued so far
    op         \* the operation under way, or what became of the last one

vars == <<row, journal, vault, issued, op>>

NoRow == [ref |-> 0, stale |-> 0, connected |-> FALSE]

\* `view` is the row as the operation knows it, `todo` the references it still
\* has to visit, `ref` the one it is about to retire, after which it is at
\* `then`.  `broken`: a removal failed.  `clean` (ghost): nothing failed.
Idle == [kind |-> "none", at |-> "idle", view |-> NoRow, todo |-> {}, ref |-> 0,
         then |-> "idle", fresh |-> 0, broken |-> FALSE, clean |-> FALSE]

Init ==
    /\ row = NoRow /\ journal = {} /\ vault = {} /\ issued = 0
    /\ op = Idle

-----------------------------------------------------------------------------

\* Defect: an absent reference is not filtered out.
NamedOrNull(r) == {r.ref, r.stale}

Named(r) == {r.ref, r.stale} \ {0}

Ended(clean) == [Idle EXCEPT !.kind = op.kind, !.clean = clean]
GiveUp == op' = Ended(FALSE)
Goto(at) == op' = [op EXCEPT !.at = at]

\* What a removal leaves in the vault, by its reported result.
Removal(r, result) ==
    /\ vault' \in IF result = "done" THEN {vault \ {r}} ELSE {vault, vault \ {r}}
    /\ UNCHANGED <<row, journal, issued>>

\* Defect: without a row there is nothing to recover.
BeginWithRow(kind) ==
    /\ op.at = "idle"
    /\ kind = "connect" => issued < MaxRefs
    /\ op' = [Idle EXCEPT
                !.kind = kind, !.view = row, !.clean = TRUE,
                !.at = IF kind = "forget" THEN "remove" ELSE "recover",
                !.todo = IF kind = "forget" THEN journal \cup Named(row)
                         ELSE IF row = NoRow THEN {} ELSE journal]
    /\ UNCHANGED <<row, journal, vault, issued>>

\* The row and the journal are read; connect and probe recover the journal first,
\* forget goes for every reference of the account.
Begin(kind) ==
    /\ op.at = "idle"
    /\ kind = "connect" => issued < MaxRefs
    /\ op' = [Idle EXCEPT
                !.kind = kind, !.view = row, !.clean = TRUE,
                !.at = IF kind = "forget" THEN "remove" ELSE "recover",
                !.todo = IF kind = "forget" THEN journal \cup Named(row) ELSE journal]
    /\ UNCHANGED <<row, journal, vault, issued>>

\* A cancelled token, a refused test session, an unreadable row.
Abandon ==
    /\ op.at \in {"recover", "test", "read"}
    /\ GiveUp
    /\ UNCHANGED <<row, journal, vault, issued>>

\* retireJournalEntry: a refusal of the store is swallowed.
RetireEntry ==
    /\ op.at = "retire"
    /\ journal' \in {journal, journal \ {op.ref}}
    /\ LET clean == op.clean /\ op.ref \notin journal'
       IN  op' = IF op.then = "idle" THEN Ended(FALSE)
                 ELSE [op EXCEPT !.at = op.then, !.ref = 0, !.then = "idle", !.clean = clean]
    /\ UNCHANGED <<row, vault, issued>>

Retire(r, then) == [op EXCEPT !.at = "retire", !.ref = r, !.then = then]

-----------------------------------------------------------------------------
(* recoverJournal                                                          *)

\* Defect: only the journal decides what is an orphan.
AdoptedNever(r) == r = 0

\* A journaled reference the row names is live.
Adopted(r) == r \in Named(op.view)

RecoverAdopted(r) ==
    /\ op.at = "recover" /\ r \in op.todo /\ Adopted(r)
    /\ op' = [op EXCEPT !.at = "retire", !.ref = r, !.then = "recover", !.todo = @ \ {r}]
    /\ UNCHANGED <<row, journal, vault, issued>>

\* An orphan is removed, then retired; one that cannot be removed stays journaled.
RecoverOrphan(r, result) ==
    /\ op.at = "recover" /\ r \in op.todo /\ ~Adopted(r)
    /\ Removal(r, result)
    /\ CASE result = "done" ->
                op' = [op EXCEPT !.at = "retire", !.ref = r, !.then = "recover", !.todo = @ \ {r}]
         [] result = "failed" -> op' = [op EXCEPT !.todo = @ \ {r}, !.clean = FALSE]
         [] result = "cancelled" -> GiveUp

\* connect goes on to test the session, probe to read with the stored one; a
\* probe without a row is refused here.
Recovered ==
    /\ op.at = "recover" /\ op.todo = {}
    /\ IF op.kind = "connect" THEN Goto("test")
       ELSE IF op.view.ref = 0 THEN op' = Ended(op.clean)
       ELSE Goto("read")
    /\ UNCHANGED <<row, journal, vault, issued>>

-----------------------------------------------------------------------------
(* connect                                                                 *)

\* The supplied session was accepted.
Test ==
    /\ op.at = "test"
    /\ Goto(IF op.view.stale \in {0, op.view.ref} THEN "journal" ELSE "stale")
    /\ UNCHANGED <<row, journal, vault, issued>>

\* The predecessor an earlier connect could not delete is removed first.
RemoveStale(result) ==
    /\ op.at = "stale" /\ op.kind = "connect"
    /\ Removal(op.view.stale, result)
    /\ IF result = "done" THEN op' = Retire(op.view.stale, "journal") ELSE GiveUp

\* Write-ahead: the fresh reference is durable before its secret exists.
RecordEntry ==
    /\ op.at = "journal"
    /\ issued' = issued + 1
    /\ \/ journal' = journal \cup {issued'} /\ op' = [op EXCEPT !.at = "write", !.fresh = issued']
       \/ journal' = journal /\ GiveUp
    /\ UNCHANGED <<row, vault>>

\* Defect: a failed write is taken for a stored secret.
WriteUnchecked ==
    /\ op.at = "write"
    /\ vault' \in {vault, vault \cup {op.fresh}}
    /\ Goto("save")
    /\ UNCHANGED <<row, journal, issued>>

\* The vault may have stored the secret although it reports a failure.
WriteSecret ==
    /\ op.at = "write"
    /\ \/ vault' = vault \cup {op.fresh} /\ Goto("save")
       \/ vault' \in {vault, vault \cup {op.fresh}} /\ Goto("compensate")
    /\ UNCHANGED <<row, journal, issued>>

\* Defect: the predecessor is not recorded with the row that replaces it.
SaveForgetful ==
    LET state == [ref |-> op.fresh, stale |-> 0, connected |-> TRUE]
    IN
    /\ op.at = "save"
    /\ \/ /\ row' = state
          /\ op' = [op EXCEPT !.at = "retire", !.ref = op.fresh, !.then = "confirm", !.view = state]
       \/ row' = row /\ Goto("compensate")
    /\ UNCHANGED <<journal, vault, issued>>

\* The row that links the secret also records the predecessor to remove; the
\* store may refuse it.
Save ==
    LET state == [ref |-> op.fresh, stale |-> op.view.ref, connected |-> TRUE]
    IN
    /\ op.at = "save"
    /\ \/ /\ row' = state
          /\ op' = [op EXCEPT !.at = "retire", !.ref = op.fresh, !.view = state,
                              !.then = IF state.stale = 0 THEN "confirm" ELSE "old"]
       \/ row' = row /\ Goto("compensate")
    /\ UNCHANGED <<journal, vault, issued>>

\* compensateJournalEntry: cannot be cancelled; if the removal fails the
\* reference stays journaled.
Compensate(result) ==
    /\ op.at = "compensate" /\ result # "cancelled"
    /\ Removal(op.fresh, result)
    /\ IF result = "done" THEN op' = Retire(op.fresh, "idle") ELSE GiveUp

\* The predecessor's secret, then its mark on the row; a failure is swallowed.
RemoveOld(result) ==
    /\ op.at = "old"
    /\ Removal(op.view.stale, result)
    /\ CASE result = "done" -> Goto("clear")
         [] result = "failed" -> op' = [op EXCEPT !.at = "confirm", !.clean = FALSE]
         [] result = "cancelled" -> GiveUp

ClearOld ==
    /\ op.at = "clear"
    /\ \/ row' = [op.view EXCEPT !.stale = 0] /\ Goto("confirm")
       \/ row' = row /\ op' = [op EXCEPT !.at = "confirm", !.clean = FALSE]
    /\ UNCHANGED <<journal, vault, issued>>

\* A row that no longer links the fresh reference puts it back in the journal.
Confirm ==
    /\ op.at = "confirm"
    /\ journal' = IF row.ref = op.fresh THEN journal ELSE journal \cup {op.fresh}
    /\ op' = Ended(op.clean /\ row.ref = op.fresh)
    /\ UNCHANGED <<row, vault, issued>>

-----------------------------------------------------------------------------
(* probe                                                                   *)

\* One page is read with the stored session; without its secret it is refused.
ReadOne(connected) ==
    /\ op.at = "read"
    /\ connected => op.view.ref \in vault
    /\ op' = [op EXCEPT !.view.connected = connected,
                        !.at = IF op.view.stale = 0 THEN "record" ELSE "stale"]
    /\ UNCHANGED <<row, journal, vault, issued>>

ProbeStale(result) ==
    /\ op.at = "stale" /\ op.kind = "probe"
    /\ Removal(op.view.stale, result)
    /\ CASE result = "done" -> op' = [op EXCEPT !.at = "record", !.view.stale = 0]
         [] result = "failed" -> op' = [op EXCEPT !.at = "record", !.clean = FALSE]
         [] result = "cancelled" -> GiveUp

RecordProbe ==
    /\ op.at = "record"
    /\ \/ row' = op.view /\ op' = Ended(op.clean)
       \/ row' = row /\ GiveUp
    /\ UNCHANGED <<journal, vault, issued>>

-----------------------------------------------------------------------------
(* forget                                                                  *)

RemoveSecret(r, result) ==
    /\ op.at = "remove" /\ r \in op.todo
    /\ Removal(r, result)
    /\ IF result = "cancelled" THEN GiveUp
       ELSE op' = [op EXCEPT !.todo = @ \ {r}, !.broken = @ \/ result = "failed"]

\* Nothing is forgotten while a removal failed.  The journal is the one listed at
\* the beginning: nothing else writes it.
Removed ==
    /\ op.at = "remove" /\ op.todo = {}
    /\ IF op.broken THEN GiveUp ELSE op' = [op EXCEPT !.at = "forget", !.todo = journal]
    /\ UNCHANGED <<row, journal, vault, issued>>

ForgetEntry(r) ==
    /\ op.at = "forget" /\ r \in op.todo
    /\ \/ journal' = journal \ {r} /\ op' = [op EXCEPT !.todo = @ \ {r}]
       \/ journal' = journal /\ GiveUp
    /\ UNCHANGED <<row, vault, issued>>

DeleteRow ==
    /\ op.at = "forget" /\ op.todo = {}
    /\ \/ row' = NoRow /\ op' = Ended(op.clean)
       \/ row # NoRow /\ row' = row /\ GiveUp
    /\ UNCHANGED <<journal, vault, issued>>

-----------------------------------------------------------------------------

\* The process dies; the next activation starts idle.
Crash ==
    /\ op.at # "idle"
    /\ op' = Idle
    /\ UNCHANGED <<row, journal, vault, issued>>

Results == {"done", "failed", "cancelled"}

Recovery ==
    \/ \E r \in Refs : RecoverAdopted(r) \/ \E result \in Results : RecoverOrphan(r, result)
    \/ Recovered

Connecting ==
    \/ Test \/ RecordEntry \/ WriteSecret \/ Save \/ ClearOld \/ Confirm
    \/ \E result \in Results : RemoveStale(result) \/ Compensate(result) \/ RemoveOld(result)

Probing ==
    \/ \E connected \in BOOLEAN : ReadOne(connected)
    \/ \E result \in Results : ProbeStale(result)
    \/ RecordProbe

Forgetting ==
    \/ \E r \in Refs : ForgetEntry(r) \/ \E result \in Results : RemoveSecret(r, result)
    \/ Removed \/ DeleteRow

Next ==
    \/ \E kind \in {"connect", "probe", "forget"} : Begin(kind)
    \/ Abandon \/ RetireEntry
    \/ Recovery \/ Connecting \/ Probing \/ Forgetting
    \/ Crash

Spec == Init /\ [][Next]_vars

-----------------------------------------------------------------------------
(* Properties                                                              *)

Rows == [ref : 0 .. MaxRefs, stale : 0 .. MaxRefs, connected : BOOLEAN]
Stages == {"idle", "recover", "retire", "test", "stale", "journal", "write", "save",
           "compensate", "old", "clear", "confirm", "read", "record", "remove", "forget"}

Operations ==
    [kind : {"none", "connect", "probe", "forget"}, at : Stages, view : Rows,
     todo : SUBSET Refs, ref : 0 .. MaxRefs,
     then : {"idle", "recover", "journal", "old", "confirm"},
     fresh : 0 .. MaxRefs, broken : BOOLEAN, clean : BOOLEAN]

\* Rows, journal, vault and operation keep their shape.
TypeOK ==
    /\ row \in Rows
    /\ journal \subseteq Refs /\ vault \subseteq Refs
    /\ issued \in 0 .. MaxRefs
    /\ op \in Operations

\* Whatever fails and wherever the process dies, every secret in the vault is one
\* the account can still name: by its row, its stale mark or its journal ("neither
\* a crash nor a failed cleanup can leave an unreachable credential").  The vault
\* cannot be listed, so a secret outside these would stay for ever.
Addressable == vault \subseteq Named(row) \cup journal

\* The secret the stored row points at is removed by forget only: no recovery,
\* compensation, clean-up or failed connect takes a working session away.
SessionKept ==
    [][row.ref \in vault /\ row.ref \notin vault' => op.kind = "forget"]_vars

\* A row is only ever saved as connected for a secret the vault holds.
ConnectedIsBacked ==
    [][row' # row /\ row'.connected => row'.ref \in vault']_vars

\* An operation in which nothing failed leaves nothing behind, whatever earlier
\* ones left: the stored session alone, or nothing after forget.
CleanLeavesNothing ==
    op.at = "idle" /\ op.clean =>
        /\ journal = {} /\ row.stale = 0 /\ vault \subseteq {row.ref}
        /\ op.kind = "connect" => row.connected /\ vault = {row.ref}
        /\ op.kind = "forget" => row = NoRow

=============================================================================
