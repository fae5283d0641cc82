----------------------------- MODULE LuoguBacklog -----------------------------
(***************************************************************************)
(* The problems whose metadata is still missing (the backlog of            *)
(* src/application/luogu-sync-service.ts).                                 *)
(*                                                                         *)
(* Submissions refer to problems the store may not have.  Their keys wait  *)
(* in a bounded queue of the account until a repair reads the problem, the *)
(* user supplies it, or the user discards the key for every account.       *)
(* Services of several processes work on the same rows, each under a lease *)
(* that may lapse at any moment, also between the reading of the clock and *)
(* the transaction that renews by it.  The order within a queue, the       *)
(* counters and the diagnostics are left out.                              *)
(***************************************************************************)
EXTENDS LuoguSource, Naturals, FiniteSets

CONSTANTS
    Keys,         \* keys of problems
    NoKey,
    MaxBacklog,   \* LUOGU_SYNC_MAX_METADATA_BACKLOG
    PageKeys      \* how many problems a page may refer to (LUOGU_SYNC_PAGE_SIZE)

ASSUME BacklogAssumption ==
    /\ NoKey \notin Keys
    /\ MaxBacklog \in Nat /\ PageKeys \in Nat

VARIABLES
    referenced,  \* keys that stored submissions refer to
    known,       \* keys whose problem row has a statement
    disposed,    \* keys with a durable disposition: skipped or trashed
    queued,      \* missingMetadata of each account's row
    holder,      \* owner of each account's row
    alive,       \* whether that lease has not expired
    act          \* of each service: what it is doing

backlogVars == <<referenced, known, disposed, queued, holder, alive, act>>

\* `copy` is the queue as repairMetadata read it, `tried` what it attempted; `sound`
\* tells whether the lease was live when renewLease read the clock.
Resting == [at |-> "idle", kind |-> "pass", acct |-> NoAccount, key |-> NoKey,
            copy |-> {}, tried |-> {}, page |-> {}, sound |-> FALSE]

BacklogInit ==
    /\ referenced = {} /\ known = {} /\ disposed = {}
    /\ queued = [a \in Accounts |-> {}]
    /\ holder = [a \in Accounts |-> Nobody] /\ alive = [a \in Accounts |-> FALSE]
    /\ act = [s \in Services |-> Resting]

OwnsRow(s) == holder[act[s].acct] = s /\ alive[act[s].acct]

Proceed(s, p) ==
    /\ act' = [act EXCEPT ![s] = p]
    /\ UNCHANGED <<referenced, known, disposed, queued, holder, alive>>

\* A refused, failed or cancelled step ends the operation.
LetGo(s) ==
    /\ act[s].at \notin {"idle", "looking", "leaving"}
    /\ Proceed(s, [act[s] EXCEPT !.at = "leaving"])

-----------------------------------------------------------------------------
(* The claim, and the end of whatever it was taken for                     *)

ClaimRow(s, a, p) ==
    /\ \A b \in Accounts \ {a} : ~alive[b]
    /\ alive[a] => holder[a] = s
    /\ holder' = [holder EXCEPT ![a] = s] /\ alive' = [alive EXCEPT ![a] = TRUE]
    /\ act' = [act EXCEPT ![s] = p]
    /\ UNCHANGED <<referenced, known, disposed, queued>>

\* A history pass, a metadata pass, a change of dispositions.
BeginWork(s, a) ==
    /\ act[s].at = "idle"
    /\ \E stage \in {"paging", "opening", "disposing"} :
        ClaimRow(s, a, [Resting EXCEPT !.at = stage, !.acct = a])

\* retryMetadata and supplementMetadata look at the queue before they claim.
AskForItem(s, a, k) ==
    /\ act[s].at = "idle" /\ k \in queued[a] \ disposed
    /\ \E kind \in {"retry", "supplement"} :
        Proceed(s, [Resting EXCEPT !.at = "looking", !.kind = kind, !.acct = a, !.key = k])

ClaimForItem(s) ==
    LET p == act[s]
    IN  /\ p.at = "looking"
        /\ ClaimRow(s, p.acct, [p EXCEPT !.at = IF p.kind = "retry" THEN "asking" ELSE "requested"])

RefuseItem(s) ==
    /\ act[s].at = "looking"
    /\ Proceed(s, Resting)

\* settleState and releaseLease: a newer owner's row is left alone.
LeaveRow(s) ==
    LET a == act[s].acct
    IN  /\ act[s].at = "leaving"
        /\ act' = [act EXCEPT ![s] = Resting]
        /\ IF holder[a] # s THEN UNCHANGED <<holder, alive>>
           ELSE holder' = [holder EXCEPT ![a] = Nobody] /\ alive' = [alive EXCEPT ![a] = FALSE]
        /\ UNCHANGED <<referenced, known, disposed, queued>>

-----------------------------------------------------------------------------
(* Pages                                                                   *)

\* A page is asked for only while the queue has room for all it may refer to.
FetchKeys(s) ==
    LET p == act[s]
    IN  /\ p.at = "paging"
        /\ Cardinality(queued[p.acct]) + PageKeys <= MaxBacklog
        /\ \E page \in SUBSET Keys :
            /\ Cardinality(page) <= PageKeys
            /\ Proceed(s, [p EXCEPT !.at = "fetched", !.page = page])

EndPages(s) ==
    /\ act[s].at = "paging"
    /\ Proceed(s, [act[s] EXCEPT !.at = "opening"])

\* The import names the problems it does not have; dispositions are never queued.
Wanting(page) == page \ (known \cup disposed)

CommitKeys(s) ==
    LET p == act[s]
        backlog == queued[p.acct] \cup Wanting(p.page)
    IN  /\ p.at = "fetched" /\ OwnsRow(s)
        /\ Cardinality(backlog) <= MaxBacklog
        /\ referenced' = referenced \cup p.page
        /\ queued' = [queued EXCEPT ![p.acct] = backlog]
        /\ act' = [act EXCEPT ![s] = [p EXCEPT !.at = "paging", !.page = {}]]
        /\ UNCHANGED <<known, disposed, holder, alive>>

-----------------------------------------------------------------------------
(* repairMetadata                                                          *)

\* The row must be ours; whether the lease is live is not asked here.
OpenRepair(s) ==
    LET p == act[s]
    IN  /\ p.at = "opening"
        /\ Proceed(s, IF holder[p.acct] = s THEN [p EXCEPT !.at = "repairing", !.copy = queued[p.acct]]
                      ELSE [p EXCEPT !.at = "leaving"])

PickKey(s, k) ==
    LET p == act[s]
    IN  /\ p.at = "repairing" /\ k \in p.copy \ (p.tried \cup disposed)
        /\ Proceed(s, [p EXCEPT !.at = "asking", !.key = k, !.tried = @ \cup {k}])

\* Defect: only the revision of the row is compared.
MaySaveAnyRow(s) == TRUE

\* saveMetadataProgress: the row must be ours and live at the write.
MaySave(s) == OwnsRow(s)

\* The whole queue is replaced by what is left of the copy.
SaveProgress(s, p) ==
    IF MaySave(s)
    THEN /\ queued' = [queued EXCEPT ![p.acct] = p.copy]
         /\ act' = [act EXCEPT ![s] = [p EXCEPT !.at = "repairing", !.key = NoKey]]
         /\ UNCHANGED <<referenced, known, disposed, holder, alive>>
    ELSE Proceed(s, [p EXCEPT !.at = "leaving"])

DropDisposed(s, k) ==
    LET p == act[s]
    IN  /\ p.at = "repairing" /\ k \in (p.copy \ p.tried) \cap disposed
        /\ SaveProgress(s, [p EXCEPT !.copy = @ \ {k}])

\* renewLease reads the clock, then waits for its transaction.
ReadClock(s) ==
    /\ act[s].at = "asking"
    /\ Proceed(s, [act[s] EXCEPT !.at = "renewing", !.sound = alive[act[s].acct]])

RenewRow(s) ==
    LET p == act[s]
    IN  /\ p.at = "renewing" /\ holder[p.acct] = s /\ p.sound
        /\ alive' = [alive EXCEPT ![p.acct] = TRUE]
        /\ act' = [act EXCEPT ![s] = [p EXCEPT !.at = "checking", !.sound = FALSE]]
        /\ UNCHANGED <<referenced, known, disposed, queued, holder>>

\* requireLiveQueuedMetadataKey.
StillWanted(s) ==
    LET p == act[s]
    IN  p.key \notin disposed /\ OwnsRow(s) /\ p.key \in queued[p.acct]

Request(s) ==
    /\ act[s].at = "checking" /\ StillWanted(s)
    /\ Proceed(s, [act[s] EXCEPT !.at = "requested"])

\* Defect: the answer is committed as it comes.
MayStoreAnswer(s) == TRUE

\* The hook inside the import's transaction asks again.
MayStore(s) == StillWanted(s)

\* Problem row and dequeue together.
CommitItem(s) ==
    LET p == act[s]
    IN  /\ p.at = "requested" /\ MayStore(s)
        /\ known' = known \cup {p.key}
        /\ queued' = [queued EXCEPT ![p.acct] = @ \ {p.key}]
        /\ act' = [act EXCEPT ![s] =
                IF p.kind = "pass" THEN [p EXCEPT !.at = "repairing", !.copy = @ \ {p.key}, !.key = NoKey]
                ELSE [p EXCEPT !.at = "leaving"]]
        /\ UNCHANGED <<referenced, disposed, holder, alive>>

\* A failed read of a pass rotates the key and saves the copy; a failed item keeps it.
FailItem(s) ==
    /\ act[s].at = "requested" /\ act[s].kind = "pass"
    /\ SaveProgress(s, act[s])

-----------------------------------------------------------------------------
(* manageProblems: dispositions and every account's queue in one           *)
(* transaction                                                             *)

LocallyKnown == known \cup referenced \cup UNION {queued[a] : a \in Accounts}

Discard(s, S) ==
    /\ act[s].at = "disposing" /\ OwnsRow(s)
    /\ S # {} /\ S \subseteq LocallyKnown \ disposed
    /\ disposed' = disposed \cup S
    /\ queued' = [a \in Accounts |-> queued[a] \ S]
    /\ act' = [act EXCEPT ![s].at = "leaving"]
    /\ UNCHANGED <<referenced, known, holder, alive>>

\* Defect: the user restores a key, and a later page is to find it missing.
NothingRequeued(S) == {}

\* A restored key without a statement goes back to the queue of who restored it.
Requeued(S) == S \ known

RestoreKeys(s, S) ==
    LET a == act[s].acct
        backlog == (queued[a] \ S) \cup Requeued(S)
    IN  /\ act[s].at = "disposing" /\ OwnsRow(s)
        /\ S # {} /\ S \subseteq disposed
        /\ Cardinality(backlog) <= MaxBacklog
        /\ disposed' = disposed \ S
        /\ queued' = [b \in Accounts |-> IF b = a THEN backlog ELSE queued[b] \ S]
        /\ act' = [act EXCEPT ![s].at = "leaving"]
        /\ UNCHANGED <<referenced, known, holder, alive>>

-----------------------------------------------------------------------------

LapseRow(a) ==
    /\ alive[a] /\ alive' = [alive EXCEPT ![a] = FALSE]
    /\ UNCHANGED <<referenced, known, disposed, queued, holder, act>>

\* The process ends; its next service has another owner id.
EndProcess(s) ==
    /\ act[s].at # "idle"
    /\ act' = [act EXCEPT ![s] = Resting]
    /\ holder' = [a \in Accounts |-> IF holder[a] = s THEN Nobody ELSE holder[a]]
    /\ UNCHANGED <<referenced, known, disposed, queued, alive>>

BacklogNext ==
    \/ \E a \in Accounts : LapseRow(a)
    \/ \E s \in Services :
        \/ LetGo(s)
        \/ ClaimForItem(s)
        \/ RefuseItem(s)
        \/ LeaveRow(s)
        \/ FetchKeys(s)
        \/ EndPages(s)
        \/ CommitKeys(s)
        \/ OpenRepair(s)
        \/ ReadClock(s)
        \/ RenewRow(s)
        \/ Request(s)
        \/ CommitItem(s)
        \/ FailItem(s)
        \/ EndProcess(s)
        \/ \E a \in Accounts : BeginWork(s, a) \/ \E k \in Keys : AskForItem(s, a, k)
        \/ \E k \in Keys : PickKey(s, k) \/ DropDisposed(s, k)
        \/ \E S \in SUBSET Keys : Discard(s, S) \/ RestoreKeys(s, S)

BacklogSpec == BacklogInit /\ [][BacklogNext]_backlogVars

-----------------------------------------------------------------------------

BacklogTypeOK ==
    /\ referenced \subseteq Keys /\ known \subseteq Keys /\ disposed \subseteq Keys
    /\ queued \in [Accounts -> SUBSET Keys]
    /\ holder \in [Accounts -> Services \cup {Nobody}] /\ alive \in [Accounts -> BOOLEAN]
    /\ act \in [Services ->
            [at : {"idle", "looking", "paging", "fetched", "opening", "repairing", "asking",
                   "renewing", "checking", "requested", "disposing", "leaving"},
             kind : {"pass", "retry", "supplement"}, acct : Accounts \cup {NoAccount},
             key : Keys \cup {NoKey}, copy : SUBSET Keys, tried : SUBSET Keys,
             page : SUBSET Keys, sound : BOOLEAN]]

\* No key is lost: whatever leases lapse, queues fill up and copies of a queue grow
\* stale, a problem that submissions refer to is stored, discarded or queued in some
\* account (commitPage, repairMetadata, cleanupDispositionQueues).
KeysKept == referenced \subseteq known \cup disposed \cup UNION {queued[a] : a \in Accounts}

\* An answer that was under way when the user discarded its key is not stored, and a
\* problem is stored only for a key that was queued for its account, by the service
\* that holds the account (requireLiveQueuedMetadataKey).
StoresOnlyWanted ==
    [][\A k \in known' \ known :
        /\ k \notin disposed
        /\ \E s \in Services : k = act[s].key /\ OwnsRow(s) /\ k \in queued[act[s].acct]]_backlogVars

\* The backlog loses no key that is still wanted, and nothing is stored for a key that
\* no longer is.
BacklogKept == []KeysKept /\ StoresOnlyWanted

=============================================================================
