---------------------------- MODULE ClosingProofs ----------------------------
(***************************************************************************)
(* Proofs about what is closed: LuoguSlot, for any accounts and any number *)
(* of requests and of swept accounts, the plugin around it (LuoguHost,     *)
(* PluginLifecycle), for any clients and any model operations, the store   *)
(* for any callers, a page of the interface for any views, and the run of  *)
(* all of them, the bulk refresh of MaterialBatchProofs included.          *)
(*                                                                         *)
(* What the slot promises at every instant is almost inductive by itself.  *)
(* Inv adds that only a launched pass has a reconciliation queued behind   *)
(* it, without which the end of an unlaunched one could lose it, and that  *)
(* only an operation that will own a lease waits for a claim, without      *)
(* which a claim could leave a lease that nothing releases.  That one      *)
(* account of the source has a live lease needs no more than its types,    *)
(* and that no renewal outlasts its lease.                                 *)
(*                                                                         *)
(* That nothing of the plugin outlives its disposal is far from inductive. *)
(* PluginInv adds that no timer is armed behind a disposal, and how far    *)
(* the disposal has come: past its API the host gets no handler any more   *)
(* (RoutesInv), and behind a closed controller the store gets no new       *)
(* operation (StoreInv).                                                   *)
(*                                                                         *)
(* That transactions run apart rests on who owns the connection: an open   *)
(* transaction is the owner's, and every write of it too (Apart).  That a  *)
(* page shows no older answer rests on the age of the answer under way     *)
(* (NoneLate).                                                             *)
(***************************************************************************)
EXTENDS MCClosing, MaterialBatchProofs, TLAPS

\* Only a launched pass is asked to reconcile afterwards (start).
QueuedIsLaunched == pass.queued => Launched

\* Only an operation that takes a lease waits for its claim (runConnectionOp).
OnlyLeasedClaims == sourceOp.stage = "claiming" => sourceOp.kind = "leased"

Inv ==
    /\ SlotTypeOK
    /\ OneHolder
    /\ LeaseIsBacked
    /\ NothingOutlivesClose
    /\ QueuedIsLaunched
    /\ OnlyLeasedClaims

Passes == [acct : Accounts \cup {NoAccount}, mode : Modes,
           stage : {"none", "claiming", "claimed", "running", "settled", "releasing", "released"},
           by : {"start", "sweep", "queue"}, cancelled : BOOLEAN, queued : BOOLEAN]

SourceOps == [acct : Accounts \cup {NoAccount}, kind : {"leased", "forget"},
              stage : {"none", "claiming", "working"}]

Leases == [Accounts -> [owner : {"none", Us, Other}, live : BOOLEAN]]

-----------------------------------------------------------------------------
(* What the helpers return                                                 *)

\* A published pass is a pass that holds the slot and has nothing queued (beginPass).
LEMMA PublishedPass ==
    ASSUME NEW a \in Accounts, NEW mode \in Modes, NEW by \in {"start", "sweep", "queue"}
    PROVE  /\ Published(a, mode, by) \in Passes
           /\ Published(a, mode, by).acct = a
           /\ Published(a, mode, by).stage = "claiming"
           /\ ~Published(a, mode, by).queued
  BY DEF Published, NoPass, Passes, Modes

\* The free slot is no pass, and no operation (LuoguSyncService).
LEMMA Nothing ==
    /\ NoPass \in Passes /\ NoPass.stage = "none" /\ ~NoPass.queued
    /\ NoOp \in SourceOps /\ NoOp.stage = "none"
  BY DEF NoPass, NoOp, Passes, SourceOps, Modes

\* A pass that ends leaves the slot free or to the reconciliation queued behind it
\* (finishPass).
LEMMA FinishedPass ==
    ASSUME SlotTypeOK, PassHolds
    PROVE  /\ Finished \in Passes
           /\ Finished.stage \in {"none", "claiming"}
           /\ Finished.stage # "none" => Finished.acct \in Accounts
           /\ ~Finished.queued
  <1>1. "full" \in Modes /\ pass.acct \in Accounts
    BY DEF Modes, SlotTypeOK
  <1>2. CASE Launched /\ pass.queued /\ service = "open"
    BY <1>1, <1>2, PublishedPass DEF Finished
  <1>3. CASE ~(Launched /\ pass.queued /\ service = "open")
    BY <1>3, Nothing DEF Finished
  <1>4. QED
    BY <1>2, <1>3

\* A lease that is taken is live and the service's, and no other row changes (claim).
LEMMA Taken ==
    ASSUME SlotTypeOK, NEW a \in Accounts, Take(a)
    PROVE  /\ lease' \in Leases /\ unreleased' \subseteq Accounts
           /\ lease'[a] = Held(Us)
           /\ \A b \in Accounts \ {a} : lease'[b] = lease[b] /\ (b \in unreleased => b \in unreleased')
  <1>1. lease \in Leases /\ unreleased \subseteq Accounts
    BY DEF SlotTypeOK, Leases
  <1>2. Held(Us) \in [owner : {"none", Us, Other}, live : BOOLEAN]
    BY DEF Held, Us
  <1>3. QED
    BY <1>1, <1>2 DEF Take, Leases

\* A lease that is given back is gone, or it is remembered that the store refused
\* (releaseLease, settleState).
LEMMA GivenBack ==
    ASSUME SlotTypeOK, NEW a \in Accounts, GiveBack(a)
    PROVE  /\ lease' \in Leases /\ unreleased' \subseteq Accounts
           /\ lease'[a].owner = Us => a \in unreleased'
           /\ \A b \in Accounts \ {a} : lease'[b] = lease[b] /\ (b \in unreleased => b \in unreleased')
           /\ \A b \in Accounts : lease'[b].live => lease[b].live
  <1>1. lease \in Leases /\ unreleased \subseteq Accounts
    BY DEF SlotTypeOK, Leases
  <1>2. Free \in [owner : {"none", Us, Other}, live : BOOLEAN] /\ Free.owner # Us /\ ~Free.live
    BY DEF Free, Us
  <1>3. CASE UNCHANGED <<lease, unreleased>> /\ lease[a].owner # Us
    BY <1>1, <1>3
  <1>4. CASE lease' = [lease EXCEPT ![a] = Free] /\ unreleased' = unreleased \ {a}
    BY <1>1, <1>2, <1>4 DEF Leases
  <1>5. CASE unreleased' = unreleased \cup {a} /\ UNCHANGED lease
    BY <1>1, <1>5
  <1>6. QED
    BY <1>3, <1>4, <1>5 DEF GiveBack

-----------------------------------------------------------------------------
(* The types, split into what an action sets                               *)

\* SlotTypeOK in terms of the sets above, for a step to be typed field by field.
LEMMA TypesAgain ==
    ASSUME pass' \in Passes, pass'.stage # "none" => pass'.acct \in Accounts,
           sourceOp' \in SourceOps, sourceOp'.stage # "none" => sourceOp'.acct \in Accounts,
           starts' \in 0 .. MaxRequests, sweep' \in 0 .. MaxSweep,
           service' \in {"open", "closing", "closed"},
           lease' \in Leases, unreleased' \subseteq Accounts
    PROVE  SlotTypeOK'
  BY DEF SlotTypeOK, Passes, SourceOps, Leases, PassHolds, OpHolds

\* SlotTypeOK, read the same way before the step.
LEMMA Types ==
    ASSUME SlotTypeOK
    PROVE  /\ pass \in Passes /\ (PassHolds => pass.acct \in Accounts)
           /\ sourceOp \in SourceOps /\ (OpHolds => sourceOp.acct \in Accounts)
           /\ starts \in 0 .. MaxRequests /\ sweep \in 0 .. MaxSweep
           /\ service \in {"open", "closing", "closed"}
           /\ lease \in Leases /\ unreleased \subseteq Accounts
  BY DEF SlotTypeOK, Passes, SourceOps, Leases

-----------------------------------------------------------------------------
(* The invariant                                                           *)

\* A step that keeps the leases keeps them backed if what backed them stays.
LEMMA BackedAgain ==
    ASSUME LeaseIsBacked, UNCHANGED <<lease, unreleased>>,
           \A a \in Accounts : PassOwns(a) => PassOwns(a)',
           \A a \in Accounts : OpOwns(a) => OpOwns(a)'
    PROVE  LeaseIsBacked'
  BY DEF LeaseIsBacked

\* While the service is open nothing is promised of its end (close).
LEMMA NotClosed ==
    ASSUME service' # "closed" PROVE NothingOutlivesClose'
  BY DEF NothingOutlivesClose

\* A closed service has nothing at work (settle, close).
LEMMA ClosedRests ==
    ASSUME Inv, service = "closed"
    PROVE  /\ pass.stage = "none" /\ sourceOp.stage = "none" /\ starts = 0 /\ sweep = 0
           /\ \A a \in Accounts : lease[a].owner = Us => a \in unreleased
  BY DEF Inv, NothingOutlivesClose, PassHolds, OpHolds

\* The invariant of the slot holds at the start.
THEOREM InvInit == SlotInit => Inv
  <1> SUFFICES ASSUME SlotInit PROVE Inv
    OBVIOUS
  <1>1. Free \in [owner : {"none", Us, Other}, live : BOOLEAN] /\ Free.owner # Us
    BY DEF Free, Us
  <1>2. lease \in Leases /\ \A a \in Accounts : lease[a].owner # Us
    BY <1>1 DEF SlotInit, Leases
  <1>3. pass = NoPass /\ sourceOp = NoOp /\ starts = 0 /\ sweep = 0 /\ service = "open" /\ unreleased = {}
    BY DEF SlotInit
  <1>4. MaxRequests \in Nat /\ MaxSweep \in Nat
    BY SlotAssumption
  <1>5. SlotTypeOK
    BY <1>2, <1>3, <1>4, Nothing DEF SlotTypeOK, Passes, SourceOps, Leases, PassHolds, OpHolds
  <1>6. QED
    BY <1>2, <1>3, <1>5, Nothing
       DEF Inv, OneHolder, LeaseIsBacked, NothingOutlivesClose, QueuedIsLaunched, OnlyLeasedClaims, PassHolds

\* A request or a sweep publishes a pass on the free slot (beginPass).
LEMMA PublishStep ==
    ASSUME Inv, SlotFree, NEW a \in Accounts, NEW mode \in Modes,
           NEW by \in {"start", "sweep", "queue"},
           pass' = Published(a, mode, by), service # "closed",
           starts' \in 0 .. MaxRequests, sweep' \in 0 .. MaxSweep,
           UNCHANGED <<sourceOp, service, lease, unreleased>>
    PROVE  Inv'
  <1>1. /\ pass' \in Passes /\ pass'.acct = a /\ pass'.stage = "claiming" /\ ~pass'.queued
    BY PublishedPass
  <1>2. SlotTypeOK'
    BY <1>1, Types, TypesAgain DEF Inv, OpHolds
  <1>3. LeaseIsBacked'
    BY BackedAgain DEF Inv, SlotFree, PassHolds, PassOwns, OpOwns
  <1>4. QED
    BY <1>1, <1>2, <1>3, NotClosed DEF Inv, OneHolder, QueuedIsLaunched, OnlyLeasedClaims, SlotFree, OpHolds

\* A pass that owns nothing any more ends (finishPass).
LEMMA FinishStep ==
    ASSUME Inv, PassHolds, pass.stage \in {"claiming", "released", "settled"}, pass' = Finished,
           UNCHANGED <<sourceOp, starts, sweep, service, lease, unreleased>>
    PROVE  Inv'
  <1>1. /\ Finished \in Passes /\ Finished.stage \in {"none", "claiming"}
        /\ Finished.stage # "none" => Finished.acct \in Accounts
        /\ ~Finished.queued
    BY FinishedPass DEF Inv
  <1>2. SlotTypeOK'
    BY <1>1, Types, TypesAgain DEF Inv, OpHolds
  <1>3. LeaseIsBacked'
    BY BackedAgain DEF Inv, PassOwns, OpOwns
  <1>4. ~OpHolds /\ service # "closed"
    BY ClosedRests DEF Inv, OneHolder, PassHolds
  <1>5. QED
    BY <1>1, <1>2, <1>3, <1>4, NotClosed DEF Inv, OneHolder, QueuedIsLaunched, OnlyLeasedClaims, OpHolds

\* A pass moves on to a stage that owns no less, or is marked, and keeps its account.
LEMMA MoveStep ==
    ASSUME Inv, PassHolds, pass' \in Passes, pass'.acct = pass.acct, pass'.stage # "none",
           pass.stage \in {"claimed", "running", "releasing"}
               => pass'.stage \in {"claimed", "running", "releasing"},
           pass'.queued => pass'.stage \in {"running", "settled"},
           service' \in {"open", "closing"},
           starts' \in 0 .. MaxRequests,
           UNCHANGED <<sourceOp, sweep, lease, unreleased>>
    PROVE  Inv'
  <1>1. pass.acct \in Accounts
    BY Types DEF Inv
  <1>2. SlotTypeOK'
    BY <1>1, Types, TypesAgain DEF Inv, OpHolds
  <1>3. LeaseIsBacked'
    BY BackedAgain DEF Inv, PassOwns, OpOwns
  <1>4. QED
    BY <1>2, <1>3, NotClosed DEF Inv, OneHolder, QueuedIsLaunched, OnlyLeasedClaims, PassHolds, OpHolds, Launched

\* The rows change for one account, and nothing else does.
LEMMA RowStep ==
    ASSUME Inv, NEW a \in Accounts, lease' \in Leases, unreleased' \subseteq Accounts,
           lease'[a].owner = Us => lease[a].owner = Us /\ (a \in unreleased => a \in unreleased'),
           \A b \in Accounts \ {a} : lease'[b] = lease[b] /\ (b \in unreleased => b \in unreleased'),
           UNCHANGED <<pass, sourceOp, starts, sweep, service>>
    PROVE  Inv'
  <1>1. SlotTypeOK'
    BY Types, TypesAgain DEF Inv, PassHolds, OpHolds
  <1>2. LeaseIsBacked'
    BY DEF Inv, LeaseIsBacked, PassOwns, OpOwns
  <1>3. NothingOutlivesClose'
    BY DEF Inv, NothingOutlivesClose, PassHolds, OpHolds
  <1>4. QED
    BY <1>1, <1>2, <1>3 DEF Inv, OneHolder, QueuedIsLaunched, OnlyLeasedClaims, PassHolds, OpHolds, Launched

\* Only the counters change, while the service is not closed.
LEMMA CountStep ==
    ASSUME Inv, starts' \in 0 .. MaxRequests, sweep' \in 0 .. MaxSweep, service # "closed",
           UNCHANGED <<pass, sourceOp, service, lease, unreleased>>
    PROVE  Inv'
  <1>1. SlotTypeOK'
    BY Types, TypesAgain DEF Inv, PassHolds, OpHolds
  <1>2. LeaseIsBacked'
    BY BackedAgain DEF Inv, PassOwns, OpOwns
  <1>3. QED
    BY <1>1, <1>2, NotClosed DEF Inv, OneHolder, QueuedIsLaunched, OnlyLeasedClaims, PassHolds, OpHolds, Launched

\* The requests and the sweeps keep the invariant (start, startup, tick).
LEMMA RequestSteps ==
    ASSUME Inv, \/ Ask \/ AnswerAtOnce \/ BeginSweep \/ SkipAccount \/ EndSweep
    PROVE  Inv'
  <1>1. starts \in 0 .. MaxRequests /\ sweep \in 0 .. MaxSweep /\ MaxRequests \in Nat /\ MaxSweep \in Nat
    BY Types, SlotAssumption DEF Inv
  <1>2. CASE Ask
    BY <1>1, <1>2, CountStep DEF Ask
  <1>3. CASE AnswerAtOnce
    BY <1>1, <1>3, CountStep, ClosedRests DEF AnswerAtOnce
  <1>4. CASE BeginSweep
    BY <1>1, <1>4, CountStep DEF BeginSweep
  <1>5. CASE SkipAccount
    BY <1>1, <1>5, CountStep, ClosedRests DEF SkipAccount
  <1>6. CASE EndSweep
    BY <1>1, <1>6, CountStep, ClosedRests DEF EndSweep
  <1>7. QED
    BY <1>2, <1>3, <1>4, <1>5, <1>6

\* So do a pass that is published, and one that is asked to reconcile or to stop.
LEMMA AskedSteps ==
    ASSUME Inv, NEW a \in Accounts,
           \/ SweepAccount(a)
           \/ DrainPass(a)
           \/ \E mode \in Modes : QueueFull(a, mode) \/ BeginPass(a, mode)
    PROVE  Inv'
  <1>1. /\ starts \in 0 .. MaxRequests /\ sweep \in 0 .. MaxSweep /\ MaxRequests \in Nat
        /\ MaxSweep \in Nat /\ pass \in Passes /\ service \in {"open", "closing", "closed"}
    BY Types, SlotAssumption DEF Inv
  <1>2. CASE SweepAccount(a)
    <2>1. "resume" \in Modes /\ sweep - 1 \in 0 .. MaxSweep /\ service # "closed"
      BY <1>1, <1>2, ClosedRests DEF SweepAccount, Modes
    <2>2. QED
      BY <1>1, <1>2, <2>1, PublishStep DEF SweepAccount
  <1>3. CASE DrainPass(a)
    <2>1. /\ pass' \in Passes /\ pass'.acct = pass.acct /\ pass'.stage = pass.stage /\ ~pass'.queued
      BY <1>1, <1>3 DEF DrainPass, Passes
    <2>2. QED
      BY <1>1, <1>3, <2>1, MoveStep, ClosedRests DEF DrainPass, PassHolds
  <1>4. CASE \E mode \in Modes : QueueFull(a, mode)
    <2>1. /\ pass' \in Passes /\ pass'.acct = pass.acct /\ pass'.stage = pass.stage
      BY <1>1, <1>4 DEF QueueFull, Passes
    <2>2. QED
      BY <1>1, <1>4, <2>1, MoveStep DEF QueueFull, Queues, PassHolds, Launched
  <1>5. CASE \E mode \in Modes : BeginPass(a, mode)
    <2>1. starts > 0 /\ starts' = starts - 1 /\ service = "open" /\ SlotFree
      BY <1>5 DEF BeginPass
    <2>2. starts' \in 0 .. MaxRequests
      BY <1>1, <2>1
    <2>3. QED
      BY <1>1, <1>5, <2>1, <2>2, PublishStep DEF BeginPass
  <1>6. QED
    BY <1>2, <1>3, <1>4, <1>5

\* So do the steps of the pass (claim, reservePass, attachPass, settleState, finishPass).
LEMMA PassSteps ==
    ASSUME Inv, \/ RefuseClaim \/ Claim \/ Launch \/ Withdraw \/ Release \/ Settle \/ Finish
    PROVE  Inv'
  <1>1. /\ pass \in Passes /\ (PassHolds => pass.acct \in Accounts)
        /\ starts \in 0 .. MaxRequests /\ service \in {"open", "closing", "closed"}
    BY Types DEF Inv
  <1>2. CASE RefuseClaim
    BY <1>2, FinishStep DEF RefuseClaim, PassHolds
  <1>3. CASE Finish
    BY <1>3, FinishStep DEF Finish, PassHolds
  <1>4. CASE Launch
    <2>1. pass' \in Passes /\ pass'.acct = pass.acct /\ pass'.stage = "running" /\ pass'.queued = pass.queued
      BY <1>1, <1>4 DEF Launch, Passes
    <2>2. QED
      BY <1>1, <1>4, <2>1, MoveStep DEF Launch, PassHolds
  <1>5. CASE Withdraw
    <2>1. pass' \in Passes /\ pass'.acct = pass.acct /\ pass'.stage = "releasing" /\ pass'.queued = pass.queued
      BY <1>1, <1>5 DEF Withdraw, Passes
    <2>2. ~pass.queued /\ service # "closed"
      BY <1>5, ClosedRests DEF Withdraw, Inv, QueuedIsLaunched, Launched
    <2>3. QED
      BY <1>1, <1>5, <2>1, <2>2, MoveStep DEF Withdraw, PassHolds
  <1>6. CASE Claim
    <2>1. /\ pass.stage = "claiming" /\ service = "open" /\ pass.acct \in Accounts /\ Take(pass.acct)
          /\ UNCHANGED <<sourceOp, starts, sweep, service>>
      BY <1>1, <1>6 DEF Claim, PassHolds
    <2>2. /\ pass' \in Passes /\ pass'.acct = pass.acct /\ pass'.stage = "claimed" /\ pass'.queued = pass.queued
      BY <1>1, <1>6 DEF Claim, Passes
    <2>3. /\ lease' \in Leases /\ unreleased' \subseteq Accounts
          /\ \A b \in Accounts \ {pass.acct} : lease'[b] = lease[b] /\ (b \in unreleased => b \in unreleased')
      BY <2>1, Taken DEF Inv
    <2>4. SlotTypeOK'
      BY <2>1, <2>2, <2>3, Types, TypesAgain DEF Inv, OpHolds
    <2>5. LeaseIsBacked'
      BY <2>1, <2>2, <2>3 DEF Inv, LeaseIsBacked, PassOwns, OpOwns
    <2>6. QED
      BY <2>1, <2>2, <2>4, <2>5, NotClosed
         DEF Inv, OneHolder, QueuedIsLaunched, OnlyLeasedClaims, PassHolds, OpHolds, Launched
  <1>7. CASE Release \/ Settle
    <2>1. /\ pass.stage \in {"releasing", "running"} /\ pass.acct \in Accounts /\ GiveBack(pass.acct)
          /\ UNCHANGED <<sourceOp, starts, sweep, service>>
      BY <1>1, <1>7 DEF Release, Settle, PassHolds
    <2>2. /\ pass' \in Passes /\ pass'.acct = pass.acct /\ pass'.queued = pass.queued
          /\ pass'.stage = IF pass.stage = "running" THEN "settled" ELSE "released"
      BY <1>1, <1>7 DEF Release, Settle, Passes
    <2>3. /\ lease' \in Leases /\ unreleased' \subseteq Accounts
          /\ lease'[pass.acct].owner = Us => pass.acct \in unreleased'
          /\ \A b \in Accounts \ {pass.acct} : lease'[b] = lease[b] /\ (b \in unreleased => b \in unreleased')
      BY <2>1, GivenBack DEF Inv
    <2>4. SlotTypeOK'
      BY <2>1, <2>2, <2>3, Types, TypesAgain DEF Inv, OpHolds
    <2>5. LeaseIsBacked'
      BY <2>1, <2>2, <2>3 DEF Inv, LeaseIsBacked, PassOwns, OpOwns
    <2>6. service' # "closed"
      BY <2>1, ClosedRests
    <2>7. QED
      BY <2>1, <2>2, <2>4, <2>5, <2>6, NotClosed
         DEF Inv, OneHolder, QueuedIsLaunched, OnlyLeasedClaims, PassHolds, OpHolds, Launched
  <1>8. QED
    BY <1>2, <1>3, <1>4, <1>5, <1>6, <1>7

\* So do the connection operations (runConnectionOp).
LEMMA OperationSteps ==
    ASSUME Inv,
           \/ ClaimForOp \/ RefuseOp \/ EndOp
           \/ \E a \in Accounts, kind \in {"leased", "forget"} : BeginOp(a, kind)
    PROVE  Inv'
  <1>1. sourceOp \in SourceOps /\ (OpHolds => sourceOp.acct \in Accounts)
    BY Types DEF Inv
  <1>2. CASE \E a \in Accounts, kind \in {"leased", "forget"} : BeginOp(a, kind)
    <2>1. /\ sourceOp' \in SourceOps /\ sourceOp'.acct \in Accounts
          /\ sourceOp'.stage = "claiming" => sourceOp'.kind = "leased"
          /\ service = "open" /\ ~PassHolds /\ sourceOp.stage = "none"
          /\ UNCHANGED <<pass, starts, sweep, service, lease, unreleased>>
      BY <1>2 DEF BeginOp, SourceOps, SlotFree, OpHolds
    <2>2. SlotTypeOK'
      BY <2>1, Types, TypesAgain DEF Inv, PassHolds
    <2>3. LeaseIsBacked'
      BY <2>1, BackedAgain DEF Inv, PassOwns, OpOwns
    <2>4. QED
      BY <2>1, <2>2, <2>3, NotClosed
         DEF Inv, OneHolder, QueuedIsLaunched, OnlyLeasedClaims, PassHolds, Launched
  <1>3. CASE RefuseOp
    <2>1. /\ sourceOp.stage = "claiming" /\ sourceOp' = NoOp
          /\ UNCHANGED <<pass, starts, sweep, service, lease, unreleased>>
      BY <1>3 DEF RefuseOp
    <2>2. SlotTypeOK'
      BY <2>1, Nothing, Types, TypesAgain DEF Inv, PassHolds
    <2>3. LeaseIsBacked'
      BY <2>1, BackedAgain DEF Inv, PassOwns, OpOwns
    <2>4. service # "closed"
      BY <2>1, ClosedRests
    <2>5. QED
      BY <2>1, <2>2, <2>3, <2>4, Nothing, NotClosed
         DEF Inv, OneHolder, QueuedIsLaunched, OnlyLeasedClaims, PassHolds, OpHolds, Launched
  <1>4. CASE ClaimForOp
    <2>1. /\ sourceOp.stage = "claiming" /\ service = "open" /\ sourceOp.acct \in Accounts
          /\ Take(sourceOp.acct) /\ UNCHANGED <<pass, starts, sweep, service>>
      BY <1>1, <1>4 DEF ClaimForOp, OpHolds
    <2>2. sourceOp' = [acct |-> sourceOp.acct, kind |-> "leased", stage |-> "working"]
      BY <1>1, <1>4, <2>1 DEF ClaimForOp, SourceOps, Inv, OnlyLeasedClaims
    <2>3. /\ lease' \in Leases /\ unreleased' \subseteq Accounts
          /\ \A b \in Accounts \ {sourceOp.acct} : lease'[b] = lease[b] /\ (b \in unreleased => b \in unreleased')
      BY <2>1, Taken DEF Inv
    <2>4. sourceOp' \in SourceOps /\ sourceOp'.acct \in Accounts /\ sourceOp'.stage = "working"
      BY <2>1, <2>2 DEF SourceOps
    <2>5. SlotTypeOK'
      BY <2>1, <2>3, <2>4, Types, TypesAgain DEF Inv, PassHolds
    <2>6. OpOwns(sourceOp.acct)'
      BY <2>2 DEF OpOwns
    <2>7. LeaseIsBacked'
      <3> SUFFICES ASSUME NEW a \in Accounts, lease'[a].owner = Us, a # sourceOp.acct
                   PROVE  PassOwns(a)' \/ a \in unreleased'
        BY <2>2 DEF LeaseIsBacked, OpOwns
      <3>1. lease[a].owner = Us /\ ~OpOwns(a)
        BY <2>1, <2>3 DEF OpOwns
      <3>2. PassOwns(a) \/ a \in unreleased
        BY <3>1 DEF Inv, LeaseIsBacked
      <3>3. QED
        BY <2>1, <2>3, <3>2 DEF PassOwns
    <2>8. QED
      BY <2>1, <2>4, <2>5, <2>7, NotClosed
         DEF Inv, OneHolder, QueuedIsLaunched, OnlyLeasedClaims, PassHolds, OpHolds, Launched
  <1>5. CASE EndOp
    <2>1. /\ sourceOp.stage = "working" /\ sourceOp.acct \in Accounts /\ sourceOp' = NoOp
          /\ UNCHANGED <<pass, starts, sweep, service>>
      BY <1>1, <1>5 DEF EndOp, OpHolds
    <2>2. ~PassHolds /\ service # "closed"
      BY <2>1, ClosedRests DEF Inv, OneHolder, OpHolds
    <2>3. /\ lease' \in Leases /\ unreleased' \subseteq Accounts
          /\ \A b \in Accounts : lease'[b].owner = Us => b \in unreleased'
      <3>1. \A b \in Accounts : lease[b].owner = Us => OpOwns(b) \/ b \in unreleased
        BY <2>2 DEF Inv, LeaseIsBacked, PassOwns, PassHolds
      <3>2. CASE sourceOp.kind = "leased"
        <4>1. GiveBack(sourceOp.acct)
          BY <1>5, <3>2 DEF EndOp
        <4>2. QED
          BY <2>1, <3>1, <4>1, GivenBack DEF Inv, OpOwns
      <3>3. CASE sourceOp.kind # "leased"
        BY <1>5, <3>1, <3>3, Types DEF EndOp, Inv, OpOwns
      <3>4. QED
        BY <3>2, <3>3
    <2>4. SlotTypeOK'
      BY <2>1, <2>3, Nothing, Types, TypesAgain DEF Inv, PassHolds
    <2>5. QED
      BY <2>1, <2>2, <2>3, <2>4, Nothing, NotClosed
         DEF Inv, OneHolder, LeaseIsBacked, QueuedIsLaunched, OnlyLeasedClaims, PassHolds, OpHolds, Launched
  <1>6. QED
    BY <1>2, <1>3, <1>4, <1>5

\* So do close(), and the end of the process and the next one (close).
LEMMA CloseSteps ==
    ASSUME Inv, Closing \/ CloseService \/ Restart
    PROVE  Inv'
  <1>1. pass \in Passes /\ lease \in Leases /\ MaxRequests \in Nat /\ MaxSweep \in Nat
    BY Types, SlotAssumption DEF Inv
  <1>2. CASE Closing /\ PassHolds
    <2>1. /\ pass' \in Passes /\ pass'.acct = pass.acct /\ pass'.stage = pass.stage
          /\ pass'.queued = pass.queued
      BY <1>1, <1>2 DEF Closing, Passes
    <2>2. service' = "closing" /\ UNCHANGED <<sourceOp, starts, sweep, lease, unreleased>>
      BY <1>2 DEF Closing
    <2>3. QED
      BY <1>2, <2>1, <2>2, MoveStep, Types DEF Inv, QueuedIsLaunched, Launched, PassHolds
  <1>3. CASE Closing /\ ~PassHolds
    <2>1. service' = "closing" /\ UNCHANGED <<pass, sourceOp, starts, sweep, lease, unreleased>>
      BY <1>3 DEF Closing
    <2>2. SlotTypeOK'
      BY <2>1, Types, TypesAgain DEF Inv, PassHolds, OpHolds
    <2>3. QED
      BY <2>1, <2>2, BackedAgain, NotClosed
         DEF Inv, OneHolder, QueuedIsLaunched, OnlyLeasedClaims, PassHolds, OpHolds, Launched, PassOwns, OpOwns
  <1>4. CASE CloseService
    <2>1. /\ ~PassHolds /\ ~OpHolds /\ starts = 0 /\ sweep = 0 /\ service' = "closed"
          /\ UNCHANGED <<pass, sourceOp, starts, sweep, lease, unreleased>>
      BY <1>4 DEF CloseService, AllSettled
    <2>2. SlotTypeOK'
      BY <2>1, Types, TypesAgain DEF Inv, PassHolds, OpHolds
    <2>3. \A a \in Accounts : lease[a].owner = Us => a \in unreleased
      BY <2>1 DEF Inv, LeaseIsBacked, PassOwns, OpOwns, PassHolds, OpHolds
    <2>4. QED
      BY <2>1, <2>2, <2>3
         DEF Inv, OneHolder, LeaseIsBacked, NothingOutlivesClose, QueuedIsLaunched, OnlyLeasedClaims,
             PassHolds, OpHolds, Launched
  <1>5. CASE Restart
    <2>1. /\ pass' = NoPass /\ sourceOp' = NoOp /\ starts' = 0 /\ sweep' = 0 /\ service' = "open"
          /\ unreleased' = {}
      BY <1>5 DEF Restart
    <2>2. lease' \in Leases /\ \A a \in Accounts : lease'[a].owner # Us
      <3>1. lease' = [a \in Accounts |->
                         IF lease[a].owner = Us THEN [lease[a] EXCEPT !.owner = Other] ELSE lease[a]]
        BY <1>5 DEF Restart
      <3>2. ASSUME NEW a \in Accounts
            PROVE  /\ lease'[a] \in [owner : {"none", Us, Other}, live : BOOLEAN]
                   /\ lease'[a].owner # Us
        BY <1>1, <3>1 DEF Leases, Us, Other
      <3>3. QED
        BY <3>1, <3>2 DEF Leases
    <2>3. SlotTypeOK'
      BY <1>1, <2>1, <2>2, Nothing, TypesAgain
    <2>4. QED
      BY <2>1, <2>2, <2>3, Nothing, NotClosed
         DEF Inv, OneHolder, LeaseIsBacked, QueuedIsLaunched, OnlyLeasedClaims, PassHolds
  <1>6. QED
    BY <1>2, <1>3, <1>4, <1>5

\* What an account's row becomes when its lease lapses, is renewed, or is another's
\* (luoguLeaseExpired, renewLease, claim).
LEMMA RowsAgain ==
    ASSUME SlotTypeOK, NEW a \in Accounts, Lapse(a) \/ Renew(a) \/ OtherClaims(a) \/ OtherLeaves(a)
    PROVE  /\ lease' \in Leases /\ unreleased' \subseteq Accounts
           /\ lease'[a].owner = Us => lease[a].owner = Us /\ (a \in unreleased => a \in unreleased')
           /\ \A b \in Accounts \ {a} : lease'[b] = lease[b] /\ (b \in unreleased => b \in unreleased')
  <1>1. lease \in Leases /\ unreleased \subseteq Accounts /\ Us # Other
    BY Types DEF Us, Other
  <1>2. CASE Lapse(a)
    BY <1>1, <1>2 DEF Lapse, Leases
  <1>3. CASE Renew(a)
    BY <1>1, <1>3 DEF Renew, Leases
  <1>4. CASE OtherClaims(a)
    <2>1. Held(Other) \in [owner : {"none", Us, Other}, live : BOOLEAN] /\ Held(Other).owner # Us
      BY DEF Held, Us, Other
    <2>2. QED
      BY <1>1, <1>4, <2>1 DEF OtherClaims, Leases
  <1>5. CASE OtherLeaves(a)
    <2>1. Free \in [owner : {"none", Us, Other}, live : BOOLEAN] /\ Free.owner # Us
      BY DEF Free, Us
    <2>2. QED
      BY <1>1, <1>5, <2>1 DEF OtherLeaves, Leases
  <1>6. QED
    BY <1>2, <1>3, <1>4, <1>5

\* The clock and the other processes keep the invariant.
LEMMA RowSteps ==
    ASSUME Inv, NEW a \in Accounts, Lapse(a) \/ Renew(a) \/ OtherClaims(a) \/ OtherLeaves(a)
    PROVE  Inv'
  <1>1. UNCHANGED <<pass, sourceOp, starts, sweep, service>>
    BY DEF Lapse, Renew, OtherClaims, OtherLeaves
  <1>2. QED
    BY <1>1, RowsAgain, RowStep DEF Inv

\* Every step of the slot keeps it.
THEOREM InvNext == Inv /\ [SlotNext]_slotVars => Inv'
  <1> SUFFICES ASSUME Inv, [SlotNext]_slotVars PROVE Inv'
    OBVIOUS
  <1>1. CASE UNCHANGED slotVars
    BY <1>1 DEF slotVars, Inv, SlotTypeOK, OneHolder, LeaseIsBacked, NothingOutlivesClose,
                QueuedIsLaunched, OnlyLeasedClaims, PassHolds, OpHolds, Launched, PassOwns, OpOwns
  <1>2. CASE Ask \/ BeginSweep \/ SkipAccount \/ AnswerAtOnce \/ EndSweep
    BY <1>2, RequestSteps
  <1>3. CASE Claim \/ RefuseClaim \/ Launch \/ Withdraw \/ Release \/ Settle \/ Finish
    BY <1>3, PassSteps
  <1>4. CASE ClaimForOp \/ RefuseOp \/ EndOp
    BY <1>4, OperationSteps
  <1>5. CASE Closing \/ CloseService \/ Restart
    BY <1>5, CloseSteps
  <1>6. ASSUME NEW a \in Accounts,
               \/ SweepAccount(a) \/ DrainPass(a)
               \/ \E mode \in Modes : QueueFull(a, mode) \/ BeginPass(a, mode)
        PROVE  Inv'
    BY <1>6, AskedSteps
  <1>7. ASSUME NEW a \in Accounts, Lapse(a) \/ Renew(a) \/ OtherClaims(a) \/ OtherLeaves(a)
        PROVE  Inv'
    BY <1>7, RowSteps
  <1>8. ASSUME NEW a \in Accounts, \E kind \in {"leased", "forget"} : BeginOp(a, kind)
        PROVE  Inv'
    BY <1>8, OperationSteps
  <1>9. QED
    BY <1>1, <1>2, <1>3, <1>4, <1>5, <1>6, <1>7, <1>8 DEF SlotNext, SlotProgress

-----------------------------------------------------------------------------
(* The theorems                                                            *)

\* The slot, the requests, the sweep and the rows keep their shape, whatever is asked of
\* the service and whatever other processes do (luogu-sync-service).
THEOREM SlotTypes == SlotSpec => []SlotTypeOK
  <1>1. Inv => SlotTypeOK
    BY DEF Inv
  <1>2. QED
    BY <1>1, InvInit, InvNext, PTL DEF SlotSpec

\* The pass changes its queued mark only by ending, by being drained or by a restart.
LEMMA QueuedStep ==
    ASSUME Inv, [SlotNext]_slotVars, pass.queued, ~pass'.queued
    PROVE  \/ pass' = Published(pass.acct, "full", "queue")
           \/ pass'.cancelled
           \/ service # "open"
           \/ Restart
  <1>1. pass \in Passes /\ Launched /\ PassHolds
    BY Types DEF Inv, QueuedIsLaunched, Launched, PassHolds
  <1>2. CASE UNCHANGED pass
    BY <1>2
  <1>3. CASE Finish
    BY <1>1, <1>3 DEF Finish, Finished
  <1>4. CASE Settle
    BY <1>1, <1>4 DEF Settle, Passes
  <1>5. CASE Closing
    BY <1>1, <1>5 DEF Closing, Passes
  <1>6. CASE \E a \in Accounts : DrainPass(a)
    BY <1>1, <1>6 DEF DrainPass, Passes
  <1>7. CASE \E a \in Accounts, mode \in Modes : QueueFull(a, mode)
    BY <1>1, <1>7 DEF QueueFull, Passes
  <1>8. ASSUME \/ RefuseClaim \/ Claim \/ Launch \/ Withdraw \/ Release
               \/ \E a \in Accounts : SweepAccount(a)
               \/ \E a \in Accounts, mode \in Modes : BeginPass(a, mode)
        PROVE  FALSE
    BY <1>1, <1>8 DEF RefuseClaim, Claim, Launch, Withdraw, Release, SweepAccount, BeginPass,
                      SlotFree, Launched, PassHolds
  <1>9. UNCHANGED pass \/ Finish \/ Settle \/ Closing \/ Restart
          \/ (\E a \in Accounts : DrainPass(a))
          \/ (\E a \in Accounts, mode \in Modes : QueueFull(a, mode))
    <2>1. CASE UNCHANGED slotVars
      BY <2>1 DEF slotVars
    <2>2. CASE Ask \/ BeginSweep \/ SkipAccount \/ AnswerAtOnce \/ EndSweep \/ ClaimForOp
                 \/ RefuseOp \/ EndOp \/ CloseService
      BY <2>2 DEF Ask, BeginSweep, SkipAccount, AnswerAtOnce, EndSweep, ClaimForOp, RefuseOp,
                  EndOp, CloseService
    <2>3. CASE \E a \in Accounts :
                  \/ Lapse(a) \/ Renew(a) \/ OtherClaims(a) \/ OtherLeaves(a)
                  \/ \E kind \in {"leased", "forget"} : BeginOp(a, kind)
      BY <2>3 DEF Lapse, Renew, OtherClaims, OtherLeaves, BeginOp
    <2>4. QED
      BY <1>8, <2>1, <2>2, <2>3 DEF SlotNext, SlotProgress
  <1>10. QED
    BY <1>2, <1>3, <1>4, <1>5, <1>6, <1>7, <1>9

\* Only attachPass lets a claimed pass run.
LEMMA LaunchStep ==
    ASSUME Inv, [SlotNext]_slotVars, pass.stage = "claimed", pass'.stage = "running"
    PROVE  service = "open" /\ ~pass.cancelled
  <1>1. pass \in Passes
    BY Types DEF Inv
  <1>2. CASE UNCHANGED pass
    BY <1>2
  <1>3. CASE Launch
    BY <1>3 DEF Launch
  <1>4. CASE Withdraw
    BY <1>1, <1>4 DEF Withdraw, Passes
  <1>5. CASE Closing
    BY <1>1, <1>5 DEF Closing, Passes
  <1>6. CASE Restart
    BY <1>6, Nothing DEF Restart
  <1>7. CASE \E a \in Accounts : DrainPass(a)
    BY <1>1, <1>7 DEF DrainPass, Passes
  <1>8. ASSUME \/ RefuseClaim \/ Claim \/ Release \/ Settle \/ Finish
               \/ \E a \in Accounts : SweepAccount(a)
               \/ \E a \in Accounts, mode \in Modes : BeginPass(a, mode) \/ QueueFull(a, mode)
        PROVE  FALSE
    BY <1>8 DEF RefuseClaim, Claim, Release, Settle, Finish, SweepAccount, BeginPass, QueueFull,
                Queues, SlotFree, Launched, PassHolds
  <1>9. UNCHANGED pass \/ Launch \/ Withdraw \/ Closing \/ Restart \/ (\E a \in Accounts : DrainPass(a))
    <2>1. CASE UNCHANGED slotVars
      BY <2>1 DEF slotVars
    <2>2. CASE Ask \/ BeginSweep \/ SkipAccount \/ AnswerAtOnce \/ EndSweep \/ ClaimForOp
                 \/ RefuseOp \/ EndOp \/ CloseService
      BY <2>2 DEF Ask, BeginSweep, SkipAccount, AnswerAtOnce, EndSweep, ClaimForOp, RefuseOp,
                  EndOp, CloseService
    <2>3. CASE \E a \in Accounts :
                  \/ Lapse(a) \/ Renew(a) \/ OtherClaims(a) \/ OtherLeaves(a)
                  \/ \E kind \in {"leased", "forget"} : BeginOp(a, kind)
      BY <2>3 DEF Lapse, Renew, OtherClaims, OtherLeaves, BeginOp
    <2>4. QED
      BY <1>8, <2>1, <2>2, <2>3 DEF SlotNext, SlotProgress
  <1>10. QED
    BY <1>2, <1>3, <1>4, <1>5, <1>6, <1>7, <1>9

\* However requests, sweeps, connection operations, cancellations, closes and other
\* processes interleave, the source goes to one holder under a lease it backs, an unwanted
\* reservation is never launched and a queued reconciliation is never lost.
THEOREM SlotIsKept == SlotSpec => SlotKept
  <1>1. Inv => OneHolder /\ LeaseIsBacked /\ NothingOutlivesClose
    BY DEF Inv
  <1>2. Inv /\ [SlotNext]_slotVars
          => [pass.stage = "claimed" /\ pass'.stage = "running"
                => service = "open" /\ ~pass.cancelled]_slotVars
    BY LaunchStep
  <1>3. Inv /\ [SlotNext]_slotVars
          => [pass.queued /\ ~pass'.queued =>
                \/ pass' = Published(pass.acct, "full", "queue")
                \/ pass'.cancelled
                \/ service # "open"
                \/ Restart]_slotVars
    BY QueuedStep
  <1>4. QED
    BY <1>1, <1>2, <1>3, InvInit, InvNext, PTL DEF SlotSpec, SlotKept, LaunchesOnlyWanted, QueuedIsKept

\* If a renewal never outlasts the lease it renews, at most one account of the source has a
\* live lease, however many processes claim (claim).
THEOREM OneLease == ~RenewalWaits => (SlotSpec => []OneLiveLease)
  <1> SUFFICES ASSUME ~RenewalWaits PROVE SlotSpec => []OneLiveLease
    OBVIOUS
  <1>1. SlotInit => OneLiveLease
    BY DEF SlotInit, OneLiveLease, Free
  <1>2. ASSUME SlotTypeOK, OneLiveLease, [SlotNext]_slotVars PROVE OneLiveLease'
    <2>1. lease \in Leases
      BY <1>2, Types
    <2>2. CASE UNCHANGED lease
      BY <1>2, <2>2 DEF OneLiveLease
    <2>3. ASSUME NEW a \in Accounts, SourceFree(a), Take(a) PROVE OneLiveLease'
      BY <1>2, <2>1, <2>3, Taken DEF SourceFree, OneLiveLease
    <2>4. ASSUME NEW a \in Accounts, GiveBack(a) PROVE OneLiveLease'
      BY <1>2, <2>4, GivenBack DEF OneLiveLease
    <2>5. ASSUME NEW a \in Accounts, OtherClaims(a) PROVE OneLiveLease'
      BY <1>2, <2>1, <2>5 DEF OtherClaims, OneLiveLease, Leases
    <2>6. ASSUME NEW a \in Accounts, Lapse(a) \/ OtherLeaves(a) PROVE OneLiveLease'
      BY <1>2, <2>1, <2>6 DEF Lapse, OtherLeaves, OneLiveLease, Leases, Free
    <2>7. CASE Restart
      <3>1. \A a \in Accounts : lease'[a].live => lease[a].live
        BY <2>1, <2>7 DEF Restart, Leases
      <3>2. QED
        BY <1>2, <3>1 DEF OneLiveLease
    <2>8. CASE Claim \/ Release \/ Settle
      <3>1. pass.acct \in Accounts
        BY <1>2, <2>8, Types DEF Claim, Release, Settle, PassHolds
      <3>2. QED
        BY <2>3, <2>4, <2>8, <3>1 DEF Claim, Release, Settle
    <2>9. CASE ClaimForOp \/ EndOp
      <3>1. sourceOp.acct \in Accounts
        BY <1>2, <2>9, Types DEF ClaimForOp, EndOp, OpHolds
      <3>2. QED
        BY <2>2, <2>3, <2>4, <2>9, <3>1 DEF ClaimForOp, EndOp
    <2>10. CASE \/ UNCHANGED slotVars \/ Ask \/ BeginSweep \/ SkipAccount \/ AnswerAtOnce \/ EndSweep
                \/ Closing \/ CloseService \/ RefuseClaim \/ Launch \/ Withdraw \/ Finish \/ RefuseOp
      BY <2>2, <2>10 DEF slotVars, Ask, BeginSweep, SkipAccount, AnswerAtOnce, EndSweep, Closing,
                         CloseService, RefuseClaim, Launch, Withdraw, Finish, RefuseOp
    <2>11. ASSUME NEW a \in Accounts,
                  \/ SweepAccount(a) \/ DrainPass(a) \/ Renew(a)
                  \/ \E mode \in Modes : QueueFull(a, mode) \/ BeginPass(a, mode)
                  \/ \E kind \in {"leased", "forget"} : BeginOp(a, kind)
           PROVE  OneLiveLease'
      BY <2>2, <2>11 DEF SweepAccount, DrainPass, Renew, QueueFull, BeginPass, BeginOp
    <2>12. QED
      BY <1>2, <2>5, <2>6, <2>7, <2>8, <2>9, <2>10, <2>11 DEF SlotNext, SlotProgress
  <1>3. QED
    BY <1>1, <1>2, SlotTypes, PTL DEF SlotSpec

-----------------------------------------------------------------------------
(* The plugin around the slot                                              *)

\* Nothing is armed behind a disposal.
HostInv == HostTypeOK /\ (disposal # "none" => ~timer) /\ HostQuiet

LuoguHandled == \E c \in Clients : request[c] = [api |-> "luoguApi", at |-> "handling"]

\* The disposal or the rollback has passed the Luogu API.
LuoguOver == stage = "down" \/ (stage = "disposing" /\ next <= 3)

\* The host is disposed after its API, which then refuses, or was never registered.
RoutesInv ==
    /\ count <= 3 => "luoguApi" \notin routes /\ \A c \in Clients : request[c].api # "luoguApi"
    /\ stage = "disposing" => next <= count
    /\ LuoguOver => (refusing \/ count <= 3) /\ ~LuoguHandled
    /\ disposal # "none" => LuoguOver

\* The store is closed only behind a controller that takes no more work.
StoreInv ==
    /\ storage = "closed" => calls = {} /\ controller # "open"
    /\ waiter => controller # "open"
    /\ stage \in {"activating", "up"} => storage = "open" /\ ~waiter

PluginInv == PluginTypeOK /\ HostInv /\ RoutesInv /\ StoreInv

\* Every step of the host keeps what is said of it.
LEMMA HostStep == ASSUME HostInv, [HostNext]_hostVars PROVE HostInv'
  <1> USE DEF HostInv
  <1>1. ASSUME StartHost \/ RecoverSync \/ FailStart PROVE HostInv'
    <2>1. /\ startup' \in {"recovering", "sweeping", "settled"}
          /\ startup' # "settled" => disposal = "none" \/ Starting
          /\ UNCHANGED <<timer, ticking, disposal, syncService, observer>>
      BY <1>1 DEF StartHost, RecoverSync, FailStart, Starting
    <2>2. HostTypeOK' BY <2>1 DEF HostTypeOK
    <2>3. HostQuiet' BY <2>1 DEF HostQuiet, Starting
    <2> QED BY <2>1, <2>2, <2>3
  <1>2. ASSUME EndSweepAtStart PROVE HostInv'
    <2>1. /\ startup' = "settled" /\ timer' = (disposal = "none") /\ Starting
          /\ UNCHANGED <<ticking, disposal, syncService, observer>>
      BY <1>2 DEF EndSweepAtStart, MayArm, Starting
    <2>2. timer' \in BOOLEAN BY <2>1
    <2>3. HostTypeOK' BY <2>1, <2>2 DEF HostTypeOK
    <2>4. HostQuiet' BY <2>1 DEF HostQuiet
    <2> QED BY <2>1, <2>3, <2>4
  <1>3. ASSUME OnTick PROVE HostInv'
    <2>1. HostTypeOK' BY <1>3 DEF OnTick, HostTypeOK
    <2>2. HostQuiet' BY <1>3 DEF OnTick, HostQuiet
    <2> QED BY <1>3, <2>1, <2>2 DEF OnTick
  <1>4. ASSUME EndTick PROVE HostInv'
    <2>1. HostTypeOK' BY <1>4 DEF EndTick, HostTypeOK
    <2>2. HostQuiet' BY <1>4 DEF EndTick, HostQuiet, Starting
    <2> QED BY <1>4, <2>1, <2>2 DEF EndTick
  <1>5. ASSUME DisposeHost PROVE HostInv'
    <2>1. HostTypeOK' BY <1>5 DEF DisposeHost, HostTypeOK
    <2>2. HostQuiet' BY <1>5 DEF DisposeHost, HostQuiet
    <2> QED BY <1>5, <2>1, <2>2 DEF DisposeHost
  <1>6. ASSUME ServiceDrained PROVE HostInv'
    <2>1. HostTypeOK' BY <1>6 DEF ServiceDrained, HostTypeOK
    <2>2. HostQuiet' BY <1>6 DEF ServiceDrained, HostQuiet, Starting
    <2> QED BY <1>6, <2>1, <2>2 DEF ServiceDrained
  <1>7. ASSUME EndDisposal PROVE HostInv'
    <2>1. HostTypeOK' BY <1>7 DEF EndDisposal, HostTypeOK
    <2>2. HostQuiet' BY <1>7 DEF EndDisposal, HostDrained, HostQuiet, Starting
    <2> QED BY <1>7, <2>1, <2>2 DEF EndDisposal
  <1>8. ASSUME UNCHANGED hostVars PROVE HostInv'
    BY <1>8 DEF hostVars, HostTypeOK, HostQuiet, Starting
  <1> QED BY <1>1, <1>2, <1>3, <1>4, <1>5, <1>6, <1>7, <1>8 DEF HostNext, HostWork

\* However a start, a tick and a disposal of the Luogu host fall between each other, a
\* disposal that reported its end left no timer, no sweep and no start attempt behind.
THEOREM HostIsQuiet == HostSpec => []HostQuiet
  <1>1. HostInit => HostInv BY DEF HostInit, HostInv, HostTypeOK, HostQuiet
  <1>2. HostInv => HostQuiet BY DEF HostInv
  <1> QED BY <1>1, <1>2, HostStep, PTL DEF HostSpec

\* The order of registration.
LEMMA Registered ==
    /\ Len(Contributions) = 12
    /\ \A n \in 1 .. 12 : /\ Contributions[n] = "storage" <=> n = 1
                          /\ Contributions[n] = "luogu" <=> n = 3
                          /\ Contributions[n] = "luoguApi" <=> n = 4
                          /\ Contributions[n] = "assessment" <=> n = 2
                          /\ Contributions[n] = "batches" <=> n = 6
  BY DEF Contributions

Requests == {NoRequest} \cup [api : Apis, at : {"reading", "handling"}]

\* A step that touches neither the routes nor a request.
LEMMA RoutesRest ==
    ASSUME RoutesInv, UNCHANGED <<stage, next, count, routes, request, refusing>>,
           disposal' # "none" => disposal # "none" \/ LuoguOver
    PROVE  RoutesInv'
  BY DEF RoutesInv, LuoguOver, LuoguHandled

\* Activation, before anything is disposed.
LEMMA ActivationSteps ==
    ASSUME PluginInv, ComposeController \/ Contribute \/ AwaitHost \/ FailActivation
    PROVE  PluginInv'
  <1> USE DEF PluginInv
  <1>0. count \in 1 .. 12 /\ next \in 0 .. 12 /\ routes \subseteq Apis /\ (disposal = "none" \/ LuoguOver)
    BY Registered DEF PluginTypeOK, RoutesInv
  <1>1. CASE ComposeController
    <2>1. PluginTypeOK' BY <1>1 DEF ComposeController, PluginTypeOK, HostTypeOK, hostVars
    <2>2. HostInv' BY <1>1, HostStep DEF ComposeController, hostVars
    <2>3. RoutesInv' BY <1>1, RoutesRest DEF ComposeController, hostVars
    <2>4. StoreInv' BY <1>1 DEF ComposeController, StoreInv
    <2> QED BY <2>1, <2>2, <2>3, <2>4
  <1>2. CASE Contribute
    <2>1. /\ stage = "activating" /\ count < 12 /\ count' = count + 1 /\ count' \in 1 .. 12
          /\ stage' \in {"activating", "up"}
          /\ routes' \subseteq Apis /\ routes \subseteq routes'
          /\ "luoguApi" \in routes' => "luoguApi" \in routes \/ count' = 4
          /\ UNCHANGED <<hostVars, next, refusing, controller, storage, calls, waiter, request>>
      BY <1>2, Registered DEF Contribute, PluginTypeOK
    <2>2. PluginTypeOK' BY <2>1, Registered DEF PluginTypeOK, HostTypeOK, hostVars
    <2>3. HostInv' BY <2>1, HostStep DEF hostVars
    <2>4. RoutesInv' BY <2>1, <1>0 DEF RoutesInv, LuoguOver, LuoguHandled, hostVars
    <2>5. StoreInv' BY <2>1 DEF StoreInv
    <2> QED BY <2>2, <2>3, <2>4, <2>5
  <1>3. CASE AwaitHost
    <2>1. HostNext BY <1>3 DEF AwaitHost, HostNext, HostWork
    <2>2. HostInv' BY <2>1, HostStep
    <2>3. disposal' = disposal /\ UNCHANGED lifeVars
      BY <1>3 DEF AwaitHost, StartHost, RecoverSync, EndSweepAtStart
    <2>4. PluginTypeOK' BY <2>2, <2>3 DEF PluginTypeOK, HostInv, lifeVars
    <2>5. RoutesInv' BY <2>3, RoutesRest DEF lifeVars
    <2>6. StoreInv' BY <2>3 DEF StoreInv, lifeVars
    <2> QED BY <2>2, <2>4, <2>5, <2>6
  <1>4. CASE FailActivation
    <2>1. /\ stage = "activating" /\ stage' = "disposing" /\ next' = count
          /\ startup' \in {startup, "settled"}
          /\ UNCHANGED <<timer, ticking, disposal, syncService, observer, count, routes,
                         refusing, controller, storage, calls, waiter, request>>
      BY <1>4 DEF FailActivation
    <2>2. HostInv' BY <2>1 DEF HostInv, HostTypeOK, HostQuiet, Starting
    <2>3. PluginTypeOK' BY <1>0, <2>1, <2>2, Registered DEF PluginTypeOK, HostInv
    <2>4. RoutesInv'
      BY <1>0, <2>1 DEF RoutesInv, LuoguOver, LuoguHandled
    <2>5. StoreInv' BY <2>1 DEF StoreInv
    <2> QED BY <2>2, <2>3, <2>4, <2>5
  <1> QED BY <1>1, <1>2, <1>3, <1>4

\* A request is accepted, handled or ends, and a model operation settles.
LEMMA ServedSteps ==
    ASSUME PluginInv,
           \/ \E c \in Clients : AcceptRequest(c) \/ Handle(c) \/ EndRequest(c)
           \/ \E o \in ModelCalls : SettleCall(o)
    PROVE  PluginInv'
  <1> USE DEF PluginInv
  <1>1. /\ request \in [Clients -> Requests] /\ calls \subseteq ModelCalls /\ routes \subseteq Apis
        /\ NoRequest \in Requests /\ NoRequest.api # "luoguApi" /\ NoRequest.at = "idle"
    BY DEF PluginTypeOK, Requests, NoRequest
  <1>2. UNCHANGED <<hostVars, stage, count, next, routes, refusing, controller, storage, waiter>>
    BY DEF AcceptRequest, Handle, EndRequest, SettleCall
  <1>3. HostInv' BY <1>2, HostStep
  <1>4. ASSUME request' \in [Clients -> Requests], calls' \subseteq ModelCalls PROVE PluginTypeOK'
    BY <1>2, <1>4 DEF PluginTypeOK, HostTypeOK, hostVars, Requests
  <1>5. ASSUME NEW c \in Clients, NEW r \in Requests, request' = [request EXCEPT ![c] = r],
               r.api = "luoguApi" => request[c].api = "luoguApi" \/ "luoguApi" \in routes,
               refusing => r # [api |-> "luoguApi", at |-> "handling"]
        PROVE  RoutesInv'
    <2>1. count <= 3 => r.api # "luoguApi" BY <1>5 DEF RoutesInv
    <2>2. count <= 3 => r # [api |-> "luoguApi", at |-> "handling"] BY <2>1
    <2>3. LuoguOver' <=> LuoguOver BY <1>2 DEF LuoguOver
    <2>4. LuoguOver => ~LuoguHandled'
      BY <1>1, <1>5, <2>2 DEF RoutesInv, LuoguHandled
    <2>5. count <= 3 => \A d \in Clients : request'[d].api # "luoguApi"
      BY <1>1, <1>5, <2>1 DEF RoutesInv
    <2>6. disposal' = disposal BY <1>2 DEF hostVars
    <2> QED BY <1>2, <2>3, <2>4, <2>5, <2>6 DEF RoutesInv
  <1>6. ASSUME NEW c \in Clients, AcceptRequest(c) PROVE PluginInv'
    <2>1. PICK a \in routes : request' = [request EXCEPT ![c] = [api |-> a, at |-> "reading"]]
      BY <1>6 DEF AcceptRequest
    <2> DEFINE r == [api |-> a, at |-> "reading"]
    <2>2. r \in Requests /\ r.api = a /\ r.at = "reading" BY <1>1, <2>1 DEF Requests
    <2>3. calls' = calls /\ request' = [request EXCEPT ![c] = r] BY <1>6, <2>1 DEF AcceptRequest
    <2> HIDE DEF r
    <2>4. request' \in [Clients -> Requests] BY <1>1, <2>2, <2>3
    <2>5. r # [api |-> "luoguApi", at |-> "handling"] BY <2>2
    <2>6. r.api = "luoguApi" => "luoguApi" \in routes BY <2>1, <2>2
    <2>7. RoutesInv' BY <1>5, <2>2, <2>3, <2>5, <2>6
    <2>8. StoreInv' BY <1>2, <2>3 DEF StoreInv
    <2> QED BY <1>1, <1>3, <1>4, <2>3, <2>4, <2>7, <2>8
  <1>7. ASSUME NEW c \in Clients, Handle(c) PROVE PluginInv'
    <2>1. request[c] \in Requests /\ request[c].at = "reading" BY <1>1, <1>7 DEF Handle
    <2>2. request[c] \in [api : Apis, at : {"reading", "handling"}] BY <1>1, <2>1 DEF Requests
    <2> DEFINE r == [request[c] EXCEPT !.at = "handling"]
    <2>3. r \in Requests /\ r.api = request[c].api BY <2>2 DEF Requests
    <2>4. \/ request' = [request EXCEPT ![c] = NoRequest] /\ calls' = calls
          \/ /\ ~(request[c].api = "luoguApi" /\ refusing) /\ request' = [request EXCEPT ![c] = r]
             /\ calls' \subseteq ModelCalls /\ (controller # "open" => calls' = calls)
      <3>1. CASE request[c].api = "luoguApi" /\ refusing
        BY <1>7, <3>1 DEF Handle, LuoguRefuses
      <3>2. CASE ~(request[c].api = "luoguApi" /\ refusing)
        <4>1. request' = [request EXCEPT ![c] = r] BY <1>1, <1>7, <3>2 DEF Handle, LuoguRefuses
        <4>2. calls' \subseteq ModelCalls /\ (controller # "open" => calls' = calls)
          BY <1>1, <1>7, <3>2 DEF Handle, LuoguRefuses
        <4> QED BY <3>2, <4>1, <4>2
      <3> QED BY <3>1, <3>2
    <2> HIDE DEF r
    <2>5. request' \in [Clients -> Requests] /\ calls' \subseteq ModelCalls BY <1>1, <2>3, <2>4
    <2>6. RoutesInv'
      <3>1. CASE request' = [request EXCEPT ![c] = NoRequest]
        <4>1. NoRequest # [api |-> "luoguApi", at |-> "handling"] BY <1>1
        <4> QED BY <1>1, <1>5, <3>1, <4>1
      <3>2. CASE ~(request[c].api = "luoguApi" /\ refusing) /\ request' = [request EXCEPT ![c] = r]
        <4>1. refusing => r # [api |-> "luoguApi", at |-> "handling"] BY <2>3, <3>2
        <4> QED BY <1>5, <2>3, <3>2, <4>1
      <3> QED BY <2>4, <3>1, <3>2
    <2>7. StoreInv' BY <1>2, <2>4 DEF StoreInv
    <2> QED BY <1>3, <1>4, <2>5, <2>6, <2>7
  <1>8. ASSUME NEW c \in Clients, EndRequest(c) PROVE PluginInv'
    <2>1. calls' = calls /\ request' = [request EXCEPT ![c] = NoRequest] BY <1>8 DEF EndRequest
    <2>2. request' \in [Clients -> Requests] BY <1>1, <2>1
    <2>3. NoRequest # [api |-> "luoguApi", at |-> "handling"] BY <1>1
    <2>4. RoutesInv' BY <1>1, <1>5, <2>1, <2>3
    <2>5. StoreInv' BY <1>2, <2>1 DEF StoreInv
    <2> QED BY <1>1, <1>3, <1>4, <2>1, <2>2, <2>4, <2>5
  <1>9. ASSUME NEW o \in ModelCalls, SettleCall(o) PROVE PluginInv'
    <2>1. calls' = calls \ {o} /\ request' = request BY <1>9 DEF SettleCall
    <2>2. PluginTypeOK' BY <1>1, <1>4, <2>1
    <2>3. RoutesInv' BY <1>2, <2>1, RoutesRest DEF hostVars
    <2>4. StoreInv' BY <1>2, <2>1 DEF StoreInv
    <2> QED BY <1>3, <2>2, <2>3, <2>4
  <1> QED BY <1>6, <1>7, <1>8, <1>9

\* A disposer settles, or the Luogu API releases its routes: the host and the requests rest.
LEMMA ReleaseStep ==
    ASSUME PluginInv, stage = "disposing", next > 0, next' \in {next, next - 1},
           routes' \subseteq routes, refusing' \in BOOLEAN, refusing => refusing',
           UNCHANGED <<hostVars, stage, count, controller, storage, calls, waiter, request>>,
           next' <= 3 => LuoguOver \/ (refusing' /\ ~LuoguHandled)
    PROVE  PluginInv'
  <1> USE DEF PluginInv
  <1>1. next \in 0 .. 12 /\ count \in 1 .. 12 BY Registered DEF PluginTypeOK
  <1>2. HostInv' BY HostStep
  <1>3. PluginTypeOK' BY <1>1, <1>2, Registered DEF PluginTypeOK, HostInv
  <1>4. RoutesInv' BY <1>1 DEF RoutesInv, LuoguOver, LuoguHandled, hostVars
  <1>5. StoreInv' BY DEF StoreInv
  <1> QED BY <1>2, <1>3, <1>4, <1>5

\* The disposal, contribution by contribution.
LEMMA TeardownSteps ==
    ASSUME PluginInv, StartDisposal \/ Teardown \/ Sweeps PROVE PluginInv'
  <1> USE DEF PluginInv
  <1>0. next \in 0 .. 12 /\ count \in 1 .. 12 /\ refusing \in BOOLEAN /\ routes \subseteq Apis
    BY Registered DEF PluginTypeOK
  <1>1. CASE StartDisposal
    <2>1. /\ stage = "up" /\ stage' = "disposing" /\ next' = count
          /\ UNCHANGED <<hostVars, count, routes, refusing, controller, storage, calls, waiter, request>>
      BY <1>1 DEF StartDisposal
    <2>2. HostInv' BY <2>1, HostStep
    <2>3. PluginTypeOK' BY <1>0, <2>1, <2>2, Registered DEF PluginTypeOK, HostInv
    <2>4. RoutesInv' BY <1>0, <2>1 DEF RoutesInv, LuoguOver, LuoguHandled, hostVars
    <2>5. StoreInv' BY <2>1 DEF StoreInv
    <2> QED BY <2>2, <2>3, <2>4, <2>5
  <1>2. CASE ReleaseApi
    <2>1. PICK c \in Apis \ {"luoguApi"} : Disposing(c) /\ routes' = routes \ {c} /\ next' = next - 1
            /\ UNCHANGED <<hostVars, stage, count, refusing, controller, storage, calls, waiter, request>>
      BY <1>2 DEF ReleaseApi, Onward
    <2>2. next # 4 BY <1>0, <2>1, Registered DEF Disposing
    <2>3. next' <= 3 => LuoguOver BY <1>0, <2>1, <2>2 DEF Disposing, LuoguOver
    <2> QED BY <1>0, <2>1, <2>3, ReleaseStep DEF Disposing
  <1>3. CASE ReleaseLuoguApi
    <2>1. next = 4 BY <1>0, <1>3, Registered DEF ReleaseLuoguApi, Disposing
    <2> QED BY <1>0, <1>3, <2>1, ReleaseStep DEF ReleaseLuoguApi, Disposing
  <1>4. CASE DrainLuoguApi
    <2>1. ~LuoguHandled BY <1>4 DEF DrainLuoguApi, LuoguHandled
    <2> QED BY <1>0, <1>4, <2>1, ReleaseStep DEF DrainLuoguApi, Disposing, Onward
  <1>5. CASE DisposeLuogu
    <2>1. LuoguOver BY <1>0, <1>5, Registered DEF DisposeLuogu, Disposing, LuoguOver
    <2>2. HostNext BY <1>5 DEF DisposeLuogu, HostNext, HostWork
    <2>3. HostInv' BY <2>2, HostStep
    <2>4. UNCHANGED lifeVars BY <1>5 DEF DisposeLuogu
    <2>5. PluginTypeOK' BY <2>3, <2>4 DEF PluginTypeOK, HostInv, lifeVars
    <2>6. RoutesInv' BY <2>1, <2>4, RoutesRest DEF lifeVars
    <2>7. StoreInv' BY <2>4 DEF StoreInv, lifeVars
    <2> QED BY <2>3, <2>5, <2>6, <2>7
  <1>6. CASE LuoguDisposed
    <2>1. LuoguOver BY <1>0, <1>6, Registered DEF LuoguDisposed, Disposing, LuoguOver
    <2> QED BY <1>0, <1>6, <2>1, ReleaseStep DEF LuoguDisposed, Disposing, Onward
  <1>7. CASE EndService
    <2>1. Disposing("batches") \/ Disposing("assessment") BY <1>7 DEF EndService
    <2>2. next \in {2, 6} BY <1>0, <2>1, Registered DEF Disposing
    <2>3. next' <= 3 => LuoguOver BY <2>1, <2>2, <1>7 DEF EndService, Disposing, LuoguOver, Onward
    <2> QED BY <1>0, <1>7, <2>1, <2>3, ReleaseStep DEF EndService, Disposing, Onward
  <1>8. CASE CloseControllerAndStore
    <2>1. next = 1 /\ stage = "disposing"
      BY <1>0, <1>8, Registered DEF CloseControllerAndStore, Disposing
    <2>2. /\ controller' \in {"none", "closed"} /\ next' = 0
          /\ storage' \in {"open", "closed"} /\ waiter' \in BOOLEAN
          /\ storage' = "closed" => calls = {} \/ storage = "closed"
          /\ UNCHANGED <<hostVars, stage, count, routes, refusing, calls, request>>
      BY <1>8 DEF CloseControllerAndStore, PluginTypeOK
    <2>3. HostInv' BY <2>2, HostStep
    <2>4. PluginTypeOK' BY <2>2, <2>3, Registered DEF PluginTypeOK, HostInv
    <2>5. RoutesInv' BY <1>0, <2>1, <2>2 DEF RoutesInv, LuoguOver, LuoguHandled, hostVars
    <2>6. StoreInv' BY <2>1, <2>2 DEF StoreInv
    <2> QED BY <2>3, <2>4, <2>5, <2>6
  <1>9. CASE Disposed
    <2>1. /\ stage = "disposing" /\ next = 0 /\ stage' = "down"
          /\ UNCHANGED <<hostVars, count, next, routes, refusing, controller, storage, calls, waiter, request>>
      BY <1>9 DEF Disposed
    <2>2. HostInv' BY <2>1, HostStep
    <2>3. PluginTypeOK' BY <2>1, <2>2 DEF PluginTypeOK, HostInv
    <2>4. RoutesInv' BY <2>1 DEF RoutesInv, LuoguOver, LuoguHandled, hostVars
    <2>5. StoreInv' BY <2>1 DEF StoreInv
    <2> QED BY <2>2, <2>3, <2>4, <2>5
  <1>10. CASE CloseStorageLater
    <2>1. /\ waiter /\ calls = {} /\ storage' = "closed" /\ waiter' = FALSE
          /\ UNCHANGED <<hostVars, stage, count, next, routes, refusing, controller, calls, request>>
      BY <1>10 DEF CloseStorageLater
    <2>2. HostInv' BY <2>1, HostStep
    <2>3. PluginTypeOK' BY <2>1, <2>2 DEF PluginTypeOK, HostInv
    <2>4. RoutesInv' BY <2>1, RoutesRest DEF hostVars
    <2>5. StoreInv' BY <2>1 DEF StoreInv
    <2> QED BY <2>2, <2>3, <2>4, <2>5
  <1>11. CASE Sweeps
    <2>1. HostNext BY <1>11 DEF Sweeps, HostNext, HostWork
    <2>2. HostInv' BY <2>1, HostStep
    <2>3. disposal' = disposal /\ UNCHANGED lifeVars BY <1>11 DEF Sweeps, OnTick, EndTick
    <2>4. PluginTypeOK' BY <2>2, <2>3 DEF PluginTypeOK, HostInv, lifeVars
    <2>5. RoutesInv' BY <2>3, RoutesRest DEF lifeVars
    <2>6. StoreInv' BY <2>3 DEF StoreInv, lifeVars
    <2> QED BY <2>2, <2>4, <2>5, <2>6
  <1> QED BY <1>1, <1>2, <1>3, <1>4, <1>5, <1>6, <1>7, <1>8, <1>9, <1>10, <1>11 DEF Teardown

\* The invariant of the plugin holds at the start.
LEMMA PluginStart == ASSUME PluginInit PROVE PluginInv
  <1>1. HostInv BY DEF PluginInit, HostInit, HostInv, HostTypeOK, HostQuiet
  <1>2. PluginTypeOK
    <2>1. request \in [Clients -> {NoRequest} \cup [api : Apis, at : {"reading", "handling"}]]
      BY DEF PluginInit
    <2>2. count \in 1 .. 12 /\ next \in 0 .. 12 BY DEF PluginInit
    <2>3. /\ HostTypeOK /\ stage \in {"activating", "up", "disposing", "down"}
          /\ routes \subseteq Apis /\ refusing \in BOOLEAN
          /\ controller \in {"none", "open", "closed"} /\ storage \in {"open", "closed"}
          /\ calls \subseteq ModelCalls /\ waiter \in BOOLEAN
      BY <1>1 DEF PluginInit, HostInv
    <2> QED BY <2>1, <2>2, <2>3, Registered DEF PluginTypeOK
  <1>3. RoutesInv
    BY DEF PluginInit, HostInit, RoutesInv, LuoguOver, LuoguHandled, NoRequest
  <1>4. StoreInv BY DEF PluginInit, StoreInv
  <1> QED BY <1>1, <1>2, <1>3, <1>4 DEF PluginInv

\* Every step of the plugin keeps it.
LEMMA PluginStep == ASSUME PluginInv, [PluginNext]_pluginVars PROVE PluginInv'
  <1>1. CASE PluginNext
    BY <1>1, ActivationSteps, ServedSteps, TeardownSteps DEF PluginNext
  <1>2. CASE UNCHANGED pluginVars
    <2>1. HostInv' BY <1>2, HostStep DEF pluginVars, PluginInv
    <2>2. PluginTypeOK' BY <1>2, <2>1 DEF pluginVars, lifeVars, PluginTypeOK, PluginInv, HostInv
    <2>3. RoutesInv' BY <1>2, RoutesRest DEF pluginVars, lifeVars, hostVars, PluginInv
    <2>4. StoreInv' BY <1>2 DEF pluginVars, lifeVars, StoreInv, PluginInv
    <2> QED BY <2>1, <2>2, <2>3, <2>4 DEF PluginInv
  <1> QED BY <1>1, <1>2

\* The invariant of the plugin holds throughout.
LEMMA PluginInductive == PluginSpec => []PluginInv
  <1> QED BY PluginStart, PluginStep, PTL DEF PluginSpec

\* The state of the plugin keeps its shape, for any number of clients and operations.
THEOREM PluginTypes == PluginSpec => []PluginTypeOK
  <1>1. PluginInv => PluginTypeOK BY DEF PluginInv
  <1> QED BY <1>1, PluginInductive, PTL

\* Wherever an activation fails and whichever disposers fail: no Luogu handler is at work
\* on a host under disposal, a disposed host is quiet, and no model operation outlives the
\* store.
THEOREM NothingOutlives == PluginSpec => []WorkOutlivesNothing
  <1>1. PluginInv => WorkOutlivesNothing
    BY DEF PluginInv, HostInv, RoutesInv, StoreInv, WorkOutlivesNothing, LuoguHandled
  <1> QED BY <1>1, PluginInductive, PTL

-----------------------------------------------------------------------------
(* The store and its one connection                                        *)

CallRows == [op : StoreOps \cup {"none"}, at : {"idle", "queued", "answered"}]
TurnRows == [by : StoreClients, op : StoreOps, inner : 0 .. MaxInner]

\* What waits for the connection came from outside every transaction, or is the close of work
\* a callback left behind.
Outside(call) == call.inner = 0 \/ call.op = "close"

\* Nothing a callback calls ever waits for the connection its own transaction holds, and the
\* open SQLite transaction holds no write but the owner's (rejectOwnScope, transaction).
Apart ==
    /\ \A i \in 1 .. Len(connection) : Outside(connection[i])
    /\ awaiting = {}
    /\ \A c \in StoreClients : scope[c] = "active" =>
          /\ connection # <<>> /\ Owner.by = c /\ Owner.op = "transaction" /\ ~storeClosed
    /\ \A w \in uncommitted : scope[w.by] = "active"

\* A call joins the end of the queue (FifoMutex.run).
LEMMA QueueGrows ==
    ASSUME connection \in Seq(TurnRows), \A i \in 1 .. Len(connection) : Outside(connection[i]),
           NEW e \in TurnRows, Outside(e),
           connection' = connection \/ connection' = Append(connection, e)
    PROVE  /\ connection' \in Seq(TurnRows)
           /\ \A i \in 1 .. Len(connection') : Outside(connection'[i])
           /\ connection # <<>> => connection' # <<>> /\ Head(connection') = Head(connection)
  <1>1. CASE connection' = connection BY <1>1
  <1>2. CASE connection' = Append(connection, e)
    <2>1. /\ Len(connection') = Len(connection) + 1 /\ Len(connection) \in Nat
          /\ \A i \in 1 .. Len(connection) : connection'[i] = connection[i]
          /\ connection'[Len(connection) + 1] = e
      BY <1>2
    <2>2. connection' \in Seq(TurnRows) BY <1>2
    <2>3. \A i \in 1 .. Len(connection') : i \in 1 .. Len(connection) \/ i = Len(connection) + 1
      BY <2>1
    <2>4. \A i \in 1 .. Len(connection') : Outside(connection'[i]) BY <2>1, <2>3
    <2>5. connection # <<>> => connection' # <<>> /\ Head(connection') = Head(connection) BY <1>2
    <2> QED BY <2>2, <2>4, <2>5
  <1> QED BY <1>1, <1>2

\* A call from outside keeps the types and keeps transactions apart.
LEMMA CallsJoin ==
    ASSUME StoreTypeOK, Apart, NEW c \in StoreClients, NEW op \in StoreOps, CallStore(c, op)
    PROVE  StoreTypeOK' /\ Apart'
  <1>0. MaxInner \in Nat BY StoreAssumption
  <1> DEFINE e == [by |-> c, op |-> op, inner |-> 0]
  <1>1. e \in TurnRows /\ Outside(e) BY <1>0 DEF TurnRows, Outside
  <1>2. connection \in Seq(TurnRows) BY DEF StoreTypeOK, TurnRows
  <1>3. storeCall' \in [StoreClients -> CallRows]
    BY DEF StoreTypeOK, CallRows, CallStore
  <1>4. connection' = connection \/ connection' = Append(connection, e) BY DEF CallStore
  <1>5. UNCHANGED <<scope, made, awaiting, uncommitted, persisted, backup, storeClosed>>
    BY DEF CallStore
  <1> HIDE DEF e
  <1>6. /\ connection' \in Seq(TurnRows)
        /\ \A i \in 1 .. Len(connection') : Outside(connection'[i])
        /\ connection # <<>> => connection' # <<>> /\ Head(connection') = Head(connection)
    BY <1>1, <1>2, <1>4, QueueGrows DEF Apart
  <1>7. StoreTypeOK' BY <1>3, <1>5, <1>6 DEF StoreTypeOK, CallRows, TurnRows
  <1>8. Apart' BY <1>5, <1>6 DEF Apart, Owner
  <1> QED BY <1>7, <1>8

\* A call of a callback reaches the connection directly or is refused; of what one left
\* behind only the close queues.
LEMMA CallsInside ==
    ASSUME StoreTypeOK, Apart, NEW c \in StoreClients, NEW op \in StoreOps, CallInside(c, op)
    PROVE  StoreTypeOK' /\ Apart'
  <1>0. MaxInner \in Nat BY StoreAssumption
  <1>1. /\ Fate(c, op) \in {"refused", "direct", "queued"}
        /\ Fate(c, op) = "direct" => scope[c] = "active"
        /\ Fate(c, op) = "queued" => scope[c] # "active" /\ op = "close"
    BY DEF Fate, CallInside, StoreTypeOK
  <1>2. UNCHANGED <<storeCall, awaiting, scope, persisted, backup, storeClosed>>
    BY <1>1 DEF CallInside
  <1>3. made' \in [StoreClients -> 0 .. MaxInner] /\ made'[c] \in 0 .. MaxInner
    BY <1>0 DEF CallInside, StoreTypeOK
  <1> DEFINE w == [by |-> c, inner |-> made'[c]]
             e == [by |-> c, op |-> "close", inner |-> made'[c]]
  <1>4. w \in Writes /\ w.by = c BY <1>3 DEF Writes
  <1>5. uncommitted' = uncommitted \/ (uncommitted' = uncommitted \cup {w} /\ scope[c] = "active")
    BY <1>1 DEF CallInside
  <1>6. e \in TurnRows /\ Outside(e) BY <1>3 DEF TurnRows, StoreOps, Outside
  <1>7. connection' = connection \/ connection' = Append(connection, e) BY <1>1 DEF CallInside
  <1> HIDE DEF w, e
  <1>8. uncommitted' \subseteq Writes BY <1>4, <1>5 DEF StoreTypeOK
  <1>9. \A x \in uncommitted' : scope'[x.by] = "active" BY <1>2, <1>4, <1>5 DEF Apart
  <1>10. /\ connection' \in Seq(TurnRows)
         /\ \A i \in 1 .. Len(connection') : Outside(connection'[i])
         /\ connection # <<>> => connection' # <<>> /\ Head(connection') = Head(connection)
    BY <1>6, <1>7, QueueGrows DEF Apart, StoreTypeOK, TurnRows
  <1>11. StoreTypeOK' BY <1>2, <1>3, <1>8, <1>10 DEF StoreTypeOK, TurnRows
  <1>12. Apart' BY <1>2, <1>9, <1>10 DEF Apart, Owner
  <1> QED BY <1>11, <1>12

\* The owner of the connection, and what is left of the queue when its turn ends.
LEMMA OwnerTyped ==
    ASSUME StoreTypeOK, Apart, connection # <<>>
    PROVE  /\ Owner \in TurnRows /\ Outside(Owner)
           /\ Tail(connection) \in Seq(TurnRows)
           /\ \A i \in 1 .. Len(Tail(connection)) : Outside(Tail(connection)[i])
           /\ \A d \in StoreClients :
                 [storeCall EXCEPT ![d].at = "answered"] \in [StoreClients -> CallRows]
  <1>1. connection \in Seq(TurnRows) BY DEF StoreTypeOK, TurnRows
  <1>2. Len(connection) \in Nat /\ Len(connection) >= 1 BY <1>1
  <1>3. Owner = connection[1] /\ connection[1] \in TurnRows BY <1>1, <1>2 DEF Owner
  <1>4. /\ Tail(connection) \in Seq(TurnRows) /\ Len(Tail(connection)) = Len(connection) - 1
        /\ \A i \in 1 .. Len(Tail(connection)) : Tail(connection)[i] = connection[i + 1]
    BY <1>1, <1>2
  <1>5. \A i \in 1 .. Len(Tail(connection)) : i + 1 \in 1 .. Len(connection) BY <1>2, <1>4
  <1>6. \A i \in 1 .. Len(Tail(connection)) : Outside(Tail(connection)[i])
    BY <1>4, <1>5 DEF Apart
  <1>7. Outside(Owner) BY <1>2, <1>3 DEF Apart
  <1>8. \A d \in StoreClients : [storeCall EXCEPT ![d].at = "answered"] \in [StoreClients -> CallRows]
    BY DEF StoreTypeOK, CallRows
  <1> QED BY <1>3, <1>4, <1>6, <1>7, <1>8

\* A turn ends: the owner is answered, and no transaction is open any more.
LEMMA TurnEnds ==
    ASSUME StoreTypeOK, Apart, connection # <<>>, ReleaseTurn, Answer(Owner.by),
           scope' \in [StoreClients -> {"none", "active", "ended"}],
           \A c \in StoreClients : scope'[c] # "active",
           uncommitted' = {}, awaiting' = {}, made' = made,
           persisted' \subseteq Writes, backup' \subseteq Writes, storeClosed' \in BOOLEAN
    PROVE  StoreTypeOK' /\ Apart'
  <1>1. Owner.by \in StoreClients BY OwnerTyped DEF TurnRows
  <1>2. storeCall' \in [StoreClients -> CallRows] BY <1>1, OwnerTyped DEF Answer
  <1>3. connection' \in Seq(TurnRows) /\ \A i \in 1 .. Len(connection') : Outside(connection'[i])
    BY OwnerTyped DEF ReleaseTurn
  <1>4. StoreTypeOK' BY <1>2, <1>3 DEF StoreTypeOK, CallRows, TurnRows
  <1>5. Apart' BY <1>3 DEF Apart
  <1> QED BY <1>4, <1>5

\* While the owner is no transaction, or the store is closed, none is open.
LEMMA NoneOpen ==
    ASSUME StoreTypeOK, Apart, connection # <<>>, Owner.op # "transaction" \/ storeClosed
    PROVE  (\A c \in StoreClients : scope[c] # "active") /\ uncommitted = {}
  <1>1. \A c \in StoreClients : scope[c] # "active" BY DEF Apart
  <1>2. \A w \in uncommitted : w.by \in StoreClients BY DEF StoreTypeOK, Writes
  <1> QED BY <1>1, <1>2 DEF Apart

\* Every turn of the connection keeps the types and keeps transactions apart.
LEMMA TurnsKeep ==
    ASSUME StoreTypeOK, Apart, StoreTurn
    PROVE  StoreTypeOK' /\ Apart'
  <1>0. /\ scope \in [StoreClients -> {"none", "active", "ended"}] /\ made \in [StoreClients -> 0 .. MaxInner]
        /\ persisted \subseteq Writes /\ backup \subseteq Writes /\ uncommitted \subseteq Writes
        /\ storeClosed \in BOOLEAN /\ awaiting = {} /\ MaxInner \in Nat
    BY StoreAssumption DEF StoreTypeOK, Apart
  <1>1. CASE FindClosed
    <2>1. connection # <<>> /\ (\A c \in StoreClients : scope[c] # "active") /\ uncommitted = {}
      BY <1>1, NoneOpen DEF FindClosed
    <2> QED BY <1>0, <1>1, <2>1, TurnEnds DEF FindClosed
  <1>2. ASSUME NEW succeeds \in BOOLEAN, WriteAlone(succeeds) PROVE StoreTypeOK' /\ Apart'
    <2>1. connection # <<>> /\ (\A c \in StoreClients : scope[c] # "active") /\ uncommitted = {}
      BY <1>2, NoneOpen DEF WriteAlone, Owns
    <2>2. [by |-> Owner.by, inner |-> Owner.inner] \in Writes BY <2>1, OwnerTyped DEF TurnRows, Writes
    <2>3. persisted' \subseteq Writes BY <1>0, <1>2, <2>2 DEF WriteAlone
    <2> QED BY <1>0, <1>2, <2>1, <2>3, TurnEnds DEF WriteAlone
  <1>3. CASE Begin
    <2>1. /\ connection # <<>> /\ Owner.op = "transaction" /\ ~storeClosed /\ scope[Owner.by] = "none"
          /\ scope' = [scope EXCEPT ![Owner.by] = "active"]
          /\ UNCHANGED <<storeCall, connection, made, awaiting, uncommitted, persisted, backup, storeClosed>>
      BY <1>3 DEF Begin, Owns
    <2>2. Owner.by \in StoreClients BY <2>1, OwnerTyped DEF TurnRows
    <2>3. scope' \in [StoreClients -> {"none", "active", "ended"}] BY <1>0, <2>1
    <2>4. \A c \in StoreClients : scope'[c] = "active" => c = Owner.by BY <1>0, <2>1, <2>2 DEF Apart
    <2>5. \A w \in uncommitted : w.by \in StoreClients BY <1>0 DEF Writes
    <2>6. \A w \in uncommitted' : scope'[w.by] = "active" BY <1>0, <2>1, <2>2, <2>5 DEF Apart
    <2>7. StoreTypeOK' BY <2>1, <2>3 DEF StoreTypeOK
    <2>8. Apart' BY <2>1, <2>4, <2>6 DEF Apart, Owner
    <2> QED BY <2>7, <2>8
  <1>4. ASSUME NEW commits \in BOOLEAN, End(commits) PROVE StoreTypeOK' /\ Apart'
    <2>1. connection # <<>> /\ Owner.by \in StoreClients
      BY <1>4, OwnerTyped DEF End, Owns, TurnRows
    <2>2. scope' = [scope EXCEPT ![Owner.by] = "ended"] BY <1>4 DEF End
    <2>3. scope' \in [StoreClients -> {"none", "active", "ended"}] BY <1>0, <2>2
    <2>4. \A c \in StoreClients : scope'[c] # "active" BY <1>0, <2>1, <2>2 DEF Apart
    <2>5. persisted' \subseteq Writes BY <1>0, <1>4 DEF End
    <2> QED BY <1>0, <1>4, <2>1, <2>3, <2>4, <2>5, TurnEnds DEF End
  <1>5. CASE BackUp
    <2>1. connection # <<>> /\ (\A c \in StoreClients : scope[c] # "active") /\ uncommitted = {}
      BY <1>5, NoneOpen DEF BackUp, Owns
    <2> QED BY <1>0, <1>5, <2>1, TurnEnds DEF BackUp
  <1>6. CASE CloseStore
    <2>1. connection # <<>> /\ (\A c \in StoreClients : scope[c] # "active") /\ uncommitted = {}
      BY <1>6, NoneOpen DEF CloseStore, Owns
    <2> QED BY <1>0, <1>6, <2>1, TurnEnds DEF CloseStore
  <1> QED BY <1>1, <1>2, <1>3, <1>4, <1>5, <1>6 DEF StoreTurn

\* The store starts typed, with no transaction open.
LEMMA StoreStart == StoreInit => StoreTypeOK /\ Apart
  <1> SUFFICES ASSUME StoreInit PROVE StoreTypeOK /\ Apart
    OBVIOUS
  <1>1. MaxInner \in Nat BY StoreAssumption
  <1>2. StoreTypeOK
    <2>1. /\ storeCall \in [StoreClients -> CallRows]
          /\ scope \in [StoreClients -> {"none", "active", "ended"}]
          /\ made \in [StoreClients -> 0 .. MaxInner]
      BY <1>1 DEF StoreInit, CallRows
    <2>2. connection \in Seq(TurnRows) BY DEF StoreInit
    <2>3. awaiting = {} /\ uncommitted = {} /\ persisted = {} /\ backup = {} /\ storeClosed \in BOOLEAN
      BY DEF StoreInit
    <2> QED BY <2>1, <2>2, <2>3 DEF StoreTypeOK, CallRows, TurnRows
  <1>3. Apart BY DEF StoreInit, Apart
  <1> QED BY <1>2, <1>3

\* Every step of the store keeps both.
LEMMA StoreStep == StoreTypeOK /\ Apart /\ [StoreNext]_storeVars => StoreTypeOK' /\ Apart'
  <1> SUFFICES ASSUME StoreTypeOK, Apart, [StoreNext]_storeVars PROVE StoreTypeOK' /\ Apart'
    OBVIOUS
  <1>1. CASE UNCHANGED storeVars
    <2>1. StoreTypeOK' BY <1>1 DEF storeVars, StoreTypeOK
    <2>2. Apart' BY <1>1 DEF storeVars, Apart, Owner
    <2> QED BY <2>1, <2>2
  <1> QED BY <1>1, CallsJoin, CallsInside, TurnsKeep DEF StoreNext

\* The state of the store keeps its shape, for any number of callers and of inner calls.
THEOREM StoreTypes == StoreSpec => []StoreTypeOK
  <1> QED BY StoreStart, StoreStep, PTL DEF StoreSpec

\* A step of the store that is none of a turn stores nothing; a turn that stores a write of a
\* callback is the commit of its transaction, and nothing is copied while one is open.
LEMMA StepsApart ==
    ASSUME StoreTypeOK, Apart, StoreNext
    PROVE  /\ persisted \subseteq persisted'
           /\ \A w \in persisted' \ persisted : w.inner > 0 =>
                 /\ scope[w.by] = "active" /\ scope'[w.by] = "ended"
                 /\ uncommitted \subseteq persisted'
           /\ backup' # backup => uncommitted = {}
  <1> DEFINE Goal == /\ persisted \subseteq persisted'
                     /\ \A w \in persisted' \ persisted : w.inner > 0 =>
                           /\ scope[w.by] = "active" /\ scope'[w.by] = "ended"
                           /\ uncommitted \subseteq persisted'
                     /\ backup' # backup => uncommitted = {}
  <1>1. ASSUME UNCHANGED <<persisted, backup>> PROVE Goal BY <1>1
  <1>2. ASSUME NEW c \in StoreClients, NEW op \in StoreOps, CallStore(c, op) \/ CallInside(c, op)
        PROVE  UNCHANGED <<persisted, backup>>
    BY <1>2 DEF CallStore, CallInside
  <1>3. ASSUME FindClosed \/ Begin \/ CloseStore PROVE UNCHANGED <<persisted, backup>>
    BY <1>3 DEF FindClosed, Begin, CloseStore
  <1>4. ASSUME NEW succeeds \in BOOLEAN, WriteAlone(succeeds) PROVE Goal
    <2>1. Owner.inner = 0 BY <1>4, OwnerTyped DEF WriteAlone, Owns, Outside
    <2>2. \A w \in persisted' \ persisted : w = [by |-> Owner.by, inner |-> Owner.inner]
      BY <1>4 DEF WriteAlone
    <2>3. \A w \in persisted' \ persisted : ~(w.inner > 0)  BY <2>1, <2>2
    <2>4. persisted \subseteq persisted' /\ backup' = backup BY <1>4 DEF WriteAlone
    <2> QED BY <2>3, <2>4
  <1>5. ASSUME NEW commits \in BOOLEAN, End(commits) PROVE Goal
    <2>1. connection # <<>> /\ Owner.by \in StoreClients /\ scope[Owner.by] = "active"
      BY <1>5, OwnerTyped DEF End, Owns, TurnRows
    <2>2. /\ scope' = [scope EXCEPT ![Owner.by] = "ended"] /\ backup' = backup
          /\ persisted' = IF commits THEN persisted \cup uncommitted ELSE persisted
      BY <1>5 DEF End
    <2>3. \A w \in uncommitted : w.by \in StoreClients /\ scope[w.by] = "active"
      BY DEF StoreTypeOK, Writes, Apart
    <2>4. \A w \in uncommitted : w.by = Owner.by BY <2>3 DEF Apart
    <2>5. scope'[Owner.by] = "ended" BY <2>1, <2>2 DEF StoreTypeOK
    <2>6. \A w \in persisted' \ persisted : w \in uncommitted /\ uncommitted \subseteq persisted'
      BY <2>2
    <2>7. persisted \subseteq persisted' BY <2>2
    <2> QED BY <2>1, <2>2, <2>4, <2>5, <2>6, <2>7
  <1>6. ASSUME BackUp PROVE Goal
    <2>1. uncommitted = {} BY <1>6, NoneOpen DEF BackUp, Owns
    <2>2. persisted' = persisted BY <1>6 DEF BackUp
    <2> QED BY <2>1, <2>2
  <1>7. Goal BY <1>1, <1>2, <1>3, <1>4, <1>5, <1>6 DEF StoreNext, StoreTurn
  <1> QED BY <1>7

\* Transactions run apart, for any number of callers and of calls a callback makes: what one
\* writes is stored all together in its commit or never, nothing arrives from work it left
\* behind, and a backup sees no half of it.
THEOREM TransactionsRunApart == StoreSpec => TransactionsIsolated
  <1>1. StoreTypeOK /\ Apart /\ [StoreNext]_storeVars =>
            [/\ persisted \subseteq persisted'
             /\ \A w \in persisted' \ persisted : w.inner > 0 =>
                   /\ scope[w.by] = "active" /\ scope'[w.by] = "ended"
                   /\ uncommitted \subseteq persisted'
             /\ backup' # backup => uncommitted = {}]_storeVars
    BY StepsApart
  <1> QED BY <1>1, StoreStart, StoreStep, PTL DEF StoreSpec, TransactionsIsolated

-----------------------------------------------------------------------------
(* One page of the interface                                               *)

\* The request that was replaced is heard no more, no answer is of a version the server does
\* not have yet, and an answer on its way is as new as what the hook holds (useRequest).
NoneLate ==
    /\ ~late.alive
    /\ state.data <= served
    /\ flight.stage = "answered" => state.data <= flight.data /\ flight.data <= served

\* What the hook holds.
HookStates == [view : Asked, data : 0 .. MaxServed, pending : BOOLEAN]

\* The page starts on nothing.
LEMMA UiStart == UiInit => UiTypeOK /\ NoneLate
  <1> SUFFICES ASSUME UiInit PROVE UiTypeOK /\ NoneLate
    OBVIOUS
  <1>1. MaxServed \in Nat /\ MaxServed # 0 /\ MaxClicks \in Nat BY UiAssumption
  <1>2. NoFlight \in Flights /\ NoFlight.stage = "none" /\ ~NoFlight.alive
    BY <1>1 DEF NoFlight, Flights, Asked, NoData
  <1>3. /\ served = 1 /\ view = NoView /\ effect = NoView /\ flight = NoFlight /\ late = NoFlight
        /\ state = [view |-> NoView, data |-> 0, pending |-> FALSE] /\ clicks = 0
    BY DEF UiInit, NoData
  <1>4. state \in HookStates /\ state.data = 0 BY <1>1, <1>3 DEF HookStates, Asked
  <1>5. UiTypeOK BY <1>1, <1>2, <1>3, <1>4 DEF UiTypeOK, Asked, HookStates
  <1>6. NoneLate BY <1>2, <1>3, <1>4 DEF NoneLate
  <1> QED BY <1>5, <1>6

\* The fields of the state, and the answer that reaches the hook.
LEMMA UiFields ==
    ASSUME UiTypeOK
    PROVE  /\ served \in Nat /\ state.data \in Nat /\ flight.data \in Nat /\ MaxServed \in Nat
           /\ served <= MaxServed /\ flight \in Flights /\ late \in Flights /\ state \in HookStates
           /\ view \in Asked /\ effect \in Asked /\ clicks \in 0 .. MaxClicks /\ served \in 1 .. MaxServed
           /\ NoFlight \in Flights /\ NoFlight.stage = "none"
           /\ \A f \in Flights, failed \in BOOLEAN :
                 [view |-> f.view, data |-> IF failed THEN NoData ELSE f.data, pending |-> FALSE] \in HookStates
  <1>1. MaxServed \in Nat BY UiAssumption
  <1>2. /\ served \in 1 .. MaxServed /\ flight \in Flights /\ late \in Flights /\ state \in HookStates
        /\ view \in Asked /\ effect \in Asked /\ clicks \in 0 .. MaxClicks
    BY DEF UiTypeOK, HookStates
  <1>3. NoFlight \in Flights /\ NoFlight.stage = "none"
    BY <1>1 DEF NoFlight, Flights, Asked, NoData
  <1>4. state.data \in 0 .. MaxServed /\ flight.data \in 0 .. MaxServed BY <1>2 DEF HookStates, Flights
  <1>5. ASSUME NEW f \in Flights, NEW failed \in BOOLEAN
        PROVE  [view |-> f.view, data |-> IF failed THEN NoData ELSE f.data, pending |-> FALSE] \in HookStates
    <2>1. f.view \in Asked /\ f.data \in 0 .. MaxServed /\ NoData \in 0 .. MaxServed
      BY <1>1 DEF Flights, NoData
    <2> QED BY <2>1 DEF HookStates
  <1> QED BY <1>1, <1>2, <1>3, <1>4, <1>5

\* An effect gives the request before up (useRequest).
LEMMA RequestKeeps ==
    ASSUME UiTypeOK, NoneLate, Request, clicks' \in 0 .. MaxClicks
    PROVE  UiTypeOK' /\ NoneLate' /\ (view' = view /\ state'.view = view)
           /\ (state.view = view => state'.data = state.data)
  <1>1. /\ late' = IF flight.stage = "none" THEN late ELSE [flight EXCEPT !.alive = FALSE]
        /\ effect' = view /\ served' = served /\ view' = view
        /\ flight' = IF view = NoView THEN NoFlight
                     ELSE [view |-> view, stage |-> "sent", alive |-> TRUE, data |-> NoData]
        /\ state' = [view |-> view, data |-> IF state.view = view THEN state.data ELSE NoData,
                     pending |-> view # NoView]
    BY DEF Request
  <1>2. late' \in Flights /\ ~late'.alive BY <1>1, UiFields DEF Flights, NoneLate
  <1>3. 0 \in 0 .. MaxServed /\ state.data \in 0 .. MaxServed BY UiFields DEF HookStates
  <1>4. flight' \in Flights /\ flight'.stage # "answered"
    BY <1>1, <1>3, UiFields DEF Flights, NoData
  <1>5. state' \in HookStates /\ state'.view = view /\ (state.view = view => state'.data = state.data)
        /\ (state'.data = state.data \/ state'.data = 0)
    BY <1>1, <1>3, UiFields DEF HookStates, NoData
  <1>6. UiTypeOK' BY <1>1, <1>2, <1>4, <1>5, UiFields DEF UiTypeOK, HookStates
  <1>7. state'.data <= served' BY <1>1, <1>5, UiFields DEF NoneLate
  <1>8. NoneLate' BY <1>2, <1>4, <1>7 DEF NoneLate
  <1> QED BY <1>1, <1>5, <1>6, <1>8

\* What a step leaves of the data of the view the page stays on: none, or something as new.
NoOlder ==
    view' = view /\ state.view = view /\ state'.view = view =>
        state'.data = NoData \/ state'.data >= state.data

\* Every step of a page keeps the types, and hears no late answer.
LEMMA UiStepKeeps ==
    ASSUME UiTypeOK, NoneLate, UiNext
    PROVE  UiTypeOK' /\ NoneLate' /\ NoOlder
  <1> DEFINE Goal == UiTypeOK' /\ NoneLate' /\ NoOlder
  <1>0. MaxClicks \in Nat /\ clicks \in 0 .. MaxClicks BY UiAssumption, UiFields
  <1>1. ASSUME NEW v \in Asked, AskFor(v) PROVE Goal
    <2>1. /\ view' = v /\ v # view /\ clicks' \in 0 .. MaxClicks
          /\ UNCHANGED <<served, effect, flight, late, state>>
      BY <1>0, <1>1 DEF AskFor, Click
    <2>2. UiTypeOK' BY <2>1 DEF UiTypeOK
    <2>3. NoneLate' BY <2>1 DEF NoneLate
    <2>4. NoOlder BY <2>1 DEF NoOlder
    <2> QED BY <2>1, <2>2, <2>3, <2>4
  <1>2. ASSUME Request, clicks' \in 0 .. MaxClicks PROVE Goal
    <2>1. UiTypeOK' /\ NoneLate' /\ view' = view /\ state'.view = view
          /\ (state.view = view => state'.data = state.data)
      BY <1>2, RequestKeeps
    <2>2. NoOlder BY <2>1, UiFields DEF NoOlder
    <2> QED BY <2>1, <2>2
  <1>3. CASE RunEffect BY <1>0, <1>2, <1>3 DEF RunEffect
  <1>4. CASE RefreshView
    <2>1. clicks' \in 0 .. MaxClicks BY <1>0, <1>4 DEF RefreshView, Click
    <2> QED BY <1>2, <1>4, <2>1 DEF RefreshView
  <1>5. CASE Poll BY <1>0, <1>2, <1>5 DEF Poll
  <1>6. ASSUME state' = state, view' = view, UiTypeOK', NoneLate' PROVE Goal
    BY <1>6, UiFields DEF NoOlder
  <1>7. CASE ServeNewer
    <2>1. /\ served' = served + 1 /\ served' \in 1 .. MaxServed
          /\ UNCHANGED <<view, effect, flight, late, state, clicks>>
      BY <1>7, UiFields DEF ServeNewer
    <2>2. UiTypeOK' BY <2>1 DEF UiTypeOK
    <2>3. NoneLate' BY <2>1, UiFields DEF NoneLate
    <2> QED BY <1>6, <2>1, <2>2, <2>3
  <1>8. CASE AnswerFlight
    <2>1. /\ flight' = [flight EXCEPT !.stage = "answered", !.data = served]
          /\ UNCHANGED <<served, view, effect, late, state, clicks>>
      BY <1>8 DEF AnswerFlight
    <2>2. flight' \in Flights /\ flight'.data = served
      <3>1. flight \in Flights /\ served \in 0 .. MaxServed BY UiFields
      <3> QED BY <2>1, <3>1 DEF Flights
    <2>3. UiTypeOK' BY <2>1, <2>2 DEF UiTypeOK
    <2>4. NoneLate' BY <2>1, <2>2, UiFields DEF NoneLate
    <2> QED BY <1>6, <2>1, <2>3, <2>4
  <1>9. CASE AnswerLate
    <2>1. /\ late' = [late EXCEPT !.stage = "answered", !.data = served]
          /\ UNCHANGED <<served, view, effect, flight, state, clicks>>
      BY <1>9 DEF AnswerLate
    <2>2. late' \in Flights /\ late'.alive = late.alive
      <3>1. late \in Flights /\ served \in 0 .. MaxServed BY UiFields
      <3> QED BY <2>1, <3>1 DEF Flights
    <2>3. UiTypeOK' BY <2>1, <2>2 DEF UiTypeOK
    <2>4. NoneLate' BY <2>1, <2>2 DEF NoneLate
    <2> QED BY <1>6, <2>1, <2>3, <2>4
  <1>10. CASE TellLate
    <2>1. /\ late' = NoFlight /\ state' = state /\ UNCHANGED <<served, view, effect, flight, clicks>>
      BY <1>10 DEF TellLate, Told, Heard, NoneLate
    <2>2. ~NoFlight.alive BY DEF NoFlight
    <2>3. UiTypeOK' BY <2>1, UiFields DEF UiTypeOK
    <2>4. NoneLate' BY <2>1, <2>2 DEF NoneLate
    <2> QED BY <1>6, <2>1, <2>3, <2>4
  <1>11. CASE TellFlight
    <2>1. PICK failed \in BOOLEAN : Told(flight, failed) BY <1>11 DEF TellFlight
    <2>2. /\ flight.stage = "answered" /\ flight' = NoFlight
          /\ UNCHANGED <<served, view, effect, late, clicks>>
      BY <1>11 DEF TellFlight
    <2> DEFINE told == [view |-> flight.view, data |-> IF failed THEN NoData ELSE flight.data, pending |-> FALSE]
    <2>3. told \in HookStates /\ told.view = flight.view /\ (told.data = 0 \/ told.data = flight.data)
      BY UiFields DEF NoData
    <2>4. state' = state \/ state' = told BY <2>1 DEF Told, Heard
    <2> HIDE DEF told
    <2>5. state' \in HookStates /\ (state'.view = state.view \/ state'.view = flight.view)
          /\ (state' = state \/ state'.data = 0 \/ state'.data >= state.data) /\ state'.data <= served
      BY <2>2, <2>3, <2>4, UiFields DEF NoneLate
    <2>6. UiTypeOK' BY <2>2, <2>5, UiFields DEF UiTypeOK, HookStates
    <2>7. NoneLate' BY <2>2, <2>5, UiFields DEF NoneLate
    <2>8. NoOlder BY <2>5, UiFields DEF NoOlder, NoData
    <2> QED BY <2>5, <2>6, <2>7, <2>8
  <1>12. Goal BY <1>1, <1>3, <1>4, <1>5, <1>7, <1>8, <1>9, <1>10, <1>11 DEF UiNext, UiStep
  <1> QED BY <1>12

\* Every step of a page keeps both, and shows no older answer.
LEMMA UiKeeps == UiTypeOK /\ NoneLate /\ [UiNext]_uiVars => UiTypeOK' /\ NoneLate'
  <1> SUFFICES ASSUME UiTypeOK, NoneLate, [UiNext]_uiVars PROVE UiTypeOK' /\ NoneLate'
    OBVIOUS
  <1>1. CASE UNCHANGED uiVars BY <1>1 DEF uiVars, UiTypeOK, NoneLate
  <1> QED BY <1>1, UiStepKeeps

\* The state of a page keeps its shape, for any views, versions and clicks.
THEOREM UiTypes == UiInit /\ [][UiNext]_uiVars => []UiTypeOK
  <1> QED BY UiStart, UiKeeps, PTL

\* Whatever order the answers come in, a page shows no answer to another view than the one
\* it asks for, and none older than the one it showed of that view.
THEOREM PagesMoveOn == UiInit /\ [][UiNext]_uiVars => ShownMovesOn
  <1>1. UiTypeOK /\ NoneLate /\ [UiNext]_uiVars =>
            [/\ Shown'.data # NoData => Shown'.view = view'
             /\ view' = view /\ Shown.data # NoData /\ Shown'.data # NoData
                    => Shown'.data >= Shown.data]_uiVars
    <2> SUFFICES ASSUME UiTypeOK, NoneLate, UiNext
                 PROVE  /\ Shown'.data # NoData => Shown'.view = view'
                        /\ view' = view /\ Shown.data # NoData /\ Shown'.data # NoData
                               => Shown'.data >= Shown.data
      OBVIOUS
    <2>1. /\ Shown.data # NoData => state.view = view /\ Shown = state
          /\ Shown'.data # NoData => state'.view = view' /\ Shown' = state'
      BY DEF Shown
    <2>2. NoOlder BY UiStepKeeps
    <2> QED BY <2>1, <2>2 DEF NoOlder
  <1> QED BY <1>1, UiStart, UiKeeps, PTL DEF ShownMovesOn

-----------------------------------------------------------------------------
(* Everything that is closed, in one run                                   *)

ClosingParts == {"materials", "luogu", "store", "plugin", "host", "page"}

\* While only the host is at work, the plugin around it rests where it started.
PluginAtRest == PluginTypeOK /\ HostInv /\ calls = {} /\ \A c \in Clients : request[c] = NoRequest

PluginPart == IF part = "host" THEN PluginAtRest ELSE PluginInv

\* Each part behaves as by itself, whichever is at work.
LEMMA PartsApart ==
    ASSUME [ClosingNext]_<<part, vars, slotVars, storeVars, pluginVars, uiVars>>
    PROVE  /\ [Next]_vars /\ [SlotNext]_slotVars /\ [StoreNext]_storeVars /\ [UiNext]_uiVars
           /\ part' = part
           /\ part # "host" => [PluginNext]_pluginVars
           /\ part = "host" => [HostNext]_hostVars /\ UNCHANGED lifeVars
  <1>1. UNCHANGED pluginVars => UNCHANGED hostVars /\ UNCHANGED lifeVars
    BY DEF pluginVars
  <1>2. CASE UNCHANGED <<part, vars, slotVars, storeVars, pluginVars, uiVars>> BY <1>1, <1>2
  <1>3. CASE ClosingNext BY <1>1, <1>3 DEF ClosingNext, othersOfPlugin
  <1> QED BY <1>2, <1>3

\* The plugin, and its host alone, start sound and stay so.
LEMMA PluginPartStarts == ASSUME ClosingInit PROVE PluginPart
  <1>1. PluginInit /\ PluginInv BY PluginStart DEF ClosingInit
  <1>2. calls = {} /\ \A c \in Clients : request[c] = NoRequest BY <1>1 DEF PluginInit
  <1> QED BY <1>1, <1>2 DEF PluginPart, PluginAtRest, PluginInv

\* So does every step.
LEMMA PluginPartKept ==
    ASSUME PluginPart, [ClosingNext]_<<part, vars, slotVars, storeVars, pluginVars, uiVars>>
    PROVE  PluginPart'
  <1>1. part' = part BY PartsApart
  <1>2. CASE part = "host"
    <2>1. PluginAtRest /\ [HostNext]_hostVars /\ UNCHANGED lifeVars BY <1>2, PartsApart DEF PluginPart
    <2>2. HostInv' BY <2>1, HostStep DEF PluginAtRest
    <2>3. PluginTypeOK' BY <2>1, <2>2 DEF PluginAtRest, PluginTypeOK, HostInv, lifeVars
    <2>4. calls' = {} /\ \A c \in Clients : request'[c] = NoRequest
      BY <2>1 DEF PluginAtRest, lifeVars
    <2> QED BY <1>1, <1>2, <2>2, <2>3, <2>4 DEF PluginPart, PluginAtRest
  <1>3. CASE part # "host"
    <2>1. PluginInv /\ [PluginNext]_pluginVars BY <1>3, PartsApart DEF PluginPart
    <2>2. PluginInv' BY <2>1, PluginStep
    <2> QED BY <1>1, <1>3, <2>2 DEF PluginPart
  <1> QED BY <1>2, <1>3

\* A behaviour of the run is one of every part, without its fairness.
LEMMA EveryPart ==
    ClosingSpec => /\ Spec
                   /\ SlotInit /\ [][SlotNext]_slotVars
                   /\ StoreInit /\ [][StoreNext]_storeVars
                   /\ UiInit /\ [][UiNext]_uiVars
                   /\ []PluginPart /\ [](part \in ClosingParts)
  <1>1. ClosingInit => /\ Init /\ SlotInit /\ StoreInit /\ UiInit
                       /\ part \in ClosingParts
    BY DEF ClosingInit, ClosingParts
  <1>2. [ClosingNext]_<<part, vars, slotVars, storeVars, pluginVars, uiVars>> =>
            /\ [Next]_vars /\ [SlotNext]_slotVars /\ [StoreNext]_storeVars /\ [UiNext]_uiVars
            /\ part \in ClosingParts => (part \in ClosingParts)'
    BY PartsApart
  <1>3. ClosingSpec =>
            ClosingInit /\ [][ClosingNext]_<<part, vars, slotVars, storeVars, pluginVars, uiVars>>
    BY PTL DEF ClosingSpec
  <1>4. ClosingInit => PluginPart BY PluginPartStarts
  <1>5. PluginPart /\ [ClosingNext]_<<part, vars, slotVars, storeVars, pluginVars, uiVars>> => PluginPart'
    BY PluginPartKept
  <1> QED BY <1>1, <1>2, <1>3, <1>4, <1>5, PTL DEF Spec

\* Whatever is at work, its state keeps its shape, for any batches, accounts, callers,
\* clients, model operations and views.
THEOREM EverythingThatClosesIsTyped == ClosingSpec => []ClosingTypesOK
  <1>1. TypeOK /\ SlotTypeOK /\ StoreTypeOK /\ UiTypeOK /\ PluginPart
            /\ part \in ClosingParts => ClosingTypesOK
    BY DEF ClosingTypesOK, ClosingParts, PluginPart, PluginAtRest, PluginInv
  <1>2. Inv => SlotTypeOK BY DEF Inv
  <1> QED BY <1>1, <1>2, EveryPart, BatchTypes, InvInit, InvNext, StoreStart, StoreStep, UiTypes, PTL

\* Whatever is at work, no Luogu handler is on a host under disposal, nothing of a disposed
\* host is left, and no model operation outlives the store.
THEOREM NothingOutlivesAnyPart == ClosingSpec => []WorkOutlivesNothing
  <1>1. PluginPart => WorkOutlivesNothing
    BY DEF PluginPart, PluginAtRest, PluginInv, HostInv, RoutesInv, StoreInv, WorkOutlivesNothing,
           LuoguHandled, NoRequest
  <1> QED BY <1>1, EveryPart, PTL

\* The slot, the store and the page keep in the run what they keep by themselves.
THEOREM PartsKeepTheirPromises == ClosingSpec => SlotKept /\ TransactionsIsolated /\ ShownMovesOn
  <1>1. StoreTypeOK /\ Apart /\ [StoreNext]_storeVars =>
            [/\ persisted \subseteq persisted'
             /\ \A w \in persisted' \ persisted : w.inner > 0 =>
                   /\ scope[w.by] = "active" /\ scope'[w.by] = "ended"
                   /\ uncommitted \subseteq persisted'
             /\ backup' # backup => uncommitted = {}]_storeVars
    BY StepsApart
  <1>2. ClosingSpec => TransactionsIsolated
    BY <1>1, EveryPart, StoreStart, StoreStep, PTL DEF TransactionsIsolated
  <1>3. SlotInit /\ [][SlotNext]_slotVars => SlotKept BY SlotIsKept DEF SlotSpec
  <1> QED BY <1>2, <1>3, EveryPart, PagesMoveOn, PTL

=============================================================================
