---------------------------- MODULE RecordsProofs ----------------------------
(***************************************************************************)
(* Proofs about what a user records and what is recorded for one, for any  *)
(* number of tags, problems, contests, candidates, submissions, requests   *)
(* and readings of the clock: the parts of MCRecords, the owned operations *)
(* and the stored problem, each alone and then in the run of all the       *)
(* services.                                                               *)
(*                                                                         *)
(* Every part has an invariant that says how its rows, its clocks and what *)
(* is under way belong together: what it claims of the stored rows follows *)
(* from it, and what an edit may do follows from it and the step.          *)
(***************************************************************************)
EXTENDS ServicesProofs, Integers, FiniteSetTheorems, WellFoundedInduction, TLAPS

-----------------------------------------------------------------------------
(* Sets of numbers.                                                        *)

\* Every set of natural numbers that is not empty has a least element.
LEMMA LeastOf ==
    ASSUME NEW S \in SUBSET Nat, S # {} PROVE \E n \in S : \A m \in S : n <= m
<1>. DEFINE Less == OpToRel(<, Nat)
<1>1. \A a, b \in Nat : a < b => <<a, b>> \in Less
  BY DEF OpToRel
<1>2. IsWellFoundedOn(Less, Nat)
  BY NatLessThanWellFounded
<1>. HIDE DEF Less
<1>3. \E x \in S : \A y \in S : ~ (<<y, x>> \in Less)
  BY <1>2, WFMin
<1>4. PICK n \in S : \A m \in S : ~ (<<m, n>> \in Less)
  BY <1>3
<1>5. ASSUME NEW m \in S PROVE n <= m
  <2>1. m \in Nat /\ n \in Nat /\ ~ (m < n)
    BY <1>1, <1>4
  <2>. QED
    BY <2>1
<1>. QED
  BY <1>5

\* A set of numbers below a bound has a greatest one.
LEMMA GreatestOf ==
    ASSUME NEW S \in SUBSET Nat, S # {}, NEW b \in Nat, \A m \in S : m <= b
    PROVE \E n \in S : \A m \in S : m <= n
<1> DEFINE above == {k \in Nat : \A m \in S : m <= k}
<1>1. above \in SUBSET Nat /\ above # {}
  OBVIOUS
<1>2. PICK n \in above : \A m \in above : n <= m
  BY ONLY <1>1, LeastOf
<1>3. n \in S
  <2> SUFFICES ASSUME n \notin S PROVE FALSE
    OBVIOUS
  <2>1. PICK k \in S : TRUE
    OBVIOUS
  <2>2. n - 1 \in above
    BY <2>1, <1>2
  <2> QED BY <2>2, <1>2
<1> QED BY <1>2, <1>3

-----------------------------------------------------------------------------
(* The owned operations                                                    *)

\* The request that holds the gate is the only one under way, and what it found owned
\* when it took the gate has not grown since.
HolderAlone ==
    /\ \A c \in OpCalls : opCall[c].at # "idle" =>
         /\ gate /\ opCall[c].kind \in Requests
         /\ InTheWay(opCall[c].kind) \cap OwnedKinds = {}
         /\ opCall[c].at = "writing" => opCall[c].kind = "save"
    /\ \A c, d \in OpCalls : opCall[c].at # "idle" /\ opCall[d].at # "idle" => c = d

\* The store closes after the controller, and what is owned once the controller is closed
\* was owned when it closed and, after the wait, was reported.
ClosedInOrder ==
    /\ storage = "closed" => controller = "closed"
    /\ controller # "closed" => outstanding = {}
    /\ controller = "closing" => OwnedKinds \subseteq active
    /\ controller = "closed" => OwnedKinds \subseteq outstanding

OpsInv == OpsTypeOK /\ HolderAlone /\ ClosedInOrder /\ PlanRunsAlone /\ StoreOutlivesWork

\* The values of a request.
OpCallStates == [at : {"idle", "checking", "reading", "probing", "writing"},
                 kind : Requests \cup {"none"}, revision : 0 .. MaxRevision + 1]

\* A value of a request, field by field.
LEMMA OpCallFields ==
    ASSUME NEW m \in OpCallStates
    PROVE  /\ m.at \in {"idle", "checking", "reading", "probing", "writing"}
           /\ m.kind \in Requests \cup {"none"} /\ m.revision \in 0 .. MaxRevision + 1
  BY DEF OpCallStates

\* The request that moves: its new value, and the others' old ones.
LEMMA OpCallMoves ==
    ASSUME OpsTypeOK, NEW c \in OpCalls, NEW m \in OpCallStates,
           opCall' = [opCall EXCEPT ![c] = m]
    PROVE  /\ opCall' \in [OpCalls -> OpCallStates] /\ opCall'[c] = m
           /\ \A d \in OpCalls \ {c} : opCall'[d] = opCall[d]
  BY DEF OpsTypeOK, OpCallStates

\* A request leaves: it rests again, and so do all the others.
LEMMA HolderLeaves ==
    ASSUME OpsInv, NEW c \in OpCalls, opCall[c].at # "idle", Leaves(c)
    PROVE  /\ gate' = FALSE /\ opCall' \in [OpCalls -> OpCallStates]
           /\ opCall'[c] = IdleCall
           /\ \A d \in OpCalls : opCall'[d].at = "idle"
<1>. USE OpsAssumption
<1>1. IdleCall \in OpCallStates /\ IdleCall.at = "idle"
  BY DEF IdleCall, OpCallStates
<1>2. gate' = FALSE /\ opCall' = [opCall EXCEPT ![c] = IdleCall]
  BY DEF Leaves
<1>3. /\ opCall' \in [OpCalls -> OpCallStates] /\ opCall'[c] = IdleCall
      /\ \A d \in OpCalls \ {c} : opCall'[d] = opCall[d]
  BY <1>1, <1>2, OpCallMoves DEF OpsInv
<1>4. ASSUME NEW d \in OpCalls PROVE opCall'[d].at = "idle"
  <2>1. CASE d = c
    BY <1>1, <1>3, <2>1
  <2>2. CASE d # c
    <3>1. opCall'[d] = opCall[d]
      BY <1>3, <2>2
    <3>2. opCall[d].at = "idle"
      BY <2>2 DEF OpsInv, HolderAlone
    <3>. QED
      BY <3>1, <3>2
  <2>. QED
    BY <2>1, <2>2
<1>. QED
  BY <1>2, <1>3, <1>4

\* The holder goes a step further with the same question.
LEMMA HolderGoes ==
    ASSUME OpsInv, NEW c \in OpCalls, opCall[c].at # "idle",
           opCall' \in [OpCalls -> OpCallStates],
           opCall'[c].kind = opCall[c].kind,
           opCall'[c].at = "writing" => opCall[c].kind = "save",
           \A d \in OpCalls \ {c} : opCall'[d] = opCall[d],
           UNCHANGED <<gate, owned>>
    PROVE  HolderAlone'
<1>1. OwnedKinds' = OwnedKinds
  BY DEF OwnedKinds
<1>2. ASSUME NEW d \in OpCalls, opCall'[d].at # "idle" PROVE d = c
  <2>1. CASE d # c
    <3>1. opCall'[d] = opCall[d]
      BY <2>1
    <3>. QED
      BY <1>2, <2>1, <3>1 DEF OpsInv, HolderAlone
  <2>. QED
    BY <2>1
<1>3. /\ gate /\ opCall[c].kind \in Requests
      /\ InTheWay(opCall[c].kind) \cap OwnedKinds = {}
  BY DEF OpsInv, HolderAlone
<1>4. ASSUME NEW d \in OpCalls, opCall'[d].at # "idle"
      PROVE  /\ gate' /\ opCall'[d].kind \in Requests
             /\ InTheWay(opCall'[d].kind) \cap OwnedKinds' = {}
             /\ opCall'[d].at = "writing" => opCall'[d].kind = "save"
  <2>1. d = c
    BY <1>2, <1>4
  <2>. QED
    BY <1>1, <1>3, <2>1 DEF InTheWay
<1>. QED
  BY <1>2, <1>4 DEF HolderAlone, InTheWay, OwnedKinds

\* The types in one step, from those of the variables a step moves.
LEMMA OpsTypedAgain ==
    ASSUME gate' \in BOOLEAN, opCall' \in [OpCalls -> OpCallStates],
           owned' \in [Kinds -> {"none", "launched", "reserved"}], liveOps' \subseteq Kinds,
           revision' \in 1 .. MaxRevision + 1, controller' \in {"open", "closing", "closed"},
           active' \subseteq Kinds, outstanding' \subseteq active', storage' \in {"open", "closed"}
    PROVE  OpsTypeOK'
  BY DEF OpsTypeOK, OpCallStates

\* The types of the variables, with the name of a request's values.
LEMMA OpsTyped ==
    OpsTypeOK =>
        /\ gate \in BOOLEAN /\ opCall \in [OpCalls -> OpCallStates]
        /\ owned \in [Kinds -> {"none", "launched", "reserved"}] /\ liveOps \subseteq Kinds
        /\ revision \in 1 .. MaxRevision + 1 /\ controller \in {"open", "closing", "closed"}
        /\ active \subseteq Kinds /\ outstanding \subseteq active /\ storage \in {"open", "closed"}
  BY DEF OpsTypeOK, OpCallStates

\* A request takes the free gate with nothing in its way.
LEMMA AcquireKeeps ==
    ASSUME OpsInv, NEW c \in OpCalls, NEW k \in Requests, Acquire(c, k) PROVE OpsInv'
<1>. USE OpsAssumption
<1>. DEFINE m == [IdleCall EXCEPT !.at = "checking", !.kind = k]
<1>1. m \in OpCallStates /\ m.at = "checking" /\ m.kind = k
  <2>1. m = [at |-> "checking", kind |-> k, revision |-> 0]
    <3>. DEFINE i == [IdleCall EXCEPT !.at = "checking"]
    <3>1. i = [at |-> "checking", kind |-> "none", revision |-> 0]
      BY DEF IdleCall
    <3>2. m = [i EXCEPT !.kind = k]
      OBVIOUS
    <3>. HIDE DEF i, m
    <3>. QED
      BY <3>1, <3>2
  <2>2. [at |-> "checking", kind |-> k, revision |-> 0] \in OpCallStates
    BY DEF OpCallStates
  <2>. QED
    BY <2>1, <2>2
<1>2. /\ gate' = TRUE /\ opCall' = [opCall EXCEPT ![c] = m] /\ ~gate
      /\ InTheWay(k) \cap OwnedKinds = {}
      /\ UNCHANGED <<owned, liveOps, revision, controller, active, outstanding, storage>>
  BY DEF Acquire, GateFree, lifecycle
<1>. HIDE DEF m
<1>3. /\ opCall' \in [OpCalls -> OpCallStates] /\ opCall'[c] = m
      /\ \A d \in OpCalls \ {c} : opCall'[d] = opCall[d]
  BY <1>1, <1>2, OpCallMoves DEF OpsInv
<1>4. OpsTypeOK'
  BY <1>2, <1>3, OpsTyped, OpsTypedAgain DEF OpsInv
<1>5. OwnedKinds' = OwnedKinds
  BY <1>2 DEF OwnedKinds
<1>6. ASSUME NEW d \in OpCalls, opCall'[d].at # "idle" PROVE d = c
  <2>1. CASE d # c
    <3>1. opCall'[d] = opCall[d]
      BY <1>3, <2>1
    <3>. QED
      BY <1>2, <1>6, <3>1 DEF OpsInv, HolderAlone
  <2>. QED
    BY <2>1
<1>7. HolderAlone'
  <2>1. ASSUME NEW d \in OpCalls, opCall'[d].at # "idle"
        PROVE  /\ gate' /\ opCall'[d].kind \in Requests
               /\ InTheWay(opCall'[d].kind) \cap OwnedKinds' = {}
               /\ opCall'[d].at = "writing" => opCall'[d].kind = "save"
    <3>1. d = c
      BY <1>6, <2>1
    <3>2. opCall'[d].kind = k /\ opCall'[d].at = "checking"
      BY <1>1, <1>3, <3>1
    <3>. QED
      BY <1>2, <1>5, <3>2
  <2>. QED
    BY <1>6, <2>1 DEF HolderAlone, InTheWay, OwnedKinds
<1>8. ClosedInOrder' /\ PlanRunsAlone' /\ StoreOutlivesWork'
  BY <1>2, <1>5 DEF OpsInv, ClosedInOrder, PlanRunsAlone, StoreOutlivesWork
<1>. QED
  BY <1>4, <1>7, <1>8 DEF OpsInv

\* The holder's looks, none of which changes what is owned.
LEMMA LooksKeep ==
    ASSUME OpsInv, NEW c \in OpCalls, NothingLive(c) \/ ReadSettings(c) \/ SaveReady(c)
    PROVE  OpsInv'
<1>. USE OpsAssumption
<1>1. opCall[c] \in OpCallStates
  BY OpsTyped DEF OpsInv
<1>2. opCall[c].kind \in Requests \cup {"none"} /\ opCall[c].revision \in 0 .. MaxRevision + 1
  BY <1>1, OpCallFields
<1>3. revision \in 0 .. MaxRevision + 1
  BY OpsTyped DEF OpsInv
<1>4. PICK m \in OpCallStates :
          /\ m.kind = opCall[c].kind
          /\ m.at = "writing" => opCall[c].kind = "save"
          /\ opCall' = [opCall EXCEPT ![c] = m]
  <2>1. CASE NothingLive(c)
    <3>. DEFINE m == [opCall[c] EXCEPT !.at = "reading"]
    <3>1. m \in OpCallStates /\ m.kind = opCall[c].kind /\ m.at = "reading"
      BY <1>1 DEF OpCallStates
    <3>2. opCall' = [opCall EXCEPT ![c] = m]
      BY <2>1 DEF NothingLive, Goes
    <3>. QED
      BY <3>1, <3>2
  <2>2. CASE ReadSettings(c)
    <3>. DEFINE m == [opCall[c] EXCEPT !.at = "probing", !.revision = revision]
    <3>1. m \in OpCallStates /\ m.kind = opCall[c].kind /\ m.at = "probing"
      BY <1>1, <1>3 DEF OpCallStates
    <3>2. opCall' = [opCall EXCEPT ![c] = m]
      BY <2>2, <1>1 DEF ReadSettings, OpCallStates
    <3>. QED
      BY <3>1, <3>2
  <2>3. CASE SaveReady(c)
    <3>. DEFINE m == [opCall[c] EXCEPT !.at = "writing"]
    <3>1. m \in OpCallStates /\ m.kind = opCall[c].kind /\ m.at = "writing"
      BY <1>1 DEF OpCallStates
    <3>2. opCall' = [opCall EXCEPT ![c] = m] /\ opCall[c].kind = "save"
      BY <2>3 DEF SaveReady, Goes
    <3>. QED
      BY <3>1, <3>2
  <2>. QED
    BY <2>1, <2>2, <2>3
<1>5. /\ opCall' \in [OpCalls -> OpCallStates] /\ opCall'[c] = m
      /\ \A d \in OpCalls \ {c} : opCall'[d] = opCall[d]
  BY <1>4, OpCallMoves DEF OpsInv
<1>6. /\ opCall[c].at # "idle"
      /\ UNCHANGED <<gate, owned, liveOps, revision, controller, active, outstanding, storage>>
  BY DEF NothingLive, ReadSettings, SaveReady, lifecycle
<1>7. HolderAlone'
  BY <1>4, <1>5, <1>6, HolderGoes
<1>8. OpsTypeOK'
  BY <1>5, <1>6, OpsTyped, OpsTypedAgain DEF OpsInv
<1>9. ClosedInOrder' /\ PlanRunsAlone' /\ StoreOutlivesWork'
  BY <1>6 DEF OpsInv, ClosedInOrder, PlanRunsAlone, StoreOutlivesWork, OwnedKinds
<1>. QED
  BY <1>7, <1>8, <1>9 DEF OpsInv

\* A request that ends, having launched, saved or nothing.
LEMMA EndsKeep ==
    ASSUME OpsInv, NEW c \in OpCalls,
           Prepare(c) \/ RefuseRequest(c) \/ LaunchOp(c) \/ SaveSettings(c)
    PROVE  OpsInv'
<1>. USE OpsAssumption
<1>1. opCall[c].at # "idle" /\ Leaves(c) /\ UNCHANGED <<controller, active, outstanding, storage, liveOps>>
  BY DEF Prepare, RefuseRequest, LaunchOp, SaveSettings, lifecycle
<1>2. /\ gate' = FALSE /\ opCall' \in [OpCalls -> OpCallStates]
      /\ \A d \in OpCalls : opCall'[d].at = "idle"
  BY <1>1, HolderLeaves
<1>3. HolderAlone'
  BY <1>2 DEF HolderAlone
<1>4. revision' \in 1 .. MaxRevision + 1
  BY OpsTyped DEF OpsInv, Prepare, RefuseRequest, LaunchOp, SaveSettings
<1>5. CASE UNCHANGED owned
  <2>1. OpsTypeOK'
    BY <1>1, <1>2, <1>4, <1>5, OpsTyped, OpsTypedAgain DEF OpsInv
  <2>2. ClosedInOrder' /\ PlanRunsAlone' /\ StoreOutlivesWork'
    BY <1>1, <1>5 DEF OpsInv, ClosedInOrder, PlanRunsAlone, StoreOutlivesWork, OwnedKinds
  <2>. QED
    BY <1>3, <2>1, <2>2 DEF OpsInv
<1>6. CASE LaunchOp(c)
  <2>. DEFINE k == opCall[c].kind
  <2>1. /\ k \in Kinds /\ controller = "open"
        /\ owned' = [owned EXCEPT ![k] = "launched"]
    BY <1>6 DEF LaunchOp, StillOpen
  <2>2. InTheWay(k) \cap OwnedKinds = {}
    BY <1>1 DEF OpsInv, HolderAlone
  <2>. HIDE DEF k
  <2>3. owned \in [Kinds -> {"none", "launched", "reserved"}]
    BY OpsTyped DEF OpsInv
  <2>4. owned' \in [Kinds -> {"none", "launched", "reserved"}]
    BY <2>1, <2>3
  <2>5. OpsTypeOK'
    BY <1>1, <1>2, <1>4, <2>4, OpsTyped, OpsTypedAgain DEF OpsInv
  <2>6. OwnedKinds' = OwnedKinds \cup {k}
    BY <2>1, <2>3 DEF OwnedKinds
  <2>7. ClosedInOrder' /\ StoreOutlivesWork'
    BY <1>1, <2>1 DEF OpsInv, ClosedInOrder, StoreOutlivesWork
  <2>8. PlanRunsAlone'
    <3>1. CASE k = "plan"
      <4>1. OwnedKinds = {}
        BY <2>2, <3>1 DEF InTheWay, OwnedKinds, Kinds
      <4>. QED
        BY <2>6, <3>1, <4>1 DEF PlanRunsAlone
    <3>2. CASE k # "plan"
      <4>1. "plan" \in InTheWay(k)
        BY <2>1, <3>2 DEF InTheWay, Kinds
      <4>2. owned["plan"] = "none"
        BY <2>2, <4>1 DEF OwnedKinds, Kinds
      <4>3. owned'["plan"] = "none"
        BY <2>1, <2>3, <3>2, <4>2 DEF Kinds
      <4>. QED
        BY <4>3 DEF PlanRunsAlone
    <3>. QED
      BY <3>1, <3>2
  <2>. QED
    BY <1>3, <2>5, <2>7, <2>8 DEF OpsInv
<1>. QED
  BY <1>5, <1>6 DEF Prepare, RefuseRequest, SaveSettings

\* Fewer kinds are owned, or as many: nothing the gate found is disturbed.
LEMMA FewerOwned ==
    ASSUME OpsInv, UNCHANGED <<gate, opCall>>,
           OwnedKinds' \subseteq OwnedKinds,
           owned' \in [Kinds -> {"none", "launched", "reserved"}]
    PROVE  HolderAlone' /\ PlanRunsAlone'
<1>1. HolderAlone'
  <2>1. \A c \in OpCalls : opCall[c].at # "idle" =>
            InTheWay(opCall[c].kind) \cap OwnedKinds' = {}
    BY DEF OpsInv, HolderAlone
  <2>. QED
    BY <2>1 DEF OpsInv, HolderAlone, InTheWay
<1>2. PlanRunsAlone'
  <2>1. ASSUME owned'["plan"] # "none" PROVE OwnedKinds' = {"plan"}
    <3>1. "plan" \in OwnedKinds'
      BY <2>1 DEF OwnedKinds, Kinds
    <3>2. owned["plan"] # "none"
      BY <3>1 DEF OwnedKinds
    <3>. QED
      BY <3>1, <3>2 DEF OpsInv, PlanRunsAlone
  <2>. QED
    BY <2>1 DEF PlanRunsAlone
<1>. QED
  BY <1>1, <1>2

\* Work that is reserved or settles, here or in another process.
LEMMA WorkKeeps ==
    ASSUME OpsInv, NEW k \in Kinds,
           ReserveOp(k) \/ SettleOperation(k) \/ ReservedElsewhere(k) \/ NoLongerLive(k)
    PROVE  OpsInv'
<1>. USE OpsAssumption
<1>1. UNCHANGED <<gate, opCall, revision, controller, active, outstanding, storage>>
  BY DEF ReserveOp, SettleOperation, ReservedElsewhere, NoLongerLive, lifecycle
<1>2. owned \in [Kinds -> {"none", "launched", "reserved"}] /\ liveOps \subseteq Kinds
  BY OpsTyped DEF OpsInv
<1>3. owned' \in [Kinds -> {"none", "launched", "reserved"}] /\ OwnedKinds' \subseteq OwnedKinds
  <2>1. CASE ReserveOp(k)
    BY <1>2, <2>1 DEF ReserveOp, OwnedKinds
  <2>2. CASE SettleOperation(k)
    BY <1>2, <2>2 DEF SettleOperation, OwnedKinds
  <2>3. CASE ReservedElsewhere(k) \/ NoLongerLive(k)
    BY <1>2, <2>3 DEF ReservedElsewhere, NoLongerLive, OwnedKinds
  <2>. QED
    BY <2>1, <2>2, <2>3
<1>4. liveOps' \subseteq Kinds
  <2>1. CASE SettleOperation(k)
    BY <1>2, <2>1 DEF SettleOperation
  <2>. QED
    BY <1>2, <2>1 DEF ReserveOp, ReservedElsewhere, NoLongerLive
<1>5. OpsTypeOK'
  BY <1>1, <1>3, <1>4, OpsTyped, OpsTypedAgain DEF OpsInv
<1>6. HolderAlone' /\ PlanRunsAlone'
  BY <1>1, <1>3, FewerOwned
<1>7. ClosedInOrder' /\ StoreOutlivesWork'
  BY <1>1, <1>3 DEF OpsInv, ClosedInOrder, StoreOutlivesWork
<1>. QED
  BY <1>5, <1>6, <1>7 DEF OpsInv

\* The steps of disposal, and a save of another process.
LEMMA DisposalKeeps ==
    ASSUME OpsInv, SavedElsewhere \/ CloseController \/ ReportClose \/ CloseStorage
    PROVE  OpsInv'
<1>. USE OpsAssumption
<1>1. UNCHANGED <<gate, opCall, owned, liveOps>>
  BY DEF SavedElsewhere, CloseController, ReportClose, CloseStorage
<1>2. OwnedKinds' = OwnedKinds /\ OwnedKinds \subseteq Kinds
  BY <1>1 DEF OwnedKinds
<1>3. owned' \in [Kinds -> {"none", "launched", "reserved"}]
  BY <1>1, OpsTyped DEF OpsInv
<1>4. HolderAlone' /\ PlanRunsAlone'
  BY <1>1, <1>2, <1>3, FewerOwned
<1>5. CASE SavedElsewhere
  <2>1. /\ revision' = revision + 1 /\ revision < MaxRevision
        /\ UNCHANGED <<controller, active, outstanding, storage>>
    BY <1>5 DEF SavedElsewhere, lifecycle
  <2>2. OpsTypeOK'
    BY <1>1, <2>1, OpsTyped, OpsTypedAgain DEF OpsInv
  <2>3. ClosedInOrder' /\ StoreOutlivesWork'
    BY <1>2, <2>1 DEF OpsInv, ClosedInOrder, StoreOutlivesWork
  <2>. QED
    BY <1>4, <2>2, <2>3 DEF OpsInv
<1>6. CASE CloseController
  <2>1. /\ controller = "open" /\ controller' = "closing" /\ active' = OwnedKinds
        /\ UNCHANGED <<revision, outstanding, storage>>
    BY <1>6 DEF CloseController
  <2>. QED
    <3>1. outstanding = {}
      BY <2>1 DEF OpsInv, ClosedInOrder
    <3>2. OpsTypeOK'
      BY <1>1, <1>2, <2>1, <3>1, OpsTyped, OpsTypedAgain DEF OpsInv
    <3>3. ClosedInOrder' /\ StoreOutlivesWork'
      BY <1>2, <2>1, <3>1 DEF OpsInv, ClosedInOrder, StoreOutlivesWork
    <3>. QED
      BY <1>4, <3>2, <3>3 DEF OpsInv
<1>7. CASE ReportClose
  <2>1. /\ controller' = "closed" /\ outstanding' = active \cap OwnedKinds
        /\ UNCHANGED <<revision, active, storage>>
    BY <1>7 DEF ReportClose
  <2>2. OpsTypeOK'
    BY <1>1, <2>1, OpsTyped, OpsTypedAgain DEF OpsInv
  <2>3. ClosedInOrder' /\ StoreOutlivesWork'
    BY <1>2, <2>1 DEF OpsInv, ClosedInOrder, StoreOutlivesWork
  <2>. QED
    BY <1>4, <2>2, <2>3 DEF OpsInv
<1>8. CASE CloseStorage
  <2>1. /\ controller = "closed" /\ storage' = "closed"
        /\ outstanding = {} \/ OwnedKinds = {}
        /\ UNCHANGED <<revision, controller, active, outstanding>>
    BY <1>8 DEF CloseStorage, AllOpsSettled
  <2>2. OpsTypeOK'
    BY <1>1, <2>1, OpsTyped, OpsTypedAgain DEF OpsInv
  <2>3. OwnedKinds = {}
    BY <2>1 DEF OpsInv, ClosedInOrder
  <2>4. ClosedInOrder' /\ StoreOutlivesWork'
    BY <1>2, <2>1, <2>3 DEF OpsInv, ClosedInOrder, StoreOutlivesWork
  <2>. QED
    BY <1>4, <2>2, <2>4 DEF OpsInv
<1>. QED
  BY <1>5, <1>6, <1>7, <1>8

\* The invariant holds when the process starts.
LEMMA OpsInitKeeps == OpsInit => OpsInv
<1>. SUFFICES ASSUME OpsInit PROVE OpsInv
  OBVIOUS
<1>. USE OpsAssumption
<1>1. IdleCall \in OpCallStates /\ IdleCall.at = "idle"
  BY DEF IdleCall, OpCallStates
<1>2. OwnedKinds = {}
  BY DEF OpsInit, OwnedKinds
<1>3. OpsTypeOK
  <2>1. opCall \in [OpCalls -> OpCallStates]
    BY <1>1 DEF OpsInit
  <2>2. gate \in BOOLEAN
    BY Zenon DEF OpsInit
  <2>3. /\ owned \in [Kinds -> {"none", "launched", "reserved"}]
        /\ liveOps \subseteq Kinds /\ revision \in 1 .. MaxRevision + 1
        /\ controller \in {"open", "closing", "closed"}
        /\ active \subseteq Kinds /\ outstanding \subseteq active /\ storage \in {"open", "closed"}
    BY DEF OpsInit
  <2>. QED
    BY <2>1, <2>2, <2>3 DEF OpsTypeOK, OpCallStates
<1>4. \A c \in OpCalls : opCall[c].at = "idle"
  BY <1>1 DEF OpsInit
<1>. QED
  BY <1>2, <1>3, <1>4
     DEF OpsInit, OpsInv, HolderAlone, ClosedInOrder, PlanRunsAlone, StoreOutlivesWork, OwnedKinds, Kinds

\* Every step keeps it.
LEMMA OpsStepKeeps == ASSUME OpsInv, [OpsNext]_opsVars PROVE OpsInv'
<1>1. CASE UNCHANGED opsVars
  <2>1. OwnedKinds' = OwnedKinds
    BY <1>1 DEF opsVars, OwnedKinds
  <2>2. /\ opCall' = opCall /\ gate' = gate /\ owned' = owned /\ storage' = storage
        /\ controller' = controller /\ active' = active /\ outstanding' = outstanding
        /\ liveOps' = liveOps /\ revision' = revision
    BY <1>1 DEF opsVars
  <2>3. OpsTypeOK' /\ HolderAlone'
    BY <2>1, <2>2 DEF OpsInv, OpsTypeOK, HolderAlone, InTheWay
  <2>. QED
    BY <2>1, <2>2, <2>3 DEF OpsInv, ClosedInOrder, PlanRunsAlone, StoreOutlivesWork
<1>2. CASE OpsNext
  BY <1>2, AcquireKeeps, LooksKeep, EndsKeep, WorkKeeps, DisposalKeeps DEF OpsNext
<1>. QED
  BY <1>1, <1>2

\* The invariant of the owned operations holds in every behaviour of theirs.
LEMMA OpsInductive == OpsSpec => []OpsInv
  BY OpsInitKeeps, OpsStepKeeps, PTL DEF OpsSpec

\* The settings move only while nothing is alive, and by this process only while it owns
\* nothing: the one that saves took the gate with nothing in its way.
LEMMA OpsStepKeepsSettings ==
    ASSUME OpsInv, OpsNext, revision' # revision
    PROVE  /\ liveOps = {}
           /\ (\E c \in OpCalls : opCall[c].at = "writing" /\ opCall'[c].at = "idle") => OwnedKinds = {}
<1>1. liveOps = {}
  BY DEF OpsNext, Acquire, NothingLive, ReadSettings, Prepare, RefuseRequest, LaunchOp, SaveReady,
         SaveSettings, NothingLiveInside, ReserveOp, SettleOperation, ReservedElsewhere, NoLongerLive,
         SavedElsewhere, CloseController, ReportClose, CloseStorage
<1>2. ASSUME NEW c \in OpCalls, opCall[c].at = "writing" PROVE OwnedKinds = {}
  <2>1. opCall[c].kind = "save" /\ InTheWay("save") \cap OwnedKinds = {}
    BY <1>2 DEF OpsInv, HolderAlone
  <2>. QED
    BY <2>1 DEF InTheWay, OwnedKinds
<1>. QED
  BY <1>1, <1>2

\* Every variable of the owned operations keeps its range (model-operations.ts).
THEOREM OperationsTypes == OpsSpec => []OpsTypeOK
  BY OpsInductive, PTL DEF OpsInv

\* A paid plan runs beside no other operation, the settings move only while none is alive,
\* and the store is closed only after every operation of this process has settled
\* (planRun, saveSettings, close and the plugin's first disposer).
THEOREM OperationsAreKept == OpsSpec => OperationsKept
<1>1. OpsInv /\ [OpsNext]_opsVars =>
        [revision' # revision =>
         /\ liveOps = {}
         /\ (\E c \in OpCalls : opCall[c].at = "writing" /\ opCall'[c].at = "idle") => OwnedKinds = {}]_opsVars
  BY OpsStepKeepsSettings
<1>. QED
  BY <1>1, OpsInductive, PTL DEF OpsSpec, OperationsKept, SettingsKept, OpsInv

-----------------------------------------------------------------------------
(* The stored problem and its head                                         *)

\* Types in the form the steps use: at most one row.
MaterialTypes ==
    /\ problem = {} \/ \E p \in ProblemRows : problem = {p}
    /\ snapshot \in Heads
    /\ writer \in [Writers -> [does : {"nothing", "refresh", "supplement", "metadata"}, seen : Heads]]

MaterialInv == MaterialTypes /\ RowAndHeadAgree

SourceMaps == [SourceIds -> Texts \cup {Unread, Checked}]
Solutions == [source : SourceIds, text : Texts]

\* A head, field by field.
LEMMA HeadFields ==
    ASSUME NEW h \in Heads
    PROVE  /\ h.version \in 0 .. MaxVersion /\ h.problem \subseteq ProblemRows
           /\ h.sources \in SourceMaps /\ h.solutions \subseteq Solutions
  BY DEF Heads, SourceMaps, Solutions

\* What the code may store as material: typed, every solution of its source, and nothing
\* found is lost.
LEMMA MaterialsSound ==
    ASSUME MaterialInv, NEW material \in Materials
    PROVE  /\ material.sources \in SourceMaps /\ material.solutions \subseteq Solutions
           /\ \A s \in material.solutions : material.sources[s.source] = s.text
           /\ \A i \in SourceIds : Found(i) => material.sources[i] \in Texts
<1>. USE MaterialAssumption
<1>1. /\ snapshot.sources \in SourceMaps /\ snapshot.solutions \subseteq Solutions
      /\ \A s \in snapshot.solutions : snapshot.sources[s.source] = s.text
  BY HeadFields DEF MaterialInv, MaterialTypes, RowAndHeadAgree
<1>2. CASE material = AsStored
  BY <1>1, <1>2 DEF AsStored, Found
<1>3. ASSUME NEW check \in SourceIds, material = WithNothing(check)
      PROVE  /\ material.sources \in SourceMaps /\ material.solutions \subseteq Solutions
             /\ \A s \in material.solutions : material.sources[s.source] = s.text
             /\ \A i \in SourceIds : Found(i) => material.sources[i] \in Texts
  <2>1. CASE Found(check)
    <3>1. material.sources = snapshot.sources /\ material.solutions = snapshot.solutions
      BY <1>3, <2>1 DEF WithNothing
    <3>. QED
      BY <1>1, <3>1 DEF Found
  <2>2. CASE ~Found(check)
    <3>1. /\ material.sources = [snapshot.sources EXCEPT ![check] = Checked]
          /\ material.solutions = {s \in snapshot.solutions : s.source # check}
      BY <1>3, <2>2 DEF WithNothing
    <3>2. material.sources \in SourceMaps /\ material.solutions \subseteq Solutions
      BY <1>1, <3>1 DEF SourceMaps
    <3>3. \A i \in SourceIds : i # check => material.sources[i] = snapshot.sources[i]
      BY <1>1, <3>1 DEF SourceMaps
    <3>4. ASSUME NEW s \in material.solutions PROVE material.sources[s.source] = s.text
      <4>1. s \in snapshot.solutions /\ s.source # check /\ s.source \in SourceIds
        BY <1>1, <3>1 DEF Solutions
      <4>. QED
        BY <1>1, <3>3, <4>1
    <3>5. ASSUME NEW i \in SourceIds, Found(i) PROVE material.sources[i] \in Texts
      BY <2>2, <3>3, <3>5 DEF Found
    <3>. QED
      BY <3>2, <3>4, <3>5
  <2>. QED
    BY <2>1, <2>2
<1>4. ASSUME NEW found \in FoundAnswers, NEW check \in SourceIds, material = WithFound(found, check)
      PROVE  /\ material.sources \in SourceMaps /\ material.solutions \subseteq Solutions
             /\ \A s \in material.solutions : material.sources[s.source] = s.text
             /\ \A i \in SourceIds : Found(i) => material.sources[i] \in Texts
  <2>1. PICK ids \in SUBSET SourceIds : found \in [ids -> Texts]
    BY DEF FoundAnswers
  <2>2. DOMAIN found = ids /\ ids \subseteq SourceIds /\ \A i \in ids : found[i] \in Texts
    BY <2>1
  <2>. DEFINE
         src == [i \in SourceIds |->
                    IF i \in DOMAIN found THEN found[i]
                    ELSE IF Superseded(i, check) THEN Unread ELSE snapshot.sources[i]]
         old == {s \in snapshot.solutions : Stays(s, found, check)}
         new == {[source |-> i, text |-> found[i]] : i \in DOMAIN found}
  <2>3. material.sources = src /\ material.solutions = old \cup new
    BY <1>4 DEF WithFound
  <2>4. src \in SourceMaps
    <3>1. ASSUME NEW i \in SourceIds PROVE src[i] \in Texts \cup {Unread, Checked}
      BY <1>1, <2>2 DEF SourceMaps
    <3>. QED
      BY <3>1 DEF SourceMaps
  <2>5. old \cup new \subseteq Solutions
    BY <1>1, <2>2 DEF Solutions
  <2>6. ASSUME NEW s \in old \cup new PROVE src[s.source] = s.text
    <3>1. CASE s \in old
      <4>1. s \in snapshot.solutions /\ s.source \in SourceIds
            /\ s.source \notin DOMAIN found /\ ~Superseded(s.source, check)
        BY <1>1, <3>1 DEF Stays, Solutions
      <4>2. src[s.source] = snapshot.sources[s.source]
        BY <4>1
      <4>. QED
        BY <1>1, <4>1, <4>2
    <3>2. CASE s \in new
      <4>1. PICK i \in DOMAIN found : s = [source |-> i, text |-> found[i]]
        BY <3>2
      <4>2. s.source = i /\ s.text = found[i] /\ i \in SourceIds
        BY <2>2, <4>1
      <4>. QED
        BY <4>2
    <3>. QED
      BY <2>6, <3>1, <3>2
  <2>7. ASSUME NEW i \in SourceIds, Found(i) PROVE src[i] \in Texts
    <3>1. ~Superseded(i, check)
      BY <2>7 DEF Superseded
    <3>. QED
      BY <2>2, <2>7, <3>1 DEF Found
  <2>. HIDE DEF src, old, new
  <2>. QED
    BY <2>3, <2>4, <2>5, <2>6, <2>7
<1>. QED
  BY <1>2, <1>3, <1>4 DEF Materials

\* What one transaction stores: one row, its head in step with it, one version further when
\* the content moved, and nothing found is lost.
LEMMA PersistSound ==
    ASSUME MaterialInv, NEW row \in ProblemRows, NEW material \in Materials, Persist(row, material)
    PROVE  /\ problem' = {row} /\ snapshot' \in Heads /\ RowAndHeadAgree'
           /\ \A i \in SourceIds : Found(i) => Found(i)'
           /\ snapshot' # snapshot => snapshot'.version = snapshot.version + 1
<1>. USE MaterialAssumption
<1>. DEFINE content == [problem |-> {row}, sources |-> material.sources,
                        solutions |-> material.solutions, version |-> snapshot.version]
            next == [content EXCEPT !.version = @ + 1]
<1>1. /\ problem' = {row} /\ snapshot'.version <= MaxVersion
      /\ snapshot' = IF content = snapshot THEN snapshot ELSE next
  BY DEF Persist
<1>2. /\ snapshot \in Heads /\ snapshot.version \in 0 .. MaxVersion
  BY HeadFields DEF MaterialInv, MaterialTypes
<1>3. /\ content.problem = {row} /\ content.sources = material.sources
      /\ content.solutions = material.solutions /\ content.version = snapshot.version
  OBVIOUS
<1>4. next = [problem |-> {row}, sources |-> material.sources,
              solutions |-> material.solutions, version |-> snapshot.version + 1]
  OBVIOUS
<1>. HIDE DEF content
<1>. HIDE DEF next
<1>5. /\ next.problem = {row} /\ next.sources = material.sources
      /\ next.solutions = material.solutions /\ next.version = snapshot.version + 1
  BY <1>4
<1>6. /\ snapshot'.problem = {row} /\ snapshot'.sources = material.sources
      /\ snapshot'.solutions = material.solutions
      /\ snapshot' # snapshot => snapshot'.version = snapshot.version + 1
  <2>1. CASE content = snapshot
    BY <1>1, <1>3, <2>1
  <2>2. CASE content # snapshot
    BY <1>1, <1>5, <2>2
  <2>. QED
    BY <2>1, <2>2
<1>7. /\ material.sources \in SourceMaps /\ material.solutions \subseteq Solutions
      /\ \A s \in material.solutions : material.sources[s.source] = s.text
      /\ \A i \in SourceIds : Found(i) => material.sources[i] \in Texts
  BY MaterialsSound
<1>8. snapshot' \in Heads
  <2>1. CASE content = snapshot
    BY <1>1, <1>2, <2>1
  <2>2. CASE content # snapshot
    <3>1. snapshot' = next
      BY <1>1, <2>2
    <3>2. snapshot.version + 1 \in 0 .. MaxVersion
      BY <1>1, <1>2, <1>5, <3>1
    <3>. QED
      BY <1>4, <1>7, <3>1, <3>2 DEF Heads, SourceMaps, Solutions
  <2>. QED
    BY <2>1, <2>2
<1>9. RowAndHeadAgree'
  BY <1>1, <1>6, <1>7 DEF RowAndHeadAgree
<1>10. \A i \in SourceIds : Found(i) => Found(i)'
  BY <1>6, <1>7 DEF Found
<1>. QED
  BY <1>1, <1>6, <1>8, <1>9, <1>10

\* What one step does to the row and the head, whoever takes it.
StoredSoundly ==
    /\ problem' = {} \/ \E p \in ProblemRows : problem' = {p}
    /\ snapshot' \in Heads /\ RowAndHeadAgree'
    /\ \A p \in problem : p.statement # NoStatement => \A q \in problem' : q.statement # NoStatement
    /\ \A i \in SourceIds : Found(i) => Found(i)'
    /\ snapshot' # snapshot => snapshot'.version = snapshot.version + 1

\* A merged row is a row and keeps the stored statement.
LEMMA MergedKeeps ==
    ASSUME MaterialInv, NEW r \in ProblemRows
    PROVE  /\ MergedRow(r) \in ProblemRows
           /\ \A p \in problem : p.statement # NoStatement => MergedRow(r).statement # NoStatement
<1>1. CASE r.statement # NoStatement
  BY <1>1 DEF MergedRow
<1>2. CASE r.statement = NoStatement /\ problem = {}
  <2>1. MergedRow(r) = r
    BY <1>2 DEF MergedRow, ProblemRows
  <2>. QED
    BY <1>2, <2>1
<1>3. CASE r.statement = NoStatement /\ problem # {}
  <2>1. PICK p \in ProblemRows : problem = {p}
    BY <1>3 DEF MaterialInv, MaterialTypes
  <2>2. (CHOOSE x \in problem : TRUE) = p
    BY <2>1
  <2>3. MergedRow(r) = [r EXCEPT !.statement = p.statement]
    BY <1>3, <2>2 DEF MergedRow
  <2>. QED
    BY <2>1, <2>3 DEF ProblemRows
<1>. QED
  BY <1>1, <1>2, <1>3

\* A row that keeps the stored statement, and material as the code merges it, are stored soundly.
LEMMA PersistStores ==
    ASSUME MaterialInv, NEW row \in ProblemRows, NEW material \in Materials, Persist(row, material),
           \A p \in problem : p.statement # NoStatement => row.statement # NoStatement
    PROVE  StoredSoundly
  BY PersistSound DEF StoredSoundly

\* Each of the four commits stores soundly.
LEMMA CommitsStore ==
    ASSUME MaterialInv,
           ManualImport \/ \E w \in Writers : CommitRefresh(w) \/ CommitSupplement(w) \/ CommitMetadata(w)
    PROVE  StoredSoundly
<1>1. CASE ManualImport
  <2>1. PICK r \in ProblemRows, material \in Materials : Persist(MergedRow(r), material)
    BY <1>1 DEF ManualImport
  <2>. QED
    BY <2>1, MergedKeeps, PersistStores
<1>2. ASSUME NEW w \in Writers, CommitRefresh(w) PROVE StoredSoundly
  <2>1. PICK row \in {MergedRow(r) : r \in ProblemRows} \cup problem, material \in Materials :
            Persist(row, material)
    BY <1>2 DEF CommitRefresh
  <2>2. CASE row \in {MergedRow(r) : r \in ProblemRows}
    <3>1. PICK r \in ProblemRows : row = MergedRow(r)
      BY <2>2
    <3>. QED
      BY <2>1, <3>1, MergedKeeps, PersistStores
  <2>3. CASE row \in problem
    <3>1. row \in ProblemRows /\ problem = {row}
      BY <2>3 DEF MaterialInv, MaterialTypes
    <3>. QED
      BY <2>1, <3>1, PersistStores
  <2>. QED
    BY <2>1, <2>2, <2>3
<1>3. ASSUME NEW w \in Writers, CommitSupplement(w) PROVE StoredSoundly
  <2>1. PICK row \in ProblemRows, material \in Materials :
          /\ IF problem = {} THEN row.statement # NoStatement /\ material = AsStored
             ELSE \E p \in problem : row.meta = p.meta
                                     /\ (row.statement = NoStatement => row = p)
          /\ Persist(row, material)
    BY <1>3 DEF CommitSupplement
  <2>2. \A p \in problem : p.statement # NoStatement => row.statement # NoStatement
    <3>1. CASE problem = {}
      BY <3>1
    <3>2. CASE problem # {}
      <4>1. PICK p \in ProblemRows : problem = {p}
        BY <3>2 DEF MaterialInv, MaterialTypes
      <4>2. row.statement = NoStatement => row = p
        BY <2>1, <3>2, <4>1
      <4>. QED
        BY <4>1, <4>2
    <3>. QED
      BY <3>1, <3>2
  <2>. QED
    BY <2>1, <2>2, PersistStores
<1>4. ASSUME NEW w \in Writers, CommitMetadata(w) PROVE StoredSoundly
  <2>1. PICK r \in ProblemRows : Persist(MergedRow(r), AsStored)
    BY <1>4 DEF CommitMetadata
  <2>2. AsStored \in Materials
    BY DEF Materials
  <2>. QED
    BY <2>1, <2>2, MergedKeeps, PersistStores
<1>. QED
  BY <1>1, <1>2, <1>3, <1>4

\* What one step does to the writers.
WritersKept ==
    /\ writer' \in [Writers -> [does : {"nothing", "refresh", "supplement", "metadata"}, seen : Heads]]
    /\ \A w \in Writers :
          /\ writer[w].does \in {"refresh", "supplement"} /\ writer[w].seen.version # snapshot.version
          /\ writer'[w].does = "nothing"
          => snapshot' = snapshot

\* A writer at rest is a value of a writer.
LEMMA RestingTyped ==
    /\ RestingWriter.does = "nothing" /\ RestingWriter.seen \in Heads
    /\ RestingWriter \in [does : {"nothing", "refresh", "supplement", "metadata"}, seen : Heads]
<1>. USE MaterialAssumption
<1>1. NoMaterial \in [SourceIds -> Texts \cup {Unread, Checked}]
  BY DEF NoMaterial
<1>2. [version |-> 0, problem |-> {}, sources |-> NoMaterial, solutions |-> {}] \in Heads
  BY <1>1 DEF Heads
<1>. QED
  BY <1>2 DEF RestingWriter

\* The writer that ends with the head unchanged or as it saw it leaves the others alone.
LEMMA RestKeeps ==
    ASSUME MaterialInv, NEW w \in Writers, Rests(w),
           \/ snapshot' = snapshot \/ writer[w].does = "metadata"
           \/ writer[w].seen = snapshot
    PROVE  WritersKept
<1>1. writer' = [writer EXCEPT ![w] = RestingWriter]
  BY DEF Rests
<1>2. writer \in [Writers -> [does : {"nothing", "refresh", "supplement", "metadata"}, seen : Heads]]
  BY DEF MaterialInv, MaterialTypes
<1>3. writer' \in [Writers -> [does : {"nothing", "refresh", "supplement", "metadata"}, seen : Heads]]
  BY <1>1, <1>2, RestingTyped
<1>4. ASSUME NEW v \in Writers, writer[v].does \in {"refresh", "supplement"},
             writer[v].seen.version # snapshot.version, writer'[v].does = "nothing"
      PROVE  snapshot' = snapshot
  <2>1. v = w
    <3>1. v # w => writer'[v] = writer[v]
      BY <1>1, <1>2
    <3>. QED
      BY <1>4, <3>1
  <2>. QED
    BY <1>4, <2>1
<1>. QED
  BY <1>3, <1>4 DEF WritersKept

\* Every step keeps the invariant, stores soundly and leaves what it must not touch.
LEMMA MaterialStepSound ==
    ASSUME MaterialInv, MaterialNext PROVE StoredSoundly /\ WritersKept
<1>1. CASE ManualImport
  <2>1. StoredSoundly
    BY <1>1, CommitsStore
  <2>2. writer' = writer
    BY <1>1 DEF ManualImport
  <2>3. WritersKept
    BY <2>2 DEF WritersKept, MaterialInv, MaterialTypes
  <2>. QED
    BY <2>1, <2>3
<1>2. ASSUME NEW w \in Writers, NEW does \in {"refresh", "supplement", "metadata"}, Start(w, does)
      PROVE  StoredSoundly /\ WritersKept
  <2>1. /\ problem' = problem /\ snapshot' = snapshot
        /\ writer' = [writer EXCEPT ![w] = [does |-> does, seen |-> snapshot]]
    BY <1>2 DEF Start
  <2>2. StoredSoundly
    BY <2>1 DEF StoredSoundly, MaterialInv, MaterialTypes, RowAndHeadAgree, Found
  <2>3. WritersKept
    BY <2>1 DEF WritersKept, MaterialInv, MaterialTypes
  <2>. QED
    BY <2>2, <2>3
<1>3. ASSUME NEW w \in Writers, CommitRefresh(w) \/ CommitSupplement(w) \/ CommitMetadata(w)
      PROVE  StoredSoundly /\ WritersKept
  <2>1. StoredSoundly
    BY <1>3, CommitsStore
  <2>2. Rests(w) /\ (writer[w].does = "metadata" \/ writer[w].seen = snapshot)
    BY <1>3 DEF CommitRefresh, CommitSupplement, CommitMetadata, SameHead
  <2>. QED
    BY <2>1, <2>2, RestKeeps
<1>4. ASSUME NEW w \in Writers, LeaveMaterial(w) PROVE StoredSoundly /\ WritersKept
  <2>1. problem' = problem /\ snapshot' = snapshot /\ Rests(w)
    BY <1>4 DEF LeaveMaterial
  <2>2. StoredSoundly
    BY <2>1 DEF StoredSoundly, MaterialInv, MaterialTypes, RowAndHeadAgree, Found
  <2>. QED
    BY <2>1, <2>2, RestKeeps
<1>. QED
  BY <1>1, <1>2, <1>3, <1>4 DEF MaterialNext

\* The invariant holds of an empty bank and every step keeps it.
LEMMA MaterialInductive == MaterialSpec => []MaterialInv
<1>1. MaterialInit => MaterialInv
  <2>. SUFFICES ASSUME MaterialInit PROVE MaterialInv
    OBVIOUS
  <2>1. RestingWriter.seen.problem = {} /\ RestingWriter.seen.solutions = {}
    BY DEF RestingWriter
  <2>2. problem = {} /\ snapshot = RestingWriter.seen /\ writer = [w \in Writers |-> RestingWriter]
    BY DEF MaterialInit
  <2>3. MaterialTypes
    BY <2>2, RestingTyped DEF MaterialTypes
  <2>4. RowAndHeadAgree
    BY <2>1, <2>2 DEF RowAndHeadAgree
  <2>. QED
    BY <2>3, <2>4 DEF MaterialInv
<1>2. MaterialInv /\ [MaterialNext]_materialVars => MaterialInv'
  <2>1. CASE MaterialInv /\ MaterialNext
    BY <2>1, MaterialStepSound DEF StoredSoundly, WritersKept, MaterialInv, MaterialTypes
  <2>2. CASE MaterialInv /\ UNCHANGED materialVars
    BY <2>2 DEF materialVars, MaterialInv, MaterialTypes, RowAndHeadAgree
  <2>. QED
    BY <2>1, <2>2
<1>. QED
  BY <1>1, <1>2, PTL DEF MaterialSpec

\* Every variable of the stored material keeps its range, and there is at most one row.
THEOREM MaterialTypesHold == MaterialSpec => []MaterialTypeOK
<1>1. MaterialInv => MaterialTypeOK
  <2>1. ASSUME MaterialInv PROVE problem \subseteq ProblemRows /\ Cardinality(problem) <= 1
    <3>1. CASE problem = {}
      BY <3>1, FS_EmptySet
    <3>2. CASE \E p \in ProblemRows : problem = {p}
      <4>1. PICK p \in ProblemRows : problem = {p}
        BY <3>2
      <4>2. Cardinality({p}) = 1
        BY FS_Singleton
      <4>. QED
        BY <4>1, <4>2
    <3>. QED
      BY <2>1, <3>1, <3>2 DEF MaterialInv, MaterialTypes
  <2>. QED
    BY <2>1 DEF MaterialInv, MaterialTypes, MaterialTypeOK
<1>. QED
  BY <1>1, MaterialInductive, PTL

\* The stored problem, its head and the material of its snapshots stay in step, and nothing
\* fetched against an older head replaces something newer (refreshMaterial,
\* commitSupplement, mergeEditorialMaterial and persistSnapshot).
THEOREM MaterialIsKept == MaterialSpec => MaterialKept
<1>1. MaterialInv /\ [MaterialNext]_materialVars =>
        [/\ \A w \in Writers :
             writer[w].does \in {"refresh", "supplement"} /\ writer[w].seen.version # snapshot.version
                /\ writer'[w].does = "nothing" => snapshot' = snapshot
         /\ \A p \in problem : p.statement # NoStatement => \A q \in problem' : q.statement # NoStatement
         /\ \A i \in SourceIds : Found(i) => Found(i)'
         /\ snapshot' # snapshot => snapshot'.version = snapshot.version + 1]_materialVars
  BY MaterialStepSound DEF StoredSoundly, WritersKept
<1>2. MaterialInv => RowAndHeadAgree
  BY DEF MaterialInv
<1>. QED
  BY <1>1, <1>2, MaterialInductive, PTL DEF MaterialSpec, MaterialKept, NothingNewerOverwritten

-----------------------------------------------------------------------------
(* Decisions about tags.                                                         *)

\* Manual decisions are made at later and later instants, and at most one instant past
\* the readings of the clock per decision.
ReviewsInOrder ==
    /\ \A i \in DOMAIN manuals : manuals[i].at <= MaxInstant + i
    /\ \A i, j \in DOMAIN manuals : i < j => manuals[i].at < manuals[j].at
    /\ manualRevision = Len(manuals)
    /\ Len(manuals) <= MaxReviews

\* Every review has its row, and every row of a human restates a review.
ReviewsHaveRows ==
    /\ \A i \in DOMAIN manuals :
          \E d \in decisions : d.manual = TRUE /\ d.tag = manuals[i].tag /\ d.at = manuals[i].at
    /\ \A d \in decisions : d.manual = TRUE =>
          \E i \in DOMAIN manuals :
              manuals[i].tag = d.tag /\ manuals[i].at = d.at /\ manuals[i].action = d.status

\* Every row belongs to a run that was adopted, and a model's row carries an instant of
\* the logical time of the runs.
RowsOfRuns ==
    /\ \A d \in decisions : d.run <= Len(analyses)
    /\ \A d \in decisions : d.manual = FALSE => d.at <= MaxInstant + Len(analyses)
    /\ \A i \in DOMAIN analyses : analyses[i] <= MaxInstant + Len(analyses)
    /\ Len(analyses) <= MaxRuns
    /\ claim # NoClaim => Len(analyses) < MaxRuns

TagInv == TagTypeOK /\ ReviewsInOrder /\ ReviewsHaveRows /\ RowsOfRuns

\* The rows in force are the newest of the rows they are chosen from.
LEMMA NewestHas ==
    ASSUME NEW S, S # {}, \A d \in S : d.at \in Nat, NEW b \in Nat, \A d \in S : d.at <= b
    PROVE Newest(S) # {}
<1> DEFINE ats == {d.at : d \in S}
<1>1. ats \in SUBSET Nat /\ ats # {} /\ \A m \in ats : m <= b
  OBVIOUS
<1>2. PICK n \in ats : \A m \in ats : m <= n
  BY ONLY <1>1, GreatestOf
<1> QED BY <1>2 DEF Newest

\* Assumptions on the bounds of tag decisions, one by one.
LEMMA TagBounds == MaxInstant \in Nat /\ MaxReviews \in Nat /\ MaxRuns \in Nat
BY TagAssumption

\* What the types say of a review.
LEMMA Reviews ==
    ASSUME TagTypeOK
    PROVE /\ Len(manuals) \in Nat /\ DOMAIN manuals = 1..Len(manuals)
          /\ \A i \in DOMAIN manuals :
                manuals[i] \in [tag : Tags, action : {"accepted", "rejected"}, at : Instants]
<1> DEFINE reviews == [tag : Tags, action : {"accepted", "rejected"}, at : Instants]
<1>1. manuals \in Seq(reviews)
  BY DEF TagTypeOK
<1> HIDE DEF reviews
<1>2. Len(manuals) \in Nat /\ DOMAIN manuals = 1..Len(manuals)
      /\ \A i \in DOMAIN manuals : manuals[i] \in reviews
  BY <1>1
<1> QED BY <1>2 DEF reviews

\* The last review of a tag a human reviewed, and that it is the manual decision in force.
LEMMA TheReviewInForce ==
    ASSUME TagTypeOK, ReviewsInOrder, NEW t \in Tags,
           NEW j \in DOMAIN manuals, manuals[j].tag = t
    PROVE \E k \in DOMAIN manuals :
             /\ manuals[k].tag = t /\ \A i \in DOMAIN manuals : manuals[i].tag = t => i <= k
             /\ ManualOf(t) = {manuals[k]}
<1> DEFINE at == {i \in DOMAIN manuals : manuals[i].tag = t}
<1>1. DOMAIN manuals = 1..Len(manuals) /\ Len(manuals) \in Nat
      /\ \A i \in DOMAIN manuals : manuals[i] \in [tag : Tags, action : {"accepted", "rejected"}, at : Instants]
  BY Reviews
<1>2. at \in SUBSET Nat /\ at # {} /\ \A i \in at : i <= Len(manuals)
  BY <1>1
<1>3. PICK k \in at : \A i \in at : i <= k
  BY ONLY <1>1, <1>2, GreatestOf
<1>4. \A i \in at : manuals[i].at \in Int
  BY <1>1, TagBounds DEF Instants
<1>5. \A i \in at : i # k => manuals[i].at < manuals[k].at
  <2> TAKE i \in at
  <2>1. i \in Int /\ k \in Int /\ i <= k
    BY <1>1, <1>3
  <2> QED BY <2>1 DEF ReviewsInOrder
<1>6. manuals[k] \in ManualOf(t)
  BY <1>3, <1>4, <1>5 DEF ManualOf, Newest
<1>7. ASSUME NEW m \in ManualOf(t) PROVE m = manuals[k]
  <2>1. PICK i \in at : m = manuals[i]
    BY <1>7 DEF ManualOf, Newest
  <2>2. manuals[k].at <= manuals[i].at
    BY <1>7, <2>1, <1>3 DEF ManualOf, Newest
  <2> QED BY <2>1, <2>2, <1>4, <1>5, <1>3
<1> QED BY <1>3, <1>6, <1>7

\* A tag without a manual decision in force was never reviewed.
LEMMA NeverReviewed ==
    ASSUME TagTypeOK, ReviewsInOrder, NEW t \in Tags, ManualOf(t) = {}
    PROVE \A i \in DOMAIN manuals : manuals[i].tag # t
BY TheReviewInForce

\* What is in force for a tag a human reviewed is what the last review said.
LEMMA ReviewsPrevail ==
    ASSUME TagTypeOK, ReviewsInOrder, ReviewsHaveRows
    PROVE ManualPrevails
<1> SUFFICES ASSUME NEW t \in Tags, ManualOf(t) # {}, NEW d \in Current(decisions, t)
             PROVE d.status = LastReview(t)
  BY DEF ManualPrevails
<1>1. PICK j \in DOMAIN manuals : manuals[j].tag = t
  BY DEF ManualOf, Newest
<1>2. PICK k \in DOMAIN manuals :
         /\ manuals[k].tag = t
         /\ \A i \in DOMAIN manuals : manuals[i].tag = t => i <= k
         /\ ManualOf(t) = {manuals[k]}
  BY <1>1, TheReviewInForce
<1>3. DOMAIN manuals = 1..Len(manuals) /\ Len(manuals) \in Nat
      /\ \A i \in DOMAIN manuals : manuals[i] \in [tag : Tags, action : {"accepted", "rejected"}, at : Instants]
  BY Reviews
<1>4. LastReview(t) = manuals[k].action
  <2>1. \A i \in DOMAIN manuals :
           (manuals[i].tag = t /\ \A n \in {m \in DOMAIN manuals : manuals[m].tag = t} : n <= i) => i = k
    BY <1>2, <1>3
  <2> QED BY <1>2, <2>1 DEF LastReview
<1>5. PICK e \in decisions : e.manual = TRUE /\ e.tag = t /\ e.at = manuals[k].at
  BY <1>2 DEF ReviewsHaveRows
<1>6. d \in decisions /\ d.tag = t /\ d.manual = TRUE /\ e.at <= d.at
  BY <1>5 DEF Current, Newest, TagTypeOK
<1>7. PICK i \in DOMAIN manuals : manuals[i].tag = t /\ manuals[i].at = d.at /\ manuals[i].action = d.status
  BY <1>6 DEF ReviewsHaveRows
<1>8. i = k
  <2>1. i <= k /\ i \in Int /\ k \in Int
    BY <1>7, <1>2, <1>3
  <2>2. manuals[i].at \in Int /\ manuals[k].at \in Int
    BY <1>3, TagBounds DEF Instants
  <2>3. ~(i < k)
    BY <2>2, <1>5, <1>6, <1>7 DEF ReviewsInOrder
  <2> QED BY <2>1, <2>3
<1> QED BY <1>4, <1>7, <1>8

\* The instant of a review comes after those of the reviews before it.
LEMMA ReviewedLater ==
    ASSUME TagTypeOK, ReviewsInOrder, NEW now \in 1..MaxInstant
    PROVE /\ MonotonicInstant(now) \in 1..(MaxInstant + Len(manuals) + 1)
          /\ \A i \in DOMAIN manuals : manuals[i].at < MonotonicInstant(now)
<1> DEFINE ats == {manuals[i].at : i \in DOMAIN manuals}
<1>1. Len(manuals) \in Nat /\ DOMAIN manuals = 1..Len(manuals)
      /\ \A i \in DOMAIN manuals : manuals[i].at \in Instants
  BY Reviews
<1>2. ats \in SUBSET Nat
  BY <1>1, TagBounds DEF Instants
<1>3. \A m \in ats : m <= MaxInstant + Len(manuals)
  <2> SUFFICES ASSUME NEW i \in DOMAIN manuals
               PROVE manuals[i].at <= MaxInstant + Len(manuals)
    OBVIOUS
  <2>1. i \in Nat /\ i <= Len(manuals) /\ manuals[i].at \in Nat
    BY <1>1, <1>2
  <2>2. manuals[i].at <= MaxInstant + i
    BY DEF ReviewsInOrder
  <2> QED BY <2>1, <2>2, <1>1, TagBounds
<1>4. now \in Nat /\ 1 <= now /\ now <= MaxInstant
  BY TagBounds
<1>5. CASE \A n \in ats : n < now
  <2>1. MonotonicInstant(now) = now
    BY <1>5 DEF MonotonicInstant
  <2> QED BY <2>1, <1>1, <1>4, <1>5, TagBounds
<1>6. CASE ~ \A n \in ats : n < now
  <2> DEFINE last == CHOOSE n \in ats : \A m \in ats : m <= n
  <2>1. ats # {}
    BY <1>6
  <2>2. \E n \in ats : \A m \in ats : m <= n
    <3>1. MaxInstant + Len(manuals) \in Nat
      BY <1>1, TagBounds
    <3> HIDE DEF ats
    <3> QED BY <3>1, <1>2, <1>3, <2>1, GreatestOf
  <2>3. last \in ats /\ \A m \in ats : m <= last
    BY <2>2
  <2>4. MonotonicInstant(now) = 1 + last
    BY <1>6 DEF MonotonicInstant
  <2>5. last \in Nat /\ last <= MaxInstant + Len(manuals)
    BY <2>3, <1>2, <1>3
  <2>6. \A m \in ats : m \in Nat /\ m <= last
    BY <2>3, <1>2
  <2> HIDE DEF last
  <2>7. 1 + last \in 1..(MaxInstant + Len(manuals) + 1)
    BY <2>5, <1>1, TagBounds
  <2>8. \A i \in DOMAIN manuals : manuals[i].at < 1 + last
    <3> TAKE i \in DOMAIN manuals
    <3>1. manuals[i].at \in ats
      OBVIOUS
    <3>2. manuals[i].at \in Nat /\ manuals[i].at <= last
      BY <3>1, <2>6
    <3> QED BY <3>2, <2>5
  <2> QED BY <2>4, <2>7, <2>8
<1> QED BY <1>5, <1>6

\* The instant of a checked run comes after those of the rows of all models.
LEMMA AdoptedLater ==
    ASSUME TagInv, NEW now \in 1..MaxInstant
    PROVE /\ AdoptionInstant(now) \in 1..(MaxInstant + Len(analyses) + 1)
          /\ \A d \in decisions : d.manual = FALSE => d.at < AdoptionInstant(now)
<1> DEFINE ats == {analyses[i] : i \in DOMAIN analyses} \cup {d.at : d \in {e \in decisions : ~e.manual}}
<1>1. /\ Len(analyses) \in Nat
      /\ \A i \in DOMAIN analyses : analyses[i] \in Instants
      /\ \A d \in decisions : d.at \in Instants /\ d.manual \in BOOLEAN
  BY DEF TagInv, TagTypeOK
<1>2. ats \in SUBSET Nat
  <2>1. Instants \subseteq Nat
    BY TagBounds DEF Instants
  <2>2. {analyses[i] : i \in DOMAIN analyses} \subseteq Instants
    BY <1>1
  <2>3. {d.at : d \in {e \in decisions : ~e.manual}} \subseteq Instants
    BY <1>1
  <2> QED BY <2>1, <2>2, <2>3
<1>3. \A m \in ats : m <= MaxInstant + Len(analyses)
  <2>1. \A i \in DOMAIN analyses : analyses[i] <= MaxInstant + Len(analyses)
    BY DEF TagInv, RowsOfRuns
  <2>2. \A d \in decisions : ~d.manual => d.at <= MaxInstant + Len(analyses)
    BY <1>1 DEF TagInv, RowsOfRuns
  <2> QED BY <2>1, <2>2
<1>4. now \in Nat /\ 1 <= now /\ now <= MaxInstant
  BY TagBounds
<1>5. CASE \A n \in ats : n < now
  <2>1. AdoptionInstant(now) = now
    BY <1>5 DEF AdoptionInstant
  <2> QED BY <2>1, <1>1, <1>4, <1>5, TagBounds
<1>6. CASE ~ \A n \in ats : n < now
  <2> DEFINE last == CHOOSE n \in ats : \A m \in ats : m <= n
  <2>1. ats # {}
    BY <1>6
  <2>2. \E n \in ats : \A m \in ats : m <= n
    <3>1. MaxInstant + Len(analyses) \in Nat
      BY <1>1, TagBounds
    <3> HIDE DEF ats
    <3> QED BY <3>1, <1>2, <1>3, <2>1, GreatestOf
  <2>3. last \in ats /\ \A m \in ats : m <= last
    BY <2>2
  <2>4. AdoptionInstant(now) = 1 + last
    BY <1>6 DEF AdoptionInstant
  <2>5. last \in Nat /\ last <= MaxInstant + Len(analyses)
    BY <2>3, <1>2, <1>3
  <2>6. \A m \in ats : m \in Nat /\ m <= last
    BY <2>3, <1>2
  <2> HIDE DEF last
  <2>7. 1 + last \in 1..(MaxInstant + Len(analyses) + 1)
    BY <2>5, <1>1, TagBounds
  <2>8. \A d \in decisions : d.manual = FALSE => d.at < 1 + last
    BY <2>6, <2>5
  <2> QED BY <2>4, <2>7, <2>8
<1> QED BY <1>5, <1>6

\* Nothing is recorded about a tag at first.
LEMMA TagsStart == ASSUME TagInit PROVE TagInv
<1>1. NoClaim \in 0..NoClaim /\ 0 \in 0..MaxReviews /\ 0 <= MaxReviews /\ 0 <= MaxRuns
  BY TagBounds DEF NoClaim
<1>2. manuals = <<>> /\ analyses = <<>> /\ decisions = {} /\ manualRevision = 0 /\ claim = NoClaim
  BY DEF TagInit
<1>3. TagTypeOK
  BY <1>1, <1>2 DEF TagTypeOK
<1>4. ReviewsInOrder /\ ReviewsHaveRows /\ RowsOfRuns
  BY <1>1, <1>2 DEF ReviewsInOrder, ReviewsHaveRows, RowsOfRuns
<1> QED BY <1>3, <1>4 DEF TagInv

\* A review keeps the records of tags in order.
LEMMA ReviewKeepsTags ==
    ASSUME TagInv, NEW t \in Tags, NEW action \in {"accepted", "rejected"}, ReviewTag(t, action)
    PROVE TagInv'
<1>1. PICK now \in 1..MaxInstant :
         /\ Len(manuals) < MaxReviews
         /\ manuals' = Append(manuals, [tag |-> t, action |-> action, at |-> MonotonicInstant(now)])
         /\ manualRevision' = manualRevision + 1
         /\ decisions' = decisions \cup {[tag |-> t, status |-> action, manual |-> TRUE,
                                         at |-> MonotonicInstant(now), run |-> 0]}
         /\ UNCHANGED <<analyses, claim>>
  BY DEF ReviewTag
<1>2. TagTypeOK /\ ReviewsInOrder /\ ReviewsHaveRows /\ RowsOfRuns
  BY DEF TagInv
<1>3. PICK at : at = MonotonicInstant(now)
  OBVIOUS
<1>4. PICK n \in Nat : n = Len(manuals) /\ DOMAIN manuals = 1..n
  BY <1>2, Reviews
<1>5. at \in 1..(MaxInstant + n + 1) /\ \A i \in DOMAIN manuals : manuals[i].at < at
  BY <1>2, <1>3, <1>4, ReviewedLater
<1>6. at \in Instants
  BY <1>1, <1>4, <1>5, TagBounds DEF Instants
<1> DEFINE review == [tag |-> t, action |-> action, at |-> at]
           reviews == [tag : Tags, action : {"accepted", "rejected"}, at : Instants]
           row == [tag |-> t, status |-> action, manual |-> TRUE, at |-> at, run |-> 0]
           tagRows == [tag : Tags, status : Statuses, manual : BOOLEAN, at : Instants, run : 0..MaxRuns]
<1>7. review \in reviews /\ review.tag = t /\ review.at = at /\ review.action = action
  BY <1>6
<1>8. row \in tagRows /\ row.tag = t /\ row.at = at /\ row.status = action /\ row.manual = TRUE /\ row.run = 0
  BY <1>6, TagBounds DEF Statuses
<1>9. manuals \in Seq(reviews) /\ decisions \subseteq tagRows
  BY <1>2 DEF TagTypeOK
<1>10. manuals' = Append(manuals, review) /\ decisions' = decisions \cup {row}
  BY <1>1, <1>3
<1> HIDE DEF review, reviews, row, tagRows
<1>11. /\ manuals' \in Seq(reviews) /\ Len(manuals') = n + 1 /\ DOMAIN manuals' = 1..(n + 1)
       /\ \A i \in 1..n : manuals'[i] = manuals[i]
       /\ manuals'[n + 1] = review
  BY <1>4, <1>7, <1>9, <1>10
<1>12. decisions' \subseteq tagRows
  BY <1>8, <1>9, <1>10
<1>13. TagTypeOK'
  <2>1. manualRevision' \in 0..MaxReviews
    BY <1>1, <1>2, <1>4, TagBounds DEF ReviewsInOrder
  <2>2. analyses' \in Seq(Instants) /\ claim' \in 0..NoClaim
    BY <1>1, <1>2 DEF TagTypeOK
  <2> QED BY <2>1, <2>2, <1>11, <1>12 DEF TagTypeOK, reviews, tagRows
<1>14. ReviewsInOrder'
  <2>1. \A i \in DOMAIN manuals' : manuals'[i].at <= MaxInstant + i
    <3>1. \A i \in 1..n : manuals'[i].at <= MaxInstant + i
      BY <1>2, <1>4, <1>11 DEF ReviewsInOrder
    <3>2. manuals'[n + 1].at <= MaxInstant + (n + 1)
      BY <1>5, <1>7, <1>11, TagBounds
    <3> QED BY <3>1, <3>2, <1>11
  <2>2. \A i, j \in DOMAIN manuals' : i < j => manuals'[i].at < manuals'[j].at
    <3> SUFFICES ASSUME NEW i \in 1..(n + 1), NEW j \in 1..(n + 1), i < j
                 PROVE manuals'[i].at < manuals'[j].at
      BY <1>11
    <3>1. CASE j = n + 1
      BY <3>1, <1>4, <1>5, <1>7, <1>11
    <3>2. CASE j # n + 1
      BY <3>2, <1>2, <1>4, <1>11 DEF ReviewsInOrder
    <3> QED BY <3>1, <3>2
  <2>3. manualRevision' = Len(manuals') /\ Len(manuals') <= MaxReviews
    BY <1>1, <1>2, <1>4, <1>11, TagBounds DEF ReviewsInOrder
  <2> QED BY <2>1, <2>2, <2>3 DEF ReviewsInOrder
<1>15. ReviewsHaveRows'
  <2>1. ASSUME NEW i \in DOMAIN manuals'
        PROVE \E d \in decisions' : d.manual = TRUE /\ d.tag = manuals'[i].tag /\ d.at = manuals'[i].at
    <3>1. CASE i = n + 1
      BY <3>1, <1>7, <1>8, <1>10, <1>11
    <3>2. CASE i # n + 1
      <4>1. i \in DOMAIN manuals /\ manuals'[i] = manuals[i]
        BY <2>1, <3>2, <1>4, <1>11
      <4> QED BY <4>1, <1>2, <1>10 DEF ReviewsHaveRows
    <3> QED BY <3>1, <3>2
  <2>2. ASSUME NEW d \in decisions', d.manual = TRUE
        PROVE \E i \in DOMAIN manuals' :
                 manuals'[i].tag = d.tag /\ manuals'[i].at = d.at /\ manuals'[i].action = d.status
    <3>1. CASE d = row
      BY <3>1, <1>7, <1>8, <1>11
    <3>2. CASE d \in decisions
      <4>1. PICK i \in DOMAIN manuals :
              manuals[i].tag = d.tag /\ manuals[i].at = d.at /\ manuals[i].action = d.status
        BY <2>2, <3>2, <1>2 DEF ReviewsHaveRows
      <4>2. i \in DOMAIN manuals' /\ manuals'[i] = manuals[i]
        BY <1>4, <1>11
      <4> QED BY <4>1, <4>2
    <3> QED BY <2>2, <3>1, <3>2, <1>10
  <2> QED BY <2>1, <2>2 DEF ReviewsHaveRows
<1>16. RowsOfRuns'
  <2>1. analyses' = analyses /\ claim' = claim /\ Len(analyses) \in Nat
    BY <1>1, <1>2 DEF TagTypeOK
  <2>2. \A d \in decisions' : d.run <= Len(analyses)
    BY <2>1, <1>2, <1>8, <1>10 DEF RowsOfRuns
  <2>3. \A d \in decisions' : d.manual = FALSE => d.at <= MaxInstant + Len(analyses)
    BY <1>2, <1>8, <1>10 DEF RowsOfRuns
  <2> QED BY <2>1, <2>2, <2>3, <1>2 DEF RowsOfRuns
<1> QED BY <1>13, <1>14, <1>15, <1>16 DEF TagInv

\* The rows an adoption adds: those of its suggestions and those it withdraws.
AddedRows(R, at, run) ==
    /\ \A d \in R : d.run = run /\ d.tag \in Tags /\ d.manual \in BOOLEAN
    /\ \A d \in R : d.manual = TRUE =>
          \E i \in DOMAIN manuals : /\ manuals[i].tag = d.tag /\ manuals[i].at = d.at
                                   /\ manuals[i].action = d.status
    /\ \A d \in R : d.manual = FALSE => d.at = at /\ d.status \in Statuses /\ ManualOf(d.tag) = {}

\* Both kinds of rows of an adoption are as they should be.
LEMMA RowsAdded ==
    ASSUME TagInv, NEW S \in SUBSET Tags, NEW judged \in [S -> Judgements], NEW at, NEW run
    PROVE /\ AddedRows(UNION {Resolved(t, judged[t], at, run) : t \in S}, at, run)
          /\ \A fresh : AddedRows(Withdrawn(fresh, at, run), at, run)
<1>1. Judgements \subseteq Statuses
  BY DEF Judgements, Judged, Statuses
<1>2. ASSUME NEW d \in UNION {Resolved(t, judged[t], at, run) : t \in S}
      PROVE /\ d.run = run /\ d.tag \in Tags /\ d.manual \in BOOLEAN
            /\ d.manual = TRUE =>
                  \E i \in DOMAIN manuals : /\ manuals[i].tag = d.tag /\ manuals[i].at = d.at
                                           /\ manuals[i].action = d.status
            /\ d.manual = FALSE => d.at = at /\ d.status \in Statuses /\ ManualOf(d.tag) = {}
  <2>1. PICK t \in S : d \in Resolved(t, judged[t], at, run)
    OBVIOUS
  <2>2. t \in Tags /\ judged[t] \in Judgements
    OBVIOUS
  <2>3. CASE ManualOf(t) = {}
    <3>1. d = [tag |-> t, status |-> judged[t], manual |-> FALSE, at |-> at, run |-> run]
      BY <2>1, <2>3 DEF Resolved
    <3> QED BY <1>1, <2>2, <2>3, <3>1
  <2>4. CASE ManualOf(t) # {}
    <3>1. PICK m \in ManualOf(t) :
             d = [tag |-> t, status |-> m.action, manual |-> TRUE, at |-> m.at, run |-> run]
      BY <2>1, <2>4 DEF Resolved
    <3>2. PICK i \in DOMAIN manuals : manuals[i].tag = t /\ m = manuals[i]
      BY DEF ManualOf, Newest
    <3> QED BY <2>2, <3>1, <3>2
  <2> QED BY <2>3, <2>4
<1>3. ASSUME NEW fresh, NEW d \in Withdrawn(fresh, at, run)
      PROVE /\ d.run = run /\ d.tag \in Tags /\ d.manual = FALSE
            /\ d.at = at /\ d.status \in Statuses /\ ManualOf(d.tag) = {}
  BY DEF Withdrawn, Statuses
<1> QED BY <1>2, <1>3 DEF AddedRows

\* Taking up or dropping a claim keeps the records of tags in order.
LEMMA ClaimKeepsTags ==
    ASSUME TagInv, ClaimRun \/ AbandonRun PROVE TagInv'
<1>1. /\ UNCHANGED <<manuals, manualRevision, decisions, analyses>>
      /\ \/ claim' = manualRevision /\ Len(analyses) < MaxRuns
         \/ claim' = NoClaim
  BY DEF ClaimRun, AbandonRun
<1>2. claim' \in 0..NoClaim /\ (claim' # NoClaim => Len(analyses) < MaxRuns)
  BY <1>1, TagBounds DEF TagInv, TagTypeOK, NoClaim
<1>3. TagTypeOK'
  BY <1>1, <1>2 DEF TagInv, TagTypeOK
<1>4. ReviewsInOrder'
  BY <1>1 DEF TagInv, ReviewsInOrder
<1>5. ReviewsHaveRows'
  BY <1>1 DEF TagInv, ReviewsHaveRows
<1>6. RowsOfRuns'
  BY <1>1, <1>2 DEF TagInv, RowsOfRuns
<1> QED BY <1>3, <1>4, <1>5, <1>6 DEF TagInv

\* An adoption, with its instant and its rows.
AdoptsAs(checked, at, S, judged, new) ==
    LET run == Len(analyses) + 1
        fresh == UNION {Resolved(t, judged[t], at, run) : t \in S}
    IN  /\ at \in 1..(MaxInstant + Len(analyses) + 1)
        /\ checked => \A d \in decisions : d.manual = FALSE => d.at < at
        /\ checked \/ S = {}
        /\ new = fresh \cup (IF checked THEN Withdrawn(fresh, at, run) ELSE {})

\* Every adoption has an instant and rows as above.
LEMMA Adopting ==
    ASSUME TagInv, NEW checked \in BOOLEAN, AdoptAnalysis(checked)
    PROVE \E S \in SUBSET Tags : \E judged \in [S -> Judgements] : \E at, new :
             /\ AdoptsAs(checked, at, S, judged, new)
             /\ claim = manualRevision
             /\ analyses' = Append(analyses, at) /\ decisions' = decisions \cup new
             /\ claim' = NoClaim /\ UNCHANGED <<manuals, manualRevision>>
<1> DEFINE AtOf(now) == IF checked THEN AdoptionInstant(now) ELSE now
           Fresh(S, judged, at) == UNION {Resolved(t, judged[t], at, Len(analyses) + 1) : t \in S}
           New(S, judged, at) == Fresh(S, judged, at) \cup
               (IF checked THEN Withdrawn(Fresh(S, judged, at), at, Len(analyses) + 1) ELSE {})
<1>1. \E now \in 1..MaxInstant, S \in SUBSET Tags : \E judged \in [S -> Judgements] :
         LET run == Len(analyses) + 1
             at == IF checked THEN AdoptionInstant(now) ELSE now
             fresh == UNION {Resolved(t, judged[t], at, run) : t \in S}
         IN  /\ claim = manualRevision
             /\ checked \/ S = {}
             /\ analyses' = Append(analyses, at)
             /\ decisions' = decisions \cup fresh \cup (IF checked THEN Withdrawn(fresh, at, run) ELSE {})
             /\ claim' = NoClaim
             /\ UNCHANGED <<manuals, manualRevision>>
  BY Zenon DEF AdoptAnalysis
<1>2. PICK now \in 1..MaxInstant, S \in SUBSET Tags : \E judged \in [S -> Judgements] :
         /\ claim = manualRevision /\ (checked \/ S = {})
         /\ analyses' = Append(analyses, AtOf(now))
         /\ decisions' = decisions \cup Fresh(S, judged, AtOf(now)) \cup
               (IF checked THEN Withdrawn(Fresh(S, judged, AtOf(now)), AtOf(now), Len(analyses) + 1) ELSE {})
         /\ claim' = NoClaim /\ UNCHANGED <<manuals, manualRevision>>
  BY <1>1, Zenon
<1>3. PICK judged \in [S -> Judgements] :
         /\ claim = manualRevision /\ (checked \/ S = {})
         /\ analyses' = Append(analyses, AtOf(now))
         /\ decisions' = decisions \cup Fresh(S, judged, AtOf(now)) \cup
               (IF checked THEN Withdrawn(Fresh(S, judged, AtOf(now)), AtOf(now), Len(analyses) + 1) ELSE {})
         /\ claim' = NoClaim /\ UNCHANGED <<manuals, manualRevision>>
  BY <1>2, Zenon
<1>4. Len(analyses) \in Nat
  BY DEF TagInv, TagTypeOK
<1>5. /\ AtOf(now) \in 1..(MaxInstant + Len(analyses) + 1)
      /\ checked => \A d \in decisions : d.manual = FALSE => d.at < AtOf(now)
  <2>1. CASE checked
    BY <2>1, AdoptedLater
  <2>2. CASE ~checked
    BY <2>2, <1>4, TagBounds
  <2> QED BY <2>1, <2>2
<1>6. AdoptsAs(checked, AtOf(now), S, judged, New(S, judged, AtOf(now)))
  BY <1>3, <1>5 DEF AdoptsAs
<1>7. PICK at, new : /\ at = AtOf(now) /\ new = New(S, judged, AtOf(now))
  OBVIOUS
<1>8. /\ AdoptsAs(checked, at, S, judged, new)
      /\ claim = manualRevision
      /\ analyses' = Append(analyses, at) /\ decisions' = decisions \cup new
      /\ claim' = NoClaim /\ UNCHANGED <<manuals, manualRevision>>
  BY <1>3, <1>6, <1>7
<1> HIDE DEF AtOf, New, Fresh
<1> QED BY <1>8

\* The rows of an adoption are rows of its run, restating reviews or judging tags nobody
\* reviewed.
LEMMA AdoptedRows ==
    ASSUME TagInv, NEW checked \in BOOLEAN, NEW S \in SUBSET Tags, NEW judged \in [S -> Judgements],
           NEW at, NEW new, AdoptsAs(checked, at, S, judged, new)
    PROVE AddedRows(new, at, Len(analyses) + 1)
<1> DEFINE run == Len(analyses) + 1
           fresh == UNION {Resolved(t, judged[t], at, run) : t \in S}
<1>1. AddedRows(fresh, at, run) /\ AddedRows(Withdrawn(fresh, at, run), at, run)
  BY RowsAdded
<1>2. new \subseteq fresh \cup Withdrawn(fresh, at, run)
  BY DEF AdoptsAs
<1> HIDE DEF fresh
<1> QED BY <1>1, <1>2 DEF AddedRows

\* An adoption keeps the records of tags in order.
LEMMA AdoptionKeepsTags ==
    ASSUME TagInv, NEW checked \in BOOLEAN, AdoptAnalysis(checked)
    PROVE TagInv'
<1>1. PICK S \in SUBSET Tags : \E judged \in [S -> Judgements] : \E at, new :
             /\ AdoptsAs(checked, at, S, judged, new)
             /\ claim = manualRevision
             /\ analyses' = Append(analyses, at) /\ decisions' = decisions \cup new
             /\ claim' = NoClaim /\ UNCHANGED <<manuals, manualRevision>>
  BY Adopting
<1>2. PICK judged \in [S -> Judgements] : \E at, new :
             /\ AdoptsAs(checked, at, S, judged, new)
             /\ claim = manualRevision
             /\ analyses' = Append(analyses, at) /\ decisions' = decisions \cup new
             /\ claim' = NoClaim /\ UNCHANGED <<manuals, manualRevision>>
  BY <1>1
<1>3. PICK at, new :
             /\ AdoptsAs(checked, at, S, judged, new)
             /\ claim = manualRevision
             /\ analyses' = Append(analyses, at) /\ decisions' = decisions \cup new
             /\ claim' = NoClaim /\ UNCHANGED <<manuals, manualRevision>>
  BY <1>2
<1>4. TagTypeOK /\ ReviewsInOrder /\ ReviewsHaveRows /\ RowsOfRuns
  BY DEF TagInv
<1>5. PICK n \in Nat : n = Len(analyses)
  BY <1>4 DEF TagTypeOK
<1>6. n < MaxRuns
  BY <1>3, <1>4, <1>5, TagBounds DEF RowsOfRuns, ReviewsInOrder, NoClaim, TagTypeOK
<1>7. AddedRows(new, at, n + 1)
  BY <1>3, <1>5, AdoptedRows
<1>8. at \in 1..(MaxInstant + n + 1)
  BY <1>3, <1>5 DEF AdoptsAs
<1>9. at \in Instants /\ n + 1 \in 0..MaxRuns
  BY <1>6, <1>8, TagBounds DEF Instants
<1>10. /\ \A i \in DOMAIN manuals : /\ manuals[i].at \in Instants /\ manuals[i].tag \in Tags
                                 /\ manuals[i].action \in Statuses
  BY <1>4, Reviews DEF Statuses
<1>11. analyses' \in Seq(Instants) /\ Len(analyses') = n + 1 /\ DOMAIN analyses' = 1..(n + 1)
       /\ \A i \in 1..(n + 1) : analyses'[i] = IF i = n + 1 THEN at ELSE analyses[i]
  <2>1. analyses \in Seq(Instants)
    BY <1>4 DEF TagTypeOK
  <2> QED BY <2>1, <1>3, <1>5, <1>9
<1>12. TagTypeOK'
  <2> DEFINE tagRows == [tag : Tags, status : Statuses, manual : BOOLEAN, at : Instants, run : 0..MaxRuns]
  <2>1. new \subseteq tagRows
    <3>1. \A d \in new : /\ d.tag \in Tags /\ d.manual \in BOOLEAN /\ d.run \in 0..MaxRuns
                         /\ d.status \in Statuses /\ d.at \in Instants
      BY <1>7, <1>9, <1>10 DEF AddedRows
    <3>2. \A d \in new : d = [tag |-> d.tag, status |-> d.status, manual |-> d.manual, at |-> d.at, run |-> d.run]
      BY <1>3 DEF AdoptsAs, Resolved, Withdrawn
    <3>3. \A d \in new : [tag |-> d.tag, status |-> d.status, manual |-> d.manual, at |-> d.at, run |-> d.run]
                          \in tagRows
      BY <3>1
    <3> HIDE DEF tagRows
    <3> QED BY <3>2, <3>3
  <2>2. decisions' \subseteq tagRows
    <3>1. decisions \subseteq tagRows
      BY <1>4 DEF TagTypeOK
    <3> HIDE DEF tagRows
    <3> QED BY <2>1, <3>1, <1>3
  <2>3. claim' \in 0..NoClaim
    BY <1>3, TagBounds DEF NoClaim
  <2> QED BY <2>2, <2>3, <1>3, <1>4, <1>11 DEF TagTypeOK
<1>13. ReviewsInOrder'
  BY <1>3, <1>4 DEF ReviewsInOrder
<1>14. ReviewsHaveRows'
  <2>1. manuals' = manuals /\ decisions' = decisions \cup new
    BY <1>3
  <2>2. \A d \in new : d.manual = TRUE =>
          \E i \in DOMAIN manuals : manuals[i].tag = d.tag /\ manuals[i].at = d.at /\ manuals[i].action = d.status
    BY <1>7 DEF AddedRows
  <2>3. \A i \in DOMAIN manuals :
          \E d \in decisions' : d.manual = TRUE /\ d.tag = manuals[i].tag /\ d.at = manuals[i].at
    BY <2>1, <1>4 DEF ReviewsHaveRows
  <2>4. \A d \in decisions' : d.manual = TRUE =>
          \E i \in DOMAIN manuals : manuals[i].tag = d.tag /\ manuals[i].at = d.at /\ manuals[i].action = d.status
    BY <2>1, <2>2, <1>4 DEF ReviewsHaveRows
  <2> QED BY <2>1, <2>3, <2>4 DEF ReviewsHaveRows
<1>15. RowsOfRuns'
  <2>1. \A d \in decisions : d.run \in Nat /\ d.at \in Nat
    <3>1. \A d \in decisions : d.run \in 0..MaxRuns /\ d.at \in Instants
      BY <1>4 DEF TagTypeOK
    <3> QED BY <3>1, TagBounds DEF Instants
  <2>2. \A d \in decisions' : d.run <= n + 1
    BY <1>3, <1>4, <1>5, <1>7, <2>1 DEF RowsOfRuns, AddedRows
  <2>3. \A d \in decisions' : d.manual = FALSE => d.at <= MaxInstant + (n + 1)
    <3>1. \A d \in decisions : d.manual = FALSE => d.at <= MaxInstant + n
      BY <1>4, <1>5 DEF RowsOfRuns
    <3>2. \A d \in new : d.manual = FALSE => d.at = at
      BY <1>7 DEF AddedRows
    <3> QED BY <3>1, <3>2, <2>1, <1>3, <1>8, TagBounds
  <2>4. \A i \in 1..(n + 1) : analyses'[i] <= MaxInstant + (n + 1)
    <3> TAKE i \in 1..(n + 1)
    <3>1. CASE i = n + 1
      BY <3>1, <1>8, <1>11, TagBounds
    <3>2. CASE i # n + 1
      <4>1. i \in DOMAIN analyses /\ analyses'[i] = analyses[i]
        BY <3>2, <1>4, <1>5, <1>11 DEF TagTypeOK
      <4>2. analyses[i] \in Instants /\ analyses[i] <= MaxInstant + n
        BY <4>1, <1>4, <1>5 DEF RowsOfRuns, TagTypeOK
      <4> QED BY <4>1, <4>2, TagBounds DEF Instants
    <3> QED BY <3>1, <3>2
  <2> QED BY <2>2, <2>3, <2>4, <1>3, <1>6, <1>11, TagBounds DEF RowsOfRuns
<1> QED BY <1>12, <1>13, <1>14, <1>15 DEF TagInv

\* Every step of the tags keeps their records in order.
LEMMA TagStepKeeps == ASSUME TagInv, [TagNext]_tagVars PROVE TagInv'
<1>1. CASE \E t \in Tags, action \in {"accepted", "rejected"} : ReviewTag(t, action)
  BY <1>1, ReviewKeepsTags
<1>2. CASE ClaimRun \/ AbandonRun
  BY <1>2, ClaimKeepsTags
<1>3. CASE \E checked \in BOOLEAN : AdoptAnalysis(checked)
  BY <1>3, AdoptionKeepsTags
<1>4. CASE UNCHANGED tagVars
  BY <1>4 DEF tagVars, TagInv, TagTypeOK, ReviewsInOrder, ReviewsHaveRows, RowsOfRuns
<1> QED BY <1>1, <1>2, <1>3, <1>4 DEF TagNext

\* For a tag nobody reviewed, the rows that count are all its rows.
LEMMA UnreviewedCurrent ==
    ASSUME NEW R, NEW t, \A d \in R : d.tag = t => d.manual = FALSE
    PROVE Current(R, t) = Newest({d \in R : d.tag = t})
<1>1. {d \in {e \in R : e.tag = t} : d.manual} = {}
  OBVIOUS
<1> QED BY <1>1 DEF Current

\* One row of a checked run for a tag, or none.
OneOrNone(checked, at, new, t) ==
    \/ \E row \in new : /\ row.tag = t /\ row.at = at /\ row.run = Len(analyses) + 1
                        /\ checked = TRUE /\ \A d \in new : d.tag = t => d = row
    \/ /\ \A d \in new : d.tag # t
       /\ checked = TRUE => \A d \in Current(decisions, t) : ~Effective(d)

\* What an adoption adds for a tag nobody reviewed: one row, or none when the tag was
\* neither suggested nor, for a checked run, in effect.
LEMMA RowsOfTag ==
    ASSUME TagInv, NEW checked \in BOOLEAN, NEW S \in SUBSET Tags, NEW judged \in [S -> Judgements],
           NEW at, NEW new, AdoptsAs(checked, at, S, judged, new),
           NEW t \in Tags, ManualOf(t) = {}
    PROVE OneOrNone(checked, at, new, t)
<1> DEFINE run == Len(analyses) + 1
           fresh == UNION {Resolved(u, judged[u], at, run) : u \in S}
           row(status) == [tag |-> t, status |-> status, manual |-> FALSE, at |-> at, run |-> run]
<1>1. /\ checked \/ S = {}
      /\ new = fresh \cup (IF checked THEN Withdrawn(fresh, at, run) ELSE {})
  BY DEF AdoptsAs
<1>2. ASSUME NEW u \in S, NEW d \in Resolved(u, judged[u], at, run) PROVE d.tag = u
  BY DEF Resolved
<1>3. \A d \in fresh : d.tag = t => t \in S /\ d \in Resolved(t, judged[t], at, run)
  BY <1>2
<1>4. Resolved(t, judged[t], at, run) = {row(judged[t])}
  BY DEF Resolved
<1>5. CASE ~checked
  <2>1. new = {}
    BY <1>1, <1>5
  <2> QED BY <2>1, <1>5 DEF OneOrNone
<1>6. CASE checked /\ t \in S
  <2>1. row(judged[t]) \in fresh
    BY <1>4, <1>6
  <2>2. \A d \in Withdrawn(fresh, at, run) : d.tag # t
    <3> HIDE DEF fresh
    <3> QED BY <2>1 DEF Withdrawn
  <2>3. row(judged[t]) \in new
    BY <1>1, <2>1
  <2>4. \A d \in new : d.tag = t => d = row(judged[t])
    <3> HIDE DEF fresh, row
    <3> QED BY <1>1, <1>3, <1>4, <2>2
  <2> QED BY <1>6, <2>3, <2>4 DEF OneOrNone
<1>7. CASE checked /\ t \notin S
  <2>1. \A d \in fresh : d.tag # t
    BY <1>3, <1>7
  <2>2. CASE \E d \in Current(decisions, t) : Effective(d)
    <3>1. row("needs_review") \in Withdrawn(fresh, at, run)
      <4> HIDE DEF fresh
      <4> QED BY <2>1, <2>2 DEF Withdrawn
    <3>2. \A d \in Withdrawn(fresh, at, run) : d.tag = t => d = row("needs_review")
      <4> HIDE DEF fresh
      <4> QED BY DEF Withdrawn
    <3>3. row("needs_review") \in new /\ \A d \in new : d.tag = t => d = row("needs_review")
      <4> HIDE DEF fresh, row
      <4> QED BY <1>1, <1>7, <2>1, <3>1, <3>2
    <3> QED BY <1>7, <3>3 DEF OneOrNone
  <2>3. CASE \A d \in Current(decisions, t) : ~Effective(d)
    <3>1. \A d \in Withdrawn(fresh, at, run) : d.tag # t
      <4> HIDE DEF fresh
      <4> QED BY <2>3 DEF Withdrawn
    <3>2. \A d \in new : d.tag # t
      <4> HIDE DEF fresh
      <4> QED BY <1>1, <2>1, <3>1
    <3> QED BY <2>3, <3>2 DEF OneOrNone
  <2> QED BY <2>2, <2>3
<1> QED BY <1>5, <1>6, <1>7

\* What a step may do to the tags nobody reviewed.
LEMMA TagStepGoverns ==
    ASSUME TagInv, [TagNext]_tagVars
    PROVE analyses' # analyses =>
          \A t \in {u \in Tags : ManualOf(u) = {}} :
              LET adopted == \E d \in decisions' : d.run = Len(analyses') /\ d.tag = t /\ Effective(d)
                  checked == \E d \in decisions' : d.run = Len(analyses')
              IN  /\ checked => \A d \in Current(decisions', t) : Effective(d) <=> adopted
                  /\ ~checked => Current(decisions', t) = Current(decisions, t)
<1> SUFFICES ASSUME analyses' # analyses, NEW t \in Tags, ManualOf(t) = {}
             PROVE LET adopted == \E d \in decisions' : d.run = Len(analyses') /\ d.tag = t /\ Effective(d)
                       checked == \E d \in decisions' : d.run = Len(analyses')
                   IN  /\ checked => \A d \in Current(decisions', t) : Effective(d) <=> adopted
                       /\ ~checked => Current(decisions', t) = Current(decisions, t)
  OBVIOUS
<1>1. PICK checked \in BOOLEAN : AdoptAnalysis(checked)
  BY DEF TagNext, ReviewTag, ClaimRun, AbandonRun, tagVars
<1>2. PICK S \in SUBSET Tags : \E judged \in [S -> Judgements] : \E at, new :
             /\ AdoptsAs(checked, at, S, judged, new)
             /\ analyses' = Append(analyses, at) /\ decisions' = decisions \cup new
  BY <1>1, Adopting
<1>3. PICK judged \in [S -> Judgements] : \E at, new :
             /\ AdoptsAs(checked, at, S, judged, new)
             /\ analyses' = Append(analyses, at) /\ decisions' = decisions \cup new
  BY <1>2
<1>4. PICK at, new :
             /\ AdoptsAs(checked, at, S, judged, new)
             /\ analyses' = Append(analyses, at) /\ decisions' = decisions \cup new
  BY <1>3
<1>5. PICK R : R = decisions' /\ R = decisions \cup new
  BY <1>4
<1>6. PICK n \in Nat : n = Len(analyses) /\ Len(analyses') = n + 1
  BY <1>4 DEF TagInv, TagTypeOK
<1>7. AddedRows(new, at, n + 1)
  BY <1>4, <1>6, AdoptedRows
<1>8. \A d \in decisions : d.run \in Nat /\ d.run <= n /\ d.manual \in BOOLEAN /\ d.at \in Nat
  <2>1. \A d \in decisions : d.run \in 0..MaxRuns /\ d.at \in Instants /\ d.manual \in BOOLEAN
    BY DEF TagInv, TagTypeOK
  <2> QED BY <2>1, <1>6, TagBounds DEF Instants, TagInv, RowsOfRuns
<1>9. \A i \in DOMAIN manuals : manuals[i].tag # t
  BY NeverReviewed DEF TagInv
<1>10. \A d \in R : d.tag = t => d.manual = FALSE
  BY <1>5, <1>7, <1>8, <1>9 DEF TagInv, ReviewsHaveRows, AddedRows
<1>11. /\ Current(R, t) = Newest({d \in R : d.tag = t})
       /\ Current(decisions, t) = Newest({d \in decisions : d.tag = t})
  BY <1>5, <1>10, UnreviewedCurrent
<1>12. CASE \E row \in new : /\ row.tag = t /\ row.at = at /\ row.run = n + 1
                            /\ checked = TRUE /\ \A d \in new : d.tag = t => d = row
  <2>1. PICK row \in new : /\ row.tag = t /\ row.at = at /\ row.run = n + 1
                          /\ checked = TRUE /\ \A d \in new : d.tag = t => d = row
    BY <1>12
  <2>2. at \in Nat /\ \A d \in decisions : d.tag = t => d.at < at
    <3>1. /\ at \in 1..(MaxInstant + n + 1)
          /\ \A d \in decisions : d.manual = FALSE => d.at < at
      BY <2>1, <1>4, <1>6 DEF AdoptsAs
    <3> QED BY <3>1, <1>5, <1>10, TagBounds
  <2>3. Newest({d \in R : d.tag = t}) = {row}
    BY <2>1, <2>2, <1>5, <1>8 DEF Newest
  <2>4. (\E d \in R : d.run = n + 1 /\ d.tag = t /\ Effective(d)) <=> Effective(row)
    BY <2>1, <1>5, <1>8
  <2>5. \E d \in R : d.run = n + 1
    BY <2>1, <1>5
  <2> QED BY <2>3, <2>4, <2>5, <1>5, <1>6, <1>11
<1>13. CASE /\ \A d \in new : d.tag # t
            /\ checked = TRUE => \A d \in Current(decisions, t) : ~Effective(d)
  <2>1. {d \in R : d.tag = t} = {d \in decisions : d.tag = t}
    BY <1>5, <1>13
  <2>2. Current(R, t) = Current(decisions, t)
    BY <2>1, <1>11
  <2>3. ~ \E d \in R : d.run = n + 1 /\ d.tag = t /\ Effective(d)
    BY <1>5, <1>8, <1>13
  <2>4. (\E d \in R : d.run = n + 1) => checked
    <3>1. ~checked => new = {}
      BY <1>4 DEF AdoptsAs
    <3> QED BY <3>1, <1>5, <1>8
  <2> QED BY <2>2, <2>3, <2>4, <1>5, <1>6, <1>13
<1>14. OneOrNone(checked, at, new, t)
  BY <1>4, RowsOfTag
<1> QED BY <1>6, <1>12, <1>13, <1>14 DEF OneOrNone

-----------------------------------------------------------------------------
(* The records of how problems were finished                               *)

Ordered(h) ==
    /\ \A i, j \in DOMAIN h : i < j => h[i].at < h[j].at
    /\ \A i \in DOMAIN h : h[i].mode = "independent" => h[i].solutions = {}

\* A clock that repeats moves an instant by one for each record before it at most.
Paced(h) == \A i \in DOMAIN h : h[i].at < MaxReading + i

HistoriesPaced == \A p \in Solved : Paced(past[p])

\* A preview intends a mode.
PreviewsIntend ==
    /\ open = [e \in Editors |-> open[e]]
    /\ \A e \in Editors : open[e].kind = "preview" => open[e].mode \in Modes

CompletionInv == CompletionTypeOK /\ HistoryOrdered /\ HistoriesPaced /\ PreviewsIntend

\* A record, field by field.
LEMMA RecordFields ==
    ASSUME NEW r \in Records
    PROVE  /\ r.mode \in Modes /\ r.skills \subseteq Skills /\ r.solutions \subseteq Consulted
           /\ r.at \in Nat /\ r.at >= 1
  BY CompletionAssumption DEF Records, Readings

\* Of an ordered history the record appended last is the latest.
LEMMA LatestIsLast ==
    ASSUME NEW h \in Seq(Records), h # <<>>, Ordered(h)
    PROVE  LET S == {h[i] : i \in DOMAIN h}
           IN  (CHOOSE r \in S : \A q \in S : q.at <= r.at) = h[Len(h)]
<1>. DEFINE S == {h[i] : i \in DOMAIN h}
<1>1. PICK n \in Nat : n = Len(h)
  OBVIOUS
<1>2. DOMAIN h = 1 .. n /\ n \in 1 .. n /\ \A i \in 1 .. n : h[i] \in Records
  BY <1>1
<1>3. h[n] \in S /\ \A i \in 1 .. n : h[i].at \in Nat
  BY <1>2, RecordFields
<1>4. ASSUME NEW i \in 1 .. n, i # n PROVE h[i].at < h[n].at
  <2>1. i < n
    BY <1>4
  <2>. QED
    BY <1>2, <2>1 DEF Ordered
<1>5. \A q \in S : q.at <= h[n].at
  <2>1. ASSUME NEW i \in 1 .. n PROVE h[i].at <= h[n].at
    <3>1. CASE i = n
      BY <1>2, <1>3, <3>1
    <3>2. CASE i # n
      <4>1. h[i].at < h[n].at
        BY <1>4, <3>2
      <4>. QED
        BY <1>2, <1>3, <4>1
    <3>. QED
      BY <3>1, <3>2
  <2>. QED
    BY <1>2, <2>1
<1>6. ASSUME NEW r \in S, \A q \in S : q.at <= r.at PROVE r = h[n]
  <2>1. PICK i \in 1 .. n : r = h[i]
    BY <1>2
  <2>2. h[n].at <= h[i].at /\ h[n].at \in Nat /\ h[i].at \in Nat
    BY <1>2, <1>3, <1>6, <2>1
  <2>3. i = n
    BY <1>4, <2>2
  <2>. QED
    BY <2>1, <2>3
<1>. HIDE DEF S
<1>7. (CHOOSE r \in S : \A q \in S : q.at <= r.at) = h[n]
  BY <1>3, <1>5, <1>6
<1>. QED
  BY <1>1, <1>7 DEF S

\* The latest record of a problem: none yet, or the one appended last.
LEMMA LatestOf ==
    ASSUME CompletionInv, NEW p \in Solved
    PROVE  /\ past[p] \in Seq(Records) /\ Ordered(past[p]) /\ Paced(past[p])
           /\ past[p] = <<>> => Latest(p) = NoRecord
           /\ past[p] # <<>> => Latest(p) = past[p][Len(past[p])] /\ Latest(p) \in Records
<1>1. past[p] \in Seq(Records) /\ Ordered(past[p]) /\ Paced(past[p])
  BY DEF CompletionInv, CompletionTypeOK, HistoryOrdered, HistoriesPaced, Ordered
<1>2. PICK h \in Seq(Records) : h = past[p]
  BY <1>1
<1>3. ASSUME h # <<>> PROVE Latest(p) = h[Len(h)] /\ h[Len(h)] \in Records
  <2>1. Ordered(h)
    BY <1>1, <1>2
  <2>2. Latest(p) = LET S == {h[i] : i \in DOMAIN h} IN CHOOSE r \in S : \A q \in S : q.at <= r.at
    BY <1>2, <1>3 DEF Latest
  <2>3. h[Len(h)] \in Records
    BY <1>3
  <2>. QED
    BY <1>3, <2>1, <2>2, <2>3, LatestIsLast
<1>4. past[p] = <<>> => Latest(p) = NoRecord
  BY DEF Latest
<1>. QED
  BY <1>1, <1>2, <1>3, <1>4

\* The same of the next state.
LEMMA LatestNext ==
    ASSUME NEW p \in Solved, past'[p] \in Seq(Records), Ordered(past'[p]), past'[p] # <<>>
    PROVE  Latest(p)' = past'[p][Len(past'[p])]
<1>1. PICK h \in Seq(Records) : h = past'[p]
  OBVIOUS
<1>2. Latest(p)' = LET S == {h[i] : i \in DOMAIN h} IN CHOOSE r \in S : \A q \in S : q.at <= r.at
  BY <1>1 DEF Latest
<1>. QED
  BY <1>1, <1>2, LatestIsLast

\* The latest record's fields, whether there is one or not.
LEMMA LatestFields ==
    ASSUME CompletionInv, NEW p \in Solved
    PROVE  /\ Latest(p).skills \subseteq Skills /\ Latest(p).solutions \subseteq Consulted
           /\ Latest(p).at \in Nat /\ Latest(p) \in Records \cup {NoRecord}
           /\ \A now \in 1 .. MaxReading :
                /\ Instant(p, now) \in Nat /\ Instant(p, now) > Latest(p).at
                /\ Instant(p, now) <= MaxReading + Len(past[p])
<1>. USE CompletionAssumption
<1>1. CASE past[p] = <<>>
  <2>1. Latest(p) = NoRecord /\ Len(past[p]) = 0
    BY <1>1, LatestOf
  <2>. QED
    BY <2>1 DEF NoRecord, Instant
<1>2. CASE past[p] # <<>>
  <2>1. Latest(p) = past[p][Len(past[p])] /\ Latest(p) \in Records /\ past[p] \in Seq(Records)
        /\ Paced(past[p])
    BY <1>2, LatestOf
  <2>2. Latest(p).at \in Nat /\ Latest(p).skills \subseteq Skills /\ Latest(p).solutions \subseteq Consulted
    BY <2>1, RecordFields
  <2>3. Len(past[p]) \in DOMAIN past[p] /\ Len(past[p]) \in Nat
    BY <1>2, <2>1
  <2>4. Latest(p).at < MaxReading + Len(past[p])
    BY <2>1, <2>3 DEF Paced
  <2>. QED
    BY <2>1, <2>2, <2>3, <2>4 DEF Instant
<1>. QED
  BY <1>1, <1>2

\* All the records of a bank are at least those of one problem.
LEMMA StoredBounds ==
    ASSUME CompletionInv, NEW p \in Solved PROVE Stored \in Nat /\ Len(past[p]) <= Stored
<1>. USE CompletionAssumption
<1>. DEFINE rowsOf == [q \in Solved |-> {q} \X DOMAIN past[q]]
            all == UNION {rowsOf[q] : q \in Solved}
<1>1. ASSUME NEW q \in Solved
      PROVE  IsFiniteSet({q} \X DOMAIN past[q]) /\ Cardinality({q} \X DOMAIN past[q]) = Len(past[q])
  <2>1. past[q] \in Seq(Records)
    BY LatestOf
  <2>2. DOMAIN past[q] = 1 .. Len(past[q]) /\ Len(past[q]) \in Nat
    BY <2>1
  <2>3. IsFiniteSet(1 .. Len(past[q])) /\ Cardinality(1 .. Len(past[q])) = Len(past[q])
    <3>1. PICK n \in Nat : n = Len(past[q])
      BY <2>2
    <3>2. 1 \in Int /\ n \in Int
      OBVIOUS
    <3>3. IsFiniteSet(1 .. n) /\ Cardinality(1 .. n) = IF 1 > n THEN 0 ELSE n - 1 + 1
      BY ONLY <3>2, FS_Interval
    <3>4. Cardinality(1 .. n) = n
      BY <3>3
    <3>. QED
      BY <3>1, <3>3, <3>4
  <2>4. IsFiniteSet({q}) /\ Cardinality({q}) = 1
    BY FS_Singleton
  <2>5. /\ IsFiniteSet({q} \X (1 .. Len(past[q])))
        /\ Cardinality({q} \X (1 .. Len(past[q]))) = 1 * Len(past[q])
    BY <2>3, <2>4, FS_Product
  <2>. QED
    BY <2>2, <2>5
<1>2. IsFiniteSet({rowsOf[q] : q \in Solved})
  <2>1. rowsOf \in Surjection(Solved, {rowsOf[q] : q \in Solved})
    BY DEF Surjection
  <2>. HIDE DEF rowsOf
  <2>. QED
    BY <2>1, FS_Surjection
<1>3. \A T \in {rowsOf[q] : q \in Solved} : IsFiniteSet(T)
  BY <1>1
<1>4. IsFiniteSet(all)
  <2>. HIDE DEF rowsOf
  <2>. QED
    BY <1>2, <1>3, FS_UNION
<1>5. Cardinality(all) \in Nat
  BY <1>4, FS_CardinalityType
<1>6. rowsOf[p] \in SUBSET all
  OBVIOUS
<1>7. Cardinality(rowsOf[p]) <= Cardinality(all)
  <2>. HIDE DEF rowsOf, all
  <2>. QED
    BY <1>4, <1>6, FS_Subset
<1>8. Cardinality(rowsOf[p]) = Len(past[p])
  BY <1>1
<1>9. Stored = Cardinality(all)
  BY DEF Stored
<1>. HIDE DEF rowsOf, all
<1>. QED
  BY <1>5, <1>7, <1>8, <1>9

\* A record later than the latest one, appended, leaves an ordered history it is the last of.
LEMMA AppendSound ==
    ASSUME CompletionInv, NEW p \in Solved, NEW r \in Records,
           r.at > Latest(p).at, r.at <= MaxReading + Len(past[p]),
           r.mode = "independent" => r.solutions = {}
    PROVE  /\ Append(past[p], r) \in Seq(Records)
           /\ Ordered(Append(past[p], r)) /\ Paced(Append(past[p], r))
           /\ Append(past[p], r) # <<>> /\ Append(past[p], r)[Len(Append(past[p], r))] = r
<1>. USE CompletionAssumption
<1>1. PICK h \in Seq(Records) : h = past[p]
  BY LatestOf
<1>2. PICK n \in Nat : n = Len(h)
  OBVIOUS
<1>3. DOMAIN h = 1 .. n /\ \A i \in 1 .. n : h[i] \in Records /\ h[i].at \in Nat
  BY <1>2, RecordFields
<1>4. Ordered(h) /\ Paced(h)
  BY <1>1, LatestOf
<1>. DEFINE g == Append(h, r)
<1>5. /\ g \in Seq(Records) /\ Len(g) = n + 1 /\ DOMAIN g = 1 .. (n + 1)
      /\ g[n + 1] = r /\ \A i \in 1 .. n : g[i] = h[i]
  BY <1>2
<1>6. r.at \in Nat
  BY RecordFields
<1>. HIDE DEF g
<1>7. ASSUME NEW i \in 1 .. n PROVE h[i].at < r.at
  <2>1. h # <<>>
    BY <1>2
  <2>2. Latest(p) = h[n]
    BY <1>1, <1>2, <2>1, LatestOf
  <2>3. n \in 1 .. n
    BY <1>7
  <2>4. i = n \/ h[i].at < h[n].at
    <3>1. i = n \/ i < n
      BY <1>7
    <3>. QED
      BY <1>3, <1>4, <2>3, <3>1 DEF Ordered
  <2>. QED
    BY <1>3, <1>6, <2>2, <2>3, <2>4
<1>8. Ordered(g)
  <2>1. ASSUME NEW i \in 1 .. (n + 1), NEW j \in 1 .. (n + 1), i < j PROVE g[i].at < g[j].at
    <3>1. i \in 1 .. n
      BY <2>1
    <3>2. CASE j = n + 1
      BY <1>5, <1>7, <3>1, <3>2
    <3>3. CASE j # n + 1
      <4>1. j \in 1 .. n
        BY <3>3
      <4>. QED
        BY <1>3, <1>4, <1>5, <2>1, <3>1, <4>1 DEF Ordered
    <3>. QED
      BY <3>2, <3>3
  <2>2. ASSUME NEW i \in 1 .. (n + 1), g[i].mode = "independent" PROVE g[i].solutions = {}
    <3>1. i = n + 1 \/ i \in 1 .. n
      OBVIOUS
    <3>. QED
      BY <1>3, <1>4, <1>5, <2>2, <3>1 DEF Ordered
  <2>. QED
    BY <1>5, <2>1, <2>2 DEF Ordered
<1>9. Paced(g)
  <2>1. ASSUME NEW i \in 1 .. (n + 1) PROVE g[i].at < MaxReading + i
    <3>1. CASE i = n + 1
      BY <1>1, <1>2, <1>5, <1>6, <3>1
    <3>2. CASE i # n + 1
      <4>1. i \in 1 .. n
        BY <3>2
      <4>. QED
        BY <1>3, <1>4, <1>5, <4>1 DEF Paced
    <3>. QED
      BY <3>1, <3>2
  <2>. QED
    BY <1>5, <2>1 DEF Paced
<1>10. g # <<>> /\ g[Len(g)] = r
  BY <1>5
<1>. QED
  BY <1>1, <1>5, <1>8, <1>9, <1>10 DEF g

\* What a record made from a form says.
LEMMA RecordedSound ==
    ASSUME CompletionInv, NEW p \in Solved, Recorded(p)
    PROVE  /\ past' \in [Solved -> Seq(Records)] /\ trashed' = trashed
           /\ \A q \in Solved : Ordered(past'[q]) /\ Paced(past'[q])
<1>. USE CompletionAssumption
<1>1. PICK mode \in Modes, skills \in SUBSET Skills, used \in SUBSET Consulted, now \in 1 .. MaxReading :
        /\ HasRoom /\ trashed' = trashed
        /\ mode = "independent" => used = {}
        /\ past' = [past EXCEPT ![p] = Append(past[p], [mode |-> mode, skills |-> skills,
                                                  solutions |-> used, at |-> Instant(p, now)])]
  BY DEF Recorded
<1>. DEFINE r == [mode |-> mode, skills |-> skills, solutions |-> used, at |-> Instant(p, now)]
<1>2. /\ Instant(p, now) \in Nat /\ Instant(p, now) > Latest(p).at /\ Latest(p).at \in Nat
      /\ Instant(p, now) <= MaxReading + Len(past[p])
  BY LatestFields
<1>3. Stored < MaxRecords /\ Stored \in Nat /\ Len(past[p]) <= Stored /\ Len(past[p]) \in Nat
  BY <1>1, StoredBounds, LatestOf DEF HasRoom
<1>4. Instant(p, now) \in Readings
  BY <1>2, <1>3 DEF Readings
<1>5. r \in Records /\ r.at > Latest(p).at /\ r.at <= MaxReading + Len(past[p])
      /\ (r.mode = "independent" => r.solutions = {})
  BY <1>1, <1>2, <1>4 DEF Records
<1>6. past' = [past EXCEPT ![p] = Append(past[p], r)] /\ past \in [Solved -> Seq(Records)]
  BY <1>1 DEF CompletionInv, CompletionTypeOK
<1>. HIDE DEF r
<1>7. /\ Append(past[p], r) \in Seq(Records)
      /\ Ordered(Append(past[p], r)) /\ Paced(Append(past[p], r))
  BY <1>5, AppendSound
<1>8. ASSUME NEW q \in Solved PROVE Ordered(past'[q]) /\ Paced(past'[q])
  <2>1. past'[q] = IF q = p THEN Append(past[p], r) ELSE past[q]
    BY <1>6
  <2>. QED
    BY <1>7, <2>1, LatestOf
<1>. QED
  BY <1>1, <1>6, <1>7, <1>8

\* The intent and the view of an editor.
LEMMA EditFields ==
    ASSUME CompletionInv, NEW e \in Editors
    PROVE  /\ DOMAIN open[e].seen \subseteq Solved
           /\ open[e] = NoEdit => DOMAIN open[e].seen = {}
           /\ \A p \in DOMAIN open[e].seen : open[e].seen[p] \in Records \cup {NoRecord}
           /\ open[e].kind = "preview" => open[e].mode \in Modes /\ open[e].skills \subseteq Skills
<1>1. CASE open[e] = NoEdit
  BY <1>1 DEF NoEdit
<1>2. CASE open[e] # NoEdit
  BY <1>2 DEF CompletionInv, CompletionTypeOK, PreviewsIntend
<1>. QED
  BY <1>1, <1>2

\* One problem of an applied preview: its record says what was previewed, or it was already so.
LEMMA EditedSound ==
    ASSUME CompletionInv, NEW p \in Solved, NEW mode \in Modes, NEW skills \in SUBSET Skills,
           NEW now \in 1 .. MaxReading, Stored <= MaxRecords,
           NEW r, r = Edited(p, mode, skills, now)
    PROVE  /\ r \in Records /\ r.at > Latest(p).at /\ r.at <= MaxReading + Len(past[p])
           /\ r.mode = "independent" => r.solutions = {}
<1>. USE CompletionAssumption
<1>1. /\ Instant(p, now) \in Nat /\ Instant(p, now) > Latest(p).at /\ Latest(p).at \in Nat
      /\ Instant(p, now) <= MaxReading + Len(past[p])
      /\ Latest(p).skills \subseteq Skills /\ Latest(p).solutions \subseteq Consulted
  BY LatestFields
<1>2. Stored \in Nat /\ Len(past[p]) <= Stored /\ Len(past[p]) \in Nat
  BY StoredBounds, LatestOf
<1>3. Instant(p, now) \in Readings
  BY <1>1, <1>2 DEF Readings
<1>4. SolutionsAfter(p, mode) = IF mode = "independent" THEN {} ELSE Latest(p).solutions
  BY DEF SolutionsAfter
<1>5. Latest(p).skills \cup skills \subseteq Skills /\ SolutionsAfter(p, mode) \subseteq Consulted
  BY <1>1, <1>4
<1>. QED
  BY <1>1, <1>3, <1>4, <1>5 DEF Edited, Records

\* A preview that is applied leaves sound histories, and each of its problems as previewed.
LEMMA ApplySound ==
    ASSUME CompletionInv, NEW e \in Editors, Apply(e)
    PROVE  /\ past' \in [Solved -> Seq(Records)] /\ trashed' = trashed
           /\ \A q \in Solved : Ordered(past'[q]) /\ Paced(past'[q])
           /\ \A p \in DOMAIN open[e].seen :
                LET now == Latest(p)'
                    seen == open[e].seen[p]
                IN  /\ now.mode = open[e].mode /\ now.skills = seen.skills \cup open[e].skills
                    /\ now.solutions = (IF open[e].mode = "independent" THEN {} ELSE seen.solutions)
                    /\ now = seen \/ now.at > seen.at
<1>. USE CompletionAssumption
<1>. DEFINE edit == open[e]
            new(p, now) == Append(past[p], Edited(p, edit.mode, edit.skills, now))
<1>1. PICK now \in [DOMAIN edit.seen -> 1 .. MaxReading] :
        /\ edit.kind = "preview" /\ Stored <= MaxRecords /\ trashed' = trashed /\ AsSeen(e)
        /\ past' = [p \in Solved |->
                      IF p \in DOMAIN edit.seen /\ Changes(p, edit.mode, edit.skills)
                      THEN new(p, now[p]) ELSE past[p]]
  BY DEF Apply, PreviewHolds
<1>2. DOMAIN edit.seen \subseteq Solved /\ edit.mode \in Modes /\ edit.skills \in SUBSET Skills
  BY <1>1, EditFields
<1>3. ASSUME NEW p \in Solved, p \in DOMAIN edit.seen
      PROVE  /\ new(p, now[p]) \in Seq(Records) /\ new(p, now[p]) # <<>>
             /\ Ordered(new(p, now[p])) /\ Paced(new(p, now[p]))
             /\ new(p, now[p])[Len(new(p, now[p]))] = Edited(p, edit.mode, edit.skills, now[p])
  <2>1. PICK m \in Modes, k \in SUBSET Skills, t \in 1 .. MaxReading :
          m = edit.mode /\ k = edit.skills /\ t = now[p]
    BY <1>2, <1>3
  <2>2. PICK r : r = Edited(p, m, k, t)
    OBVIOUS
  <2>3. /\ r \in Records /\ r.at > Latest(p).at /\ r.at <= MaxReading + Len(past[p])
        /\ r.mode = "independent" => r.solutions = {}
    BY <1>1, <2>2, EditedSound
  <2>4. /\ Append(past[p], r) \in Seq(Records)
        /\ Ordered(Append(past[p], r)) /\ Paced(Append(past[p], r))
        /\ Append(past[p], r) # <<>> /\ Append(past[p], r)[Len(Append(past[p], r))] = r
    BY <2>3, AppendSound
  <2>. QED
    BY <2>1, <2>2, <2>4
<1>4. ASSUME NEW p \in Solved
      PROVE  past'[p] \in Seq(Records) /\ Ordered(past'[p]) /\ Paced(past'[p])
  <2>1. past'[p] = IF p \in DOMAIN edit.seen /\ Changes(p, edit.mode, edit.skills)
                   THEN new(p, now[p]) ELSE past[p]
    BY <1>1
  <2>. QED
    BY <1>3, <2>1, LatestOf
<1>5. past' \in [Solved -> Seq(Records)]
  BY <1>1, <1>4
<1>6. ASSUME NEW p \in DOMAIN edit.seen
      PROVE  LET last == Latest(p)'
                 seen == edit.seen[p]
             IN  /\ last.mode = edit.mode /\ last.skills = seen.skills \cup edit.skills
                 /\ last.solutions = (IF edit.mode = "independent" THEN {} ELSE seen.solutions)
                 /\ last = seen \/ last.at > seen.at
  <2>1. p \in Solved /\ Latest(p) = edit.seen[p]
    BY <1>1, <1>2 DEF AsSeen
  <2>2. CASE Changes(p, edit.mode, edit.skills)
    <3>1. past'[p] = new(p, now[p])
      BY <1>1, <2>1, <2>2
    <3>2. past'[p] \in Seq(Records) /\ Ordered(past'[p]) /\ past'[p] # <<>>
          /\ past'[p][Len(past'[p])] = Edited(p, edit.mode, edit.skills, now[p])
      BY <1>3, <2>1, <3>1
    <3>3. Latest(p)' = Edited(p, edit.mode, edit.skills, now[p])
      BY <2>1, <3>2, LatestNext
    <3>4. PICK m \in Modes, k \in SUBSET Skills, t \in 1 .. MaxReading :
            m = edit.mode /\ k = edit.skills /\ t = now[p]
      BY <1>2
    <3>5. PICK r : r = Edited(p, m, k, t)
      OBVIOUS
    <3>6. /\ r.at > Latest(p).at /\ r.mode = m /\ r.skills = Latest(p).skills \cup k
          /\ r.solutions = (IF m = "independent" THEN {} ELSE Latest(p).solutions)
      <4>1. Stored <= MaxRecords /\ p \in Solved
        BY <1>1, <2>1
      <4>2. r.at > Latest(p).at
        BY <3>5, <4>1, EditedSound
      <4>. QED
        BY <3>5, <4>2 DEF Edited, SolutionsAfter
    <3>7. Latest(p)' = r
      BY <3>3, <3>4, <3>5
    <3>. QED
      BY <2>1, <3>4, <3>6, <3>7
  <2>3. CASE ~Changes(p, edit.mode, edit.skills)
    <3>1. past'[p] = past[p]
      BY <1>1, <2>1, <2>3
    <3>2. Latest(p)' = Latest(p)
      BY <3>1 DEF Latest
    <3>3. /\ Latest(p).mode = edit.mode /\ edit.skills \subseteq Latest(p).skills
          /\ Latest(p).solutions = (IF edit.mode = "independent" THEN {} ELSE Latest(p).solutions)
      BY <2>3 DEF Changes, SolutionsAfter
    <3>. QED
      BY <2>1, <3>2, <3>3
  <2>. QED
    BY <2>2, <2>3
<1>. QED
  BY <1>1, <1>4, <1>5, <1>6

\* Sound histories, and editors each of which is as it was, at rest or newly opened.
LEMMA CompletionAgain ==
    ASSUME past' \in [Solved -> Seq(Records)], trashed' \subseteq Solved,
           \A q \in Solved : Ordered(past'[q]) /\ Paced(past'[q]),
           open' = [e \in Editors |-> open'[e]],
           \A e \in Editors :
             \/ open'[e] = NoEdit
             \/ /\ open'[e].kind \in {"form", "preview"} /\ open'[e].mode \in Modes \cup {"none"}
                /\ open'[e].kind = "preview" => open'[e].mode \in Modes
                /\ open'[e].skills \subseteq Skills /\ DOMAIN open'[e].seen \subseteq Solved
                /\ \A p \in DOMAIN open'[e].seen : open'[e].seen[p] \in Records \cup {NoRecord}
    PROVE  CompletionInv'
<1>1. CompletionTypeOK'
  BY DEF CompletionTypeOK
<1>2. HistoryOrdered' /\ HistoriesPaced'
  BY DEF HistoryOrdered, HistoriesPaced, Ordered, Paced
<1>3. PreviewsIntend'
  BY DEF PreviewsIntend, NoEdit
<1>. QED
  BY <1>1, <1>2, <1>3 DEF CompletionInv

\* What holds of every editor now.
LEMMA EditorsNow ==
    ASSUME CompletionInv
    PROVE  /\ open = [e \in Editors |-> open[e]]
           /\ past \in [Solved -> Seq(Records)] /\ trashed \subseteq Solved
           /\ \A q \in Solved : Ordered(past[q]) /\ Paced(past[q])
           /\ \A e \in Editors :
             \/ open[e] = NoEdit
             \/ /\ open[e].kind \in {"form", "preview"} /\ open[e].mode \in Modes \cup {"none"}
                /\ open[e].kind = "preview" => open[e].mode \in Modes
                /\ open[e].skills \subseteq Skills /\ DOMAIN open[e].seen \subseteq Solved
                /\ \A p \in DOMAIN open[e].seen : open[e].seen[p] \in Records \cup {NoRecord}
<1>1. /\ open = [e \in Editors |-> open[e]]
      /\ past \in [Solved -> Seq(Records)] /\ trashed \subseteq Solved
  BY DEF CompletionInv, CompletionTypeOK, PreviewsIntend
<1>2. \A q \in Solved : Ordered(past[q]) /\ Paced(past[q])
  BY LatestOf
<1>. QED
  BY <1>1, <1>2 DEF CompletionInv, CompletionTypeOK, PreviewsIntend

\* Sound histories with every editor as it was but one, which rests.
LEMMA RestsSound ==
    ASSUME CompletionInv, NEW e \in Editors, open' = [open EXCEPT ![e] = NoEdit],
           past' \in [Solved -> Seq(Records)], trashed' = trashed,
           \A q \in Solved : Ordered(past'[q]) /\ Paced(past'[q])
    PROVE  CompletionInv'
<1>1. \A d \in Editors : open'[d] = IF d = e THEN NoEdit ELSE open[d]
  BY EditorsNow
<1>2. open' = [d \in Editors |-> open'[d]] /\ trashed' \subseteq Solved
  BY EditorsNow
<1>3. ASSUME NEW d \in Editors
      PROVE  \/ open'[d] = NoEdit
             \/ /\ open'[d].kind \in {"form", "preview"} /\ open'[d].mode \in Modes \cup {"none"}
                /\ open'[d].kind = "preview" => open'[d].mode \in Modes
                /\ open'[d].skills \subseteq Skills /\ DOMAIN open'[d].seen \subseteq Solved
                /\ \A p \in DOMAIN open'[d].seen : open'[d].seen[p] \in Records \cup {NoRecord}
  <2>1. CASE d = e
    BY <1>1, <2>1
  <2>2. CASE d # e
    <3>1. open'[d] = open[d]
      BY <1>1, <2>2
    <3>. QED
      BY <3>1, EditorsNow
  <2>. QED
    BY <2>1, <2>2
<1>. QED
  BY <1>2, <1>3, CompletionAgain

\* An editor that opens shows the latest records.
LEMMA OpensSound ==
    ASSUME CompletionInv, NEW e \in Editors, NEW m, open' = [open EXCEPT ![e] = m],
           UNCHANGED <<past, trashed>>,
           m.kind \in {"form", "preview"}, m.mode \in Modes \cup {"none"},
           m.kind = "preview" => m.mode \in Modes, m.skills \subseteq Skills,
           DOMAIN m.seen \subseteq Solved,
           \A p \in DOMAIN m.seen : m.seen[p] \in Records \cup {NoRecord}
    PROVE  CompletionInv'
<1>1. \A d \in Editors : open'[d] = IF d = e THEN m ELSE open[d]
  BY EditorsNow
<1>2. open' = [d \in Editors |-> open'[d]]
  BY EditorsNow
<1>3. ASSUME NEW d \in Editors
      PROVE  \/ open'[d] = NoEdit
             \/ /\ open'[d].kind \in {"form", "preview"} /\ open'[d].mode \in Modes \cup {"none"}
                /\ open'[d].kind = "preview" => open'[d].mode \in Modes
                /\ open'[d].skills \subseteq Skills /\ DOMAIN open'[d].seen \subseteq Solved
                /\ \A p \in DOMAIN open'[d].seen : open'[d].seen[p] \in Records \cup {NoRecord}
  <2>1. CASE d = e
    <3>1. open'[d] = m
      BY <1>1, <2>1
    <3>. QED
      BY <3>1
  <2>2. CASE d # e
    <3>1. open'[d] = open[d]
      BY <1>1, <2>2
    <3>. QED
      BY <3>1, EditorsNow
  <2>. QED
    BY <2>1, <2>2
<1>4. /\ past' \in [Solved -> Seq(Records)] /\ trashed' \subseteq Solved
      /\ \A q \in Solved : Ordered(past'[q]) /\ Paced(past'[q])
  BY EditorsNow
<1>. QED
  BY <1>2, <1>3, <1>4, CompletionAgain

\* Every step keeps the invariant.
LEMMA CompletionStepKeeps == ASSUME CompletionInv, [CompletionNext]_completionVars PROVE CompletionInv'
<1>1. ASSUME NEW e \in Editors, NEW mode \in Modes, NEW skills \in SUBSET Skills,
             Preview(e, mode, skills)
      PROVE  CompletionInv'
  <2>1. PICK ps \in SUBSET (Solved \ trashed) \ {{}} :
          /\ open' = [open EXCEPT ![e] = [kind |-> "preview", mode |-> mode, skills |-> skills,
                                          seen |-> [p \in ps |-> Latest(p)]]]
          /\ UNCHANGED <<past, trashed>>
    BY <1>1 DEF Preview
  <2>. DEFINE m == [kind |-> "preview", mode |-> mode, skills |-> skills,
                    seen |-> [p \in ps |-> Latest(p)]]
  <2>2. \A p \in ps : Latest(p) \in Records \cup {NoRecord}
    BY LatestFields
  <2>3. /\ m.kind = "preview" /\ m.mode = mode /\ m.skills = skills
        /\ DOMAIN m.seen = ps /\ \A p \in ps : m.seen[p] = Latest(p)
    OBVIOUS
  <2>4. open' = [open EXCEPT ![e] = m]
    BY <2>1
  <2>. HIDE DEF m
  <2>. QED
    BY <2>1, <2>2, <2>3, <2>4, OpensSound
<1>2. ASSUME NEW e \in Editors, NEW p \in Solved, OpenForm(e, p) PROVE CompletionInv'
  <2>. DEFINE f == [NoEdit EXCEPT !.kind = "form"]
              m == [f EXCEPT !.seen = [q \in {p} |-> Latest(q)]]
  <2>1. open' = [open EXCEPT ![e] = m] /\ UNCHANGED <<past, trashed>>
    BY <1>2 DEF OpenForm
  <2>2. f = [kind |-> "form", mode |-> "none", skills |-> {}, seen |-> <<>>]
    BY DEF NoEdit
  <2>. HIDE DEF f
  <2>3. /\ m.kind = "form" /\ m.mode = "none" /\ m.skills = {}
        /\ DOMAIN m.seen = {p} /\ m.seen[p] = Latest(p)
    BY <2>2
  <2>4. Latest(p) \in Records \cup {NoRecord}
    BY LatestFields
  <2>. HIDE DEF m
  <2>5. /\ m.kind \in {"form", "preview"} /\ m.mode \in Modes \cup {"none"}
        /\ m.kind # "preview" /\ m.skills \subseteq Skills /\ DOMAIN m.seen \subseteq Solved
        /\ \A q \in DOMAIN m.seen : m.seen[q] \in Records \cup {NoRecord}
    BY <2>3, <2>4
  <2>. QED
    BY <2>1, <2>5, OpensSound
<1>3. ASSUME NEW e \in Editors, RecordForm(e) PROVE CompletionInv'
  <2>1. PICK p \in DOMAIN open[e].seen : Recorded(p) /\ open' = [open EXCEPT ![e] = NoEdit]
    BY <1>3 DEF RecordForm
  <2>2. p \in Solved
    BY EditFields
  <2>. QED
    BY <2>1, <2>2, RecordedSound, RestsSound
<1>4. ASSUME NEW e \in Editors, Apply(e) PROVE CompletionInv'
  <2>1. open' = [open EXCEPT ![e] = NoEdit]
    BY <1>4 DEF Apply
  <2>. QED
    BY <1>4, <2>1, ApplySound, RestsSound
<1>5. ASSUME NEW e \in Editors, Discard(e) PROVE CompletionInv'
  <2>1. open' = [open EXCEPT ![e] = NoEdit] /\ past' = past /\ trashed' = trashed
    BY <1>5 DEF Discard
  <2>. QED
    BY <2>1, EditorsNow, RestsSound
<1>6. ASSUME NEW p \in Solved, Record(p) PROVE CompletionInv'
  <2>1. Recorded(p) /\ open' = open
    BY <1>6 DEF Record
  <2>2. /\ past' \in [Solved -> Seq(Records)] /\ trashed' \subseteq Solved
        /\ \A q \in Solved : Ordered(past'[q]) /\ Paced(past'[q])
    BY <2>1, RecordedSound, EditorsNow
  <2>. QED
    BY <2>1, <2>2, EditorsNow, CompletionAgain
<1>7. ASSUME NEW p \in Solved, Trash(p) PROVE CompletionInv'
  <2>1. trashed' \subseteq Solved /\ past' = past /\ open' = open
    BY <1>7, EditorsNow DEF Trash
  <2>. QED
    BY <2>1, EditorsNow, CompletionAgain
<1>8. CASE UNCHANGED completionVars
  <2>1. past' = past /\ open' = open /\ trashed' = trashed
    BY <1>8 DEF completionVars
  <2>. QED
    BY <2>1, EditorsNow, CompletionAgain
<1>. QED
  BY <1>1, <1>2, <1>3, <1>4, <1>5, <1>6, <1>7, <1>8 DEF CompletionNext

\* A preview that ends with a record was applied, and lands as it was shown.
LEMMA CompletionStepLands ==
    ASSUME CompletionInv, [CompletionNext]_completionVars, NEW e \in Editors,
           open[e].kind = "preview", open'[e] = NoEdit, past' # past,
           NEW p \in DOMAIN open[e].seen
    PROVE  LET now == Latest(p)'
               seen == open[e].seen[p]
           IN  /\ now.mode = open[e].mode /\ now.skills = seen.skills \cup open[e].skills
               /\ now.solutions = (IF open[e].mode = "independent" THEN {} ELSE seen.solutions)
               /\ now = seen \/ now.at > seen.at
<1>1. open[e] # NoEdit
  BY DEF NoEdit
<1>2. Apply(e)
  <2>1. ~ UNCHANGED completionVars
    BY DEF completionVars
  <2>2. ASSUME NEW d \in Editors, RecordForm(d) PROVE FALSE
    <3>1. open' = [open EXCEPT ![d] = NoEdit] /\ open[d].kind = "form"
      BY <2>2 DEF RecordForm
    <3>2. d # e
      BY <3>1
    <3>3. open'[e] = open[e]
      BY <3>1, <3>2, EditorsNow
    <3>. QED
      BY <1>1, <3>3
  <2>3. ASSUME NEW d \in Editors, Apply(d) PROVE d = e
    <3>1. open' = [open EXCEPT ![d] = NoEdit]
      BY <2>3 DEF Apply
    <3>2. d # e => open'[e] = open[e]
      BY <3>1, EditorsNow
    <3>. QED
      BY <1>1, <3>2
  <2>4. ASSUME NEW q \in Solved, Record(q) PROVE FALSE
    BY <1>1, <2>4 DEF Record
  <2>. QED
    BY <2>1, <2>2, <2>3, <2>4 DEF CompletionNext, Preview, OpenForm, Discard, Trash
<1>. QED
  BY <1>2, ApplySound

\* An empty bank without an open editor satisfies the invariant.
LEMMA CompletionStarts == CompletionInit => CompletionInv
<1>. SUFFICES ASSUME CompletionInit PROVE CompletionInv
  OBVIOUS
<1>1. past = [p \in Solved |-> <<>>] /\ trashed = {} /\ open = [e \in Editors |-> NoEdit]
  BY DEF CompletionInit
<1>2. \A p \in Solved : past[p] = <<>> /\ DOMAIN past[p] = {}
  BY <1>1
<1>3. CompletionTypeOK
  BY <1>1, <1>2 DEF CompletionTypeOK
<1>4. HistoryOrdered /\ HistoriesPaced
  BY <1>2 DEF HistoryOrdered, HistoriesPaced, Paced
<1>5. PreviewsIntend
  BY <1>1 DEF PreviewsIntend, NoEdit
<1>. QED
  BY <1>3, <1>4, <1>5 DEF CompletionInv

-----------------------------------------------------------------------------
(* The ledger of virtual results                                           *)

EntryMaps == UNION {[S -> Contests] : S \in SUBSET (1 .. MaxEdits)}

\* A contest has one entry; no screen is ahead of the row, and one that names its revision
\* shows it.
ScreensFollow ==
    \A s \in Screens :
        /\ screen[s].revision <= ledger.revision
        /\ screen[s].revision = ledger.revision => screen[s] = ledger

EntriesInv == LedgerTypeOK /\ OneEntryPerContest /\ ScreensFollow

\* A row, field by field, and its entries as a function over the ids it holds.
LEMMA LedgerFields ==
    ASSUME NEW l \in Ledgers
    PROVE  /\ l.revision \in 0 .. MaxEdits /\ l.entries \in EntryMaps
           /\ DOMAIN l.entries \subseteq 1 .. MaxEdits
           /\ l.entries = [i \in DOMAIN l.entries |-> l.entries[i]]
           /\ \A i \in DOMAIN l.entries : l.entries[i] \in Contests
<1>1. l.revision \in 0 .. MaxEdits /\ l.entries \in EntryMaps
  BY DEF Ledgers, EntryMaps
<1>2. PICK S \in SUBSET (1 .. MaxEdits) : l.entries \in [S -> Contests]
  BY <1>1 DEF EntryMaps
<1>. QED
  BY <1>1, <1>2

\* What an edit writes: a next revision over entries that are a map, on the screen it came from.
LEMMA WriteKeeps ==
    ASSUME EntriesInv, NEW s \in Screens, NEW entries \in EntryMaps, Write(s, entries),
           minted' \in 0 .. MaxEdits,
           \A i, j \in DOMAIN entries : entries[i] = entries[j] => i = j
    PROVE  EntriesInv' /\ screen[s] = ledger /\ screen'[s] = ledger'
<1>. USE EntriesAssumption
<1>1. /\ ledger.revision < MaxEdits /\ screen[s].revision = ledger.revision
      /\ ledger' = [revision |-> ledger.revision + 1, entries |-> entries]
      /\ screen' = [screen EXCEPT ![s] = ledger']
  BY DEF Write, RowOf
<1>2. ledger \in Ledgers /\ screen \in [Screens -> Ledgers]
  BY DEF EntriesInv, LedgerTypeOK
<1>3. ledger.revision \in 0 .. MaxEdits
  BY <1>2, LedgerFields
<1>4. ledger' \in Ledgers
  BY <1>1, <1>3 DEF Ledgers, EntryMaps
<1>5. screen' \in [Screens -> Ledgers] /\ screen'[s] = ledger'
  BY <1>1, <1>2, <1>4
<1>6. LedgerTypeOK'
  BY <1>4, <1>5 DEF LedgerTypeOK
<1>7. ledger'.entries = entries /\ ledger'.revision = ledger.revision + 1
  BY <1>1
<1>8. OneEntryPerContest'
  BY <1>7 DEF OneEntryPerContest
<1>9. ScreensFollow'
  <2>1. ASSUME NEW t \in Screens
        PROVE  /\ screen'[t].revision <= ledger'.revision
               /\ screen'[t].revision = ledger'.revision => screen'[t] = ledger'
    <3>1. CASE t = s
      BY <1>3, <1>5, <1>7, <3>1
    <3>2. CASE t # s
      <4>1. screen'[t] = screen[t]
        BY <1>1, <1>2, <3>2
      <4>2. screen[t].revision \in 0 .. MaxEdits /\ screen[t].revision <= ledger.revision
        BY <1>2, LedgerFields DEF EntriesInv, ScreensFollow
      <4>. QED
        BY <1>3, <1>7, <4>1, <4>2
    <3>. QED
      BY <3>1, <3>2
  <2>. QED
    BY <2>1 DEF ScreensFollow
<1>. QED
  BY <1>1, <1>5, <1>6, <1>8, <1>9 DEF EntriesInv, ScreensFollow

\* An added or replaced entry clashes with no other.
LEMMA SaveKeeps ==
    ASSUME EntriesInv, NEW s \in Screens, NEW id \in 1 .. MaxEdits, NEW contest \in Contests,
           SaveEntry(s, id, contest)
    PROVE  EntriesInv' /\ screen[s] = ledger /\ screen'[s] = ledger'
<1>. USE EntriesAssumption
<1>. DEFINE old == ledger.entries
            entries == With(old, id, contest)
<1>1. /\ DOMAIN old \subseteq 1 .. MaxEdits /\ \A i \in DOMAIN old : old[i] \in Contests
  BY LedgerFields DEF EntriesInv, LedgerTypeOK
<1>2. entries = [i \in {id} \cup DOMAIN old |-> IF i = id THEN contest ELSE old[i]]
  BY DEF With
<1>3. DOMAIN entries = {id} \cup DOMAIN old
  BY <1>2
<1>4. entries \in EntryMaps
  <2>1. entries \in [{id} \cup DOMAIN old -> Contests]
    BY <1>1, <1>2
  <2>2. {id} \cup DOMAIN old \in SUBSET (1 .. MaxEdits)
    BY <1>1
  <2>. QED
    BY <2>1, <2>2 DEF EntryMaps
<1>5. ASSUME NEW i \in DOMAIN entries, NEW j \in DOMAIN entries, entries[i] = entries[j] PROVE i = j
  <2>1. \A k \in DOMAIN old \ {id} : old[k] # contest
    BY DEF SaveEntry, Clash
  <2>2. \A k, l \in DOMAIN old : old[k] = old[l] => k = l
    BY DEF EntriesInv, OneEntryPerContest
  <2>3. /\ i \in {id} \cup DOMAIN old /\ j \in {id} \cup DOMAIN old
        /\ entries[i] = IF i = id THEN contest ELSE old[i]
        /\ entries[j] = IF j = id THEN contest ELSE old[j]
    BY <1>2, <1>3, <1>5
  <2>. HIDE DEF entries, old
  <2>. QED
    BY <1>5, <2>1, <2>2, <2>3
<1>6. minted' \in 0 .. MaxEdits
  BY DEF EntriesInv, LedgerTypeOK, SaveEntry
<1>7. Write(s, entries)
  BY DEF SaveEntry
<1>. HIDE DEF entries
<1>. QED
  BY <1>4, <1>5, <1>6, <1>7, WriteKeeps

\* A deleted entry leaves the others.
LEMMA DeleteKeeps ==
    ASSUME EntriesInv, NEW s \in Screens, NEW id \in 1 .. MaxEdits, DeleteEntry(s, id)
    PROVE  EntriesInv' /\ screen[s] = ledger /\ screen'[s] = ledger'
<1>. DEFINE old == ledger.entries
            entries == Restrict(old, DOMAIN old \ {id})
<1>1. /\ DOMAIN old \subseteq 1 .. MaxEdits /\ \A i \in DOMAIN old : old[i] \in Contests
  BY LedgerFields DEF EntriesInv, LedgerTypeOK
<1>2. entries = [i \in DOMAIN old \ {id} |-> old[i]]
  BY DEF Restrict
<1>3. entries \in [DOMAIN old \ {id} -> Contests] /\ DOMAIN old \ {id} \in SUBSET (1 .. MaxEdits)
  BY <1>1, <1>2
<1>4. entries \in EntryMaps
  BY <1>3 DEF EntryMaps
<1>5. \A i, j \in DOMAIN entries : entries[i] = entries[j] => i = j
  BY <1>2 DEF EntriesInv, OneEntryPerContest
<1>6. Write(s, entries) /\ minted' \in 0 .. MaxEdits
  BY DEF DeleteEntry, EntriesInv, LedgerTypeOK
<1>. HIDE DEF entries
<1>. QED
  BY <1>4, <1>5, <1>6, WriteKeeps

\* A screen that reads the row shows it.
LEMMA ListKeeps == ASSUME EntriesInv, NEW s \in Screens, ListLedger(s) PROVE EntriesInv' /\ ledger' = ledger
<1>1. screen' = [screen EXCEPT ![s] = ledger] /\ UNCHANGED <<ledger, minted>>
  BY DEF ListLedger
<1>2. ledger \in Ledgers /\ screen \in [Screens -> Ledgers]
  BY DEF EntriesInv, LedgerTypeOK
<1>3. LedgerTypeOK' /\ OneEntryPerContest'
  BY <1>1, <1>2 DEF EntriesInv, LedgerTypeOK, OneEntryPerContest
<1>4. ASSUME NEW t \in Screens
      PROVE  /\ screen'[t].revision <= ledger.revision
             /\ screen'[t].revision = ledger.revision => screen'[t] = ledger
  <2>1. screen'[t] = IF t = s THEN ledger ELSE screen[t]
    BY <1>1, <1>2
  <2>2. ledger.revision \in 0 .. MaxEdits
    BY <1>2, LedgerFields
  <2>. QED
    BY <2>1, <2>2 DEF EntriesInv, ScreensFollow
<1>. QED
  BY <1>1, <1>3, <1>4 DEF EntriesInv, ScreensFollow

\* Every step keeps the invariant, and one that moves the row is of a screen that showed it.
LEMMA EntriesStepKeeps ==
    ASSUME EntriesInv, [EntriesNext]_entryVars
    PROVE  /\ EntriesInv'
           /\ ledger' # ledger => \E s \in Screens : screen[s] = ledger /\ screen'[s] = ledger'
<1>1. CASE EntriesNext
  BY <1>1, ListKeeps, SaveKeeps, DeleteKeeps DEF EntriesNext
<1>2. CASE UNCHANGED entryVars
  BY <1>2 DEF entryVars, EntriesInv, LedgerTypeOK, OneEntryPerContest, ScreensFollow
<1>. QED
  BY <1>1, <1>2

\* An empty ledger satisfies the invariant.
LEMMA EntriesStart == EntriesInit => EntriesInv
<1>. SUFFICES ASSUME EntriesInit PROVE EntriesInv
  OBVIOUS
<1>1. NoEntries \in [{} -> Contests] /\ DOMAIN NoEntries = {} /\ {} \in SUBSET (1 .. MaxEdits)
  BY DEF NoEntries
<1>2. NoEntries \in UNION {[S -> Contests] : S \in SUBSET (1 .. MaxEdits)}
  BY <1>1
<1>3. NoLedger \in Ledgers /\ NoLedger.entries = NoEntries /\ NoLedger.revision = 0
  BY <1>2, EntriesAssumption DEF NoLedger, Ledgers
<1>4. LedgerTypeOK
  BY <1>3, EntriesAssumption DEF EntriesInit, LedgerTypeOK
<1>. QED
  BY <1>1, <1>3, <1>4 DEF EntriesInit, EntriesInv, OneEntryPerContest, ScreensFollow

-----------------------------------------------------------------------------
(* The official rating                                                     *)

\* The values of a request and of a snapshot.
RefreshStates == [step : {"idle", "reading", "fetched"}, handle : Handles,
                  revision : Revisions, value : 0 .. MaxRating]
Ratings == [revision : Revisions, handle : Handles, value : 0 .. MaxRating]

\* A snapshot is not ahead of its handle's rating, and what was fetched over a snapshot that
\* is still the latest is not behind it.
FetchesCurrent ==
    /\ rating.value <= official[rating.handle]
    /\ \A f \in Refreshes :
        /\ refresh[f].revision <= rating.revision
        /\ refresh[f].value <= official[refresh[f].handle]
        /\ refresh[f].step = "fetched" /\ refresh[f].revision = rating.revision
             /\ refresh[f].handle = rating.handle
           => rating.value <= refresh[f].value

RatingInv == RatingTypeOK /\ FetchesCurrent

\* A request and a snapshot, field by field.
LEMMA RefreshFields ==
    ASSUME RatingTypeOK
    PROVE  /\ refresh \in [Refreshes -> RefreshStates] /\ rating \in Ratings
           /\ rating.revision \in 0 .. (MaxRating + 1) /\ rating.handle \in Handles
           /\ rating.value \in 0 .. MaxRating
           /\ handle \in Handles /\ official \in [Handles -> 0 .. MaxRating]
           /\ \A f \in Refreshes :
                /\ refresh[f].step \in {"idle", "reading", "fetched"} /\ refresh[f].handle \in Handles
                /\ refresh[f].revision \in 0 .. (MaxRating + 1)
                /\ refresh[f].value \in 0 .. MaxRating
  BY DEF RatingTypeOK, RefreshStates, Ratings, Revisions

\* A request at rest.
LEMMA NoRefreshFields ==
    ASSUME RatingTypeOK
    PROVE  /\ NoRefresh \in RefreshStates /\ NoRefresh.step = "idle"
           /\ NoRefresh.revision = 0 /\ NoRefresh.value = 0
<1>1. (CHOOSE h \in Handles : TRUE) \in Handles
  BY DEF RatingTypeOK
<1>. QED
  BY <1>1, RatingAssumption DEF NoRefresh, RefreshStates, Revisions

\* One request moves, and the stored snapshot stays.
LEMMA RefreshMoves ==
    ASSUME RatingInv, NEW f \in Refreshes, NEW r \in RefreshStates,
           refresh' = [refresh EXCEPT ![f] = r], UNCHANGED <<handle, official, rating>>,
           r.revision <= rating.revision, r.value <= official[r.handle],
           r.step = "fetched" /\ r.revision = rating.revision /\ r.handle = rating.handle
             => rating.value <= r.value
    PROVE  RatingInv'
<1>1. RatingTypeOK'
  BY DEF RatingInv, RatingTypeOK, RefreshStates
<1>2. FetchesCurrent'
  <2>1. ASSUME NEW g \in Refreshes
        PROVE  /\ refresh'[g].revision <= rating.revision
               /\ refresh'[g].value <= official[refresh'[g].handle]
               /\ refresh'[g].step = "fetched" /\ refresh'[g].revision = rating.revision
                    /\ refresh'[g].handle = rating.handle
                  => rating.value <= refresh'[g].value
    <3>1. refresh'[g] = IF g = f THEN r ELSE refresh[g]
      BY RefreshFields DEF RatingInv
    <3>. QED
      BY <3>1 DEF RatingInv, FetchesCurrent
  <2>. QED
    BY <2>1 DEF RatingInv, FetchesCurrent
<1>. QED
  BY <1>1, <1>2 DEF RatingInv

\* What a request does before it stores, and its end.
LEMMA RefreshKeeps ==
    ASSUME RatingInv, NEW f \in Refreshes, BeginRefresh(f) \/ FetchRating(f) \/ EndRefresh(f)
    PROVE  RatingInv'
<1>. USE RatingAssumption
<1>1. CASE BeginRefresh(f)
  <2>. DEFINE r == [step |-> "reading", handle |-> handle, revision |-> rating.revision, value |-> 0]
  <2>1. r \in RefreshStates
    BY RefreshFields DEF RatingInv, RefreshStates, Revisions
  <2>2. r.revision <= rating.revision /\ r.step = "reading" /\ r.value <= official[r.handle]
    BY RefreshFields DEF RatingInv
  <2>3. refresh' = [refresh EXCEPT ![f] = r] /\ UNCHANGED <<handle, official, rating>>
    BY <1>1 DEF BeginRefresh
  <2>. HIDE DEF r
  <2>. QED
    BY <2>1, <2>2, <2>3, RefreshMoves
<1>2. CASE FetchRating(f)
  <2>. DEFINE v == official[refresh[f].handle]
              r == [step |-> "fetched", handle |-> refresh[f].handle,
                    revision |-> refresh[f].revision, value |-> v]
  <2>1. refresh[f] \in RefreshStates /\ v \in 0 .. MaxRating
    BY RefreshFields DEF RatingInv
  <2>2. r \in RefreshStates
    BY <2>1 DEF RefreshStates
  <2>3. refresh' = [refresh EXCEPT ![f] = r] /\ UNCHANGED <<handle, official, rating>>
    <3>1. refresh' = [refresh EXCEPT ![f].step = "fetched", ![f].value = v]
      BY <1>2 DEF FetchRating
    <3>2. refresh' = [refresh EXCEPT ![f] = [[refresh[f] EXCEPT !.step = "fetched"] EXCEPT !.value = v]]
      BY <2>1, <3>1, RefreshFields DEF RatingInv
    <3>3. [[refresh[f] EXCEPT !.step = "fetched"] EXCEPT !.value = v] = r
      <4>. DEFINE s == [refresh[f] EXCEPT !.step = "fetched"]
      <4>1. s = [step |-> "fetched", handle |-> refresh[f].handle,
                 revision |-> refresh[f].revision, value |-> refresh[f].value]
        BY <2>1 DEF RefreshStates
      <4>. HIDE DEF s, v
      <4>2. [s EXCEPT !.value = v] = r
        BY <4>1
      <4>. QED
        BY <4>2 DEF s
    <3>. QED
      BY <1>2, <3>2, <3>3 DEF FetchRating
  <2>4. r.revision <= rating.revision
    BY DEF RatingInv, FetchesCurrent
  <2>6. r.value <= official[r.handle]
    BY <2>1
  <2>5. r.handle = rating.handle => rating.value <= r.value
    BY DEF RatingInv, FetchesCurrent
  <2>. HIDE DEF r
  <2>. QED
    BY <2>2, <2>3, <2>4, <2>5, <2>6, RefreshMoves
<1>3. CASE EndRefresh(f)
  <2>1. refresh' = [refresh EXCEPT ![f] = NoRefresh] /\ UNCHANGED <<handle, official, rating>>
    BY <1>3 DEF EndRefresh
  <2>. QED
    <3>1. /\ NoRefresh \in RefreshStates /\ NoRefresh.step = "idle"
          /\ NoRefresh.revision <= rating.revision /\ NoRefresh.value <= official[NoRefresh.handle]
      <4>1. NoRefresh \in RefreshStates /\ NoRefresh.step = "idle" /\ NoRefresh.revision = 0 /\ NoRefresh.value = 0
        BY NoRefreshFields DEF RatingInv
      <4>2. NoRefresh.handle \in Handles
        BY <4>1 DEF RefreshStates
      <4>. QED
        BY <4>1, <4>2, RefreshFields DEF RatingInv
    <3>. QED
      BY <2>1, <3>1, RefreshMoves
<1>. QED
  BY <1>1, <1>2, <1>3

\* A stored snapshot is of the account's handle, is the next one, and is not behind an
\* earlier one of the same handle.
LEMMA StoreMovesOn ==
    ASSUME RatingInv, NEW f \in Refreshes, StoreRating(f)
    PROVE  /\ rating'.revision = rating.revision + 1 /\ rating'.handle = handle
           /\ rating'.value = refresh[f].value /\ rating'.handle = refresh[f].handle
           /\ rating'.handle = rating.handle => rating'.value >= rating.value
<1>1. /\ rating' = [revision |-> refresh[f].revision + 1, handle |-> refresh[f].handle,
                    value |-> refresh[f].value]
      /\ refresh[f].step = "fetched" /\ refresh[f].revision = rating.revision
      /\ refresh[f].handle = handle
  BY DEF StoreRating, Base, SameAccount
<1>2. rating.value \in 0 .. MaxRating /\ refresh[f].value \in 0 .. MaxRating
  BY RefreshFields DEF RatingInv
<1>. QED
  BY <1>1, <1>2, RatingAssumption DEF RatingInv, FetchesCurrent

\* A step of storing keeps the invariant: what another request fetched is now stale.
LEMMA StoreKeeps == ASSUME RatingInv, NEW f \in Refreshes, StoreRating(f) PROVE RatingInv'
<1>. USE RatingAssumption
<1>1. /\ rating' = [revision |-> rating.revision + 1, handle |-> refresh[f].handle,
                    value |-> refresh[f].value]
      /\ rating.revision <= MaxRating
      /\ refresh' = [refresh EXCEPT ![f] = NoRefresh] /\ UNCHANGED <<handle, official>>
      /\ refresh[f].step = "fetched"
  BY DEF StoreRating, Base, SameAccount
<1>2. refresh[f] \in RefreshStates
  BY RefreshFields DEF RatingInv
<1>3. RatingTypeOK'
  BY <1>1, RefreshFields, NoRefreshFields
     DEF RatingInv, RatingTypeOK, RefreshStates, Revisions
<1>4. /\ rating'.revision = rating.revision + 1 /\ rating'.handle = refresh[f].handle
      /\ rating'.value = refresh[f].value
  BY <1>1
<1>5. rating'.value <= official'[rating'.handle]
  BY <1>1, <1>4 DEF RatingInv, FetchesCurrent
<1>6. ASSUME NEW g \in Refreshes
      PROVE  /\ refresh'[g].revision < rating'.revision
             /\ refresh'[g].value <= official'[refresh'[g].handle]
  <2>1. CASE g = f
    <3>1. refresh'[g] = NoRefresh
      BY <1>1, <2>1, RefreshFields DEF RatingInv
    <3>2. NoRefresh.revision = 0 /\ NoRefresh.value = 0 /\ NoRefresh.handle \in Handles
      BY NoRefreshFields DEF RatingInv, RefreshStates
    <3>. QED
      BY <1>1, <1>4, <3>1, <3>2, RefreshFields DEF RatingInv
  <2>2. CASE g # f
    <3>1. refresh'[g] = refresh[g]
      BY <1>1, <2>2, RefreshFields DEF RatingInv
    <3>. QED
      BY <1>1, <1>4, <3>1, RefreshFields DEF RatingInv, FetchesCurrent
  <2>. QED
    BY <2>1, <2>2
<1>7. rating'.revision \in Int /\ \A g \in Refreshes : refresh'[g].revision \in Int
  BY <1>3 DEF RatingTypeOK, Revisions
<1>. QED
  BY <1>3, <1>5, <1>6, <1>7 DEF RatingInv, FetchesCurrent

\* An account written again, and a rated contest.
LEMMA OutsideKeeps ==
    ASSUME RatingInv, NEW h \in Handles, UpsertAccount(h) \/ RateContest(h) PROVE RatingInv'
<1>. USE RatingAssumption
<1>1. CASE UpsertAccount(h)
  BY <1>1 DEF UpsertAccount, RatingInv, RatingTypeOK, FetchesCurrent
<1>2. CASE RateContest(h)
  <2>1. /\ official[h] < MaxRating /\ official' = [official EXCEPT ![h] = official[h] + 1]
        /\ UNCHANGED <<handle, rating, refresh>>
    BY <1>2 DEF RateContest
  <2>2. official' \in [Handles -> 0 .. MaxRating]
    BY <2>1, RefreshFields DEF RatingInv
  <2>3. RatingTypeOK'
    BY <2>1, <2>2 DEF RatingInv, RatingTypeOK
  <2>4. \A g \in Handles : official[g] <= official'[g] /\ official[g] \in Int /\ official'[g] \in Int
    BY <2>1, <2>2, RefreshFields DEF RatingInv
  <2>5. rating.value <= official'[rating.handle]
    BY <2>4, RefreshFields DEF RatingInv, FetchesCurrent
  <2>6. \A f \in Refreshes : refresh[f].value <= official'[refresh[f].handle]
    BY <2>4, RefreshFields DEF RatingInv, FetchesCurrent
  <2>. QED
    BY <2>1, <2>3, <2>5, <2>6 DEF RatingInv, FetchesCurrent
<1>. QED
  BY <1>1, <1>2

\* The invariant of the official rating holds of an account without a snapshot.
LEMMA RatingStarts == RatingInit => RatingInv
<1>. SUFFICES ASSUME RatingInit PROVE RatingInv
  OBVIOUS
<1>. USE RatingAssumption
<1>1. NoRefresh \in RefreshStates /\ NoRefresh.step = "idle" /\ NoRefresh.revision = 0 /\ NoRefresh.value = 0
  <2>1. (CHOOSE h \in Handles : TRUE) \in Handles
    BY DEF RatingInit
  <2>. QED
    BY <2>1 DEF NoRefresh, RefreshStates, Revisions
<1>2. NoRefresh.handle \in Handles
  BY <1>1 DEF RefreshStates
<1>3. RatingTypeOK
  BY <1>1 DEF RatingInit, RatingTypeOK, RefreshStates, Revisions
<1>. QED
  BY <1>1, <1>2, <1>3 DEF RatingInit, RatingInv, FetchesCurrent

\* Every step keeps it.
LEMMA RatingStepKeeps == ASSUME RatingInv, [RatingNext]_ratingVars PROVE RatingInv'
<1>1. CASE RatingNext
  BY <1>1, RefreshKeeps, StoreKeeps, OutsideKeeps DEF RatingNext
<1>2. CASE UNCHANGED ratingVars
  BY <1>2 DEF ratingVars, RatingInv, RatingTypeOK, FetchesCurrent
<1>. QED
  BY <1>1, <1>2

\* A step that moves the snapshot stores one of the account's handle that is not behind.
LEMMA RatingStepMovesOn ==
    ASSUME RatingInv, [RatingNext]_ratingVars, rating' # rating
    PROVE  /\ rating'.handle = handle
           /\ rating'.handle = rating.handle => rating'.value >= rating.value
<1>1. PICK f \in Refreshes : StoreRating(f)
  BY DEF RatingNext, ratingVars, BeginRefresh, FetchRating, EndRefresh, UpsertAccount, RateContest
<1>. QED
  BY <1>1, StoreMovesOn

-----------------------------------------------------------------------------
(* The credential bridge                                                   *)

\* A process at work is the one of the invocation at hand, whose caller waits, and was
\* given what that asks for; an operation that is done left what was asked.
OneChild ==
    /\ \A n \in Invocations :
        child[n].state \in {"working", "finished"} =>
            /\ n = invoke.made /\ Waiting /\ child[n].given = invoke.asked
            /\ child[n].state = "finished" => credential = invoke.asked
    /\ invoke.outcome = "done" => credential = invoke.asked

BridgeInv == BridgeTypeOK /\ OneChild

InvokeStates == [made : 0 .. MaxInvokes, asked : Secrets, outcome : BridgeOutcomes]
ChildStates == [state : {"none", "working", "finished", "closed"}, given : Secrets]

\* The types of the bridge, with the names of their values.
LEMMA BridgeFields ==
    ASSUME BridgeTypeOK
    PROVE  /\ credential \in Secrets /\ invoke \in InvokeStates
           /\ invoke.made \in 0 .. MaxInvokes /\ invoke.asked \in Secrets /\ invoke.outcome \in BridgeOutcomes
           /\ child \in [Invocations -> ChildStates]
           /\ \A n \in Invocations : child[n].state \in {"none", "working", "finished", "closed"}
                                      /\ child[n].given \in Secrets
           /\ stops \subseteq Reasons
  BY DEF BridgeTypeOK, InvokeStates, ChildStates

\* The types in one step.
LEMMA BridgeTypedAgain ==
    ASSUME credential' \in Secrets, invoke' \in InvokeStates,
           child' \in [Invocations -> ChildStates], stops' \subseteq Reasons
    PROVE  BridgeTypeOK'
  BY DEF BridgeTypeOK, InvokeStates, ChildStates

\* The next invocation, whether its process is spawned or not.
LEMMA InvokeKeeps == ASSUME BridgeInv, NEW secret \in Secrets, Invoke(secret) PROVE BridgeInv'
<1>. USE BridgeAssumption
<1>. DEFINE n == invoke.made + 1
<1>1. ~Waiting /\ n \in Invocations /\ stops' = {} /\ credential' = credential
  BY BridgeFields DEF BridgeInv, Invoke, Invocations
<1>2. \A m \in Invocations : child[m].state \notin {"working", "finished"}
  BY <1>1 DEF BridgeInv, OneChild
<1>3. CASE /\ invoke' = [made |-> n, asked |-> secret, outcome |-> "none"]
           /\ child' = [child EXCEPT ![n] = [state |-> "working", given |-> secret]]
  <2>1. invoke' \in InvokeStates /\ child' \in [Invocations -> ChildStates]
    BY <1>1, <1>3, BridgeFields DEF BridgeInv, InvokeStates, ChildStates, BridgeOutcomes, Invocations
  <2>2. BridgeTypeOK'
    BY <1>1, <2>1, BridgeFields, BridgeTypedAgain DEF BridgeInv
  <2>3. \A m \in Invocations : m # n => child'[m] = child[m]
    BY <1>3, BridgeFields DEF BridgeInv
  <2>4. child'[n].state = "working" /\ child'[n].given = secret
    BY <1>1, <1>3, BridgeFields DEF BridgeInv
  <2>5. invoke'.made = n /\ invoke'.asked = secret /\ invoke'.outcome = "none"
    BY <1>3
  <2>. HIDE DEF n
  <2>6. OneChild'
    BY <1>2, <2>3, <2>4, <2>5 DEF OneChild, Waiting
  <2>. QED
    BY <2>2, <2>6 DEF BridgeInv
<1>4. CASE /\ invoke' = [made |-> n, asked |-> secret, outcome |-> "failed"]
           /\ child' = child
  <2>1. invoke' \in InvokeStates
    BY <1>1, <1>4 DEF InvokeStates, BridgeOutcomes, Invocations
  <2>2. BridgeTypeOK'
    BY <1>1, <1>4, <2>1, BridgeFields, BridgeTypedAgain DEF BridgeInv
  <2>3. invoke'.outcome = "failed"
    BY <1>4
  <2>. QED
    BY <1>2, <1>4, <2>2, <2>3 DEF BridgeInv, OneChild
<1>. QED
  BY <1>3, <1>4 DEF Invoke

\* The process does its work while its caller waits.
LEMMA ChildWorksKeeps ==
    ASSUME BridgeInv, NEW n \in Invocations, ChildWorks(n)
    PROVE  BridgeInv' /\ Waiting /\ credential' = invoke.asked
<1>1. /\ child[n].state = "working" /\ credential' = child[n].given
      /\ child' = [child EXCEPT ![n].state = "finished"] /\ UNCHANGED <<invoke, stops>>
  BY DEF ChildWorks
<1>2. n = invoke.made /\ Waiting /\ child[n].given = invoke.asked
  BY <1>1 DEF BridgeInv, OneChild
<1>3. /\ child' \in [Invocations -> ChildStates]
      /\ child'[n].state = "finished" /\ child'[n].given = child[n].given
      /\ \A m \in Invocations : m # n => child'[m] = child[m]
  BY <1>1, BridgeFields DEF BridgeInv, ChildStates
<1>4. BridgeTypeOK'
  BY <1>1, <1>2, <1>3, BridgeFields, BridgeTypedAgain DEF BridgeInv
<1>5. OneChild'
  BY <1>1, <1>2, <1>3 DEF BridgeInv, OneChild, Waiting
<1>. QED
  BY <1>1, <1>2, <1>4, <1>5 DEF BridgeInv

\* A reason to stop leaves the answer to the end of the process.
LEMMA StopKeeps == ASSUME BridgeInv, NEW reason \in Reasons, StopChild(reason) PROVE BridgeInv'
<1>1. /\ invoke.outcome = "none" /\ stops' = stops \cup {reason}
      /\ invoke' = [invoke EXCEPT !.outcome = "none"] /\ UNCHANGED <<credential, child>>
  BY DEF StopChild, Waiting, Answers
<1>2. invoke' = invoke
  BY <1>1, BridgeFields DEF BridgeInv, InvokeStates
<1>3. BridgeTypeOK'
  BY <1>1, <1>2, BridgeFields, BridgeTypedAgain DEF BridgeInv
<1>. QED
  BY <1>1, <1>2, <1>3 DEF BridgeInv, OneChild, Waiting

\* The end of the process answers its caller.
LEMMA CloseKeeps == ASSUME BridgeInv, NEW n \in Invocations, ChildCloses(n) PROVE BridgeInv'
<1>1. /\ child[n].state \in {"working", "finished"} /\ UNCHANGED <<credential, stops>>
      /\ child' = [child EXCEPT ![n].state = "closed"]
  BY DEF ChildCloses
<1>2. n = invoke.made /\ Waiting /\ (child[n].state = "finished" => credential = invoke.asked)
  BY <1>1 DEF BridgeInv, OneChild
<1>3. PICK clean \in {FALSE, child[n].state = "finished"} :
          invoke' = [invoke EXCEPT !.outcome = OutcomeOf(clean)]
  BY <1>1, <1>2 DEF ChildCloses, BridgeInv, OneChild
<1>4. /\ invoke'.made = invoke.made /\ invoke'.asked = invoke.asked
      /\ invoke'.outcome = OutcomeOf(clean) /\ invoke' \in InvokeStates
  <2>1. OutcomeOf(clean) \in BridgeOutcomes
    BY DEF OutcomeOf, OutcomeOfExit, BridgeOutcomes
  <2>. QED
    BY <1>3, <2>1, BridgeFields DEF BridgeInv, InvokeStates
<1>5. /\ child' \in [Invocations -> ChildStates] /\ child'[n].state = "closed"
      /\ \A m \in Invocations : m # n => child'[m] = child[m]
  BY <1>1, BridgeFields DEF BridgeInv, ChildStates
<1>6. BridgeTypeOK'
  BY <1>1, <1>4, <1>5, BridgeFields, BridgeTypedAgain DEF BridgeInv
<1>7. \A m \in Invocations : child'[m].state \notin {"working", "finished"}
  BY <1>1, <1>2, <1>5 DEF BridgeInv, OneChild
<1>8. invoke'.outcome = "done" => credential' = invoke'.asked
  <2>1. ASSUME OutcomeOf(clean) = "done" PROVE child[n].state = "finished"
    <3>1. clean = TRUE
      BY <2>1 DEF OutcomeOf, OutcomeOfExit
    <3>. QED
      BY <3>1
  <2>. QED
    BY <1>1, <1>2, <1>4, <2>1 DEF BridgeInv, OneChild
<1>. QED
  BY <1>6, <1>7, <1>8 DEF BridgeInv, OneChild

\* Before the first invocation nothing runs.
LEMMA BridgeStarts == BridgeInit => BridgeInv
  BY BridgeAssumption DEF BridgeInit, BridgeInv, BridgeTypeOK, OneChild, BridgeOutcomes, Reasons

\* Every step keeps the bridge's invariant.
LEMMA BridgeStepKeeps == ASSUME BridgeInv, [BridgeNext]_bridgeVars PROVE BridgeInv'
<1>1. CASE BridgeNext
  BY <1>1, InvokeKeeps, StopKeeps, ChildWorksKeeps, CloseKeeps DEF BridgeNext
<1>2. CASE UNCHANGED bridgeVars
  BY <1>2 DEF bridgeVars, BridgeInv, BridgeTypeOK, OneChild, Waiting
<1>. QED
  BY <1>1, <1>2

\* The stored credential moves only under a caller that waits, to what it asked for.
LEMMA BridgeStepAnswers ==
    ASSUME BridgeInv, [BridgeNext]_bridgeVars, credential' # credential
    PROVE  Waiting /\ credential' = invoke.asked
<1>1. PICK n \in Invocations : ChildWorks(n)
  BY DEF BridgeNext, bridgeVars, Invoke, StopChild, ChildCloses
<1>. QED
  BY <1>1, ChildWorksKeeps

-----------------------------------------------------------------------------
(* Training plans.                                                               *)

\* Until a draft is complete its tasks and what is left of the pool are the candidates,
\* its tasks are on the days begun, the days that ended add up, no day exceeds the
\* budget and no unmet minute is reported of a day to come.
DraftInOrder ==
    plan.status = "building" =>
        /\ Len(pool) + Len(plan.tasks) <= MaxPool
        /\ \A i \in DOMAIN plan.tasks : plan.tasks[i].day <= day
        /\ \A d \in Days : Planned(plan.tasks, d) <= Budget
        /\ \A d \in 1..(day - 1) : Planned(plan.tasks, d) + plan.unmet[d] = Budget

TrainingInv == PlanStateOK /\ DraftInOrder /\ DaysAddUp /\ NoAvoidableGap

\* Assumptions on the bounds of plans, one by one.
LEMMA PlanBounds == Horizon \in Nat /\ Budget \in Nat /\ MaxTasks \in Nat /\ MaxPool \in Nat
BY TrainingAssumption

\* A bounded sequence is a function on the numbers up to its length.
LEMMA BoundedSeqs ==
    ASSUME NEW S, NEW n \in Nat, NEW s \in BoundedSeq(S, n)
    PROVE s \in Seq(S) /\ Len(s) \in 0..n /\ DOMAIN s = 1..Len(s) /\ \A i \in 1..Len(s) : s[i] \in S
<1>1. PICK m \in 0..n : s \in [1..m -> S]
  BY DEF BoundedSeq, SeqOf
<1>2. s \in Seq(S)
  BY <1>1
<1>3. Len(s) = m
  BY <1>1, <1>2
<1> QED BY <1>1, <1>2, <1>3

\* A sequence that is not too long is a bounded one.
LEMMA SeqsBounded ==
    ASSUME NEW S, NEW n \in Nat, NEW s \in Seq(S), Len(s) <= n
    PROVE s \in BoundedSeq(S, n)
<1>1. Len(s) \in 0..n /\ s \in [1..Len(s) -> S]
  OBVIOUS
<1> QED BY <1>1 DEF BoundedSeq, SeqOf

\* The minutes of tasks with a duration, as a set.
MinutesOn(tasks, d) == UNION {{i} \X (1..tasks[i].minutes) : i \in OnDay(tasks, d)}

\* The minutes of a day are finitely many.
LEMMA MinutesFinite ==
    ASSUME NEW n \in Nat, NEW tasks, DOMAIN tasks = 1..n,
           \A i \in 1..n : tasks[i].minutes \in Nat, NEW d
    PROVE /\ IsFiniteSet(MinutesOn(tasks, d))
          /\ Planned(tasks, d) = Cardinality(MinutesOn(tasks, d)) /\ Planned(tasks, d) \in Nat
<1>1. IsFiniteSet(1..n)
  <2>1. 1 \in Int /\ n \in Int
    OBVIOUS
  <2> QED BY ONLY <2>1, FS_Interval
<1>2. IsFiniteSet(OnDay(tasks, d))
  <2>1. OnDay(tasks, d) \subseteq 1..n
    BY DEF OnDay
  <2> QED BY <1>1, <2>1, FS_Subset
<1> DEFINE pieces == {{i} \X (1..tasks[i].minutes) : i \in OnDay(tasks, d)}
<1>3. IsFiniteSet(pieces)
  <2> DEFINE piece(i) == {i} \X (1..tasks[i].minutes)
             f == [i \in OnDay(tasks, d) |-> piece(i)]
  <2>1. f \in Surjection(OnDay(tasks, d), pieces)
    BY DEF Surjection
  <2> HIDE DEF f, pieces
  <2> QED BY <1>2, <2>1, FS_Surjection
<1>4. \A p \in pieces : IsFiniteSet(p)
  <2> SUFFICES ASSUME NEW i \in OnDay(tasks, d) PROVE IsFiniteSet({i} \X (1..tasks[i].minutes))
    OBVIOUS
  <2>1. 1 \in Int /\ tasks[i].minutes \in Int
    BY DEF OnDay
  <2>2. IsFiniteSet(1..tasks[i].minutes)
    BY ONLY <2>1, FS_Interval
  <2>3. IsFiniteSet({i})
    BY FS_Singleton
  <2> QED BY <2>2, <2>3, FS_Product
<1>5. IsFiniteSet(UNION pieces)
  <2> HIDE DEF pieces
  <2> QED BY <1>3, <1>4, FS_UNION
<1>6. IsFiniteSet(MinutesOn(tasks, d))
  BY <1>5 DEF MinutesOn
<1>7. Planned(tasks, d) = Cardinality(MinutesOn(tasks, d))
  BY DEF Planned, MinutesOn
<1>8. Cardinality(MinutesOn(tasks, d)) \in Nat
  BY <1>6, FS_CardinalityType
<1> QED BY <1>6, <1>7, <1>8

\* A task more adds its minutes to its day and nothing to another.
LEMMA PlannedWithTask ==
    ASSUME NEW n \in Nat, NEW tasks, DOMAIN tasks = 1..n,
           \A i \in 1..n : tasks[i].minutes \in Nat,
           NEW more, DOMAIN more = 1..(n + 1), \A i \in 1..n : more[i] = tasks[i],
           more[n + 1].minutes \in Nat, NEW d
    PROVE /\ more[n + 1].day = d => Planned(more, d) = Planned(tasks, d) + more[n + 1].minutes
          /\ more[n + 1].day # d => Planned(more, d) = Planned(tasks, d)
<1>1. \A i \in 1..(n + 1) : more[i].minutes \in Nat
  OBVIOUS
<1>2. /\ IsFiniteSet(MinutesOn(tasks, d))
      /\ Planned(tasks, d) = Cardinality(MinutesOn(tasks, d)) /\ Planned(tasks, d) \in Nat
  BY MinutesFinite
<1>3. Planned(more, d) = Cardinality(MinutesOn(more, d))
  <2>1. n + 1 \in Nat
    OBVIOUS
  <2> QED BY ONLY <2>1, <1>1, DOMAIN more = 1..(n + 1), MinutesFinite
<1>4. OnDay(tasks, d) \subseteq 1..n
  BY DEF OnDay
<1>5. ASSUME more[n + 1].day = d PROVE Planned(more, d) = Planned(tasks, d) + more[n + 1].minutes
  <2> DEFINE new == {n + 1} \X (1..more[n + 1].minutes)
  <2>1. OnDay(more, d) = OnDay(tasks, d) \cup {n + 1}
    BY <1>5 DEF OnDay
  <2>2. \A i \in OnDay(tasks, d) : more[i] = tasks[i]
    BY <1>4
  <2>3. MinutesOn(more, d) = MinutesOn(tasks, d) \cup new
    BY <2>1, <2>2 DEF MinutesOn
  <2>4. MinutesOn(tasks, d) \cap new = {}
    BY <1>4 DEF MinutesOn
  <2>5. IsFiniteSet(new) /\ Cardinality(new) = more[n + 1].minutes
    <3>1. 1 \in Int /\ more[n + 1].minutes \in Int
      OBVIOUS
    <3>2. IsFiniteSet(1..more[n + 1].minutes)
          /\ Cardinality(1..more[n + 1].minutes)
                = IF 1 > more[n + 1].minutes THEN 0 ELSE more[n + 1].minutes - 1 + 1
      BY ONLY <3>1, FS_Interval
    <3>3. IsFiniteSet({n + 1}) /\ Cardinality({n + 1}) = 1
      BY FS_Singleton
    <3>4. IsFiniteSet(new)
          /\ Cardinality(new) = Cardinality({n + 1}) * Cardinality(1..more[n + 1].minutes)
      BY <3>2, <3>3, FS_Product
    <3> HIDE DEF new
    <3> QED BY <3>2, <3>3, <3>4
  <2> HIDE DEF new
  <2>6. Cardinality(MinutesOn(tasks, d) \cup new)
          = Cardinality(MinutesOn(tasks, d)) + Cardinality(new) - Cardinality(MinutesOn(tasks, d) \cap new)
    BY <1>2, <2>5, FS_Union
  <2>7. Cardinality({}) = 0
    BY FS_EmptySet
  <2>8. Cardinality(MinutesOn(more, d)) = Cardinality(MinutesOn(tasks, d)) + Cardinality(new) - Cardinality({})
    BY ONLY <2>3, <2>4, <2>6
  <2>9. Cardinality(MinutesOn(tasks, d)) \in Nat /\ Cardinality(new) \in Nat
    BY <1>2, <2>5
  <2> QED BY ONLY <1>2, <1>3, <2>5, <2>7, <2>8, <2>9
<1>6. ASSUME more[n + 1].day # d PROVE Planned(more, d) = Planned(tasks, d)
  <2>1. OnDay(more, d) = OnDay(tasks, d)
    BY <1>6 DEF OnDay
  <2>2. \A i \in OnDay(tasks, d) : more[i] = tasks[i]
    BY <1>4
  <2>3. MinutesOn(more, d) = MinutesOn(tasks, d)
    BY <2>1, <2>2 DEF MinutesOn
  <2> QED BY <1>2, <1>3, <2>3
<1> QED BY <1>5, <1>6

\* The minutes of a day depend on the days and the minutes of the tasks only.
LEMMA PlannedAlike ==
    ASSUME NEW tasks, NEW others, DOMAIN tasks = DOMAIN others,
           \A i \in DOMAIN tasks : others[i].day = tasks[i].day /\ others[i].minutes = tasks[i].minutes,
           NEW d
    PROVE Planned(others, d) = Planned(tasks, d) /\ OnDay(others, d) = OnDay(tasks, d)
<1>1. OnDay(others, d) = OnDay(tasks, d) /\ OnDay(tasks, d) \subseteq DOMAIN tasks
  BY DEF OnDay
<1>2. MinutesOn(others, d) = MinutesOn(tasks, d)
  BY <1>1 DEF MinutesOn
<1> QED BY <1>1, <1>2 DEF Planned, MinutesOn

\* Nothing is planned on a day without tasks.
LEMMA NothingPlanned ==
    ASSUME NEW tasks, NEW d, OnDay(tasks, d) = {}
    PROVE Planned(tasks, d) = 0
<1>1. UNION {{i} \X (1..tasks[i].minutes) : i \in OnDay(tasks, d)} = {}
  OBVIOUS
<1>2. Cardinality({}) = 0
  BY FS_EmptySet
<1> QED BY <1>1, <1>2 DEF Planned

\* A plan by its parts.
LEMMA PlanParts ==
    ASSUME PlanStateOK
    PROVE /\ plan.tasks \in BoundedSeq(Tasks, MaxPool) /\ plan.unmet \in [Days -> 0..Budget]
          /\ plan.status \in {"building", "draft", "adopted"} /\ plan.source \in {"rule", "model"}
          /\ plan = [tasks |-> plan.tasks, unmet |-> plan.unmet, status |-> plan.status, source |-> plan.source]
          /\ plan.tasks \in Seq(Tasks) /\ Len(plan.tasks) \in 0..MaxPool
          /\ DOMAIN plan.tasks = 1..Len(plan.tasks)
          /\ \A i \in 1..Len(plan.tasks) : plan.tasks[i] \in Tasks
          /\ pool \in Seq(Minutes) /\ Len(pool) \in 0..MaxPool
          /\ DOMAIN pool = 1..Len(pool) /\ \A i \in 1..Len(pool) : pool[i] \in Minutes
<1> DEFINE seqs == BoundedSeq(Tasks, MaxPool)
           days == [Days -> 0..Budget]
<1>1. plan \in [tasks : seqs, unmet : days, status : {"building", "draft", "adopted"}, source : {"rule", "model"}]
  BY DEF PlanStateOK
<1> HIDE DEF seqs, days
<1>2. /\ plan.tasks \in seqs /\ plan.unmet \in days
      /\ plan.status \in {"building", "draft", "adopted"} /\ plan.source \in {"rule", "model"}
      /\ plan = [tasks |-> plan.tasks, unmet |-> plan.unmet, status |-> plan.status, source |-> plan.source]
  BY <1>1
<1>3. plan.tasks \in BoundedSeq(Tasks, MaxPool) /\ pool \in BoundedSeq(Minutes, MaxPool)
  BY <1>2 DEF seqs, PlanStateOK
<1>4. /\ plan.tasks \in Seq(Tasks) /\ Len(plan.tasks) \in 0..MaxPool
      /\ DOMAIN plan.tasks = 1..Len(plan.tasks)
      /\ \A i \in 1..Len(plan.tasks) : plan.tasks[i] \in Tasks
  BY <1>3, PlanBounds, BoundedSeqs
<1>5. /\ pool \in Seq(Minutes) /\ Len(pool) \in 0..MaxPool
      /\ DOMAIN pool = 1..Len(pool) /\ \A i \in 1..Len(pool) : pool[i] \in Minutes
  BY <1>3, PlanBounds, BoundedSeqs
<1> QED BY <1>2, <1>3, <1>4, <1>5 DEF days

\* The tasks of a plan have a day and a duration.
LEMMA TaskParts ==
    ASSUME NEW t \in Tasks
    PROVE /\ t.day \in Nat /\ t.day \in Days /\ t.minutes \in Nat /\ t.minutes \in 1..Budget
          /\ t.status \in {"planned", "done", "skipped"}
          /\ t = [day |-> t.day, minutes |-> t.minutes, status |-> t.status]
BY PlanBounds DEF Tasks, Days

\* What is planned is a number of minutes, and what is left of a budget that is kept too.
LEMMA PlannedOfTasks ==
    ASSUME NEW tasks \in BoundedSeq(Tasks, MaxPool), NEW d
    PROVE Planned(tasks, d) \in Nat /\ IsFiniteSet(OnDay(tasks, d)) /\ Cardinality(OnDay(tasks, d)) \in Nat
<1>1. PICK n \in Nat : n = Len(tasks) /\ DOMAIN tasks = 1..n /\ \A i \in 1..n : tasks[i] \in Tasks
  BY PlanBounds, BoundedSeqs
<1>2. \A i \in 1..n : tasks[i].minutes \in Nat
  BY <1>1, TaskParts
<1>3. Planned(tasks, d) \in Nat
  BY <1>1, <1>2, MinutesFinite
<1>4. IsFiniteSet(1..n)
  <2>1. 1 \in Int /\ n \in Int
    OBVIOUS
  <2> QED BY ONLY <2>1, FS_Interval
<1>5. IsFiniteSet(OnDay(tasks, d))
  <2>1. OnDay(tasks, d) \subseteq 1..n
    BY <1>1 DEF OnDay
  <2> QED BY <1>4, <2>1, FS_Subset
<1> QED BY <1>3, <1>5, FS_CardinalityType

\* If no candidate is the first that fits, none fits.
LEMMA NoneFits ==
    ASSUME PlanStateOK, NEW left \in Nat, FirstFit(left) = {}
    PROVE \A i \in DOMAIN pool : pool[i] > left
<1> DEFINE fitting == {i \in DOMAIN pool : pool[i] <= left}
<1>1. /\ DOMAIN pool = 1..Len(pool) /\ Len(pool) \in Nat
      /\ \A i \in DOMAIN pool : pool[i] \in Nat
  BY PlanParts, PlanBounds DEF Minutes
<1>2. SUFFICES ASSUME fitting # {} PROVE FALSE
  BY <1>1
<1>3. fitting \in SUBSET Nat
  BY <1>1
<1>4. PICK i \in fitting : \A j \in fitting : i <= j
  <2> HIDE DEF fitting
  <2> QED BY <1>2, <1>3, LeastOf
<1>5. i \in FirstFit(left)
  <2>1. ASSUME NEW j \in 1..(i - 1) PROVE pool[j] > left
    <3>1. j \in DOMAIN pool /\ j < i /\ i \in Nat
      BY <1>1
    <3>2. j \notin fitting
      BY <1>4, <3>1
    <3> QED BY <3>1, <3>2, <1>1
  <2> QED BY <2>1 DEF FirstFit
<1> QED BY <1>5

\* At first nothing is planned.
LEMMA PlansStart == ASSUME PlanningInit PROVE TrainingInv
<1>1. /\ pool \in BoundedSeq(Minutes, MaxPool) /\ day = 1
      /\ plan = [tasks |-> <<>>, unmet |-> [d \in Days |-> 0], status |-> "building", source |-> "rule"]
  BY DEF PlanningInit
<1>2. plan.tasks = <<>> /\ plan.status = "building" /\ plan.unmet = [d \in Days |-> 0] /\ plan.source = "rule"
  BY <1>1
<1>3. PlanStateOK
  <2>1. <<>> \in BoundedSeq(Tasks, MaxPool)
    <3>1. <<>> \in Seq(Tasks) /\ Len(<<>>) <= MaxPool
      BY PlanBounds
    <3> QED BY <3>1, PlanBounds, SeqsBounded
  <2>2. [d \in Days |-> 0] \in [Days -> 0..Budget]
    BY PlanBounds
  <2>3. day \in 1..(Horizon + 1)
    BY <1>1, PlanBounds
  <2> QED BY <1>1, <2>1, <2>2, <2>3 DEF PlanStateOK
<1>4. DraftInOrder
  <2>1. Len(pool) + Len(plan.tasks) <= MaxPool
    BY <1>2, <1>3, PlanParts, PlanBounds
  <2>2. \A d \in Days : Planned(plan.tasks, d) <= Budget
    <3> TAKE d \in Days
    <3>1. OnDay(plan.tasks, d) = {}
      BY <1>2 DEF OnDay
    <3>2. Planned(plan.tasks, d) = 0
      BY <3>1, NothingPlanned
    <3> QED BY <3>2, PlanBounds
  <2> QED BY <1>1, <1>2, <2>1, <2>2 DEF DraftInOrder
<1>5. DaysAddUp /\ NoAvoidableGap
  BY <1>1, <1>2 DEF DaysAddUp, NoAvoidableGap
<1> QED BY <1>3, <1>4, <1>5 DEF TrainingInv

\* The pool without one of its candidates.
LEMMA PoolWithout ==
    ASSUME NEW n \in Nat, NEW h \in Seq(Minutes), Len(h) = n, NEW i \in 1..n
    PROVE /\ RemoveAt(h, i) \in Seq(Minutes) /\ Len(RemoveAt(h, i)) = n - 1
          /\ \A j \in DOMAIN RemoveAt(h, i) : \E k \in DOMAIN h : RemoveAt(h, i)[j] = h[k]
<1> DEFINE front == SubSeq(h, 1, i - 1)
           back == SubSeq(h, i + 1, n)
<1>1. RemoveAt(h, i) = front \o back
  BY DEF RemoveAt
<1>2. /\ front \in Seq(Minutes) /\ Len(front) = i - 1
      /\ \A j \in 1..(i - 1) : front[j] = h[j]
  OBVIOUS
<1>3. /\ back \in Seq(Minutes) /\ Len(back) = n - i
      /\ \A j \in 1..(n - i) : back[j] = h[i + j]
  OBVIOUS
<1> HIDE DEF front, back
<1>4. /\ front \o back \in Seq(Minutes) /\ Len(front \o back) = n - 1
      /\ \A j \in 1..(n - 1) : (front \o back)[j] = IF j <= i - 1 THEN front[j] ELSE back[j - (i - 1)]
  BY <1>2, <1>3
<1>5. ASSUME NEW j \in 1..(n - 1) PROVE \E k \in 1..n : (front \o back)[j] = h[k]
  <2>1. CASE j <= i - 1
    BY <2>1, <1>2, <1>4
  <2>2. CASE ~(j <= i - 1)
    <3>1. j - (i - 1) \in 1..(n - i) /\ i + (j - (i - 1)) \in 1..n
      BY <2>2
    <3>2. back[j - (i - 1)] = h[i + (j - (i - 1))]
      BY <3>1, <1>3
    <3> QED BY <2>2, <3>1, <3>2, <1>4
  <2> QED BY <2>1, <2>2
<1>6. DOMAIN (front \o back) = 1..(n - 1) /\ DOMAIN h = 1..n
  BY <1>4
<1> QED BY <1>1, <1>4, <1>5, <1>6

\* Scheduling the best candidate that fits keeps the draft in order.
LEMMA SchedulingKeeps == ASSUME TrainingInv, ScheduleTask PROVE TrainingInv'
<1>1. /\ plan.status = "building" /\ day <= Horizon /\ day' = day
  BY DEF ScheduleTask, Building
<1>2. PICK i \in FirstFit(Left) :
         /\ plan' = [plan EXCEPT !.tasks = Append(@, [day |-> day, minutes |-> pool[i], status |-> "planned"])]
         /\ pool' = RemoveAt(pool, i)
  BY DEF ScheduleTask
<1>3. PlanStateOK /\ DraftInOrder /\ NoAvoidableGap
  BY DEF TrainingInv
<1>4. PICK tasks : tasks = plan.tasks
  OBVIOUS
<1>5. PICK n \in Nat : n = Len(tasks)
  BY <1>3, <1>4, PlanParts, PlanBounds
<1>6. /\ tasks \in Seq(Tasks) /\ n <= MaxPool /\ DOMAIN tasks = 1..n
      /\ \A k \in 1..n : tasks[k] \in Tasks
  BY <1>3, <1>4, <1>5, PlanParts, PlanBounds
<1>7. PICK m \in Nat : m = Len(pool)
  BY <1>3, PlanParts, PlanBounds
<1>8. /\ pool \in Seq(Minutes) /\ DOMAIN pool = 1..m /\ \A k \in 1..m : pool[k] \in Minutes
      /\ m + n <= MaxPool
  BY <1>1, <1>3, <1>4, <1>5, <1>7, PlanParts DEF DraftInOrder
<1>9. day \in Days /\ day \in Nat
  BY <1>1, <1>3, PlanBounds DEF PlanStateOK, Days
<1>10. /\ i \in 1..m /\ pool[i] <= Left /\ pool[i] \in Nat /\ 1 <= pool[i]
       /\ Planned(tasks, day) \in Nat /\ Left = Budget - Planned(tasks, day)
  BY <1>2, <1>3, <1>4, <1>8, PlanParts, PlannedOfTasks, PlanBounds DEF FirstFit, Left, Minutes
<1> DEFINE task == [day |-> day, minutes |-> pool[i], status |-> "planned"]
<1>11. task \in Tasks /\ task.day = day /\ task.minutes = pool[i]
  BY <1>9, <1>10, PlanBounds DEF Tasks
<1>12. PICK more : more = Append(tasks, task)
  OBVIOUS
<1>13. plan' = [tasks |-> more, unmet |-> plan.unmet, status |-> "building", source |-> plan.source]
  BY <1>1, <1>2, <1>3, <1>4, <1>12, PlanParts
<1> HIDE DEF task
<1>14. /\ more \in Seq(Tasks) /\ Len(more) = n + 1 /\ DOMAIN more = 1..(n + 1)
       /\ \A k \in 1..n : more[k] = tasks[k]
       /\ more[n + 1] = task
  BY <1>5, <1>6, <1>11, <1>12
<1>15. plan'.tasks = more /\ plan'.unmet = plan.unmet /\ plan'.status = "building" /\ plan'.source = plan.source
  BY <1>13
<1>16. PICK rest : rest = RemoveAt(pool, i) /\ rest = pool'
  BY <1>2
<1>17. /\ rest \in Seq(Minutes) /\ Len(rest) = m - 1
       /\ \A j \in DOMAIN rest : \E k \in DOMAIN pool : rest[j] = pool[k]
  <2>1. pool \in Seq(Minutes) /\ Len(pool) = m /\ i \in 1..m
    BY <1>7, <1>8, <1>10
  <2>2. /\ RemoveAt(pool, i) \in Seq(Minutes) /\ Len(RemoveAt(pool, i)) = m - 1
        /\ \A j \in DOMAIN RemoveAt(pool, i) : \E k \in DOMAIN pool : RemoveAt(pool, i)[j] = pool[k]
    BY ONLY <2>1, PoolWithout
  <2> QED BY <2>2, <1>16
<1>18. \A d : Planned(tasks, d) \in Nat
               /\ Planned(more, d) = IF d = day THEN Planned(tasks, d) + pool[i] ELSE Planned(tasks, d)
  <2> TAKE d
  <2>1. /\ \A k \in 1..n : tasks[k].minutes \in Nat
        /\ more[n + 1].minutes \in Nat /\ more[n + 1].day = day /\ more[n + 1].minutes = pool[i]
    BY <1>6, <1>10, <1>11, <1>14, TaskParts
  <2>2. Planned(tasks, d) \in Nat
    BY <1>3, <1>4, PlanParts, PlannedOfTasks
  <2>3. /\ more[n + 1].day = d => Planned(more, d) = Planned(tasks, d) + more[n + 1].minutes
        /\ more[n + 1].day # d => Planned(more, d) = Planned(tasks, d)
    <3>1. DOMAIN tasks = 1..n /\ DOMAIN more = 1..(n + 1) /\ \A k \in 1..n : more[k] = tasks[k]
      BY <1>6, <1>14
    <3> QED BY ONLY <2>1, <3>1, PlannedWithTask
  <2> QED BY <2>1, <2>2, <2>3
<1>19. \A d \in 1..(day - 1) : OnDay(more, d) = OnDay(tasks, d) /\ Planned(more, d) = Planned(tasks, d)
  <2> TAKE d \in 1..(day - 1)
  <2>1. d # day
    BY <1>9
  <2>2. OnDay(more, d) = OnDay(tasks, d)
    BY <2>1, <1>6, <1>11, <1>14 DEF OnDay
  <2> QED BY <2>1, <2>2, <1>18
<1>20. PlanStateOK'
  <2>1. more \in BoundedSeq(Tasks, MaxPool)
    BY <1>8, <1>10, <1>14, PlanBounds, SeqsBounded
  <2>2. rest \in BoundedSeq(Minutes, MaxPool)
    BY <1>8, <1>17, PlanBounds, SeqsBounded
  <2>3. plan' \in [tasks : BoundedSeq(Tasks, MaxPool), unmet : [Days -> 0..Budget],
                   status : {"building", "draft", "adopted"}, source : {"rule", "model"}]
    BY <2>1, <1>3, <1>13, PlanParts
  <2> QED BY <2>2, <2>3, <1>1, <1>3, <1>16 DEF PlanStateOK
<1>21. DraftInOrder'
  <2>1. Len(rest) + Len(more) <= MaxPool
    BY <1>8, <1>14, <1>17, PlanBounds
  <2>2. \A k \in DOMAIN more : more[k].day <= day
    <3> TAKE k \in DOMAIN more
    <3>1. CASE k = n + 1
      BY <3>1, <1>9, <1>11, <1>14
    <3>2. CASE k # n + 1
      <4>1. k \in DOMAIN tasks /\ more[k] = tasks[k]
        BY <3>2, <1>6, <1>14
      <4> QED BY <4>1, <1>1, <1>3, <1>4 DEF DraftInOrder
    <3> QED BY <3>1, <3>2
  <2>3. \A d \in Days : Planned(more, d) <= Budget
    BY <1>1, <1>3, <1>4, <1>10, <1>18, PlanBounds DEF DraftInOrder
  <2>4. \A d \in 1..(day - 1) : Planned(more, d) + plan.unmet[d] = Budget
    BY <1>1, <1>3, <1>4, <1>19 DEF DraftInOrder
  <2> QED BY <2>1, <2>2, <2>3, <2>4, <1>1, <1>15, <1>16 DEF DraftInOrder
<1>22. DaysAddUp'
  BY <1>15 DEF DaysAddUp
<1>23. NoAvoidableGap'
  <2> SUFFICES ASSUME NEW d \in 1..(day - 1)
               PROVE \/ Cardinality(OnDay(more, d)) >= MaxTasks
                     \/ \A j \in DOMAIN rest : rest[j] > plan.unmet[d]
    BY <1>1, <1>15, <1>16 DEF NoAvoidableGap
  <2>1. \/ Cardinality(OnDay(tasks, d)) >= MaxTasks
        \/ \A k \in DOMAIN pool : pool[k] > plan.unmet[d]
    BY <1>1, <1>3, <1>4 DEF NoAvoidableGap
  <2> QED BY <2>1, <1>17, <1>19
<1> QED BY <1>20, <1>21, <1>22, <1>23 DEF TrainingInv

\* Ending a day keeps the draft in order.
LEMMA EndingDayKeeps == ASSUME TrainingInv, EndDay PROVE TrainingInv'
<1>1. /\ plan.status = "building" /\ day <= Horizon /\ day' = day + 1 /\ pool' = pool
      /\ ~DayHasRoom \/ FirstFit(Left) = {}
      /\ plan' = [plan EXCEPT !.unmet[day] = Left]
  BY DEF EndDay, Building
<1>2. PlanStateOK /\ DraftInOrder /\ NoAvoidableGap
  BY DEF TrainingInv
<1>3. day \in Days /\ day \in Nat /\ day' \in 1..(Horizon + 1)
  BY <1>1, <1>2, PlanBounds DEF PlanStateOK, Days
<1>4. PICK tasks, unmet : tasks = plan.tasks /\ unmet = [plan.unmet EXCEPT ![day] = Left]
  OBVIOUS
<1>5. plan' = [tasks |-> tasks, unmet |-> unmet, status |-> "building", source |-> plan.source]
  BY <1>1, <1>2, <1>4, PlanParts
<1>6. plan'.tasks = tasks /\ plan'.unmet = unmet /\ plan'.status = "building"
  BY <1>5
<1>7. Left = Budget - Planned(tasks, day) /\ Planned(tasks, day) \in Nat /\ Planned(tasks, day) <= Budget
  BY <1>1, <1>2, <1>3, <1>4, PlanParts, PlannedOfTasks DEF Left, DraftInOrder
<1>8. Left \in 0..Budget
  BY <1>7, PlanBounds
<1>9. /\ unmet \in [Days -> 0..Budget] /\ unmet[day] = Left
      /\ \A d \in Days : d # day => unmet[d] = plan.unmet[d]
  <2>1. plan.unmet \in [Days -> 0..Budget]
    BY <1>2, PlanParts
  <2> QED BY <2>1, <1>3, <1>4, <1>8
<1>10. \A d \in 1..(day' - 1) : d \in Days /\ (d = day \/ d \in 1..(day - 1))
  BY <1>1, <1>3, PlanBounds DEF Days
<1>11. PlanStateOK'
  <2>1. plan' \in [tasks : BoundedSeq(Tasks, MaxPool), unmet : [Days -> 0..Budget],
                   status : {"building", "draft", "adopted"}, source : {"rule", "model"}]
    BY <1>2, <1>4, <1>5, <1>9, PlanParts
  <2> QED BY <2>1, <1>1, <1>2, <1>3 DEF PlanStateOK
<1>12. DraftInOrder'
  <2>1. \A i \in DOMAIN tasks : tasks[i].day <= day + 1
    <3> TAKE i \in DOMAIN tasks
    <3>1. tasks[i].day \in Nat /\ tasks[i].day <= day
      BY <1>1, <1>2, <1>4, PlanParts, TaskParts DEF DraftInOrder
    <3> QED BY <3>1, <1>3
  <2>2. \A d \in 1..(day' - 1) : Planned(tasks, d) + unmet[d] = Budget
    <3> TAKE d \in 1..(day' - 1)
    <3>1. CASE d = day
      BY <3>1, <1>7, <1>9, PlanBounds
    <3>2. CASE d # day
      <4>1. d \in 1..(day - 1) /\ unmet[d] = plan.unmet[d]
        BY <3>2, <1>9, <1>10
      <4> QED BY <4>1, <1>1, <1>2, <1>4 DEF DraftInOrder
    <3> QED BY <3>1, <3>2
  <2> QED BY <2>1, <2>2, <1>1, <1>2, <1>4, <1>6 DEF DraftInOrder
<1>13. DaysAddUp'
  BY <1>6 DEF DaysAddUp
<1>14. NoAvoidableGap'
  <2> SUFFICES ASSUME NEW d \in 1..(day' - 1)
               PROVE \/ Cardinality(OnDay(tasks, d)) >= MaxTasks
                     \/ \A i \in DOMAIN pool : pool[i] > unmet[d]
    BY <1>1, <1>6 DEF NoAvoidableGap
  <2>1. CASE d = day
    <3>1. CASE ~DayHasRoom
      <4>1. Cardinality(OnDay(tasks, day)) \in Nat
        BY <1>2, <1>4, PlanParts, PlannedOfTasks
      <4> QED BY <2>1, <3>1, <4>1, <1>4, PlanBounds DEF DayHasRoom
    <3>2. CASE FirstFit(Left) = {}
      <4>1. Left \in Nat
        BY <1>8, PlanBounds
      <4> QED BY <2>1, <3>2, <4>1, <1>2, <1>9, NoneFits
    <3> QED BY <1>1, <3>1, <3>2
  <2>2. CASE d # day
    <3>1. d \in 1..(day - 1) /\ unmet[d] = plan.unmet[d]
      BY <2>2, <1>9, <1>10
    <3> QED BY <3>1, <1>1, <1>2, <1>4 DEF NoAvoidableGap
  <2> QED BY <2>1, <2>2
<1> QED BY <1>11, <1>12, <1>13, <1>14 DEF TrainingInv

\* A complete draft adds up on every day.
LEMMA EndingDraftKeeps == ASSUME TrainingInv, EndDraft PROVE TrainingInv'
<1>1. /\ plan.status = "building" /\ day > Horizon /\ pool' = pool /\ day' = day
      /\ plan' = [plan EXCEPT !.status = "draft"]
  BY DEF EndDraft, Building
<1>2. PlanStateOK /\ DraftInOrder
  BY DEF TrainingInv
<1>3. plan' = [tasks |-> plan.tasks, unmet |-> plan.unmet, status |-> "draft", source |-> plan.source]
  BY <1>1, <1>2, PlanParts
<1>4. PlanStateOK'
  <2>1. plan' \in [tasks : BoundedSeq(Tasks, MaxPool), unmet : [Days -> 0..Budget],
                   status : {"building", "draft", "adopted"}, source : {"rule", "model"}]
    BY <1>2, <1>3, PlanParts
  <2> QED BY <2>1, <1>1, <1>2 DEF PlanStateOK
<1>5. DaysAddUp'
  <2>1. \A d \in Days : d \in 1..(day - 1)
    BY <1>1, <1>2, PlanBounds DEF PlanStateOK, Days
  <2>2. \A d \in Days : Planned(plan.tasks, d) + plan.unmet[d] = Budget
    BY <2>1, <1>1, <1>2 DEF DraftInOrder
  <2>3. plan'.tasks = plan.tasks /\ plan'.unmet = plan.unmet
    BY <1>3
  <2> QED BY <2>2, <2>3 DEF DaysAddUp
<1>6. DraftInOrder' /\ NoAvoidableGap'
  BY <1>3 DEF DraftInOrder, NoAvoidableGap
<1> QED BY <1>4, <1>5, <1>6 DEF TrainingInv

\* What is recalculated for tasks that fit adds up on every day.
LEMMA RecalculatedAddsUp ==
    ASSUME NEW tasks \in BoundedSeq(Tasks, MaxPool), Fits(tasks)
    PROVE /\ Recalculated(tasks) \in [Days -> 0..Budget]
          /\ \A d \in Days : Planned(tasks, d) + Recalculated(tasks)[d] = Budget
<1>1. \A d \in Days : Planned(tasks, d) \in Nat /\ Planned(tasks, d) <= Budget
  BY PlannedOfTasks DEF Fits
<1>2. \A d \in Days : Unmet(tasks, d) \in 0..Budget /\ Planned(tasks, d) + Unmet(tasks, d) = Budget
  BY <1>1, PlanBounds DEF Unmet
<1> QED BY <1>2 DEF Recalculated

\* A plan with tasks that fit and what is recalculated for them is in order.
LEMMA RecalculatedKeeps ==
    ASSUME PlanStateOK, NEW tasks \in BoundedSeq(Tasks, MaxPool), Fits(tasks),
           NEW status \in {"draft", "adopted"}, NEW source \in {"rule", "model"},
           plan' = [tasks |-> tasks, unmet |-> Recalculated(tasks), status |-> status, source |-> source],
           pool' \in BoundedSeq(Minutes, MaxPool), day' \in 1..(Horizon + 1)
    PROVE TrainingInv'
<1>1. PICK unmet : unmet = Recalculated(tasks)
  OBVIOUS
<1>2. unmet \in [Days -> 0..Budget] /\ \A d \in Days : Planned(tasks, d) + unmet[d] = Budget
  BY <1>1, RecalculatedAddsUp
<1>3. plan' = [tasks |-> tasks, unmet |-> unmet, status |-> status, source |-> source]
  BY <1>1
<1>4. plan'.tasks = tasks /\ plan'.unmet = unmet /\ plan'.status # "building"
  BY <1>3
<1>5. PlanStateOK'
  BY <1>2, <1>3 DEF PlanStateOK
<1>6. DaysAddUp'
  BY <1>2, <1>4 DEF DaysAddUp
<1>7. DraftInOrder' /\ NoAvoidableGap'
  BY <1>4 DEF DraftInOrder, NoAvoidableGap
<1> QED BY <1>5, <1>6, <1>7 DEF TrainingInv

\* A model's answer that is taken makes a plan in order.
LEMMA AcceptingKeeps ==
    ASSUME TrainingInv, NEW tasks \in BoundedSeq(Tasks, MaxPool), AcceptModelPlan(tasks) PROVE TrainingInv'
<1>1. /\ Fits(tasks) /\ day' = Horizon + 1 /\ pool' = <<>>
      /\ plan' = [tasks |-> tasks, unmet |-> Recalculated(tasks), status |-> "draft", source |-> "model"]
  BY DEF AcceptModelPlan
<1>2. pool' \in BoundedSeq(Minutes, MaxPool)
  <2>1. <<>> \in Seq(Minutes) /\ Len(<<>>) <= MaxPool
    BY PlanBounds
  <2> QED BY <2>1, <1>1, PlanBounds, SeqsBounded
<1>3. day' \in 1..(Horizon + 1)
  BY <1>1, PlanBounds
<1> QED BY <1>1, <1>2, <1>3, RecalculatedKeeps DEF TrainingInv

\* Adopting a plan changes its status only.
LEMMA AdoptingKeeps == ASSUME TrainingInv, AdoptPlan PROVE TrainingInv'
<1>1. /\ plan.status = "draft" /\ pool' = pool /\ day' = day
      /\ plan' = [plan EXCEPT !.status = "adopted"]
  BY DEF AdoptPlan
<1>2. PlanStateOK /\ DaysAddUp
  BY DEF TrainingInv
<1>3. plan' = [tasks |-> plan.tasks, unmet |-> plan.unmet, status |-> "adopted", source |-> plan.source]
  BY <1>1, <1>2, PlanParts
<1>4. PlanStateOK'
  <2>1. plan' \in [tasks : BoundedSeq(Tasks, MaxPool), unmet : [Days -> 0..Budget],
                   status : {"building", "draft", "adopted"}, source : {"rule", "model"}]
    BY <1>2, <1>3, PlanParts
  <2> QED BY <2>1, <1>1, <1>2 DEF PlanStateOK
<1>5. DaysAddUp'
  <2>1. plan'.tasks = plan.tasks /\ plan'.unmet = plan.unmet
    BY <1>3
  <2> QED BY <2>1, <1>1, <1>2 DEF DaysAddUp
<1>6. DraftInOrder' /\ NoAvoidableGap'
  BY <1>3 DEF DraftInOrder, NoAvoidableGap
<1> QED BY <1>4, <1>5, <1>6 DEF TrainingInv

\* The tasks after one of them was given another day and duration.
LEMMA MovedTasks ==
    ASSUME PlanStateOK, NEW i \in DOMAIN plan.tasks, NEW d \in Days, NEW minutes \in 1..Budget
    PROVE LET tasks == [plan.tasks EXCEPT ![i].day = d, ![i].minutes = minutes]
          IN  /\ tasks \in BoundedSeq(Tasks, MaxPool) /\ DOMAIN tasks = DOMAIN plan.tasks
              /\ \A k \in DOMAIN plan.tasks : k # i => tasks[k] = plan.tasks[k]
<1> DEFINE old == plan.tasks
           task == [day |-> d, minutes |-> minutes, status |-> old[i].status]
           tasks == [old EXCEPT ![i].day = d, ![i].minutes = minutes]
<1>1. PICK n \in Nat : /\ n <= MaxPool /\ n = Len(old) /\ DOMAIN old = 1..n /\ old \in Seq(Tasks)
                      /\ \A k \in 1..n : old[k] \in Tasks
  BY PlanParts, PlanBounds
<1>2. i \in 1..n /\ old[i] \in Tasks
  BY <1>1
<1>3. task \in Tasks
  BY <1>2, TaskParts DEF Tasks
<1>4. tasks[i] = task
  BY <1>2, TaskParts DEF Tasks
<1>5. DOMAIN tasks = 1..n /\ \A k \in 1..n : k # i => tasks[k] = old[k]
  BY <1>1, <1>2
<1>6. \E f : f = tasks
  OBVIOUS
<1>7. PICK moved : moved = tasks
  BY <1>6
<1>8. /\ \A k \in 1..n : moved[k] \in Tasks
      /\ moved = [k \in 1..n |-> moved[k]]
  <2>1. tasks = [k \in 1..n |-> tasks[k]]
    BY <1>5
  <2> HIDE DEF task
  <2> QED BY <2>1, <1>1, <1>3, <1>4, <1>5, <1>7
<1>9. moved \in [1..n -> Tasks]
  BY <1>8
<1>10. moved \in Seq(Tasks) /\ Len(moved) = n
  BY <1>9
<1>11. moved \in BoundedSeq(Tasks, MaxPool)
  BY <1>1, <1>10, PlanBounds, SeqsBounded
<1> QED BY <1>1, <1>5, <1>7, <1>11

\* An edited plan adds up on every day.
LEMMA EditingKeeps ==
    ASSUME TrainingInv, NEW i \in DOMAIN plan.tasks, NEW d \in Days, NEW minutes \in 1..Budget,
           EditPlanTask(i, d, minutes)
    PROVE TrainingInv'
<1>1. PICK tasks : tasks = [plan.tasks EXCEPT ![i].day = d, ![i].minutes = minutes]
  OBVIOUS
<1>2. /\ plan.status # "building" /\ Fits(tasks) /\ pool' = pool /\ day' = day
      /\ plan' = [plan EXCEPT !.tasks = tasks, !.unmet = Recalculated(tasks)]
  BY <1>1 DEF EditPlanTask
<1>3. PlanStateOK
  BY DEF TrainingInv
<1>4. tasks \in BoundedSeq(Tasks, MaxPool)
  BY <1>1, <1>3, MovedTasks
<1>5. /\ plan' = [tasks |-> tasks, unmet |-> Recalculated(tasks), status |-> plan.status, source |-> plan.source]
      /\ plan.status \in {"draft", "adopted"} /\ plan.source \in {"rule", "model"}
  BY <1>2, <1>3, PlanParts
<1>6. pool' \in BoundedSeq(Minutes, MaxPool) /\ day' \in 1..(Horizon + 1)
  BY <1>2, <1>3 DEF PlanStateOK
<1> QED BY <1>2, <1>3, <1>4, <1>5, <1>6, RecalculatedKeeps

\* The tasks after one of them was checked off.
LEMMA CheckedTasks ==
    ASSUME PlanStateOK, NEW i \in DOMAIN plan.tasks, NEW status \in {"done", "skipped"},
           CheckOffTask(i, status)
    PROVE /\ plan' = [tasks |-> plan'.tasks, unmet |-> plan.unmet, status |-> "adopted", source |-> plan.source]
          /\ plan'.tasks \in BoundedSeq(Tasks, MaxPool) /\ DOMAIN plan'.tasks = DOMAIN plan.tasks
          /\ plan'.tasks[i] = [plan.tasks[i] EXCEPT !.status = status]
          /\ \A k \in DOMAIN plan.tasks : k # i => plan'.tasks[k] = plan.tasks[k]
          /\ \A k \in DOMAIN plan.tasks : /\ plan'.tasks[k].day = plan.tasks[k].day
                                        /\ plan'.tasks[k].minutes = plan.tasks[k].minutes
<1> DEFINE old == plan.tasks
           task == [day |-> old[i].day, minutes |-> old[i].minutes, status |-> status]
           tasks == [old EXCEPT ![i].status = status]
<1>1. PICK n \in Nat : /\ n <= MaxPool /\ n = Len(old) /\ DOMAIN old = 1..n /\ old \in Seq(Tasks)
                      /\ \A k \in 1..n : old[k] \in Tasks
  BY PlanParts, PlanBounds
<1>2. i \in 1..n /\ old[i] \in Tasks
  BY <1>1
<1>3. task \in Tasks /\ task = [old[i] EXCEPT !.status = status]
  BY <1>2, TaskParts DEF Tasks
<1>4. tasks[i] = task
  BY <1>1, <1>2, <1>3
<1>5. DOMAIN tasks = 1..n /\ \A k \in 1..n : k # i => tasks[k] = old[k]
  BY <1>1, <1>2
<1>6. plan' = [tasks |-> tasks, unmet |-> plan.unmet, status |-> "adopted", source |-> plan.source]
  <2>1. plan.status = "adopted" /\ plan' = [plan EXCEPT !.tasks[i].status = status]
    BY DEF CheckOffTask
  <2> QED BY <2>1, PlanParts
<1>7. PICK checked : checked = tasks
  OBVIOUS
<1>8. /\ \A k \in 1..n : checked[k] \in Tasks
      /\ checked = [k \in 1..n |-> checked[k]]
  <2>1. tasks = [k \in 1..n |-> tasks[k]]
    BY <1>5
  <2> HIDE DEF task
  <2> QED BY <2>1, <1>1, <1>3, <1>4, <1>5, <1>7
<1>9. checked \in [1..n -> Tasks]
  BY <1>8
<1>10. checked \in Seq(Tasks) /\ Len(checked) = n
  BY <1>9
<1>11. checked \in BoundedSeq(Tasks, MaxPool)
  BY <1>1, <1>10, PlanBounds, SeqsBounded
<1>12. plan' = [tasks |-> checked, unmet |-> plan.unmet, status |-> "adopted", source |-> plan.source]
  BY <1>6, <1>7
<1>13. plan'.tasks = checked
  BY <1>12
<1>14. \A k \in 1..n : checked[k].day = old[k].day /\ checked[k].minutes = old[k].minutes
  <2>1. task.day = old[i].day /\ task.minutes = old[i].minutes
    OBVIOUS
  <2> HIDE DEF task
  <2> QED BY <2>1, <1>4, <1>5, <1>7
<1> HIDE DEF task
<1> QED BY <1>1, <1>3, <1>4, <1>5, <1>7, <1>11, <1>12, <1>13, <1>14

\* A task that is checked off leaves the days as they were.
LEMMA CheckingKeeps ==
    ASSUME TrainingInv, NEW i \in DOMAIN plan.tasks, NEW status \in {"done", "skipped"},
           CheckOffTask(i, status)
    PROVE TrainingInv'
<1>1. /\ plan.status = "adopted" /\ pool' = pool /\ day' = day
  BY DEF CheckOffTask
<1>2. PlanStateOK /\ DaysAddUp
  BY DEF TrainingInv
<1>3. PICK tasks : tasks = plan'.tasks
  OBVIOUS
<1>4. /\ plan' = [tasks |-> tasks, unmet |-> plan.unmet, status |-> "adopted", source |-> plan.source]
      /\ tasks \in BoundedSeq(Tasks, MaxPool) /\ DOMAIN tasks = DOMAIN plan.tasks
      /\ \A k \in DOMAIN plan.tasks : tasks[k].day = plan.tasks[k].day /\ tasks[k].minutes = plan.tasks[k].minutes
  BY <1>2, <1>3, CheckedTasks
<1>5. PlanStateOK'
  <2>1. plan' \in [tasks : BoundedSeq(Tasks, MaxPool), unmet : [Days -> 0..Budget],
                   status : {"building", "draft", "adopted"}, source : {"rule", "model"}]
    BY <1>2, <1>4, PlanParts
  <2> QED BY <2>1, <1>1, <1>2 DEF PlanStateOK
<1>6. \A d : Planned(tasks, d) = Planned(plan.tasks, d)
  BY <1>4, PlannedAlike
<1>7. plan'.unmet = plan.unmet /\ plan'.status = "adopted"
  BY <1>4
<1>8. DaysAddUp'
  BY <1>1, <1>2, <1>3, <1>6, <1>7 DEF DaysAddUp
<1>9. DraftInOrder' /\ NoAvoidableGap'
  BY <1>7 DEF DraftInOrder, NoAvoidableGap
<1> QED BY <1>5, <1>8, <1>9 DEF TrainingInv

\* Every step of a plan keeps it in order.
LEMMA PlanStepKeeps == ASSUME TrainingInv, [PlanningNext]_planningVars PROVE TrainingInv'
<1>1. CASE ScheduleTask
  BY <1>1, SchedulingKeeps
<1>2. CASE EndDay
  BY <1>2, EndingDayKeeps
<1>3. CASE EndDraft
  BY <1>3, EndingDraftKeeps
<1>4. CASE AdoptPlan
  BY <1>4, AdoptingKeeps
<1>5. CASE \E tasks \in BoundedSeq(Tasks, MaxPool) : AcceptModelPlan(tasks)
  BY <1>5, AcceptingKeeps
<1>6. CASE \E i \in DOMAIN plan.tasks : \E d \in Days, minutes \in 1..Budget : EditPlanTask(i, d, minutes)
  BY <1>6, EditingKeeps
<1>7. CASE \E i \in DOMAIN plan.tasks : \E status \in {"done", "skipped"} : CheckOffTask(i, status)
  BY <1>7, CheckingKeeps
<1>8. CASE UNCHANGED planningVars
  BY <1>8 DEF planningVars, TrainingInv, PlanStateOK, DraftInOrder, DaysAddUp, NoAvoidableGap
<1> QED BY <1>1, <1>2, <1>3, <1>4, <1>5, <1>6, <1>7, <1>8 DEF PlanningNext

\* What a step leaves of a plan that was adopted and of the tasks that were checked off.
RecordsStay ==
    /\ plan.status = "adopted" => plan'.status = "adopted"
    /\ \A i \in DOMAIN plan.tasks :
          plan.tasks[i].status # "planned" =>
             /\ plan'.tasks[i].status # "planned"
             /\ plan'.tasks[i] = [plan.tasks[i] EXCEPT !.status = plan'.tasks[i].status]

\* Tasks that are not touched stay true.
LEMMA UntouchedStay ==
    ASSUME PlanStateOK, plan.status = "adopted" => plan'.status = "adopted",
           \A i \in DOMAIN plan.tasks : plan.tasks[i].status # "planned" => plan'.tasks[i] = plan.tasks[i]
    PROVE RecordsStay
<1>1. \A t \in Tasks : t = [t EXCEPT !.status = t.status]
  BY TaskParts
<1>2. \A i \in DOMAIN plan.tasks : plan.tasks[i] \in Tasks
  BY PlanParts
<1> SUFFICES ASSUME NEW i \in DOMAIN plan.tasks, plan.tasks[i].status # "planned"
             PROVE /\ plan'.tasks[i].status # "planned"
                   /\ plan'.tasks[i] = [plan.tasks[i] EXCEPT !.status = plan'.tasks[i].status]
  BY DEF RecordsStay
<1>3. PICK t \in Tasks : t = plan.tasks[i] /\ t = plan'.tasks[i]
  BY <1>2
<1>4. t = [t EXCEPT !.status = t.status]
  BY <1>1
<1> QED BY <1>3, <1>4

\* Every step leaves what was recorded true.
LEMMA PlanStepStays == ASSUME TrainingInv, [PlanningNext]_planningVars PROVE RecordsStay
<1>1. PlanStateOK
  BY DEF TrainingInv
<1>2. CASE ScheduleTask
  <2>1. PICK m : plan' = [plan EXCEPT !.tasks = Append(@, [day |-> day, minutes |-> m, status |-> "planned"])]
    BY <1>2 DEF ScheduleTask
  <2>2. plan.status = "building"
    BY <1>2 DEF ScheduleTask, Building
  <2>3. PICK task : task = [day |-> day, minutes |-> m, status |-> "planned"]
    OBVIOUS
  <2>4. plan'.tasks = Append(plan.tasks, task)
    BY <1>1, <2>1, <2>3, PlanParts
  <2>5. PICK n \in Nat : n = Len(plan.tasks) /\ DOMAIN plan.tasks = 1..n /\ plan.tasks \in Seq(Tasks)
    BY <1>1, PlanParts, PlanBounds
  <2>6. \A i \in 1..n : Append(plan.tasks, task)[i] = plan.tasks[i]
    BY <2>5
  <2> QED BY <1>1, <2>2, <2>4, <2>5, <2>6, UntouchedStay
<1>3. CASE EndDay
  <2>1. plan'.tasks = plan.tasks /\ plan.status = "building"
    BY <1>1, <1>3, PlanParts DEF EndDay, Building
  <2> QED BY <1>1, <2>1, UntouchedStay
<1>4. CASE EndDraft
  <2>1. plan'.tasks = plan.tasks /\ plan.status = "building"
    BY <1>1, <1>4, PlanParts DEF EndDraft, Building
  <2> QED BY <1>1, <2>1, UntouchedStay
<1>5. CASE AdoptPlan
  <2>1. plan'.tasks = plan.tasks /\ plan.status = "draft"
    BY <1>1, <1>5, PlanParts DEF AdoptPlan
  <2> QED BY <1>1, <2>1, UntouchedStay
<1>6. CASE \E tasks \in BoundedSeq(Tasks, MaxPool) : AcceptModelPlan(tasks)
  <2>1. plan.tasks = <<>> /\ plan.status = "building"
    BY <1>6 DEF AcceptModelPlan
  <2> QED BY <1>1, <2>1, UntouchedStay
<1>7. CASE \E i \in DOMAIN plan.tasks : \E d \in Days, minutes \in 1..Budget : EditPlanTask(i, d, minutes)
  <2>1. PICK i \in DOMAIN plan.tasks : \E d \in Days, minutes \in 1..Budget : EditPlanTask(i, d, minutes)
    BY <1>7
  <2>2. PICK d \in Days, minutes \in 1..Budget : EditPlanTask(i, d, minutes)
    BY <2>1
  <2>3. PICK tasks : tasks = [plan.tasks EXCEPT ![i].day = d, ![i].minutes = minutes]
    OBVIOUS
  <2>4. /\ plan' = [plan EXCEPT !.tasks = tasks, !.unmet = Recalculated(tasks)]
        /\ plan.tasks[i].status = "planned"
    BY <2>2, <2>3 DEF EditPlanTask, Editable
  <2>5. plan'.tasks = tasks /\ plan'.status = plan.status
    BY <1>1, <2>4, PlanParts
  <2>6. \A k \in DOMAIN plan.tasks : k # i => tasks[k] = plan.tasks[k]
    BY <1>1, <2>3, MovedTasks
  <2> QED BY <1>1, <2>4, <2>5, <2>6, UntouchedStay
<1>8. CASE \E i \in DOMAIN plan.tasks : \E status \in {"done", "skipped"} : CheckOffTask(i, status)
  <2>1. PICK i \in DOMAIN plan.tasks : \E status \in {"done", "skipped"} : CheckOffTask(i, status)
    BY <1>8
  <2>2. PICK status \in {"done", "skipped"} : CheckOffTask(i, status)
    BY <2>1
  <2>3. PICK tasks : tasks = plan'.tasks
    OBVIOUS
  <2>4. /\ plan' = [tasks |-> tasks, unmet |-> plan.unmet, status |-> "adopted", source |-> plan.source]
        /\ tasks[i] = [plan.tasks[i] EXCEPT !.status = status]
        /\ \A k \in DOMAIN plan.tasks : k # i => tasks[k] = plan.tasks[k]
    BY <1>1, <2>2, <2>3, CheckedTasks
  <2>5. \A k \in DOMAIN plan.tasks : plan.tasks[k] \in Tasks
    BY <1>1, PlanParts
  <2>6. tasks[i].status = status
    BY <2>4, <2>5, TaskParts
  <2>7. plan'.status = "adopted"
    BY <2>4
  <2>8. \A k \in DOMAIN plan.tasks :
          plan.tasks[k].status # "planned" =>
             tasks[k].status # "planned" /\ tasks[k] = [plan.tasks[k] EXCEPT !.status = tasks[k].status]
    <3> TAKE k \in DOMAIN plan.tasks
    <3>1. CASE k = i
      BY <3>1, <2>4, <2>6
    <3>2. CASE k # i
      <4>1. PICK t \in Tasks : t = plan.tasks[k] /\ t = tasks[k]
        BY <3>2, <2>4, <2>5
      <4>2. t = [t EXCEPT !.status = t.status]
        BY TaskParts
      <4> QED BY <4>1, <4>2
    <3> QED BY <3>1, <3>2
  <2> QED BY <2>3, <2>7, <2>8 DEF RecordsStay
<1>9. CASE UNCHANGED planningVars
  <2>1. plan' = plan
    BY <1>9 DEF planningVars
  <2> QED BY <1>1, <2>1, UntouchedStay
<1> QED BY <1>2, <1>3, <1>4, <1>5, <1>6, <1>7, <1>8, <1>9 DEF PlanningNext

-----------------------------------------------------------------------------
(* Submissions read page by page.                                                *)

\* A submission a scan has passed when it stands at a cursor.
Passed(place, s) == place = NoCursor \/ s >= place.boundary

\* What a call has read and fetched, for the submissions listed and made: it goes on from
\* the checkpoint it read, and a page it fetched has everything between its two cursors.
Covers(r, listed, newest) ==
    r.step # "idle" =>
        /\ r.cursor # NoCursor => r.cursor = r.before.cursor /\ r.since = r.before.since
        /\ r.cursor.boundary <= newest
        /\ r.step = "fetched" =>
              /\ r.items \subseteq 1..newest /\ r.owed \subseteq 1..newest /\ r.next.boundary <= newest
              /\ r.cursor = NoCursor =>
                    \A s \in r.owed : s >= r.since /\ (s \in listed /\ Passed(r.next, s) => s \in r.items)
              /\ r.cursor # NoCursor =>
                    \A s \in listed :
                        s >= r.since /\ s < r.cursor.boundary /\ Passed(r.next, s) => s \in r.items

\* The store has what the scan owes up to the checkpoint.
CheckpointCovers ==
    /\ checkpoint.cursor.boundary <= made
    /\ \A s \in owed : s >= checkpoint.since
    /\ \A s \in owed \cap visible : Passed(checkpoint.cursor, s) => s \in store

PagesInv ==
    /\ PagesTypeOK /\ CheckpointCovers
    /\ \A c \in Callers : Covers(call[c], visible, made)

\* Assumptions on the bounds of the pages, one by one.
LEMMA PageBounds ==
    PageLimit \in Nat /\ PageLimit >= 1 /\ MaxMade \in Nat /\ 0 \in Bounds /\ Bounds \subseteq Nat
BY PagesAssumption

CallRecords == [step : {"idle", "read", "fetched"}, before : Positions, cursor : Cursors,
                since : Bounds, items : SUBSET Subs, next : Cursors, owed : SUBSET Subs]

\* The state before the first page is as it should be.
LEMMA NothingRead ==
    /\ NoCursor \in Cursors /\ NoPosition \in Positions /\ NoCall \in CallRecords
    /\ NoCall.step = "idle" /\ NoPosition.cursor = NoCursor /\ NoPosition.since = 0
    /\ NoCursor.boundary = 0 /\ NoCursor.returned = 0
<1>1. NoCursor \in Cursors /\ NoCursor.boundary = 0 /\ NoCursor.returned = 0
  BY PageBounds DEF NoCursor, Cursors
<1>2. NoPosition \in Positions /\ NoPosition.cursor = NoCursor /\ NoPosition.since = 0
  BY <1>1, PageBounds DEF NoPosition, Positions
<1>3. NoCall \in CallRecords /\ NoCall.step = "idle"
  BY <1>1, <1>2, PageBounds DEF NoCall, CallRecords
<1> QED BY <1>1, <1>2, <1>3

\* Nothing is owed before the first scan.
LEMMA PagesStart == ASSUME PagesInit PROVE PagesInv
<1>1. /\ made \in 0..MaxMade /\ visible = 1..made /\ store = {} /\ checkpoint = NoPosition /\ owed = {}
      /\ call = [c \in Callers |-> NoCall]
  BY DEF PagesInit
<1>2. PagesTypeOK
  BY <1>1, NothingRead, PageBounds DEF PagesTypeOK, CallRecords
<1>3. CheckpointCovers
  BY <1>1, NothingRead, PageBounds DEF CheckpointCovers
<1>4. \A c \in Callers : Covers(call[c], visible, made)
  BY <1>1, NothingRead DEF Covers
<1> QED BY <1>2, <1>3, <1>4 DEF PagesInv

\* The parts of a call, a cursor and a position.
LEMMA CallParts ==
    ASSUME PagesTypeOK
    PROVE /\ call \in [Callers -> CallRecords] /\ \A c \in Callers : call[c] \in CallRecords
          /\ checkpoint \in Positions /\ checkpoint.cursor \in Cursors /\ checkpoint.since \in Bounds
          /\ made \in Nat /\ made <= MaxMade /\ visible \subseteq 1..made
          /\ store \subseteq 1..made /\ owed \subseteq 1..made
BY PageBounds DEF PagesTypeOK, CallRecords, Positions

\* Changing what one call has read keeps the pages in order if that call is as it should be.
LEMMA CallChanges ==
    ASSUME PagesInv, NEW c \in Callers, NEW r \in CallRecords, Covers(r, visible, made),
           call' = [call EXCEPT ![c] = r], UNCHANGED <<visible, made, store, checkpoint, owed>>
    PROVE PagesInv'
<1>1. call \in [Callers -> CallRecords]
  BY CallParts DEF PagesInv
<1>2. call' \in [Callers -> CallRecords]
  BY <1>1
<1>3. PagesTypeOK'
  BY <1>2 DEF PagesInv, PagesTypeOK, CallRecords
<1>4. CheckpointCovers'
  BY DEF PagesInv, CheckpointCovers
<1>5. \A d \in Callers : call'[d] = r \/ call'[d] = call[d]
  BY <1>1
<1>6. \A d \in Callers : Covers(call'[d], visible', made')
  BY <1>5 DEF PagesInv
<1> QED BY <1>3, <1>4, <1>6 DEF PagesInv

\* A call that reads the checkpoint goes on from it, or starts anew.
LEMMA ReadingKeeps ==
    ASSUME PagesInv, NEW c \in Callers, NEW mode \in {"start", "continue", "restart"}, NEW since \in Bounds,
           ReadCheckpoint(c, mode, since)
    PROVE PagesInv'
<1> DEFINE r == [NoCall EXCEPT !.step = "read", !.before = checkpoint,
                               !.cursor = Position(mode, since).cursor, !.since = Position(mode, since).since]
<1>1. call' = [call EXCEPT ![c] = r] /\ UNCHANGED <<visible, made, store, checkpoint, owed>>
  BY DEF ReadCheckpoint
<1>2. /\ Position(mode, since).cursor \in Cursors /\ Position(mode, since).since \in Bounds
      /\ \/ Position(mode, since).cursor = NoCursor
         \/ Position(mode, since).cursor = checkpoint.cursor /\ Position(mode, since).since = checkpoint.since
  BY CallParts, NothingRead DEF PagesInv, Position
<1>3. PICK place, bound : place = Position(mode, since).cursor /\ bound = Position(mode, since).since
  OBVIOUS
<1>4. r = [step |-> "read", before |-> checkpoint, cursor |-> place, since |-> bound,
           items |-> {}, next |-> NoCursor, owed |-> {}]
  <2>1. r = [NoCall EXCEPT !.step = "read", !.before = checkpoint, !.cursor = place, !.since = bound]
    BY <1>3
  <2> HIDE DEF r
  <2> QED BY <2>1, Zenon DEF NoCall
<1>5. r \in CallRecords
  BY <1>2, <1>3, <1>4, CallParts, NothingRead DEF PagesInv, CallRecords
<1>6. Covers(r, visible, made)
  <2>1. place.boundary <= made
    BY <1>2, <1>3, CallParts, NothingRead DEF PagesInv, CheckpointCovers
  <2> HIDE DEF r
  <2> QED BY <2>1, <1>2, <1>3, <1>4 DEF Covers
<1> HIDE DEF r
<1> QED BY <1>1, <1>5, <1>6, CallChanges

\* A call that ends leaves everything as it was.
LEMMA EndingCallKeeps ==
    ASSUME PagesInv, NEW c \in Callers, EndCall(c) PROVE PagesInv'
<1>1. Covers(NoCall, visible, made)
  BY NothingRead DEF Covers
<1> QED BY <1>1, NothingRead, CallChanges DEF EndCall

\* What is as new as an element of a set of numbers.
LEMMA AsNew ==
    ASSUME NEW V, \A u \in V : u \in Nat, NEW s \in V
    PROVE /\ s \in {u \in V : u >= s} /\ {u \in V : u >= s} = {u \in V : u > s} \cup {s}
          /\ \A t \in V : s < t => {u \in V : u >= t} \subseteq {u \in V : u >= s} /\ s \notin {u \in V : u >= t}
<1>1. s \in {u \in V : u >= s}
  OBVIOUS
<1>2. {u \in V : u >= s} = {u \in V : u > s} \cup {s}
  OBVIOUS
<1>3. ASSUME NEW t \in V, s < t PROVE {u \in V : u >= t} \subseteq {u \in V : u >= s}
  BY <1>3
<1>4. ASSUME NEW t \in V, s < t PROVE s \notin {u \in V : u >= t}
  BY <1>4
<1> QED BY <1>1, <1>2, <1>3, <1>4

\* The place of a listed submission.
LEMMA Places ==
    ASSUME PagesTypeOK
    PROVE /\ IsFiniteSet(visible) /\ visible \subseteq Nat /\ Cardinality(visible) <= made
          /\ \A s \in visible : IsFiniteSet({t \in visible : t >= s}) /\ Place(s) \in Nat /\ Place(s) >= 1
          /\ \A s, t \in visible : s < t => Place(t) < Place(s)
          /\ \A s, t \in visible : s <= t => Place(t) <= Place(s)
<1>1. IsFiniteSet(1..made) /\ Cardinality(1..made) = made
  <2>1. 1 \in Int /\ made \in Int /\ made \in Nat
    BY CallParts
  <2>2. IsFiniteSet(1..made) /\ Cardinality(1..made) = IF 1 > made THEN 0 ELSE made - 1 + 1
    BY ONLY <2>1, FS_Interval
  <2> QED BY <2>1, <2>2
<1>2. IsFiniteSet(visible) /\ visible \subseteq Nat /\ Cardinality(visible) <= made
  <2>1. visible \subseteq 1..made /\ made \in Nat
    BY CallParts
  <2>2. IsFiniteSet(visible) /\ Cardinality(visible) <= Cardinality(1..made)
    BY <1>1, <2>1, FS_Subset
  <2> QED BY <1>1, <2>1, <2>2
<1>3. \A s \in visible : IsFiniteSet({t \in visible : t >= s}) /\ Place(s) \in Nat /\ Place(s) >= 1
  <2> TAKE s \in visible
  <2>1. IsFiniteSet({t \in visible : t >= s})
    <3>1. {t \in visible : t >= s} \subseteq visible
      OBVIOUS
    <3> QED BY <1>2, <3>1, FS_Subset
  <2>2. Place(s) \in Nat
    BY <2>1, FS_CardinalityType DEF Place
  <2>3. Place(s) # 0
    <3>1. s \in {t \in visible : t >= s}
      BY <1>2
    <3> QED BY <2>1, <3>1, FS_EmptySet DEF Place
  <2> QED BY <2>1, <2>2, <2>3
<1>4. \A s, t \in visible : s < t => Place(t) < Place(s)
  <2> SUFFICES ASSUME NEW s \in visible, NEW t \in visible, s < t PROVE Place(t) < Place(s)
    OBVIOUS
  <2> DEFINE S == {u \in visible : u >= s}
             T == {u \in visible : u >= t}
  <2>1. T \in SUBSET S /\ s \in S /\ s \notin T
    <3>1. \A u \in visible : u \in Nat
      BY <1>2
    <3>2. T \subseteq S
      BY <3>1, AsNew
    <3>3. s \in S /\ s \notin T
      BY <3>1, AsNew
    <3> QED BY ONLY <3>2, <3>3
  <2>2. IsFiniteSet(S) /\ Cardinality(S) = Place(s) /\ Cardinality(T) = Place(t)
    BY <1>3 DEF Place
  <2> HIDE DEF S, T
  <2>3. Cardinality(T) <= Cardinality(S) /\ (Cardinality(S) = Cardinality(T) => S = T)
    BY ONLY <2>1, <2>2, FS_Subset
  <2>4. Place(s) \in Nat /\ Place(t) \in Nat
    BY <1>3
  <2>5. S # T
    BY <2>1
  <2> QED BY ONLY <2>2, <2>3, <2>4, <2>5
<1>5. \A s, t \in visible : s <= t => Place(t) <= Place(s)
  <2> SUFFICES ASSUME NEW s \in visible, NEW t \in visible, s <= t PROVE Place(t) <= Place(s)
    OBVIOUS
  <2>1. s \in Nat /\ t \in Nat
    BY <1>2
  <2>2. Place(s) \in Nat /\ Place(t) \in Nat
    BY <1>3
  <2>3. s < t => Place(t) < Place(s)
    BY <1>4
  <2> QED BY ONLY <2>1, <2>2, <2>3, s <= t
<1> QED BY <1>2, <1>3, <1>4, <1>5

\* The submissions listed are numbers, and their places are.
LEMMA PlaceTypes ==
    ASSUME PagesTypeOK, NEW s \in visible
    PROVE s \in Nat /\ s <= made /\ Place(s) \in Nat /\ Place(s) >= 1
<1>1. s \in 1..made /\ made \in Nat
  BY CallParts
<1>2. Place(s) \in Nat /\ Place(s) >= 1
  BY Places
<1> QED BY ONLY <1>1, <1>2

\* What follows a place of the list begins right after it.
LEMMA PageBegins ==
    ASSUME PagesTypeOK, NEW n \in Nat, After(n) # {}
    PROVE PageAfter(n) # {}
<1>1. After(n) \in SUBSET Nat /\ \A s \in After(n) : s <= made
  BY CallParts DEF After
<1>2. PICK g \in After(n) : \A s \in After(n) : s <= g
  <2>1. made \in Nat
    BY CallParts
  <2> QED BY <1>1, <2>1, GreatestOf
<1>3. g \in visible /\ g \in Nat /\ Place(g) \in Nat
  BY PlaceTypes DEF After
<1> DEFINE newer == {t \in visible : t > g}
<1>4. IsFiniteSet(newer)
  <2>1. newer \subseteq visible
    OBVIOUS
  <2> HIDE DEF newer
  <2> QED BY <2>1, Places, FS_Subset
<1>5. Cardinality(newer) \in Nat /\ Cardinality(newer) <= n
  <2>1. CASE newer = {}
    BY <2>1, FS_EmptySet
  <2>2. CASE newer # {}
    <3>1. newer \in SUBSET Nat
      BY PlaceTypes
    <3>2. PICK m \in newer : \A t \in newer : m <= t
      <4> HIDE DEF newer
      <4> QED BY <2>2, <3>1, LeastOf
    <3>3. newer = {t \in visible : t >= m}
      <4>1. m \in Nat /\ m > g /\ m \in visible /\ \A t \in visible : t \in Nat /\ (t > g => m <= t)
        BY <3>1, <3>2, PlaceTypes
      <4>2. \A t \in visible : t > g <=> t >= m
        BY <4>1, <1>3
      <4> QED BY <4>2
    <3>4. m \notin After(n) /\ m \in visible
      BY <1>2, <1>3, <3>1, <3>2
    <3>5. Place(m) <= n
      <4>1. Place(m) \in Nat /\ ~(Place(m) > n)
        BY <3>4, PlaceTypes DEF After
      <4> QED BY ONLY <4>1, n \in Nat
    <3> HIDE DEF newer
    <3> QED BY <3>3, <3>4, <3>5, <1>4, FS_CardinalityType DEF Place
  <2> QED BY <2>1, <2>2
<1>6. Place(g) = Cardinality(newer) + 1
  <2>1. {t \in visible : t >= g} = newer \cup {g}
    <3>1. \A t \in visible : t \in Nat
      BY PlaceTypes
    <3> QED BY <3>1, <1>3, AsNew
  <2>2. g \notin newer
    BY <1>3
  <2> HIDE DEF newer
  <2>3. Cardinality(newer \cup {g}) = Cardinality(newer) + 1
    BY <1>4, <2>2, FS_AddElement
  <2> QED BY <2>1, <2>3 DEF Place
<1> HIDE DEF newer
<1>7. Place(g) <= n + PageLimit
  BY <1>5, <1>6, PageBounds
<1> QED BY <1>7 DEF PageAfter

\* A page and what came before it are different submissions of the list.
LEMMA PageIsNew ==
    ASSUME PagesTypeOK, NEW n \in Nat, NEW S \in SUBSET After(n),
           n = 0 \/ \E b \in visible : Place(b) = n
    PROVE IsFiniteSet(S) /\ Cardinality(S) \in Nat /\ n + Cardinality(S) <= made
<1>1. IsFiniteSet(visible) /\ Cardinality(visible) <= made /\ Cardinality(visible) \in Nat /\ made \in Nat
  BY Places, CallParts, FS_CardinalityType
<1>2. IsFiniteSet(S) /\ Cardinality(S) \in Nat /\ Cardinality(S) <= Cardinality(visible)
  <2>1. S \in SUBSET visible
    BY DEF After
  <2> QED BY <1>1, <2>1, FS_Subset, FS_CardinalityType
<1>3. CASE n = 0
  BY ONLY <1>1, <1>2, <1>3
<1>4. CASE \E b \in visible : Place(b) = n
  <2>1. PICK b \in visible : Place(b) = n
    BY <1>4
  <2> DEFINE seen == {t \in visible : t >= b}
  <2>2. IsFiniteSet(seen) /\ Cardinality(seen) = n
    BY <2>1, Places DEF Place
  <2>3. ASSUME NEW t \in seen PROVE t \notin S
    <3>1. t \in visible /\ t \in Nat /\ b \in Nat /\ t >= b /\ Place(t) \in Nat
      BY PlaceTypes
    <3>2. Place(t) <= Place(b)
      <4>1. b <= t
        BY ONLY <3>1
      <4> QED BY <4>1, <3>1, Places
    <3> QED BY <2>1, <3>1, <3>2 DEF After
  <2>4. seen \cap S = {} /\ seen \cup S \in SUBSET visible
    BY <2>3 DEF After
  <2> HIDE DEF seen
  <2>5. Cardinality(seen \cup S) = Cardinality(seen) + Cardinality(S) - Cardinality(seen \cap S)
    BY <1>2, <2>2, FS_Union
  <2>6. Cardinality(seen \cup S) <= Cardinality(visible)
    BY <1>1, <2>4, FS_Subset
  <2>7. Cardinality(seen \cap S) = 0
    BY <2>4, FS_EmptySet
  <2>8. Cardinality(seen \cup S) = n + Cardinality(S)
    BY ONLY <1>2, <2>2, <2>5, <2>7
  <2> QED BY ONLY <1>1, <1>2, <2>6, <2>8, n \in Nat
<1> QED BY <1>3, <1>4

\* A page that is not all that is left ends at a submission of the list, and has all that
\* is listed between the place it begins at and its end; without a next cursor it has all
\* that is not older than the bound.
LEMMA PageCovers ==
    ASSUME PagesTypeOK, NEW n \in Nat, NEW since \in Nat,
           NEW s \in After(n), s >= since,
           LET kept == {t \in PageAfter(n) : t >= since}
           IN  \/ PageAfter(n) = After(n) \/ kept # PageAfter(n)
               \/ \E m \in kept : s >= m
    PROVE s \in {t \in PageAfter(n) : t >= since}
<1>1. s \in visible /\ s \in Nat /\ Place(s) \in Nat
  BY PlaceTypes DEF After
<1>2. ASSUME NEW m \in PageAfter(n), s >= m PROVE s \in PageAfter(n)
  <2>1. m \in visible /\ m \in Nat /\ Place(m) \in Nat /\ Place(m) <= n + PageLimit
    BY PlaceTypes DEF PageAfter, After
  <2>2. Place(s) <= Place(m)
    <3>1. m <= s
      BY ONLY <1>1, <1>2, <2>1
    <3> QED BY <3>1, <1>1, <2>1, Places
  <2>3. Place(s) <= n + PageLimit
    BY ONLY <1>1, <2>1, <2>2, PageBounds, n \in Nat
  <2> QED BY <2>3 DEF PageAfter
<1>3. s \in PageAfter(n)
  <2>1. CASE PageAfter(n) = After(n)
    BY <2>1
  <2>2. CASE {t \in PageAfter(n) : t >= since} # PageAfter(n)
    <3>1. PICK m \in PageAfter(n) : ~(m >= since)
      BY <2>2
    <3>2. m \in Nat
      BY PlaceTypes DEF PageAfter, After
    <3>3. s >= m
      BY ONLY <1>1, <3>1, <3>2, s >= since, since \in Nat
    <3> QED BY <1>2, <3>3
  <2>3. CASE \E m \in {t \in PageAfter(n) : t >= since} : s >= m
    BY <2>3, <1>2
  <2> QED BY <2>1, <2>2, <2>3
<1> QED BY <1>3

\* A call that fetches a page has everything between its two cursors.
LEMMA FetchingKeeps == ASSUME PagesInv, NEW c \in Callers, FetchPage(c) PROVE PagesInv'
<1>1. PICK r \in CallRecords : r = call[c]
  BY CallParts DEF PagesInv
<1>2. PagesTypeOK /\ Covers(r, visible, made) /\ r.step = "read"
  BY <1>1 DEF PagesInv, FetchPage
<1>3. PICK n, since : n = r.cursor.returned /\ since = r.since
  OBVIOUS
<1>4. PICK page, kept : page = PageAfter(n) /\ kept = {s \in page : s >= since}
  OBVIOUS
<1>5. PICK next : next = IF page # After(n) /\ kept = page
                         THEN [returned |-> n + Cardinality(kept), boundary |-> Min(kept)] ELSE NoCursor
  OBVIOUS
<1>6. PICK due : due = IF r.cursor = NoCursor THEN {s \in visible : s >= since} ELSE {}
  OBVIOUS
<1>7. PICK q : q = [r EXCEPT !.step = "fetched", !.items = kept, !.next = next, !.owed = due]
  OBVIOUS
<1>8. /\ call' = [call EXCEPT ![c] = q] /\ UNCHANGED <<visible, made, store, checkpoint, owed>>
      /\ r.cursor # NoCursor => SameBoundary(r.cursor)
  <2>1. /\ call' = [call EXCEPT ![c].step = "fetched", ![c].items = kept, ![c].next = next, ![c].owed = due]
        /\ UNCHANGED <<visible, made, store, checkpoint, owed>>
        /\ r.cursor # NoCursor => SameBoundary(r.cursor)
    BY <1>1, <1>3, <1>4, <1>5, <1>6 DEF FetchPage
  <2>2. call \in [Callers -> CallRecords]
    BY <1>2, CallParts
  <2>3. [call EXCEPT ![c].step = "fetched", ![c].items = kept, ![c].next = next, ![c].owed = due]
           = [call EXCEPT ![c] = q]
    BY <2>2, <1>1, <1>7
  <2> QED BY <2>1, <2>3
<1>9. r.cursor \in Cursors /\ n \in Nat /\ since \in Nat /\ since \in Bounds /\ r.before \in Positions
  <2>1. r.cursor \in Cursors /\ since \in Bounds /\ r.before \in Positions
    BY <1>3 DEF CallRecords
  <2>2. n \in 0..MaxMade
    BY <2>1, <1>3 DEF Cursors
  <2> QED BY <2>1, <2>2, PageBounds
<1>10. n = 0 \/ \E b \in visible : Place(b) = n
  <2>1. CASE r.cursor = NoCursor
    BY <2>1, <1>3, NothingRead
  <2>2. CASE r.cursor # NoCursor
    BY <2>2, <1>3, <1>8 DEF SameBoundary
  <2> QED BY <2>1, <2>2
<1>11. kept \in SUBSET After(n) /\ kept \subseteq page /\ page \subseteq After(n) /\ After(n) \subseteq visible
  BY <1>4 DEF PageAfter, After
<1>12. /\ made \in Nat /\ made <= MaxMade /\ visible \subseteq 1..made /\ 1..made \subseteq Subs
       /\ kept \subseteq 1..made
  <2>1. made \in Nat /\ made <= MaxMade /\ visible \subseteq 1..made
    BY <1>2, CallParts
  <2>2. 1..made \subseteq Subs
    BY <2>1, PageBounds DEF Subs
  <2> QED BY <2>1, <2>2, <1>11
<1>13. Cardinality(kept) \in Nat /\ n + Cardinality(kept) <= made
  BY <1>2, <1>9, <1>10, <1>11, PageIsNew
<1>14. ASSUME page # After(n), kept = page
       PROVE /\ next \in Cursors /\ next.boundary <= made
             /\ \A s \in After(n) : s >= since /\ Passed(next, s) => s \in kept
  <2>1. next = [returned |-> n + Cardinality(kept), boundary |-> Min(kept)]
    BY <1>5, <1>14
  <2>2. kept # {}
    BY <1>2, <1>4, <1>9, <1>11, <1>14, PageBegins
  <2>3. PICK m \in kept : m = Min(kept) /\ \A s \in kept : m <= s
    <3>1. kept \in SUBSET Nat
      BY <1>12
    <3>2. \E m \in kept : \A s \in kept : m <= s
      BY <2>2, <3>1, LeastOf
    <3> QED BY <3>2 DEF Min
  <2>4. m \in 1..made /\ m \in Nat
    BY <1>12, <2>3
  <2>5. next.boundary = m /\ next.returned = n + Cardinality(kept) /\ next \in Cursors /\ next # NoCursor
    <3>1. m \in 0..MaxMade /\ m # 0 /\ n + Cardinality(kept) \in 0..MaxMade
      BY <1>9, <1>12, <1>13, <2>4, PageBounds
    <3> QED BY <3>1, <2>1, <2>3 DEF Cursors, NoCursor
  <2>6. \A s \in After(n) : s >= since /\ Passed(next, s) => s \in kept
    <3> SUFFICES ASSUME NEW s \in After(n), s >= since, Passed(next, s) PROVE s \in kept
      OBVIOUS
    <3>1. s >= m
      BY <2>5 DEF Passed
    <3> QED BY <3>1, <1>2, <1>4, <1>9, <2>3, PageCovers
  <2>7. next.boundary <= made
    BY <2>4, <2>5, <1>12
  <2> QED BY <2>5, <2>6, <2>7
<1>15. ASSUME ~(page # After(n) /\ kept = page)
       PROVE /\ next \in Cursors /\ next.boundary <= made
             /\ \A s \in After(n) : s >= since /\ Passed(next, s) => s \in kept
  <2>1. next = NoCursor
    BY <1>5, <1>15
  <2>2. \A s \in After(n) : s >= since => s \in kept
    BY <1>2, <1>4, <1>9, <1>15, PageCovers
  <2> QED BY <2>1, <2>2, <1>12, NothingRead
<1>16. /\ next \in Cursors /\ next.boundary <= made
       /\ \A s \in After(n) : s >= since /\ Passed(next, s) => s \in kept
  BY <1>14, <1>15
<1>17. due \subseteq 1..made /\ \A s \in due : s \in visible /\ s >= since
  BY <1>6, <1>12
<1>18. /\ q.step = "fetched" /\ q.items = kept /\ q.next = next /\ q.owed = due
       /\ q.cursor = r.cursor /\ q.since = since /\ q.before = r.before
       /\ q \in CallRecords
  <2>1. kept \in SUBSET Subs /\ due \in SUBSET Subs
    BY <1>12, <1>17
  <2> QED BY <2>1, <1>1, <1>3, <1>7, <1>16 DEF CallRecords
<1>19. Covers(q, visible, made)
  <2>1. /\ r.cursor # NoCursor => r.cursor = r.before.cursor /\ r.since = r.before.since
        /\ r.cursor.boundary <= made
    BY <1>2 DEF Covers
  <2>2. ASSUME r.cursor = NoCursor, NEW s \in visible, s >= since, Passed(next, s) PROVE s \in kept
    <3>1. n = 0
      BY <2>2, <1>3, NothingRead
    <3>2. s \in After(n)
      <4>1. Place(s) \in Nat /\ Place(s) >= 1
        BY <1>2, PlaceTypes
      <4>2. Place(s) > n
        BY ONLY <4>1, <3>1
      <4> QED BY <4>2 DEF After
    <3> QED BY <2>2, <3>2, <1>16
  <2>3. ASSUME r.cursor # NoCursor, NEW s \in visible, s >= since, s < r.cursor.boundary, Passed(next, s)
        PROVE s \in kept
    <3>1. r.cursor.boundary \in visible /\ Place(r.cursor.boundary) = n
      BY <2>3, <1>3, <1>8 DEF SameBoundary
    <3>2. Place(r.cursor.boundary) < Place(s)
      BY <2>3, <3>1, <1>2, Places
    <3>3. Place(s) \in Nat
      BY <1>2, PlaceTypes
    <3>4. s \in After(n)
      <4>1. Place(s) > n
        BY ONLY <3>1, <3>2, <3>3, <1>9
      <4> QED BY <4>1 DEF After
    <3> QED BY <2>3, <3>4, <1>16
  <2> QED BY <2>1, <2>2, <2>3, <1>3, <1>12, <1>16, <1>17, <1>18 DEF Covers
<1> QED BY <1>8, <1>18, <1>19, CallChanges

\* A page and the checkpoint that are stored together cover what the scan owes so far.
LEMMA CommittingKeeps ==
    ASSUME PagesInv, NEW c \in Callers, NEW stamp \in Stamps, CommitPage(c, stamp) PROVE PagesInv'
<1>1. PICK r \in CallRecords : r = call[c]
  BY CallParts DEF PagesInv
<1>2. /\ PagesTypeOK /\ CheckpointCovers /\ Covers(r, visible, made) /\ r.step = "fetched"
      /\ r.before = checkpoint
  BY <1>1 DEF PagesInv, CommitPage, SameCheckpoint
<1>3. /\ store' = store \cup r.items
      /\ checkpoint' = [cursor |-> r.next, since |-> r.since, stamp |-> stamp]
      /\ owed' = IF r.cursor = NoCursor THEN r.owed ELSE owed
      /\ call' = [call EXCEPT ![c] = NoCall] /\ UNCHANGED <<visible, made>>
  BY <1>1 DEF CommitPage
<1>4. PICK next, since, due : next = r.next /\ since = r.since /\ due = owed'
  OBVIOUS
<1>5. /\ r.items \subseteq 1..made /\ r.owed \subseteq 1..made /\ next.boundary <= made
      /\ r.cursor # NoCursor => r.cursor = checkpoint.cursor /\ since = checkpoint.since
      /\ r.cursor = NoCursor =>
            \A s \in r.owed : s >= since /\ (s \in visible /\ Passed(next, s) => s \in r.items)
      /\ r.cursor # NoCursor =>
            \A s \in visible : s >= since /\ s < r.cursor.boundary /\ Passed(next, s) => s \in r.items
  BY <1>2, <1>4 DEF Covers
<1>6. /\ checkpoint'.cursor = next /\ checkpoint'.since = since /\ checkpoint' \in Positions
  <2>1. next \in Cursors /\ since \in Bounds
    BY <1>4 DEF CallRecords
  <2> QED BY <2>1, <1>3, <1>4 DEF Positions
<1>7. due \subseteq 1..made /\ store' \subseteq 1..made
  BY <1>2, <1>3, <1>4, <1>5, CallParts
<1>8. call' \in [Callers -> CallRecords] /\ \A d \in Callers : call'[d] = NoCall \/ call'[d] = call[d]
  BY <1>2, <1>3, CallParts, NothingRead
<1>9. PagesTypeOK'
  BY <1>2, <1>3, <1>4, <1>6, <1>7, <1>8 DEF PagesTypeOK, CallRecords
<1>10. CheckpointCovers'
  <2>1. \A s \in due : s >= since
    BY <1>2, <1>3, <1>4, <1>5 DEF CheckpointCovers
  <2>2. ASSUME NEW s \in due \cap visible, Passed(next, s) PROVE s \in store'
    <3>1. CASE r.cursor = NoCursor
      BY <2>2, <3>1, <1>3, <1>4, <1>5
    <3>2. CASE r.cursor # NoCursor
      <4>1. s \in owed /\ r.cursor = checkpoint.cursor
        BY <3>2, <1>3, <1>4, <1>5
      <4>2. CASE s >= r.cursor.boundary
        BY <4>1, <4>2, <1>2, <1>3 DEF CheckpointCovers, Passed
      <4>3. CASE ~(s >= r.cursor.boundary)
        <5>1. s \in Nat /\ r.cursor.boundary \in Nat
          <6>1. r.cursor.boundary \in 0..MaxMade
            BY DEF CallRecords, Cursors
          <6> QED BY <6>1, <1>2, PlaceTypes, PageBounds
        <5>2. s < r.cursor.boundary
          BY ONLY <4>3, <5>1
        <5> QED BY <2>1, <2>2, <3>2, <5>2, <1>3, <1>5
      <4> QED BY <4>2, <4>3
    <3> QED BY <3>1, <3>2
  <2> QED BY <2>1, <2>2, <1>3, <1>4, <1>5, <1>6 DEF CheckpointCovers
<1>11. \A d \in Callers : Covers(call'[d], visible, made)
  <2>1. Covers(NoCall, visible, made)
    BY NothingRead DEF Covers
  <2> QED BY <2>1, <1>8 DEF PagesInv
<1> QED BY <1>3, <1>9, <1>10, <1>11 DEF PagesInv

\* A submission made or withdrawn is none a page has to have.
LEMMA ListChanges ==
    ASSUME PagesInv, Submit \/ \E s \in Subs : Unlist(s) PROVE PagesInv'
<1>1. /\ PagesTypeOK /\ CheckpointCovers /\ \A c \in Callers : Covers(call[c], visible, made)
      /\ UNCHANGED <<store, checkpoint, owed, call>>
  BY DEF PagesInv, Submit, Unlist
<1>2. PICK listed, newest : listed = visible' /\ newest = made'
  OBVIOUS
<1>3. /\ newest \in Nat /\ made \in Nat /\ made <= newest /\ newest <= MaxMade
      /\ \A s \in listed : s \in visible \/ (s = made + 1 /\ newest = made + 1)
  BY <1>1, <1>2, CallParts, PageBounds DEF Submit, Unlist
<1>4. listed \subseteq 1..newest /\ 1..made \subseteq 1..newest /\ newest \in 0..MaxMade
  <2>1. visible \subseteq 1..made
    BY <1>1, CallParts
  <2>2. 1..made \subseteq 1..newest /\ newest \in 0..MaxMade
    BY <1>3, PageBounds
  <2>3. newest = made + 1 => made + 1 \in 1..newest
    BY <1>3
  <2>4. \A s \in listed : s \in 1..newest
    BY <2>1, <2>2, <2>3, <1>3
  <2> QED BY <2>2, <2>4
<1>5. PagesTypeOK'
  BY <1>1, <1>2, <1>4 DEF PagesTypeOK
<1>6. CheckpointCovers'
  <2>1. checkpoint.cursor.boundary <= newest
    <3>1. checkpoint.cursor.boundary \in 0..MaxMade
      BY <1>1, CallParts DEF Cursors
    <3> QED BY <3>1, <1>1, <1>3, PageBounds DEF CheckpointCovers
  <2>2. \A s \in owed \cap listed : s \in visible
    BY <1>1, <1>3, CallParts
  <2> QED BY <2>1, <2>2, <1>1, <1>2 DEF CheckpointCovers
<1>7. ASSUME NEW c \in Callers PROVE Covers(call[c], listed, newest)
  <2>1. PICK r \in CallRecords : r = call[c]
    BY <1>1, CallParts
  <2>2. Covers(r, visible, made)
    BY <1>1, <2>1
  <2>3. r.cursor.boundary \in Nat /\ r.next.boundary \in Nat
    <3>1. r.cursor.boundary \in 0..MaxMade /\ r.next.boundary \in 0..MaxMade
      BY DEF CallRecords, Cursors
    <3> QED BY <3>1, PageBounds
  <2> SUFFICES ASSUME r.step # "idle" PROVE Covers(r, listed, newest)
    BY <2>1 DEF Covers
  <2>4. /\ r.cursor # NoCursor => r.cursor = r.before.cursor /\ r.since = r.before.since
        /\ r.cursor.boundary <= made
    BY <2>2 DEF Covers
  <2>5. r.cursor.boundary <= newest
    BY ONLY <2>3, <2>4, <1>3
  <2>6. ASSUME r.step = "fetched"
        PROVE /\ r.items \subseteq 1..newest /\ r.owed \subseteq 1..newest /\ r.next.boundary <= newest
              /\ r.cursor = NoCursor =>
                    \A s \in r.owed : s >= r.since /\ (s \in listed /\ Passed(r.next, s) => s \in r.items)
              /\ r.cursor # NoCursor =>
                    \A s \in listed :
                        s >= r.since /\ s < r.cursor.boundary /\ Passed(r.next, s) => s \in r.items
    <3>1. /\ r.items \subseteq 1..made /\ r.owed \subseteq 1..made /\ r.next.boundary <= made
          /\ r.cursor = NoCursor =>
                \A s \in r.owed : s >= r.since /\ (s \in visible /\ Passed(r.next, s) => s \in r.items)
          /\ r.cursor # NoCursor =>
                \A s \in visible :
                    s >= r.since /\ s < r.cursor.boundary /\ Passed(r.next, s) => s \in r.items
      BY <2>2, <2>6 DEF Covers
    <3>2. r.items \subseteq 1..newest /\ r.owed \subseteq 1..newest /\ r.next.boundary <= newest
      <4>1. r.next.boundary <= newest
        BY ONLY <3>1, <2>3, <1>3
      <4> QED BY <4>1, <3>1, <1>4
    <3>3. \A s \in listed : s \in r.owed \/ s < r.cursor.boundary => s \in visible
      <4> SUFFICES ASSUME NEW s \in listed, s = made + 1 PROVE s \notin r.owed /\ ~(s < r.cursor.boundary)
        BY <1>3
      <4>1. s \notin 1..made
        BY <1>3
      <4>2. ~(s < r.cursor.boundary)
        BY ONLY <2>3, <2>4, <1>3, s = made + 1
      <4> QED BY <4>1, <4>2, <3>1
    <3> QED BY <3>1, <3>2, <3>3
  <2> QED BY <2>4, <2>5, <2>6 DEF Covers
<1>8. \A c \in Callers : Covers(call'[c], visible', made')
  BY <1>1, <1>2, <1>7
<1> QED BY <1>5, <1>6, <1>8 DEF PagesInv

\* Every step of the paging keeps the pages in order.
LEMMA PagesStepKeeps == ASSUME PagesInv, [PagesNext]_pagesVars PROVE PagesInv'
<1>1. CASE \E c \in Callers : \E mode \in {"start", "continue", "restart"}, since \in Bounds :
              ReadCheckpoint(c, mode, since)
  BY <1>1, ReadingKeeps
<1>2. CASE \E c \in Callers : FetchPage(c)
  BY <1>2, FetchingKeeps
<1>3. CASE \E c \in Callers : EndCall(c)
  BY <1>3, EndingCallKeeps
<1>4. CASE \E c \in Callers : \E stamp \in Stamps : CommitPage(c, stamp)
  BY <1>4, CommittingKeeps
<1>5. CASE Submit \/ \E s \in Subs : Unlist(s)
  BY <1>5, ListChanges
<1>6. CASE UNCHANGED pagesVars
  BY <1>6 DEF pagesVars, PagesInv, PagesTypeOK, CheckpointCovers
<1> QED BY <1>1, <1>2, <1>3, <1>4, <1>5, <1>6 DEF PagesNext

\* A finished scan has what it owes.
LEMMA ScanHasDelivered == ASSUME PagesInv PROVE ScanDelivers
BY DEF PagesInv, CheckpointCovers, ScanDelivers, Passed

-----------------------------------------------------------------------------
(* The parts together                                                      *)

\* Each of the parts alone.
TagSpec == TagInit /\ [][TagNext]_tagVars
CompletionSpec == CompletionInit /\ [][CompletionNext]_completionVars
EntriesSpec == EntriesInit /\ [][EntriesNext]_entryVars
RatingSpec == RatingInit /\ [][RatingNext]_ratingVars
PlanningSpec == PlanningInit /\ [][PlanningNext]_planningVars
PagesSpec == PagesInit /\ [][PagesNext]_pagesVars
BridgeSpec == BridgeInit /\ [][BridgeNext]_bridgeVars

\* What each part keeps in order.
RecordsInv ==
    /\ TagInv /\ CompletionInv /\ EntriesInv /\ RatingInv
    /\ TrainingInv /\ PagesInv /\ BridgeInv

\* In the run of all the services, each of the parts takes only its own steps.
LEMMA EachRecordRuns ==
    ServicesSpec =>
        /\ OpsSpec /\ MaterialSpec
        /\ TagSpec /\ CompletionSpec /\ EntriesSpec /\ RatingSpec
        /\ PlanningSpec /\ PagesSpec /\ BridgeSpec
<1>1. ServicesInit =>
        /\ OpsInit /\ MaterialInit /\ TagInit /\ CompletionInit /\ EntriesInit /\ RatingInit
        /\ PlanningInit /\ PagesInit /\ BridgeInit
  BY DEF ServicesInit, RecordsInit
<1>2. ASSUME [ServicesNext]_servicesVars
      PROVE  /\ [OpsNext]_opsVars /\ [MaterialNext]_materialVars
             /\ [TagNext]_tagVars /\ [CompletionNext]_completionVars /\ [EntriesNext]_entryVars
             /\ [RatingNext]_ratingVars /\ [PlanningNext]_planningVars /\ [PagesNext]_pagesVars
             /\ [BridgeNext]_bridgeVars
  <2>1. CASE Operations
    BY <2>1 DEF Operations, recordsVars
  <2>2. CASE Material
    BY <2>2 DEF Material, paidVars, recordsVars
  <2>3. CASE UserRecords
    <3>1. RecordsNext /\ UNCHANGED opsVars /\ UNCHANGED materialVars
      BY <2>3 DEF UserRecords, paidVars
    <3>. QED
      BY <3>1 DEF RecordsNext
  <2>4. CASE Plans \/ Hints \/ Reports \/ Audit
    BY <2>4 DEF Plans, Hints, Reports, Audit, recordsVars
  <2>5. CASE UNCHANGED servicesVars
    BY <2>5 DEF servicesVars, paidVars, recordsVars
  <2>. QED
    BY <1>2, <2>1, <2>2, <2>3, <2>4, <2>5 DEF ServicesNext
<1>. QED
  BY <1>1, <1>2, PTL DEF ServicesSpec, OpsSpec, MaterialSpec, TagSpec, CompletionSpec, EntriesSpec,
                         RatingSpec, PlanningSpec, PagesSpec, BridgeSpec

\* Whatever is reviewed, adopted and withdrawn, and whatever the clock reads, what a human
\* last said of a tag is in force, and a checked run governs the tags nobody reviewed.
THEOREM TagsAreGoverned == TagSpec => []TagInv /\ CheckedRunGoverns
<1>1. TagInit => TagInv
  BY TagsStart
<1>2. TagInv /\ [TagNext]_tagVars => TagInv'
  BY TagStepKeeps
<1>3. TagInv /\ [TagNext]_tagVars =>
        [ analyses' # analyses =>
            \A t \in {u \in Tags : ManualOf(u) = {}} :
                LET adopted == \E d \in decisions' : d.run = Len(analyses') /\ d.tag = t /\ Effective(d)
                    checked == \E d \in decisions' : d.run = Len(analyses')
                IN  /\ checked => \A d \in Current(decisions', t) : Effective(d) <=> adopted
                    /\ ~checked => Current(decisions', t) = Current(decisions, t) ]_tagVars
  BY TagStepGoverns
<1>. QED
  BY <1>1, <1>2, <1>3, PTL DEF TagSpec, CheckedRunGoverns

\* However many editors preview, record and trash at once, histories stay in order and what
\* lands is what its preview showed.
THEOREM CompletionsLand == CompletionSpec => []CompletionInv /\ LandsAsPreviewed
<1>1. CompletionInit => CompletionInv
  BY CompletionStarts
<1>2. CompletionInv /\ [CompletionNext]_completionVars => CompletionInv'
  BY CompletionStepKeeps
<1>3. CompletionInv /\ [CompletionNext]_completionVars =>
        [ \A e \in Editors :
            LET edit == open[e]
            IN  edit.kind = "preview" /\ open'[e] = NoEdit /\ past' # past =>
                  \A p \in DOMAIN edit.seen :
                      LET now == Latest(p)'
                          seen == edit.seen[p]
                      IN  /\ now.mode = edit.mode /\ now.skills = seen.skills \cup edit.skills
                          /\ now.solutions = (IF edit.mode = "independent" THEN {} ELSE seen.solutions)
                          /\ now = seen \/ now.at > seen.at ]_completionVars
  BY CompletionStepLands
<1>. QED
  BY <1>1, <1>2, <1>3, PTL DEF CompletionSpec, LandsAsPreviewed

\* A contest has one virtual result, and an edit lands only on the row its screen showed.
THEOREM EntriesAgree == EntriesSpec => []EntriesInv /\ EditsWhatWasSeen
<1>1. EntriesInit => EntriesInv
  BY EntriesStart
<1>2. EntriesInv /\ [EntriesNext]_entryVars =>
        /\ EntriesInv'
        /\ [ledger' # ledger => \E s \in Screens : screen[s] = ledger /\ screen'[s] = ledger']_entryVars
  BY EntriesStepKeeps
<1>. QED
  BY <1>1, <1>2, PTL DEF EntriesSpec, EditsWhatWasSeen

\* A rating that is stored is of the handle in force, and not lower than the one before.
THEOREM RatingsMoveOn == RatingSpec => []RatingInv /\ RatingMovesOn
<1>1. RatingInit => RatingInv
  BY RatingStarts
<1>2. RatingInv /\ [RatingNext]_ratingVars => RatingInv'
  BY RatingStepKeeps
<1>3. RatingInv /\ [RatingNext]_ratingVars =>
        [rating' # rating =>
           /\ rating'.handle = handle
           /\ rating'.handle = rating.handle => rating'.value >= rating.value]_ratingVars
  BY RatingStepMovesOn
<1>. QED
  BY <1>1, <1>2, <1>3, PTL DEF RatingSpec, RatingMovesOn

\* The days of a plan add up, a drafted day leaves nothing out that would fit, and what was
\* checked off stays as it was.
THEOREM PlansAddUp == PlanningSpec => []TrainingInv /\ RecordsStayTrue
<1>1. PlanningInit => TrainingInv
  BY PlansStart
<1>2. TrainingInv /\ [PlanningNext]_planningVars => TrainingInv'
  BY PlanStepKeeps
<1>3. TrainingInv /\ [PlanningNext]_planningVars =>
        [/\ plan.status = "adopted" => plan'.status = "adopted"
         /\ \A i \in DOMAIN plan.tasks :
               plan.tasks[i].status # "planned" =>
                  /\ plan'.tasks[i].status # "planned"
                  /\ plan'.tasks[i] = [plan.tasks[i] EXCEPT !.status = plan'.tasks[i].status]]_planningVars
  BY PlanStepStays DEF RecordsStay
<1>. QED
  BY <1>1, <1>2, <1>3, PTL DEF PlanningSpec, RecordsStayTrue

\* However the list shifts between the pages, and whoever pages it, a scan that reached the
\* end has stored what was listed when it began and still is.
THEOREM ScansDeliver == PagesSpec => []ScanDelivers
<1>1. PagesInit => PagesInv
  BY PagesStart
<1>2. PagesInv /\ [PagesNext]_pagesVars => PagesInv'
  BY PagesStepKeeps
<1>3. PagesInv => ScanDelivers
  BY ScanHasDelivered
<1>. QED
  BY <1>1, <1>2, <1>3, PTL DEF PagesSpec

\* The stored credential changes only while the caller waits and to what it asked for.
THEOREM NothingMovesBehind == BridgeSpec => NothingBehindTheCaller
<1>1. BridgeInit => BridgeInv
  BY BridgeStarts
<1>2. BridgeInv /\ [BridgeNext]_bridgeVars => BridgeInv'
  BY BridgeStepKeeps
<1>3. BridgeInv /\ [BridgeNext]_bridgeVars =>
        [credential' # credential => Waiting /\ credential' = invoke.asked]_bridgeVars
  BY BridgeStepAnswers
<1>4. BridgeInv => (invoke.outcome = "done" => credential = invoke.asked)
  BY DEF BridgeInv, OneChild
<1>. QED
  BY <1>1, <1>2, <1>3, <1>4, PTL DEF BridgeSpec, NothingBehindTheCaller

\* The invariants of all the parts hold in the run of all the services.
LEMMA RecordsInductive == ServicesSpec => []RecordsInv
<1>1. PagesInit => PagesInv
  BY PagesStart
<1>2. PagesInv /\ [PagesNext]_pagesVars => PagesInv'
  BY PagesStepKeeps
<1>3. BridgeInit => BridgeInv
  BY BridgeStarts
<1>4. BridgeInv /\ [BridgeNext]_bridgeVars => BridgeInv'
  BY BridgeStepKeeps
<1>. QED
  BY <1>1, <1>2, <1>3, <1>4, EachRecordRuns, TagsAreGoverned, CompletionsLand, EntriesAgree, RatingsMoveOn,
     PlansAddUp, PTL DEF RecordsInv, PagesSpec, BridgeSpec

\* What is stored for the user agrees with itself after any sequence of edits, runs, scans
\* and readings of the clock.
THEOREM EverythingStoredAgrees == ServicesSpec => []StoredAgrees
<1>1. RecordsInv => StoredAgrees
  BY ReviewsPrevail, ScanHasDelivered
     DEF RecordsInv, TagInv, CompletionInv, EntriesInv, TrainingInv, StoredAgrees
<1>. QED
  BY <1>1, RecordsInductive, PTL

\* An edit, a run or a fetch lands on what its author saw, or not at all.
THEOREM EveryEditLands == ServicesSpec => EditsLand
BY EachRecordRuns, TagsAreGoverned, CompletionsLand, EntriesAgree, RatingsMoveOn, PlansAddUp,
   NothingMovesBehind, PTL DEF EditsLand

\* The state of every service and of every part has its types.
THEOREM EveryServiceIsTyped == ServicesSpec => []ServicesTypesOK
<1>1. PlanInv => PlanTypeOK
  BY DEF PlanInv
<1>2. HintInv => HintTypeOK
  BY DEF HintInv
<1>3. ReportInv => ReportTypeOK
  BY DEF ReportInv
<1>4. RecordsInv => /\ TagTypeOK /\ CompletionTypeOK /\ LedgerTypeOK /\ RatingTypeOK /\ PlanStateOK
                    /\ PagesTypeOK /\ BridgeTypeOK
  BY DEF RecordsInv, TagInv, CompletionInv, EntriesInv, RatingInv, TrainingInv, PagesInv, BridgeInv
<1>5. /\ PlanTypeOK /\ HintTypeOK /\ ReportTypeOK /\ OpsTypeOK /\ AuditTypeOK /\ MaterialTypeOK
      /\ TagTypeOK /\ CompletionTypeOK /\ LedgerTypeOK /\ RatingTypeOK /\ PlanStateOK
      /\ PagesTypeOK /\ BridgeTypeOK
      => ServicesTypesOK
  BY DEF ServicesTypesOK, RecordsTypesOK
<1>. QED
  BY <1>1, <1>2, <1>3, <1>4, <1>5, EachServiceRuns, EachRecordRuns, PlanInductive, HintInductive,
     ReportInductive, AuditTypes, OperationsTypes, MaterialTypesHold, RecordsInductive, PTL

\* In the run of all the services, a plan runs alone, the settings move only while no
\* operation is alive, and the store is closed after the last of them.
THEOREM EveryOperationIsKept == ServicesSpec => OperationsKept
BY EachRecordRuns, OperationsAreKept, PTL

\* In the run of all the services, the stored problem and its head agree, and what was fetched
\* against an older head replaces nothing newer.
THEOREM EveryMaterialIsKept == ServicesSpec => MaterialKept
BY EachRecordRuns, MaterialIsKept, PTL

==============================================================================
