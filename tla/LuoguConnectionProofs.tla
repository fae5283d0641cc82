------------------------ MODULE LuoguConnectionProofs ------------------------
(***************************************************************************)
(* Proofs about LuoguConnection.  Addressable is not inductive: that Save   *)
(* may drop the old stale mark, that a retired entry is not needed and that *)
(* forget may delete the row depend on what the operation under way has     *)
(* done before.  OpKnown says so, stage by stage: what its copy of the row,   *)
(* its fresh reference and its list of references tell about the stores.    *)
(* Settled adds what a request in which nothing has failed yet has put in   *)
(* order so far; CleanLeavesNothing follows from it when the request ends.  *)
(***************************************************************************)
EXTENDS LuoguConnection, TLAPS

\* Both references of a row differ, and none is newer than the last one issued.
RowSane ==
    /\ row.ref <= issued /\ row.stale <= issued
    /\ row.stale # 0 => row.stale # row.ref
    /\ row.ref = 0 => row.stale = 0

\* Which operation a stage belongs to.
KindKnown ==
    /\ op.at = "recover" => op.kind \in {"connect", "probe"}
    /\ op.at = "retire" /\ op.then = "recover" => op.kind \in {"connect", "probe"}
    /\ op.at = "test" => op.kind = "connect"
    /\ op.at \in {"read", "record"} => op.kind = "probe"
    /\ op.at \in {"remove", "forget"} => op.kind = "forget"
    /\ op.at = "journal" => op.kind = "connect"
    /\ op.at = "retire" /\ op.then = "journal" => op.kind = "connect"
    /\ op.at \in {"recover", "test", "stale", "journal"} /\ op.kind = "connect"
          => issued < MaxRefs
    /\ op.at = "retire" /\ op.then \in {"recover", "journal"} /\ op.kind = "connect"
          => issued < MaxRefs

\* The operation's copy of the row.
ViewKnown ==
    /\ op.at \in {"recover", "test", "read", "journal", "write", "save", "old", "clear"}
          => op.view = row
    /\ op.at = "retire" /\ op.then # "idle" => op.view = row
    /\ op.at \in {"stale", "record"} => op.view.ref = row.ref /\ op.view.stale \in {0, row.stale}
    /\ op.at = "stale" => op.view.stale = row.stale /\ row.stale # 0
    /\ op.at = "stale" /\ op.kind = "connect" => op.view = row
    /\ op.at = "stale" /\ op.kind = "probe" /\ op.view.connected => op.view.ref \in vault
    /\ op.at = "record" /\ op.view.connected => op.view.ref \in vault
    /\ op.at = "record" /\ op.view.stale # row.stale => row.stale \notin vault

\* What connect has stored and removed so far.
ConnectKnown ==
    /\ op.at \in {"write", "save", "compensate"}
          => op.fresh = issued /\ op.fresh \in journal
             /\ row.ref < op.fresh /\ row.stale < op.fresh
    /\ op.at = "save" => op.fresh \in vault
    /\ op.at \in {"journal", "write", "save", "clear"} => row.stale \notin vault
    /\ op.at = "retire" /\ op.then = "journal" => row.stale \notin vault
    /\ op.at \in {"old", "clear", "confirm"} => row.ref = op.fresh /\ row.ref \in vault
    /\ op.at = "retire" /\ op.then \in {"old", "confirm"}
          => row.ref = op.fresh /\ row.ref \in vault
    /\ op.at = "retire" => op.ref \in Named(row) \/ op.ref \notin vault

\* What forget has removed so far.
ForgetKnown ==
    /\ op.at = "remove" /\ ~op.broken => vault \subseteq op.todo
    /\ op.at = "forget" => vault = {}

OpKnown == RowSane /\ KindKnown /\ ViewKnown /\ ConnectKnown /\ ForgetKnown

Inv == TypeOK /\ Addressable /\ OpKnown

-----------------------------------------------------------------------------

\* A row names references.
LEMMA NamedRefs == ASSUME NEW r \in Rows PROVE Named(r) \subseteq Refs
  <1>1. r.ref \in 0 .. MaxRefs /\ r.stale \in 0 .. MaxRefs BY DEF Rows
  <1>2. \A x \in 0 .. MaxRefs : x # 0 => x \in Refs BY RefsAssumption DEF Refs
  <1> QED BY <1>1, <1>2 DEF Named

\* The references issued are among the positions counted.
LEMMA IssuedRefs == \A n \in Refs : n \in 0 .. MaxRefs
  BY RefsAssumption DEF Refs

\* The idle operation is an operation.
LEMMA IdleTyped == Idle \in Operations
  <1>1. NoRow \in Rows BY RefsAssumption DEF NoRow, Rows
  <1>2. {} \in SUBSET Refs /\ 0 \in 0 .. MaxRefs BY RefsAssumption
  <1> QED BY <1>1, <1>2 DEF Operations, Idle, Stages

\* What an operation keeps of its state from stage to stage.
Kept == op'.kind = op.kind /\ op'.view = op.view /\ op'.fresh = op.fresh
     /\ op'.broken = op.broken

\* Going to a stage.
LEMMA AfterGoto ==
    ASSUME op \in Operations, NEW at \in Stages, Goto(at)
    PROVE  op' \in Operations /\ Kept /\ op'.at = at /\ op'.todo = op.todo
  BY DEF Operations, Goto, Kept

\* Retiring an entry.
LEMMA AfterRetire ==
    ASSUME op \in Operations, NEW r \in 0 .. MaxRefs,
           NEW then \in {"idle", "recover", "journal", "old", "confirm"}, op' = Retire(r, then)
    PROVE  /\ op' \in Operations /\ Kept /\ op'.todo = op.todo
           /\ op'.at = "retire" /\ op'.ref = r /\ op'.then = then
  BY DEF Operations, Retire, Kept, Stages

\* Ending: the operation knows nothing any more.
LEMMA AfterEnd ==
    ASSUME op \in Operations, NEW clean \in BOOLEAN, op' = Ended(clean)
    PROVE  op' \in Operations /\ op'.at = "idle"
  <1>1. op' = [kind |-> op.kind, at |-> "idle", view |-> NoRow, todo |-> {}, ref |-> 0,
               then |-> "idle", fresh |-> 0, broken |-> FALSE, clean |-> clean]
    BY DEF Ended, Idle
  <1>2. NoRow \in Rows BY RefsAssumption DEF NoRow, Rows
  <1>3. op.kind \in {"none", "connect", "probe", "forget"} /\ 0 \in 0 .. MaxRefs
    BY RefsAssumption DEF Operations
  <1> QED BY <1>1, <1>2, <1>3 DEF Operations, Stages

\* Between operations nothing needs to be known of them.
LEMMA AtRest ==
    ASSUME op'.at = "idle" PROVE KindKnown' /\ ViewKnown' /\ ConnectKnown' /\ ForgetKnown'
  BY DEF KindKnown, ViewKnown, ConnectKnown, ForgetKnown

\* One step of Begin keeps the invariant.
LEMMA BeginKeeps ==
    ASSUME Inv, NEW kind \in {"connect", "probe", "forget"}, Begin(kind) PROVE Inv'
  <1> USE RefsAssumption DEF Inv, Refs, Rows, Stages, Idle, NoRow
  <1>1. TypeOK'
    <2>1. op' \in Operations
      <3> DEFINE todo == IF kind = "forget" THEN journal \cup Named(row) ELSE journal
                 at == IF kind = "forget" THEN "remove" ELSE "recover"
      <3>1. todo \in SUBSET Refs BY NamedRefs DEF TypeOK
      <3>2. at \in Stages /\ row \in Rows BY DEF TypeOK
      <3>3. op' = [kind |-> kind, at |-> at, view |-> row, todo |-> todo, ref |-> 0,
                   then |-> "idle", fresh |-> 0, broken |-> FALSE, clean |-> TRUE]
        BY DEF Begin
      <3> QED BY <3>1, <3>2, <3>3 DEF Operations
    <2> QED BY <2>1 DEF TypeOK, Begin
  <1>2. Addressable' BY DEF Addressable, Begin, Named
  <1>3. RowSane' BY DEF OpKnown, RowSane, Begin
  <1>4. KindKnown' BY DEF OpKnown, KindKnown, Begin
  <1>5. ViewKnown' BY DEF OpKnown, ViewKnown, Begin
  <1>6. ConnectKnown' BY DEF OpKnown, ConnectKnown, Begin
  <1>7. ForgetKnown' BY DEF OpKnown, ForgetKnown, Begin, Addressable, Named
  <1> QED BY <1>1, <1>2, <1>3, <1>4, <1>5, <1>6, <1>7 DEF OpKnown


\* A request is given up.
LEMMA AbandonKeeps ==
    ASSUME Inv, Abandon PROVE Inv'
  <1> USE DEF Inv, OpKnown
  <1>1. /\ op' \in Operations /\ op'.at = "idle"
       /\ UNCHANGED <<row, journal, vault, issued>>
    BY AfterEnd DEF Abandon, GiveUp, TypeOK
  <1>2. TypeOK' BY <1>1, IssuedRefs DEF TypeOK
  <1>3. Addressable' /\ RowSane'
    BY <1>1, RefsAssumption DEF Kept, Addressable, Named, RowSane, ViewKnown, ConnectKnown,
       ForgetKnown, TypeOK, Operations, Rows, Refs
  <1> QED BY <1>1, <1>2, <1>3, AtRest

\* An entry is retired, or stays journaled: its secret is gone or the row names it.
LEMMA RetireEntryKeeps ==
    ASSUME Inv, RetireEntry PROVE Inv'
  <1> USE DEF Inv, OpKnown
  <1>0. op.then \in Stages /\ 0 \in 0 .. MaxRefs BY RefsAssumption DEF TypeOK, Operations, Stages
  <1>1. CASE op.then = "idle"
    <2>1. /\ op' \in Operations /\ op'.at = "idle" /\ UNCHANGED <<row, vault, issued>>
         /\ journal' \in {journal, journal \ {op.ref}} /\ op.at = "retire"
      BY <1>0, <1>1, AfterEnd DEF RetireEntry, TypeOK
    <2>2. TypeOK' BY <2>1, IssuedRefs, <1>0 DEF TypeOK
    <2>3. Addressable' /\ RowSane'
      BY <2>1, <1>1, RefsAssumption DEF Kept, Addressable, Named, RowSane, ViewKnown,
         ConnectKnown, ForgetKnown, TypeOK, Operations, Rows, Refs
    <2> QED BY <2>1, <2>2, <2>3, AtRest
  <1>2. CASE op.then # "idle"
    <2>1. /\ op' \in Operations /\ Kept /\ op'.at = op.then /\ op'.todo = op.todo
         /\ UNCHANGED <<row, vault, issued>>
         /\ journal' \in {journal, journal \ {op.ref}} /\ op.at = "retire"
      BY <1>0, <1>2, RefsAssumption DEF RetireEntry, TypeOK, Operations, Kept, Stages
    <2>2. TypeOK' BY <2>1, IssuedRefs, <1>0 DEF TypeOK
    <2>3. Addressable' /\ RowSane'
      BY <2>1, <1>2, RefsAssumption DEF Kept, Addressable, Named, RowSane, ViewKnown,
         ConnectKnown, ForgetKnown, TypeOK, Operations, Rows, Refs
    <2>4. KindKnown' /\ ForgetKnown'
      BY <2>1, <1>2 DEF Kept, KindKnown, ForgetKnown, Addressable, Named, TypeOK, Operations
    <2>5. ViewKnown'
      BY <2>1, <1>2 DEF Kept, ViewKnown, KindKnown, RowSane, ConnectKnown, TypeOK, Operations,
         Rows
    <2>6. ConnectKnown'
      BY <2>1, <1>2, RefsAssumption DEF Kept, ConnectKnown, ViewKnown, KindKnown, RowSane, Named,
         TypeOK, Operations, Rows, Refs
    <2> QED BY <2>2, <2>3, <2>4, <2>5, <2>6
  <1> QED BY <1>1, <1>2

\* A live reference is about to be retired.
LEMMA RecoverAdoptedKeeps ==
    ASSUME Inv, NEW r \in Refs, RecoverAdopted(r) PROVE Inv'
  <1> USE DEF Inv, OpKnown
  <1>0. op.todo \ {r} \in SUBSET Refs /\ r \in 0 .. MaxRefs BY IssuedRefs DEF TypeOK, Operations
  <1>1. /\ op.at = "recover" /\ r \in Named(op.view) /\ op' \in Operations /\ Kept
       /\ op'.at = "retire" /\ op'.ref = r /\ op'.then = "recover"
       /\ UNCHANGED <<row, journal, vault, issued>>
    BY <1>0, RefsAssumption DEF RecoverAdopted, Adopted, TypeOK, Operations, Kept, Stages, Refs
  <1>2. TypeOK' BY <1>1, IssuedRefs, <1>0 DEF TypeOK
  <1>3. Addressable' /\ RowSane'
    BY <1>1, RefsAssumption DEF Kept, Addressable, Named, RowSane, ViewKnown, ConnectKnown,
       ForgetKnown, TypeOK, Operations, Rows, Refs
  <1>4. KindKnown' /\ ForgetKnown'
    BY <1>1 DEF Kept, KindKnown, ForgetKnown, Addressable, Named, TypeOK, Operations
  <1>5. ViewKnown'
    BY <1>1 DEF Kept, ViewKnown, KindKnown, RowSane, ConnectKnown, TypeOK, Operations, Rows
  <1>6. ConnectKnown'
    BY <1>1, RefsAssumption DEF Kept, ConnectKnown, ViewKnown, KindKnown, RowSane, Named,
       TypeOK, Operations, Rows, Refs
  <1> QED BY <1>2, <1>3, <1>4, <1>5, <1>6

\* An orphan is removed, or stays journaled.
LEMMA RecoverOrphanKeeps ==
    ASSUME Inv, NEW r \in Refs, NEW result \in Results, RecoverOrphan(r, result) PROVE Inv'
  <1> USE DEF Inv, OpKnown
  <1>0. op.todo \ {r} \in SUBSET Refs /\ r \in 0 .. MaxRefs BY IssuedRefs DEF TypeOK, Operations
  <1>1. CASE result = "done"
    <2>1. /\ op.at = "recover" /\ op' \in Operations /\ Kept /\ op'.at = "retire"
         /\ op'.ref = r /\ op'.then = "recover" /\ vault' = vault \ {r}
         /\ UNCHANGED <<row, journal, issued>>
      BY <1>0, <1>1, RefsAssumption DEF RecoverOrphan, Removal, TypeOK, Operations, Kept,
         Stages, Refs
    <2>2. TypeOK' BY <2>1, IssuedRefs, <1>0 DEF TypeOK
    <2>3. Addressable' /\ RowSane'
      BY <2>1, <1>1, RefsAssumption DEF Kept, Addressable, Named, RowSane, ViewKnown,
         ConnectKnown, ForgetKnown, TypeOK, Operations, Rows, Refs
    <2>4. KindKnown' /\ ForgetKnown'
      BY <2>1, <1>1 DEF Kept, KindKnown, ForgetKnown, Addressable, Named, TypeOK, Operations
    <2>5. ViewKnown'
      BY <2>1, <1>1 DEF Kept, ViewKnown, KindKnown, RowSane, ConnectKnown, TypeOK, Operations,
         Rows
    <2>6. ConnectKnown'
      BY <2>1, <1>1, RefsAssumption DEF Kept, ConnectKnown, ViewKnown, KindKnown, RowSane, Named,
         TypeOK, Operations, Rows, Refs
    <2> QED BY <2>2, <2>3, <2>4, <2>5, <2>6
  <1>2. CASE result = "failed"
    <2>1. /\ op.at = "recover" /\ r \notin Named(op.view) /\ op' \in Operations /\ Kept
         /\ op'.at = op.at /\ vault' \in {vault, vault \ {r}}
         /\ UNCHANGED <<row, journal, issued>>
      BY <1>0, <1>2, RefsAssumption DEF RecoverOrphan, Adopted, Removal, TypeOK, Operations,
         Kept, Stages
    <2>2. TypeOK' BY <2>1, IssuedRefs, <1>0 DEF TypeOK
    <2>3. Addressable' /\ RowSane'
      BY <2>1, <1>2, RefsAssumption DEF Kept, Addressable, Named, RowSane, ViewKnown,
         ConnectKnown, ForgetKnown, TypeOK, Operations, Rows, Refs
    <2>4. KindKnown' /\ ForgetKnown'
      BY <2>1, <1>2 DEF Kept, KindKnown, ForgetKnown, Addressable, Named, TypeOK, Operations
    <2>5. ViewKnown'
      BY <2>1, <1>2 DEF Kept, ViewKnown, KindKnown, RowSane, ConnectKnown, TypeOK, Operations,
         Rows
    <2>6. ConnectKnown'
      BY <2>1, <1>2, RefsAssumption DEF Kept, ConnectKnown, ViewKnown, KindKnown, RowSane, Named,
         TypeOK, Operations, Rows, Refs
    <2> QED BY <2>2, <2>3, <2>4, <2>5, <2>6
  <1>3. CASE result = "cancelled"
    <2>1. /\ op' \in Operations /\ op'.at = "idle" /\ vault' \in {vault, vault \ {r}}
         /\ UNCHANGED <<row, journal, issued>>
      BY <1>0, <1>3, AfterEnd DEF RecoverOrphan, Removal, GiveUp, TypeOK
    <2>2. TypeOK' BY <2>1, IssuedRefs, <1>0 DEF TypeOK
    <2>3. Addressable' /\ RowSane'
      BY <2>1, <1>3, RefsAssumption DEF Kept, Addressable, Named, RowSane, ViewKnown,
         ConnectKnown, ForgetKnown, TypeOK, Operations, Rows, Refs
    <2> QED BY <2>1, <2>2, <2>3, AtRest
  <1> QED BY <1>1, <1>2, <1>3 DEF Results

\* Recovery hands over to the test or to the reading.
LEMMA RecoveredKeeps ==
    ASSUME Inv, Recovered PROVE Inv'
  <1> USE DEF Inv, OpKnown
  <1>1. CASE op.kind = "connect"
    <2>1. /\ op.at = "recover" /\ op' \in Operations /\ Kept /\ op'.at = "test"
         /\ UNCHANGED <<row, journal, vault, issued>>
      BY <1>1, AfterGoto DEF Recovered, TypeOK, Stages
    <2>2. TypeOK' BY <2>1, IssuedRefs DEF TypeOK
    <2>3. Addressable' /\ RowSane'
      BY <2>1, <1>1, RefsAssumption DEF Kept, Addressable, Named, RowSane, ViewKnown,
         ConnectKnown, ForgetKnown, TypeOK, Operations, Rows, Refs
    <2>4. KindKnown' /\ ForgetKnown'
      BY <2>1, <1>1 DEF Kept, KindKnown, ForgetKnown, Addressable, Named, TypeOK, Operations
    <2>5. ViewKnown'
      BY <2>1, <1>1 DEF Kept, ViewKnown, KindKnown, RowSane, ConnectKnown, TypeOK, Operations,
         Rows
    <2>6. ConnectKnown'
      BY <2>1, <1>1, RefsAssumption DEF Kept, ConnectKnown, ViewKnown, KindKnown, RowSane, Named,
         TypeOK, Operations, Rows, Refs
    <2> QED BY <2>2, <2>3, <2>4, <2>5, <2>6
  <1>2. CASE op.kind # "connect" /\ op.view.ref = 0
    <2>1. /\ op' \in Operations /\ op'.at = "idle"
         /\ UNCHANGED <<row, journal, vault, issued>>
      BY <1>2, AfterEnd DEF Recovered, TypeOK, Operations
    <2>2. TypeOK' BY <2>1, IssuedRefs DEF TypeOK
    <2>3. Addressable' /\ RowSane'
      BY <2>1, <1>2, RefsAssumption DEF Kept, Addressable, Named, RowSane, ViewKnown,
         ConnectKnown, ForgetKnown, TypeOK, Operations, Rows, Refs
    <2> QED BY <2>1, <2>2, <2>3, AtRest
  <1>3. CASE op.kind # "connect" /\ op.view.ref # 0
    <2>1. /\ op.at = "recover" /\ op' \in Operations /\ Kept /\ op'.at = "read"
         /\ UNCHANGED <<row, journal, vault, issued>>
      BY <1>3, AfterGoto DEF Recovered, TypeOK, Stages
    <2>2. TypeOK' BY <2>1, IssuedRefs DEF TypeOK
    <2>3. Addressable' /\ RowSane'
      BY <2>1, <1>3, RefsAssumption DEF Kept, Addressable, Named, RowSane, ViewKnown,
         ConnectKnown, ForgetKnown, TypeOK, Operations, Rows, Refs
    <2>4. KindKnown' /\ ForgetKnown'
      BY <2>1, <1>3 DEF Kept, KindKnown, ForgetKnown, Addressable, Named, TypeOK, Operations
    <2>5. ViewKnown'
      BY <2>1, <1>3 DEF Kept, ViewKnown, KindKnown, RowSane, ConnectKnown, TypeOK, Operations,
         Rows
    <2>6. ConnectKnown'
      BY <2>1, <1>3, RefsAssumption DEF Kept, ConnectKnown, ViewKnown, KindKnown, RowSane, Named,
         TypeOK, Operations, Rows, Refs
    <2> QED BY <2>2, <2>3, <2>4, <2>5, <2>6
  <1> QED BY <1>1, <1>2, <1>3

\* The supplied session was accepted.
LEMMA TestKeeps ==
    ASSUME Inv, Test PROVE Inv'
  <1> USE DEF Inv, OpKnown
  <1>1. CASE op.view.stale \in {0, op.view.ref}
    <2>1. /\ op.at = "test" /\ op' \in Operations /\ Kept /\ op'.at = "journal"
         /\ UNCHANGED <<row, journal, vault, issued>>
      BY <1>1, AfterGoto DEF Test, TypeOK, Stages
    <2>2. TypeOK' BY <2>1, IssuedRefs DEF TypeOK
    <2>3. Addressable' /\ RowSane'
      BY <2>1, <1>1, RefsAssumption DEF Kept, Addressable, Named, RowSane, ViewKnown,
         ConnectKnown, ForgetKnown, TypeOK, Operations, Rows, Refs
    <2>4. KindKnown' /\ ForgetKnown'
      BY <2>1, <1>1 DEF Kept, KindKnown, ForgetKnown, Addressable, Named, TypeOK, Operations
    <2>5. ViewKnown'
      BY <2>1, <1>1 DEF Kept, ViewKnown, KindKnown, RowSane, ConnectKnown, TypeOK, Operations,
         Rows
    <2>6. ConnectKnown'
      BY <2>1, <1>1, RefsAssumption DEF Kept, ConnectKnown, ViewKnown, KindKnown, RowSane, Named,
         TypeOK, Operations, Rows, Refs
    <2> QED BY <2>2, <2>3, <2>4, <2>5, <2>6
  <1>2. CASE op.view.stale \notin {0, op.view.ref}
    <2>1. /\ op.at = "test" /\ op' \in Operations /\ Kept /\ op'.at = "stale"
         /\ UNCHANGED <<row, journal, vault, issued>>
      BY <1>2, AfterGoto DEF Test, TypeOK, Stages
    <2>2. TypeOK' BY <2>1, IssuedRefs DEF TypeOK
    <2>3. Addressable' /\ RowSane'
      BY <2>1, <1>2, RefsAssumption DEF Kept, Addressable, Named, RowSane, ViewKnown,
         ConnectKnown, ForgetKnown, TypeOK, Operations, Rows, Refs
    <2>4. KindKnown' /\ ForgetKnown'
      BY <2>1, <1>2 DEF Kept, KindKnown, ForgetKnown, Addressable, Named, TypeOK, Operations
    <2>5. ViewKnown'
      BY <2>1, <1>2 DEF Kept, ViewKnown, KindKnown, RowSane, ConnectKnown, TypeOK, Operations,
         Rows
    <2>6. ConnectKnown'
      BY <2>1, <1>2, RefsAssumption DEF Kept, ConnectKnown, ViewKnown, KindKnown, RowSane, Named,
         TypeOK, Operations, Rows, Refs
    <2> QED BY <2>2, <2>3, <2>4, <2>5, <2>6
  <1> QED BY <1>1, <1>2

\* The predecessor is removed before a new reference exists.
LEMMA RemoveStaleKeeps ==
    ASSUME Inv, NEW result \in Results, RemoveStale(result) PROVE Inv'
  <1> USE DEF Inv, OpKnown
  <1>1. CASE result = "done"
    <2>1. /\ op.at = "stale" /\ op.kind = "connect" /\ op' \in Operations /\ Kept
         /\ op'.at = "retire" /\ op'.ref = op.view.stale /\ op'.then = "journal"
         /\ vault' = vault \ {op.view.stale} /\ UNCHANGED <<row, journal, issued>>
      BY <1>1, AfterRetire DEF RemoveStale, Removal, TypeOK, Operations, Rows
    <2>2. TypeOK' BY <2>1, IssuedRefs DEF TypeOK
    <2>3. Addressable' /\ RowSane'
      BY <2>1, <1>1, RefsAssumption DEF Kept, Addressable, Named, RowSane, ViewKnown,
         ConnectKnown, ForgetKnown, TypeOK, Operations, Rows, Refs
    <2>4. KindKnown' /\ ForgetKnown'
      BY <2>1, <1>1 DEF Kept, KindKnown, ForgetKnown, Addressable, Named, TypeOK, Operations
    <2>5. ViewKnown'
      BY <2>1, <1>1 DEF Kept, ViewKnown, KindKnown, RowSane, ConnectKnown, TypeOK, Operations,
         Rows
    <2>6. ConnectKnown'
      BY <2>1, <1>1, RefsAssumption DEF Kept, ConnectKnown, ViewKnown, KindKnown, RowSane, Named,
         TypeOK, Operations, Rows, Refs
    <2> QED BY <2>2, <2>3, <2>4, <2>5, <2>6
  <1>2. CASE result # "done"
    <2>1. /\ op.at = "stale" /\ op.kind = "connect" /\ op' \in Operations
         /\ op'.at = "idle" /\ vault' \in {vault, vault \ {op.view.stale}}
         /\ UNCHANGED <<row, journal, issued>>
      BY <1>2, AfterEnd DEF RemoveStale, Removal, GiveUp, TypeOK
    <2>2. TypeOK' BY <2>1, IssuedRefs DEF TypeOK
    <2>3. Addressable' /\ RowSane'
      BY <2>1, <1>2, RefsAssumption DEF Kept, Addressable, Named, RowSane, ViewKnown,
         ConnectKnown, ForgetKnown, TypeOK, Operations, Rows, Refs
    <2> QED BY <2>1, <2>2, <2>3, AtRest
  <1> QED BY <1>1, <1>2

\* A fresh reference is journaled before its secret exists.
LEMMA RecordEntryKeeps ==
    ASSUME Inv, RecordEntry PROVE Inv'
  <1> USE DEF Inv, OpKnown
  <1>0. issued + 1 \in Refs /\ issued + 1 \in 0 .. MaxRefs
    BY RefsAssumption DEF RecordEntry, KindKnown, TypeOK, Refs
  <1>1. CASE journal' = journal \cup {issued'}
       /\ op' = [op EXCEPT !.at = "write", !.fresh = issued']
    <2>1. /\ op.at = "journal" /\ op' \in Operations /\ op'.kind = op.kind
         /\ op'.view = op.view /\ op'.at = "write" /\ op'.fresh = issued'
         /\ issued' = issued + 1 /\ issued' \in Refs
         /\ journal' = journal \cup {issued'} /\ UNCHANGED <<row, vault>>
      BY <1>1, <1>0 DEF RecordEntry, TypeOK, Operations, Stages, Refs
    <2>2. TypeOK' BY <2>1, IssuedRefs, <1>0 DEF TypeOK
    <2>3. Addressable' /\ RowSane'
      BY <2>1, <1>1, RefsAssumption DEF Kept, Addressable, Named, RowSane, ViewKnown,
         ConnectKnown, ForgetKnown, TypeOK, Operations, Rows, Refs
    <2>4. KindKnown' /\ ForgetKnown'
      BY <2>1, <1>1 DEF Kept, KindKnown, ForgetKnown, Addressable, Named, TypeOK, Operations
    <2>5. ViewKnown'
      BY <2>1, <1>1 DEF Kept, ViewKnown, KindKnown, RowSane, ConnectKnown, TypeOK, Operations,
         Rows
    <2>6. ConnectKnown'
      BY <2>1, <1>1, RefsAssumption DEF Kept, ConnectKnown, ViewKnown, KindKnown, RowSane, Named,
         TypeOK, Operations, Rows, Refs
    <2> QED BY <2>2, <2>3, <2>4, <2>5, <2>6
  <1>2. CASE journal' = journal /\ GiveUp
    <2>1. /\ op' \in Operations /\ op'.at = "idle" /\ journal' = journal
         /\ issued' = issued + 1 /\ issued' \in Refs /\ UNCHANGED <<row, vault>>
      BY <1>2, <1>0, AfterEnd DEF RecordEntry, GiveUp, TypeOK, Refs
    <2>2. TypeOK' BY <2>1, IssuedRefs, <1>0 DEF TypeOK
    <2>3. Addressable' /\ RowSane'
      BY <2>1, <1>2, RefsAssumption DEF Kept, Addressable, Named, RowSane, ViewKnown,
         ConnectKnown, ForgetKnown, TypeOK, Operations, Rows, Refs
    <2> QED BY <2>1, <2>2, <2>3, AtRest
  <1> QED BY <1>1, <1>2 DEF RecordEntry

\* The secret is stored under its journaled reference.
LEMMA WriteSecretKeeps ==
    ASSUME Inv, WriteSecret PROVE Inv'
  <1> USE DEF Inv, OpKnown
  <1>0. op.fresh \in Refs BY DEF WriteSecret, ConnectKnown, TypeOK
  <1>1. CASE vault' = vault \cup {op.fresh} /\ Goto("save")
    <2>1. /\ op.at = "write" /\ op' \in Operations /\ Kept /\ op'.at = "save"
         /\ vault' = vault \cup {op.fresh} /\ UNCHANGED <<row, journal, issued>>
      BY <1>0, <1>1, AfterGoto DEF WriteSecret, TypeOK, Stages
    <2>2. TypeOK' BY <2>1, IssuedRefs, <1>0 DEF TypeOK
    <2>3. Addressable' /\ RowSane'
      BY <2>1, <1>1, RefsAssumption DEF Kept, Addressable, Named, RowSane, ViewKnown,
         ConnectKnown, ForgetKnown, TypeOK, Operations, Rows, Refs
    <2>4. KindKnown' /\ ForgetKnown'
      BY <2>1, <1>1 DEF Kept, KindKnown, ForgetKnown, Addressable, Named, TypeOK, Operations
    <2>5. ViewKnown'
      BY <2>1, <1>1 DEF Kept, ViewKnown, KindKnown, RowSane, ConnectKnown, TypeOK, Operations,
         Rows
    <2>6. ConnectKnown'
      BY <2>1, <1>1, RefsAssumption DEF Kept, ConnectKnown, ViewKnown, KindKnown, RowSane, Named,
         TypeOK, Operations, Rows, Refs
    <2> QED BY <2>2, <2>3, <2>4, <2>5, <2>6
  <1>2. CASE vault' \in {vault, vault \cup {op.fresh}} /\ Goto("compensate")
    <2>1. /\ op.at = "write" /\ op' \in Operations /\ Kept /\ op'.at = "compensate"
         /\ vault' \in {vault, vault \cup {op.fresh}}
         /\ UNCHANGED <<row, journal, issued>>
      BY <1>0, <1>2, AfterGoto DEF WriteSecret, TypeOK, Stages
    <2>2. TypeOK' BY <2>1, IssuedRefs, <1>0 DEF TypeOK
    <2>3. Addressable' /\ RowSane'
      BY <2>1, <1>2, RefsAssumption DEF Kept, Addressable, Named, RowSane, ViewKnown,
         ConnectKnown, ForgetKnown, TypeOK, Operations, Rows, Refs
    <2>4. KindKnown' /\ ForgetKnown'
      BY <2>1, <1>2 DEF Kept, KindKnown, ForgetKnown, Addressable, Named, TypeOK, Operations
    <2>5. ViewKnown'
      BY <2>1, <1>2 DEF Kept, ViewKnown, KindKnown, RowSane, ConnectKnown, TypeOK, Operations,
         Rows
    <2>6. ConnectKnown'
      BY <2>1, <1>2, RefsAssumption DEF Kept, ConnectKnown, ViewKnown, KindKnown, RowSane, Named,
         TypeOK, Operations, Rows, Refs
    <2> QED BY <2>2, <2>3, <2>4, <2>5, <2>6
  <1> QED BY <1>1, <1>2 DEF WriteSecret

\* The row names the fresh reference and its predecessor.
LEMMA SaveKeeps ==
    ASSUME Inv, Save PROVE Inv'
  <1> USE DEF Inv, OpKnown
  <1>0. [ref |-> op.fresh, stale |-> op.view.ref, connected |-> TRUE] \in Rows
    BY DEF TypeOK, Operations, Rows
  <1>1. CASE ~(row' = row /\ Goto("compensate")) /\ op.view.ref = 0
    <2>1. /\ op.at = "save" /\ op' \in Operations /\ op'.kind = op.kind
         /\ op'.view = row' /\ op'.fresh = op.fresh /\ op'.at = "retire"
         /\ op'.ref = op.fresh /\ op'.then = "confirm" /\ row' \in Rows
         /\ row'.ref = op.fresh /\ row'.stale = 0
         /\ UNCHANGED <<journal, vault, issued>>
      <3> DEFINE state == [ref |-> op.fresh, stale |-> op.view.ref, connected |-> TRUE]
      <3>1. /\ op.at = "save" /\ row' = state /\ UNCHANGED <<journal, vault, issued>>
            /\ op' = [op EXCEPT !.at = "retire", !.ref = op.fresh, !.view = state,
                                !.then = IF state.stale = 0 THEN "confirm" ELSE "old"]
        BY <1>1 DEF Save
      <3>2. op' = [op EXCEPT !.at = "retire", !.ref = op.fresh, !.view = row',
         !.then = "confirm"]
        BY <3>1, <1>1
      <3> QED BY <1>0, <3>1, <3>2, <1>1 DEF TypeOK, Operations, Stages
    <2>2. TypeOK' BY <2>1, IssuedRefs, <1>0 DEF TypeOK
    <2>3. Addressable' /\ RowSane'
      BY <2>1, <1>1, RefsAssumption DEF Kept, Addressable, Named, RowSane, ViewKnown,
         ConnectKnown, ForgetKnown, TypeOK, Operations, Rows, Refs
    <2>4. KindKnown' /\ ForgetKnown'
      BY <2>1, <1>1 DEF Kept, KindKnown, ForgetKnown, Addressable, Named, TypeOK, Operations
    <2>5. ViewKnown'
      BY <2>1, <1>1 DEF Kept, ViewKnown, KindKnown, RowSane, ConnectKnown, TypeOK, Operations,
         Rows
    <2>6. ConnectKnown'
      BY <2>1, <1>1, RefsAssumption DEF Kept, ConnectKnown, ViewKnown, KindKnown, RowSane, Named,
         TypeOK, Operations, Rows, Refs
    <2> QED BY <2>2, <2>3, <2>4, <2>5, <2>6
  <1>2. CASE ~(row' = row /\ Goto("compensate")) /\ op.view.ref # 0
    <2>1. /\ op.at = "save" /\ op' \in Operations /\ op'.kind = op.kind
         /\ op'.view = row' /\ op'.fresh = op.fresh /\ op'.at = "retire"
         /\ op'.ref = op.fresh /\ op'.then = "old" /\ row' \in Rows
         /\ row'.ref = op.fresh /\ row'.stale = op.view.ref
         /\ UNCHANGED <<journal, vault, issued>>
      <3> DEFINE state == [ref |-> op.fresh, stale |-> op.view.ref, connected |-> TRUE]
      <3>1. /\ op.at = "save" /\ row' = state /\ UNCHANGED <<journal, vault, issued>>
            /\ op' = [op EXCEPT !.at = "retire", !.ref = op.fresh, !.view = state,
                                !.then = IF state.stale = 0 THEN "confirm" ELSE "old"]
        BY <1>2 DEF Save
      <3>2. op' = [op EXCEPT !.at = "retire", !.ref = op.fresh, !.view = row', !.then = "old"]
        BY <3>1, <1>2
      <3> QED BY <1>0, <3>1, <3>2, <1>2 DEF TypeOK, Operations, Stages
    <2>2. TypeOK' BY <2>1, IssuedRefs, <1>0 DEF TypeOK
    <2>3. Addressable' /\ RowSane'
      BY <2>1, <1>2, RefsAssumption DEF Kept, Addressable, Named, RowSane, ViewKnown,
         ConnectKnown, ForgetKnown, TypeOK, Operations, Rows, Refs
    <2>4. KindKnown' /\ ForgetKnown'
      BY <2>1, <1>2 DEF Kept, KindKnown, ForgetKnown, Addressable, Named, TypeOK, Operations
    <2>5. ViewKnown'
      BY <2>1, <1>2 DEF Kept, ViewKnown, KindKnown, RowSane, ConnectKnown, TypeOK, Operations,
         Rows
    <2>6. ConnectKnown'
      BY <2>1, <1>2, RefsAssumption DEF Kept, ConnectKnown, ViewKnown, KindKnown, RowSane, Named,
         TypeOK, Operations, Rows, Refs
    <2> QED BY <2>2, <2>3, <2>4, <2>5, <2>6
  <1>3. CASE row' = row /\ Goto("compensate")
    <2>1. /\ op.at = "save" /\ op' \in Operations /\ Kept /\ op'.at = "compensate"
         /\ UNCHANGED <<row, journal, vault, issued>>
      BY <1>0, <1>3, AfterGoto DEF Save, TypeOK, Stages
    <2>2. TypeOK' BY <2>1, IssuedRefs, <1>0 DEF TypeOK
    <2>3. Addressable' /\ RowSane'
      BY <2>1, <1>3, RefsAssumption DEF Kept, Addressable, Named, RowSane, ViewKnown,
         ConnectKnown, ForgetKnown, TypeOK, Operations, Rows, Refs
    <2>4. KindKnown' /\ ForgetKnown'
      BY <2>1, <1>3 DEF Kept, KindKnown, ForgetKnown, Addressable, Named, TypeOK, Operations
    <2>5. ViewKnown'
      BY <2>1, <1>3 DEF Kept, ViewKnown, KindKnown, RowSane, ConnectKnown, TypeOK, Operations,
         Rows
    <2>6. ConnectKnown'
      BY <2>1, <1>3, RefsAssumption DEF Kept, ConnectKnown, ViewKnown, KindKnown, RowSane, Named,
         TypeOK, Operations, Rows, Refs
    <2> QED BY <2>2, <2>3, <2>4, <2>5, <2>6
  <1> QED BY <1>1, <1>2, <1>3 DEF Save

\* The fresh reference is removed again, or stays journaled.
LEMMA CompensateKeeps ==
    ASSUME Inv, NEW result \in Results, Compensate(result) PROVE Inv'
  <1> USE DEF Inv, OpKnown
  <1>1. CASE result = "done"
    <2>1. /\ op.at = "compensate" /\ op' \in Operations /\ Kept /\ op'.at = "retire"
         /\ op'.ref = op.fresh /\ op'.then = "idle" /\ vault' = vault \ {op.fresh}
         /\ UNCHANGED <<row, journal, issued>>
      BY <1>1, AfterRetire DEF Compensate, Removal, TypeOK, Operations
    <2>2. TypeOK' BY <2>1, IssuedRefs DEF TypeOK
    <2>3. Addressable' /\ RowSane'
      BY <2>1, <1>1, RefsAssumption DEF Kept, Addressable, Named, RowSane, ViewKnown,
         ConnectKnown, ForgetKnown, TypeOK, Operations, Rows, Refs
    <2>4. KindKnown' /\ ForgetKnown'
      BY <2>1, <1>1 DEF Kept, KindKnown, ForgetKnown, Addressable, Named, TypeOK, Operations
    <2>5. ViewKnown'
      BY <2>1, <1>1 DEF Kept, ViewKnown, KindKnown, RowSane, ConnectKnown, TypeOK, Operations,
         Rows
    <2>6. ConnectKnown'
      BY <2>1, <1>1, RefsAssumption DEF Kept, ConnectKnown, ViewKnown, KindKnown, RowSane, Named,
         TypeOK, Operations, Rows, Refs
    <2> QED BY <2>2, <2>3, <2>4, <2>5, <2>6
  <1>2. CASE result # "done"
    <2>1. /\ op' \in Operations /\ op'.at = "idle"
         /\ vault' \in {vault, vault \ {op.fresh}}
         /\ UNCHANGED <<row, journal, issued>>
      BY <1>2, AfterEnd DEF Compensate, Removal, GiveUp, TypeOK
    <2>2. TypeOK' BY <2>1, IssuedRefs DEF TypeOK
    <2>3. Addressable' /\ RowSane'
      BY <2>1, <1>2, RefsAssumption DEF Kept, Addressable, Named, RowSane, ViewKnown,
         ConnectKnown, ForgetKnown, TypeOK, Operations, Rows, Refs
    <2> QED BY <2>1, <2>2, <2>3, AtRest
  <1> QED BY <1>1, <1>2

\* The predecessor is removed after the row has changed.
LEMMA RemoveOldKeeps ==
    ASSUME Inv, NEW result \in Results, RemoveOld(result) PROVE Inv'
  <1> USE DEF Inv, OpKnown
  <1>1. CASE result = "done"
    <2>1. /\ op.at = "old" /\ op' \in Operations /\ Kept /\ op'.at = "clear"
         /\ vault' = vault \ {op.view.stale} /\ UNCHANGED <<row, journal, issued>>
      BY <1>1, AfterGoto DEF RemoveOld, Removal, TypeOK, Stages
    <2>2. TypeOK' BY <2>1, IssuedRefs DEF TypeOK
    <2>3. Addressable' /\ RowSane'
      BY <2>1, <1>1, RefsAssumption DEF Kept, Addressable, Named, RowSane, ViewKnown,
         ConnectKnown, ForgetKnown, TypeOK, Operations, Rows, Refs
    <2>4. KindKnown' /\ ForgetKnown'
      BY <2>1, <1>1 DEF Kept, KindKnown, ForgetKnown, Addressable, Named, TypeOK, Operations
    <2>5. ViewKnown'
      BY <2>1, <1>1 DEF Kept, ViewKnown, KindKnown, RowSane, ConnectKnown, TypeOK, Operations,
         Rows
    <2>6. ConnectKnown'
      BY <2>1, <1>1, RefsAssumption DEF Kept, ConnectKnown, ViewKnown, KindKnown, RowSane, Named,
         TypeOK, Operations, Rows, Refs
    <2> QED BY <2>2, <2>3, <2>4, <2>5, <2>6
  <1>2. CASE result = "failed"
    <2>1. /\ op.at = "old" /\ op' \in Operations /\ Kept /\ op'.at = "confirm"
         /\ vault' \in {vault, vault \ {op.view.stale}}
         /\ UNCHANGED <<row, journal, issued>>
      BY <1>2 DEF RemoveOld, Removal, TypeOK, Operations, Stages, Kept
    <2>2. TypeOK' BY <2>1, IssuedRefs DEF TypeOK
    <2>3. Addressable' /\ RowSane'
      BY <2>1, <1>2, RefsAssumption DEF Kept, Addressable, Named, RowSane, ViewKnown,
         ConnectKnown, ForgetKnown, TypeOK, Operations, Rows, Refs
    <2>4. KindKnown' /\ ForgetKnown'
      BY <2>1, <1>2 DEF Kept, KindKnown, ForgetKnown, Addressable, Named, TypeOK, Operations
    <2>5. ViewKnown'
      BY <2>1, <1>2 DEF Kept, ViewKnown, KindKnown, RowSane, ConnectKnown, TypeOK, Operations,
         Rows
    <2>6. ConnectKnown'
      BY <2>1, <1>2, RefsAssumption DEF Kept, ConnectKnown, ViewKnown, KindKnown, RowSane, Named,
         TypeOK, Operations, Rows, Refs
    <2> QED BY <2>2, <2>3, <2>4, <2>5, <2>6
  <1>3. CASE result = "cancelled"
    <2>1. /\ op.at = "old" /\ op' \in Operations /\ op'.at = "idle"
         /\ vault' \in {vault, vault \ {op.view.stale}}
         /\ UNCHANGED <<row, journal, issued>>
      BY <1>3, AfterEnd DEF RemoveOld, Removal, GiveUp, TypeOK
    <2>2. TypeOK' BY <2>1, IssuedRefs DEF TypeOK
    <2>3. Addressable' /\ RowSane'
      BY <2>1, <1>3, RefsAssumption DEF Kept, Addressable, Named, RowSane, ViewKnown,
         ConnectKnown, ForgetKnown, TypeOK, Operations, Rows, Refs
    <2> QED BY <2>1, <2>2, <2>3, AtRest
  <1> QED BY <1>1, <1>2, <1>3 DEF Results

\* The mark of a removed predecessor goes.
LEMMA ClearOldKeeps ==
    ASSUME Inv, ClearOld PROVE Inv'
  <1> USE DEF Inv, OpKnown
  <1>1. CASE row' = [op.view EXCEPT !.stale = 0] /\ Goto("confirm")
    <2>1. /\ op.at = "clear" /\ op' \in Operations /\ Kept /\ op'.at = "confirm"
         /\ row' \in Rows /\ row'.ref = op.view.ref /\ row'.stale = 0
         /\ UNCHANGED <<journal, vault, issued>>
      BY <1>1, AfterGoto, RefsAssumption DEF ClearOld, TypeOK, Stages, Operations, Rows
    <2>2. TypeOK' BY <2>1, IssuedRefs DEF TypeOK
    <2>3. Addressable' /\ RowSane'
      BY <2>1, <1>1, RefsAssumption DEF Kept, Addressable, Named, RowSane, ViewKnown,
         ConnectKnown, ForgetKnown, TypeOK, Operations, Rows, Refs
    <2>4. KindKnown' /\ ForgetKnown'
      BY <2>1, <1>1 DEF Kept, KindKnown, ForgetKnown, Addressable, Named, TypeOK, Operations
    <2>5. ViewKnown'
      BY <2>1, <1>1 DEF Kept, ViewKnown, KindKnown, RowSane, ConnectKnown, TypeOK, Operations,
         Rows
    <2>6. ConnectKnown'
      BY <2>1, <1>1, RefsAssumption DEF Kept, ConnectKnown, ViewKnown, KindKnown, RowSane, Named,
         TypeOK, Operations, Rows, Refs
    <2> QED BY <2>2, <2>3, <2>4, <2>5, <2>6
  <1>2. CASE row' = row /\ op' = [op EXCEPT !.at = "confirm", !.clean = FALSE]
    <2>1. /\ op.at = "clear" /\ op' \in Operations /\ Kept /\ op'.at = "confirm"
         /\ UNCHANGED <<row, journal, vault, issued>>
      BY <1>2 DEF ClearOld, TypeOK, Operations, Stages, Kept
    <2>2. TypeOK' BY <2>1, IssuedRefs DEF TypeOK
    <2>3. Addressable' /\ RowSane'
      BY <2>1, <1>2, RefsAssumption DEF Kept, Addressable, Named, RowSane, ViewKnown,
         ConnectKnown, ForgetKnown, TypeOK, Operations, Rows, Refs
    <2>4. KindKnown' /\ ForgetKnown'
      BY <2>1, <1>2 DEF Kept, KindKnown, ForgetKnown, Addressable, Named, TypeOK, Operations
    <2>5. ViewKnown'
      BY <2>1, <1>2 DEF Kept, ViewKnown, KindKnown, RowSane, ConnectKnown, TypeOK, Operations,
         Rows
    <2>6. ConnectKnown'
      BY <2>1, <1>2, RefsAssumption DEF Kept, ConnectKnown, ViewKnown, KindKnown, RowSane, Named,
         TypeOK, Operations, Rows, Refs
    <2> QED BY <2>2, <2>3, <2>4, <2>5, <2>6
  <1> QED BY <1>1, <1>2 DEF ClearOld

\* The row still links the fresh reference, or the journal takes it back.
LEMMA ConfirmKeeps ==
    ASSUME Inv, Confirm PROVE Inv'
  <1> USE DEF Inv, OpKnown
  <1>0. row.ref = op.fresh BY DEF Confirm, ConnectKnown
  <1>1. /\ op' \in Operations /\ op'.at = "idle"
       /\ UNCHANGED <<row, journal, vault, issued>>
    BY <1>0, AfterEnd DEF Confirm, TypeOK, Operations
  <1>2. TypeOK' BY <1>1, IssuedRefs, <1>0 DEF TypeOK
  <1>3. Addressable' /\ RowSane'
    BY <1>1, RefsAssumption DEF Kept, Addressable, Named, RowSane, ViewKnown, ConnectKnown,
       ForgetKnown, TypeOK, Operations, Rows, Refs
  <1> QED BY <1>1, <1>2, <1>3, AtRest

\* A page was read with the stored session, or refused.
LEMMA ReadOneKeeps ==
    ASSUME Inv, NEW connected \in BOOLEAN, ReadOne(connected) PROVE Inv'
  <1> USE DEF Inv, OpKnown
  <1>1. CASE op.view.stale = 0
    <2>1. /\ op.at = "read" /\ op' \in Operations /\ op'.kind = op.kind
         /\ op'.at = "record" /\ op'.view.ref = op.view.ref
         /\ op'.view.stale = op.view.stale /\ op'.view.connected = connected
         /\ (connected => op.view.ref \in vault)
         /\ UNCHANGED <<row, journal, vault, issued>>
      BY <1>1 DEF ReadOne, TypeOK, Operations, Rows, Stages
    <2>2. TypeOK' BY <2>1, IssuedRefs DEF TypeOK
    <2>3. Addressable' /\ RowSane'
      BY <2>1, <1>1, RefsAssumption DEF Kept, Addressable, Named, RowSane, ViewKnown,
         ConnectKnown, ForgetKnown, TypeOK, Operations, Rows, Refs
    <2>4. KindKnown' /\ ForgetKnown'
      BY <2>1, <1>1 DEF Kept, KindKnown, ForgetKnown, Addressable, Named, TypeOK, Operations
    <2>5. ViewKnown'
      BY <2>1, <1>1 DEF Kept, ViewKnown, KindKnown, RowSane, ConnectKnown, TypeOK, Operations,
         Rows
    <2>6. ConnectKnown'
      BY <2>1, <1>1, RefsAssumption DEF Kept, ConnectKnown, ViewKnown, KindKnown, RowSane, Named,
         TypeOK, Operations, Rows, Refs
    <2> QED BY <2>2, <2>3, <2>4, <2>5, <2>6
  <1>2. CASE op.view.stale # 0
    <2>1. /\ op.at = "read" /\ op' \in Operations /\ op'.kind = op.kind
         /\ op'.at = "stale" /\ op'.view.ref = op.view.ref
         /\ op'.view.stale = op.view.stale /\ op'.view.connected = connected
         /\ (connected => op.view.ref \in vault)
         /\ UNCHANGED <<row, journal, vault, issued>>
      BY <1>2 DEF ReadOne, TypeOK, Operations, Rows, Stages
    <2>2. TypeOK' BY <2>1, IssuedRefs DEF TypeOK
    <2>3. Addressable' /\ RowSane'
      BY <2>1, <1>2, RefsAssumption DEF Kept, Addressable, Named, RowSane, ViewKnown,
         ConnectKnown, ForgetKnown, TypeOK, Operations, Rows, Refs
    <2>4. KindKnown' /\ ForgetKnown'
      BY <2>1, <1>2 DEF Kept, KindKnown, ForgetKnown, Addressable, Named, TypeOK, Operations
    <2>5. ViewKnown'
      BY <2>1, <1>2 DEF Kept, ViewKnown, KindKnown, RowSane, ConnectKnown, TypeOK, Operations,
         Rows
    <2>6. ConnectKnown'
      BY <2>1, <1>2, RefsAssumption DEF Kept, ConnectKnown, ViewKnown, KindKnown, RowSane, Named,
         TypeOK, Operations, Rows, Refs
    <2> QED BY <2>2, <2>3, <2>4, <2>5, <2>6
  <1> QED BY <1>1, <1>2

\* The predecessor of the probed row is removed, or stays marked.
LEMMA ProbeStaleKeeps ==
    ASSUME Inv, NEW result \in Results, ProbeStale(result) PROVE Inv'
  <1> USE DEF Inv, OpKnown
  <1>0. LET cleared == [op.view EXCEPT !.stale = 0]
       IN  /\ cleared \in Rows /\ cleared.stale = 0
           /\ cleared.ref = op.view.ref /\ cleared.connected = op.view.connected
    BY RefsAssumption DEF TypeOK, Operations, Rows
  <1>1. CASE result = "done"
    <2>1. /\ op.at = "stale" /\ op.kind = "probe" /\ op' \in Operations
         /\ op'.kind = op.kind /\ op'.at = "record" /\ op'.view.ref = op.view.ref
         /\ op'.view.stale = 0 /\ op'.view.connected = op.view.connected
         /\ vault' = vault \ {op.view.stale} /\ UNCHANGED <<row, journal, issued>>
      BY <1>0, <1>1 DEF ProbeStale, Removal, TypeOK, Operations, Stages
    <2>2. TypeOK' BY <2>1, IssuedRefs, <1>0 DEF TypeOK
    <2>3. Addressable' /\ RowSane'
      BY <2>1, <1>1, RefsAssumption DEF Kept, Addressable, Named, RowSane, ViewKnown,
         ConnectKnown, ForgetKnown, TypeOK, Operations, Rows, Refs
    <2>4. KindKnown' /\ ForgetKnown'
      BY <2>1, <1>1 DEF Kept, KindKnown, ForgetKnown, Addressable, Named, TypeOK, Operations
    <2>5. ViewKnown'
      BY <2>1, <1>1 DEF Kept, ViewKnown, KindKnown, RowSane, ConnectKnown, TypeOK, Operations,
         Rows
    <2>6. ConnectKnown'
      BY <2>1, <1>1, RefsAssumption DEF Kept, ConnectKnown, ViewKnown, KindKnown, RowSane, Named,
         TypeOK, Operations, Rows, Refs
    <2> QED BY <2>2, <2>3, <2>4, <2>5, <2>6
  <1>2. CASE result = "failed"
    <2>1. /\ op.at = "stale" /\ op.kind = "probe" /\ op' \in Operations /\ Kept
         /\ op'.at = "record" /\ vault' \in {vault, vault \ {op.view.stale}}
         /\ UNCHANGED <<row, journal, issued>>
      BY <1>0, <1>2 DEF ProbeStale, Removal, TypeOK, Operations, Stages, Kept
    <2>2. TypeOK' BY <2>1, IssuedRefs, <1>0 DEF TypeOK
    <2>3. Addressable' /\ RowSane'
      BY <2>1, <1>2, RefsAssumption DEF Kept, Addressable, Named, RowSane, ViewKnown,
         ConnectKnown, ForgetKnown, TypeOK, Operations, Rows, Refs
    <2>4. KindKnown' /\ ForgetKnown'
      BY <2>1, <1>2 DEF Kept, KindKnown, ForgetKnown, Addressable, Named, TypeOK, Operations
    <2>5. ViewKnown'
      BY <2>1, <1>2 DEF Kept, ViewKnown, KindKnown, RowSane, ConnectKnown, TypeOK, Operations,
         Rows
    <2>6. ConnectKnown'
      BY <2>1, <1>2, RefsAssumption DEF Kept, ConnectKnown, ViewKnown, KindKnown, RowSane, Named,
         TypeOK, Operations, Rows, Refs
    <2> QED BY <2>2, <2>3, <2>4, <2>5, <2>6
  <1>3. CASE result = "cancelled"
    <2>1. /\ op.at = "stale" /\ op' \in Operations /\ op'.at = "idle"
         /\ vault' \in {vault, vault \ {op.view.stale}}
         /\ UNCHANGED <<row, journal, issued>>
      BY <1>0, <1>3, AfterEnd DEF ProbeStale, Removal, GiveUp, TypeOK
    <2>2. TypeOK' BY <2>1, IssuedRefs, <1>0 DEF TypeOK
    <2>3. Addressable' /\ RowSane'
      BY <2>1, <1>3, RefsAssumption DEF Kept, Addressable, Named, RowSane, ViewKnown,
         ConnectKnown, ForgetKnown, TypeOK, Operations, Rows, Refs
    <2> QED BY <2>1, <2>2, <2>3, AtRest
  <1> QED BY <1>1, <1>2, <1>3 DEF Results

\* What the probe found is saved, or the store refuses it.
LEMMA RecordProbeKeeps ==
    ASSUME Inv, RecordProbe PROVE Inv'
  <1> USE DEF Inv, OpKnown
  <1>1. CASE row' = op.view /\ op' = Ended(op.clean)
    <2>1. /\ op.at = "record" /\ op' \in Operations /\ op'.at = "idle" /\ row' = op.view
         /\ row' \in Rows /\ UNCHANGED <<journal, vault, issued>>
      BY <1>1, AfterEnd DEF RecordProbe, TypeOK, Operations
    <2>2. TypeOK' BY <2>1, IssuedRefs DEF TypeOK
    <2>3. Addressable' /\ RowSane'
      BY <2>1, <1>1, RefsAssumption DEF Kept, Addressable, Named, RowSane, ViewKnown,
         ConnectKnown, ForgetKnown, TypeOK, Operations, Rows, Refs
    <2> QED BY <2>1, <2>2, <2>3, AtRest
  <1>2. CASE row' = row /\ GiveUp
    <2>1. /\ op' \in Operations /\ op'.at = "idle"
         /\ UNCHANGED <<row, journal, vault, issued>>
      BY <1>2, AfterEnd DEF RecordProbe, GiveUp, TypeOK
    <2>2. TypeOK' BY <2>1, IssuedRefs DEF TypeOK
    <2>3. Addressable' /\ RowSane'
      BY <2>1, <1>2, RefsAssumption DEF Kept, Addressable, Named, RowSane, ViewKnown,
         ConnectKnown, ForgetKnown, TypeOK, Operations, Rows, Refs
    <2> QED BY <2>1, <2>2, <2>3, AtRest
  <1> QED BY <1>1, <1>2 DEF RecordProbe

\* forget removes one secret after the other.
LEMMA RemoveSecretKeeps ==
    ASSUME Inv, NEW r \in Refs, NEW result \in Results, RemoveSecret(r, result) PROVE Inv'
  <1> USE DEF Inv, OpKnown
  <1>0. op.todo \ {r} \in SUBSET Refs BY DEF TypeOK, Operations
  <1>1. CASE result = "cancelled"
    <2>1. /\ op' \in Operations /\ op'.at = "idle" /\ vault' \in {vault, vault \ {r}}
         /\ UNCHANGED <<row, journal, issued>>
      BY <1>0, <1>1, AfterEnd DEF RemoveSecret, Removal, GiveUp, TypeOK
    <2>2. TypeOK' BY <2>1, IssuedRefs, <1>0 DEF TypeOK
    <2>3. Addressable' /\ RowSane'
      BY <2>1, <1>1, RefsAssumption DEF Kept, Addressable, Named, RowSane, ViewKnown,
         ConnectKnown, ForgetKnown, TypeOK, Operations, Rows, Refs
    <2> QED BY <2>1, <2>2, <2>3, AtRest
  <1>2. CASE result # "cancelled"
    <2>1. /\ op.at = "remove" /\ op' \in Operations /\ op'.kind = op.kind
         /\ op'.at = "remove" /\ op'.todo = op.todo \ {r}
         /\ (~op'.broken => ~op.broken /\ vault' = vault \ {r})
         /\ vault' \in {vault, vault \ {r}} /\ UNCHANGED <<row, journal, issued>>
      BY <1>0, <1>2 DEF RemoveSecret, Removal, TypeOK, Operations, Stages, Results
    <2>2. TypeOK' BY <2>1, IssuedRefs, <1>0 DEF TypeOK
    <2>3. Addressable' /\ RowSane'
      BY <2>1, <1>2, RefsAssumption DEF Kept, Addressable, Named, RowSane, ViewKnown,
         ConnectKnown, ForgetKnown, TypeOK, Operations, Rows, Refs
    <2>4. KindKnown' /\ ForgetKnown'
      BY <2>1, <1>2 DEF Kept, KindKnown, ForgetKnown, Addressable, Named, TypeOK, Operations
    <2>5. ViewKnown'
      BY <2>1, <1>2 DEF Kept, ViewKnown, KindKnown, RowSane, ConnectKnown, TypeOK, Operations,
         Rows
    <2>6. ConnectKnown'
      BY <2>1, <1>2, RefsAssumption DEF Kept, ConnectKnown, ViewKnown, KindKnown, RowSane, Named,
         TypeOK, Operations, Rows, Refs
    <2> QED BY <2>2, <2>3, <2>4, <2>5, <2>6
  <1> QED BY <1>1, <1>2

\* Nothing is forgotten while a secret could not be removed.
LEMMA RemovedKeeps ==
    ASSUME Inv, Removed PROVE Inv'
  <1> USE DEF Inv, OpKnown
  <1>0. journal \in SUBSET Refs BY DEF TypeOK
  <1>1. CASE op.broken
    <2>1. /\ op' \in Operations /\ op'.at = "idle"
         /\ UNCHANGED <<row, journal, vault, issued>>
      BY <1>0, <1>1, AfterEnd DEF Removed, GiveUp, TypeOK
    <2>2. TypeOK' BY <2>1, IssuedRefs, <1>0 DEF TypeOK
    <2>3. Addressable' /\ RowSane'
      BY <2>1, <1>1, RefsAssumption DEF Kept, Addressable, Named, RowSane, ViewKnown,
         ConnectKnown, ForgetKnown, TypeOK, Operations, Rows, Refs
    <2> QED BY <2>1, <2>2, <2>3, AtRest
  <1>2. CASE ~op.broken
    <2>1. /\ op.at = "remove" /\ op.todo = {} /\ ~op.broken /\ op' \in Operations
         /\ Kept /\ op'.at = "forget" /\ UNCHANGED <<row, journal, vault, issued>>
      <3>1. op' = [op EXCEPT !.at = "forget", !.todo = journal] /\ op \in Operations
        BY <1>2 DEF Removed, TypeOK
      <3>2. op' \in Operations /\ Kept /\ op'.at = "forget"
        BY <1>0, <3>1 DEF Operations, Stages, Kept
      <3> QED BY <1>2, <3>2 DEF Removed
    <2>2. TypeOK' BY <2>1, IssuedRefs, <1>0 DEF TypeOK
    <2>3. Addressable' /\ RowSane'
      BY <2>1, <1>2, RefsAssumption DEF Kept, Addressable, Named, RowSane, ViewKnown,
         ConnectKnown, ForgetKnown, TypeOK, Operations, Rows, Refs
    <2>4. KindKnown' /\ ForgetKnown'
      BY <2>1, <1>2 DEF Kept, KindKnown, ForgetKnown, Addressable, Named, TypeOK, Operations
    <2>5. ViewKnown'
      BY <2>1, <1>2 DEF Kept, ViewKnown, KindKnown, RowSane, ConnectKnown, TypeOK, Operations,
         Rows
    <2>6. ConnectKnown'
      BY <2>1, <1>2, RefsAssumption DEF Kept, ConnectKnown, ViewKnown, KindKnown, RowSane, Named,
         TypeOK, Operations, Rows, Refs
    <2> QED BY <2>2, <2>3, <2>4, <2>5, <2>6
  <1> QED BY <1>1, <1>2

\* forget retires the entries of removed secrets.
LEMMA ForgetEntryKeeps ==
    ASSUME Inv, NEW r \in Refs, ForgetEntry(r) PROVE Inv'
  <1> USE DEF Inv, OpKnown
  <1>0. op.todo \ {r} \in SUBSET Refs BY DEF TypeOK, Operations
  <1>1. CASE journal' = journal \ {r} /\ op' = [op EXCEPT !.todo = @ \ {r}]
    <2>1. /\ op.at = "forget" /\ op' \in Operations /\ Kept /\ op'.at = op.at
         /\ journal' = journal \ {r} /\ UNCHANGED <<row, vault, issued>>
      BY <1>0, <1>1 DEF ForgetEntry, TypeOK, Operations, Kept
    <2>2. TypeOK' BY <2>1, IssuedRefs, <1>0 DEF TypeOK
    <2>3. Addressable' /\ RowSane'
      BY <2>1, <1>1, RefsAssumption DEF Kept, Addressable, Named, RowSane, ViewKnown,
         ConnectKnown, ForgetKnown, TypeOK, Operations, Rows, Refs
    <2>4. KindKnown' /\ ForgetKnown'
      BY <2>1, <1>1 DEF Kept, KindKnown, ForgetKnown, Addressable, Named, TypeOK, Operations
    <2>5. ViewKnown'
      BY <2>1, <1>1 DEF Kept, ViewKnown, KindKnown, RowSane, ConnectKnown, TypeOK, Operations,
         Rows
    <2>6. ConnectKnown'
      BY <2>1, <1>1, RefsAssumption DEF Kept, ConnectKnown, ViewKnown, KindKnown, RowSane, Named,
         TypeOK, Operations, Rows, Refs
    <2> QED BY <2>2, <2>3, <2>4, <2>5, <2>6
  <1>2. CASE journal' = journal /\ GiveUp
    <2>1. /\ op' \in Operations /\ op'.at = "idle"
         /\ UNCHANGED <<row, journal, vault, issued>>
      BY <1>0, <1>2, AfterEnd DEF ForgetEntry, GiveUp, TypeOK
    <2>2. TypeOK' BY <2>1, IssuedRefs, <1>0 DEF TypeOK
    <2>3. Addressable' /\ RowSane'
      BY <2>1, <1>2, RefsAssumption DEF Kept, Addressable, Named, RowSane, ViewKnown,
         ConnectKnown, ForgetKnown, TypeOK, Operations, Rows, Refs
    <2> QED BY <2>1, <2>2, <2>3, AtRest
  <1> QED BY <1>1, <1>2 DEF ForgetEntry

\* The row goes last.
LEMMA DeleteRowKeeps ==
    ASSUME Inv, DeleteRow PROVE Inv'
  <1> USE DEF Inv, OpKnown
  <1>1. CASE row' = NoRow /\ op' = Ended(op.clean)
    <2>1. /\ op.at = "forget" /\ op' \in Operations /\ op'.at = "idle" /\ row' = NoRow
         /\ row' \in Rows /\ UNCHANGED <<journal, vault, issued>>
      BY <1>1, AfterEnd, RefsAssumption DEF DeleteRow, TypeOK, Operations, NoRow, Rows
    <2>2. TypeOK' BY <2>1, IssuedRefs DEF TypeOK
    <2>3. Addressable' /\ RowSane'
      BY <2>1, <1>1, RefsAssumption DEF NoRow, Kept, Addressable, Named, RowSane, ViewKnown,
         ConnectKnown, ForgetKnown, TypeOK, Operations, Rows, Refs
    <2> QED BY <2>1, <2>2, <2>3, AtRest
  <1>2. CASE row' = row /\ GiveUp
    <2>1. /\ op' \in Operations /\ op'.at = "idle"
         /\ UNCHANGED <<row, journal, vault, issued>>
      BY <1>2, AfterEnd DEF DeleteRow, GiveUp, TypeOK
    <2>2. TypeOK' BY <2>1, IssuedRefs DEF TypeOK
    <2>3. Addressable' /\ RowSane'
      BY <2>1, <1>2, RefsAssumption DEF Kept, Addressable, Named, RowSane, ViewKnown,
         ConnectKnown, ForgetKnown, TypeOK, Operations, Rows, Refs
    <2> QED BY <2>1, <2>2, <2>3, AtRest
  <1> QED BY <1>1, <1>2 DEF DeleteRow

\* The process dies between two steps.
LEMMA CrashKeeps ==
    ASSUME Inv, Crash PROVE Inv'
  <1> USE DEF Inv, OpKnown
  <1>1. /\ op' \in Operations /\ op'.at = "idle"
       /\ UNCHANGED <<row, journal, vault, issued>>
    BY IdleTyped DEF Crash, Idle, TypeOK
  <1>2. TypeOK' BY <1>1, IssuedRefs DEF TypeOK
  <1>3. Addressable' /\ RowSane'
    BY <1>1, RefsAssumption DEF Kept, Addressable, Named, RowSane, ViewKnown, ConnectKnown,
       ForgetKnown, TypeOK, Operations, Rows, Refs
  <1> QED BY <1>1, <1>2, <1>3, AtRest

-----------------------------------------------------------------------------

\* Every step keeps the invariant.
LEMMA StepKeeps == ASSUME Inv, [Next]_vars PROVE Inv'
  <1>1. ASSUME NEW kind \in {"connect", "probe", "forget"}, Begin(kind) PROVE Inv'
    BY <1>1, BeginKeeps
  <1>2. CASE Abandon \/ RetireEntry \/ Crash
    BY <1>2, AbandonKeeps, RetireEntryKeeps, CrashKeeps
  <1>3. CASE Recovery
    BY <1>3, RecoverAdoptedKeeps, RecoverOrphanKeeps, RecoveredKeeps DEF Recovery
  <1>4. CASE Connecting
    <2>1. ASSUME NEW result \in Results,
                 RemoveStale(result) \/ Compensate(result) \/ RemoveOld(result)
          PROVE  Inv'
      BY <2>1, RemoveStaleKeeps, CompensateKeeps, RemoveOldKeeps
    <2> QED BY <1>4, <2>1, TestKeeps, RecordEntryKeeps, WriteSecretKeeps, SaveKeeps,
               ClearOldKeeps, ConfirmKeeps DEF Connecting
  <1>5. CASE Probing
    BY <1>5, ReadOneKeeps, ProbeStaleKeeps, RecordProbeKeeps DEF Probing
  <1>6. CASE Forgetting
    BY <1>6, ForgetEntryKeeps, RemoveSecretKeeps, RemovedKeeps, DeleteRowKeeps DEF Forgetting
  <1>7. CASE UNCHANGED vars
    BY <1>7 DEF vars, Inv, OpKnown, TypeOK, Addressable, RowSane, KindKnown, ViewKnown,
       ConnectKnown, ForgetKnown
  <1> QED BY <1>1, <1>2, <1>3, <1>4, <1>5, <1>6, <1>7 DEF Next

\* The invariant holds throughout.
LEMMA Inductive == Spec => []Inv
  <1>1. ASSUME Init PROVE Inv
    <2>1. TypeOK BY <1>1, IdleTyped, RefsAssumption DEF Init, TypeOK, NoRow, Rows
    <2>2. Addressable /\ RowSane BY <1>1, RefsAssumption DEF Init, NoRow, Addressable, RowSane
    <2>3. KindKnown /\ ViewKnown /\ ConnectKnown /\ ForgetKnown
      BY <1>1 DEF Init, Idle, KindKnown, ViewKnown, ConnectKnown, ForgetKnown
    <2> QED BY <2>1, <2>2, <2>3 DEF Inv, OpKnown
  <1> QED BY <1>1, StepKeeps, PTL DEF Spec

\* Rows, journal, vault and operation keep their shape, however many references
\* are ever issued.
THEOREM ConnectionTypes == Spec => []TypeOK
  <1>1. Inv => TypeOK BY DEF Inv
  <1> QED BY <1>1, Inductive, PTL

\* No crash, refused write or failed removal leaves a secret in the vault that
\* neither the row nor the journal names.
THEOREM SecretsAddressable == Spec => []Addressable
  <1>1. Inv => Addressable BY DEF Inv
  <1> QED BY <1>1, Inductive, PTL

\* Connect, probe and recovery never remove the secret of the stored row.
THEOREM SessionsSurvive == Spec => SessionKept
  <1> DEFINE Keeps == row.ref \in vault /\ row.ref \notin vault' => op.kind = "forget"
  <1>1. ASSUME Inv, Next PROVE Keeps
    <2> USE <1>1 DEF Inv, OpKnown
    <2>0. ASSUME vault \subseteq vault' PROVE Keeps BY <2>0
    <2>1. ASSUME NEW r, vault' \in {vault, vault \ {r}}, r # row.ref PROVE Keeps BY <2>1
    <2>2. row.ref \in vault => row.ref # 0 BY RefsAssumption DEF TypeOK, Refs
    <2>3. ASSUME NEW kind \in {"connect", "probe", "forget"}, Begin(kind) PROVE Keeps
      BY <2>3, <2>0 DEF Begin
    <2>4. CASE Abandon \/ RetireEntry \/ Crash
      BY <2>4, <2>0 DEF Abandon, RetireEntry, Crash
    <2>5. CASE Recovery
      <3>1. ASSUME NEW r \in Refs, NEW result \in Results, RecoverOrphan(r, result) PROVE Keeps
        <4>1. r # row.ref
          BY <3>1 DEF RecoverOrphan, Adopted, Named, ViewKnown, Refs
        <4> QED BY <3>1, <4>1, <2>1 DEF RecoverOrphan, Removal
      <3>2. ASSUME NEW r \in Refs, RecoverAdopted(r) PROVE Keeps
        BY <3>2, <2>0 DEF RecoverAdopted
      <3>3. CASE Recovered BY <3>3, <2>0 DEF Recovered
      <3> QED BY <2>5, <3>1, <3>2, <3>3 DEF Recovery
    <2>6. CASE Connecting
      <3>1. ASSUME NEW result \in Results, RemoveStale(result) PROVE Keeps
        <4>1. op.view.stale # row.ref BY <3>1 DEF RemoveStale, ViewKnown, RowSane
        <4> QED BY <3>1, <4>1, <2>1 DEF RemoveStale, Removal
      <3>2. ASSUME NEW result \in Results, Compensate(result) PROVE Keeps
        <4>1. op.fresh # row.ref
          BY <3>2 DEF Compensate, ConnectKnown, TypeOK, Operations, Rows
        <4> QED BY <3>2, <4>1, <2>1 DEF Compensate, Removal
      <3>3. ASSUME NEW result \in Results, RemoveOld(result) PROVE Keeps
        <4>1. row.ref # 0 => op.view.stale # row.ref
          BY <3>3 DEF RemoveOld, ViewKnown, RowSane
        <4> QED BY <3>3, <4>1, <2>1, <2>2 DEF RemoveOld, Removal
      <3>4. CASE Test \/ RecordEntry \/ WriteSecret \/ Save \/ ClearOld \/ Confirm
        BY <3>4, <2>0 DEF Test, RecordEntry, WriteSecret, Save, ClearOld, Confirm
      <3> QED BY <2>6, <3>1, <3>2, <3>3, <3>4 DEF Connecting
    <2>7. CASE Probing
      <3>1. ASSUME NEW result \in Results, ProbeStale(result) PROVE Keeps
        <4>1. op.view.stale # row.ref BY <3>1 DEF ProbeStale, ViewKnown, RowSane
        <4> QED BY <3>1, <4>1, <2>1 DEF ProbeStale, Removal
      <3>2. ASSUME NEW connected \in BOOLEAN, ReadOne(connected) PROVE Keeps
        BY <3>2, <2>0 DEF ReadOne
      <3>3. CASE RecordProbe BY <3>3, <2>0 DEF RecordProbe
      <3> QED BY <2>7, <3>1, <3>2, <3>3 DEF Probing
    <2>8. CASE Forgetting
      <3>1. ASSUME NEW r \in Refs, NEW result \in Results, RemoveSecret(r, result) PROVE Keeps
        BY <3>1 DEF RemoveSecret, KindKnown
      <3>2. ASSUME NEW r \in Refs, ForgetEntry(r) PROVE Keeps
        BY <3>2, <2>0 DEF ForgetEntry
      <3>3. CASE Removed \/ DeleteRow BY <3>3, <2>0 DEF Removed, DeleteRow
      <3> QED BY <2>8, <3>1, <3>2, <3>3 DEF Forgetting
    <2> QED BY <2>3, <2>4, <2>5, <2>6, <2>7, <2>8 DEF Next
  <1>2. ASSUME Inv, [Next]_vars PROVE [Keeps]_vars BY <1>1, <1>2
  <1> QED BY <1>2, Inductive, PTL DEF Spec, SessionKept

\* Whatever was interrupted before, a row is saved as connected only while the
\* vault holds its secret.
THEOREM SavedIsBacked == Spec => ConnectedIsBacked
  <1> DEFINE Backed == row' # row /\ row'.connected => row'.ref \in vault'
  <1>1. ASSUME Inv, Next PROVE Backed
    <2> USE <1>1 DEF Inv, OpKnown
    <2>1. ASSUME NEW kind \in {"connect", "probe", "forget"}, Begin(kind) PROVE Backed
      BY <2>1 DEF Begin
    <2>2. CASE Abandon \/ RetireEntry \/ Crash
      BY <2>2 DEF Abandon, RetireEntry, Crash
    <2>3. CASE Recovery
      BY <2>3 DEF Recovery, RecoverAdopted, RecoverOrphan, Recovered, Removal
    <2>4. CASE Connecting
      <3>1. CASE Save BY <3>1 DEF Save, ConnectKnown
      <3>2. CASE ClearOld
        <4>1. row' = row \/ row' = [op.view EXCEPT !.stale = 0] BY <3>2 DEF ClearOld
        <4>2. op.view \in Rows /\ op.view = row /\ row.ref \in vault /\ vault' = vault
          BY <3>2 DEF ClearOld, ViewKnown, ConnectKnown, TypeOK
        <4> QED BY <4>1, <4>2 DEF Rows
      <3>3. CASE Test \/ RecordEntry \/ WriteSecret \/ Confirm
        BY <3>3 DEF Test, RecordEntry, WriteSecret, Confirm
      <3>4. ASSUME NEW result \in Results,
                   RemoveStale(result) \/ Compensate(result) \/ RemoveOld(result)
            PROVE  Backed
        BY <3>4 DEF RemoveStale, Compensate, RemoveOld, Removal
      <3> QED BY <2>4, <3>1, <3>2, <3>3, <3>4 DEF Connecting
    <2>5. CASE Probing
      <3>1. CASE RecordProbe BY <3>1 DEF RecordProbe, ViewKnown
      <3>2. ASSUME NEW connected \in BOOLEAN, ReadOne(connected) PROVE Backed
        BY <3>2 DEF ReadOne
      <3>3. ASSUME NEW result \in Results, ProbeStale(result) PROVE Backed
        BY <3>3 DEF ProbeStale, Removal
      <3> QED BY <2>5, <3>1, <3>2, <3>3 DEF Probing
    <2>6. CASE Forgetting
      <3>1. CASE DeleteRow BY <3>1 DEF DeleteRow, NoRow
      <3>2. ASSUME NEW r \in Refs, ForgetEntry(r) PROVE Backed BY <3>2 DEF ForgetEntry
      <3>3. ASSUME NEW r \in Refs, NEW result \in Results, RemoveSecret(r, result) PROVE Backed
        BY <3>3 DEF RemoveSecret, Removal
      <3>4. CASE Removed BY <3>4 DEF Removed
      <3> QED BY <2>6, <3>1, <3>2, <3>3, <3>4 DEF Forgetting
    <2> QED BY <2>1, <2>2, <2>3, <2>4, <2>5, <2>6 DEF Next
  <1>2. ASSUME Inv, [Next]_vars PROVE [Backed]_vars BY <1>1, <1>2
  <1> QED BY <1>2, Inductive, PTL DEF Spec, ConnectedIsBacked

-----------------------------------------------------------------------------
(* What an operation that has met no failure has already put in order.     *)

\* While nothing failed, the journal names what the operation still has to visit.
JournalSettled ==
    /\ op.at \in {"recover", "forget"} => journal \subseteq op.todo
    /\ op.at = "retire" /\ op.then = "recover" => journal \subseteq op.todo \cup {op.ref}
    /\ op.at = "retire" /\ op.then \in {"journal", "old", "confirm"} => journal \subseteq {op.ref}
    /\ op.at \in {"test", "stale", "journal", "old", "clear", "confirm", "read", "record"}
          => journal = {}
    /\ op.at \in {"write", "save"} => journal \subseteq {op.fresh}

\* ... and no mark of a predecessor is left where it was to be cleared.
StaleSettled ==
    /\ op.at = "confirm" => row.stale = 0
    /\ op.at = "retire" /\ op.then = "confirm" => row.stale = 0
    /\ op.at = "record" => op.view.stale = 0

\* The stages after the fresh reference was journaled, and after the row links it.
Linked ==
    /\ op.at \in {"write", "save", "old", "clear", "confirm"} => op.kind = "connect"
    /\ op.at = "retire" /\ op.then \in {"old", "confirm"}
          => op.kind = "connect" /\ op.ref = op.fresh /\ row.connected
    /\ op.at \in {"old", "clear", "confirm"} => row.connected

Settled == Linked /\ (op.clean => JournalSettled /\ StaleSettled) /\ CleanLeavesNothing

\* An operation that was given up promises nothing.
LEMMA GivenUp == ASSUME op'.at = "idle", op'.clean = FALSE PROVE Settled'
  BY DEF Settled, Linked, CleanLeavesNothing, JournalSettled, StaleSettled

\* Ending is being idle.
LEMMA EndedAt ==
    ASSUME NEW clean \in BOOLEAN, op' = Ended(clean)
    PROVE  op'.at = "idle" /\ op'.clean = clean /\ op'.kind = op.kind
  BY DEF Ended, Idle

\* Between two stages nothing is promised of the stores at rest.
LEMMA Going ==
    ASSUME op'.at # "idle", Linked', op'.clean => JournalSettled' /\ StaleSettled'
    PROVE  Settled'
  BY DEF Settled, CleanLeavesNothing

\* An operation that begins has the whole journal before it.
LEMMA BeginSettles ==
    ASSUME Inv, Settled, NEW kind \in {"connect", "probe", "forget"}, Begin(kind) PROVE Settled'
  <1>1. op'.at \in {"recover", "remove"} /\ (op'.at = "recover" => op'.todo = journal)
       /\ op'.then = "idle" /\ journal' = journal
    BY DEF Begin, Idle
  <1> QED BY <1>1, Going DEF Linked, JournalSettled, StaleSettled

\* A retired entry leaves the journal, or the operation is no longer clean.
LEMMA RetireEntrySettles ==
    ASSUME Inv, Settled, RetireEntry PROVE Settled'
  <1>1. CASE op.then = "idle"
    BY <1>1, EndedAt, GivenUp DEF RetireEntry
  <1>2. CASE op.then # "idle"
    <2>1. /\ op'.at = op.then /\ op'.kind = op.kind /\ op'.todo = op.todo /\ op'.view = op.view
          /\ op'.fresh = op.fresh /\ op'.then = "idle" /\ UNCHANGED row
          /\ op'.clean => op.clean /\ op.ref \notin journal'
          /\ journal' \subseteq journal /\ op.at = "retire"
          /\ op.then \in {"recover", "journal", "old", "confirm"}
      BY <1>2 DEF RetireEntry, Inv, TypeOK, Operations
    <2>2. Linked' BY <2>1 DEF Settled, Linked
    <2>3. ASSUME op'.clean PROVE JournalSettled' /\ StaleSettled'
      BY <2>1, <2>3 DEF Settled, JournalSettled, StaleSettled
    <2> QED BY <2>1, <2>2, <2>3, Going
  <1> QED BY <1>1, <1>2

\* Recovery visits every entry of the journal; a probe without a row ends here.
LEMMA RecoverySettles ==
    ASSUME Inv, Settled, Recovery PROVE Settled'
  <1> USE DEF Inv, OpKnown, TypeOK
  <1>1. ASSUME NEW r \in Refs, RecoverAdopted(r) PROVE Settled'
    <2>1. /\ op.at = "recover" /\ op'.at = "retire" /\ op'.ref = r /\ op'.then = "recover"
          /\ op'.todo = op.todo \ {r} /\ op'.clean = op.clean /\ UNCHANGED journal
      BY <1>1 DEF RecoverAdopted, Operations
    <2> QED BY <2>1, Going DEF Settled, Linked, JournalSettled, StaleSettled
  <1>2. ASSUME NEW r \in Refs, RecoverOrphan(r, "done") PROVE Settled'
    <2>1. /\ op.at = "recover" /\ op'.at = "retire" /\ op'.ref = r /\ op'.then = "recover"
          /\ op'.todo = op.todo \ {r} /\ op'.clean = op.clean /\ UNCHANGED journal
      BY <1>2 DEF RecoverOrphan, Removal, Operations
    <2> QED BY <2>1, Going DEF Settled, Linked, JournalSettled, StaleSettled
  <1>3. ASSUME NEW r \in Refs, RecoverOrphan(r, "failed") PROVE Settled'
    <2>1. op'.at = "recover" /\ ~op'.clean
      BY <1>3 DEF RecoverOrphan, Operations
    <2> QED BY <2>1, Going DEF Linked
  <1>4. ASSUME NEW r \in Refs, RecoverOrphan(r, "cancelled") PROVE Settled'
    BY <1>4, EndedAt, GivenUp DEF RecoverOrphan, GiveUp
  <1>5. CASE Recovered
    <2>0. op.at = "recover" /\ op.todo = {} /\ op.clean \in BOOLEAN /\ op.view = row
         /\ op.kind \in {"connect", "probe"} /\ UNCHANGED <<row, journal, vault>>
      BY <1>5 DEF Recovered, Operations, KindKnown, ViewKnown
    <2>1. CASE op'.at \in {"test", "read"} /\ op'.clean = op.clean
      BY <2>0, <2>1, Going DEF Settled, Linked, JournalSettled, StaleSettled
    <2>2. CASE op' = Ended(op.clean) /\ row.ref = 0 /\ op.kind = "probe"
      <3>1. op'.at = "idle" /\ op'.clean = op.clean /\ op'.kind = "probe"
        BY <2>0, <2>2, EndedAt
      <3>2. op.clean => journal = {}
        BY <2>0 DEF Settled, JournalSettled
      <3>3. row.stale = 0 /\ vault \subseteq journal
        BY <2>2 DEF RowSane, Addressable, Named
      <3>4. Linked' /\ (op'.clean => JournalSettled' /\ StaleSettled')
        BY <3>1 DEF Linked, JournalSettled, StaleSettled
      <3> QED BY <2>0, <3>1, <3>2, <3>3, <3>4 DEF Settled, CleanLeavesNothing
    <2> QED BY <1>5, <2>0, <2>1, <2>2 DEF Recovered, Goto, Operations
  <1> QED BY <1>1, <1>2, <1>3, <1>4, <1>5 DEF Recovery, Results
\* connect adds one entry, retires it once the row links it, and clears the mark.
LEMMA ConnectingSettles ==
    ASSUME Inv, Settled, Connecting PROVE Settled'
  <1> USE DEF Inv, OpKnown, TypeOK
  <1>1. CASE Test
    <2>1. op.at = "test" /\ op'.at \in {"journal", "stale"} /\ op'.clean = op.clean
         /\ UNCHANGED journal
      BY <1>1 DEF Test, Goto, Operations
    <2> QED BY <2>1, Going DEF Settled, Linked, JournalSettled, StaleSettled
  <1>2. ASSUME NEW result \in Results, RemoveStale(result) PROVE Settled'
    <2>1. CASE result = "done"
      <3>1. op.at = "stale" /\ op'.at = "retire" /\ op'.then = "journal" /\ op'.clean = op.clean
           /\ UNCHANGED journal
        BY <1>2, <2>1 DEF RemoveStale, Removal, Retire, Operations
      <3> QED BY <3>1, Going DEF Settled, Linked, JournalSettled, StaleSettled
    <2> QED BY <1>2, <2>1, EndedAt, GivenUp DEF RemoveStale, GiveUp
  <1>3. CASE RecordEntry
    <2>1. CASE journal' = journal \cup {issued'} /\ op' = [op EXCEPT !.at = "write", !.fresh = issued']
      <3>1. op.at = "journal" /\ op.kind = "connect" /\ op'.at = "write" /\ op'.kind = "connect"
           /\ op'.fresh = issued' /\ op'.clean = op.clean
        BY <1>3, <2>1 DEF RecordEntry, Operations, KindKnown
      <3> QED BY <2>1, <3>1, Going DEF Settled, Linked, JournalSettled, StaleSettled
    <2> QED BY <1>3, <2>1, EndedAt, GivenUp DEF RecordEntry, GiveUp
  <1>4. CASE WriteSecret
    <2>1. op.at = "write" /\ op'.at \in {"save", "compensate"} /\ op'.clean = op.clean
         /\ op'.kind = op.kind /\ op'.fresh = op.fresh /\ UNCHANGED journal
      BY <1>4 DEF WriteSecret, Goto, Operations
    <2> QED BY <2>1, Going DEF Settled, Linked, JournalSettled, StaleSettled
  <1>5. CASE Save
    <2> DEFINE state == [ref |-> op.fresh, stale |-> op.view.ref, connected |-> TRUE]
               next == IF state.stale = 0 THEN "confirm" ELSE "old"
    <2>1. CASE row' = state /\ op' = [op EXCEPT !.at = "retire", !.ref = op.fresh, !.view = state,
                                              !.then = next]
      <3>1. op.at = "save" /\ op'.at = "retire" /\ op'.then = next /\ op'.clean = op.clean
           /\ op'.kind = op.kind /\ op'.fresh = op.fresh /\ op'.ref = op.fresh /\ UNCHANGED journal
        BY <1>5, <2>1 DEF Save, Operations
      <3>2. row'.connected = TRUE /\ row'.stale = op.view.ref BY <2>1
      <3>3. next = "confirm" => row'.stale = 0 BY <3>2
      <3>4. next \in {"confirm", "old"} OBVIOUS
      <3> HIDE DEF state, next
      <3> QED BY <3>1, <3>2, <3>3, <3>4, Going DEF Settled, Linked, JournalSettled, StaleSettled
    <2>2. CASE row' = row /\ Goto("compensate")
      <3>1. op'.at = "compensate" BY <2>2 DEF Goto, Operations
      <3> QED BY <3>1, Going DEF Linked, JournalSettled, StaleSettled
    <2> QED BY <1>5, <2>1, <2>2 DEF Save
  <1>6. ASSUME NEW result \in Results, Compensate(result) PROVE Settled'
    <2>1. CASE result = "done"
      <3>1. op'.at = "retire" /\ op'.then = "idle"
        BY <1>6, <2>1 DEF Compensate, Retire, Operations
      <3> QED BY <3>1, Going DEF Linked, JournalSettled, StaleSettled
    <2> QED BY <1>6, <2>1, EndedAt, GivenUp DEF Compensate, GiveUp
  <1>7. ASSUME NEW result \in Results, RemoveOld(result) PROVE Settled'
    <2>1. CASE result = "done"
      <3>1. op.at = "old" /\ op'.at = "clear" /\ op'.clean = op.clean /\ op'.kind = op.kind
           /\ UNCHANGED <<row, journal>>
        BY <1>7, <2>1 DEF RemoveOld, Removal, Goto, Operations
      <3> QED BY <3>1, Going DEF Settled, Linked, JournalSettled, StaleSettled
    <2>2. CASE result = "failed"
      <3>1. op.at = "old" /\ op'.at = "confirm" /\ ~op'.clean /\ op'.kind = op.kind
           /\ UNCHANGED <<row, journal>>
        BY <1>7, <2>2 DEF RemoveOld, Removal, Operations
      <3> QED BY <3>1, Going DEF Settled, Linked
    <2>3. CASE result = "cancelled"
      BY <1>7, <2>3, EndedAt, GivenUp DEF RemoveOld, GiveUp
    <2> QED BY <2>1, <2>2, <2>3 DEF Results
  <1>8. CASE ClearOld
    <2>1. CASE row' = [op.view EXCEPT !.stale = 0] /\ Goto("confirm")
      <3>1. op.at = "clear" /\ op.view = row /\ op'.at = "confirm" /\ op'.clean = op.clean
           /\ op'.kind = op.kind /\ UNCHANGED journal
        BY <1>8, <2>1 DEF ClearOld, Goto, Operations, ViewKnown
      <3>2. row'.stale = 0 /\ row'.connected = row.connected
        BY <2>1, <3>1 DEF Rows
      <3> QED BY <3>1, <3>2, Going DEF Settled, Linked, JournalSettled, StaleSettled
    <2>2. CASE row' = row /\ op' = [op EXCEPT !.at = "confirm", !.clean = FALSE]
      <3>1. op.at = "clear" /\ op'.at = "confirm" /\ ~op'.clean /\ op'.kind = op.kind
        BY <1>8, <2>2 DEF ClearOld, Operations
      <3> QED BY <2>2, <3>1, Going DEF Settled, Linked
    <2> QED BY <1>8, <2>1, <2>2 DEF ClearOld
  <1>9. CASE Confirm
    <2>1. op.at = "confirm" /\ row.ref = op.fresh /\ row.ref \in vault /\ op.clean \in BOOLEAN
         /\ op.kind = "connect" /\ row.connected
      BY <1>9 DEF Confirm, ConnectKnown, Settled, Linked, Operations
    <2>2. op' = Ended(op.clean) BY <1>9, <2>1 DEF Confirm
    <2>3. op'.at = "idle" /\ op'.clean = op.clean /\ op'.kind = "connect"
      BY <2>1, <2>2, EndedAt
    <2>4. op.clean => journal = {} /\ row.stale = 0
      BY <2>1 DEF Settled, JournalSettled, StaleSettled
    <2>5. op.clean => vault = {row.ref}
      BY <2>1, <2>4 DEF Addressable, Named
    <2>6. UNCHANGED <<row, journal, vault>>
      BY <1>9, <2>1 DEF Confirm
    <2>7. Linked' /\ (op'.clean => JournalSettled' /\ StaleSettled')
      BY <2>3 DEF Linked, JournalSettled, StaleSettled
    <2> QED BY <2>1, <2>3, <2>4, <2>5, <2>6, <2>7 DEF Settled, CleanLeavesNothing
  <1> QED BY <1>1, <1>2, <1>3, <1>4, <1>5, <1>6, <1>7, <1>8, <1>9 DEF Connecting

\* probe removes the predecessor before it records that there is none.
LEMMA ProbingSettles ==
    ASSUME Inv, Settled, Probing PROVE Settled'
  <1> USE DEF Inv, OpKnown, TypeOK
  <1>1. ASSUME NEW connected \in BOOLEAN, ReadOne(connected) PROVE Settled'
    <2>1. op.at = "read" /\ op'.at = (IF op.view.stale = 0 THEN "record" ELSE "stale")
         /\ op'.view.stale = op.view.stale /\ op'.clean = op.clean /\ UNCHANGED journal
      BY <1>1 DEF ReadOne, Operations, Rows
    <2> QED BY <2>1, Going DEF Settled, Linked, JournalSettled, StaleSettled
  <1>2. ASSUME NEW result \in Results, ProbeStale(result) PROVE Settled'
    <2>1. CASE result = "done"
      <3>0. op \in Operations /\ op.view \in Rows BY DEF Operations
      <3>1. op.at = "stale" /\ UNCHANGED journal
           /\ op' = [op EXCEPT !.at = "record", !.view.stale = 0]
        BY <1>2, <2>1 DEF ProbeStale, Removal
      <3>2. op'.at = "record" /\ op'.clean = op.clean BY <3>0, <3>1 DEF Operations
      <3>3. op'.view.stale = 0 BY <3>0, <3>1 DEF Operations, Rows
      <3> QED BY <3>1, <3>2, <3>3, Going DEF Settled, Linked, JournalSettled, StaleSettled
    <2>2. CASE result = "failed"
      <3>1. op'.at = "record" /\ ~op'.clean BY <1>2, <2>2 DEF ProbeStale, Operations
      <3> QED BY <3>1, Going DEF Linked
    <2>3. CASE result = "cancelled"
      BY <1>2, <2>3, EndedAt, GivenUp DEF ProbeStale, GiveUp
    <2> QED BY <2>1, <2>2, <2>3 DEF Results
  <1>3. CASE RecordProbe
    <2>1. CASE row' = op.view /\ op' = Ended(op.clean)
      <3>1. op.at = "record" /\ op.kind = "probe" /\ op.clean \in BOOLEAN
           /\ UNCHANGED <<journal, vault>>
        BY <1>3 DEF RecordProbe, KindKnown, Operations
      <3>2. op'.at = "idle" /\ op'.clean = op.clean /\ op'.kind = "probe"
        BY <2>1, <3>1, EndedAt
      <3>3. op.clean => journal = {} /\ op.view.stale = 0
        BY <3>1 DEF Settled, JournalSettled, StaleSettled
      <3>4. op.view.ref = row.ref /\ (op.view.stale = 0 /\ row.stale # 0 => row.stale \notin vault)
        BY <3>1 DEF ViewKnown
      <3>5. op.clean => vault \subseteq {op.view.ref}
        BY <3>3, <3>4 DEF Addressable, Named
      <3>6. Linked' /\ (op'.clean => JournalSettled' /\ StaleSettled')
        BY <3>2 DEF Linked, JournalSettled, StaleSettled
      <3> QED BY <2>1, <3>1, <3>2, <3>3, <3>5, <3>6 DEF Settled, CleanLeavesNothing
    <2> QED BY <1>3, <2>1, EndedAt, GivenUp DEF RecordProbe, GiveUp
  <1> QED BY <1>1, <1>2, <1>3 DEF Probing

\* forget empties the vault, the journal and the row, in this order.
LEMMA ForgettingSettles ==
    ASSUME Inv, Settled, Forgetting PROVE Settled'
  <1> USE DEF Inv, OpKnown, TypeOK
  <1>1. ASSUME NEW r \in Refs, ForgetEntry(r) PROVE Settled'
    <2>1. CASE journal' = journal \ {r} /\ op' = [op EXCEPT !.todo = @ \ {r}]
      <3>1. op.at = "forget" /\ op'.at = "forget" /\ op'.todo = op.todo \ {r}
           /\ op'.clean = op.clean
        BY <1>1, <2>1 DEF ForgetEntry, Operations
      <3> QED BY <2>1, <3>1, Going DEF Settled, Linked, JournalSettled, StaleSettled
    <2> QED BY <1>1, <2>1, EndedAt, GivenUp DEF ForgetEntry, GiveUp
  <1>2. ASSUME NEW r \in Refs, NEW result \in Results, RemoveSecret(r, result) PROVE Settled'
    <2>1. CASE result # "cancelled"
      <3>1. op'.at = "remove" BY <1>2, <2>1 DEF RemoveSecret, Operations
      <3> QED BY <3>1, Going DEF Linked, JournalSettled, StaleSettled
    <2> QED BY <1>2, <2>1, EndedAt, GivenUp DEF RemoveSecret, GiveUp
  <1>3. CASE Removed
    <2>1. CASE ~op.broken
      <3>1. op'.at = "forget" /\ op'.todo = journal /\ UNCHANGED journal
        BY <1>3, <2>1 DEF Removed, Operations
      <3> QED BY <3>1, Going DEF Linked, JournalSettled, StaleSettled
    <2> QED BY <1>3, <2>1, EndedAt, GivenUp DEF Removed, GiveUp
  <1>4. CASE DeleteRow
    <2>1. CASE row' = NoRow /\ op' = Ended(op.clean)
      <3>1. op.at = "forget" /\ op.todo = {} /\ op.kind = "forget" /\ op.clean \in BOOLEAN
           /\ vault = {} /\ UNCHANGED <<journal, vault>>
        BY <1>4 DEF DeleteRow, KindKnown, ForgetKnown, Operations
      <3>2. op'.at = "idle" /\ op'.clean = op.clean /\ op'.kind = "forget"
        BY <2>1, <3>1, EndedAt
      <3>3. op.clean => journal = {}
        BY <3>1 DEF Settled, JournalSettled
      <3>4. Linked' /\ (op'.clean => JournalSettled' /\ StaleSettled')
        BY <3>2 DEF Linked, JournalSettled, StaleSettled
      <3> QED BY <2>1, <3>1, <3>2, <3>3, <3>4 DEF Settled, CleanLeavesNothing, NoRow
    <2> QED BY <1>4, <2>1, EndedAt, GivenUp DEF DeleteRow, GiveUp
  <1> QED BY <1>1, <1>2, <1>3, <1>4 DEF Forgetting

\* Every step keeps what a clean operation has put in order.
LEMMA StepSettles == ASSUME Inv, Settled, [Next]_vars PROVE Settled'
  <1>1. CASE Abandon
    BY <1>1, EndedAt, GivenUp DEF Abandon, GiveUp
  <1>2. CASE Crash
    BY <1>2, GivenUp DEF Crash, Idle
  <1>3. CASE UNCHANGED vars
    BY <1>3 DEF vars, Settled, Linked, JournalSettled, StaleSettled, CleanLeavesNothing
  <1> QED BY <1>1, <1>2, <1>3, BeginSettles, RetireEntrySettles, RecoverySettles,
             ConnectingSettles, ProbingSettles, ForgettingSettles DEF Next

\* A connect, probe or forget in which nothing failed ends with the stored session
\* alone, or with nothing after forget, whatever crashes and failures came before it.
THEOREM CleanStores == Spec => []CleanLeavesNothing
  <1>1. ASSUME Init PROVE Settled
    BY <1>1 DEF Init, Idle, Settled, Linked, JournalSettled, StaleSettled, CleanLeavesNothing
  <1>2. Settled => CleanLeavesNothing BY DEF Settled
  <1> QED BY <1>1, <1>2, StepSettles, Inductive, PTL DEF Spec

=============================================================================
