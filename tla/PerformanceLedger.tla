--------------------------- MODULE PerformanceLedger ---------------------------
(* The virtual-contest results a user enters for one account: one revisioned row  *)
(* of evidence entries, edited from several open screens. An edit names the      *)
(* revision its screen was read at.                                              *)
EXTENDS Naturals, Functions

CONSTANTS Contests,      \* contest ids
          Screens,       \* open views of the ledger
          MaxEdits       \* bound: edits

ASSUME EntriesAssumption == MaxEdits \in Nat

VARIABLES
    ledger,     \* the stored row: its revision and its entries, evidence id -> contest
    screen,     \* what each view last read of it
    minted      \* evidence ids given out so far

entryVars == <<ledger, screen, minted>>

NoEntries == [i \in {} |-> 0]
NoLedger == [revision |-> 0, entries |-> NoEntries]

Ledgers == [revision : 0..MaxEdits,
            entries : UNION {[S -> Contests] : S \in SUBSET (1..MaxEdits)}]

LedgerTypeOK ==
    /\ ledger \in Ledgers
    /\ screen \in [Screens -> Ledgers]
    /\ minted \in 0..MaxEdits

EntriesInit == ledger = NoLedger /\ screen = [s \in Screens |-> NoLedger] /\ minted = 0

-----------------------------------------------------------------------------

ListLedger(s) ==
    /\ screen' = [screen EXCEPT ![s] = ledger]
    /\ UNCHANGED <<ledger, minted>>

\* Defect: only an added entry is compared with the others.
ClashOfAdded(id, contest) ==
    id > minted /\ \E other \in DOMAIN ledger.entries : ledger.entries[other] = contest

\* Another entry already holds the contest.
Clash(id, contest) ==
    \E other \in DOMAIN ledger.entries \ {id} : ledger.entries[other] = contest

\* Defect: an empty row is dropped with its revision.
RowUnlessEmpty(entries) ==
    IF entries = NoEntries THEN NoLedger ELSE [revision |-> ledger.revision + 1, entries |-> entries]

\* The row an edit leaves: an empty one is kept, so that its revision goes on.
RowOf(entries) == [revision |-> ledger.revision + 1, entries |-> entries]

\* The edit is refused unless the stored revision is the one the screen shows; the
\* answer refreshes the screen.
Write(s, entries) ==
    /\ ledger.revision < MaxEdits
    /\ screen[s].revision = ledger.revision
    /\ ledger' = RowOf(entries)
    /\ screen' = [screen EXCEPT ![s] = ledger']

With(entries, id, contest) ==
    [i \in {id} \cup DOMAIN entries |-> IF i = id THEN contest ELSE entries[i]]

\* Adds an entry under a new id, or replaces one the screen shows.
SaveEntry(s, id, contest) ==
    /\ id = minted + 1 \/ id \in DOMAIN screen[s].entries \cap DOMAIN ledger.entries
    /\ ~Clash(id, contest)
    /\ Write(s, With(ledger.entries, id, contest))
    /\ minted' = IF id > minted THEN id ELSE minted

DeleteEntry(s, id) ==
    /\ id \in DOMAIN screen[s].entries \cap DOMAIN ledger.entries
    /\ Write(s, Restrict(ledger.entries, DOMAIN ledger.entries \ {id}))
    /\ UNCHANGED minted

EntriesNext ==
    \E s \in Screens :
        \/ ListLedger(s)
        \/ \E id \in 1..MaxEdits :
              \/ \E contest \in Contests : SaveEntry(s, id, contest)
              \/ DeleteEntry(s, id)

-----------------------------------------------------------------------------

\* A contest has one entry, however adds and replacements from several screens mix.
OneEntryPerContest ==
    \A i, j \in DOMAIN ledger.entries : ledger.entries[i] = ledger.entries[j] => i = j

\* An edit lands only on the very entries its screen showed: no entry another screen
\* wrote is overwritten unseen, and no deleted one comes back.
EditsWhatWasSeen ==
    [][ledger' # ledger => \E s \in Screens : screen[s] = ledger /\ screen'[s] = ledger']_entryVars

=============================================================================
