--------------------------- MODULE AnalysisLedger ---------------------------
(***************************************************************************)
(* What the analysis pipeline promises about money and results, without    *)
(* runs, leases, workers or recovery: every batch has a budget per kind of *)
(* call, calls are spent and results adopted only while the batch is open, *)
(* spending never passes the budget granted at that moment, nothing spent  *)
(* is ever given back, every job is adopted at most once and a finished    *)
(* batch never opens again.                                                *)
(***************************************************************************)
EXTENDS Naturals

CONSTANTS Batches, Jobs, Kinds, Budgets

VARIABLES granted, spent, open, adopted, finished

Init ==
    /\ granted = [b \in Batches |-> [k \in Kinds |-> 0]]
    /\ spent = [b \in Batches |-> [k \in Kinds |-> 0]]
    /\ open = {}
    /\ adopted = {}
    /\ finished = {}

Grant(b) ==
    /\ b \notin open
    /\ \E budget \in Budgets : granted' = [granted EXCEPT ![b] = budget]
    /\ UNCHANGED <<spent, open, adopted, finished>>

Open(b) ==
    /\ b \notin finished
    /\ open' = open \cup {b}
    /\ UNCHANGED <<granted, spent, adopted, finished>>

Close(b) ==
    /\ open' = open \ {b}
    /\ finished' \in {finished, finished \cup {b}}
    /\ UNCHANGED <<granted, spent, adopted>>

Spend(b, k) ==
    /\ b \in open
    /\ spent[b][k] < granted[b][k]
    /\ spent' = [spent EXCEPT ![b][k] = @ + 1]
    /\ UNCHANGED <<granted, open, adopted, finished>>

Adopt(b, j) ==
    /\ b \in open
    /\ j \notin adopted
    /\ adopted' = adopted \cup {j}
    /\ UNCHANGED <<granted, spent, open, finished>>

Next ==
    \E b \in Batches :
       \/ Grant(b) \/ Open(b) \/ Close(b)
       \/ \E k \in Kinds : Spend(b, k)
       \/ \E j \in Jobs : Adopt(b, j)

vars == <<granted, spent, open, adopted, finished>>
Spec == Init /\ [][Next]_vars
=============================================================================
