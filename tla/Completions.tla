------------------------------ MODULE Completions ------------------------------
(* How one account finished its problems: an append-only history per problem,     *)
(* recorded one by one from a form or in a batch from a preview, while problems   *)
(* are trashed and restored, material moves and the clock repeats.                *)
EXTENDS Naturals, Sequences, FiniteSets

CONSTANTS Solved,        \* problems of one source
          Skills,        \* taxonomy ids
          Consulted,     \* solution ids
          Editors,       \* open forms and previews
          MaxReading,    \* readings of the clock
          MaxRecords     \* bound: records one by one; a batch may follow

ASSUME CompletionAssumption == IsFiniteSet(Solved) /\ {MaxReading, MaxRecords} \subseteq Nat

VARIABLES
    past,         \* the records of each problem, in the order they were appended
    trashed,      \* problems no read returns
    open          \* what each editor saw and intends, or NoEdit

completionVars == <<past, trashed, open>>

Modes == {"independent", "solution_used"}
Readings == 1..(MaxReading + MaxRecords)
Records == [mode : Modes, skills : SUBSET Skills, solutions : SUBSET Consulted, at : Readings]
NoRecord == [mode |-> "none", skills |-> {}, solutions |-> {}, at |-> 0]
NoEdit == [kind |-> "none", mode |-> "none", skills |-> {}, seen |-> <<>>]

CompletionTypeOK ==
    /\ past \in [Solved -> Seq(Records)]
    /\ trashed \subseteq Solved
    /\ \A e \in Editors :
        open[e] = NoEdit \/ /\ open[e].kind \in {"form", "preview"} /\ open[e].mode \in Modes \cup {"none"}
                            /\ open[e].skills \subseteq Skills
                            /\ DOMAIN open[e].seen \subseteq Solved
                            /\ \A p \in DOMAIN open[e].seen : open[e].seen[p] \in Records \cup {NoRecord}

CompletionInit ==
    /\ past = [p \in Solved |-> <<>>] /\ trashed = {}
    /\ open = [e \in Editors |-> NoEdit]

-----------------------------------------------------------------------------

\* The current record: the latest by its instant, as both the form and the batch read it.
Latest(p) ==
    IF past[p] = <<>> THEN NoRecord
    ELSE LET S == {past[p][i] : i \in DOMAIN past[p]}
         IN  CHOOSE r \in S : \A q \in S : q.at <= r.at

\* Defect: the reading of the clock as it is.
ReadingAsRead(p, now) == now

\* The reading, or one past the previous record when the clock does not get beyond it.
Instant(p, now) == IF now > Latest(p).at THEN now ELSE Latest(p).at + 1

\* The form of one problem is opened: it remembers the record it was filled from.
OpenForm(e, p) ==
    /\ open[e] = NoEdit /\ p \notin trashed
    /\ open' = [open EXCEPT ![e] = [NoEdit EXCEPT !.kind = "form", !.seen = [q \in {p} |-> Latest(q)]]]
    /\ UNCHANGED <<past, trashed>>

\* A batch edit is previewed; nothing is stored, the answer names what it was computed from.
Preview(e, mode, skills) ==
    \E ps \in SUBSET (Solved \ trashed) \ {{}} :
        /\ open[e] = NoEdit
        /\ open' = [open EXCEPT ![e] = [kind |-> "preview", mode |-> mode, skills |-> skills,
                                        seen |-> [p \in ps |-> Latest(p)]]]
        /\ UNCHANGED <<past, trashed>>

\* The compare-and-set of the form, and of the preview's hash, on the complete records.
AsSeen(e) == \A p \in DOMAIN open[e].seen : p \notin trashed /\ Latest(p) = open[e].seen[p]

Discard(e) ==
    /\ open[e] # NoEdit
    /\ open' = [open EXCEPT ![e] = NoEdit]
    /\ UNCHANGED <<past, trashed>>

Stored == Cardinality(UNION {{p} \X DOMAIN past[p] : p \in Solved})
HasRoom == Stored < MaxRecords

\* recordRetrospective: an independent completion has no consulted solutions; those of
\* another one are of the snapshot current in the same transaction, any subset here.
Recorded(p) ==
    \E mode \in Modes, skills \in SUBSET Skills, used \in SUBSET Consulted, now \in 1..MaxReading :
        /\ HasRoom /\ p \notin trashed
        /\ mode = "independent" => used = {}
        /\ past' = [past EXCEPT ![p] = Append(@, [mode |-> mode, skills |-> skills,
                                                  solutions |-> used, at |-> Instant(p, now)])]
        /\ UNCHANGED trashed

\* A caller without a form, and one whose form still shows the current record.
Record(p) == Recorded(p) /\ UNCHANGED open

RecordForm(e) ==
    \E p \in DOMAIN open[e].seen :
        /\ open[e].kind = "form" /\ AsSeen(e)
        /\ Recorded(p) /\ open' = [open EXCEPT ![e] = NoEdit]

\* Defect: the solutions of the previous record stay, whatever the mode becomes.
SolutionsKept(p, mode) == Latest(p).solutions

\* Consulted solutions survive an edit even when the snapshot moved; only a switch to an
\* independent completion clears them.
SolutionsAfter(p, mode) == IF mode = "independent" THEN {} ELSE Latest(p).solutions

Edited(p, mode, skills, now) ==
    [mode |-> mode, skills |-> Latest(p).skills \cup skills,
     solutions |-> SolutionsAfter(p, mode), at |-> Instant(p, now)]

\* A problem the edit leaves as it is gets no record.
Changes(p, mode, skills) ==
    \/ Latest(p).mode # mode \/ ~(skills \subseteq Latest(p).skills)
    \/ Latest(p).solutions # SolutionsAfter(p, mode)

\* Defect: only the mode of the records is compared with the preview.
SameModes(e) == \A p \in DOMAIN open[e].seen : p \notin trashed /\ Latest(p).mode = open[e].seen[p].mode

\* The preview is computed again and must come out the same.
PreviewHolds(e) == AsSeen(e)

\* applyRetrospectiveEdits: the preview is computed again and compared, then every changed
\* problem gets its record, all in one transaction with a reading of the clock for each.
Apply(e) ==
    LET edit == open[e]
    IN  \E now \in [DOMAIN edit.seen -> 1..MaxReading] :
        /\ edit.kind = "preview" /\ Stored <= MaxRecords
        /\ PreviewHolds(e)
        /\ past' = [p \in Solved |->
                      IF p \in DOMAIN edit.seen /\ Changes(p, edit.mode, edit.skills)
                      THEN Append(past[p], Edited(p, edit.mode, edit.skills, now[p]))
                      ELSE past[p]]
        /\ open' = [open EXCEPT ![e] = NoEdit]
        /\ UNCHANGED trashed

\* A disposition hides a problem and its history, or brings both back.
Trash(p) ==
    /\ trashed' = IF p \in trashed THEN trashed \ {p} ELSE trashed \cup {p}
    /\ UNCHANGED <<past, open>>

CompletionNext ==
    \/ \E e \in Editors :
        \/ \E mode \in Modes, skills \in SUBSET Skills : Preview(e, mode, skills)
        \/ \E p \in Solved : OpenForm(e, p)
        \/ RecordForm(e) \/ Apply(e) \/ Discard(e)
    \/ \E p \in Solved : Record(p) \/ Trash(p)

-----------------------------------------------------------------------------

\* The history of a problem is strictly ordered in time, so that the record appended last
\* is the one every reader takes for the current one (workbench-service.ts, "the append-only
\* history stays ordered"), and an independent completion lists no solutions.
HistoryOrdered ==
    \A p \in Solved :
        /\ \A i, j \in DOMAIN past[p] : i < j => past[p][i].at < past[p][j].at
        /\ \A i \in DOMAIN past[p] : past[p][i].mode = "independent" => past[p][i].solutions = {}

\* A batch edit lands exactly as previewed on every problem of it, each still as it was
\* shown, or on none of them (retrospective-edit.ts, the stale preview).
LandsAsPreviewed ==
    [][ \A e \in Editors :
          LET edit == open[e]
          IN  edit.kind = "preview" /\ open'[e] = NoEdit /\ past' # past =>
                \A p \in DOMAIN edit.seen :
                    LET now == Latest(p)'
                        seen == edit.seen[p]
                    IN  /\ now.mode = edit.mode /\ now.skills = seen.skills \cup edit.skills
                        /\ now.solutions = (IF edit.mode = "independent" THEN {} ELSE seen.solutions)
                        /\ now = seen \/ now.at > seen.at ]_completionVars

=============================================================================
