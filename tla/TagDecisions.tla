----------------------------- MODULE TagDecisions -----------------------------
(* The decisions about the tags of one problem: what a human reviewed, what an    *)
(* analysis adopted, and which of the append-only rows is the current one of a   *)
(* tag. The clock may repeat or go back at any reading.                          *)
EXTENDS Naturals, Sequences, FiniteSets

CONSTANTS Tags,          \* taxonomy ids
          MaxInstant,    \* readings of the clock
          MaxReviews,    \* bound: manual decisions
          MaxRuns        \* bound: adopted analyses

ASSUME TagAssumption == {MaxInstant, MaxReviews, MaxRuns} \subseteq Nat

VARIABLES
    manuals,         \* manual decisions, in the order they were recorded
    manualRevision,  \* the revision stored next to them
    decisions,       \* resolved tag decisions
    analyses,        \* creation instants of the adopted results, in order of adoption
    claim            \* the manual revision a run captured, or NoClaim

tagVars == <<manuals, manualRevision, decisions, analyses, claim>>

NoClaim == MaxReviews + 1
Instants == 1..(MaxInstant + MaxReviews + MaxRuns)
Statuses == {"auto_adopted", "needs_review", "rejected", "accepted"}

TagTypeOK ==
    /\ manuals \in Seq([tag : Tags, action : {"accepted", "rejected"}, at : Instants])
    /\ manualRevision \in 0..MaxReviews
    /\ decisions \subseteq [tag : Tags, status : Statuses, manual : BOOLEAN, at : Instants, run : 0..MaxRuns]
    /\ analyses \in Seq(Instants)
    /\ claim \in 0..NoClaim

TagInit ==
    manuals = <<>> /\ manualRevision = 0 /\ decisions = {} /\ analyses = <<>> /\ claim = NoClaim

-----------------------------------------------------------------------------

Newest(S) == {d \in S : \A e \in S : e.at <= d.at}

\* The current manual decision of a tag: the one decided last.
ManualOf(t) == Newest({manuals[i] : i \in {j \in DOMAIN manuals : manuals[j].tag = t}})

\* The rows that may currently describe a tag: a human's before a model's, then the
\* latest ones. Among rows of one instant the store's order is that of their hashes.
Current(R, t) ==
    LET of == {d \in R : d.tag = t}
        human == {d \in of : d.manual}
    IN  Newest(IF human = {} THEN of ELSE human)

Effective(d) == d.status \in {"auto_adopted", "accepted"}

\* Evidence and verification of a suggestion, and the decision they lead to: adopted only
\* if every excerpt is found and the verification supports it, and never by reasoning alone.
Suggestions == [evidence : {"none", "refuted", "found"},
                verdicts : SUBSET {"support", "conflict", "insufficient"},
                reasoned : BOOLEAN]

Judged(s) ==
    IF s.evidence = "refuted" THEN "rejected"
    ELSE IF s.evidence = "found" /\ s.verdicts = {"support"} /\ ~s.reasoned THEN "auto_adopted"
    ELSE "needs_review"

Judgements == {Judged(s) : s \in Suggestions}

-----------------------------------------------------------------------------

\* Defect: the reading of the clock, whatever it repeats.
ReadingOnly(now) == now

\* One past the last decision of the problem when the clock does not get beyond it.
MonotonicInstant(now) ==
    LET past == {manuals[i].at : i \in DOMAIN manuals}
    IN  IF \A n \in past : n < now THEN now
        ELSE 1 + CHOOSE n \in past : \A m \in past : m <= n

\* reviewTag: the decision, its resolved row and the revision are one transaction. The
\* intent and the note of the current decision again are answered without a row.
ReviewTag(t, action) ==
    \E now \in 1..MaxInstant :
        LET at == MonotonicInstant(now)
        IN  /\ Len(manuals) < MaxReviews
            /\ manuals' = Append(manuals, [tag |-> t, action |-> action, at |-> at])
            /\ manualRevision' = manualRevision + 1
            /\ decisions' = decisions \cup {[tag |-> t, status |-> action, manual |-> TRUE, at |-> at, run |-> 0]}
            /\ UNCHANGED <<analyses, claim>>

\* A run captures the manual revision with its job.
ClaimRun ==
    /\ claim = NoClaim /\ Len(analyses) < MaxRuns
    /\ claim' = manualRevision
    /\ UNCHANGED <<manuals, manualRevision, decisions, analyses>>

\* A run that fails, is cancelled or finds the revision moved adopts nothing.
AbandonRun ==
    /\ claim # NoClaim /\ claim' = NoClaim
    /\ UNCHANGED <<manuals, manualRevision, decisions, analyses>>

\* Defect: the reading of the clock, although older rows may carry it as well.
AdoptionInstantAsRead(now) == now

\* A checked run is logically newer than every result and model decision before it.
AdoptionInstant(now) ==
    LET past == {analyses[i] : i \in DOMAIN analyses} \cup {d.at : d \in {e \in decisions : ~e.manual}}
    IN  IF \A n \in past : n < now THEN now
        ELSE 1 + CHOOSE n \in past : \A m \in past : m <= n

\* A row for a suggested tag: a manual decision is restated, otherwise the judgement counts.
Resolved(t, status, at, run) ==
    IF ManualOf(t) # {}
    THEN {[tag |-> t, status |-> m.action, manual |-> TRUE, at |-> m.at, run |-> run] : m \in ManualOf(t)}
    ELSE {[tag |-> t, status |-> status, manual |-> FALSE, at |-> at, run |-> run]}

\* Defect: a result that no longer carries a tag says nothing about it.
NothingWithdrawn(fresh, at, run) == {}

\* Adopted tags the checked run did not decide, and no human did, go back to review.
Withdrawn(fresh, at, run) ==
    {[tag |-> t, status |-> "needs_review", manual |-> FALSE, at |-> at, run |-> run] :
        t \in {u \in Tags : /\ u \notin {d.tag : d \in fresh} /\ ManualOf(u) = {}
                            /\ \E d \in Current(decisions, u) : Effective(d)}}

\* The adoption of a run: checked ones answered the question for omissions. The material
\* is absent for a run that only reasons, and such a run suggests no tag.
AdoptAnalysis(checked) ==
    \E now \in 1..MaxInstant, S \in SUBSET Tags : \E judged \in [S -> Judgements] :
        LET run == Len(analyses) + 1
            at == IF checked THEN AdoptionInstant(now) ELSE now
            fresh == UNION {Resolved(t, judged[t], at, run) : t \in S}
        IN  /\ claim = manualRevision
            /\ checked \/ S = {}
            /\ analyses' = Append(analyses, at)
            /\ decisions' = decisions \cup fresh \cup (IF checked THEN Withdrawn(fresh, at, run) ELSE {})
            /\ claim' = NoClaim
            /\ UNCHANGED <<manuals, manualRevision>>

TagNext ==
    \/ \E t \in Tags, action \in {"accepted", "rejected"} : ReviewTag(t, action)
    \/ ClaimRun \/ AbandonRun \/ \E checked \in BOOLEAN : AdoptAnalysis(checked)

-----------------------------------------------------------------------------

LastReview(t) ==
    LET at == {i \in DOMAIN manuals : manuals[i].tag = t}
    IN  manuals[CHOOSE i \in at : \A j \in at : j <= i].action

\* A tag a human reviewed stands as the last review left it, whatever an analysis
\* adopted since and whatever the clock read (domain/tags.ts decisionSupersedes).
ManualPrevails ==
    \A t \in Tags :
        ManualOf(t) # {} => \A d \in Current(decisions, t) : d.status = LastReview(t)

\* A checked run governs the tags no human reviewed: exactly those it adopted are
\* effective when it commits, older adoptions it dropped no longer are, and a run that
\* is not checked takes none away (domain/eligibility.ts withdrawnAdoptions).
CheckedRunGoverns ==
    [][ analyses' # analyses =>
          \A t \in {u \in Tags : ManualOf(u) = {}} :
              LET adopted == \E d \in decisions' : d.run = Len(analyses') /\ d.tag = t /\ Effective(d)
                  checked == \E d \in decisions' : d.run = Len(analyses')
              IN  /\ checked => \A d \in Current(decisions', t) : Effective(d) <=> adopted
                  /\ ~checked => Current(decisions', t) = Current(decisions, t) ]_tagVars

=============================================================================
