--------------------------- MODULE LearningEvidence ---------------------------
(* What one account's stored evidence says: the submissions, metadata, tag       *)
(* decisions and retrospectives one read collects (application/                  *)
(* workbench-service.ts), the knowledge report over the taxonomy                 *)
(* (domain/knowledge.ts), the difficulty bands and statistics, the ability       *)
(* report (domain/ability.ts), and the validator that the aggregate of that      *)
(* report must pass before it is stored with a plan (planning-types.ts).         *)
(* One source and one native dimension; a rating is a number, 0 one that cannot  *)
(* be used for an estimate. The official rating and the self-assessment, which   *)
(* the report carries beside its own counts, are left out, and so are the        *)
(* refusals of a row of another source and of a rating from the future.          *)
EXTENDS Integers, Sequences, FiniteSets, FiniteSetsExt

CONSTANTS
    Exercises,       \* the problems of the account's source
    Nodes,           \* taxonomy nodes
    ParentOf,        \* node -> its parent, 0 for a root
    Techniques,      \* the nodes that are techniques; the others are categories
    Tagged,          \* the nodes that labels, decisions and retrospectives name
    Gradings,        \* the ratings a problem can have
    RecentDays,          \* a first accepted submission this recent is a new solve
    MinSamples,      \* problems an estimate needs
    MinIndependent,  \* problems independent evidence needs
    LastDay,         \* bound: the clock
    MaxFacts         \* bound: what is imported, decided, recorded or trashed

ASSUME EvidenceAssumption ==
    /\ Nodes \subseteq Nat \ {0} /\ Techniques \cup Tagged \subseteq Nodes
    /\ ParentOf \in [Nodes -> Nodes \cup {0}] /\ \A n \in Nodes : ParentOf[n] < n
    /\ Gradings \subseteq Nat
    /\ {RecentDays, MinSamples, MinIndependent} \subseteq Nat \ {0}
    /\ {LastDay, MaxFacts} \subseteq Nat

VARIABLES
    tried,      \* stored submissions
    described,  \* problem -> its metadata row
    judged,     \* problem -> its effective tags
    reviewed,   \* problem -> the retrospectives recorded for it, in order
    binned,     \* problems in the trash
    today,
    recorded    \* what was imported, decided, recorded, trashed or restored so far

evidenceVars == <<tried, described, judged, reviewed, binned, today, recorded>>

Modes4 == {"independent", "assisted", "solution_used", "unknown"}
Days == 0 .. LastDay
TrySet == [key : Exercises, at : Days, accepted : BOOLEAN]

\* No row, a row without a number in the native dimension, or one with a number; the
\* nodes its labels map to.
Undescribed == [stored |-> FALSE, grades |-> {}, labels |-> {}]
Descriptions ==
    [stored : {TRUE}, grades : {{}} \cup {{g} : g \in Gradings}, labels : SUBSET Tagged]

\* The problems may have been imported before: each with a rating of its own.
Imported ==
    {f \in [Exercises -> {d \in Descriptions : d.labels = Tagged /\ \E g \in d.grades : g > 0}] :
        \A p, q \in Exercises : p # q => f[p] # f[q]}

EvidenceInit ==
    /\ tried = {} /\ binned = {} /\ today = 0 /\ recorded = 0
    /\ \/ described = [p \in Exercises |-> Undescribed]
       \/ described \in Imported
    /\ judged = [p \in Exercises |-> {}]
    /\ reviewed = [p \in Exercises |-> <<>>]

Tell == recorded < MaxFacts /\ recorded' = recorded + 1

\* A submission may carry a time ahead of this machine's clock.
ImportTry(s) ==
    /\ Tell /\ s \notin tried
    /\ tried' = tried \cup {s}
    /\ UNCHANGED <<described, judged, reviewed, binned, today>>

ImportDescription(p, d) ==
    /\ Tell /\ described[p] # d
    /\ described' = [described EXCEPT ![p] = d]
    /\ UNCHANGED <<tried, judged, reviewed, binned, today>>

\* The effective tags after a decision, in either direction.
Judge(p, t) ==
    /\ Tell
    /\ judged' = [judged EXCEPT ![p] = IF t \in @ THEN @ \ {t} ELSE @ \cup {t}]
    /\ UNCHANGED <<tried, described, reviewed, binned, today>>

\* A retrospective is of an accepted problem, and later than the one before it.
Review(p, mode, skills) ==
    LET past == reviewed[p]
        after == IF past = <<>> THEN 0 ELSE past[Len(past)].at + 1
    IN  /\ Tell /\ p \notin binned
        /\ \E s \in tried : s.key = p /\ s.accepted
        /\ reviewed' = [reviewed EXCEPT ![p] = Append(@,
             [mode |-> mode, skills |-> skills, at |-> IF after > today THEN after ELSE today])]
        /\ UNCHANGED <<tried, described, judged, binned, today>>

Bin(p) ==
    /\ Tell
    /\ binned' = IF p \in binned THEN binned \ {p} ELSE binned \cup {p}
    /\ UNCHANGED <<tried, described, judged, reviewed, today>>

Wait ==
    /\ today < LastDay
    /\ today' = today + 1
    /\ UNCHANGED <<tried, described, judged, reviewed, binned, recorded>>

EvidenceNext ==
    \/ \E s \in TrySet : ImportTry(s)
    \/ \E p \in Exercises :
        \/ \E d \in Descriptions : ImportDescription(p, d)
        \/ \E t \in Tagged : Judge(p, t)
        \/ \E mode \in Modes4 \ {"unknown"}, skills \in SUBSET Tagged : Review(p, mode, skills)
        \/ Bin(p)
    \/ Wait

EvidenceSpec == EvidenceInit /\ [][EvidenceNext]_evidenceVars

-----------------------------------------------------------------------------
(* The one read, and the knowledge report over the problems K               *)

\* collectWeaknessEvidence: nothing of a trashed problem is read.
Read == {s \in tried : s.key \notin binned}
AttemptedIn(K) == {s.key : s \in Read} \cap K
SolvedIn(K) == {s.key : s \in {r \in Read : r.accepted}} \cap K

Above[n \in Nodes] == IF ParentOf[n] = 0 THEN {} ELSE {ParentOf[n]} \cup Above[ParentOf[n]]

\* addEvidence: a node, and every one above it.
Reaches(tags, n) == \E t \in tags : n = t \/ n \in Above[t]

Labelled(n, K) == {p \in AttemptedIn(K) : Reaches(described[p].labels, n)}
Confirmed(n, K) == {p \in AttemptedIn(K) : Reaches(judged[p], n)}

LatestReview(p) == reviewed[p][Len(reviewed[p])]
ReviewedIn(K) == {p \in SolvedIn(K) : reviewed[p] # <<>>}
Completed(n, mode, K) ==
    {p \in ReviewedIn(K) : LatestReview(p).mode = mode /\ Reaches(LatestReview(p).skills, n)}

Related(n, K) ==
    Labelled(n, K) \cup Confirmed(n, K) \cup UNION {Completed(n, m, K) : m \in Modes4}

\* techniqueStatus, of a category its summary.
StatusOf(n, K) ==
    LET independent == Cardinality(Completed(n, "independent", K))
        reviews == UNION {Completed(n, m, K) : m \in Modes4}
    IN  CASE n \notin Techniques -> "category_summary"
          [] Related(n, K) = {} -> "not_observed"
          [] Related(n, K) # {} /\ reviews = {} -> "unconfirmed"
          [] reviews # {} /\ independent = 0 -> "needs_practice"
          [] independent \in 1 .. MinIndependent - 1 -> "practicing"
          [] OTHER -> "independent_evidence"

TechniquesBelow(n) == {t \in Techniques : n \in Above[t]}
ProvenBelow(n, K) == {t \in TechniquesBelow(n) : Completed(t, "independent", K) # {}}

\* knowledgeDifficultyPartitions: 200 points each, and the problems without a usable rating.
BandOf(p) ==
    IF described[p].grades \subseteq {0} THEN -1
    ELSE (CHOOSE g \in described[p].grades : TRUE) \div 200
Bands == {{p \in AttemptedIn(Exercises) : BandOf(p) = BandOf(q)} : q \in AttemptedIn(Exercises)}

-----------------------------------------------------------------------------
(* The ability report of now                                                *)

Elapsed == {s \in Read : s.at <= today}
Attempted == {s.key : s \in Elapsed}
AcceptedOf(p) == {s \in Elapsed : s.key = p /\ s.accepted}
SolvedNow == {p \in Attempted : AcceptedOf(p) # {}}

\* Defect: the last accepted submission makes a solve new.
LastAcceptedDay(p) == Max({s.at : s \in AcceptedOf(p)})

FirstAcceptedDay(p) == Min({s.at : s \in AcceptedOf(p)})
IsRecent(p) == FirstAcceptedDay(p) >= today - RecentDays
RecentSolves == {p \in SolvedNow : IsRecent(p)}
EarlierSolves == SolvedNow \ RecentSolves

\* The latest retrospective that is not ahead of the clock.
ModeOf(p) ==
    LET past == {i \in DOMAIN reviewed[p] : reviewed[p][i].at <= today}
    IN  IF past = {} THEN "unknown" ELSE reviewed[p][Max(past)].mode

ModeCounts(K) == [m \in Modes4 |-> Cardinality({p \in K : ModeOf(p) = m})]

Helped(K) == {p \in K : ModeOf(p) \in {"assisted", "solution_used"}}
Numbered(K) == {p \in K : described[p].grades # {}}
Eligible(K) == {p \in K \ Helped(K) : \E g \in described[p].grades : g > 0}

\* The ratings of the problems, in ascending order.
GradesOf(K) ==
    LET grade(p) == CHOOSE g \in described[p].grades : TRUE
        Below(g) == {p \in K : grade(p) < g}
        At(g) == {p \in K : grade(p) = g}
    IN  [i \in 1 .. Cardinality(K) |->
            CHOOSE g \in Gradings : Cardinality(Below(g)) < i /\ i <= Cardinality(Below(g) \cup At(g))]

\* quantileOf of a sequence at k quarters, in quarters of a point: linear interpolation.
QuantileOf(values, k) ==
    LET position == (Len(values) - 1) * k
        lower == values[position \div 4 + 1]
        upper == IF position % 4 = 0 THEN lower ELSE values[position \div 4 + 2]
    IN  4 * lower + (upper - lower) * (position % 4)

\* Of quarters of a point.
RoundTo100(q) == ((q + 200) \div 400) * 100
FloorTo100(q) == (q \div 400) * 100
CeilTo100(q) == ((q + 399) \div 400) * 100

TrainingFloor == 800
PoolOf(low, high) ==
    LET floored == Max({TrainingFloor, low})
    IN  [min |-> floored, max |-> Max({floored, Max({TrainingFloor, high})})]

\* The tier of the estimate and its sample: recent independent, recent, or all.
Tiers ==
    <<[basis |-> "recent_independent",
       sample |-> {p \in Eligible(RecentSolves) : ModeOf(p) = "independent"}],
      [basis |-> "recent_observed", sample |-> Eligible(RecentSolves)],
      [basis |-> "historical", sample |-> Eligible(SolvedNow)]>>
Suited == {i \in DOMAIN Tiers : Cardinality(Tiers[i].sample) >= MinSamples}

\* none while no tier has the samples.
Estimate ==
    IF Suited = {} THEN [status |-> "unknown", basis |-> "none", size |-> Cardinality(Eligible(SolvedNow))]
    ELSE LET tier == Tiers[Min(Suited)]
             grades == GradesOf(tier.sample)
             baseline == RoundTo100(QuantileOf(grades, 2))
         IN  [status |-> "estimated", basis |-> tier.basis, size |-> Cardinality(tier.sample),
              baseline |-> baseline,
              quartiles |-> [min |-> FloorTo100(QuantileOf(grades, 1)), max |-> CeilTo100(QuantileOf(grades, 3))],
              basePool |-> PoolOf(baseline - 100, baseline + 100),
              stretchPool |-> PoolOf(baseline + 100, baseline + 300),
              provisional |-> tier.basis # "recent_independent"]

\* assessPeriod
PeriodOf(name, K) ==
    LET eligible == Eligible(K)
        independent == {p \in eligible : ModeOf(p) = "independent"}
        estimated == Cardinality(eligible) >= MinSamples
        confirmed == eligible # {} /\ independent = eligible
        older == \E p \in K : ~IsRecent(p)
    IN  [period |-> name, solved |-> Cardinality(K),
         excluded |-> ModeCounts(K)["assisted"] + ModeCounts(K)["solution_used"],
         missing |-> Cardinality(K) - Cardinality(Helped(K)) - Cardinality(eligible),
         eligible |-> Cardinality(eligible), independent |-> Cardinality(independent),
         modes |-> ModeCounts(K),
         estimateStatus |-> IF estimated THEN "estimated" ELSE "unknown",
         estimates |-> IF ~estimated THEN <<>> ELSE
             <<[baseline |-> RoundTo100(QuantileOf(GradesOf(eligible), 2)),
                confidence |-> IF confirmed /\ ~older THEN "medium" ELSE "low"]>>,
         confirmed |-> confirmed, includesEarlier |-> older,
         native |-> [count |-> Cardinality(Numbered(K)), missing |-> Cardinality(K \ Numbered(K))]]

\* aggregateAbilityForPlanning: without an identifier or a time, and of the estimate only
\* the size of its sample.
Aggregate ==
    [periods |-> <<PeriodOf("all_time", SolvedNow), PeriodOf("recent", RecentSolves),
                   PeriodOf("earlier", EarlierSolves)>>,
     sampleSize |-> Estimate.size,
     attempted |-> Cardinality(Attempted), solved |-> Cardinality(SolvedNow),
     modes |-> ModeCounts(SolvedNow),
     native |-> [count |-> Cardinality(Numbered(SolvedNow)),
                 missing |-> Cardinality(SolvedNow) - Cardinality(Numbered(SolvedNow))],
     undescribed |-> Cardinality({p \in Attempted : ~described[p].stored}),
     future |-> Cardinality(Read \ Elapsed)]

-----------------------------------------------------------------------------
(* The validator of a stored preparation                                    *)

PeriodAccepted(row, name) ==
    /\ row.period = name
    /\ row.solved = row.excluded + row.missing + row.eligible
    /\ {row.solved, row.excluded, row.missing, row.eligible, row.independent} \subseteq Nat
    /\ row.independent <= row.eligible
    /\ row.solved = row.modes["independent"] + row.modes["assisted"]
                    + row.modes["solution_used"] + row.modes["unknown"]
    /\ row.excluded = row.modes["assisted"] + row.modes["solution_used"]
    /\ row.confirmed = (row.eligible > 0 /\ row.independent = row.eligible)
    /\ name = "recent" => ~row.includesEarlier
    /\ IF row.estimateStatus = "estimated" THEN row.eligible >= MinSamples /\ row.estimates # <<>>
       ELSE row.estimates = <<>>
    /\ row.native.count + row.native.missing = row.solved

\* requireAbilityAggregate, requireAbilityHistory
AggregateAccepted(a) ==
    /\ \A i \in 1 .. 3 : PeriodAccepted(a.periods[i], <<"all_time", "recent", "earlier">>[i])
    /\ a.periods[1].solved = a.periods[2].solved + a.periods[3].solved
    /\ a.periods[1].eligible = a.periods[2].eligible + a.periods[3].eligible
    /\ {a.sampleSize, a.attempted, a.solved, a.native.count, a.native.missing, a.undescribed, a.future} \subseteq Nat

-----------------------------------------------------------------------------
(* Properties                                                              *)

EvidenceTypeOK ==
    /\ tried \subseteq TrySet /\ binned \subseteq Exercises /\ today \in 0 .. LastDay
    /\ recorded \in 0 .. MaxFacts
    /\ described \in [Exercises -> Descriptions \cup {Undescribed}]
    /\ judged \in [Exercises -> SUBSET Tagged]
    /\ \A p \in Exercises : \A i \in DOMAIN reviewed[p] :
         reviewed[p][i] \in [mode : Modes4 \ {"unknown"}, skills : SUBSET Tagged, at : Nat]

\* The validator, which counts on its own, never refuses what the report says of any
\* history on one source: whatever was imported, judged and reviewed there, the account can
\* still prepare a plan.
NeverUnpreparable == AggregateAccepted(Aggregate)

\* The knowledge and the ability report over one read differ by nothing but what lies
\* ahead of the clock, which only the second leaves out.
ReportsAgree ==
    LET ahead == \E p \in Exercises : \E i \in DOMAIN reviewed[p] : reviewed[p][i].at > today
        Independent == {p \in SolvedNow : ModeOf(p) = "independent"}
    IN  /\ Attempted \subseteq AttemptedIn(Exercises) /\ SolvedNow \subseteq SolvedIn(Exercises)
        /\ Read = Elapsed =>
             /\ Attempted = AttemptedIn(Exercises) /\ SolvedNow = SolvedIn(Exercises)
             /\ ~ahead =>
                  /\ Independent \cup Helped(SolvedNow) = ReviewedIn(Exercises)
                  /\ \A n \in Nodes : Completed(n, "independent", Exercises) \subseteq Independent

\* Each band is counted by the same rules as the whole, and the bands make up the whole:
\* a node's evidence of each kind is that of the bands together, and no two count the same.
BandsMakeTheWhole ==
    \A n \in Nodes :
        /\ Related(n, Exercises) = UNION {Related(n, K) : K \in Bands}
        /\ \A K, L \in Bands : K # L => Related(n, K) \cap Related(n, L) = {}
        /\ Completed(n, "independent", Exercises) = UNION {Completed(n, "independent", K) : K \in Bands}

\* A category sees a problem once, through whichever of the nodes below it, and through
\* nothing but them and itself; what it says of its techniques is what they say.
NodesReconcile ==
    LET all == Exercises
        TagsOf(p) ==
            (IF p \in AttemptedIn(all) THEN described[p].labels \cup judged[p] ELSE {})
            \cup (IF p \in ReviewedIn(all) THEN LatestReview(p).skills ELSE {})
    IN  \A n \in Nodes :
            /\ Related(n, all) = {p \in all : n \in TagsOf(p)}
                                 \cup UNION {Related(m, all) : m \in {l \in Nodes : ParentOf[l] = n}}
            /\ ProvenBelow(n, all) = {t \in TechniquesBelow(n) :
                    StatusOf(t, all) \in {"practicing", "independent_evidence"}}

\* The suggested ranges hold what they are drawn around, whatever the sample.
RangesHold ==
    LET e == Estimate
    IN  e.status = "estimated" =>
            /\ e.quartiles.min <= e.baseline /\ e.baseline <= e.quartiles.max
            /\ e.basePool.min <= e.basePool.max /\ e.stretchPool.min <= e.stretchPool.max
            /\ e.basePool.max <= e.stretchPool.max
            /\ e.size >= MinSamples

EvidenceAgrees ==
    NeverUnpreparable /\ ReportsAgree /\ BandsMakeTheWhole /\ NodesReconcile /\ RangesHold

\* While the clock does not go back a solve that is no longer new never becomes new
\* again, whatever is imported: not by solving it again, not by an older submission found.
OldSolvesStayOld ==
    [][\A p \in EarlierSolves : p \in binned' \/ p \in EarlierSolves']_evidenceVars

=============================================================================
