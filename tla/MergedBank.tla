------------------------------ MODULE MergedBank ------------------------------
(* The merged problem bank: one row for a problem that two sites hold, over the  *)
(* stored problems, submissions and dispositions (adapters/sqlite/               *)
(* merged-bank.ts, store.ts browseMergedProblems), and the checks the service    *)
(* makes of every page the store answers (application/merged-bank-service.ts).   *)
EXTENDS Naturals, FiniteSets

CONSTANTS
    Mirrored,    \* problems with a Codeforces and a Luogu spelling of one identifier
    Native,      \* Luogu problems without one
    BankLimit,   \* size of a page
    Disposals,   \* bound: the states a user moves problems to
    MaxRated,    \* bound: ratings are 1 .. MaxRated, 0 is none
    MaxSynced    \* bound: submissions stored by this build

ASSUME MergedBankAssumption ==
    /\ Mirrored \cup Native \subseteq Nat /\ Mirrored \cap Native = {}
    /\ Disposals \subseteq {"active", "skipped", "trashed"}
    /\ BankLimit \in Nat \ {0} /\ {MaxRated, MaxSynced} \subseteq Nat

VARIABLES
    rows,         \* problem key -> its rating, for the keys that have a row
    submitted,    \* stored submissions
    disposition   \* problem key -> active, skipped or trashed

mergedVars == <<rows, submitted, disposition>>

\* One account per site is all a read may select, so an account is known by its site.
BankSites == {"codeforces", "luogu"}
BankKeys == (BankSites \X Mirrored) \cup ({"luogu"} \X Native)

Submissions == [account : BankSites, key : BankKeys, accepted : BOOLEAN]

\* What an older build stored: a key of the other site.
Legacy == {s \in Submissions : s.account # s.key[1] /\ s.accepted}

MergedInit ==
    /\ rows = [k \in {} |-> 0]
    /\ submitted \in {{}} \cup {{s} : s \in Legacy}
    /\ disposition = [k \in BankKeys |-> "active"]

StoreProblem(k, rating) ==
    /\ rows' = [l \in DOMAIN rows \cup {k} |-> IF l = k THEN rating ELSE rows[l]]
    /\ UNCHANGED <<submitted, disposition>>

StoreSubmission(s) ==
    /\ s.account = s.key[1] /\ Cardinality(submitted \ Legacy) < MaxSynced
    /\ submitted' = submitted \cup {s}
    /\ UNCHANGED <<rows, disposition>>

\* canApplyDispositionAction; a key that has no disposition must be locally known, if only
\* to a Luogu backlog.
MayBecome(k, state) ==
    /\ CASE state = "skipped" -> disposition[k] = "active"
         [] state = "trashed" -> disposition[k] # "trashed"
         [] OTHER -> disposition[k] # "active"
    /\ \/ disposition[k] # "active" \/ k \in DOMAIN rows \/ k[1] = "luogu"
       \/ \E s \in submitted : s.key = k

\* A batch is of one site, and is applied as a whole or refused.
Dispose(keys, state) ==
    /\ \A k \in keys : MayBecome(k, state)
    /\ disposition' = [k \in BankKeys |-> IF k \in keys THEN state ELSE disposition[k]]
    /\ UNCHANGED <<rows, submitted>>

MergedNext ==
    \/ \E k \in BankKeys, rating \in 0 .. MaxRated : StoreProblem(k, rating)
    \/ \E s \in Submissions : StoreSubmission(s)
    \/ \E keys \in SUBSET BankKeys \ {{}}, state \in Disposals :
         Cardinality({k[1] : k \in keys}) = 1 /\ Dispose(keys, state)

MergedSpec == MergedInit /\ [][MergedNext]_mergedVars

-----------------------------------------------------------------------------
(* What the store reads for [selected, source, status, attempted, sort]     *)

InView(k) == disposition[k] # "trashed"

\* problemGroupingOf: the mirror identity, or the key itself.
GroupOf(k) == IF k[2] \in Mirrored THEN <<"merged", k[2]>> ELSE k

\* mergedGroupMemberKeys
SpellingsOf(g) == IF g[1] = "merged" THEN BankSites \X {g[2]} ELSE {g}

\* member_rows, and the members of a group by primary key.
BankRows == {k \in DOMAIN rows : InView(k)}
MembersOf(g) == SpellingsOf(g) \cap BankRows

\* Defect: a verdict on a trashed problem still counts.
ScopedEvenTrashed(selected) ==
    {s \in submitted : s.account \in selected /\ s.key[1] = s.account}

\* scoped: coherent submissions of the selected accounts on problems in view.
Scoped(selected) ==
    {s \in submitted : s.account \in selected /\ s.key[1] = s.account /\ InView(s.key)}

\* accepted_evidence: one per account and problem.
EvidenceFor(g, selected) ==
    {s \in Scoped(selected) : s.accepted /\ GroupOf(s.key) = g}

\* Lexical order of keys and group keys: codeforces:, luogu:, merged:.
Lexical(k) ==
    CASE k[1] = "codeforces" -> <<0, k[2]>> [] k[1] = "luogu" -> <<1, k[2]>> [] OTHER -> <<2, k[2]>>
Less(a, b) == a[1] < b[1] \/ (a[1] = b[1] /\ a[2] < b[2])
FirstOf(keys) == CHOOSE k \in keys : \A l \in keys \ {k} : Less(Lexical(k), Lexical(l))

\* Natural order of external keys: 1A before B2001 before CF1A.
Natural(k) ==
    IF k[1] = "codeforces" THEN <<0, k[2]>> ELSE IF k[2] \in Native THEN <<1, k[2]>> ELSE <<2, k[2]>>

\* Defect: each direction orders by the member that comes first in it.
DisplayOfDirection(g, request) ==
    CHOOSE k \in MembersOf(g) : \A l \in MembersOf(g) \ {k} :
        IF request.sort = "problem_desc" THEN Less(Natural(l), Natural(k))
        ELSE Less(Natural(k), Natural(l))

\* The one member a group is ordered by, in both directions.
DisplayMember(g, request) ==
    LET own == {k \in MembersOf(g) : k[1] = request.source}
    IN  FirstOf(IF own # {} THEN own ELSE MembersOf(g))

\* The difficulty of a group is that of the requested source's member; 0 is none.
DifficultyOf(g, request) ==
    LET own == {k \in MembersOf(g) : k[1] = request.source}
    IN  IF own = {} THEN 0 ELSE rows[FirstOf(own)]

SortKey(g, request) ==
    CASE request.sort = "default" -> Lexical(FirstOf(MembersOf(g)))
      [] request.sort \in {"problem_asc", "problem_desc"} -> Natural(DisplayMember(g, request))
      [] OTHER -> <<DifficultyOf(g, request), 0>>

\* A group without a difficulty comes last both ways; the group key breaks a tie.
ComesBefore(g, h, request) ==
    LET a == SortKey(g, request)
        b == SortKey(h, request)
        rated == request.sort \in {"difficulty_asc", "difficulty_desc"}
    IN  IF rated /\ (a[1] = 0) # (b[1] = 0) THEN b[1] = 0
        ELSE IF a = b THEN Less(Lexical(g), Lexical(h))
        ELSE IF request.sort \in {"problem_desc", "difficulty_desc"} THEN Less(b, a) ELSE Less(a, b)

Filtered(request) ==
    {g \in {GroupOf(k) : k \in BankRows} :
        /\ request.source \in BankSites => \E k \in MembersOf(g) : k[1] = request.source
        /\ request.status = "solved" => EvidenceFor(g, request.selected) # {}
        /\ request.status = "unconfirmed" => EvidenceFor(g, request.selected) = {}
        /\ request.attempted => \E s \in Scoped(request.selected) : GroupOf(s.key) = g}

PlaceOf(g, request) ==
    Cardinality({h \in Filtered(request) : h = g \/ ComesBefore(h, g, request)})

\* A page past the last one is the last one.
TotalPages(request) == (Cardinality(Filtered(request)) + BankLimit - 1) \div BankLimit
PageShown(request, page) ==
    LET total == TotalPages(request) IN IF total = 0 THEN 1 ELSE IF page < total THEN page ELSE total

PageGroups(request, page) ==
    {g \in Filtered(request) :
        (PlaceOf(g, request) + BankLimit - 1) \div BankLimit = PageShown(request, page)}

\* Defect: a solve on the other site is taken for the member's own.
SolvedThroughLink(k, selected) == EvidenceFor(GroupOf(k), selected) # {}

\* solvedByAccount: the account of the member's own site solved this very problem.
SolvedByAccount(k, selected) ==
    k[1] \in selected /\ \E s \in EvidenceFor(GroupOf(k), selected) : s.account = k[1] /\ s.key = k

-----------------------------------------------------------------------------
(* What the service checks before it shows a row                            *)

\* getSubmission does not return what belongs to a trashed problem.
ReadBack(s) == s \in submitted /\ InView(s.key)

Trusted(g, selected) ==
    LET evidence == EvidenceFor(g, selected) IN
    /\ MembersOf(g) # {}
    /\ Cardinality(MembersOf(g)) <= IF g[1] = "merged" THEN 2 ELSE 1
    /\ \A s \in evidence :
         /\ s.account \in selected /\ ReadBack(s) /\ s.accepted
         /\ s.account = s.key[1] /\ GroupOf(s.key) = g
    /\ \A k \in MembersOf(g) :
         /\ GroupOf(k) = g
         /\ SolvedByAccount(k, selected) => \E s \in evidence : s.account = k[1] /\ s.key = k

-----------------------------------------------------------------------------
(* Properties                                                              *)

MergedTypeOK ==
    /\ DOMAIN rows \subseteq BankKeys /\ \A k \in DOMAIN rows : rows[k] \in 0 .. MaxRated
    /\ submitted \subseteq Submissions
    /\ disposition \in [BankKeys -> {"active", "skipped", "trashed"}]

Selections == SUBSET BankSites
Query(selected, source, status, attempted, sort) ==
    [selected |-> selected, source |-> source, status |-> status, attempted |-> attempted, sort |-> sort]

\* A page is never refused by the service's own checks, whatever was stored, trashed or
\* restored: the two sides agree on what a trashed problem hides.
NeverRefused ==
    \A selected \in Selections : \A k \in BankRows : Trusted(GroupOf(k), selected)

\* Solved and unconfirmed split the bank by whether a selected account has an accepted
\* submission of its own, in view, for any spelling of the problem, stored or not.
SolvedAsSubmitted ==
    \A selected \in Selections \ {{}}, source \in BankSites \cup {"any"} :
        LET With(status) == Filtered(Query(selected, source, status, FALSE, "default"))
            Solves(s, k) ==
                /\ s.accepted /\ s.account \in selected /\ s.account = s.key[1] /\ InView(s.key)
                /\ s.key = k \/ (s.key[2] \in Mirrored /\ s.key[2] = k[2])
        IN  /\ With("all") = With("solved") \cup With("unconfirmed")
            /\ With("solved") \cap With("unconfirmed") = {}
            /\ \A g \in With("all") :
                 g \in With("solved") <=> \E k \in MembersOf(g) : \E s \in submitted : Solves(s, k)

\* Tags of a problem are shown, short of an explicit request, to nobody who has not
\* solved it on that very site.
NoSpoiler ==
    \A selected \in Selections : \A k \in BankRows :
        SolvedByAccount(k, selected) =>
            \E s \in submitted : s.accepted /\ s.account \in selected /\ s.key = k /\ s.account = k[1]

\* The pages of a request hold every group once, in one order, and turning the order
\* round keeps each group where its display member belongs.
PagesPartition ==
    \A source \in BankSites \cup {"any"}, attempted \in BOOLEAN :
        LET selected == IF attempted THEN BankSites ELSE {}
            By(sort) == Query(selected, source, "all", attempted, sort)
            up == By("problem_asc")
            down == By("problem_desc")
            sorts == {"default", "problem_asc"} \cup IF source = "any" THEN {} ELSE {"difficulty_desc"}
        IN  /\ \A sort \in sorts :
                 /\ \A g \in Filtered(By(sort)) :
                      \E page \in 1 .. TotalPages(By(sort)) : g \in PageGroups(By(sort), page)
                 /\ \A page \in 1 .. TotalPages(By(sort)) :
                      Cardinality(PageGroups(By(sort), page)) \in 1 .. BankLimit
            /\ \A g \in Filtered(up) :
                 PlaceOf(g, up) + PlaceOf(g, down) = Cardinality(Filtered(up)) + 1

BankAgrees == NeverRefused /\ SolvedAsSubmitted /\ NoSpoiler /\ PagesPartition

=============================================================================
