----------------------------- MODULE MaterialHead -----------------------------
(***************************************************************************)
(* One stored problem and the head of its immutable snapshots              *)
(* (src/application/import-service.ts, src/domain/snapshot.ts).  Refreshes *)
(* and supplements read the head, leave for the platform or for the user,  *)
(* and commit in one transaction much later; manual imports and metadata   *)
(* fetches commit in between.                                              *)
(***************************************************************************)
EXTENDS Naturals, FiniteSets

CONSTANTS
    Writers,       \* refreshes, supplements and metadata fetches under way
    Metas,         \* title, ratings and tags, as one value
    Statements, NoStatement,
    SourceIds,     \* stable ids of editorial sources
    Texts,         \* what a found source and its solution say
    Unread, Checked,  \* a source not recorded; a check that found nothing
    MaxVersion     \* bound: the snapshots of a behaviour

ASSUME MaterialAssumption ==
    /\ NoStatement \notin Statements /\ Unread # Checked
    /\ Unread \notin Texts /\ Checked \notin Texts /\ MaxVersion \in Nat

VARIABLES
    problem,       \* the row: a set with at most one [meta, statement]
    snapshot,      \* the head: [version, problem, sources, solutions]; version 0 stands for no snapshot
    writer         \* writer -> [does, seen]

materialVars == <<problem, snapshot, writer>>

ProblemRows == [meta : Metas, statement : Statements \cup {NoStatement}]

NoMaterial == [i \in SourceIds |-> Unread]

RestingWriter == [does |-> "nothing", seen |-> [version |-> 0, problem |-> {}, sources |-> NoMaterial,
                                                solutions |-> {}]]

MaterialInit ==
    /\ problem = {} /\ snapshot = RestingWriter.seen
    /\ writer = [w \in Writers |-> RestingWriter]

\* What a material check answers: the sources found, each with its solution, or nothing found.
FoundAnswers == UNION {[ids -> Texts] : ids \in SUBSET SourceIds \ {{}}}

\* mergeProblemMetadata: a body without a statement keeps the stored one.
MergedRow(row) ==
    IF row.statement # NoStatement THEN row
    ELSE [row EXCEPT !.statement = IF problem = {} THEN @ ELSE (CHOOSE p \in problem : TRUE).statement]

Found(i) == snapshot.sources[i] \in Texts

\* Defect: a found source that the answer does not name goes like its placeholder.
GoesWithCheck(i, check) == i = check

Superseded(i, check) == i = check /\ ~Found(i)

\* Defect: a solution stays although its source was replaced.
StaysAnyway(s, found, check) == ~Superseded(s.source, check)

\* Solutions follow their source.
Stays(s, found, check) == s.source \notin DOMAIN found /\ ~Superseded(s.source, check)

\* mergeEditorialMaterial, for a found answer.
WithFound(found, check) ==
    [sources |-> [i \in SourceIds |->
        IF i \in DOMAIN found THEN found[i] ELSE IF Superseded(i, check) THEN Unread ELSE snapshot.sources[i]],
     solutions |->
        {s \in snapshot.solutions : Stays(s, found, check)}
        \cup {[source |-> i, text |-> found[i]] : i \in DOMAIN found}]

\* The same for a check that found nothing: good material stays, else a placeholder says so.
WithNothing(check) ==
    IF Found(check) THEN [sources |-> snapshot.sources, solutions |-> snapshot.solutions]
    ELSE [sources |-> [snapshot.sources EXCEPT ![check] = Checked],
          solutions |-> {s \in snapshot.solutions : s.source # check}]

AsStored == [sources |-> snapshot.sources, solutions |-> snapshot.solutions]

Materials ==
    {AsStored} \cup {WithNothing(check) : check \in SourceIds}
    \cup {WithFound(found, check) : found \in FoundAnswers, check \in SourceIds}

\* upsertProblems and persistSnapshot: the head moves only when the content changed.
Persist(row, material) ==
    /\ problem' = {row}
    /\ LET content == [problem |-> {row}, sources |-> material.sources,
                       solutions |-> material.solutions, version |-> snapshot.version]
       IN snapshot' = IF content = snapshot THEN snapshot ELSE [content EXCEPT !.version = @ + 1]
    /\ snapshot'.version <= MaxVersion

\* applyManual: one document, merged and stored in one transaction.
ManualImport ==
    /\ \E row \in ProblemRows, material \in Materials : Persist(MergedRow(row), material)
    /\ UNCHANGED writer

\* Everything before the first await that leaves the service; a supplement's caller read
\* the head even earlier.
Start(w, does) ==
    /\ writer[w].does = "nothing"
    /\ writer' = [writer EXCEPT ![w] = [does |-> does, seen |-> snapshot]]
    /\ UNCHANGED <<problem, snapshot>>

Rests(w) == writer' = [writer EXCEPT ![w] = RestingWriter]

\* Defect: the same content is the same head, whatever came in between.
SameContent(seen) == [seen EXCEPT !.version = 0] = [snapshot EXCEPT !.version = 0]

\* sameHead.
SameHead(seen) == seen = snapshot

\* refreshMaterial: the statement and the material were fetched independently; either may
\* have failed.
CommitRefresh(w) ==
    /\ writer[w].does = "refresh" /\ SameHead(writer[w].seen)
    /\ \E row \in {MergedRow(r) : r \in ProblemRows} \cup problem, material \in Materials :
          Persist(row, material)
    /\ Rests(w)

\* commitSupplement: the stored metadata with the supplied statement; a problem not stored
\* is created from its seed and needs one.
CommitSupplement(w) ==
    /\ writer[w].does = "supplement" /\ SameHead(writer[w].seen)
    /\ \E row \in ProblemRows, material \in Materials :
          /\ IF problem = {} THEN row.statement # NoStatement /\ material = AsStored
             ELSE \E p \in problem : row.meta = p.meta
                                     /\ (row.statement = NoStatement => row = p)
          /\ Persist(row, material)
    /\ Rests(w)

\* refreshProblemMetadata, and each row of a catalog page (writeProblems): merged into
\* whatever is stored by then; the material is carried over.
CommitMetadata(w) ==
    /\ writer[w].does = "metadata"
    /\ \E row \in ProblemRows : Persist(MergedRow(row), AsStored)
    /\ Rests(w)

\* Failed, cancelled, or refused because the head moved.
LeaveMaterial(w) ==
    /\ writer[w].does # "nothing"
    /\ Rests(w)
    /\ UNCHANGED <<problem, snapshot>>

MaterialNext ==
    \/ ManualImport
    \/ \E w \in Writers :
          \/ \E does \in {"refresh", "supplement", "metadata"} : Start(w, does)
          \/ CommitRefresh(w)
          \/ CommitSupplement(w)
          \/ CommitMetadata(w)
          \/ LeaveMaterial(w)

MaterialSpec == MaterialInit /\ [][MaterialNext]_materialVars

-----------------------------------------------------------------------------

Heads == [version : 0 .. MaxVersion, problem : SUBSET ProblemRows,
          sources : [SourceIds -> Texts \cup {Unread, Checked}],
          solutions : SUBSET [source : SourceIds, text : Texts]]

MaterialTypeOK ==
    /\ problem \subseteq ProblemRows /\ Cardinality(problem) <= 1
    /\ snapshot \in Heads
    /\ writer \in [Writers -> [does : {"nothing", "refresh", "supplement", "metadata"}, seen : Heads]]

\* The row and the head of its snapshots say the same after every interleaving of writers,
\* and no snapshot holds a solution of a source that is gone or says something else
\* (writeProblems, mergeEditorialMaterial, persistSnapshot).
RowAndHeadAgree ==
    /\ snapshot.problem = problem
    /\ \A s \in snapshot.solutions : snapshot.sources[s.source] = s.text

\* Material or a statement fetched against an older head is never stored over a newer one,
\* a stored statement is never erased, found material is never lost to a check that found
\* nothing, and a content that returns is a new version (refreshMaterial, commitSupplement).
NothingNewerOverwritten ==
    [][/\ \A w \in Writers :
             writer[w].does \in {"refresh", "supplement"} /\ writer[w].seen.version # snapshot.version
                /\ writer'[w].does = "nothing" => snapshot' = snapshot
       /\ \A p \in problem : p.statement # NoStatement => \A q \in problem' : q.statement # NoStatement
       /\ \A i \in SourceIds : Found(i) => Found(i)'
       /\ snapshot' # snapshot => snapshot'.version = snapshot.version + 1]_materialVars

\* The stored problem, its head and the material of its snapshots stay in step, and
\* nothing fetched against an older head replaces something newer.
MaterialKept == [](RowAndHeadAgree) /\ NothingNewerOverwritten

=============================================================================
