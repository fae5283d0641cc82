----------------------------- MODULE StoreOpening -----------------------------
(* The database file (adapters/sqlite/store.ts openSchema, backupTo, schema.ts):  *)
(* classify it, copy it, migrate it, configure it, back it up.  Several processes *)
(* may open one file at once, and each may die between any two steps.             *)
EXTENDS Naturals, FiniteSets

CONSTANTS
    Openers,         \* processes that open the file
    CurrentVersion,  \* STORE_SCHEMA_VERSION
    Silent,          \* versions that add no table (v9)
    MaxNames,        \* names a backup may take
    MaxWrites        \* bound: rows the application writes after opening

ASSUME OpeningAssumption ==
    /\ CurrentVersion \in Nat \ {0} /\ {MaxNames, MaxWrites} \subseteq Nat
    /\ Silent \subseteq 1 .. CurrentVersion - 1

VARIABLES
    file,    \* version, table groups (0 is the metadata table), marker, rows, journal mode
    origin,  \* the file as it was found
    lockHolder,  \* who holds the write lock, or {}
    saved,   \* backup name -> copy
    opener   \* per process: stage, the version it has read, the name of its backup

openingVars == <<file, origin, lockHolder, saved, opener>>

Alien == CurrentVersion + 2        \* a table of nobody's

\* STORE_TABLES_V1 .. V11: the table groups of a version.
TablesOf(v) == {0} \cup {j \in 1 .. v : j \notin Silent}

File(v, tables, marker) ==
    [version |-> v, tables |-> tables, marker |-> marker, rows |-> 0, wal |-> FALSE]

Empty == File(0, {}, FALSE)

\* Files of this store, and some that are not.
FilesFound ==
    {Empty, File(0, {0}, TRUE), File(0, {0}, FALSE), File(0, {Alien}, FALSE),
     File(CurrentVersion + 1, TablesOf(CurrentVersion) \cup {Alien}, TRUE)}
    \cup {File(v, TablesOf(v), marker) : v \in 1 .. CurrentVersion, marker \in BOOLEAN}
    \cup {File(v, TablesOf(v) \cup {Alien}, TRUE) : v \in 1 .. CurrentVersion}
    \cup {File(v, TablesOf(v) \ {v}, TRUE) : v \in (1 .. CurrentVersion) \ Silent}

Exact(f) == f.version \in 1 .. CurrentVersion /\ f.marker /\ f.tables = TablesOf(f.version)
LegacyV0(f) == f.version = 0 /\ f.tables = {0} /\ f.marker
Known(f) == Exact(f) \/ LegacyV0(f) \/ f = Empty

NotOpening == [stage |-> "start", seen |-> 0, name |-> 0]
At(p, stage) == opener[p].stage = stage
Moves(p, stage) == opener' = [opener EXCEPT ![p].stage = stage]
FailsToOpen(p) == Moves(p, "failed")

-----------------------------------------------------------------------------
(* detectSchemaState: the version is read before the tables                *)

ReadVersion(p) ==
    /\ At(p, "start")
    /\ opener' = [opener EXCEPT ![p].stage = "classify", ![p].seen = file.version]
    /\ UNCHANGED <<file, origin, lockHolder, saved>>

\* Defect: an extra table is taken for one of this build's.
LooksLikeAny(v) == file.marker /\ TablesOf(v) \subseteq file.tables

LooksLike(v) == file.marker /\ file.tables = TablesOf(v)

\* A version is its exact set of tables; version 0 is nothing, or the metadata table alone.
Recognised(v) ==
    \/ v \in 1 .. CurrentVersion /\ LooksLike(v)
    \/ v = 0 /\ file.tables = {}
    \/ v = 0 /\ file.tables = {0} /\ file.marker

\* Defect: only a file with data of this build is copied.
NeedsCopyFrom1(v) == v \in 1 .. CurrentVersion - 1

NeedsCopy(v) == v < CurrentVersion /\ file.tables # {}

Classify(p) ==
    LET v == opener[p].seen IN
    /\ At(p, "classify")
    /\ Moves(p, IF ~Recognised(v) THEN "failed"
               ELSE IF NeedsCopy(v) THEN "copy"
               ELSE IF v < CurrentVersion THEN "migrate" ELSE "configure")
    /\ UNCHANGED <<file, origin, lockHolder, saved>>

-----------------------------------------------------------------------------
(* The copy                                                                *)

NoCopy == [version |-> 0, whole |-> FALSE]
CopyOf(f, whole) == [version |-> f.version, whole |-> whole, tables |-> f.tables, rows |-> f.rows]

\* uniquePath: a name nobody has used, as far as this process can see, while there is one.
ChooseName(p) ==
    /\ At(p, "copy")
    /\ \/ \E n \in (1 .. MaxNames) \ DOMAIN saved :
            opener' = [opener EXCEPT ![p].stage = "vacuum", ![p].name = n]
       \/ DOMAIN saved = 1 .. MaxNames /\ FailsToOpen(p)
    /\ UNCHANGED <<file, origin, lockHolder, saved>>

\* Defect: the name is taken to be free still.
NeverTaken(p) == FALSE

\* VACUUM INTO writes to no existing file.
Taken(p) == opener[p].name \in DOMAIN saved

\* It may die or fail half-way, and a copy it calls complete may be broken.
Vacuum(p, from, good, bad) ==
    /\ At(p, from)
    /\ IF Taken(p)
       THEN Moves(p, bad) /\ UNCHANGED saved
       ELSE \E whole, done \in BOOLEAN :
              /\ whole => done
              /\ saved' = [n \in DOMAIN saved \cup {opener[p].name} |->
                             IF n = opener[p].name THEN CopyOf(file, whole) ELSE saved[n]]
              /\ Moves(p, IF done THEN good ELSE bad)
    /\ UNCHANGED <<file, origin, lockHolder>>

VacuumInto(p) == Vacuum(p, "vacuum", "verify", "failed")

\* Defect: the copy is believed.
AnyCopy(p, version) == TRUE

\* verifyBackup: whole, and of the version expected.
Verified(p, version) ==
    LET copy == saved[opener[p].name] IN copy.whole /\ copy.version = version

\* A whole copy may still not open, or not be read: it is left beside the file all the same.
VerifyBackup(p) ==
    /\ At(p, "verify")
    /\ \E readable \in BOOLEAN :
         Moves(p, IF readable /\ Verified(p, opener[p].seen) THEN "migrate" ELSE "failed")
    /\ UNCHANGED <<file, origin, lockHolder, saved>>

-----------------------------------------------------------------------------
(* backupTo: a copy on request, of an open store                           *)

BackupTo(p) ==
    /\ At(p, "open")
    /\ \E n \in (1 .. MaxNames) \ DOMAIN saved :
         opener' = [opener EXCEPT ![p].stage = "backup", ![p].name = n]
    /\ UNCHANGED <<file, origin, lockHolder, saved>>

BackupInto(p) == Vacuum(p, "backup", "prove", "open")

Without(name) == [n \in DOMAIN saved \ {name} |-> saved[n]]

\* removeUnverifiedBackup: what cannot be verified, a whole copy that cannot be read included,
\* is removed, unless that fails too.
ProveBackup(p) ==
    /\ At(p, "prove")
    /\ Moves(p, "open")
    /\ \E readable, removable \in BOOLEAN :
         saved' = IF (readable /\ Verified(p, CurrentVersion)) \/ ~removable THEN saved
                  ELSE Without(opener[p].name)
    /\ UNCHANGED <<file, origin, lockHolder>>

-----------------------------------------------------------------------------
(* migrateToSchemaV11: the version is read again, then one transaction     *)

ReadFrom(p) ==
    /\ At(p, "migrate")
    /\ opener' = [opener EXCEPT ![p].stage = "begin", ![p].seen = file.version]
    /\ UNCHANGED <<file, origin, lockHolder, saved>>

\* No busy timeout is set yet: a held lock is a failure.
BeginMigration(p) ==
    /\ At(p, "begin")
    /\ IF lockHolder = {} THEN lockHolder' = {p} /\ Moves(p, "ddl") ELSE FailsToOpen(p) /\ UNCHANGED lockHolder
    /\ UNCHANGED <<file, origin, saved>>

\* The groups created: those newer than the version read, the newest one always.
Added(p) ==
    LET old == IF opener[p].seen = 0 THEN {} ELSE TablesOf(opener[p].seen)
    IN  (TablesOf(CurrentVersion) \ old) \cup {CurrentVersion}

\* A table that exists already fails its CREATE, the metadata table excepted.
Collides(p) == (Added(p) \ {0}) \cap file.tables # {}

Migrated(p) ==
    [file EXCEPT !.version = CurrentVersion, !.tables = @ \cup Added(p),
                 !.marker = @ \/ opener[p].seen = 0]

\* COMMIT, or any failure: everything is rolled back and the lock released.
Commit(p) ==
    /\ At(p, "ddl") /\ ~Collides(p)
    /\ file' = Migrated(p) /\ lockHolder' = {}
    /\ Moves(p, "check")
    /\ UNCHANGED <<origin, saved>>

RollBack(p) ==
    /\ At(p, "ddl")
    /\ lockHolder' = {} /\ FailsToOpen(p)
    /\ UNCHANGED <<file, origin, saved>>

\* The layout is classified once more.
CheckCurrent(p) ==
    /\ At(p, "check")
    /\ Moves(p, IF file.version = CurrentVersion /\ LooksLike(CurrentVersion) THEN "configure" ELSE "failed")
    /\ UNCHANGED <<file, origin, lockHolder, saved>>

\* configureConnection may fail while another process holds the file.
Configure(p) ==
    /\ At(p, "configure")
    /\ \/ file' = [file EXCEPT !.wal = TRUE] /\ Moves(p, "open")
       \/ FailsToOpen(p) /\ UNCHANGED file
    /\ UNCHANGED <<origin, lockHolder, saved>>

\* The application at work.
WriteRow(p) ==
    /\ At(p, "open") /\ file.rows < MaxWrites
    /\ file' = [file EXCEPT !.rows = @ + 1]
    /\ UNCHANGED <<origin, lockHolder, saved, opener>>

\* The process ends, or dies with its transaction, and is started again.
Reopen(p) ==
    /\ ~At(p, "start")
    /\ opener' = [opener EXCEPT ![p] = NotOpening]
    /\ lockHolder' = lockHolder \ {p}
    /\ UNCHANGED <<file, origin, saved>>

OpeningInit ==
    /\ file \in FilesFound /\ origin = file
    /\ lockHolder = {} /\ saved = [n \in {} |-> NoCopy]
    /\ opener = [p \in Openers |-> NotOpening]

OpeningNext ==
    \E p \in Openers :
        \/ ReadVersion(p) \/ Classify(p)
        \/ ChooseName(p) \/ VacuumInto(p) \/ VerifyBackup(p)
        \/ BackupTo(p) \/ BackupInto(p) \/ ProveBackup(p)
        \/ ReadFrom(p) \/ BeginMigration(p) \/ Commit(p) \/ RollBack(p) \/ CheckCurrent(p)
        \/ Configure(p) \/ WriteRow(p) \/ Reopen(p)

OpeningSpec == OpeningInit /\ [][OpeningNext]_openingVars

-----------------------------------------------------------------------------
(* Properties                                                              *)

OpeningTypeOK ==
    /\ {file.version, origin.version} \subseteq 0 .. CurrentVersion + 1
    /\ lockHolder \subseteq Openers /\ Cardinality(lockHolder) <= 1
    /\ \A p \in Openers : opener[p].stage \in
         {"start", "classify", "copy", "vacuum", "verify", "migrate", "begin", "ddl", "check",
          "configure", "open", "backup", "prove", "failed"}

\* A file that held anything is migrated only after a whole copy of it, as it was found,
\* lies beside it, whichever process made the copy and whichever migrated.
OriginalSaved ==
    file.version # origin.version /\ origin.tables # {} =>
        \E n \in DOMAIN saved :
            saved[n] = CopyOf(origin, TRUE)

\* Until it has been migrated the file is as it was found, journal mode included; after
\* that it has exactly the tables of this build.  No crash, lost race or failure shows
\* anything in between.
FoundOrCurrent ==
    \/ file = origin
    \/ Known(origin) /\ file.version = CurrentVersion /\ Exact(file)

\* A database of a newer build, of another program, or with a table too few or too many,
\* is only read: not copied, not migrated, not configured.
StrangersUntouched == ~Known(origin) => file = origin /\ saved = [n \in {} |-> NoCopy]

\* A whole copy is never written over, and none is removed but by the process that has written
\* it on request, before anybody was told of it (backupTo, removeUnverifiedBackup).
CopiesKept ==
    [][\A n \in DOMAIN saved : saved[n].whole =>
         IF n \in DOMAIN saved' THEN saved'[n] = saved[n]
         ELSE \E p \in Openers : At(p, "prove") /\ opener[p].name = n]_openingVars

OpeningSafe == OriginalSaved /\ FoundOrCurrent /\ StrangersUntouched

=============================================================================
