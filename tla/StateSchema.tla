----------------------------- MODULE StateSchema -----------------------------
(***************************************************************************)
(* Opening the state database (StateStore._initialize): several processes  *)
(* may open it at once, each reads the schema version, backs an older      *)
(* database up and migrates it.  Every statement of the migration commits  *)
(* on its own, so that others, and a process that starts after a crash,    *)
(* see it half done.  Waits for SQLite's locks are left out (busy_timeout).*)
(***************************************************************************)
EXTENDS Naturals, Sequences

CONSTANTS
    Procs,          \* the processes that open the database
    FirstDatabases, \* what the file may hold to begin with
    NoDatabase,     \* there is no file
    NoCopy,         \* there is no such backup, or no receipt of it
    Seconds         \* bound: the seconds in which backups are made

SCHEMA_VERSION == 3

\* Mutant of Migration: a version is set before what it stands for is created.
MigrationVersionFirst == << <<"create", "validation_runs">>, <<"version", 1>>,
                            <<"version", 2>>, <<"create", "contract_versions">>,
                            <<"look", "contract_id">>, <<"alter", "contract_id">>, <<"version", 3>> >>

\* The statements of the three migrations; one table stands for those of a script.
Migration == << <<"create", "validation_runs">>, <<"version", 1>>,
                <<"create", "contract_versions">>, <<"version", 2>>,
                <<"look", "contract_id">>, <<"alter", "contract_id">>, <<"version", 3>> >>

\* Mutant of StartOf: a database of version 2 is taken to have the column.
StartOfSkipping == [v \in 0 .. SCHEMA_VERSION |-> <<1, 3, 7, Len(Migration) + 1>>[v + 1]]

\* Where the migration of a database of version v begins.
StartOf == [v \in 0 .. SCHEMA_VERSION |-> <<1, 3, 5, Len(Migration) + 1>>[v + 1]]

\* What a database of version v has: the objects created before that version is set.
ObjectsOf ==
    [v \in 0 .. SCHEMA_VERSION |->
        {Migration[i][2] : i \in {j \in DOMAIN Migration :
                                     j < StartOf[v] /\ Migration[j][1] \in {"create", "alter"}}}]

\* The tables and columns that a file may have ...
Objects == ObjectsOf[SCHEMA_VERSION] \union UNION {d.objects : d \in FirstDatabases \ {NoDatabase}}

\* ... and what it holds: user_version and some of them.
Databases == [version : Nat, objects : SUBSET Objects]

ASSUME DatabasesAssumption ==
    /\ NoDatabase \notin Databases
    /\ \A d \in FirstDatabases \ {NoDatabase} :
           d \in Databases /\ (d.version <= SCHEMA_VERSION => ObjectsOf[d.version] \subseteq d.objects)

VARIABLES
    db,        \* the database: user_version and the objects it has
    first,     \* what it was to begin with
    backups,   \* per target, see BackupFiles: the copy and its receipt, each what it is of
    stage,     \* how far each process has come in _initialize
    existed,   \* whether it saw a file
    target,    \* the backup it writes: of the version it read, and the second
    at,        \* the next statement of the migration
    looked     \* whether it saw the column contract_id

\* state_schema_<version>_before_3_<second>.sqlite3
BackupFiles == [of : 0 .. SCHEMA_VERSION - 1, second : Seconds]

NoTarget == [of |-> 0, second |-> 0]

schema_vars == <<db, first, backups, stage, existed, target, at, looked>>

Goes(p, from, to) == stage[p] = from /\ stage' = [stage EXCEPT ![p] = to]

\* _initialize has returned.
IsOpen(p) == stage[p] = "migrate" /\ at[p] > Len(Migration)

-----------------------------------------------------------------------------
\* The existence of the file is looked up before it is opened, which creates it.
Connect(p) ==
    /\ Goes(p, "closed", "version")
    /\ existed' = [existed EXCEPT ![p] = db # NoDatabase]
    /\ db' = IF db = NoDatabase THEN [version |-> 0, objects |-> {}] ELSE db
    /\ UNCHANGED <<first, backups, target, at, looked>>

\* Mutant of NeedsBackup: a database without a version has nothing to lose.
NeedsBackupOnceVersioned(p) == existed[p] /\ db.version \in 1 .. SCHEMA_VERSION - 1

NeedsBackup(p) == existed[p] /\ db.version < SCHEMA_VERSION

\* A database of a later release is refused.
ReadVersion(p) ==
    /\ Goes(p, "version", IF db.version > SCHEMA_VERSION THEN "failed"
                          ELSE IF NeedsBackup(p) THEN "backup" ELSE "migrate")
    /\ at' = [at EXCEPT ![p] = IF db.version <= SCHEMA_VERSION THEN StartOf[db.version] ELSE 1]
    /\ target' = [target EXCEPT ![p].of = IF NeedsBackup(p) THEN db.version ELSE 0]
    /\ existed' = [existed EXCEPT ![p] = FALSE]
    /\ UNCHANGED <<db, first, backups, looked>>

\* _backup_before_migration.  SQLite copies the database as it is now, in one transaction,
\* over a backup of the same version and second.  (It would return for a file of no bytes, but
\* _connect has set journal_mode=WAL, which writes a first page.)
Backup(p) ==
    /\ Goes(p, "backup", "receipt")
    /\ \E second \in Seconds :
           /\ target' = [target EXCEPT ![p].second = second]
           /\ backups' = [backups EXCEPT ![[of |-> target[p].of, second |-> second]].copy = db]
    /\ UNCHANGED <<db, first, existed, at, looked>>

\* The receipt has the hash of the copy as it is by then.
Receipt(p) ==
    /\ Goes(p, "receipt", "migrate")
    /\ backups' = [backups EXCEPT ![target[p]].receipt = backups[target[p]].copy]
    /\ target' = [target EXCEPT ![p] = NoTarget]
    /\ UNCHANGED <<db, first, existed, at, looked>>

-----------------------------------------------------------------------------
(* One statement of the migration. *)

Execute(p, kind) ==
    /\ stage[p] = "migrate" /\ at[p] <= Len(Migration) /\ Migration[at[p]][1] = kind
    /\ at' = [at EXCEPT ![p] = @ + 1]
    /\ UNCHANGED <<first, backups, existed, target>>

Add(object) == db' = [db EXCEPT !.objects = @ \union {object}]

\* CREATE TABLE IF NOT EXISTS.
CreateObject(p) ==
    /\ Execute(p, "create") /\ Add(Migration[at[p]][2])
    /\ UNCHANGED <<stage, looked>>

SetVersion(p) ==
    /\ Execute(p, "version") /\ db' = [db EXCEPT !.version = Migration[at[p]][2]]
    /\ UNCHANGED <<stage, looked>>

\* Mutant of Look: the column is taken to be missing.
LookAway(p) == Execute(p, "look") /\ UNCHANGED <<db, stage, looked>>

Look(p) ==
    /\ Execute(p, "look") /\ looked' = [looked EXCEPT ![p] = "contract_id" \in db.objects]
    /\ UNCHANGED <<db, stage>>

\* Left out if the process saw the column; an error if another added it since.
AddColumn(p) ==
    /\ Execute(p, "alter") /\ looked' = [looked EXCEPT ![p] = FALSE]
    /\ \/ looked[p] /\ UNCHANGED <<db, stage>>
       \/ ~looked[p] /\ "contract_id" \notin db.objects /\ Add("contract_id") /\ UNCHANGED stage
       \/ ~looked[p] /\ "contract_id" \in db.objects /\ Goes(p, "migrate", "failed") /\ UNCHANGED db

-----------------------------------------------------------------------------
Open(p) ==
    \/ Connect(p) \/ ReadVersion(p) \/ Backup(p) \/ Receipt(p)
    \/ CreateObject(p) \/ SetVersion(p) \/ Look(p) \/ AddColumn(p)

\* The process ends before _initialize does, if it is in it; SQLite rolls a statement back.
Abandon(p) ==
    IF IsOpen(p) \/ stage[p] = "failed" THEN UNCHANGED schema_vars
    ELSE /\ stage' = [stage EXCEPT ![p] = "abandoned"]
         /\ existed' = [existed EXCEPT ![p] = FALSE] /\ looked' = [looked EXCEPT ![p] = FALSE]
         /\ target' = [target EXCEPT ![p] = NoTarget] /\ at' = [at EXCEPT ![p] = 1]
         /\ UNCHANGED <<db, first, backups>>

SchemaInit ==
    /\ db \in FirstDatabases /\ first = db
    /\ backups = [b \in BackupFiles |-> [copy |-> NoCopy, receipt |-> NoCopy]]
    /\ stage = [p \in Procs |-> "closed"]
    /\ existed = [p \in Procs |-> FALSE] /\ looked = [p \in Procs |-> FALSE]
    /\ at = [p \in Procs |-> 1] /\ target = [p \in Procs |-> NoTarget]

-----------------------------------------------------------------------------
\* Every variable holds what SQLite, the files and _initialize may have there.
SchemaTypeOK ==
    /\ {db, first} \subseteq Databases \union {NoDatabase}
    /\ backups \in [BackupFiles -> [copy : Databases \union {NoDatabase, NoCopy},
                                    receipt : Databases \union {NoDatabase, NoCopy}]]
    /\ stage \in [Procs -> {"closed", "version", "backup", "receipt", "migrate", "failed", "abandoned"}]
    /\ existed \in [Procs -> BOOLEAN] /\ looked \in [Procs -> BOOLEAN]
    /\ target \in [Procs -> [of : 0 .. SCHEMA_VERSION - 1, second : Seconds \union {0}]]
    /\ at \in [Procs -> 1 .. Len(Migration) + 1]

\* A process works on a database that has everything its queries name: whoever else was
\* migrating it, and even if one that read an older version has set the version back.
OpenHasSchema ==
    \A p \in Procs : IsOpen(p) =>
        db.version <= SCHEMA_VERSION /\ ObjectsOf[SCHEMA_VERSION] \subseteq db.objects

\* The version never promises more than the database has, so that a migration that was
\* cut off is taken up where it is needed.
VersionIsHonest ==
    db # NoDatabase /\ db.version <= SCHEMA_VERSION => ObjectsOf[db.version] \subseteq db.objects

\* "Existing databases are backed up [...] before migration": when an existing database
\* changes for the first time there is a copy of it, with a receipt.
BackupBeforeMigration ==
    [][first # NoDatabase /\ db = first /\ db' # first =>
           \E b \in DOMAIN backups : backups[b] = [copy |-> first, receipt |-> first]]_db
=============================================================================
