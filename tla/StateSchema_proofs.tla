------------------------- MODULE StateSchema_proofs -------------------------
(***************************************************************************)
(* What opening the state database preserves, for any processes, any first *)
(* database and any number of kills: the lemmas that the theorems about    *)
(* ServeCommand rest on.                                                   *)
(***************************************************************************)
EXTENDS StateSchema, TLAPS

\* One step of a process that opens the database, or that ends.
SchemaStep == \E p \in Procs : Open(p) \/ Abandon(p)

\* What the statements before the i-th create.
Before(i) ==
    {Migration[j][2] : j \in {k \in DOMAIN Migration :
                                 k < i /\ Migration[k][1] \in {"create", "alter"}}}

\* Who is past reading the version.
Migrating == {"backup", "receipt", "migrate"}

-----------------------------------------------------------------------------
(* The inductive invariant. *)

\* Whoever is past reading the version has a database that is not of a later release and
\* that has all that the statements before its next one create.
MigrationOK ==
    /\ db = NoDatabase => \A p \in Procs : stage[p] \in {"closed", "abandoned"}
    /\ \A p \in Procs : stage[p] \in Migrating =>
           db.version <= SCHEMA_VERSION /\ Before(at[p]) \subseteq db.objects
    /\ \A p \in Procs : looked[p] => db # NoDatabase /\ "contract_id" \in db.objects

\* The database only goes up from what it was to begin with.
GrowthOK ==
    first # NoDatabase =>
        /\ db # NoDatabase
        /\ first.version <= db.version /\ first.objects \subseteq db.objects
        /\ \A p \in Procs : stage[p] \in Migrating =>
               first.version <= SCHEMA_VERSION /\ StartOf[first.version] <= at[p]

\* While it is as it was, whoever may change it is behind a backup of it.
BackupOK ==
    first # NoDatabase /\ db = first =>
        \A p \in Procs :
            /\ stage[p] = "version" => existed[p]
            /\ stage[p] \in {"backup", "receipt"} => target[p].of < SCHEMA_VERSION
            /\ stage[p] = "receipt" => target[p] \in BackupFiles /\ backups[target[p]].copy = first
            /\ stage[p] = "migrate" /\ at[p] <= Len(Migration) =>
                   \E b \in BackupFiles : backups[b] = [copy |-> first, receipt |-> first]

SchemaInv == SchemaTypeOK /\ VersionIsHonest /\ MigrationOK /\ GrowthOK /\ BackupOK

-----------------------------------------------------------------------------
(* The statements of the migration. *)

LEMMA Statements ==
    /\ Len(Migration) = 7 /\ DOMAIN Migration = 1..7
    /\ Migration[1][1] = "create" /\ Migration[1][2] = "validation_runs"
    /\ Migration[2][1] = "version" /\ Migration[2][2] = 1
    /\ Migration[3][1] = "create" /\ Migration[3][2] = "contract_versions"
    /\ Migration[4][1] = "version" /\ Migration[4][2] = 2
    /\ Migration[5][1] = "look"
    /\ Migration[6][1] = "alter" /\ Migration[6][2] = "contract_id"
    /\ Migration[7][1] = "version" /\ Migration[7][2] = 3
  BY DEF Migration

LEMMA Starts ==
    /\ StartOf \in [0 .. SCHEMA_VERSION -> 1 .. Len(Migration) + 1]
    /\ StartOf[0] = 1 /\ StartOf[1] = 3 /\ StartOf[2] = 5 /\ StartOf[3] = 8
  BY Statements DEF StartOf, SCHEMA_VERSION

\* A version statement sets the version that begins behind it.
LEMMA VersionStatements ==
  ASSUME NEW i \in DOMAIN Migration, Migration[i][1] = "version"
  PROVE  /\ Migration[i][2] \in 1 .. SCHEMA_VERSION
         /\ StartOf[Migration[i][2]] = i + 1
         /\ \A v \in 0 .. SCHEMA_VERSION : StartOf[v] <= i => v < Migration[i][2]
  <1>1. i \in 1..7 /\ i \in {2, 4, 7}
    BY Statements
  <1>2. \A v \in 0 .. 3 : v = 0 \/ v = 1 \/ v = 2 \/ v = 3
    OBVIOUS
  <1>3. CASE i = 2
    BY <1>2, <1>3, Statements, Starts DEF SCHEMA_VERSION
  <1>4. CASE i = 4
    BY <1>2, <1>4, Statements, Starts DEF SCHEMA_VERSION
  <1>5. CASE i = 7
    BY <1>2, <1>5, Statements, Starts DEF SCHEMA_VERSION
  <1> QED BY <1>1, <1>3, <1>4, <1>5

LEMMA LaterStarts ==
  ASSUME NEW v \in 0 .. SCHEMA_VERSION, NEW w \in 0 .. SCHEMA_VERSION, v <= w
  PROVE  StartOf[v] <= StartOf[w] /\ (StartOf[w] <= Len(Migration) => w < SCHEMA_VERSION)
  <1>1. \A u \in 0 .. 3 : u = 0 \/ u = 1 \/ u = 2 \/ u = 3
    OBVIOUS
  <1> QED BY <1>1, Starts, Statements DEF SCHEMA_VERSION

LEMMA ObjectsOfVersions == \A v \in 0 .. SCHEMA_VERSION : ObjectsOf[v] = Before(StartOf[v])
  BY DEF ObjectsOf, Before

LEMMA BeforeNext ==
  ASSUME NEW i \in DOMAIN Migration
  PROVE  /\ Migration[i][1] \in {"create", "alter"} =>
                Before(i + 1) = Before(i) \union {Migration[i][2]}
         /\ Migration[i][1] \notin {"create", "alter"} => Before(i + 1) = Before(i)
  <1>1. DOMAIN Migration \subseteq Nat
    BY Statements
  <1>2. \A k \in DOMAIN Migration : k < i + 1 <=> k < i \/ k = i
    BY <1>1
  <1> QED BY <1>2 DEF Before

\* What the statements for objects create.
LEMMA ObjectStatements ==
  ASSUME NEW i \in DOMAIN Migration
  PROVE  /\ Migration[i][1] \in {"create", "alter"} => Migration[i][2] \in Objects
         /\ Migration[i][1] = "alter" => Migration[i][2] = "contract_id"
  <1>1. i \in 1..7 /\ i < 8
    BY Statements
  <1>2. Migration[i][1] \in {"create", "alter"} => Migration[i][2] \in Before(8)
    BY <1>1 DEF Before
  <1>3. Before(8) \subseteq Objects
    BY ObjectsOfVersions, Starts DEF Objects, SCHEMA_VERSION
  <1>4. ASSUME Migration[i][1] = "alter" PROVE Migration[i][2] = "contract_id"
    <2>1. i = 6
      BY <1>1, <1>4, Statements
    <2> QED BY <2>1, Statements
  <1> QED BY <1>2, <1>3, <1>4

\* What adding an object does to a database.
LEMMA Adds ==
  ASSUME NEW object \in Objects, db \in Databases, Add(object)
  PROVE  /\ db' \in Databases
         /\ db'.version = db.version /\ db'.objects = db.objects \union {object}
  BY DEF Add, Databases

\* What setting the version does.
LEMMA Sets ==
  ASSUME NEW v \in Nat, db \in Databases, db' = [db EXCEPT !.version = v]
  PROVE  db' \in Databases /\ db'.version = v /\ db'.objects = db.objects
  BY DEF Databases

-----------------------------------------------------------------------------
(* Each step preserves the invariant. *)

\* A process that is past reading the version has a database; so have all once it was there.
LEMMA HasDatabase ==
  ASSUME SchemaInv, NEW p \in Procs, stage[p] \notin {"closed", "abandoned"}
  PROVE  db \in Databases /\ db # NoDatabase
  BY DatabasesAssumption DEF SchemaInv, SchemaTypeOK, MigrationOK

LEMMA ConnectPreserves == ASSUME SchemaInv, NEW p \in Procs, Connect(p) PROVE SchemaInv'
  <1> USE DEF SchemaInv, Connect, Goes
  <1>1. db' \in Databases /\ (db # NoDatabase => db' = db)
    BY DEF SchemaTypeOK, Databases
  <1>2. SchemaTypeOK'
    BY <1>1 DEF SchemaTypeOK
  <1>3. VersionIsHonest'
    BY <1>1, ObjectsOfVersions, Starts DEF VersionIsHonest, SCHEMA_VERSION, Before
  <1>4. MigrationOK'
    BY <1>1, DatabasesAssumption DEF MigrationOK, Migrating, SchemaTypeOK
  <1>5. GrowthOK'
    BY <1>1, DatabasesAssumption DEF GrowthOK, Migrating, SchemaTypeOK
  <1>6. BackupOK'
    BY <1>1, DatabasesAssumption DEF GrowthOK, BackupOK, SchemaTypeOK
  <1> QED BY <1>2, <1>3, <1>4, <1>5, <1>6

LEMMA ReadVersionPreserves == ASSUME SchemaInv, NEW p \in Procs, ReadVersion(p) PROVE SchemaInv'
  <1> USE HasDatabase DEF SchemaInv, ReadVersion, Goes
  <1>1. db \in Databases /\ db # NoDatabase /\ db.version \in Nat
    BY DEF Databases
  <1>2. SchemaTypeOK'
    <2>1. at' \in [Procs -> 1 .. Len(Migration) + 1]
      <3> DEFINE next == IF db.version <= SCHEMA_VERSION THEN StartOf[db.version] ELSE 1
      <3>1. next \in 1 .. Len(Migration) + 1
        BY <1>1, Starts, Statements DEF SCHEMA_VERSION
      <3>2. at' = [at EXCEPT ![p] = next]
        OBVIOUS
      <3> HIDE DEF next
      <3> QED BY <3>1, <3>2 DEF SchemaTypeOK
    <2>2. target' \in [Procs -> [of : 0 .. SCHEMA_VERSION - 1, second : Seconds \union {0}]]
      <3> DEFINE version == IF NeedsBackup(p) THEN db.version ELSE 0
      <3>1. version \in 0 .. SCHEMA_VERSION - 1
        BY <1>1 DEF NeedsBackup, SCHEMA_VERSION
      <3>2. target' = [target EXCEPT ![p].of = version]
        OBVIOUS
      <3> HIDE DEF version
      <3> QED BY <3>1, <3>2 DEF SchemaTypeOK
    <2> QED BY <2>1, <2>2 DEF SchemaTypeOK
  <1>3. VersionIsHonest'
    BY DEF VersionIsHonest
  <1>4. MigrationOK'
    BY <1>1, ObjectsOfVersions DEF MigrationOK, Migrating, VersionIsHonest, SchemaTypeOK, SCHEMA_VERSION
  <1>5. GrowthOK'
    <2>1. first # NoDatabase => first.version \in Nat
      BY DEF SchemaTypeOK, Databases
    <2>2. first # NoDatabase /\ db.version <= SCHEMA_VERSION =>
              first.version <= SCHEMA_VERSION /\ StartOf[first.version] <= StartOf[db.version]
      BY <1>1, <2>1, LaterStarts DEF GrowthOK, SCHEMA_VERSION
    <2>3. stage'[p] \in Migrating => db.version <= SCHEMA_VERSION
      BY <1>1 DEF Migrating, SchemaTypeOK, SCHEMA_VERSION
    <2>4. db.version <= SCHEMA_VERSION => at'[p] = StartOf[db.version]
      BY DEF SchemaTypeOK
    <2>5. \A q \in Procs \ {p} : stage'[q] = stage[q] /\ at'[q] = at[q]
      BY DEF SchemaTypeOK
    <2> QED BY <2>2, <2>3, <2>4, <2>5 DEF GrowthOK
  <1>6. BackupOK'
    BY <1>1, Starts, Statements DEF BackupOK, SchemaTypeOK, NeedsBackup, SCHEMA_VERSION
  <1> QED BY <1>2, <1>3, <1>4, <1>5, <1>6

LEMMA BackupPreserves == ASSUME SchemaInv, NEW p \in Procs, Backup(p) PROVE SchemaInv'
  <1> USE HasDatabase DEF SchemaInv, Backup, Goes
  <1>1. PICK second \in Seconds :
            /\ target' = [target EXCEPT ![p].second = second]
            /\ backups' = [backups EXCEPT ![[of |-> target[p].of, second |-> second]].copy = db]
    OBVIOUS
  <1> DEFINE file == [of |-> target[p].of, second |-> second]
  <1>2. target[p].of \in 0 .. SCHEMA_VERSION - 1 /\ file \in BackupFiles /\ target'[p] = file
    BY <1>1 DEF SchemaTypeOK, BackupFiles
  <1>3. /\ backups'[file].copy = db
        /\ \A b \in BackupFiles : backups'[b].receipt = backups[b].receipt
                                  /\ backups'[b].copy \in {db, backups[b].copy}
    BY <1>1, <1>2 DEF SchemaTypeOK
  <1>4. SchemaTypeOK'
    <2>1. backups' \in [BackupFiles -> [copy : Databases \union {NoDatabase, NoCopy},
                                        receipt : Databases \union {NoDatabase, NoCopy}]]
      BY <1>1, <1>2 DEF SchemaTypeOK
    <2>2. target' \in [Procs -> [of : 0 .. SCHEMA_VERSION - 1, second : Seconds \union {0}]]
      BY <1>1 DEF SchemaTypeOK
    <2> QED BY <2>1, <2>2 DEF SchemaTypeOK
  <1>5. VersionIsHonest'
    BY DEF VersionIsHonest
  <1>6. MigrationOK' /\ GrowthOK'
    BY DEF MigrationOK, GrowthOK, Migrating, SchemaTypeOK
  <1>7. BackupOK'
    BY <1>1, <1>2, <1>3 DEF BackupOK, SchemaTypeOK
  <1> QED BY <1>4, <1>5, <1>6, <1>7

LEMMA ReceiptPreserves == ASSUME SchemaInv, NEW p \in Procs, Receipt(p) PROVE SchemaInv'
  <1> USE HasDatabase DEF SchemaInv, Receipt, Goes
  <1>1. SchemaTypeOK'
    <2>1. backups' \in [BackupFiles -> [copy : Databases \union {NoDatabase, NoCopy},
                                        receipt : Databases \union {NoDatabase, NoCopy}]]
      BY DEF SchemaTypeOK
    <2>2. NoTarget \in [of : 0 .. SCHEMA_VERSION - 1, second : Seconds \union {0}]
      BY DEF NoTarget, SCHEMA_VERSION
    <2> QED BY <2>1, <2>2 DEF SchemaTypeOK
  <1>2. VersionIsHonest'
    BY DEF VersionIsHonest
  <1>3. MigrationOK' /\ GrowthOK'
    BY DEF MigrationOK, GrowthOK, Migrating, SchemaTypeOK
  <1>4. BackupOK'
    BY DEF BackupOK, SchemaTypeOK
  <1> QED BY <1>1, <1>2, <1>3, <1>4

\* A statement that adds at most what it stands for to the database, and leaves the version.
LEMMA Grown ==
  ASSUME SchemaInv, NEW p \in Procs, stage[p] = "migrate", at[p] \in DOMAIN Migration,
         db' \in Databases, db'.version = db.version, db.objects \subseteq db'.objects,
         Before(at[p] + 1) \subseteq db'.objects,
         at' = [at EXCEPT ![p] = at[p] + 1], stage' \in {stage, [stage EXCEPT ![p] = "failed"]},
         looked' \in [Procs -> BOOLEAN], \A q \in Procs : looked'[q] => "contract_id" \in db'.objects,
         UNCHANGED <<first, backups, existed, target>>
  PROVE  SchemaInv'
  <1> USE HasDatabase DEF SchemaInv
  <1>1. db \in Databases /\ db # NoDatabase /\ db' # NoDatabase
    BY DatabasesAssumption
  <1>2. at' \in [Procs -> 1 .. Len(Migration) + 1]
    BY Statements DEF SchemaTypeOK
  <1>3. \A q \in Procs : at'[q] = IF q = p THEN at[p] + 1 ELSE at[q]
    BY DEF SchemaTypeOK
  <1>4. \A q \in Procs : stage'[q] = stage[q] \/ (q = p /\ stage'[q] = "failed")
    <2>1. CASE stage' = stage
      BY <2>1
    <2>2. CASE stage' = [stage EXCEPT ![p] = "failed"]
      BY <2>2 DEF SchemaTypeOK
    <2> QED BY <2>1, <2>2
  <1>5. SchemaTypeOK'
    BY <1>2 DEF SchemaTypeOK
  <1>6. VersionIsHonest'
    BY <1>1 DEF VersionIsHonest
  <1>7. MigrationOK'
    BY <1>1, <1>3, <1>4 DEF MigrationOK, Migrating
  <1>8. GrowthOK'
    <2>1. first # NoDatabase => StartOf[first.version] <= at[p] + 1
      <3>1. first # NoDatabase => first.version \in 0 .. SCHEMA_VERSION /\ StartOf[first.version] <= at[p]
        BY DEF GrowthOK, Migrating, SchemaTypeOK, Databases, SCHEMA_VERSION
      <3>2. first # NoDatabase => StartOf[first.version] \in Nat /\ at[p] \in Nat
        BY <3>1, Starts, Statements DEF SCHEMA_VERSION
      <3> QED BY <3>1, <3>2
    <2>2. first # NoDatabase => \A q \in Procs : stage'[q] \in Migrating => stage[q] \in Migrating
      BY <1>4 DEF Migrating
    <2> QED BY <1>1, <1>3, <2>1, <2>2 DEF GrowthOK
  <1>9. BackupOK'
    <2>1. first # NoDatabase /\ db' = first => db = first
      <3>1. \A d \in Databases : d = [version |-> d.version, objects |-> d.objects]
        BY DEF Databases
      <3>2. first # NoDatabase /\ db' = first => db.version = first.version /\ db.objects = first.objects
        BY DEF GrowthOK
      <3>3. first # NoDatabase => first \in Databases
        BY DEF SchemaTypeOK
      <3> QED BY <1>1, <3>1, <3>2, <3>3
    <2>2. at[p] + 1 <= Len(Migration) => at[p] <= Len(Migration)
      BY Statements
    <2> QED BY <1>3, <1>4, <2>1, <2>2 DEF BackupOK
  <1> QED BY <1>5, <1>6, <1>7, <1>8, <1>9

LEMMA CreateObjectPreserves == ASSUME SchemaInv, NEW p \in Procs, CreateObject(p) PROVE SchemaInv'
  <1> USE HasDatabase DEF SchemaInv, CreateObject, Execute
  <1> DEFINE object == Migration[at[p]][2]
  <1>1. at[p] \in DOMAIN Migration
    BY Statements DEF SchemaTypeOK
  <1>2. db \in Databases /\ db # NoDatabase /\ object \in Objects
    BY <1>1, ObjectStatements
  <1>3. db' \in Databases /\ db'.version = db.version /\ db'.objects = db.objects \union {object}
    <2> HIDE DEF object
    <2>1. Add(object)
      BY DEF object
    <2> QED BY <1>2, <2>1, Adds
  <1> HIDE DEF object
  <1>4. at' = [at EXCEPT ![p] = at[p] + 1] /\ at[p] + 1 \in 1 .. Len(Migration) + 1
    BY <1>1, Statements
  <1>5. Before(at[p] + 1) = Before(at[p]) \union {object}
    BY <1>1, BeforeNext DEF object
  <1>6. \A q \in Procs : looked'[q] => "contract_id" \in db'.objects
    BY <1>3 DEF MigrationOK
  <1>7. looked' \in [Procs -> BOOLEAN] /\ Before(at[p]) \subseteq db.objects
    BY DEF SchemaTypeOK, MigrationOK, Migrating
  <1>8. stage' = stage /\ UNCHANGED <<first, backups, existed, target>>
    OBVIOUS
  <1> QED BY <1>1, <1>3, <1>4, <1>5, <1>6, <1>7, <1>8, Grown

LEMMA SetVersionPreserves == ASSUME SchemaInv, NEW p \in Procs, SetVersion(p) PROVE SchemaInv'
  <1> USE HasDatabase DEF SchemaInv, SetVersion, Execute
  <1> DEFINE version == Migration[at[p]][2]
  <1>1. at[p] \in DOMAIN Migration /\ Migration[at[p]][1] = "version"
    BY Statements DEF SchemaTypeOK
  <1>2. version \in 1 .. SCHEMA_VERSION /\ StartOf[version] = at[p] + 1
    BY <1>1, VersionStatements
  <1>3. /\ db \in Databases /\ db # NoDatabase
        /\ db' \in Databases /\ db'.version = version /\ db'.objects = db.objects
    <2> HIDE DEF version
    <2>1. db' = [db EXCEPT !.version = version]
      BY DEF version
    <2>2. version \in Nat /\ db \in Databases /\ db # NoDatabase
      BY <1>2 DEF SCHEMA_VERSION
    <2> QED BY <2>1, <2>2, Sets
  <1>4. first # NoDatabase => first.version \in Nat /\ first.version < version
    <2>1. first # NoDatabase => first.version \in Nat
      BY DEF SchemaTypeOK, Databases
    <2> QED BY <1>1, <2>1, VersionStatements DEF GrowthOK, Migrating, SCHEMA_VERSION
  <1> HIDE DEF version
  <1>5. at' = [at EXCEPT ![p] = at[p] + 1] /\ at[p] + 1 \in 1 .. Len(Migration) + 1
    BY <1>1, Statements
  <1>6. Before(at[p] + 1) = Before(at[p]) /\ Before(at[p]) \subseteq db.objects
    BY <1>1, BeforeNext DEF MigrationOK, Migrating
  <1>7. db' # NoDatabase /\ \A q \in Procs : at'[q] = IF q = p THEN at[p] + 1 ELSE at[q]
    BY <1>3, <1>5, DatabasesAssumption DEF SchemaTypeOK
  <1>8. SchemaTypeOK'
    BY <1>3, <1>5 DEF SchemaTypeOK
  <1>9. VersionIsHonest'
    BY <1>2, <1>3, <1>6, ObjectsOfVersions DEF VersionIsHonest, SCHEMA_VERSION
  <1>10. MigrationOK'
    BY <1>2, <1>3, <1>6, <1>7 DEF MigrationOK, Migrating, SCHEMA_VERSION
  <1>11. GrowthOK'
    <2>1. UNCHANGED <<first, stage>> /\ version \in Nat /\ at[p] \in Nat
      BY <1>1, <1>2, Statements DEF SCHEMA_VERSION
    <2>2. first # NoDatabase => StartOf[first.version] <= at[p] + 1
      <3>1. first # NoDatabase => first.version <= SCHEMA_VERSION /\ StartOf[first.version] <= at[p]
        BY DEF GrowthOK, Migrating
      <3>2. first # NoDatabase => StartOf[first.version] \in Nat
        BY <1>4, <3>1, Starts, Statements DEF SCHEMA_VERSION
      <3> QED BY <2>1, <3>1, <3>2
    <2> QED BY <1>3, <1>4, <1>7, <2>1, <2>2 DEF GrowthOK
  <1>12. BackupOK'
    <2>1. first # NoDatabase => first.version # version
      BY <1>2, <1>4 DEF SCHEMA_VERSION
    <2> QED BY <1>3, <2>1 DEF BackupOK
  <1> QED BY <1>8, <1>9, <1>10, <1>11, <1>12

LEMMA LookPreserves == ASSUME SchemaInv, NEW p \in Procs, Look(p) PROVE SchemaInv'
  <1> USE HasDatabase DEF SchemaInv, Look, Execute
  <1>1. at[p] \in DOMAIN Migration /\ Migration[at[p]][1] = "look"
    BY Statements DEF SchemaTypeOK
  <1>2. Before(at[p] + 1) = Before(at[p]) /\ Before(at[p]) \subseteq db.objects
    BY <1>1, BeforeNext DEF MigrationOK, Migrating
  <1>3. looked' \in [Procs -> BOOLEAN] /\ \A q \in Procs : looked'[q] => "contract_id" \in db.objects
    BY DEF SchemaTypeOK, MigrationOK
  <1>4. /\ stage[p] = "migrate" /\ at' = [at EXCEPT ![p] = at[p] + 1] /\ stage' = stage
        /\ UNCHANGED <<first, backups, existed, target>> /\ db' = db /\ db \in Databases
    OBVIOUS
  <1> QED BY <1>1, <1>2, <1>3, <1>4, Grown

LEMMA AddColumnPreserves == ASSUME SchemaInv, NEW p \in Procs, AddColumn(p) PROVE SchemaInv'
  <1> USE HasDatabase DEF SchemaInv, AddColumn, Execute
  <1>1. /\ at[p] \in DOMAIN Migration /\ Migration[at[p]][1] = "alter"
        /\ "contract_id" \in Objects
    BY Statements, ObjectStatements DEF SchemaTypeOK
  <1>2. /\ Before(at[p] + 1) = Before(at[p]) \union {"contract_id"}
        /\ Before(at[p]) \subseteq db.objects
    BY <1>1, BeforeNext, ObjectStatements DEF MigrationOK, Migrating
  <1>3. /\ db' \in Databases /\ db'.version = db.version
        /\ db'.objects = db.objects \union {"contract_id"} /\ db.objects \subseteq db'.objects
    <2>1. CASE db' = db /\ "contract_id" \in db.objects
      BY <2>1
    <2>2. CASE Add("contract_id")
      BY <1>1, <2>2, Adds
    <2> QED BY <2>1, <2>2 DEF MigrationOK
  <1>4. looked' \in [Procs -> BOOLEAN] /\ \A q \in Procs : looked'[q] => "contract_id" \in db'.objects
    BY <1>3 DEF SchemaTypeOK
  <1>5. /\ stage[p] = "migrate" /\ at' = [at EXCEPT ![p] = at[p] + 1]
        /\ stage' \in {stage, [stage EXCEPT ![p] = "failed"]}
        /\ UNCHANGED <<first, backups, existed, target>>
    BY DEF Goes
  <1> QED BY <1>1, <1>2, <1>3, <1>4, <1>5, Grown

LEMMA AbandonPreserves == ASSUME SchemaInv, NEW p \in Procs, Abandon(p) PROVE SchemaInv'
  <1> USE DEF SchemaInv
  <1>1. CASE UNCHANGED schema_vars
    BY <1>1 DEF schema_vars, SchemaTypeOK, VersionIsHonest, MigrationOK, GrowthOK, BackupOK
  <1>2. CASE ~UNCHANGED schema_vars
    <2> USE <1>2 DEF Abandon
    <2>1. NoTarget \in [of : 0 .. SCHEMA_VERSION - 1, second : Seconds \union {0}]
      BY DEF NoTarget, SCHEMA_VERSION
    <2>2. SchemaTypeOK'
      <3>1. /\ target' \in [Procs -> [of : 0 .. SCHEMA_VERSION - 1, second : Seconds \union {0}]]
            /\ at' \in [Procs -> 1 .. Len(Migration) + 1]
        BY <2>1, Statements DEF SchemaTypeOK
      <3>2. UNCHANGED <<db, first, backups>>
        OBVIOUS
      <3> QED BY <3>1, <3>2 DEF SchemaTypeOK
    <2>3. VersionIsHonest'
      BY DEF VersionIsHonest
    <2>4. MigrationOK'
      BY DEF MigrationOK, Migrating, SchemaTypeOK
    <2>5. GrowthOK'
      BY DEF GrowthOK, Migrating, SchemaTypeOK
    <2>6. BackupOK'
      <3>1. /\ stage'[p] = "abandoned" /\ UNCHANGED <<db, first, backups>>
            /\ \A q \in Procs \ {p} : /\ stage'[q] = stage[q] /\ existed'[q] = existed[q]
                                      /\ target'[q] = target[q] /\ at'[q] = at[q]
        BY DEF SchemaTypeOK
      <3> QED BY <3>1 DEF BackupOK
    <2> QED BY <2>2, <2>3, <2>4, <2>5, <2>6
  <1> QED BY <1>1, <1>2

-----------------------------------------------------------------------------
(* What the theorems need. *)

LEMMA SchemaStarts == SchemaInit => SchemaInv
  <1> SUFFICES ASSUME SchemaInit PROVE SchemaInv
    OBVIOUS
  <1> USE DEF SchemaInit, SchemaInv
  <1>1. SchemaTypeOK
    BY DatabasesAssumption, Statements DEF SchemaTypeOK, NoTarget, SCHEMA_VERSION
  <1>2. VersionIsHonest
    BY DatabasesAssumption DEF VersionIsHonest
  <1>3. MigrationOK /\ GrowthOK /\ BackupOK
    BY DatabasesAssumption DEF MigrationOK, GrowthOK, BackupOK, Migrating, Databases
  <1> QED BY <1>1, <1>2, <1>3

LEMMA SchemaPreserved == SchemaInv /\ [SchemaStep]_schema_vars => SchemaInv'
  <1>1. ASSUME SchemaInv, UNCHANGED schema_vars PROVE SchemaInv'
    BY <1>1 DEF schema_vars, SchemaInv, SchemaTypeOK, VersionIsHonest, MigrationOK, GrowthOK, BackupOK
  <1>2. ASSUME SchemaInv, NEW p \in Procs, Open(p) \/ Abandon(p) PROVE SchemaInv'
    BY <1>2, ConnectPreserves, ReadVersionPreserves, BackupPreserves, ReceiptPreserves,
       CreateObjectPreserves, SetVersionPreserves, LookPreserves, AddColumnPreserves,
       AbandonPreserves
    DEF Open
  <1> QED BY <1>1, <1>2 DEF SchemaStep

LEMMA OpenSchema == SchemaInv => OpenHasSchema
  BY ObjectsOfVersions, Starts, Statements
  DEF SchemaInv, SchemaTypeOK, MigrationOK, Migrating, OpenHasSchema, IsOpen, SCHEMA_VERSION

\* The database changes only by statements of the migration, or is created.
LEMMA BackedUp ==
  ASSUME SchemaInv, [SchemaStep]_schema_vars, first # NoDatabase, db = first, db' # first
  PROVE  \E b \in DOMAIN backups : backups[b] = [copy |-> first, receipt |-> first]
  <1>1. PICK p \in Procs : CreateObject(p) \/ SetVersion(p) \/ AddColumn(p)
    BY DEF SchemaStep, schema_vars, Open, Abandon, Connect, ReadVersion, Backup, Receipt, Look, Goes
  <1>2. stage[p] = "migrate" /\ at[p] <= Len(Migration)
    BY <1>1 DEF CreateObject, SetVersion, AddColumn, Execute
  <1> QED BY <1>2 DEF SchemaInv, BackupOK, SchemaTypeOK

=============================================================================
