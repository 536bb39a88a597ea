------------------------- MODULE ServeCommand_proofs -------------------------
(***************************************************************************)
(* Theorems about ServeCommand, for any processes, ports, first database   *)
(* and number of kills.                                                    *)
(***************************************************************************)
EXTENDS ServeCommand, StateSchema_proofs

\* What is opened, and what the record says of it, is the server's own.
OwnOK ==
    /\ main \in [Procs -> {"none", "reserved", "starting", "server", "listening", "stopped",
                           "exit", "ended"}]
    /\ opened \in [Procs -> BOOLEAN]
    /\ \A p \in Procs : main[p] = "listening" => IsOpen(p)
    /\ \A p \in Procs : opened[p] => IsOpen(p)
    /\ record \in [launch : Procs \union {Nobody}, opened : BOOLEAN]
    /\ record.opened => record.launch \in Procs /\ opened[record.launch]

-----------------------------------------------------------------------------
(* The database. *)

\* Every step of the serve processes is one of their databases, or leaves it alone.
LEMMA ServeStepsOfSchema == [Next]_vars => [SchemaStep]_schema_vars
  BY DEF Next, Idle, vars, SchemaStep, Reserve, MainThread, StartServer, OpenDatabase, Listen,
         RunFails, Stop, Exit, RecordReserved, RecordStarting, RecordStopped, RecordRunning,
         Record, BrowserThread, Answered, Deadline, CheckEvent, Kill

\* The schema's invariant holds however the processes are started, stopped and killed.
THEOREM SchemaInvariant == Spec => []SchemaInv
  <1>1. Init => SchemaInv
    BY SchemaStarts DEF Init
  <1>2. SchemaInv /\ [Next]_vars => SchemaInv'
    BY SchemaPreserved, ServeStepsOfSchema
  <1> QED BY <1>1, <1>2, PTL DEF Spec

\* The version never promises more than the database has.
THEOREM VersionsAreHonest == Spec => []VersionIsHonest
  <1>1. SchemaInv => VersionIsHonest
    BY DEF SchemaInv
  <1> QED BY <1>1, SchemaInvariant, PTL

\* Whoever has opened the database has one with the whole schema.
THEOREM OpenDatabasesHaveSchema == Spec => []OpenHasSchema
  BY OpenSchema, SchemaInvariant, PTL

\* An existing database is first changed behind a backup of it with its receipt.
THEOREM BackupsComeFirst == Spec => BackupBeforeMigration
  <1>1. SchemaInv /\ [Next]_vars =>
            [first # NoDatabase /\ db = first /\ db' # first =>
                \E b \in DOMAIN backups : backups[b] = [copy |-> first, receipt |-> first]]_db
    BY BackedUp, ServeStepsOfSchema
  <1> QED BY <1>1, SchemaInvariant, PTL DEF Spec, BackupBeforeMigration

-----------------------------------------------------------------------------
(* The browser. *)

\* A process that has opened its database stays so, whatever is done.
LEMMA OpenStays ==
  ASSUME SchemaInv, [SchemaStep]_schema_vars, NEW p \in Procs, IsOpen(p)
  PROVE  IsOpen(p)'
  <1> USE DEF IsOpen
  <1>1. CASE UNCHANGED schema_vars
    BY <1>1 DEF schema_vars
  <1>2. ASSUME NEW q \in Procs, Open(q) PROVE stage'[p] = stage[p] /\ at'[p] = at[p]
    <2>1. stage[p] = "migrate" /\ ~(at[p] <= Len(Migration))
      BY Statements DEF SchemaInv, SchemaTypeOK
    <2> QED
      BY <1>2, <2>1
      DEF Open, Connect, ReadVersion, Backup, Receipt, CreateObject, SetVersion, Look, AddColumn,
          Execute, Goes, SchemaInv, SchemaTypeOK
  <1>3. ASSUME NEW q \in Procs, Abandon(q) PROVE stage'[p] = stage[p] /\ at'[p] = at[p]
    BY <1>3 DEF Abandon, schema_vars, SchemaInv, SchemaTypeOK
  <1> QED BY <1>1, <1>2, <1>3 DEF SchemaStep

LEMMA OwnPreserved == SchemaInv /\ OwnOK /\ [Next]_vars => OwnOK'
  <1> SUFFICES ASSUME SchemaInv, OwnOK, [Next]_vars PROVE OwnOK'
    OBVIOUS
  <1>1. \A p \in Procs : IsOpen(p) => IsOpen(p)'
    BY OpenStays, ServeStepsOfSchema
  <1> USE <1>1, PortsAssumption DEF OwnOK, Main, Browser
  <1>2. CASE UNCHANGED vars
    BY <1>2 DEF vars, serve_vars
  <1>3. ASSUME NEW p \in Procs, Reserve(p) PROVE OwnOK'
    BY <1>3 DEF Reserve
  <1>4. ASSUME NEW p \in Procs, RecordReserved(p) \/ RecordStarting(p) \/ RecordStopped(p) PROVE OwnOK'
    <2>1. record' = [launch |-> p, opened |-> FALSE] /\ UNCHANGED <<schema_vars, opened>>
      BY <1>4 DEF RecordReserved, RecordStarting, RecordStopped, Record
    <2>2. \E to \in {"starting", "server", "exit"} : main' = [main EXCEPT ![p] = to]
      BY <1>4 DEF RecordReserved, RecordStarting, RecordStopped
    <2> QED BY <2>1, <2>2
  <1>5. ASSUME NEW p \in Procs, RecordRunning(p) PROVE OwnOK'
    BY <1>5 DEF RecordRunning, Record
  <1>6. ASSUME NEW p \in Procs, OpenDatabase(p) PROVE OwnOK'
    BY <1>6 DEF OpenDatabase, serve_vars
  <1>7. ASSUME NEW p \in Procs, Listen(p) PROVE OwnOK'
    BY <1>7 DEF Listen
  <1>8. ASSUME NEW p \in Procs, RunFails(p) \/ Stop(p) \/ Exit(p) \/ Kill(p) PROVE OwnOK'
    BY <1>8 DEF RunFails, Stop, Exit, Kill
  <1>9. ASSUME NEW p \in Procs, Answered(p) PROVE OwnOK'
    BY <1>9 DEF Answered, HealthMatches
  <1>10. ASSUME NEW p \in Procs, Deadline(p) \/ CheckEvent(p) PROVE OwnOK'
    BY <1>10 DEF Deadline, CheckEvent
  <1> QED
    BY <1>2, <1>3, <1>4, <1>5, <1>6, <1>7, <1>8, <1>9, <1>10
    DEF Next, Idle, MainThread, StartServer, BrowserThread

\* A launch that opened the browser, and one of which the record says so, had its own server
\* up: whoever else had its port before.
THEOREM BrowserOpensOwnServer == Spec => []OpenedOwnServer
  <1>1. Init => OwnOK
    BY DEF Init, OwnOK
  <1>2. OwnOK => OpenedOwnServer
    BY DEF OwnOK, OpenedOwnServer
  <1> QED BY <1>1, <1>2, OwnPreserved, SchemaInvariant, PTL DEF Spec
=============================================================================
