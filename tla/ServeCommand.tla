----------------------------- MODULE ServeCommand -----------------------------
(***************************************************************************)
(* `serve` processes of one installation (cli.py: serve_command, and       *)
(* local_server.py).  Each reserves a port, writes the endpoint record,    *)
(* starts a thread that waits for the health endpoint and opens the        *)
(* browser, and runs the server, which opens the state database            *)
(* (StateSchema).  The processes share the ports, the database and the     *)
(* record, and may be killed at any step.  LATEST_LAUNCH_STATUS.txt, which *)
(* repeats the record, and the record's state field are left out.          *)
(***************************************************************************)
EXTENDS StateSchema, FiniteSetsExt

CONSTANTS
    Ports,          \* the ports of the machine
    Preferred,      \* --port
    SearchLimits,   \* what --port-search-limit may be
    Taken,          \* ports held by other programs
    Nobody

ASSUME PortsAssumption ==
    /\ Ports \subseteq Nat /\ Preferred \in Ports /\ Taken \subseteq Ports
    /\ SearchLimits \subseteq Nat /\ Nobody \notin Procs

VARIABLES
    main,      \* where the main thread of each process is
    browser,   \* where its browser thread is
    port,      \* the port of its endpoint
    opened,    \* has its browser thread opened the browser
    record     \* dashboard_endpoint.json: whose it is, and its "opened-after-verified-identity"

serve_vars == <<main, browser, port, opened, record>>
vars == <<schema_vars, serve_vars>>

Main(p, from, to)    == main[p] = from /\ main' = [main EXCEPT ![p] = to]
Browser(p, from, to) == browser[p] = from /\ browser' = [browser EXCEPT ![p] = to]

-----------------------------------------------------------------------------
(* reserve_endpoint: the socket is bound before anything else, and stays bound. *)

Bound == {"reserved", "starting", "server", "listening"}

FreePorts == Ports \ (Taken \union {port[q] : q \in {r \in Procs : main[r] \in Bound}})

\* The lowest free port of the range, or else one that the system assigns, unless the
\* range is the one port that was asked for.
Reserve(p) ==
    /\ \E limit \in SearchLimits :
           LET range == FreePorts \intersect (Preferred .. Preferred + limit)
           IN  \/ /\ range # {} /\ port' = [port EXCEPT ![p] = Min(range)]
                  /\ Main(p, "none", "reserved")
               \/ /\ range = {} /\ limit > 0
                  /\ \E assigned \in FreePorts : port' = [port EXCEPT ![p] = assigned]
                  /\ Main(p, "none", "reserved")
               \/ /\ range = {} /\ (limit = 0 \/ FreePorts = {}) /\ UNCHANGED port
                  /\ Main(p, "none", "ended")
    /\ UNCHANGED <<schema_vars, browser, opened, record>>

-----------------------------------------------------------------------------
(* record_endpoint, at its four places. *)

Record(p, open) == record' = [launch |-> p, opened |-> open] /\ UNCHANGED <<schema_vars, port, opened>>

\* The browser thread is started next, unless it is disabled.
RecordReserved(p) ==
    /\ Main(p, "reserved", "starting") /\ Record(p, FALSE)
    /\ browser' \in {[browser EXCEPT ![p] = b] : b \in {"poll", "off"}}

RecordStarting(p) == Main(p, "starting", "server")  /\ Record(p, FALSE) /\ UNCHANGED browser
RecordStopped(p)  == Main(p, "stopped", "exit")     /\ Record(p, FALSE)  /\ UNCHANGED browser
RecordRunning(p)  == Browser(p, "running", "off")   /\ Record(p, opened[p])  /\ UNCHANGED main

-----------------------------------------------------------------------------
(* The main thread. *)

\* server.run imports the application, which opens the database, ...
OpenDatabase(p) == main[p] = "server" /\ Open(p) /\ UNCHANGED serve_vars

Listen(p) ==
    /\ IsOpen(p) /\ Main(p, "server", "listening")
    /\ UNCHANGED <<schema_vars, browser, port, opened, record>>

\* ... and ends by the error of the database or by a signal, which may come before it
\* listens.  Either way shutdown_event is set and the socket is closed.
RunFails(p) ==
    /\ stage[p] = "failed" /\ Main(p, "server", "stopped")
    /\ UNCHANGED <<schema_vars, browser, port, opened, record>>

Stop(p) ==
    /\ main[p] \in {"server", "listening"} /\ stage[p] # "failed"
    /\ main' = [main EXCEPT ![p] = "stopped"]
    /\ Abandon(p) /\ UNCHANGED <<browser, port, opened, record>>

ShutdownEvent(p) == main[p] \in {"stopped", "exit"}

\* The browser thread is a daemon and ends with the process.
Exit(p) ==
    /\ Main(p, "exit", "ended")
    /\ browser' = [browser EXCEPT ![p] = "off"] /\ port' = [port EXCEPT ![p] = Preferred]
    /\ UNCHANGED <<schema_vars, opened, record>>

-----------------------------------------------------------------------------
(* The browser thread: open_browser_when_ready, and the record. *)

\* Mutant of HealthMatches: any server of this product, version and build will do.
HealthMatchesBuild(p, q) == TRUE

\* The answer of process q has the launch id of p.
HealthMatches(p, q) == q = p

\* The process that listens at the port of p answers.  If it is not p, p asks again.
Answered(p) ==
    /\ \E q \in Procs : main[q] = "listening" /\ port[q] = port[p] /\ HealthMatches(p, q)
    /\ Browser(p, "poll", "check") /\ opened' = [opened EXCEPT ![p] = TRUE]
    /\ UNCHANGED <<schema_vars, main, port, record>>

Deadline(p) ==
    /\ Browser(p, "poll", "check")
    /\ UNCHANGED <<schema_vars, main, port, opened, record>>

CheckEvent(p) ==
    /\ Browser(p, "check", IF ShutdownEvent(p) THEN "off" ELSE "running")
    /\ UNCHANGED <<schema_vars, main, port, opened, record>>

-----------------------------------------------------------------------------
\* The end of a process, wherever its threads are.
Kill(p) ==
    /\ main[p] \notin {"none", "ended"}
    /\ main' = [main EXCEPT ![p] = "ended"] /\ browser' = [browser EXCEPT ![p] = "off"]
    /\ port' = [port EXCEPT ![p] = Preferred]
    /\ Abandon(p) /\ UNCHANGED <<opened, record>>

StartServer(p) == OpenDatabase(p) \/ Listen(p) \/ RunFails(p)

MainThread(p) ==
    RecordReserved(p) \/ RecordStarting(p) \/ StartServer(p) \/ RecordStopped(p) \/ Exit(p)

BrowserThread(p) == Answered(p) \/ Deadline(p) \/ CheckEvent(p) \/ RecordRunning(p)

Idle == (\A p \in Procs : main[p] \in {"none", "ended"}) /\ UNCHANGED vars

Init ==
    /\ SchemaInit
    /\ main = [p \in Procs |-> "none"] /\ browser = [p \in Procs |-> "off"]
    /\ port = [p \in Procs |-> Preferred] /\ opened = [p \in Procs |-> FALSE]
    /\ record = [launch |-> Nobody, opened |-> FALSE]

Next ==
    \/ \E p \in Procs : Reserve(p) \/ MainThread(p) \/ Stop(p) \/ BrowserThread(p) \/ Kill(p)
    \/ Idle

Spec == Init /\ [][Next]_vars

\* server.run, once called, goes on until the server listens or fails.  Nobody has to start,
\* stop or kill a process, and nothing here depends on the browser thread.
FairSpec == Spec /\ \A p \in Procs : WF_vars(StartServer(p))

-----------------------------------------------------------------------------
\* "The browser opens only after this exact process passes its health identity check":
\* whatever took its port meanwhile, a launch that opened the browser, and one of which
\* the record says so, had its own server up and its database open.
OpenedOwnServer ==
    /\ \A p \in Procs : opened[p] => IsOpen(p)
    /\ record.opened => IsOpen(record.launch)

\* A launch that begins to open a database that has the last column does not fail in it: it
\* comes up, unless somebody stops it, however many failed or were killed before.  The
\* error of two migrations that race for the column is not repeated.
ServesOnceMigrated ==
    \A p \in Procs :
        /\ stage[p] = "version" /\ db.version <= SCHEMA_VERSION /\ "contract_id" \in db.objects
        ~> main[p] # "server" /\ stage[p] # "failed"
=============================================================================
