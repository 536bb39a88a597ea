-------------------------- MODULE DiagnosticsExport --------------------------
(***************************************************************************)
(* DiagnosticManager (diagnostics.py): threads of several processes of one *)
(* installation report critical failures and ask for support exports.  A   *)
(* call writes its context (a crash capsule, or a file that it removes in  *)
(* the end), makes an archive under .export.lock, moves the archive to     *)
(* exports/ and removes what is beyond the retention.  Steps may fail,     *)
(* those of the finally clauses too, and processes may be killed.  Left    *)
(* out: what is in an archive (each file, the context too, is passed over  *)
(* when it is too large or cannot be read); and its size, at most 5 MB, so *)
(* that the five that are kept come within the limit of 25 MB.             *)
(***************************************************************************)
EXTENDS Naturals, FiniteSets

CONSTANTS
    Threads,        \* the threads that call
    ProcessOf,      \* the process of each
    Failures,       \* the fingerprints of critical failures
    Support,        \* the fingerprint of a support export
    Free,           \* nobody has the lock
    Keep,           \* how many exports retention keeps
    MaxCalls, MaxSeconds, MaxFaults   \* bounds

ASSUME ThreadsAssumption == Free \notin Threads /\ DOMAIN ProcessOf = Threads
ASSUME FailuresAssumption == Support \notin Failures
ASSUME NumbersAssumption == {Keep, MaxCalls, MaxSeconds, MaxFaults} \subseteq Nat /\ MaxSeconds > 0

Processes == {ProcessOf[t] : t \in Threads}

VARIABLES
    call,         \* the call of each thread, see NoCall
    capturing,    \* per process: _capturing
    seen,         \* per process: _seen
    capsules,     \* export_result of the crash capsules, by fingerprint and second
    lock,         \* the thread that made .export.lock
    exports,      \* exports/
    made,         \* every export there ever was
    written,      \* how many calls of each fingerprint have written their context in each second
    now,          \* the second of the clock when it was last read
    calls, faults,
    orphaned,     \* was .export.lock left behind: by a process that was killed, or by an
                  \* exception in the finally clause that removes it
    stuck         \* the processes whose flag an exception left set

process_vars == <<capturing, seen>>
capsule_vars == <<capsules, written>>
export_vars  == <<exports, made>>
bound_vars   == <<now, calls, faults>>
left_vars    == <<orphaned, stuck>>
vars == <<call, process_vars, capsule_vars, lock, export_vars, bound_vars, left_vars>>

NoCall == [at |-> "idle",
           of |-> Support,      \* the fingerprint
           second |-> 0,        \* when its context was written
           export |-> FALSE,    \* has it made an export
           listed |-> {},       \* the names in exports/
           todo |-> {}]         \* the exports that retention removes if they are still there

Goes(t, from, next) == call[t].at = from /\ call' = [call EXCEPT ![t] = next]

IsSupport(t) == call[t].of = Support

\* The call is about to return, and needs nothing any more but its kind.
Out(t) == [NoCall EXCEPT !.at = "leave", !.of = call[t].of]

\* _full_export has come back, with an export or without. There is no capsule of a support
\* export that would have to say so.
Back(t) == IF IsSupport(t) THEN [NoCall EXCEPT !.at = "list"] ELSE [call[t] EXCEPT !.at = "report"]

-----------------------------------------------------------------------------
(* capture_critical and create_manual_export *)

\* While the flag of the process is set the call comes back with nothing.
Enter(t, fingerprint) ==
    /\ calls < MaxCalls /\ calls' = calls + 1
    /\ Goes(t, "idle", IF capturing[ProcessOf[t]] THEN NoCall
                       ELSE [NoCall EXCEPT !.at = "entered", !.of = fingerprint])
    /\ UNCHANGED <<process_vars, capsule_vars, lock, export_vars, now, faults, left_vars>>

\* The flag is set after it was tested: two threads may have come by.
SetCapturing(t) ==
    /\ Goes(t, "entered", [call[t] EXCEPT !.at = IF IsSupport(t) THEN "context" ELSE "dedupe"])
    /\ capturing' = [capturing EXCEPT ![ProcessOf[t]] = TRUE]
    /\ UNCHANGED <<seen, capsule_vars, lock, export_vars, bound_vars, left_vars>>

\* A failure that this process has seen is only counted, ...
Dedupe(t) ==
    /\ Goes(t, "dedupe",
            [call[t] EXCEPT !.at = IF call[t].of \in seen[ProcessOf[t]] THEN "leave" ELSE "add"])
    /\ UNCHANGED <<process_vars, capsule_vars, lock, export_vars, bound_vars, left_vars>>

\* ... any other is one it has seen from now on.
AddSeen(t) ==
    /\ Goes(t, "add", [call[t] EXCEPT !.at = "context"])
    /\ seen' = [seen EXCEPT ![ProcessOf[t]] = @ \union {call[t].of}]
    /\ UNCHANGED <<capturing, capsule_vars, lock, export_vars, bound_vars, left_vars>>

\* The clock is read twice, for the name of the context and for that of the export.
ReadClock == now' \in now..MaxSeconds /\ UNCHANGED <<calls, faults>>

WriteContext(t) ==
    /\ ReadClock
    /\ Goes(t, "context", [call[t] EXCEPT !.at = "lock", !.second = now'])
    /\ capsules' = IF IsSupport(t) THEN capsules
                   ELSE [capsules EXCEPT ![<<call[t].of, now'>>] = "capsule-written"]
    /\ written' = [written EXCEPT ![<<call[t].of, now'>>] = @ + 1]
    /\ UNCHANGED <<process_vars, lock, export_vars, left_vars>>

-----------------------------------------------------------------------------
(* _full_export *)

\* O_CREAT | O_EXCL, ...
TakeLock(t) ==
    /\ lock = Free /\ lock' = t
    /\ Goes(t, "lock", [call[t] EXCEPT !.at = "pack"])
    /\ UNCHANGED <<process_vars, capsule_vars, export_vars, bound_vars, left_vars>>

\* Mutant of NoExport: the lock is removed whether the call made it or not.
NoExportUnlocks(t) ==
    /\ Goes(t, "lock", Back(t)) /\ lock' = Free
    /\ UNCHANGED <<process_vars, capsule_vars, export_vars, bound_vars, left_vars>>

\* ... or "another exporter is active on this computer", or there is no time left.
NoExport(t) ==
    /\ Goes(t, "lock", Back(t))
    /\ UNCHANGED <<process_vars, capsule_vars, lock, export_vars, bound_vars, left_vars>>

\* Mutant of PackNothing: the path is returned although there is no archive.
PackNothingReturnsPath(t) ==
    /\ Goes(t, "pack", [call[t] EXCEPT !.at = "unlock", !.export = TRUE])
    /\ UNCHANGED <<process_vars, capsule_vars, lock, export_vars, bound_vars, left_vars>>

\* Nothing is packed in time, or the archive fails its test.
PackNothing(t) ==
    /\ Goes(t, "pack", [call[t] EXCEPT !.at = "unlock"])
    /\ UNCHANGED <<process_vars, capsule_vars, lock, export_vars, bound_vars, left_vars>>

Name(export) == <<export.of, export.second>>

\* The archive is made, and os.replace puts it over an export of the same name.
Move(t) ==
    /\ ReadClock
    /\ Goes(t, "pack", [call[t] EXCEPT !.at = "unlock", !.export = TRUE])
    /\ LET export == [of |-> call[t].of, second |-> now', asked |-> call[t].second,
                      order |-> Cardinality(made) + 1]
       IN  /\ exports' = {e \in exports : Name(e) # Name(export)} \union {export}
           /\ made' = made \union {export}
    /\ UNCHANGED <<process_vars, capsule_vars, lock, left_vars>>

\* finally: the environment file is removed, then the lock.
Unlock(t) ==
    /\ Goes(t, "unlock", Back(t)) /\ lock' = Free
    /\ UNCHANGED <<process_vars, capsule_vars, export_vars, bound_vars, left_vars>>

\* The capsule is written once more, with the outcome, and what the call knew of its export
\* is of no more use.
Report(t) ==
    /\ Goes(t, "report", [call[t] EXCEPT !.at = "list", !.second = 0, !.export = FALSE])
    /\ capsules' = [capsules EXCEPT ![<<call[t].of, call[t].second>>] =
                        IF call[t].export THEN "completed" ELSE "capsule-only"]
    /\ UNCHANGED <<process_vars, written, lock, export_vars, bound_vars, left_vars>>

-----------------------------------------------------------------------------
(* _retention, not under the lock *)

List(t) ==
    /\ Goes(t, "list", [call[t] EXCEPT !.at = "sort", !.listed = {Name(e) : e \in exports}])
    /\ UNCHANGED <<process_vars, capsule_vars, lock, export_vars, bound_vars, left_vars>>

\* An export of before this history, more than 30 days old.
Aged == [of |-> Support, second |-> 0, asked |-> 0, order |-> 0]

\* Mutant of Beyond: the oldest come first.
BeyondOldest(files) ==
    {e \in files : e = Aged \/ Cardinality({d \in files : d.order < e.order}) >= Keep}

\* Those that are aged, or not among the first when the newest come first.
Beyond(files) ==
    {e \in files : e = Aged \/ Cardinality({d \in files : d.order > e.order}) >= Keep}

\* Retention goes on with what is to be removed, as far as there are such files.
Removing(t, names, todo) ==
    IF todo = {} THEN Out(t) ELSE [call[t] EXCEPT !.at = "remove", !.listed = names, !.todo = todo]

Listed(t) == call[t].listed \subseteq {Name(e) : e \in exports}

Sort(t) ==
    /\ Listed(t)
    /\ Goes(t, "sort", Removing(t, call[t].listed,
                                Beyond({e \in exports : Name(e) \in call[t].listed})))
    /\ UNCHANGED <<process_vars, capsule_vars, lock, export_vars, bound_vars, left_vars>>

\* The newest of those that are to be removed comes first.
RemoveExport(t) ==
    /\ call[t].at = "remove"
    /\ \E e \in call[t].todo :
           /\ \A d \in call[t].todo : d.order <= e.order
           /\ Name(e) \in {Name(d) : d \in exports}
           /\ call' = [call EXCEPT ![t] = Removing(t, call[t].listed \ {Name(e)}, call[t].todo \ {e})]
           /\ exports' = {d \in exports : Name(d) # Name(e)}
    /\ UNCHANGED <<process_vars, capsule_vars, lock, made, bound_vars, left_vars>>

\* The times of the files are looked up to sort them and once more for each: that raises
\* if another call has removed one.
Vanished(t) ==
    /\ call[t].at \in {"sort", "remove"} /\ ~Listed(t)
    /\ call' = [call EXCEPT ![t] = Out(t)]
    /\ UNCHANGED <<process_vars, capsule_vars, lock, export_vars, bound_vars, left_vars>>

\* finally: a support export removes its context file, then the flag is reset.
Leave(t) ==
    /\ Goes(t, "leave", NoCall)
    /\ capturing' = [capturing EXCEPT ![ProcessOf[t]] = FALSE]
    /\ stuck' = stuck \ {ProcessOf[t]}
    /\ UNCHANGED <<seen, capsule_vars, lock, export_vars, bound_vars, orphaned>>

-----------------------------------------------------------------------------
(* A step raises. *)

Faulty == faults < MaxFaults /\ faults' = faults + 1 /\ UNCHANGED <<now, calls>>

\* Inside try and without the lock.
Fail(t) ==
    /\ Faulty
    /\ call[t].at \in {"context", "lock", "report", "list", "sort", "remove"}
    /\ call' = [call EXCEPT ![t] = Out(t)]
    /\ UNCHANGED <<process_vars, capsule_vars, lock, export_vars, left_vars>>

\* Under the lock, which is removed on the way out, ...
FailLocked(t) ==
    /\ Faulty
    /\ call[t].at = "pack"
    /\ call' = [call EXCEPT ![t] = Out(t)] /\ lock' = Free
    /\ UNCHANGED <<process_vars, capsule_vars, export_vars, left_vars>>

\* ... unless its removal fails, or that of the environment file, which comes first.
LockStays(t) ==
    /\ Faulty
    /\ call[t].at \in {"pack", "unlock"}
    /\ call' = [call EXCEPT ![t] = Out(t)] /\ orphaned' = TRUE
    /\ UNCHANGED <<process_vars, capsule_vars, lock, export_vars, stuck>>

\* Between the flag and try, where the fingerprint and the name of the context are made.
FlagStays(t) ==
    /\ Faulty
    /\ Goes(t, "entered", NoCall)
    /\ capturing' = [capturing EXCEPT ![ProcessOf[t]] = TRUE]
    /\ stuck' = stuck \union {ProcessOf[t]}
    /\ UNCHANGED <<seen, capsule_vars, lock, export_vars, orphaned>>

\* The context file of a support export cannot be removed: the flag is not reset.
LeaveFails(t) ==
    /\ Faulty
    /\ IsSupport(t) /\ Goes(t, "leave", NoCall)
    /\ stuck' = stuck \union {ProcessOf[t]}
    /\ UNCHANGED <<process_vars, capsule_vars, lock, export_vars, orphaned>>

\* A process ends as it is, and is started again.
Kill(p) ==
    /\ Faulty
    /\ \E t \in Threads : ProcessOf[t] = p /\ call[t].at # "idle"
    /\ call' = [t \in Threads |-> IF ProcessOf[t] = p THEN NoCall ELSE call[t]]
    /\ capturing' = [capturing EXCEPT ![p] = FALSE] /\ seen' = [seen EXCEPT ![p] = {}]
    /\ orphaned' = (orphaned \/ (lock # Free /\ ProcessOf[lock] = p)) /\ stuck' = stuck \ {p}
    /\ UNCHANGED <<capsule_vars, lock, export_vars>>

Init ==
    /\ call = [t \in Threads |-> NoCall]
    /\ capturing = [p \in Processes |-> FALSE] /\ seen = [p \in Processes |-> {}]
    /\ capsules = [c \in Failures \X (1..MaxSeconds) |-> "none"]
    /\ written = [c \in (Failures \union {Support}) \X (1..MaxSeconds) |-> 0]
    /\ lock = Free
    /\ exports = {Aged} /\ made = {}
    /\ now = 1 /\ calls = 0 /\ faults = 0
    /\ orphaned = FALSE /\ stuck = {}

Step(t) ==
    \/ SetCapturing(t) \/ Dedupe(t) \/ AddSeen(t) \/ WriteContext(t)
    \/ TakeLock(t) \/ NoExport(t) \/ PackNothing(t) \/ Move(t) \/ Unlock(t)
    \/ Report(t) \/ List(t) \/ Sort(t) \/ RemoveExport(t) \/ Vanished(t) \/ Leave(t)

Raises(t) == Fail(t) \/ FailLocked(t) \/ LockStays(t) \/ FlagStays(t) \/ LeaveFails(t)

Next ==
    \/ \E t \in Threads : Step(t) \/ Raises(t) \/ \E f \in Failures \union {Support} : Enter(t, f)
    \/ \E p \in Processes : Kill(p)

Spec == Init /\ [][Next]_vars

-----------------------------------------------------------------------------
Exporting == {t \in Threads : call[t].at \in {"pack", "unlock"}}

\* At most one export is made at a time, on the whole machine. What keeps the others out
\* goes with its holder, but for the ways in which the code loses it: the lock stays behind
\* only if its process was killed or an unlink of the finally clause raised, the flag of a
\* process without a thread in a call only if an exception came before try or removing the
\* context raised.
GuardsHaveHolders ==
    /\ \A t \in Exporting : lock = t
    /\ lock # Free => lock \in Exporting \/ orphaned
    /\ \A p \in Processes : capturing[p] =>
           \/ \E t \in Threads : ProcessOf[t] = p /\ call[t].at \notin {"idle", "entered"}
           \/ p \in stuck

\* Whoever removes exports at the same time: one that is not aged is removed only when
\* there were Keep newer ones.  (A name that was made twice may have gone with the other.)
NewestAreKept ==
    \A e \in made \ exports :
        \/ \E d \in made : d # e /\ Name(d) = Name(e)
        \/ Cardinality({d \in made : d.order > e.order}) >= Keep

\* A capsule that says there is an export, or that there is none, is right; unless two
\* processes that failed in the same way and second have written the same capsule.
CapsuleIsHonest ==
    \A f \in Failures, s \in 1..MaxSeconds :
        LET itsExports == {e \in made : e.of = f /\ e.asked = s}
        IN  /\ capsules[<<f, s>>] = "completed" => itsExports # {}
            /\ capsules[<<f, s>>] = "capsule-only" /\ written[<<f, s>>] = 1 => itsExports = {}
=============================================================================
