---------------------------- MODULE JobLifecycle ----------------------------
(***************************************************************************)
(* The bounded background validation queue: ValidationJobManager of        *)
(* jobs.py, the jobs table of state_store.py it reports through, the       *)
(* cooperative checkpoints of engine.py that its workers run, and the      *)
(* part of api.py that calls it (upload, DELETE, lifespan shutdown).       *)
(*                                                                         *)
(* Threads: the event loop (one submit at a time), the pool's workers, the *)
(* threads that serve DELETE requests (Callers), the lifespan handler.     *)
(* StateStore.update_job reads the row in one connection and writes every  *)
(* column in another, so it is two steps wherever it is called.            *)
(***************************************************************************)
EXTENDS Integers, Sequences, FiniteSets

CONSTANTS
    Jobs,            \* job identifiers (uuid4().hex: never reused)
    Callers,         \* threads that may be serving DELETE /api/jobs/{id}
    NoJob,           \* what a caller that serves nothing is about
    MaxWorkers,      \* ThreadPoolExecutor(max_workers)
    QueueCapacity,   \* jobs admitted beyond the workers
    BatchPercents,   \* the percents the batches of a streamed file report
    MaxFaults,       \* bound: exceptions raised by the store
    MaxCrashes       \* bound: process crashes, each followed by a restart

ASSUME JobsAssumption     == IsFiniteSet(Jobs) /\ NoJob \notin Jobs
ASSUME PoolAssumption     == MaxWorkers \in Nat \ {0} /\ QueueCapacity \in Nat
ASSUME PercentsAssumption == BatchPercents \subseteq 25..75
ASSUME BoundsAssumption   == MaxFaults \in Nat /\ MaxCrashes \in Nat

VARIABLES
    slots,       \* permits left in _slots
    registered,  \* keys of _cancel
    cancelled,   \* jobs whose threading.Event is set
    futures,     \* keys of _futures
    queue,       \* the executor's work queue
    request,     \* per job: where its POST request and submit() are
    at,          \* per job: where its _run is
    mode,        \* per job: the reader's mode once the file is opened
    pct,         \* per job: percent of the checkpoint it last came to
    seen,        \* per job: the row its update_job has read, or AbsentRow
    callerAt,    \* per caller: where its cancel() is
    callerJob,   \* per caller: the job it is cancelling
    callerSeen,  \* per caller: the row its update_job has read
    server,      \* lifespan of the application
    row,         \* the jobs table
    history,     \* jobs whose run is in validation_runs
    evidence,    \* per job: what publish_run_artifacts left on disk
    workspace,   \* jobs whose upload directory exists
    faults, crashes

pool  == <<slots, registered, cancelled, futures, queue>>
work  == <<at, mode, pct, seen>>
calls == <<callerAt, callerJob, callerSeen>>
disk  == <<row, history, evidence, workspace>>
bounds == <<faults, crashes>>
vars  == <<slots, registered, cancelled, futures, queue, request, at, mode, pct, seen,
           callerAt, callerJob, callerSeen, server, row, history, evidence, workspace,
           faults, crashes>>

Capacity == MaxWorkers + QueueCapacity

-----------------------------------------------------------------------------
(* Rows of the jobs table. *)

JobStates == {"absent", "queued", "cancelling", "preparing", "running",
              "reporting", "completed", "cancelled", "failed"}
Terminal  == {"completed", "cancelled", "failed"}

Row == [state : JobStates, progress : 0..100, run : BOOLEAN,
        result : BOOLEAN, artifact : BOOLEAN, error : BOOLEAN]

AbsentRow == [state |-> "absent", progress |-> 0, run |-> FALSE,
              result |-> FALSE, artifact |-> FALSE, error |-> FALSE]

\* create_job
QueuedRow == [AbsentRow EXCEPT !.state = "queued"]

(***************************************************************************)
(* update_job: a column whose argument is None keeps what the row read     *)
(* before said, except result_json, which get_job has dropped from it.     *)
(* Arguments: the state, the progress (-1 for None), and which of run_id,  *)
(* result, artifact_dir and error are given.                               *)
(***************************************************************************)
Merge(old, state, progress, given) ==
    [state    |-> state,
     progress |-> IF progress = -1 THEN old.progress ELSE progress,
     run      |-> old.run \/ "run" \in given,
     result   |-> "result" \in given,
     artifact |-> old.artifact \/ "artifact" \in given,
     error    |-> old.error \/ "error" \in given]

\* The points of _run that call update_job: what each writes...
UpdatePoints == {"preparing", "progress", "reporting", "completing", "cancel", "fail"}

Written(point, old, percent) ==
    CASE point = "preparing"  -> Merge(old, "preparing", 5, {})
      [] point = "progress"   -> Merge(old, "running", percent, {})
      [] point = "reporting"  -> Merge(old, "reporting", 90, {"run"})
      [] point = "completing" -> Merge(old, "completed", 100, {"run", "result", "artifact"})
      [] point = "cancel"     -> Merge(old, "cancelled", 100, {"error"})
      [] point = "fail"       -> Merge(old, "failed", 100, {"error"})

\* Mutant of After: the row is completed before anything is published.
AfterUnpublished(point) ==
    CASE point \in {"preparing", "progress"} -> "work"
      [] point = "reporting"                 -> "completing"
      [] OTHER                               -> "cleanup"

\* ... and where _run goes when it returns.
After(point) ==
    CASE point \in {"preparing", "progress"} -> "work"
      [] point = "reporting"                 -> "publish"
      [] OTHER                               -> "cleanup"

-----------------------------------------------------------------------------
(* The request: queue_validation and ValidationJobManager.submit. *)

\* submit() runs on the event loop without awaiting: one at a time.
Submitting == {"create", "register", "enqueue", "remember"}
LoopFree   == \A j \in Jobs : request[j] \notin Submitting

Goto(j, there) == request' = [request EXCEPT ![j] = there]

\* mkdtemp and the uploads; other requests go on while these are awaited.
Upload(j) ==
    /\ server = "open" /\ request[j] = "none" /\ LoopFree
    /\ Goto(j, "uploading")
    /\ workspace' = workspace \union {j}
    /\ UNCHANGED <<pool, work, calls, server, row, history, evidence, bounds>>

\* Too large, not a contract, an undeclared or missing reference: rmtree and raise.
UploadFails(j) ==
    /\ request[j] = "uploading" /\ LoopFree
    /\ Goto(j, "refused")
    /\ workspace' = workspace \ {j}
    /\ UNCHANGED <<pool, work, calls, server, row, history, evidence, bounds>>

Acquire(j) ==
    /\ request[j] = "uploading" /\ LoopFree
    /\ slots > 0
    /\ slots' = slots - 1
    /\ Goto(j, "create")
    /\ UNCHANGED <<registered, cancelled, futures, queue, work, calls, server, disk, bounds>>

\* JobQueueFull: status 429, and the upload directory is removed.
QueueFull(j) ==
    /\ request[j] = "uploading" /\ LoopFree
    /\ slots = 0
    /\ Goto(j, "refused")
    /\ workspace' = workspace \ {j}
    /\ UNCHANGED <<pool, work, calls, server, row, history, evidence, bounds>>

CreateJob(j) ==
    /\ request[j] = "create"
    /\ row' = [row EXCEPT ![j] = QueuedRow]
    /\ Goto(j, "register")
    /\ UNCHANGED <<pool, work, calls, server, history, evidence, workspace, bounds>>

\* Mutant of CreateFails: only a full queue has the upload directory removed.
CreateFailsKeepsUpload(j) ==
    /\ request[j] = "create" /\ faults < MaxFaults
    /\ faults' = faults + 1
    /\ Goto(j, "broken")
    /\ UNCHANGED <<pool, work, calls, server, disk, crashes>>

\* create_job raises: the permit that submit took is not given back.
CreateFails(j) ==
    /\ request[j] = "create" /\ faults < MaxFaults
    /\ faults' = faults + 1
    /\ Goto(j, "broken")
    /\ workspace' = workspace \ {j}
    /\ UNCHANGED <<pool, work, calls, server, row, history, evidence, crashes>>

Register(j) ==
    /\ request[j] = "register"
    /\ registered' = registered \union {j}
    /\ Goto(j, "enqueue")
    /\ UNCHANGED <<slots, cancelled, futures, queue, work, calls, server, disk, bounds>>

\* Mutant of Enqueue: the executor is given the job before its event is registered.
EnqueueFirst(j) ==
    /\ request[j] = "register"
    /\ queue' = Append(queue, j)
    /\ at' = [at EXCEPT ![j] = "queued"]
    /\ Goto(j, "remember")
    /\ UNCHANGED <<slots, registered, cancelled, futures, mode, pct, seen, calls, server,
                   disk, bounds>>

Enqueue(j) ==
    /\ request[j] = "enqueue"
    /\ queue' = Append(queue, j)
    /\ at' = [at EXCEPT ![j] = "queued"]
    /\ Goto(j, "remember")
    /\ UNCHANGED <<slots, registered, cancelled, futures, mode, pct, seen, calls, server,
                   disk, bounds>>

\* _futures[job_id] = future, which may come after the worker popped it.
Remember(j) ==
    /\ request[j] = "remember"
    /\ futures' = futures \union {j}
    /\ Goto(j, "accepted")
    /\ UNCHANGED <<slots, registered, cancelled, queue, work, calls, server, disk, bounds>>

Submit(j) == \/ Upload(j) \/ UploadFails(j) \/ Acquire(j) \/ QueueFull(j) \/ CreateJob(j)
             \/ CreateFails(j) \/ Register(j) \/ Enqueue(j) \/ Remember(j)

-----------------------------------------------------------------------------
(* The worker: ValidationJobManager._run and the checkpoints of validate_files. *)

Running == {j \in Jobs : at[j] \notin {"off", "queued", "done"}}

\* Mutant of Start: the latest job first.
StartLatest(j) ==
    /\ queue # <<>> /\ j = queue[Len(queue)]
    /\ Cardinality(Running) < MaxWorkers
    /\ queue' = SubSeq(queue, 1, Len(queue) - 1)
    /\ at' = [at EXCEPT ![j] = "preparing"]
    /\ UNCHANGED <<slots, registered, cancelled, futures, request, mode, pct, seen, calls,
                   server, disk, bounds>>

\* Mutant of Start: the pool stops taking items once it is shutting down.
StartWhileOpen(j) ==
    /\ queue # <<>> /\ j = Head(queue) /\ server = "open"
    /\ Cardinality(Running) < MaxWorkers
    /\ queue' = Tail(queue)
    /\ at' = [at EXCEPT ![j] = "preparing"]
    /\ UNCHANGED <<slots, registered, cancelled, futures, request, mode, pct, seen, calls,
                   server, disk, bounds>>

\* Mutant of Start: the worker begins with an event of its own.
StartFreshEvent(j) ==
    /\ queue # <<>> /\ j = Head(queue)
    /\ Cardinality(Running) < MaxWorkers
    /\ queue' = Tail(queue)
    /\ at' = [at EXCEPT ![j] = "preparing"]
    /\ cancelled' = cancelled \ {j}
    /\ UNCHANGED <<slots, registered, futures, request, mode, pct, seen, calls, server, disk,
                   bounds>>

Start(j) ==
    /\ queue # <<>> /\ j = Head(queue)
    /\ Cardinality(Running) < MaxWorkers
    /\ queue' = Tail(queue)
    /\ at' = [at EXCEPT ![j] = "preparing"]
    /\ UNCHANGED <<slots, registered, cancelled, futures, request, mode, pct, seen, calls,
                   server, disk, bounds>>

\* update_job, first half: get_job.
Read(j) ==
    /\ at[j] \in UpdatePoints /\ seen[j] = AbsentRow
    /\ seen' = [seen EXCEPT ![j] = row[j]]
    /\ UNCHANGED <<pool, request, at, mode, pct, calls, server, disk, bounds>>

\* update_job, second half: UPDATE jobs SET every column.
Write(j) ==
    /\ at[j] \in UpdatePoints /\ seen[j] # AbsentRow
    /\ row' = [row EXCEPT ![j] = Written(at[j], seen[j], pct[j])]
    /\ seen' = [seen EXCEPT ![j] = AbsentRow]
    /\ at' = [at EXCEPT ![j] = After(at[j])]
    /\ UNCHANGED <<pool, request, mode, pct, calls, server, history, evidence, workspace,
                   bounds>>

(***************************************************************************)
(* The stretches of validate_files between two checkpoints: where one      *)
(* leads, given the mode and the percent of the checkpoint before it.      *)
(* Memory mode reports 10, 25, 45, 65, 80, records the run, then 85;       *)
(* streaming reports 10, once per batch, and records the run.  A batch     *)
(* reports more than the one before (equal reports write the same row).    *)
(***************************************************************************)
Checkpoint(m, p) == [at |-> "check", mode |-> m, pct |-> p]
Recording(m, p)  == [at |-> "record", mode |-> m, pct |-> p]

\* Mutant of Batches: the reader gives the same batch again.
BatchesAgain(p) == {Checkpoint("streaming", q) : q \in {b \in BatchPercents : b >= p}}

Batches(p) == {Checkpoint("streaming", q) : q \in {b \in BatchPercents : b > p}}

Follow(m, p) ==
    CASE m = "unopened" /\ p = 0     -> {Checkpoint("unopened", 10)}
      [] m = "unopened" /\ p = 10    -> {Checkpoint("memory", 25), Recording("streaming", 10)}
                                         \union Batches(10)
      [] m = "memory" /\ p = 25      -> {Checkpoint("memory", 45)}
      [] m = "memory" /\ p = 45      -> {Checkpoint("memory", 65)}
      [] m = "memory" /\ p = 65      -> {Checkpoint("memory", 80)}
      [] m = "memory" /\ p = 80      -> {Recording("memory", 80)}
      [] m = "memory" /\ p = 85      -> {[at |-> "lastcheck", mode |-> m, pct |-> 85]}
      [] m = "streaming" /\ p > 0    -> {Recording("streaming", p)} \union Batches(p)
      [] OTHER                       -> {}

Advance(j) ==
    /\ at[j] = "work"
    /\ \E next \in Follow(mode[j], pct[j]) :
          /\ at' = [at EXCEPT ![j] = next.at]
          /\ mode' = [mode EXCEPT ![j] = next.mode]
          /\ pct' = [pct EXCEPT ![j] = next.pct]
    /\ UNCHANGED <<pool, request, seen, calls, server, disk, bounds>>

\* validate_files has returned or raised: its locals are gone.
Leave(j, there) ==
    /\ at' = [at EXCEPT ![j] = there]
    /\ mode' = [mode EXCEPT ![j] = "unopened"]
    /\ pct' = [pct EXCEPT ![j] = 0]

\* Mutant of ValidationFails: an exception no handler of _run catches.
ValidationFailsSilently(j) ==
    /\ at[j] = "work"
    /\ Leave(j, "cleanup")
    /\ UNCHANGED <<pool, request, seen, calls, server, disk, bounds>>

\* A limit, an unreadable contract or dataset...: any exception but a cancellation.
ValidationFails(j) ==
    /\ at[j] = "work"
    /\ Leave(j, "fail")
    /\ UNCHANGED <<pool, request, seen, calls, server, disk, bounds>>

\* _checkpoint: cancelled, then out of time, then the progress report.
Check(j) ==
    /\ at[j] = "check"
    /\ \/ j \in cancelled /\ Leave(j, "cancel")
       \/ j \notin cancelled /\ Leave(j, "fail")
       \/ /\ j \notin cancelled
          /\ at' = [at EXCEPT ![j] = "progress"]
          /\ UNCHANGED <<mode, pct>>
    /\ UNCHANGED <<pool, request, seen, calls, server, disk, bounds>>

\* append_history: the run is durable before the last chance to cancel it.
RecordHistory(j) ==
    /\ at[j] = "record"
    /\ history' = history \union {j}
    /\ \/ /\ mode[j] = "memory"
          /\ at' = [at EXCEPT ![j] = "check"]
          /\ pct' = [pct EXCEPT ![j] = 85]
       \/ /\ mode[j] = "streaming"
          /\ at' = [at EXCEPT ![j] = "lastcheck"]
          /\ UNCHANGED pct
    /\ UNCHANGED <<pool, request, mode, seen, calls, server, row, evidence, workspace, bounds>>

\* if cancel_event.is_set(): raise ValidationCancelled, before publication.
LastCheck(j) ==
    /\ at[j] = "lastcheck"
    /\ Leave(j, IF j \in cancelled THEN "cancel" ELSE "reporting")
    /\ UNCHANGED <<pool, request, seen, calls, server, disk, bounds>>

\* publish_run_artifacts, to its end (RunPublication has its steps).
Publish(j) ==
    /\ at[j] = "publish"
    /\ evidence' = [evidence EXCEPT ![j] = "published"]
    /\ at' = [at EXCEPT ![j] = "completing"]
    /\ UNCHANGED <<pool, request, mode, pct, seen, calls, server, row, history, workspace,
                   bounds>>

\* Reports over the size limit, or staging that cannot be written: nothing is left.
PublishFails(j) ==
    /\ at[j] = "publish"
    /\ at' = [at EXCEPT ![j] = "fail"]
    /\ UNCHANGED <<pool, request, mode, pct, seen, calls, server, disk, bounds>>

\* Mutant of StoreFails: what a handler raises escapes without the finally clause.
StoreFailsEscaping(j) ==
    /\ at[j] \in UpdatePoints \union {"record", "publish"} /\ faults < MaxFaults
    /\ faults' = faults + 1
    /\ Leave(j, IF at[j] \in {"cancel", "fail"} THEN "done" ELSE "fail")
    /\ seen' = [seen EXCEPT ![j] = AbsentRow]
    /\ evidence' = [evidence EXCEPT ![j] = IF at[j] = "publish" THEN "folder" ELSE @]
    /\ UNCHANGED <<pool, request, calls, server, row, history, workspace, crashes>>

(***************************************************************************)
(* The store raises: _run goes to its failure handler, and out of a        *)
(* handler to the finally clause.  In publish_run_artifacts the store is   *)
(* used after os.replace, so the folder stays.                             *)
(***************************************************************************)
StoreFails(j) ==
    /\ at[j] \in UpdatePoints \union {"record", "publish"} /\ faults < MaxFaults
    /\ faults' = faults + 1
    /\ Leave(j, IF at[j] \in {"cancel", "fail"} THEN "cleanup" ELSE "fail")
    /\ seen' = [seen EXCEPT ![j] = AbsentRow]
    /\ evidence' = [evidence EXCEPT ![j] = IF at[j] = "publish" THEN "folder" ELSE @]
    /\ UNCHANGED <<pool, request, calls, server, row, history, workspace, crashes>>

\* finally: rmtree of the upload directory...
Cleanup(j) ==
    /\ at[j] = "cleanup"
    /\ workspace' = workspace \ {j}
    /\ at' = [at EXCEPT ![j] = "forget"]
    /\ UNCHANGED <<pool, request, mode, pct, seen, calls, server, row, history, evidence,
                   bounds>>

\* Mutant of Forget: the permit is given back here as well.
ForgetAndRelease(j) ==
    /\ at[j] = "forget"
    /\ registered' = registered \ {j}
    /\ futures' = futures \ {j}
    /\ slots' = slots + 1
    /\ at' = [at EXCEPT ![j] = "release"]
    /\ UNCHANGED <<cancelled, queue, request, mode, pct, seen, calls, server, disk, bounds>>

\* ... pop from _cancel and _futures...
Forget(j) ==
    /\ at[j] = "forget"
    /\ registered' = registered \ {j}
    /\ futures' = futures \ {j}
    /\ at' = [at EXCEPT ![j] = "release"]
    /\ UNCHANGED <<slots, cancelled, queue, request, mode, pct, seen, calls, server, disk,
                   bounds>>

\* ... and _slots.release().
Release(j) ==
    /\ at[j] = "release"
    /\ slots' = slots + 1
    /\ at' = [at EXCEPT ![j] = "done"]
    /\ UNCHANGED <<registered, cancelled, futures, queue, request, mode, pct, seen, calls,
                   server, disk, bounds>>

Work(j) == \/ Start(j) \/ Read(j) \/ Write(j) \/ Advance(j) \/ ValidationFails(j) \/ Check(j)
           \/ RecordHistory(j) \/ LastCheck(j) \/ Publish(j) \/ PublishFails(j)
           \/ StoreFails(j) \/ Cleanup(j) \/ Forget(j) \/ Release(j)

-----------------------------------------------------------------------------
(* Cancellation: cancel_job and ValidationJobManager.cancel. *)

\* Mutant of Lookup: the row is looked at, and the event is never set.
LookupWithoutEvent(c, j) ==
    /\ callerAt[c] = "idle" /\ server = "open"
    /\ row[j].state # "absent" /\ j \in registered
    /\ callerAt' = [callerAt EXCEPT ![c] = "look"]
    /\ callerJob' = [callerJob EXCEPT ![c] = j]
    /\ UNCHANGED <<pool, request, work, callerSeen, server, disk, bounds>>

\* The row exists (or 404) and _cancel still has the job's event (or False).
Lookup(c, j) ==
    /\ callerAt[c] = "idle" /\ server = "open"
    /\ row[j].state # "absent" /\ j \in registered
    /\ callerAt' = [callerAt EXCEPT ![c] = "set"]
    /\ callerJob' = [callerJob EXCEPT ![c] = j]
    /\ UNCHANGED <<pool, request, work, callerSeen, server, disk, bounds>>

SetEvent(c) ==
    /\ callerAt[c] = "set"
    /\ cancelled' = cancelled \union {callerJob[c]}
    /\ callerAt' = [callerAt EXCEPT ![c] = "look"]
    /\ UNCHANGED <<slots, registered, futures, queue, request, work, callerJob, callerSeen,
                   server, disk, bounds>>

\* current = get_job(job_id): only a queued row is marked.
Look(c) ==
    /\ callerAt[c] = "look"
    /\ \/ /\ row[callerJob[c]].state = "queued"
          /\ callerAt' = [callerAt EXCEPT ![c] = "read"]
          /\ UNCHANGED callerJob
       \/ /\ row[callerJob[c]].state # "queued"
          /\ callerAt' = [callerAt EXCEPT ![c] = "idle"]
          /\ callerJob' = [callerJob EXCEPT ![c] = NoJob]
    /\ UNCHANGED <<pool, request, work, callerSeen, server, disk, bounds>>

\* update_job(state="cancelling"): the row is read again, then written.
CallerRead(c) ==
    /\ callerAt[c] = "read"
    /\ callerSeen' = [callerSeen EXCEPT ![c] = row[callerJob[c]]]
    /\ callerAt' = [callerAt EXCEPT ![c] = "write"]
    /\ UNCHANGED <<pool, request, work, callerJob, server, disk, bounds>>

CallerWrite(c) ==
    /\ callerAt[c] = "write"
    /\ row' = [row EXCEPT ![callerJob[c]] = Merge(callerSeen[c], "cancelling", -1, {})]
    /\ callerSeen' = [callerSeen EXCEPT ![c] = AbsentRow]
    /\ callerAt' = [callerAt EXCEPT ![c] = "idle"]
    /\ callerJob' = [callerJob EXCEPT ![c] = NoJob]
    /\ UNCHANGED <<pool, request, work, server, history, evidence, workspace, bounds>>

Cancel(c) == \/ \E j \in Jobs : Lookup(c, j)
             \/ SetEvent(c) \/ Look(c) \/ CallerRead(c) \/ CallerWrite(c)

-----------------------------------------------------------------------------
(* The process: lifespan shutdown, crash and restart. *)

\* uvicorn has answered every request; shutdown() sets every event it finds.
Shutdown ==
    /\ server = "open"
    /\ \A j \in Jobs : request[j] \notin Submitting \union {"uploading"}
    /\ \A c \in Callers : callerAt[c] = "idle"
    /\ server' = "closing"
    /\ cancelled' = cancelled \union registered
    /\ UNCHANGED <<slots, registered, futures, queue, request, work, calls, disk, bounds>>

\* _executor.shutdown(wait=True, cancel_futures=False) returns.
ShutdownReturns ==
    /\ server = "closing"
    /\ queue = <<>> /\ Running = {}
    /\ server' = "closed"
    /\ UNCHANGED <<pool, request, work, calls, disk, bounds>>

(***************************************************************************)
(* The process dies and a new one calls create_app: every thread and every *)
(* field of the manager starts afresh; the database, the report folders    *)
(* and the upload directories stay.  The jobs table is not looked at.      *)
(***************************************************************************)
Crash ==
    /\ crashes < MaxCrashes
    /\ crashes' = crashes + 1
    /\ slots' = Capacity /\ registered' = {} /\ cancelled' = {} /\ futures' = {}
    /\ queue' = <<>>
    /\ request' = [j \in Jobs |-> IF request[j] = "none" THEN "none" ELSE "lost"]
    /\ at' = [j \in Jobs |-> "off"]
    /\ mode' = [j \in Jobs |-> "unopened"] /\ pct' = [j \in Jobs |-> 0]
    /\ seen' = [j \in Jobs |-> AbsentRow]
    /\ callerAt' = [c \in Callers |-> "idle"] /\ callerJob' = [c \in Callers |-> NoJob]
    /\ callerSeen' = [c \in Callers |-> AbsentRow]
    /\ server' = "open"
    /\ \E cut \in SUBSET {j \in Jobs : at[j] = "publish"} :
          evidence' = [j \in Jobs |-> IF j \in cut THEN "folder" ELSE evidence[j]]
    /\ UNCHANGED <<row, history, workspace, faults>>

\* The application is down and stays down.
Stopped == server = "closed" /\ UNCHANGED vars

-----------------------------------------------------------------------------
Init ==
    /\ slots = Capacity /\ registered = {} /\ cancelled = {} /\ futures = {}
    /\ queue = <<>>
    /\ request = [j \in Jobs |-> "none"]
    /\ at = [j \in Jobs |-> "off"]
    /\ mode = [j \in Jobs |-> "unopened"] /\ pct = [j \in Jobs |-> 0]
    /\ seen = [j \in Jobs |-> AbsentRow]
    /\ callerAt = [c \in Callers |-> "idle"] /\ callerJob = [c \in Callers |-> NoJob]
    /\ callerSeen = [c \in Callers |-> AbsentRow]
    /\ server = "open"
    /\ row = [j \in Jobs |-> AbsentRow]
    /\ history = {} /\ evidence = [j \in Jobs |-> "none"] /\ workspace = {}
    /\ faults = 0 /\ crashes = 0

Next == \/ \E j \in Jobs : Submit(j) \/ Work(j)
        \/ \E c \in Callers : Cancel(c)
        \/ Shutdown \/ ShutdownReturns \/ Crash \/ Stopped

Spec == Init /\ [][Next]_vars

(***************************************************************************)
(* Threads run: a submit that began goes on, a pool thread takes the next  *)
(* item and finishes it, a cancel() that began returns.  Nothing makes a   *)
(* user upload or cancel, and nothing makes the application shut down.     *)
(***************************************************************************)
Fairness ==
    /\ \A j \in Jobs : /\ WF_vars(CreateJob(j) \/ Register(j) \/ Enqueue(j) \/ Remember(j))
                       /\ WF_vars(Work(j))
    /\ \A c \in Callers : WF_vars(SetEvent(c) \/ Look(c) \/ CallerRead(c) \/ CallerWrite(c))
    /\ WF_vars(ShutdownReturns)

FairSpec == Spec /\ Fairness

-----------------------------------------------------------------------------
(* Types. *)

RequestPoints == {"none", "uploading", "refused", "broken", "accepted", "lost"}
                 \union Submitting
WorkPoints == {"off", "queued", "work", "check", "record", "lastcheck", "publish",
               "cleanup", "forget", "release", "done"} \union UpdatePoints

\* Every variable keeps the type its Python or SQLite counterpart has.
TypeOK ==
    /\ slots \in 0..Capacity
    /\ registered \subseteq Jobs /\ cancelled \subseteq Jobs /\ futures \subseteq Jobs
    /\ queue \in Seq(Jobs)
    /\ request \in [Jobs -> RequestPoints]
    /\ at \in [Jobs -> WorkPoints]
    /\ mode \in [Jobs -> {"unopened", "memory", "streaming"}]
    /\ pct \in [Jobs -> 0..100]
    /\ seen \in [Jobs -> Row]
    /\ callerAt \in [Callers -> {"idle", "set", "look", "read", "write"}]
    /\ callerJob \in [Callers -> Jobs \union {NoJob}]
    /\ callerSeen \in [Callers -> Row]
    /\ server \in {"open", "closing", "closed"}
    /\ row \in [Jobs -> Row]
    /\ history \subseteq Jobs /\ workspace \subseteq Jobs
    /\ evidence \in [Jobs -> {"none", "folder", "published"}]
    /\ faults \in 0..MaxFaults /\ crashes \in 0..MaxCrashes

-----------------------------------------------------------------------------
(* Safety. *)

\* Jobs that hold a permit of _slots, the ones create_job failed on included.
Holders == {j \in Jobs : \/ request[j] \in {"create", "register", "enqueue", "broken"}
                         \/ at[j] \notin {"off", "done"}}

\* submit() and the finally clause of _run take and give back each permit exactly
\* once, whatever fails in between: the semaphore and the jobs in flight agree, so
\* no more than max_workers + queue_capacity jobs are ever admitted.
SlotsMatchHolders == slots + Cardinality(Holders) = Capacity

\* A job the pool has, waiting or running, can be found by cancel() and by
\* shutdown() until its row is final: submit() registers its event before the
\* executor sees it, and the finally clause forgets it last.
InFlightIsCancellable ==
    \A j \in Jobs : at[j] \notin {"off", "release", "done"} => j \in registered

\* cancel() marks a row "cancelling" on the strength of a read that may be stale by
\* then.  What it relies on: the event is set before the row is read, so a job that
\* was still queued then fails its first checkpoint and never runs or publishes.
MarkOnlyBeforeRunning ==
    \A c \in Callers : callerAt[c] \in {"read", "write"} =>
        LET j == callerJob[c]
        IN /\ row[j].state \notin {"absent", "running", "reporting", "completed"}
           /\ j \notin history /\ evidence[j] = "none"

\* "completed" with its result is the last thing ever written of a job: no late
\* cancel() or update with an older reading of the row takes it back.
CompletedIsFinal ==
    [][\A j \in Jobs : row[j].state = "completed" => row'[j] = row[j]]_vars

\* A completed row has its run in the history, its verified report folder in place,
\* and names both, across failures of the store, cancellations and crashes.
CompletedHasEvidence ==
    \A j \in Jobs :
        /\ row[j].state = "completed" =>
              /\ evidence[j] = "published"
              /\ row[j].run /\ row[j].result /\ row[j].artifact /\ ~row[j].error
        /\ evidence[j] # "none" => j \in history

\* When a worker has finished and the store has not failed, the row is final, but for
\* one race: a cancel() that read the row before the worker's last update writes
\* "cancelling" after it.  Such a job has produced nothing.
FinishedIsSettled ==
    \A j \in Jobs : at[j] = "done" /\ faults = 0 =>
        \/ row[j].state \in Terminal
        \/ row[j].state = "cancelling" /\ j \notin history /\ evidence[j] = "none"

\* The upload directory is there for as long as the job may read it and, unless the
\* process dies, gone afterwards, whoever removes it: the request or the worker.
UploadsLiveAsLongAsTheJob ==
    \A j \in Jobs :
        LET needed == \/ request[j] \in {"uploading", "create", "register", "enqueue"}
                      \/ at[j] \notin {"off", "forget", "release", "done"}
        IN /\ needed => j \in workspace
           /\ crashes = 0 /\ j \in workspace => needed

\* A job cancelled while it waits never publishes, however late its worker starts.
CancelledWaitingNeverPublishes ==
    \A j \in Jobs :
        [](at[j] = "queued" /\ j \in cancelled => [](evidence[j] = "none"))

-----------------------------------------------------------------------------
(* Liveness, under FairSpec. *)

\* Every job the executor was given gives its permit back.
WorkersFinish == \A j \in Jobs : at[j] = "queued" ~> at[j] = "done"

\* An accepted job that nobody cancels, shutdown() included, gets a final row.
UncancelledReachTerminal ==
    \A j \in Jobs : request[j] = "accepted" ~> (row[j].state \in Terminal \/ j \in cancelled)

\* Polling a job reaches a state the dashboard and the tests stop at.
JobsReachTerminal == \A j \in Jobs : request[j] = "accepted" ~> row[j].state \in Terminal

\* shutdown(wait=True) returns: jobs still queued run, meet their event and end.
ShutdownEnds == server = "closing" ~> server = "closed"

-----------------------------------------------------------------------------
(* The manager implements the abstract pool. *)

\* A job is admitted when its permit is taken, before the executor has it.
Admitted == {j \in Jobs : request[j] \in {"create", "register", "enqueue"}}
Line     == IF Admitted = {} THEN queue ELSE Append(queue, CHOOSE j \in Admitted : TRUE)
Fresh    == {j \in Jobs : request[j] \in {"none", "uploading", "refused"}}
Wasted   == {j \in Jobs : request[j] = "broken"}

Pool == INSTANCE BoundedPool WITH
            fresh <- Fresh, line <- Line, running <- Running, wasted <- Wasted

\* Requests, semaphore, executor and finally clauses together behave as the bounded
\* first-come first-served pool of BoundedPool, in every interleaving, with failures
\* of the store and restarts of the process.
ImplementsPool == Pool!Spec

\* Under fairness and without a restart, admitted jobs start and started jobs end.
ImplementsFairPool == Pool!FairSpec
=============================================================================
