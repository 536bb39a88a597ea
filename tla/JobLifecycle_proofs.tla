------------------------ MODULE JobLifecycle_proofs ------------------------
(***************************************************************************)
(* Theorems about JobLifecycle, for every set of jobs and callers, every   *)
(* pool and queue size, and any number of faults and crashes.              *)
(*                                                                         *)
(* The inductive invariant comes first, then lemmas about the operators of *)
(* the model, then one lemma per action (the action preserves each part of *)
(* the invariant), then the theorems.                                      *)
(***************************************************************************)
EXTENDS JobLifecycle, FiniteSetTheorems, TLAPS

-----------------------------------------------------------------------------
(* The inductive invariant. *)

\* Where a worker is once its row is final, or its last write was lost.
Ended == {"cleanup", "forget", "release", "done"}

\* A worker runs only what submit() has given to the executor.
StartedOK(j) ==
    /\ at[j] # "off" => request[j] \in {"remember", "accepted"}
    /\ request[j] \in {"remember", "accepted"} => at[j] # "off"

\* Nothing is known of a job before its row is there, and its row is clean before the
\* executor has it.
FreshOK(j) ==
    /\ request[j] \in {"none", "uploading", "create", "refused", "broken"} =>
          row[j] = AbsentRow /\ j \notin history
    /\ request[j] \in {"register", "enqueue"} =>
          row[j].state \in {"queued", "cancelling"} /\ ~row[j].error /\ j \notin history

\* The percent and mode of a validation that has not begun.
UnopenedOK(j) == at[j] \in {"off", "queued", "preparing"} => mode[j] = "unopened" /\ pct[j] = 0

\* A row that is still queued belongs to a job that has not begun or has failed to.
QueuedRowOK(j) ==
    row[j].state \in {"absent", "queued"} =>
        /\ at[j] \in {"off", "queued", "preparing", "fail"} \union Ended
        /\ j \notin history

\* What is reported and published is in the history first.
HistoryOK(j) ==
    /\ at[j] \in {"lastcheck", "reporting", "publish", "completing"} => j \in history
    /\ at[j] \in {"work", "check", "progress"} /\ mode[j] = "memory" /\ pct[j] = 85 => j \in history
    /\ at[j] = "completing" => evidence[j] = "published"
    /\ evidence[j] # "none" => j \in history

\* A completed or failed row was the worker's last.
FinalOK(j) ==
    /\ row[j].state = "completed" =>
          /\ at[j] \in {"off"} \union Ended
          /\ evidence[j] = "published"
          /\ row[j].run /\ row[j].result /\ row[j].artifact /\ ~row[j].error
    /\ row[j].error => at[j] \in {"off"} \union Ended
    /\ ~seen[j].error

\* The event is registered before the executor has the job, until its row is final.
RegisteredOK(j) ==
    /\ request[j] = "enqueue" \/ at[j] \notin {"off", "release", "done"} => j \in registered
    /\ j \in registered => request[j] \in {"enqueue", "remember", "accepted"}

\* The upload directory is there for as long as it is needed.
WorkspaceOK(j) ==
    LET needed == \/ request[j] \in {"uploading", "create", "register", "enqueue"}
                  \/ at[j] \notin {"off", "forget", "release", "done"}
    IN (needed => j \in workspace) /\ (crashes = 0 /\ j \in workspace => needed)

JobOK(j) ==
    /\ StartedOK(j) /\ FreshOK(j) /\ UnopenedOK(j) /\ QueuedRowOK(j) /\ HistoryOK(j)
    /\ FinalOK(j) /\ RegisteredOK(j) /\ WorkspaceOK(j)

\* A job whose row was still queued after its event was set: it has not got to its first
\* progress report, and its first checkpoint ends it.
Doomed(j) ==
    /\ j \in cancelled
    /\ at[j] \in {"off", "queued", "preparing", "work", "check", "cancel", "fail"} \union Ended
    /\ at[j] = "work" => mode[j] = "unopened" /\ pct[j] = 0
    /\ at[j] = "check" => mode[j] = "unopened" /\ pct[j] = 10
    /\ row[j].state \in {"queued", "cancelling", "preparing", "cancelled", "failed"}
    /\ j \notin history

\* What a cancel() that is on its way knows of its job.
CallerOK(c) ==
    /\ callerAt[c] # "idle" => /\ callerJob[c] \in Jobs
                               /\ request[callerJob[c]] \in {"enqueue", "remember", "accepted"}
    /\ callerAt[c] = "look" => callerJob[c] \in cancelled
    /\ callerAt[c] \in {"read", "write"} => Doomed(callerJob[c])
    /\ callerSeen[c].error => callerAt[c] = "write" /\ at[callerJob[c]] \in Ended

\* The executor's queue holds each waiting job once.
QueueOK ==
    /\ \A i \in DOMAIN queue : at[queue[i]] = "queued"
    /\ \A i, k \in DOMAIN queue : queue[i] = queue[k] => i = k

IInv == /\ TypeOK /\ SlotsMatchHolders /\ QueueOK
        /\ \A j \in Jobs : JobOK(j)
        /\ \A c \in Callers : CallerOK(c)

-----------------------------------------------------------------------------
(* The operators of the model. *)

\* Row, the type of the jobs table, is left unexpanded in most proofs: this is what they
\* need to know of it.
LEMMA RowFacts == AbsentRow \in Row /\ QueuedRow \in Row
<1>1. AbsentRow \in Row
  BY DEF Row, AbsentRow, JobStates
<1>2. \A r \in Row : [r EXCEPT !.state = "queued"] \in Row
  BY DEF Row, JobStates
<1> QED
  BY <1>1, <1>2 DEF QueuedRow

\* What update_job writes is a row, whatever it read before.
LEMMA MergeType ==
  ASSUME NEW old \in Row, NEW state \in JobStates, NEW progress \in 0..100 \union {-1}, NEW given
  PROVE  Merge(old, state, progress, given) \in Row
  BY DEF Merge, Row

LEMMA WrittenType ==
  ASSUME NEW point \in UpdatePoints, NEW old \in Row, NEW percent \in 0..100
  PROVE  Written(point, old, percent) \in Row
  BY MergeType DEF UpdatePoints, Written, JobStates

\* Marking a row "cancelling" gives it no error it did not have.
LEMMA MarkKeepsError ==
  ASSUME NEW old \in Row
  PROVE  LET marked == Merge(old, "cancelling", -1, {})
         IN marked.state = "cancelling" /\ (marked.error => old.error)
  BY DEF Merge, Row

\* Where _run goes after an update, and after a stretch of the validation.
LEMMA AfterType == \A point \in UpdatePoints : After(point) \in WorkPoints
  BY DEF UpdatePoints, After, WorkPoints

LEMMA FollowType ==
  ASSUME NEW m, NEW p \in 0..100, NEW next \in Follow(m, p)
  PROVE  next.at \in WorkPoints /\ next.mode \in {"unopened", "memory", "streaming"}
         /\ next.pct \in 0..100
  BY PercentsAssumption DEF Follow, Checkpoint, Recording, Batches, WorkPoints

\* A job that holds a permit leaves room for its release.
LEMMA HoldersFinite == IsFiniteSet(Holders) /\ Cardinality(Holders) \in Nat
  BY JobsAssumption, FS_Subset, FS_CardinalityType DEF Holders

LEMMA SlotsBound ==
  ASSUME TypeOK, SlotsMatchHolders, NEW j \in Jobs, at[j] \notin {"off", "done"}
  PROVE  slots + 1 \in 0..Capacity
<1>1. Holders # {}
  BY DEF Holders
<1>2. Cardinality(Holders) # 0
  BY <1>1, HoldersFinite, FS_EmptySet
<1> QED
  BY <1>2, HoldersFinite, PoolAssumption DEF SlotsMatchHolders, TypeOK, Capacity

-----------------------------------------------------------------------------
(* The actions. The assumptions on the constants are used throughout. *)

USE JobsAssumption, PoolAssumption, PercentsAssumption, BoundsAssumption DEF Capacity

\* The request and submit().

LEMMA UploadStep ==
  ASSUME IInv, NEW j \in Jobs, Upload(j)
  PROVE  IInv'
<1>1. TypeOK'
  BY RowFacts DEF IInv, Upload, Goto, bounds, calls, pool, work, TypeOK, RequestPoints,
     WorkPoints, Submitting, UpdatePoints
<1>2. QueueOK'
  BY DEF IInv, QueueOK, TypeOK, Upload, Goto, LoopFree, bounds, calls, pool, work
<1>3. SlotsMatchHolders'
  BY DEF IInv, SlotsMatchHolders, Holders, TypeOK, JobOK, StartedOK, Upload, Goto, LoopFree,
     bounds, calls, pool, work
<1>4. \A i \in Jobs : JobOK(i)'
  BY DEF IInv, TypeOK, JobOK, StartedOK, FreshOK, UnopenedOK, QueuedRowOK, HistoryOK,
     FinalOK, RegisteredOK, WorkspaceOK, Ended, AbsentRow, Upload, Goto, LoopFree, bounds,
     calls, pool, work
<1>5. \A d \in Callers : CallerOK(d)'
  BY DEF IInv, TypeOK, JobOK, StartedOK, FreshOK, QueuedRowOK, UnopenedOK, RegisteredOK,
     CallerOK, Doomed, Ended, AbsentRow, Upload, Goto, LoopFree, bounds, calls, pool, work
<1> QED
  BY <1>1, <1>2, <1>3, <1>4, <1>5 DEF IInv

LEMMA UploadFailsStep ==
  ASSUME IInv, NEW j \in Jobs, UploadFails(j)
  PROVE  IInv'
<1>1. TypeOK'
  BY RowFacts DEF IInv, UploadFails, Goto, bounds, calls, pool, work, TypeOK, RequestPoints,
     WorkPoints, Submitting, UpdatePoints
<1>2. QueueOK'
  BY DEF IInv, QueueOK, TypeOK, UploadFails, Goto, LoopFree, bounds, calls, pool, work
<1>3. SlotsMatchHolders'
  BY DEF IInv, SlotsMatchHolders, Holders, TypeOK, JobOK, StartedOK, UploadFails, Goto,
     LoopFree, bounds, calls, pool, work
<1>4. \A i \in Jobs : JobOK(i)'
  BY DEF IInv, TypeOK, JobOK, StartedOK, FreshOK, UnopenedOK, QueuedRowOK, HistoryOK,
     FinalOK, RegisteredOK, WorkspaceOK, Ended, AbsentRow, UploadFails, Goto, LoopFree,
     bounds, calls, pool, work
<1>5. \A d \in Callers : CallerOK(d)'
  BY DEF IInv, TypeOK, JobOK, StartedOK, FreshOK, QueuedRowOK, UnopenedOK, RegisteredOK,
     CallerOK, Doomed, Ended, AbsentRow, UploadFails, Goto, LoopFree, bounds, calls, pool,
     work
<1> QED
  BY <1>1, <1>2, <1>3, <1>4, <1>5 DEF IInv

LEMMA AcquireStep ==
  ASSUME IInv, NEW j \in Jobs, Acquire(j)
  PROVE  IInv'
<1>1. TypeOK'
  BY RowFacts DEF IInv, Acquire, Goto, bounds, calls, disk, work, TypeOK, RequestPoints,
     WorkPoints, Submitting, UpdatePoints
<1>2. QueueOK'
  BY DEF IInv, QueueOK, TypeOK, Acquire, Goto, LoopFree, bounds, calls, disk, work
<1>3. SlotsMatchHolders'
  <2>1. j \notin Holders /\ Holders' = Holders \union {j}
    BY DEF IInv, Holders, TypeOK, JobOK, StartedOK, Acquire, Goto, bounds, calls, disk, work
  <2>2. Cardinality(Holders') = Cardinality(Holders) + 1
    BY <2>1, HoldersFinite, FS_AddElement
  <2> QED
    BY <2>2, HoldersFinite DEF IInv, TypeOK, SlotsMatchHolders, Acquire
<1>4. \A i \in Jobs : JobOK(i)'
  BY DEF IInv, TypeOK, JobOK, StartedOK, FreshOK, UnopenedOK, QueuedRowOK, HistoryOK,
     FinalOK, RegisteredOK, WorkspaceOK, Ended, AbsentRow, Acquire, Goto, LoopFree, bounds,
     calls, disk, work
<1>5. \A d \in Callers : CallerOK(d)'
  BY DEF IInv, TypeOK, JobOK, StartedOK, FreshOK, QueuedRowOK, UnopenedOK, RegisteredOK,
     CallerOK, Doomed, Ended, AbsentRow, Acquire, Goto, LoopFree, bounds, calls, disk, work
<1> QED
  BY <1>1, <1>2, <1>3, <1>4, <1>5 DEF IInv

LEMMA QueueFullStep ==
  ASSUME IInv, NEW j \in Jobs, QueueFull(j)
  PROVE  IInv'
<1>1. TypeOK'
  BY RowFacts DEF IInv, QueueFull, Goto, bounds, calls, pool, work, TypeOK, RequestPoints,
     WorkPoints, Submitting, UpdatePoints
<1>2. QueueOK'
  BY DEF IInv, QueueOK, TypeOK, QueueFull, Goto, LoopFree, bounds, calls, pool, work
<1>3. SlotsMatchHolders'
  BY DEF IInv, SlotsMatchHolders, Holders, TypeOK, JobOK, StartedOK, QueueFull, Goto,
     LoopFree, bounds, calls, pool, work
<1>4. \A i \in Jobs : JobOK(i)'
  BY DEF IInv, TypeOK, JobOK, StartedOK, FreshOK, UnopenedOK, QueuedRowOK, HistoryOK,
     FinalOK, RegisteredOK, WorkspaceOK, Ended, AbsentRow, QueueFull, Goto, LoopFree,
     bounds, calls, pool, work
<1>5. \A d \in Callers : CallerOK(d)'
  BY DEF IInv, TypeOK, JobOK, StartedOK, FreshOK, QueuedRowOK, UnopenedOK, RegisteredOK,
     CallerOK, Doomed, Ended, AbsentRow, QueueFull, Goto, LoopFree, bounds, calls, pool,
     work
<1> QED
  BY <1>1, <1>2, <1>3, <1>4, <1>5 DEF IInv

LEMMA CreateJobStep ==
  ASSUME IInv, NEW j \in Jobs, CreateJob(j)
  PROVE  IInv'
<1>1. TypeOK'
  BY RowFacts DEF IInv, CreateJob, Goto, bounds, calls, pool, work, TypeOK, RequestPoints,
     WorkPoints, Submitting, UpdatePoints
<1>2. QueueOK'
  BY DEF IInv, QueueOK, TypeOK, CreateJob, Goto, QueuedRow, bounds, calls, pool, work
<1>3. SlotsMatchHolders'
  BY DEF IInv, SlotsMatchHolders, Holders, TypeOK, JobOK, StartedOK, CreateJob, Goto,
     QueuedRow, bounds, calls, pool, work
<1>4. \A i \in Jobs : JobOK(i)'
  BY DEF IInv, TypeOK, JobOK, StartedOK, FreshOK, UnopenedOK, QueuedRowOK, HistoryOK,
     FinalOK, RegisteredOK, WorkspaceOK, Ended, AbsentRow, CreateJob, Goto, QueuedRow,
     bounds, calls, pool, work
<1>5. \A d \in Callers : CallerOK(d)'
  BY DEF IInv, TypeOK, JobOK, StartedOK, FreshOK, QueuedRowOK, UnopenedOK, RegisteredOK,
     CallerOK, Doomed, Ended, AbsentRow, CreateJob, Goto, QueuedRow, bounds, calls, pool,
     work
<1> QED
  BY <1>1, <1>2, <1>3, <1>4, <1>5 DEF IInv

LEMMA CreateFailsStep ==
  ASSUME IInv, NEW j \in Jobs, CreateFails(j)
  PROVE  IInv'
<1>1. TypeOK'
  BY RowFacts DEF IInv, CreateFails, Goto, calls, pool, work, TypeOK, RequestPoints,
     WorkPoints, Submitting, UpdatePoints
<1>2. QueueOK'
  BY DEF IInv, QueueOK, TypeOK, CreateFails, Goto, calls, pool, work
<1>3. SlotsMatchHolders'
  BY DEF IInv, SlotsMatchHolders, Holders, TypeOK, JobOK, StartedOK, CreateFails, Goto,
     calls, pool, work
<1>4. \A i \in Jobs : JobOK(i)'
  BY DEF IInv, TypeOK, JobOK, StartedOK, FreshOK, UnopenedOK, QueuedRowOK, HistoryOK,
     FinalOK, RegisteredOK, WorkspaceOK, Ended, AbsentRow, CreateFails, Goto, calls, pool,
     work
<1>5. \A d \in Callers : CallerOK(d)'
  BY DEF IInv, TypeOK, JobOK, StartedOK, FreshOK, QueuedRowOK, UnopenedOK, RegisteredOK,
     CallerOK, Doomed, Ended, AbsentRow, CreateFails, Goto, calls, pool, work
<1> QED
  BY <1>1, <1>2, <1>3, <1>4, <1>5 DEF IInv

LEMMA RegisterStep ==
  ASSUME IInv, NEW j \in Jobs, Register(j)
  PROVE  IInv'
<1>1. TypeOK'
  BY RowFacts DEF IInv, Register, Goto, bounds, calls, disk, work, TypeOK, RequestPoints,
     WorkPoints, Submitting, UpdatePoints
<1>2. QueueOK'
  BY DEF IInv, QueueOK, TypeOK, Register, Goto, bounds, calls, disk, work
<1>3. SlotsMatchHolders'
  BY DEF IInv, SlotsMatchHolders, Holders, TypeOK, JobOK, StartedOK, Register, Goto, bounds,
     calls, disk, work
<1>4. \A i \in Jobs : JobOK(i)'
  BY DEF IInv, TypeOK, JobOK, StartedOK, FreshOK, UnopenedOK, QueuedRowOK, HistoryOK,
     FinalOK, RegisteredOK, WorkspaceOK, Ended, AbsentRow, Register, Goto, bounds, calls,
     disk, work
<1>5. \A d \in Callers : CallerOK(d)'
  BY DEF IInv, TypeOK, JobOK, StartedOK, FreshOK, QueuedRowOK, UnopenedOK, RegisteredOK,
     CallerOK, Doomed, Ended, AbsentRow, Register, Goto, bounds, calls, disk, work
<1> QED
  BY <1>1, <1>2, <1>3, <1>4, <1>5 DEF IInv

LEMMA EnqueueStep ==
  ASSUME IInv, NEW j \in Jobs, Enqueue(j)
  PROVE  IInv'
<1>1. TypeOK'
  <2>1. queue' \in Seq(Jobs)
    BY DEF IInv, TypeOK, Enqueue
  <2> QED
    BY <2>1 DEF IInv, Enqueue, Goto, bounds, calls, disk, TypeOK, RequestPoints, WorkPoints,
      Submitting
<1>2. QueueOK'
  <2>1. at[j] = "off" /\ at' = [at EXCEPT ![j] = "queued"] /\ queue' = Append(queue, j)
    BY DEF IInv, JobOK, StartedOK, Enqueue
  <2>2. \A i \in DOMAIN queue : queue[i] \in Jobs /\ queue[i] # j
    BY <2>1 DEF IInv, TypeOK, QueueOK
  <2>3. /\ DOMAIN queue' = DOMAIN queue \union {Len(queue) + 1}
        /\ Len(queue) + 1 \notin DOMAIN queue
        /\ queue'[Len(queue) + 1] = j
        /\ \A i \in DOMAIN queue : queue'[i] = queue[i]
    BY <2>1 DEF IInv, TypeOK
  <2>4. \A i \in DOMAIN queue' : at'[queue'[i]] = "queued"
    BY <2>1, <2>2, <2>3 DEF IInv, TypeOK, QueueOK
  <2>5. \A i, k \in DOMAIN queue' : queue'[i] = queue'[k] => i = k
    BY <2>2, <2>3, Zenon DEF IInv, QueueOK
  <2> QED
    BY <2>4, <2>5 DEF QueueOK
<1>3. SlotsMatchHolders'
  BY DEF IInv, SlotsMatchHolders, Holders, TypeOK, JobOK, StartedOK, Enqueue, Goto, bounds,
     calls, disk
<1>4. \A i \in Jobs : JobOK(i)'
  BY DEF IInv, TypeOK, JobOK, StartedOK, FreshOK, UnopenedOK, QueuedRowOK, HistoryOK,
     FinalOK, RegisteredOK, WorkspaceOK, Ended, AbsentRow, Enqueue, Goto, bounds, calls,
     disk
<1>5. \A d \in Callers : CallerOK(d)'
  BY DEF IInv, TypeOK, JobOK, StartedOK, FreshOK, QueuedRowOK, UnopenedOK, RegisteredOK,
     CallerOK, Doomed, Ended, AbsentRow, Enqueue, Goto, bounds, calls, disk
<1> QED
  BY <1>1, <1>2, <1>3, <1>4, <1>5 DEF IInv

LEMMA RememberStep ==
  ASSUME IInv, NEW j \in Jobs, Remember(j)
  PROVE  IInv'
<1>1. TypeOK'
  BY RowFacts DEF IInv, Remember, Goto, bounds, calls, disk, work, TypeOK, RequestPoints,
     WorkPoints, Submitting, UpdatePoints
<1>2. QueueOK'
  BY DEF IInv, QueueOK, TypeOK, Remember, Goto, bounds, calls, disk, work
<1>3. SlotsMatchHolders'
  BY DEF IInv, SlotsMatchHolders, Holders, TypeOK, JobOK, StartedOK, Remember, Goto, bounds,
     calls, disk, work
<1>4. \A i \in Jobs : JobOK(i)'
  BY DEF IInv, TypeOK, JobOK, StartedOK, FreshOK, UnopenedOK, QueuedRowOK, HistoryOK,
     FinalOK, RegisteredOK, WorkspaceOK, Ended, AbsentRow, Remember, Goto, bounds, calls,
     disk, work
<1>5. \A d \in Callers : CallerOK(d)'
  BY DEF IInv, TypeOK, JobOK, StartedOK, FreshOK, QueuedRowOK, UnopenedOK, RegisteredOK,
     CallerOK, Doomed, Ended, AbsentRow, Remember, Goto, bounds, calls, disk, work
<1> QED
  BY <1>1, <1>2, <1>3, <1>4, <1>5 DEF IInv

\* The worker: a job that starts was the one waiting longest.
LEMMA HeadWaits ==
  ASSUME IInv, NEW j \in Jobs, Start(j)
  PROVE  at[j] = "queued"
  BY DEF IInv, TypeOK, QueueOK, Start

LEMMA StartStep ==
  ASSUME IInv, NEW j \in Jobs, Start(j)
  PROVE  IInv'
<1>1. TypeOK'
  <2>1. queue' \in Seq(Jobs)
    BY DEF IInv, TypeOK, Start
  <2>2. at' \in [Jobs -> WorkPoints]
    BY DEF IInv, TypeOK, Start, WorkPoints, UpdatePoints
  <2> QED
    BY <2>1, <2>2 DEF IInv, TypeOK, Start, bounds, calls, disk
<1>2. QueueOK'
  <2>1. \A i \in DOMAIN queue' : /\ i + 1 \in DOMAIN queue /\ queue'[i] = queue[i + 1]
                                /\ queue[i + 1] \in Jobs /\ i \in Nat \ {0}
    BY DEF IInv, TypeOK, Start
  <2>2. 1 \in DOMAIN queue /\ j = queue[1]
    BY DEF IInv, TypeOK, Start
  <2>3. at' = [at EXCEPT ![j] = "preparing"]
    BY DEF Start
  <2>4. \A i \in DOMAIN queue' : queue'[i] # j
    <3>1. \A i, k \in DOMAIN queue : queue[i] = queue[k] => i = k
      BY DEF IInv, QueueOK
    <3>2. SUFFICES ASSUME NEW i \in DOMAIN queue', queue'[i] = j PROVE FALSE
      OBVIOUS
    <3>3. queue[i + 1] = queue[1] /\ i + 1 \in DOMAIN queue /\ i + 1 # 1
      BY <2>1, <2>2, <3>2
    <3> QED
      BY <2>2, <3>1, <3>3
  <2>5. \A i \in DOMAIN queue' : at'[queue'[i]] = "queued"
    BY <2>1, <2>3, <2>4 DEF IInv, TypeOK, QueueOK
  <2>6. \A i, k \in DOMAIN queue' : queue'[i] = queue'[k] => i = k
    BY <2>1 DEF IInv, QueueOK
  <2> QED
    BY <2>5, <2>6 DEF QueueOK
<1>3. SlotsMatchHolders'
  <2>1. Holders' = Holders
    BY HeadWaits DEF IInv, TypeOK, Holders, Start
  <2> QED
    BY <2>1 DEF IInv, SlotsMatchHolders, Start
<1>4. \A i \in Jobs : JobOK(i)'
  <2>1. /\ at[j] = "queued" /\ at' = [at EXCEPT ![j] = "preparing"]
        /\ UNCHANGED <<registered, request, mode, pct, seen, row, history, evidence, workspace,
                       crashes>>
    BY HeadWaits DEF Start, bounds, calls, disk
  <2> QED
    BY <2>1 DEF IInv, TypeOK, JobOK, StartedOK, FreshOK, UnopenedOK, QueuedRowOK, HistoryOK,
      FinalOK, RegisteredOK, WorkspaceOK, Ended, AbsentRow
<1>5. \A d \in Callers : CallerOK(d)'
  <2>1. /\ at[j] = "queued" /\ at' = [at EXCEPT ![j] = "preparing"]
        /\ UNCHANGED <<cancelled, request, mode, pct, row, history, calls>>
    BY HeadWaits DEF Start, bounds, calls, disk
  <2> QED
    BY <2>1 DEF IInv, TypeOK, JobOK, UnopenedOK, CallerOK, Doomed, Ended, calls
<1> QED
  BY <1>1, <1>2, <1>3, <1>4, <1>5 DEF IInv

LEMMA ReadStep ==
  ASSUME IInv, NEW j \in Jobs, Read(j)
  PROVE  IInv'
<1>1. TypeOK'
  BY RowFacts DEF IInv, Read, UpdatePoints, bounds, calls, disk, pool, TypeOK,
     RequestPoints, WorkPoints, Submitting
<1>2. QueueOK'
  BY DEF IInv, QueueOK, TypeOK, Read, UpdatePoints, bounds, calls, disk, pool
<1>3. SlotsMatchHolders'
  BY DEF IInv, SlotsMatchHolders, Holders, TypeOK, JobOK, StartedOK, Read, UpdatePoints,
     bounds, calls, disk, pool
<1>4. \A i \in Jobs : JobOK(i)'
  BY DEF IInv, TypeOK, JobOK, StartedOK, FreshOK, UnopenedOK, QueuedRowOK, HistoryOK,
     FinalOK, RegisteredOK, WorkspaceOK, Ended, AbsentRow, Read, UpdatePoints, bounds,
     calls, disk, pool
<1>5. \A d \in Callers : CallerOK(d)'
  BY DEF IInv, TypeOK, JobOK, StartedOK, FreshOK, QueuedRowOK, UnopenedOK, RegisteredOK,
     CallerOK, Doomed, Ended, AbsentRow, Read, UpdatePoints, bounds, calls, disk, pool
<1> QED
  BY <1>1, <1>2, <1>3, <1>4, <1>5 DEF IInv

LEMMA WriteStep ==
  ASSUME IInv, NEW j \in Jobs, Write(j)
  PROVE  IInv'
<1>1. TypeOK'
  <2>1. Written(at[j], seen[j], pct[j]) \in Row /\ After(at[j]) \in WorkPoints
    BY WrittenType, AfterType DEF IInv, TypeOK, Write
  <2> QED
    BY <2>1, RowFacts DEF IInv, TypeOK, Write, bounds, calls, pool
<1>2. QueueOK'
  BY DEF IInv, QueueOK, TypeOK, Write, After, UpdatePoints, Written, bounds, calls, pool,
     Merge
<1>3. SlotsMatchHolders'
  BY DEF IInv, SlotsMatchHolders, Holders, TypeOK, JobOK, StartedOK, Write, After,
     UpdatePoints, Written, bounds, calls, pool, Merge
<1>4. \A i \in Jobs : JobOK(i)'
  <2>1. /\ row' = [row EXCEPT ![j] = Written(at[j], seen[j], pct[j])]
        /\ seen' = [seen EXCEPT ![j] = AbsentRow]
        /\ at' = [at EXCEPT ![j] = After(at[j])]
        /\ at[j] \in UpdatePoints
        /\ UNCHANGED <<registered, request, mode, pct, history, evidence, workspace, crashes>>
    BY DEF Write, bounds, pool
  <2>2. \A i \in Jobs : StartedOK(i)' /\ RegisteredOK(i)' /\ WorkspaceOK(i)' /\ UnopenedOK(i)'
    BY <2>1 DEF IInv, TypeOK, JobOK, StartedOK, RegisteredOK, WorkspaceOK, UnopenedOK, After,
      UpdatePoints
  <2>3. \A i \in Jobs : HistoryOK(i)'
    BY <2>1 DEF IInv, TypeOK, JobOK, UnopenedOK, HistoryOK, After, UpdatePoints
  <2>4. /\ Written(at[j], seen[j], pct[j]).state \notin {"absent", "queued"}
        /\ Written(at[j], seen[j], pct[j]).error => at[j] \in {"cancel", "fail"}
        /\ Written(at[j], seen[j], pct[j]).state = "completed" =>
              /\ at[j] = "completing"
              /\ Written(at[j], seen[j], pct[j]).run /\ Written(at[j], seen[j], pct[j]).result
              /\ Written(at[j], seen[j], pct[j]).artifact
    <3> DEFINE w == Written(at[j], seen[j], pct[j])
    <3>1. ~seen[j].error
      BY DEF IInv, JobOK, FinalOK
    <3>2. CASE at[j] = "preparing"
      BY <3>1, <3>2 DEF Written, Merge
    <3>3. CASE at[j] = "progress"
      BY <3>1, <3>3 DEF Written, Merge
    <3>4. CASE at[j] = "reporting"
      BY <3>1, <3>4 DEF Written, Merge
    <3>5. CASE at[j] = "completing"
      BY <3>1, <3>5 DEF Written, Merge
    <3>6. CASE at[j] = "cancel"
      BY <3>1, <3>6 DEF Written, Merge
    <3>7. CASE at[j] = "fail"
      BY <3>1, <3>7 DEF Written, Merge
    <3> QED
      BY <2>1, <3>2, <3>3, <3>4, <3>5, <3>6, <3>7 DEF UpdatePoints
  <2>5. \A i \in Jobs : QueuedRowOK(i)'
    BY <2>1, <2>4 DEF IInv, TypeOK, JobOK, QueuedRowOK, After, UpdatePoints, Ended
  <2>6. \A i \in Jobs : FreshOK(i)'
    BY <2>1 DEF IInv, TypeOK, JobOK, FreshOK, StartedOK, UpdatePoints
  <2>7. \A i \in Jobs : FinalOK(i)'
    <3>1. ASSUME NEW i \in Jobs, i # j PROVE FinalOK(i)'
      BY <2>1, <3>1 DEF IInv, TypeOK, JobOK, FinalOK, After
    <3>2. row'[j] = Written(at[j], seen[j], pct[j]) /\ at'[j] = After(at[j])
          /\ seen'[j] = AbsentRow /\ evidence'[j] = evidence[j]
      BY <2>1 DEF IInv, TypeOK
    <3>3. at[j] \in {"completing", "cancel", "fail"} => at'[j] = "cleanup"
      BY <3>2 DEF After
    <3>4. at[j] = "completing" => evidence[j] = "published"
      BY DEF IInv, JobOK, HistoryOK
    <3>5. Written(at[j], seen[j], pct[j]).state = "completed" =>
             ~Written(at[j], seen[j], pct[j]).error
      BY <2>4
    <3>6. FinalOK(j)'
      BY <2>4, <3>2, <3>3, <3>4, <3>5 DEF FinalOK, Ended, AbsentRow
    <3> QED
      BY <3>1, <3>6
  <2> QED
    BY <2>2, <2>3, <2>5, <2>6, <2>7 DEF JobOK
<1>5. \A d \in Callers : CallerOK(d)'
  BY DEF IInv, TypeOK, JobOK, StartedOK, FreshOK, QueuedRowOK, UnopenedOK, RegisteredOK,
     CallerOK, Doomed, Ended, AbsentRow, Write, After, UpdatePoints, Written, bounds, calls,
     pool, Merge
<1> QED
  BY <1>1, <1>2, <1>3, <1>4, <1>5 DEF IInv

LEMMA AdvanceStep ==
  ASSUME IInv, NEW j \in Jobs, Advance(j)
  PROVE  IInv'
<1>1. TypeOK'
  <2>1. PICK next \in Follow(mode[j], pct[j]) :
            /\ at' = [at EXCEPT ![j] = next.at]
            /\ mode' = [mode EXCEPT ![j] = next.mode]
            /\ pct' = [pct EXCEPT ![j] = next.pct]
    BY DEF Advance
  <2>2. pct[j] \in 0..100
    BY DEF IInv, TypeOK
  <2>3. /\ next.at \in WorkPoints /\ next.mode \in {"unopened", "memory", "streaming"}
        /\ next.pct \in 0..100
    BY <2>2, FollowType
  <2> QED
    BY <2>1, <2>3 DEF IInv, TypeOK, Advance, bounds, calls, disk, pool
<1>2. QueueOK'
  BY DEF IInv, QueueOK, TypeOK, Advance, Follow, bounds, calls, disk, pool, Checkpoint,
     Recording, Batches
<1>3. SlotsMatchHolders'
  <2>1. \A next \in Follow(mode[j], pct[j]) : next.at \in {"check", "record", "lastcheck"}
    BY DEF Follow, Checkpoint, Recording, Batches
  <2>2. Holders' = Holders
    BY <2>1 DEF IInv, TypeOK, Holders, Advance
  <2> QED
    BY <2>2 DEF IInv, SlotsMatchHolders, Advance, pool
<1>4. \A i \in Jobs : JobOK(i)'
  BY DEF IInv, TypeOK, JobOK, StartedOK, FreshOK, UnopenedOK, QueuedRowOK, HistoryOK,
     FinalOK, RegisteredOK, WorkspaceOK, Ended, AbsentRow, Advance, Follow, bounds, calls,
     disk, pool, Checkpoint, Recording, Batches
<1>5. \A d \in Callers : CallerOK(d)'
  BY DEF IInv, TypeOK, JobOK, StartedOK, FreshOK, QueuedRowOK, UnopenedOK, RegisteredOK,
     CallerOK, Doomed, Ended, AbsentRow, Advance, Follow, bounds, calls, disk, pool,
     Checkpoint, Recording, Batches
<1> QED
  BY <1>1, <1>2, <1>3, <1>4, <1>5 DEF IInv

LEMMA ValidationFailsStep ==
  ASSUME IInv, NEW j \in Jobs, ValidationFails(j)
  PROVE  IInv'
<1>1. TypeOK'
  BY RowFacts DEF IInv, ValidationFails, Leave, bounds, calls, disk, pool, TypeOK,
     RequestPoints, WorkPoints, Submitting, UpdatePoints
<1>2. QueueOK'
  BY DEF IInv, QueueOK, TypeOK, ValidationFails, Leave, bounds, calls, disk, pool
<1>3. SlotsMatchHolders'
  BY DEF IInv, SlotsMatchHolders, Holders, TypeOK, JobOK, StartedOK, ValidationFails, Leave,
     bounds, calls, disk, pool
<1>4. \A i \in Jobs : JobOK(i)'
  BY DEF IInv, TypeOK, JobOK, StartedOK, FreshOK, UnopenedOK, QueuedRowOK, HistoryOK,
     FinalOK, RegisteredOK, WorkspaceOK, Ended, AbsentRow, ValidationFails, Leave, bounds,
     calls, disk, pool
<1>5. \A d \in Callers : CallerOK(d)'
  BY DEF IInv, TypeOK, JobOK, StartedOK, FreshOK, QueuedRowOK, UnopenedOK, RegisteredOK,
     CallerOK, Doomed, Ended, AbsentRow, ValidationFails, Leave, bounds, calls, disk, pool
<1> QED
  BY <1>1, <1>2, <1>3, <1>4, <1>5 DEF IInv

LEMMA CheckStep ==
  ASSUME IInv, NEW j \in Jobs, Check(j)
  PROVE  IInv'
<1>1. TypeOK'
  <2>1. CASE at' = [at EXCEPT ![j] = "progress"] /\ UNCHANGED <<mode, pct>>
    BY <2>1 DEF IInv, TypeOK, WorkPoints, UpdatePoints, Check, bounds, calls, disk, pool
  <2>2. CASE Leave(j, "cancel")
    BY <2>2 DEF IInv, TypeOK, WorkPoints, UpdatePoints, Check, Leave, bounds, calls, disk, pool
  <2>3. CASE Leave(j, "fail")
    BY <2>3 DEF IInv, TypeOK, WorkPoints, UpdatePoints, Check, Leave, bounds, calls, disk, pool
  <2> QED
    BY <2>1, <2>2, <2>3 DEF Check
<1>2. QueueOK'
  BY DEF IInv, QueueOK, TypeOK, Check, Leave, bounds, calls, disk, pool
<1>3. SlotsMatchHolders'
  <2>1. Holders' = Holders
    BY DEF IInv, TypeOK, Holders, Check, Leave
  <2> QED
    BY <2>1 DEF IInv, SlotsMatchHolders, Check, pool
<1>4. \A i \in Jobs : JobOK(i)'
  BY DEF IInv, TypeOK, JobOK, StartedOK, FreshOK, UnopenedOK, QueuedRowOK, HistoryOK,
     FinalOK, RegisteredOK, WorkspaceOK, Ended, AbsentRow, Check, Leave, bounds, calls,
     disk, pool
<1>5. \A d \in Callers : CallerOK(d)'
  BY DEF IInv, TypeOK, JobOK, StartedOK, FreshOK, QueuedRowOK, UnopenedOK, RegisteredOK,
     CallerOK, Doomed, Ended, AbsentRow, Check, Leave, bounds, calls, disk, pool
<1> QED
  BY <1>1, <1>2, <1>3, <1>4, <1>5 DEF IInv

LEMMA RecordHistoryStep ==
  ASSUME IInv, NEW j \in Jobs, RecordHistory(j)
  PROVE  IInv'
<1>1. TypeOK'
  <2>1. history' \subseteq Jobs
    BY DEF IInv, TypeOK, RecordHistory
  <2>2. at' \in [Jobs -> WorkPoints]
    BY DEF IInv, TypeOK, WorkPoints, RecordHistory
  <2>3. pct' \in [Jobs -> 0..100]
    <3>1. pct' = [pct EXCEPT ![j] = 85] \/ pct' = pct
      BY DEF RecordHistory
    <3>2. pct \in [Jobs -> 0..100] /\ 85 \in 0..100
      BY DEF IInv, TypeOK
    <3> QED
      BY <3>1, <3>2
  <2> QED
    BY <2>1, <2>2, <2>3 DEF IInv, TypeOK, RecordHistory, bounds, calls, pool
<1>2. QueueOK'
  BY DEF IInv, QueueOK, TypeOK, RecordHistory, bounds, calls, pool
<1>3. SlotsMatchHolders'
  BY DEF IInv, SlotsMatchHolders, Holders, TypeOK, JobOK, StartedOK, RecordHistory, bounds,
     calls, pool
<1>4. \A i \in Jobs : JobOK(i)'
  BY DEF IInv, TypeOK, JobOK, StartedOK, FreshOK, UnopenedOK, QueuedRowOK, HistoryOK,
     FinalOK, RegisteredOK, WorkspaceOK, Ended, AbsentRow, RecordHistory, bounds, calls,
     pool
<1>5. \A d \in Callers : CallerOK(d)'
  BY DEF IInv, TypeOK, JobOK, StartedOK, FreshOK, QueuedRowOK, UnopenedOK, RegisteredOK,
     CallerOK, Doomed, Ended, AbsentRow, RecordHistory, bounds, calls, pool
<1> QED
  BY <1>1, <1>2, <1>3, <1>4, <1>5 DEF IInv

LEMMA LastCheckStep ==
  ASSUME IInv, NEW j \in Jobs, LastCheck(j)
  PROVE  IInv'
<1>1. TypeOK'
  BY RowFacts DEF IInv, LastCheck, Leave, bounds, calls, disk, pool, TypeOK, RequestPoints,
     WorkPoints, Submitting, UpdatePoints
<1>2. QueueOK'
  BY DEF IInv, QueueOK, TypeOK, LastCheck, Leave, bounds, calls, disk, pool
<1>3. SlotsMatchHolders'
  BY DEF IInv, SlotsMatchHolders, Holders, TypeOK, JobOK, StartedOK, LastCheck, Leave,
     bounds, calls, disk, pool
<1>4. \A i \in Jobs : JobOK(i)'
  BY DEF IInv, TypeOK, JobOK, StartedOK, FreshOK, UnopenedOK, QueuedRowOK, HistoryOK,
     FinalOK, RegisteredOK, WorkspaceOK, Ended, AbsentRow, LastCheck, Leave, bounds, calls,
     disk, pool
<1>5. \A d \in Callers : CallerOK(d)'
  BY DEF IInv, TypeOK, JobOK, StartedOK, FreshOK, QueuedRowOK, UnopenedOK, RegisteredOK,
     CallerOK, Doomed, Ended, AbsentRow, LastCheck, Leave, bounds, calls, disk, pool
<1> QED
  BY <1>1, <1>2, <1>3, <1>4, <1>5 DEF IInv

LEMMA PublishStep ==
  ASSUME IInv, NEW j \in Jobs, Publish(j)
  PROVE  IInv'
<1>1. TypeOK'
  BY RowFacts DEF IInv, Publish, bounds, calls, pool, TypeOK, RequestPoints, WorkPoints,
     Submitting, UpdatePoints
<1>2. QueueOK'
  BY DEF IInv, QueueOK, TypeOK, Publish, bounds, calls, pool
<1>3. SlotsMatchHolders'
  BY DEF IInv, SlotsMatchHolders, Holders, TypeOK, JobOK, StartedOK, Publish, bounds, calls,
     pool
<1>4. \A i \in Jobs : JobOK(i)'
  BY DEF IInv, TypeOK, JobOK, StartedOK, FreshOK, UnopenedOK, QueuedRowOK, HistoryOK,
     FinalOK, RegisteredOK, WorkspaceOK, Ended, AbsentRow, Publish, bounds, calls, pool
<1>5. \A d \in Callers : CallerOK(d)'
  BY DEF IInv, TypeOK, JobOK, StartedOK, FreshOK, QueuedRowOK, UnopenedOK, RegisteredOK,
     CallerOK, Doomed, Ended, AbsentRow, Publish, bounds, calls, pool
<1> QED
  BY <1>1, <1>2, <1>3, <1>4, <1>5 DEF IInv

LEMMA PublishFailsStep ==
  ASSUME IInv, NEW j \in Jobs, PublishFails(j)
  PROVE  IInv'
<1>1. TypeOK'
  BY RowFacts DEF IInv, PublishFails, bounds, calls, disk, pool, TypeOK, RequestPoints,
     WorkPoints, Submitting, UpdatePoints
<1>2. QueueOK'
  BY DEF IInv, QueueOK, TypeOK, PublishFails, bounds, calls, disk, pool
<1>3. SlotsMatchHolders'
  BY DEF IInv, SlotsMatchHolders, Holders, TypeOK, JobOK, StartedOK, PublishFails, bounds,
     calls, disk, pool
<1>4. \A i \in Jobs : JobOK(i)'
  BY DEF IInv, TypeOK, JobOK, StartedOK, FreshOK, UnopenedOK, QueuedRowOK, HistoryOK,
     FinalOK, RegisteredOK, WorkspaceOK, Ended, AbsentRow, PublishFails, bounds, calls,
     disk, pool
<1>5. \A d \in Callers : CallerOK(d)'
  BY DEF IInv, TypeOK, JobOK, StartedOK, FreshOK, QueuedRowOK, UnopenedOK, RegisteredOK,
     CallerOK, Doomed, Ended, AbsentRow, PublishFails, bounds, calls, disk, pool
<1> QED
  BY <1>1, <1>2, <1>3, <1>4, <1>5 DEF IInv

LEMMA StoreFailsStep ==
  ASSUME IInv, NEW j \in Jobs, StoreFails(j)
  PROVE  IInv'
<1>1. TypeOK'
  BY RowFacts DEF IInv, StoreFails, Leave, UpdatePoints, calls, pool, TypeOK, RequestPoints,
     WorkPoints, Submitting
<1>2. QueueOK'
  BY DEF IInv, QueueOK, TypeOK, StoreFails, Leave, UpdatePoints, calls, pool
<1>3. SlotsMatchHolders'
  BY DEF IInv, SlotsMatchHolders, Holders, TypeOK, JobOK, StartedOK, StoreFails, Leave,
     UpdatePoints, calls, pool
<1>4. \A i \in Jobs : JobOK(i)'
  BY DEF IInv, TypeOK, JobOK, StartedOK, FreshOK, UnopenedOK, QueuedRowOK, HistoryOK,
     FinalOK, RegisteredOK, WorkspaceOK, Ended, AbsentRow, StoreFails, Leave, UpdatePoints,
     calls, pool
<1>5. \A d \in Callers : CallerOK(d)'
  BY DEF IInv, TypeOK, JobOK, StartedOK, FreshOK, QueuedRowOK, UnopenedOK, RegisteredOK,
     CallerOK, Doomed, Ended, AbsentRow, StoreFails, Leave, UpdatePoints, calls, pool
<1> QED
  BY <1>1, <1>2, <1>3, <1>4, <1>5 DEF IInv

LEMMA CleanupStep ==
  ASSUME IInv, NEW j \in Jobs, Cleanup(j)
  PROVE  IInv'
<1>1. TypeOK'
  BY RowFacts DEF IInv, Cleanup, bounds, calls, pool, TypeOK, RequestPoints, WorkPoints,
     Submitting, UpdatePoints
<1>2. QueueOK'
  BY DEF IInv, QueueOK, TypeOK, Cleanup, bounds, calls, pool
<1>3. SlotsMatchHolders'
  BY DEF IInv, SlotsMatchHolders, Holders, TypeOK, JobOK, StartedOK, Cleanup, bounds, calls,
     pool
<1>4. \A i \in Jobs : JobOK(i)'
  BY DEF IInv, TypeOK, JobOK, StartedOK, FreshOK, UnopenedOK, QueuedRowOK, HistoryOK,
     FinalOK, RegisteredOK, WorkspaceOK, Ended, AbsentRow, Cleanup, bounds, calls, pool
<1>5. \A d \in Callers : CallerOK(d)'
  BY DEF IInv, TypeOK, JobOK, StartedOK, FreshOK, QueuedRowOK, UnopenedOK, RegisteredOK,
     CallerOK, Doomed, Ended, AbsentRow, Cleanup, bounds, calls, pool
<1> QED
  BY <1>1, <1>2, <1>3, <1>4, <1>5 DEF IInv

LEMMA ForgetStep ==
  ASSUME IInv, NEW j \in Jobs, Forget(j)
  PROVE  IInv'
<1>1. TypeOK'
  BY RowFacts DEF IInv, Forget, bounds, calls, disk, TypeOK, RequestPoints, WorkPoints,
     Submitting, UpdatePoints
<1>2. QueueOK'
  BY DEF IInv, QueueOK, TypeOK, Forget, bounds, calls, disk
<1>3. SlotsMatchHolders'
  BY DEF IInv, SlotsMatchHolders, Holders, TypeOK, JobOK, StartedOK, Forget, bounds, calls,
     disk
<1>4. \A i \in Jobs : JobOK(i)'
  BY DEF IInv, TypeOK, JobOK, StartedOK, FreshOK, UnopenedOK, QueuedRowOK, HistoryOK,
     FinalOK, RegisteredOK, WorkspaceOK, Ended, AbsentRow, Forget, bounds, calls, disk
<1>5. \A d \in Callers : CallerOK(d)'
  BY DEF IInv, TypeOK, JobOK, StartedOK, FreshOK, QueuedRowOK, UnopenedOK, RegisteredOK,
     CallerOK, Doomed, Ended, AbsentRow, Forget, bounds, calls, disk
<1> QED
  BY <1>1, <1>2, <1>3, <1>4, <1>5 DEF IInv

LEMMA ReleaseStep ==
  ASSUME IInv, NEW j \in Jobs, Release(j)
  PROVE  IInv'
<1>1. TypeOK'
  <2>1. slots' \in 0..Capacity
    BY SlotsBound DEF IInv, Release
  <2> QED
    BY <2>1 DEF IInv, TypeOK, WorkPoints, Release, bounds, calls, disk
<1>2. QueueOK'
  BY DEF IInv, QueueOK, TypeOK, Release, bounds, calls, disk
<1>3. SlotsMatchHolders'
  <2>1. j \in Holders /\ Holders' = Holders \ {j}
    BY DEF IInv, Holders, TypeOK, JobOK, StartedOK, Release
  <2>2. Cardinality(Holders') = Cardinality(Holders) - 1
    BY <2>1, HoldersFinite, FS_RemoveElement
  <2> QED
    BY <2>2, HoldersFinite DEF IInv, TypeOK, SlotsMatchHolders, Release
<1>4. \A i \in Jobs : JobOK(i)'
  BY DEF IInv, TypeOK, JobOK, StartedOK, FreshOK, UnopenedOK, QueuedRowOK, HistoryOK,
     FinalOK, RegisteredOK, WorkspaceOK, Ended, AbsentRow, Release, bounds, calls, disk
<1>5. \A d \in Callers : CallerOK(d)'
  BY DEF IInv, TypeOK, JobOK, StartedOK, FreshOK, QueuedRowOK, UnopenedOK, RegisteredOK,
     CallerOK, Doomed, Ended, AbsentRow, Release, bounds, calls, disk
<1> QED
  BY <1>1, <1>2, <1>3, <1>4, <1>5 DEF IInv

\* cancel().
LEMMA SetEventStep ==
  ASSUME IInv, NEW c \in Callers, SetEvent(c)
  PROVE  IInv'
<1>1. TypeOK'
  <2>1. callerJob[c] \in Jobs
    BY DEF IInv, CallerOK, SetEvent
  <2> QED
    BY <2>1 DEF IInv, TypeOK, SetEvent, bounds, disk, work
<1>2. QueueOK'
  BY DEF IInv, QueueOK, TypeOK, SetEvent, bounds, disk, work
<1>3. SlotsMatchHolders'
  BY DEF IInv, SlotsMatchHolders, Holders, TypeOK, JobOK, StartedOK, SetEvent, bounds, disk,
     work
<1>4. \A i \in Jobs : JobOK(i)'
  BY DEF IInv, TypeOK, JobOK, StartedOK, FreshOK, UnopenedOK, QueuedRowOK, HistoryOK,
     FinalOK, RegisteredOK, WorkspaceOK, Ended, AbsentRow, SetEvent, bounds, disk, work
<1>5. \A d \in Callers : CallerOK(d)'
  BY DEF IInv, TypeOK, JobOK, StartedOK, FreshOK, QueuedRowOK, UnopenedOK, RegisteredOK,
     CallerOK, Doomed, Ended, AbsentRow, SetEvent, bounds, disk, work
<1> QED
  BY <1>1, <1>2, <1>3, <1>4, <1>5 DEF IInv

LEMMA LookStep ==
  ASSUME IInv, NEW c \in Callers, Look(c)
  PROVE  IInv'
<1>1. TypeOK'
  BY RowFacts DEF IInv, Look, bounds, disk, pool, work, TypeOK, RequestPoints, WorkPoints,
     Submitting, UpdatePoints
<1>2. QueueOK'
  BY DEF IInv, QueueOK, TypeOK, Look, bounds, disk, pool, work
<1>3. SlotsMatchHolders'
  BY DEF IInv, SlotsMatchHolders, Holders, TypeOK, JobOK, StartedOK, Look, bounds, disk,
     pool, work
<1>4. \A i \in Jobs : JobOK(i)'
  BY DEF IInv, TypeOK, JobOK, StartedOK, FreshOK, UnopenedOK, QueuedRowOK, HistoryOK,
     FinalOK, RegisteredOK, WorkspaceOK, Ended, AbsentRow, Look, bounds, disk, pool, work
<1>5. \A d \in Callers : CallerOK(d)'
  BY DEF IInv, TypeOK, JobOK, StartedOK, FreshOK, QueuedRowOK, UnopenedOK, RegisteredOK,
     CallerOK, Doomed, Ended, AbsentRow, Look, bounds, disk, pool, work
<1> QED
  BY <1>1, <1>2, <1>3, <1>4, <1>5 DEF IInv

LEMMA CallerReadStep ==
  ASSUME IInv, NEW c \in Callers, CallerRead(c)
  PROVE  IInv'
<1>1. TypeOK'
  <2>1. callerJob[c] \in Jobs
    BY DEF IInv, CallerOK, CallerRead
  <2> QED
    BY <2>1 DEF IInv, TypeOK, CallerRead, bounds, disk, pool, work
<1>2. QueueOK'
  BY DEF IInv, QueueOK, TypeOK, CallerRead, bounds, disk, pool, work
<1>3. SlotsMatchHolders'
  BY DEF IInv, SlotsMatchHolders, Holders, TypeOK, JobOK, StartedOK, CallerRead, bounds,
     disk, pool, work
<1>4. \A i \in Jobs : JobOK(i)'
  BY DEF IInv, TypeOK, JobOK, StartedOK, FreshOK, UnopenedOK, QueuedRowOK, HistoryOK,
     FinalOK, RegisteredOK, WorkspaceOK, Ended, AbsentRow, CallerRead, bounds, disk, pool,
     work
<1>5. \A d \in Callers : CallerOK(d)'
  <2>1. /\ callerJob[c] \in Jobs /\ Doomed(callerJob[c])
        /\ request[callerJob[c]] \in {"enqueue", "remember", "accepted"}
    BY DEF IInv, CallerOK, CallerRead
  <2>2. row[callerJob[c]].error => at[callerJob[c]] \in Ended
    BY <2>1 DEF IInv, JobOK, FinalOK, FreshOK, StartedOK
  <2> QED
    BY <2>1, <2>2 DEF IInv, TypeOK, CallerOK, Doomed, CallerRead, bounds, disk, pool, work
<1> QED
  BY <1>1, <1>2, <1>3, <1>4, <1>5 DEF IInv

LEMMA CallerWriteStep ==
  ASSUME IInv, NEW c \in Callers, CallerWrite(c)
  PROVE  IInv'
<1>1. TypeOK'
  <2>1. callerJob[c] \in Jobs
    BY DEF IInv, CallerOK, CallerWrite
  <2>2. Merge(callerSeen[c], "cancelling", -1, {}) \in Row
    BY MergeType DEF IInv, TypeOK, JobStates
  <2> QED
    BY <2>1, <2>2, RowFacts DEF IInv, TypeOK, CallerWrite, bounds, pool, work
<1>2. QueueOK'
  BY DEF IInv, QueueOK, TypeOK, CallerWrite, Merge, bounds, pool, work
<1>3. SlotsMatchHolders'
  BY DEF IInv, SlotsMatchHolders, Holders, TypeOK, JobOK, StartedOK, CallerWrite, Merge,
     bounds, pool, work
<1>4. \A i \in Jobs : JobOK(i)'
  <2>1. PICK j \in Jobs : j = callerJob[c]
    BY DEF IInv, CallerOK, CallerWrite
  <2>2. /\ Doomed(j) /\ request[j] \in {"enqueue", "remember", "accepted"}
        /\ callerSeen[c].error => at[j] \in Ended
    BY <2>1 DEF IInv, CallerOK, CallerWrite
  <2>3. row'[j] = Merge(callerSeen[c], "cancelling", -1, {})
    BY <2>1 DEF IInv, TypeOK, CallerWrite
  <2>4. row'[j].state = "cancelling" /\ (row'[j].error => callerSeen[c].error)
    <3>1. callerSeen[c] \in Row
      BY DEF IInv, TypeOK
    <3> QED
      BY <2>3, <3>1, MarkKeepsError
  <2>5. \A i \in Jobs : i # j => row'[i] = row[i]
    BY <2>1 DEF IInv, TypeOK, CallerWrite
  <2>6. UNCHANGED <<at, mode, pct, seen, request, registered, history, evidence, workspace, crashes>>
    BY DEF CallerWrite, bounds, pool, work
  <2>7. ASSUME NEW i \in Jobs, i # j PROVE JobOK(i)'
    BY <2>5, <2>6, <2>7 DEF IInv, JobOK, StartedOK, FreshOK, UnopenedOK, QueuedRowOK,
      HistoryOK, FinalOK, RegisteredOK, WorkspaceOK
  <2>8. JobOK(j)'
    <3>1. JobOK(j)
      BY DEF IInv
    <3>2. row'[j].error => at[j] \in Ended
      BY <2>2, <2>4
    <3>3. ~row'[j].error \/ at[j] \in Ended
      BY <3>2
    <3>4. FreshOK(j)' /\ StartedOK(j)' /\ UnopenedOK(j)' /\ RegisteredOK(j)' /\ WorkspaceOK(j)'
      BY <2>2, <2>4, <2>6, <3>1, <3>3 DEF JobOK, StartedOK, FreshOK, UnopenedOK, RegisteredOK,
        WorkspaceOK, Ended, Doomed
    <3>5. QueuedRowOK(j)' /\ HistoryOK(j)' /\ FinalOK(j)'
      BY <2>2, <2>4, <2>6, <3>1, <3>3 DEF JobOK, QueuedRowOK, HistoryOK, FinalOK, Ended
    <3> QED
      BY <3>4, <3>5 DEF JobOK
  <2> QED
    BY <2>7, <2>8
<1>5. \A d \in Callers : CallerOK(d)'
  BY DEF IInv, TypeOK, JobOK, StartedOK, FreshOK, QueuedRowOK, UnopenedOK, RegisteredOK,
     CallerOK, Doomed, Ended, AbsentRow, CallerWrite, Merge, bounds, pool, work
<1> QED
  BY <1>1, <1>2, <1>3, <1>4, <1>5 DEF IInv

LEMMA LookupStep ==
  ASSUME IInv, NEW c \in Callers, NEW j \in Jobs, Lookup(c, j)
  PROVE  IInv'
<1>1. TypeOK'
  BY RowFacts DEF IInv, Lookup, bounds, disk, pool, work, TypeOK, RequestPoints, WorkPoints,
     Submitting, UpdatePoints
<1>2. QueueOK'
  BY DEF IInv, QueueOK, TypeOK, Lookup, bounds, disk, pool, work
<1>3. SlotsMatchHolders'
  BY DEF IInv, SlotsMatchHolders, Holders, TypeOK, JobOK, StartedOK, Lookup, bounds, disk,
     pool, work
<1>4. \A i \in Jobs : JobOK(i)'
  BY DEF IInv, TypeOK, JobOK, StartedOK, FreshOK, UnopenedOK, QueuedRowOK, HistoryOK,
     FinalOK, RegisteredOK, WorkspaceOK, Ended, AbsentRow, Lookup, bounds, disk, pool, work
<1>5. \A d \in Callers : CallerOK(d)'
  BY DEF IInv, TypeOK, JobOK, StartedOK, FreshOK, QueuedRowOK, UnopenedOK, RegisteredOK,
     CallerOK, Doomed, Ended, AbsentRow, Lookup, bounds, disk, pool, work
<1> QED
  BY <1>1, <1>2, <1>3, <1>4, <1>5 DEF IInv

\* The process.
LEMMA ShutdownStep ==
  ASSUME IInv, Shutdown
  PROVE  IInv'
<1>1. TypeOK'
  BY RowFacts DEF IInv, Shutdown, Submitting, bounds, calls, disk, work, TypeOK,
     RequestPoints, WorkPoints, UpdatePoints
<1>2. QueueOK'
  BY DEF IInv, QueueOK, TypeOK, Shutdown, Submitting, bounds, calls, disk, work
<1>3. SlotsMatchHolders'
  BY DEF IInv, SlotsMatchHolders, Holders, TypeOK, JobOK, StartedOK, Shutdown, Submitting,
     bounds, calls, disk, work
<1>4. \A i \in Jobs : JobOK(i)'
  BY DEF IInv, TypeOK, JobOK, StartedOK, FreshOK, UnopenedOK, QueuedRowOK, HistoryOK,
     FinalOK, RegisteredOK, WorkspaceOK, Ended, AbsentRow, Shutdown, Submitting, bounds,
     calls, disk, work
<1>5. \A d \in Callers : CallerOK(d)'
  BY DEF IInv, TypeOK, JobOK, StartedOK, FreshOK, QueuedRowOK, UnopenedOK, RegisteredOK,
     CallerOK, Doomed, Ended, AbsentRow, Shutdown, Submitting, bounds, calls, disk, work
<1> QED
  BY <1>1, <1>2, <1>3, <1>4, <1>5 DEF IInv

LEMMA ShutdownReturnsStep ==
  ASSUME IInv, ShutdownReturns
  PROVE  IInv'
<1>1. TypeOK'
  BY RowFacts DEF IInv, ShutdownReturns, bounds, calls, disk, pool, work, TypeOK,
     RequestPoints, WorkPoints, Submitting, UpdatePoints
<1>2. QueueOK'
  BY DEF IInv, QueueOK, TypeOK, ShutdownReturns, Running, bounds, calls, disk, pool, work
<1>3. SlotsMatchHolders'
  BY DEF IInv, SlotsMatchHolders, Holders, TypeOK, JobOK, StartedOK, ShutdownReturns,
     Running, bounds, calls, disk, pool, work
<1>4. \A i \in Jobs : JobOK(i)'
  BY DEF IInv, TypeOK, JobOK, StartedOK, FreshOK, UnopenedOK, QueuedRowOK, HistoryOK,
     FinalOK, RegisteredOK, WorkspaceOK, Ended, AbsentRow, ShutdownReturns, Running, bounds,
     calls, disk, pool, work
<1>5. \A d \in Callers : CallerOK(d)'
  BY DEF IInv, TypeOK, JobOK, StartedOK, FreshOK, QueuedRowOK, UnopenedOK, RegisteredOK,
     CallerOK, Doomed, Ended, AbsentRow, ShutdownReturns, Running, bounds, calls, disk,
     pool, work
<1> QED
  BY <1>1, <1>2, <1>3, <1>4, <1>5 DEF IInv

LEMMA CrashStep ==
  ASSUME IInv, Crash
  PROVE  IInv'
<1>1. TypeOK'
  BY RowFacts DEF IInv, Crash, Capacity, TypeOK, RequestPoints, WorkPoints, Submitting,
     UpdatePoints
<1>2. QueueOK'
  BY DEF IInv, QueueOK, TypeOK, Crash, Capacity
<1>3. SlotsMatchHolders'
  <2>1. Holders' = {}
    BY DEF Holders, Crash
  <2> QED
    BY <2>1, FS_EmptySet DEF SlotsMatchHolders, Crash
<1>4. \A i \in Jobs : JobOK(i)'
  <2>1. PICK cut \in SUBSET {j \in Jobs : at[j] = "publish"} :
            evidence' = [j \in Jobs |-> IF j \in cut THEN "folder" ELSE evidence[j]]
    BY DEF Crash
  <2>2. ASSUME NEW j \in Jobs PROVE JobOK(j)'
    <3>1. /\ at'[j] = "off" /\ request'[j] = IF request[j] = "none" THEN "none" ELSE "lost"
          /\ mode'[j] = "unopened" /\ pct'[j] = 0 /\ seen'[j] = AbsentRow
          /\ registered' = {} /\ row'[j] = row[j] /\ history' = history
          /\ workspace' = workspace /\ crashes' = crashes + 1 /\ crashes \in Nat
      BY DEF Crash, IInv, TypeOK
    <3>2. evidence'[j] = evidence[j] \/ (at[j] = "publish" /\ evidence'[j] = "folder")
      BY <2>1
    <3>3. JobOK(j)
      BY DEF IInv
    <3> QED
      BY <3>1, <3>2, <3>3 DEF JobOK, StartedOK, FreshOK, UnopenedOK, QueuedRowOK, HistoryOK,
        FinalOK, RegisteredOK, WorkspaceOK, Ended, AbsentRow
  <2> QED
    BY <2>2
<1>5. \A d \in Callers : CallerOK(d)'
  BY DEF IInv, TypeOK, JobOK, StartedOK, FreshOK, QueuedRowOK, UnopenedOK, RegisteredOK,
     CallerOK, Doomed, Ended, AbsentRow, Crash, Capacity
<1> QED
  BY <1>1, <1>2, <1>3, <1>4, <1>5 DEF IInv

-----------------------------------------------------------------------------
(* The invariant of the specification. *)

\* It holds at first, ...
LEMMA IInvInit == Init => IInv
<1> SUFFICES ASSUME Init PROVE IInv
  OBVIOUS
<1>1. TypeOK
  BY RowFacts DEF Init, TypeOK, RequestPoints, WorkPoints
<1>2. SlotsMatchHolders
  <2>1. Holders = {}
    BY DEF Init, Holders
  <2> QED
    BY <2>1, FS_EmptySet DEF Init, SlotsMatchHolders
<1>3. QueueOK
  BY DEF Init, QueueOK
<1>4. ASSUME NEW j \in Jobs PROVE JobOK(j)
  BY DEF Init, JobOK, StartedOK, FreshOK, UnopenedOK, QueuedRowOK, HistoryOK, FinalOK,
     RegisteredOK, WorkspaceOK, Ended, AbsentRow
<1>5. ASSUME NEW c \in Callers PROVE CallerOK(c)
  BY DEF Init, CallerOK, AbsentRow
<1> QED
  BY <1>1, <1>2, <1>3, <1>4, <1>5 DEF IInv

\* ... a stutter keeps it, ...
LEMMA UnchangedStep == ASSUME IInv, UNCHANGED vars PROVE IInv'
<1> USE DEF vars
<1>1. TypeOK' /\ SlotsMatchHolders' /\ QueueOK'
  BY DEF IInv, TypeOK, SlotsMatchHolders, Holders, QueueOK
<1>2. \A j \in Jobs : JobOK(j)'
  BY DEF IInv, JobOK, StartedOK, FreshOK, UnopenedOK, QueuedRowOK, HistoryOK, FinalOK,
     RegisteredOK, WorkspaceOK
<1>3. \A c \in Callers : CallerOK(c)'
  BY DEF IInv, CallerOK, Doomed
<1> QED
  BY <1>1, <1>2, <1>3 DEF IInv

\* ... and so does every step.
LEMMA IInvNext == IInv /\ [Next]_vars => IInv'
<1> SUFFICES ASSUME IInv, [Next]_vars PROVE IInv'
  OBVIOUS
<1>1. ASSUME NEW j \in Jobs, Submit(j) PROVE IInv'
  BY <1>1, UploadStep, UploadFailsStep, AcquireStep, QueueFullStep, CreateJobStep,
     CreateFailsStep, RegisterStep, EnqueueStep, RememberStep DEF Submit
<1>2. ASSUME NEW j \in Jobs, Work(j) PROVE IInv'
  BY <1>2, StartStep, ReadStep, WriteStep, AdvanceStep, ValidationFailsStep, CheckStep,
     RecordHistoryStep, LastCheckStep, PublishStep, PublishFailsStep, StoreFailsStep,
     CleanupStep, ForgetStep, ReleaseStep DEF Work
<1>3. ASSUME NEW c \in Callers, Cancel(c) PROVE IInv'
  BY <1>3, LookupStep, SetEventStep, LookStep, CallerReadStep, CallerWriteStep DEF Cancel
<1>4. CASE Shutdown \/ ShutdownReturns \/ Crash
  BY <1>4, ShutdownStep, ShutdownReturnsStep, CrashStep
<1>5. CASE Stopped \/ UNCHANGED vars
  BY <1>5, UnchangedStep DEF Stopped
<1> QED
  BY <1>1, <1>2, <1>3, <1>4, <1>5 DEF Next

\* The strengthening every theorem below rests on: where each worker, request and
\* cancel() stands, and what the row, the history and the disk can hold meanwhile.
THEOREM InductiveInvariant == Spec => []IInv
  BY IInvInit, IInvNext, PTL DEF Spec

\* Every variable of the manager, the jobs table and the disk keeps its type; in
\* particular the semaphore never goes below zero or above its initial value.
THEOREM TypeCorrect == Spec => []TypeOK
<1>1. IInv => TypeOK
  BY DEF IInv
<1> QED
  BY <1>1, InductiveInvariant, PTL

\* Each permit of _slots is taken by submit() and given back by _run exactly once, for
\* any number of jobs, failures of the store and restarts: admission stays bounded.
THEOREM PermitsBalance == Spec => []SlotsMatchHolders
<1>1. IInv => SlotsMatchHolders
  BY DEF IInv
<1> QED
  BY <1>1, InductiveInvariant, PTL

\* A job the executor has is known to cancel() and shutdown() until its row is final.
THEOREM InFlightCancellable == Spec => []InFlightIsCancellable
<1>1. IInv => InFlightIsCancellable
  BY DEF IInv, JobOK, RegisteredOK, InFlightIsCancellable
<1> QED
  BY <1>1, InductiveInvariant, PTL

\* The stale reading cancel() writes back is never of a job that runs, reports or has
\* completed, because the event it set first stops the job at its first checkpoint.
THEOREM MarksAreSafe == Spec => []MarkOnlyBeforeRunning
<1>1. IInv => MarkOnlyBeforeRunning
  <2> SUFFICES ASSUME IInv, NEW c \in Callers, callerAt[c] \in {"read", "write"},
                      NEW j \in Jobs, j = callerJob[c]
               PROVE  /\ row[j].state \notin {"absent", "running", "reporting", "completed"}
                      /\ j \notin history /\ evidence[j] = "none"
    BY DEF MarkOnlyBeforeRunning, IInv, CallerOK
  <2>1. Doomed(j) /\ HistoryOK(j)
    BY DEF IInv, CallerOK, JobOK
  <2> QED
    BY <2>1 DEF Doomed, HistoryOK
<1> QED
  BY <1>1, InductiveInvariant, PTL

\* A completed row has its run in the history and its report folder in place.
THEOREM CompletedEvidence == Spec => []CompletedHasEvidence
<1>1. IInv => CompletedHasEvidence
  BY DEF IInv, JobOK, FinalOK, HistoryOK, CompletedHasEvidence
<1> QED
  BY <1>1, InductiveInvariant, PTL

\* The upload directory is there while the request or the worker may still read it and,
\* in a process that does not crash, at no other time.
THEOREM UploadsKept == Spec => []UploadsLiveAsLongAsTheJob
<1>1. IInv => UploadsLiveAsLongAsTheJob
  BY DEF IInv, JobOK, WorkspaceOK, UploadsLiveAsLongAsTheJob
<1> QED
  BY <1>1, InductiveInvariant, PTL

\* No step rewrites a completed row: its job has ended, so neither the worker nor a
\* cancel() with an older reading of it is about to write.
THEOREM CompletedStays == Spec => CompletedIsFinal
<1>1. ASSUME IInv, [Next]_vars, NEW j \in Jobs, row[j].state = "completed"
      PROVE  row'[j] = row[j]
  <2>1. /\ JobOK(j) /\ row \in [Jobs -> Row]
        /\ request[j] # "create" /\ at[j] \notin UpdatePoints
    BY <1>1 DEF IInv, TypeOK, JobOK, FinalOK, FreshOK, AbsentRow, Ended, UpdatePoints
  <2>2. ASSUME NEW i \in Jobs, CreateJob(i) \/ Write(i) PROVE row'[j] = row[j]
    BY <2>1, <2>2 DEF CreateJob, Write
  <2>3. ASSUME NEW c \in Callers, CallerWrite(c) PROVE row'[j] = row[j]
    <3>1. callerJob[c] # j
      BY <1>1, <2>3 DEF IInv, CallerOK, Doomed, CallerWrite
    <3> QED
      BY <2>1, <2>3, <3>1 DEF CallerWrite
  <2>4. ASSUME NEW i \in Jobs, Submit(i), ~CreateJob(i) PROVE UNCHANGED row
    BY <2>4 DEF Submit, Upload, UploadFails, Acquire, QueueFull, CreateFails, Register,
       Enqueue, Remember, disk
  <2>5. ASSUME NEW i \in Jobs, Work(i), ~Write(i) PROVE UNCHANGED row
    BY <2>5 DEF Work, Start, Read, Advance, ValidationFails, Check, RecordHistory, LastCheck,
       Publish, PublishFails, StoreFails, Cleanup, Forget, Release, disk
  <2>6. ASSUME NEW c \in Callers, Cancel(c), ~CallerWrite(c) PROVE UNCHANGED row
    BY <2>6 DEF Cancel, Lookup, SetEvent, Look, CallerRead, disk
  <2>7. CASE Shutdown \/ ShutdownReturns \/ Crash \/ Stopped \/ UNCHANGED vars
    BY <2>7 DEF Shutdown, ShutdownReturns, Crash, Stopped, vars, disk
  <2> QED
    BY <1>1, <2>2, <2>3, <2>4, <2>5, <2>6, <2>7 DEF Next
<1>2. IInv /\ [Next]_vars => [\A j \in Jobs : row[j].state = "completed" => row'[j] = row[j]]_vars
  BY <1>1
<1> QED
  BY <1>2, InductiveInvariant, PTL DEF Spec, CompletedIsFinal

\* FinishedIsSettled of the steps of the finally clause as well: what is inductive.
SettledOK(j) ==
    at[j] \in Ended /\ faults = 0 =>
        \/ row[j].state \in Terminal
        \/ row[j].state = "cancelling" /\ j \notin history /\ evidence[j] = "none"

\* Only the worker's last update and a late cancel() write the row of such a job.
LEMMA SettledStep ==
  ASSUME IInv, [Next]_vars, NEW j \in Jobs, SettledOK(j)
  PROVE  SettledOK(j)'
<1>1. /\ JobOK(j) /\ row \in [Jobs -> Row] /\ at \in [Jobs -> WorkPoints]
      /\ request \in [Jobs -> RequestPoints] /\ evidence \in [Jobs -> {"none", "folder", "published"}]
      /\ seen \in [Jobs -> Row] /\ pct \in [Jobs -> 0..100] /\ mode \in [Jobs -> {"unopened", "memory", "streaming"}]
      /\ faults \in 0..MaxFaults
  BY DEF IInv, TypeOK
<1>2. ASSUME NEW i \in Jobs, Submit(i) PROVE SettledOK(j)'
  BY <1>1, <1>2 DEF Submit, Upload, UploadFails, Acquire, QueueFull, CreateJob, CreateFails,
     Register, Enqueue, Remember, Goto, SettledOK, Ended, JobOK, StartedOK, pool, work, disk, bounds
<1>3. ASSUME NEW i \in Jobs, Work(i), i # j PROVE SettledOK(j)'
  BY <1>1, <1>3 DEF Work, Start, Read, Write, Advance, ValidationFails, Check, Leave, RecordHistory,
     LastCheck, Publish, PublishFails, StoreFails, Cleanup, Forget, Release, SettledOK, pool, disk, bounds
<1>4. CASE Write(j)
  <2>1. row'[j].state \in Terminal \/ at'[j] \notin Ended
    BY <1>1, <1>4 DEF Write, Written, Merge, After, UpdatePoints, Terminal, Ended
  <2> QED
    BY <2>1 DEF SettledOK
<1>5. ASSUME Work(j), ~Write(j) PROVE SettledOK(j)'
  BY <1>1, <1>5 DEF Work, Start, Read, Advance, ValidationFails, Check, Leave, RecordHistory,
     LastCheck, Publish, PublishFails, StoreFails, Cleanup, Forget, Release, SettledOK, Ended,
     Follow, Checkpoint, Recording, Batches, UpdatePoints, pool, disk, bounds
<1>6. ASSUME NEW c \in Callers, CallerWrite(c) PROVE SettledOK(j)'
  <2>1. CASE callerJob[c] = j
    <3>1. j \notin history /\ evidence[j] = "none"
      BY <1>1, <1>6, <2>1 DEF IInv, CallerOK, CallerWrite, Doomed, JobOK, HistoryOK
    <3>2. row'[j].state = "cancelling"
      BY <1>1, <1>6, <2>1 DEF CallerWrite, Merge
    <3> QED
      BY <1>6, <3>1, <3>2 DEF CallerWrite, SettledOK
  <2>2. CASE callerJob[c] # j
    BY <1>1, <1>6, <2>2 DEF CallerWrite, SettledOK, work, bounds
  <2> QED
    BY <2>1, <2>2
<1>7. ASSUME NEW c \in Callers, Cancel(c), ~CallerWrite(c) PROVE SettledOK(j)'
  BY <1>1, <1>7 DEF Cancel, Lookup, SetEvent, Look, CallerRead, SettledOK, work, disk, bounds
<1>8. CASE Shutdown \/ ShutdownReturns \/ Crash \/ Stopped \/ UNCHANGED vars
  BY <1>1, <1>8 DEF Shutdown, ShutdownReturns, Crash, Stopped, vars, SettledOK, Ended, work, disk, bounds
<1> QED
  BY <1>2, <1>3, <1>4, <1>5, <1>6, <1>7, <1>8 DEF Next

\* While the store has not failed, a worker that has finished leaves a final row, or the
\* late "cancelling" of a job that has produced nothing.
THEOREM FinishedSettled == Spec => []FinishedIsSettled
<1> DEFINE Settled == \A j \in Jobs : SettledOK(j)
<1>1. Init => Settled
  BY DEF Init, SettledOK, Ended
<1>2. IInv /\ Settled /\ [Next]_vars => Settled'
  BY SettledStep
<1>3. Settled => FinishedIsSettled
  BY DEF SettledOK, FinishedIsSettled, Ended
<1> QED
  <2> HIDE DEF Settled
  <2> QED
    BY <1>1, <1>2, <1>3, InductiveInvariant, PTL DEF Spec

-----------------------------------------------------------------------------
(* What a job cancelled while it waits still does. *)

\* Its event is set and it has not passed a checkpoint since; or its process has died,
\* and nothing of it is left that could go on.
GivenUp(j) ==
    /\ evidence[j] = "none"
    /\ \/ at[j] = "off" /\ request[j] = "lost"
       \/ /\ j \in cancelled
          /\ at[j] \in {"queued", "preparing", "work", "check", "cancel", "fail"} \union Ended
          /\ at[j] = "work" => mode[j] = "unopened" /\ pct[j] = 0
          /\ at[j] = "check" => mode[j] = "unopened" /\ pct[j] = 10

\* Its own worker takes it no further than its first checkpoint, and nobody else's
\* step brings it back.
LEMMA GivenUpStep ==
  ASSUME IInv, [Next]_vars, NEW j \in Jobs, GivenUp(j)
  PROVE  GivenUp(j)'
<1>1. /\ StartedOK(j) /\ UnopenedOK(j) /\ HistoryOK(j)
      /\ at \in [Jobs -> WorkPoints] /\ request \in [Jobs -> RequestPoints]
      /\ evidence \in [Jobs -> {"none", "folder", "published"}]
      /\ pct \in [Jobs -> 0..100] /\ mode \in [Jobs -> {"unopened", "memory", "streaming"}]
      /\ queue \in Seq(Jobs)
  BY DEF IInv, TypeOK, JobOK
<1>2. ASSUME NEW i \in Jobs, Submit(i) PROVE GivenUp(j)'
  BY <1>1, <1>2 DEF Submit, Upload, UploadFails, Acquire, QueueFull, CreateJob, CreateFails,
     Register, Enqueue, Remember, Goto, GivenUp, StartedOK, Ended, pool, work, disk, bounds
<1>3. ASSUME NEW i \in Jobs, Work(i), i # j PROVE GivenUp(j)'
  BY <1>1, <1>3 DEF Work, Start, Read, Write, Advance, ValidationFails, Check, Leave, RecordHistory,
     LastCheck, Publish, PublishFails, StoreFails, Cleanup, Forget, Release, GivenUp, pool, disk,
     bounds
<1>4. ASSUME Work(j) PROVE GivenUp(j)'
  <2>1. CASE Start(j)
    BY <1>1, <2>1, HeadWaits DEF Start, GivenUp, UnopenedOK, Ended, disk
  <2>2. CASE Read(j) \/ Write(j)
    BY <1>1, <2>2 DEF Read, Write, After, GivenUp, UnopenedOK, Ended, UpdatePoints, pool, disk
  <2>3. CASE Advance(j)
    BY <1>1, <2>3 DEF Advance, Follow, Checkpoint, GivenUp, Ended, pool, disk
  <2>4. CASE ValidationFails(j) \/ Check(j)
    BY <1>1, <2>4 DEF ValidationFails, Check, Leave, GivenUp, Ended, pool, disk
  <2>5. CASE RecordHistory(j) \/ LastCheck(j) \/ Publish(j) \/ PublishFails(j)
    BY <1>1, <2>5 DEF RecordHistory, LastCheck, Publish, PublishFails, GivenUp, Ended
  <2>6. CASE StoreFails(j)
    BY <1>1, <2>6 DEF StoreFails, Leave, GivenUp, Ended, UpdatePoints, pool
  <2>7. CASE Cleanup(j) \/ Forget(j) \/ Release(j)
    BY <1>1, <2>7 DEF Cleanup, Forget, Release, GivenUp, Ended, pool, disk
  <2> QED
    BY <1>4, <2>1, <2>2, <2>3, <2>4, <2>5, <2>6, <2>7 DEF Work
<1>5. ASSUME NEW c \in Callers, Cancel(c) PROVE GivenUp(j)'
  BY <1>1, <1>5 DEF Cancel, Lookup, SetEvent, Look, CallerRead, CallerWrite, GivenUp, pool, work,
     disk, bounds
<1>6. CASE Shutdown \/ ShutdownReturns \/ Stopped \/ UNCHANGED vars
  BY <1>1, <1>6 DEF Shutdown, ShutdownReturns, Stopped, vars, GivenUp, pool, work, disk
<1>7. CASE Crash
  <2>1. request[j] # "none" /\ at[j] # "publish"
    BY <1>1 DEF GivenUp, StartedOK, Ended
  <2> QED
    BY <1>1, <1>7, <2>1 DEF Crash, GivenUp
<1> QED
  BY <1>2, <1>3, <1>4, <1>5, <1>6, <1>7 DEF Next

\* A job that waits is not in the history, whatever its row says.
WaitingIsNew == \A j \in Jobs : at[j] = "queued" => j \notin history

LEMMA WaitingIsNewNext == IInv /\ WaitingIsNew /\ [Next]_vars => WaitingIsNew'
<1> SUFFICES ASSUME IInv, WaitingIsNew, [Next]_vars PROVE WaitingIsNew'
  OBVIOUS
<1>1. at \in [Jobs -> WorkPoints] /\ \A j \in Jobs : FreshOK(j)
  BY DEF IInv, TypeOK, JobOK
<1>2. ASSUME NEW i \in Jobs, Submit(i) PROVE WaitingIsNew'
  BY <1>1, <1>2 DEF Submit, Upload, UploadFails, Acquire, QueueFull, CreateJob, CreateFails,
     Register, Enqueue, Remember, WaitingIsNew, FreshOK, pool, work, disk
<1>3. ASSUME NEW i \in Jobs, Work(i) PROVE WaitingIsNew'
  <2>1. CASE RecordHistory(i)
    BY <1>1, <2>1 DEF RecordHistory, WaitingIsNew
  <2>2. CASE Write(i)
    BY <1>1, <2>2 DEF Write, After, WaitingIsNew
  <2>3. CASE Advance(i)
    BY <1>1, <2>3 DEF Advance, Follow, Checkpoint, Recording, Batches, WaitingIsNew, disk
  <2>4. CASE ~RecordHistory(i) /\ ~Write(i) /\ ~Advance(i)
    BY <1>1, <1>3, <2>4 DEF Work, Start, Read, ValidationFails, Check, Leave, LastCheck, Publish,
       PublishFails, StoreFails, Cleanup, Forget, Release, WaitingIsNew, pool, disk
  <2> QED
    BY <2>1, <2>2, <2>3, <2>4
<1>4. ASSUME NEW c \in Callers, Cancel(c) PROVE WaitingIsNew'
  BY <1>4 DEF Cancel, Lookup, SetEvent, Look, CallerRead, CallerWrite, WaitingIsNew, work, disk
<1>5. CASE Shutdown \/ ShutdownReturns \/ Crash \/ Stopped \/ UNCHANGED vars
  BY <1>5 DEF Shutdown, ShutdownReturns, Crash, Stopped, vars, WaitingIsNew, work, disk
<1> QED
  BY <1>2, <1>3, <1>4, <1>5 DEF Next

\* A job cancelled while it waits never publishes, however late its worker starts,
\* whatever fails, and whether or not the process is restarted.
THEOREM CancelledNeverPublish == Spec => CancelledWaitingNeverPublishes
<1> SUFFICES ASSUME NEW j \in Jobs
             PROVE  Spec => [](at[j] = "queued" /\ j \in cancelled => [](evidence[j] = "none"))
  BY DEF CancelledWaitingNeverPublishes
<1>1. IInv /\ WaitingIsNew /\ at[j] = "queued" /\ j \in cancelled => GivenUp(j)
  BY DEF IInv, JobOK, HistoryOK, WaitingIsNew, GivenUp
<1>2. IInv /\ [Next]_vars /\ GivenUp(j) => GivenUp(j)'
  BY GivenUpStep
<1>3. GivenUp(j) => evidence[j] = "none"
  BY DEF GivenUp
<1>4. Init => WaitingIsNew
  BY DEF Init, WaitingIsNew
<1> QED
  BY <1>1, <1>2, <1>3, <1>4, WaitingIsNewNext, InductiveInvariant, PTL DEF Spec

-----------------------------------------------------------------------------
(* The manager implements the abstract pool. *)

\* The line of the abstract pool: submit() runs one at a time, and a job that waits is
\* in the executor's queue.
LineOK ==
    /\ \A j, k \in Jobs : request[j] \in Submitting /\ request[k] \in Submitting => j = k
    /\ \A j \in Jobs : at[j] = "queued" => \E i \in DOMAIN queue : queue[i] = j

LEMMA LineInit == Init => LineOK
  BY DEF Init, LineOK, Submitting

\* What becomes of a queue that gains or loses one job.
LEMMA AppendKeeps ==
  ASSUME NEW q \in Seq(Jobs), NEW j \in Jobs
  PROVE  /\ \E i \in DOMAIN Append(q, j) : Append(q, j)[i] = j
         /\ \A i \in DOMAIN q : i \in DOMAIN Append(q, j) /\ Append(q, j)[i] = q[i]
<1>1. Len(q) + 1 \in DOMAIN Append(q, j) /\ Append(q, j)[Len(q) + 1] = j
  OBVIOUS
<1> QED
  BY <1>1

LEMMA TailKeeps ==
  ASSUME NEW q \in Seq(Jobs), q # <<>>
  PROVE  \A i \in DOMAIN q : q[i] = Head(q) \/ \E k \in DOMAIN Tail(q) : Tail(q)[k] = q[i]
<1> SUFFICES ASSUME NEW i \in DOMAIN q, i # 1
             PROVE  \E k \in DOMAIN Tail(q) : Tail(q)[k] = q[i]
  OBVIOUS
<1>1. i - 1 \in DOMAIN Tail(q) /\ Tail(q)[i - 1] = q[i]
  OBVIOUS
<1> QED
  BY <1>1

\* Of the steps of a worker, only the first and the last change which jobs run.
LEMMA WorkStays ==
  ASSUME IInv, NEW j \in Jobs, Work(j)
  PROVE  /\ request' = request
         /\ \A i \in Jobs \ {j} : at'[i] = at[i]
         /\ Start(j) \/ (queue' = queue /\ at[j] \notin {"off", "queued", "done"}
                         /\ at'[j] \notin {"off", "queued"} /\ (at'[j] = "done" => Release(j)))
<1>1. at \in [Jobs -> WorkPoints]
  BY DEF IInv, TypeOK
<1>2. CASE Start(j)
  BY <1>1, <1>2 DEF Start
<1>3. CASE Read(j) \/ Write(j)
  BY <1>1, <1>3 DEF Read, Write, After, UpdatePoints, pool
<1>4. CASE Advance(j)
  BY <1>1, <1>4 DEF Advance, Follow, Checkpoint, Recording, Batches, pool
<1>5. CASE ValidationFails(j) \/ Check(j) \/ RecordHistory(j) \/ LastCheck(j)
  BY <1>1, <1>5 DEF ValidationFails, Check, RecordHistory, LastCheck, Leave, pool
<1>6. CASE Publish(j) \/ PublishFails(j) \/ StoreFails(j)
  BY <1>1, <1>6 DEF Publish, PublishFails, StoreFails, Leave, UpdatePoints, pool
<1>7. CASE Cleanup(j) \/ Forget(j) \/ Release(j)
  BY <1>1, <1>7 DEF Cleanup, Forget, Release, pool
<1> QED
  BY <1>2, <1>3, <1>4, <1>5, <1>6, <1>7 DEF Work

\* cancel(), shutdown() and the steps that stutter leave requests, workers and queue.
LEMMA OthersStay ==
  ASSUME (\E c \in Callers : Cancel(c)) \/ Shutdown \/ ShutdownReturns \/ Stopped
         \/ UNCHANGED vars
  PROVE  UNCHANGED <<request, at, queue>>
  BY DEF Cancel, Lookup, SetEvent, Look, CallerRead, CallerWrite, Shutdown, ShutdownReturns,
     Stopped, vars, pool, work

LEMMA LineNext == IInv /\ LineOK /\ [Next]_vars => LineOK'
<1> SUFFICES ASSUME IInv, LineOK, [Next]_vars PROVE LineOK'
  OBVIOUS
<1>1. queue \in Seq(Jobs) /\ at \in [Jobs -> WorkPoints] /\ request \in [Jobs -> RequestPoints]
  BY DEF IInv, TypeOK
<1>2. ASSUME NEW j \in Jobs, Submit(j), ~Enqueue(j) PROVE LineOK'
  BY <1>1, <1>2 DEF Submit, Upload, UploadFails, Acquire, QueueFull, CreateJob, CreateFails,
     Register, Remember, Goto, LoopFree, Submitting, LineOK, pool, work
<1>3. ASSUME NEW j \in Jobs, Enqueue(j) PROVE LineOK'
  <2>1. /\ request[j] = "enqueue" /\ request' = [request EXCEPT ![j] = "remember"]
        /\ at' = [at EXCEPT ![j] = "queued"] /\ queue' = Append(queue, j)
    BY <1>3 DEF Enqueue, Goto
  <2>2. \A i, k \in Jobs : request'[i] \in Submitting /\ request'[k] \in Submitting => i = k
    BY <1>1, <2>1 DEF LineOK, Submitting
  <2>3. \A i \in Jobs : at'[i] = "queued" => \E k \in DOMAIN queue' : queue'[k] = i
    BY <1>1, <2>1, AppendKeeps DEF LineOK
  <2> QED
    BY <2>2, <2>3 DEF LineOK
<1>4. ASSUME NEW j \in Jobs, Work(j), ~Start(j) PROVE LineOK'
  BY <1>1, <1>4, WorkStays DEF LineOK
<1>5. ASSUME NEW j \in Jobs, Start(j) PROVE LineOK'
  <2>1. /\ queue # <<>> /\ j = Head(queue) /\ queue' = Tail(queue)
        /\ at' = [at EXCEPT ![j] = "preparing"] /\ request' = request
    BY <1>5 DEF Start
  <2>2. \A i \in Jobs : at'[i] = "queued" => \E k \in DOMAIN queue' : queue'[k] = i
    BY <1>1, <2>1, TailKeeps DEF LineOK
  <2> QED
    BY <2>1, <2>2 DEF LineOK
<1>6. CASE Crash
  BY <1>6 DEF Crash, LineOK, Submitting
<1>7. CASE UNCHANGED <<request, at, queue>>
  BY <1>7 DEF LineOK
<1> QED
  BY <1>2, <1>3, <1>4, <1>5, <1>6, <1>7, OthersStay DEF Next

\* The one job that submit() has admitted and not enqueued is the end of the line.
LEMMA OnlyOne ==
  ASSUME NEW S, NEW j \in S, \A k \in S : k = j
  PROVE  S # {} /\ (CHOOSE k \in S : TRUE) = j
  OBVIOUS

LEMMA LineOfAdmitted ==
  ASSUME LineOK, NEW j \in Jobs, request[j] \in {"create", "register", "enqueue"}
  PROVE  Admitted = {j} /\ Line = Append(queue, j)
<1>1. Admitted = {j}
  BY DEF LineOK, Admitted, Submitting
<1>2. Admitted # {} /\ (CHOOSE k \in Admitted : TRUE) = j
  BY <1>1, OnlyOne
<1> QED
  BY <1>1, <1>2 DEF Line

\* A sequence that lists each element of a set once is as long as the set is large.
LEMMA ListedOnce ==
  ASSUME NEW S, NEW q \in Seq(S),
         \A i, k \in DOMAIN q : q[i] = q[k] => i = k,
         \A x \in S : \E i \in DOMAIN q : q[i] = x
  PROVE  Cardinality(S) = Len(q)
<1>1. Len(q) \in Nat /\ DOMAIN q = 1..Len(q) /\ q \in [1..Len(q) -> S]
  OBVIOUS
<1>2. q \in Bijection(1..Len(q), S)
  <2>1. q \in Injection(1..Len(q), S)
    BY <1>1, Zenon DEF Injection, IsInjective
  <2>2. q \in Surjection(1..Len(q), S)
    BY <1>1, Zenon DEF Surjection
  <2> QED
    BY <2>1, <2>2 DEF Bijection
<1>3. ExistsBijection(1..Len(q), S)
  BY <1>2, Zenon DEF ExistsBijection
<1> QED
  BY <1>1, <1>3, FS_CountingElements

\* Two finite sets with nothing in common.
LEMMA DisjointUnion ==
  ASSUME NEW S, NEW T, IsFiniteSet(S), IsFiniteSet(T), S \cap T = {}
  PROVE  /\ IsFiniteSet(S \union T)
         /\ Cardinality(S \union T) = Cardinality(S) + Cardinality(T)
<1>1. Cardinality(S) \in Nat /\ Cardinality(T) \in Nat /\ Cardinality({}) = 0
  BY FS_CardinalityType, FS_EmptySet
<1>2. /\ IsFiniteSet(S \union T)
      /\ Cardinality(S \union T) = Cardinality(S) + Cardinality(T) - Cardinality({})
  BY FS_Union, Zenon
<1> QED
  BY <1>1, <1>2

\* The permits taken are those of the jobs in line, running, or wasted.
LEMMA PermitsTaken ==
  ASSUME IInv, LineOK, Admitted = {}
  PROVE  Cardinality(Holders) = Len(queue) + Cardinality(Running) + Cardinality(Wasted)
<1> DEFINE Waiting == {j \in Jobs : at[j] = "queued"}
<1>1. IsFiniteSet(Waiting) /\ IsFiniteSet(Running) /\ IsFiniteSet(Wasted)
  BY FS_Subset DEF Running, Wasted
<1>2. Cardinality(Waiting) = Len(queue)
  <2>1. queue \in Seq(Waiting)
    BY DEF IInv, TypeOK, QueueOK
  <2>2. \A i, k \in DOMAIN queue : queue[i] = queue[k] => i = k
    BY DEF IInv, QueueOK
  <2>3. \A j \in Waiting : \E i \in DOMAIN queue : queue[i] = j
    BY DEF LineOK
  <2> HIDE DEF Waiting
  <2> QED
    BY <2>1, <2>2, <2>3, ListedOnce
<1>3. /\ Holders = (Waiting \union Running) \union Wasted
      /\ Waiting \cap Running = {} /\ (Waiting \union Running) \cap Wasted = {}
  BY DEF IInv, JobOK, StartedOK, Holders, Running, Wasted, Admitted
<1> HIDE DEF Waiting
<1>4. /\ IsFiniteSet(Waiting \union Running)
      /\ Cardinality(Waiting \union Running) = Cardinality(Waiting) + Cardinality(Running)
  BY <1>1, <1>3, DisjointUnion
<1>5. Cardinality(Holders) = Cardinality(Waiting \union Running) + Cardinality(Wasted)
  BY <1>1, <1>3, <1>4, DisjointUnion
<1> QED
  BY <1>2, <1>4, <1>5

\* BoundedPool counts with the Cardinality of its own instance of FiniteSets.
LEMMA SameCardinality == ASSUME NEW S PROVE Pool!Cardinality(S) = Cardinality(S)
  BY Zenon DEF Pool!Cardinality, Cardinality

\* A permit is taken when there is room in the abstract pool.
LEMMA AcquireAdmits ==
  ASSUME IInv, LineOK, LineOK', NEW j \in Jobs, Acquire(j)
  PROVE  Pool!Admit(j)
<1>1. /\ request[j] = "uploading" /\ request' = [request EXCEPT ![j] = "create"]
      /\ request \in [Jobs -> RequestPoints] /\ UNCHANGED <<queue, at>> /\ slots > 0
      /\ Admitted = {}
  BY DEF IInv, TypeOK, Acquire, Goto, LoopFree, Admitted, Submitting, work
<1>2. Line = queue /\ Line' = Append(queue, j)
  <2>1. Admitted' = {j}
    BY <1>1 DEF Admitted
  <2>2. Admitted' # {} /\ (CHOOSE k \in Admitted' : TRUE) = j
    BY <2>1, OnlyOne
  <2> QED
    BY <1>1, <2>2 DEF Line
<1>3. Running' = Running /\ Wasted' = Wasted /\ j \in Fresh /\ Fresh' = Fresh \ {j}
  BY <1>1 DEF Running, Wasted, Fresh
<1>4. Pool!InFlight < MaxWorkers + QueueCapacity
  <2>1. Pool!InFlight = Cardinality(Holders)
    BY <1>1, <1>2, PermitsTaken, SameCardinality, Zenon DEF Pool!InFlight
  <2> QED
    BY <1>1, <2>1, HoldersFinite DEF IInv, TypeOK, SlotsMatchHolders
<1> QED
  BY <1>2, <1>3, <1>4 DEF Pool!Admit

\* create_job raises: the end of the line is given up, and so is its permit.
LEMMA CreateFailsWastes ==
  ASSUME IInv, LineOK, NEW j \in Jobs, CreateFails(j)
  PROVE  Pool!Waste
<1>1. /\ request[j] = "create" /\ request' = [request EXCEPT ![j] = "broken"]
      /\ request \in [Jobs -> RequestPoints] /\ UNCHANGED <<queue, at>> /\ queue \in Seq(Jobs)
  BY DEF IInv, TypeOK, CreateFails, Goto, pool, work
<1>2. Admitted = {j} /\ Line = Append(queue, j)
  BY <1>1, LineOfAdmitted
<1>3. Admitted' = {} /\ Line' = queue
  BY <1>1, <1>2 DEF Admitted, Line
<1>4. Running' = Running /\ Wasted' = Wasted \union {j} /\ Fresh' = Fresh
  BY <1>1 DEF Running, Wasted, Fresh
<1>5. /\ Line # <<>> /\ Line[Len(Line)] = j
      /\ queue = SubSeq(Line, 1, Len(Line) - 1)
  BY <1>1, <1>2
<1> QED
  BY <1>3, <1>4, <1>5 DEF Pool!Waste

\* The executor's queue takes over the end of the line.
LEMMA EnqueueIsInvisible ==
  ASSUME IInv, LineOK, NEW j \in Jobs, Enqueue(j)
  PROVE  UNCHANGED Pool!vars
<1>1. /\ request[j] = "enqueue" /\ request' = [request EXCEPT ![j] = "remember"]
      /\ request \in [Jobs -> RequestPoints] /\ queue' = Append(queue, j)
      /\ at \in [Jobs -> WorkPoints] /\ at' = [at EXCEPT ![j] = "queued"] /\ at[j] = "off"
  BY DEF IInv, TypeOK, JobOK, StartedOK, Enqueue, Goto
<1>2. Admitted = {j} /\ Line = Append(queue, j)
  BY <1>1, LineOfAdmitted
<1>3. Line' = queue'
  BY <1>1, <1>2 DEF Admitted, Line
<1>4. Running' = Running /\ Wasted' = Wasted /\ Fresh' = Fresh
  BY <1>1 DEF Running, Wasted, Fresh
<1> QED
  BY <1>1, <1>2, <1>3, <1>4 DEF Pool!vars

\* A worker takes the head of the line.
LEMMA StartStarts ==
  ASSUME IInv, NEW j \in Jobs, Start(j)
  PROVE  Pool!Start
<1>1. /\ queue # <<>> /\ queue \in Seq(Jobs) /\ j = Head(queue) /\ queue' = Tail(queue)
      /\ at \in [Jobs -> WorkPoints] /\ at' = [at EXCEPT ![j] = "preparing"] /\ at[j] = "queued"
      /\ request' = request /\ Cardinality(Running) < MaxWorkers
  BY HeadWaits DEF IInv, TypeOK, Start
<1>2. Running' = Running \union {j} /\ Wasted' = Wasted /\ Fresh' = Fresh /\ Admitted' = Admitted
  BY <1>1 DEF Running, Wasted, Fresh, Admitted
<1>3. Line # <<>> /\ Head(Line) = j /\ Line' = Tail(Line)
  <2>1. CASE Admitted = {}
    BY <1>1, <1>2, <2>1 DEF Line
  <2>2. CASE Admitted # {}
    <3>1. PICK k \in Jobs : k = CHOOSE i \in Admitted : TRUE
      BY <2>2 DEF Admitted
    <3>2. Line = Append(queue, k) /\ Line' = Append(Tail(queue), k)
      BY <1>1, <1>2, <2>2, <3>1 DEF Line
    <3> QED
      BY <1>1, <3>2
  <2> QED
    BY <2>1, <2>2
<1> QED
  BY <1>1, <1>2, <1>3, SameCardinality, Zenon DEF Pool!Start

\* Every other step changes nothing that the abstract pool shows.
LEMMA SameShown ==
  ASSUME queue' = queue, Running' = Running, Fresh' = Fresh, Wasted' = Wasted,
         Admitted' = Admitted
  PROVE  UNCHANGED Pool!vars
  BY DEF Pool!vars, Line

\* Requests, semaphore, executor and finally clauses together are steps of the bounded
\* first-come first-served pool, or invisible to who looks at it, for any number of
\* jobs, workers and places, failures of the store and restarts of the process.
THEOREM ManagerImplementsPool == Spec => ImplementsPool
<1>1. Init => Pool!Init
  BY DEF Init, Pool!Init, Fresh, Line, Admitted, Running, Wasted
<1>2. IInv /\ LineOK /\ LineOK' /\ [Next]_vars => [Pool!Next]_(Pool!vars)
  <2> SUFFICES ASSUME IInv, LineOK, LineOK', [Next]_vars
               PROVE  Pool!Next \/ UNCHANGED Pool!vars
    OBVIOUS
  <2>1. at \in [Jobs -> WorkPoints] /\ request \in [Jobs -> RequestPoints]
    BY DEF IInv, TypeOK
  <2>2. ASSUME NEW j \in Jobs, Acquire(j) \/ CreateFails(j) \/ Enqueue(j) \/ Start(j)
        PROVE  Pool!Next \/ UNCHANGED Pool!vars
    BY <2>2, AcquireAdmits, CreateFailsWastes, EnqueueIsInvisible, StartStarts DEF Pool!Next
  <2>3. ASSUME NEW j \in Jobs, \/ Upload(j) \/ UploadFails(j) \/ QueueFull(j) \/ CreateJob(j)
                               \/ Register(j) \/ Remember(j)
        PROVE  UNCHANGED Pool!vars
    <3>1. queue' = queue /\ at' = at /\ Fresh' = Fresh /\ Wasted' = Wasted /\ Admitted' = Admitted
      BY <2>1, <2>3 DEF Upload, UploadFails, QueueFull, CreateJob, Register, Remember, Goto, Fresh,
         Wasted, Admitted, pool, work
    <3> QED
      BY <3>1, SameShown DEF Running
  <2>4. ASSUME NEW j \in Jobs, Release(j) PROVE Pool!Next
    <3>1. /\ j \in Running /\ Running' = Running \ {j} /\ queue' = queue /\ request' = request
      BY <2>1, <2>4 DEF Release, Running
    <3>2. Pool!End(j)
      BY <3>1 DEF Pool!End, Fresh, Wasted, Line, Admitted
    <3> QED
      BY <3>2 DEF Pool!Next
  <2>5. ASSUME NEW j \in Jobs, Work(j), ~Start(j), ~Release(j) PROVE UNCHANGED Pool!vars
    <3>1. queue' = queue /\ request' = request /\ Running' = Running
      BY <2>1, <2>5, WorkStays DEF Running
    <3> QED
      BY <3>1, SameShown DEF Fresh, Wasted, Admitted
  <2>6. CASE Crash
    BY <2>6 DEF Crash, Pool!Next, Pool!Restart, Fresh, Wasted, Line, Admitted, Running
  <2>7. CASE UNCHANGED <<request, at, queue>>
    BY <2>7, SameShown DEF Fresh, Wasted, Admitted, Running
  <2> QED
    BY <2>2, <2>3, <2>4, <2>5, <2>6, <2>7, OthersStay DEF Next, Submit
<1> QED
  BY <1>1, <1>2, LineInit, LineNext, InductiveInvariant, PTL DEF Spec, ImplementsPool, Pool!Spec
=============================================================================
