# Data Contract Monitor: TLA+ models and proofs

This directory is a verification project for Data Contract Monitor: TLA+ modules translated from
its Python sources, TLC configurations that check them on small instances, and theorems that
TLAPS checks for every value of the constants. Paths below are relative to the repository;
`jobs.py` and the other bare names are in `src/data_contract_monitor/`, `bootstrap.py`,
`release_gate.py`, `maintenance_preflight.py` and `launch.bat` in `tools/`.

Run one check with `tlc -config MCJobLifecycle.cfg MCJobLifecycle`, and the proofs of a module with
`tlapm JobLifecycle_proofs.tla`. `PROJECT.json` lists every run with its properties, the source
lines of every definition, a mutant per property that TLC must refute, the hazards, the findings
and the theorems.

## 1. The system

A local tool that validates datasets against YAML contracts. The same core is reached from a
command line (`cli.py`) and from a FastAPI service with a dashboard (`api.py`,
`frontend/src/app.ts`) that a launcher installs and starts.

| Component | State it keeps | Operations | Talks to |
|---|---|---|---|
| Job manager (`jobs.py`) | semaphore `_slots`, registry `_cancel`, `_futures`, thread pool | `submit`, `_run`, `cancel`, `shutdown` | state store, engine, publication |
| Service (`api.py`) | upload directories under `temp/` | upload and submit, poll, `DELETE`, demo, lifespan | job manager, store |
| State store (`state_store.py`) | SQLite: jobs, validation_runs, run_artifacts, contract versions, profiles, drift | open with backup and migration, create/update/get job, `record_validation`, `record_artifacts` | everything |
| Validation engine (`engine.py`) | none between runs; a run's counters and findings | `validate_files` in memory, `_streaming_validate` by batches, `_checkpoint` | readers, key index, history |
| Key index and profiler (`streaming.py`) | a scratch SQLite table of key counts; bounded distinct sets | `add_grouped`, `add_reference_keys`, `missing_reference_keys`, `update` | engine |
| Readers (`readers.py`) | file position | `iter_batches`, `inspect_columns` | engine |
| Publication (`artifacts.py`, `reporters.py`) | staging directory, `reports/runs/<id>`, `latest_completed_run.json` | `publish_run_artifacts`, `write_reports` | store, diagnostics |
| Contracts (`contract_loader.py`, `contract_plan.py`, `contract_tools.py`) | none | load with inheritance, compile, diff | engine |
| Drift, profile, PII, expressions (`drift.py`, `profiler.py`, `pii.py`, `expression.py`) | none | pure functions | engine |
| Diagnostics (`diagnostics.py`) | capsules, `_capturing` and `_seen` per process, `.export.lock`, exports | `capture_critical`, `create_manual_export`, retention | pointer, logs |
| Local server and `serve` (`local_server.py`, `cli.py`) | reserved socket, endpoint record, launch status | reserve, health check, open browser, record | service, store |
| Deployment state, release identity, preflight and gate (`deployment_state.py`, `release_identity.py`, `maintenance_preflight.py`, `release_gate.py`) | identity files, stale wheels, receipts | verify, retire | launcher |
| Bootstrap (`bootstrap.py`, `launch.bat`) | virtual environment, stamps, runtime record | `ensure_environment`, run a command | the above |
| Atomic writes (`atomic.py`) | temporary file | write, fsync, replace with retries | everything |
| Dashboard (`frontend/src/app.ts`) | one polled job | submit, poll | service |
| Build and release tools (`tools/`) | none at run time | maintainers' scripts | - |

**What is hard.** Threads of four kinds meet in the job manager: the event loop, the pool's
workers, the threads that serve `DELETE`, and the lifespan handler. They share a semaphore, a
locked registry, one event per job, and a SQLite row that `update_job` reads in one connection and
overwrites, every column of it, in another. A worker can finish before `submit` has returned.
Publication is a sequence of file system and database steps with no common transaction, and several
publishers, in several processes, share the database and the pointer. Several processes may open
and migrate one database at once, and each statement of the migration commits on its own. Several
launches share the ports and the endpoint record. Releases are extracted over one another, and an
installation is a sequence of steps that can fail or be killed anywhere. Critical failures are
reported from any thread of any process, under a flag per process and a lock file for all of them.
Streaming validation is to give, a batch at a time, exactly the answer of the whole file, although
pandas types the columns of each batch on its own.

**What makes each component correct.** Job manager: bounded admission whatever fails,
cancellability, one final state, no completed row without evidence, uploads removed, termination.
Publication: whole folders, rows and pointer that claim no more than there is, no staging left.
Engine: the same findings streamed and in memory, and a limit that hides no failure. Key index:
counts and examples independent of the batch boundaries. Contract diff: a change called compatible
rejects nothing that was accepted. Store: everybody works on the whole schema, and old data is
backed up first. Server: the browser opens the server of its own launch. Installation: what runs is
the release that is installed, upgrades leave nothing stale behind, and repairs recover from a launch
that was cut off, provided the files are ones the gate accepts. Diagnostics: one export at a time on
the machine, what keeps the others out goes with its holder, capsules tell the truth, and retention
removes old exports only.

## 2. Modules

| Module | Models | Composed with |
|---|---|---|
| `BoundedPool` | abstract: a bounded first-come first-served pool that may waste places and restart | |
| `JobLifecycle` | `jobs.py`, the jobs table, the checkpoints of `engine.py`, the callers in `api.py`, crash and restart | implements `BoundedPool` |
| `Publication` | abstract: what readers of report folders, the store and the pointer may rely on | |
| `RunPublication` | `publish_run_artifacts` and `write_reports`, several publishers, faults and crashes; the lookup of the diagnostics export | implements `Publication` |
| `KeyIndex` | `DiskKeyStore` and the batch loop that feeds it | |
| `StreamedColumns` | the keys of typed cells, for uniqueness, combinations and references, compared with the memory path | extends `KeyIndex` |
| `ContractRules` | pure: column and dataset rules, drift, finding limit, verdict; `diff_contracts` | |
| `StreamedRules` | how pandas types a batch, `_streaming_validate`, `_merge_stream_finding`, `StreamingProfiler` | applies `ContractRules` to batches and to the file |
| `Installation` | `launch.bat`, preflight, gate, retirement, `ensure_environment`, upgrades | |
| `StateSchema` | `StateStore._initialize` and `_backup_before_migration`, several processes | |
| `ServeCommand` | `serve`: ports, endpoint record, browser thread, server | extends `StateSchema` |
| `DiagnosticsExport` | `capture_critical`, `create_manual_export`, export lock, retention | |
| `*_proofs` | the inductive invariants and theorems of `JobLifecycle`, `RunPublication`, `KeyIndex` with `StreamedColumns`, `StreamedRules` with `ContractRules`, `Installation`, `StateSchema`, `ServeCommand`, `DiagnosticsExport` | extend these |
| `MC*` | instances for TLC | extend these |

A definition called `...` with a comment "Mutant of D" is D as a plausible bug would have it. No
specification uses it; PROJECT.json pairs it with the property that refutes it.

### JobLifecycle

Each variable is a field or a table: `slots`, `registered` (keys of `_cancel`), `cancelled` (events
that are set), `futures`, `queue` (the executor's), `row` (jobs table), `history`
(validation_runs), `evidence` (what publication left on disk), `workspace` (upload directories);
and each thread's position: `request` per POST, `at` per `_run` (with `mode`, `pct` and `seen`, the
row its `update_job` has read), `callerAt` per thread in `cancel()`.

Actions are the stretches between two points where another thread or a failure can come in. A
submit is `Upload`, `Acquire` or `QueueFull`, `CreateJob` or `CreateFails`, `Register`, `Enqueue`,
`Remember`; `submit()` runs on the event loop and awaits nothing, so two of them never interleave
(`LoopFree`), while workers and callers do interleave with one. `update_job` is `Read` then
`Write` for the worker and `CallerRead` then `CallerWrite` for `cancel()`. A validation is the
sequence of its checkpoints: `Advance` goes to the next one (`Follow` has the percents of both
modes), `Check` ends the run for a cancellation or the time limit or goes on to the progress
report, `RecordHistory`, `LastCheck`, `Publish`. `ValidationFails`, `PublishFails` and `StoreFails`
are the exceptions; `Cleanup`, `Forget`, `Release` the finally clause. `Crash` keeps the disk and
resets the rest, and may find a report folder in place whose publication had not ended.

The state of the executor is refined to `BoundedPool`: `Line` is its queue followed by the job
whose permit is taken and that it does not have yet, `Wasted` the jobs that `create_job` failed on.
Their permits are lost until the process ends, because nothing in `submit()` gives them back: the
pool has a step `Waste` for it, and `SlotsMatchHolders` counts them. The two say that no permit is
lost in any other way, not that none is.

### RunPublication

One position per run; `draft` is the staging directory's contents, `folder` the published one's,
`rows` those of run_artifacts. `Call` takes a non-empty sequence of formats, with duplicates and an
unsupported one, and a history that already has the run or not. `Fails` is an exception in any step
before it has an effect, with the handler (`Raise`): its rmtree ignores what it cannot remove, so the
staging directory is gone, or stays with any part of its files and the publisher is `littered`.
`Crash` stops any set of publishers without the handler.
`Listable` is the primary and the foreign key of run_artifacts.

### KeyIndex and StreamedColumns

`AddBatch` is one turn of the batch loop for a uniqueness rule and a reference rule. Totals that the
engine sums over all keys are kept per key, so that the exactness of each summand is a property, not
only that of the sum. `NewlyAffected` is the CASE of the SQL statement, `Repeated` and `Examples`
the example query. Datasets are sequences of at most `MaxRows` keys; `BatchRows` and `SampleLimit`
are the two limits of the code. `StreamedColumns` adds what the key is made of: the type that pandas
gives to a column of one batch (`CellType`), and the value. A file is any table of whole numbers,
text and empty cells. `InMemory` and `Dangling` are what the memory path computes and what the rule
says; `SameRead` is when two rows are equal and were read as the same types.

### ContractRules and StreamedRules

A file is a header and rows of texts. What pandas makes of it is a frame: the same header, and cells
that are a type (`int`, `float`, `str`) with a text, or empty. The text of the number 1 is "1" or
"1.0" by its type, which is what patterns, lengths and allowed values meet. A finding is a rule, a
column, a severity, the number of rows it affects and the rows it shows. The checks of a column are
the sets of cells they refuse (`Refused`); uniqueness and the dataset rules look at rows. `Reported`
is the cut at `max_findings` with its summary finding, `Passed` the verdict of `_summary`. The cut
keeps any most severe findings (`MostSevere`): which of two equally severe ones goes is decided by
the alphabet. `IsContract` is what the classes of `models.py` let through: a column with a rule is
required, names of dataset rules differ. `DiffContracts` is the class of change that
`diff_contracts` gives, with what it does not look at named in `OverlookedIsSame`.

`StreamedRules` types what is read together (`ReadWith`): the whole file in memory (`Whole`), and each
batch like a file of its own (`Batch`; `ByBatch` is all of them in one frame). It has one action, a
batch: `ChunkContract` is the contract without the rules that need the whole file, `Merged` is `_merge_stream_finding` (row numbers moved by the offset of the
batch, counts added, examples cut), `Update` the profiler with its shared budget of distinct values,
column by column and in each row by row (`TrackColumn`). The profiler counts typed cells, as
`_scalar_key` does: 1 and 1.0 are two.
What is decided at the end is `StreamedFindings`; `InMemoryFindings` is what the memory path finds in a
frame, and is the reference. Three properties compare the two. `BatchesAddUp` is of every file: a run
has the findings that the rules have on all cells at once, typed as the batches read them. That is
what merging, offsets and the chunk contract are to do. `StreamedRunIsExact` compares with the file
read whole, as the documents promise, and does not hold (section 4). `ExactWhenTypedAlike` says that
it holds of the files that are typed alike in their batches and as a whole (`TypedAlike`). For both, a
null_ratio finding may show other rows, and the type drift of a column without words is not
compared.

### Installation

The state is what is on disk: the release whose metadata and manifest are there, whether the managed
files match, wheels, the four generated identity files (`identity`), the virtual environment as its
interpreter, its pip and the release each part of it is of, and what has been moved aside with and
without a receipt. A launch goes through `Preflight`, `MoveWheel`, `WriteReceipt`, `Gate`, `Retire`,
`MoveIdentity`, `Prepare`, ... , `WriteRuntime`, `Run`: the order of `launch.bat` and
`ensure_environment`. From outside come `Extract` (a release over what is there; files it does not
have stay) and `Change`. `CutOff` is an exception or a kill at any step, with what the step may
leave behind (`Remains`): half-installed packages are `Mixed`, a removed tree may have lost any of
its parts. `environment_valid` sees less than the model does: it may accept foreign packages
(`MayBeValid`) and must accept the right ones (`MustBeValid`).

### StateSchema and ServeCommand

`db` is user_version and the tables and columns; `Migration` is the list of statements that commit
on their own; `at` is how far each process is in it. `Connect` looks whether the file exists before
SQLite creates it, `Backup` copies what is there by then under a name with the second in it, and
`Receipt` hashes the copy as it is by then. `AddColumn` fails if another process added the column
since it was looked up. `Abandon` is the end of the process.

`ServeCommand` runs these steps as the start of the server, in the main thread of each process,
next to `Reserve` (the socket is bound first and stays bound), the four places that write the
endpoint record, and the browser thread: `Answered` (a server at the port answers with the launch id
of this process), `Deadline`, `CheckEvent`, `RecordRunning`. `Stop` is a signal, `Kill` the end of
the process anywhere.

### DiagnosticsExport

One record per call: where it is, its fingerprint, the second of its context, and what retention has
listed. `Enter` tests `_capturing` before `SetCapturing` sets it, and `Dedupe` tests `_seen` before
`AddSeen` adds to it, as the code does; `TakeLock` is `O_CREAT | O_EXCL`; `ReadClock` is the clock,
read once for the context and once for the export; `Move` replaces an export of the same name;
`List`, `Sort`, `RemoveExport` and `Vanished` are the retention, which is not under the lock.

Every way out that the code has is an action. `Fail` and `FailLocked` are exceptions whose finally
clauses succeed. `LockStays` is the inner clause when it raises: the environment file is removed
before the lock (`diagnostics.py:420-421`), and either may fail. `FlagStays` is an exception between
the flag and the `try` (:174-176, :229-234). `LeaveFails` is the outer clause of a support export when
its context file cannot be removed (:262-263). `Kill` is the end of a process, which leaves the lock
file. `orphaned` and `stuck` remember the lock and the flags that were left in one of these ways;
`made` and `written` are history too.

## 3. Runs

| Run (`.cfg`) | Instance | Question |
|---|---|---|
| `jobs` (MCJobLifecycle) | 2 jobs, 1 worker, 1 queue place, 1 caller, 1 store failure, 1 crash | permits, registry, rows, evidence, uploads; `CompletedIsFinal`; implements `BoundedPool` |
| `job_fair` (MCJobFair) | 2 jobs for 1 permit, 1 caller, shutdown at any time | the fair pool; workers finish; rows of jobs nobody cancels become final; shutdown ends; a job cancelled while waiting never publishes |
| `job_lost_cancel` (MCJobLostCancel) | 1 job, 1 caller | violated: see findings |
| `publication` (MCRunPublication) | 2 runs, 1 failure, 1 crash | folders, rows, pointer, staging; publishers end; implements `Publication` |
| `latest_result` (MCLatestResult) | 1 run | violated: see findings |
| `streamed` (MCStreamedColumns) | every file of up to 5 rows in batches of 2, with whole numbers, text and empty cells in one column and a second that may be empty; every reference dataset of up to 3 rows | counts per key and examples are those of the whole file; counts of a rule are those in memory but for empty rows and equals read as another type |
| `streamed_keys` (MCStreamedKeys) | the rules over whole numbers, 5 rows, empty cells in two of three batches | violated: see findings |
| `rules` (MCStreamedRules) | 12 contracts, 2 baselines, every file of up to 5 rows of one column (3 rows of two) with any cells, batches of 2, at most 3 findings, 3 tracked values | batches add up; exact if typed alike; verdict; profile; contract diff |
| `rules_widened` (MCRulesWidened) | one column of whole numbers, an empty cell in its second batch | violated: see findings |
| `installation` (MCInstallation) | 2 releases, 1 upgrade or downgrade, 2 launches cut off | what runs, what is retired, repair |
| `server_start` (MCServeCommand) | 2 launches, 3 ports with one taken, no database, one cut off in its first migration, one of a later release | schema, version, backup, browser, serving once migrated |
| `diagnostics` (MCDiagnosticsExport) | 3 calls of 3 threads in 2 processes, 2 kinds of failure and support exports, 1 second, 1 fault, 1 export kept | lock and flag, retention, capsules |

**Bounds.** Two jobs on one worker already give a job that waits while another runs, and a job
submitted while another ends; in `job_fair` they contend for one permit, so that the second meets
`QueueFull`. More than two jobs in line are left to the theorem `ManagerImplementsPool`. One caller
can be at any point of `cancel()` while its job goes through all of `_run`. `MaxFaults`,
`MaxCrashes`, `MaxFailures`, `MaxExtracts` and `MaxCalls` bound how often, not where, something
happens. Five rows in batches of two give three batches, so that a key can be alone in one, repeated
in the second and come again in the third, and a finding can be merged twice with more examples than
are shown; the limits of three findings and three tracked values are exceeded by some of the
contracts and files. Two launches are enough for a race of two migrations; a third would meet the
same database. The databases of versions 1 and 2 differ from that of version 0 by the number of
statements to go, and the theorems hold for any. The two instances that must be violated for their
types have one file each, as small as shows it. Three calls in two processes give a call that meets
the flag, one that meets the lock and one that meets the files another removes, and have up to three
names for their exports; that the clock may go on between them is left to the theorems. Where there
is a theorem it holds for any value of these bounds. Symmetry is used in safety runs only, over
jobs, callers, threads of one process or kinds of failure, which the modules treat alike; in
`server_start`, which has a liveness property, the constraint `InOrder` keeps to the behaviours in
which p1 is the first to start, and the others are their mirror images. Only `diagnostics` has no
deadlock check: threads that have made their last call stop.

**Fairness** (`FairSpec`). `JobLifecycle`: weak fairness for each submit that began, each worker,
each `cancel()` that began and the return of `shutdown`; they are threads and a coroutine that does
not await. Work of a job is one weakly fair disjunction: a validation's own steps terminate, and no
step of it waits for another job except `Start`, which is enabled as soon as a worker is free and
the job is the first in line. `RunPublication`: a publisher that was called is a running thread.
`Installation`: a launch that began goes on; that somebody asks for repairs again and again, and
that nobody changes the files any more, is the premise of `RepairRecovers`, not fairness.
`ServeCommand`: `server.run` goes on until it listens or fails; nothing is assumed of the browser
thread, which waits on a clock. Nothing is assumed anywhere of users, who need not upload, cancel,
launch or stop, nor of crashes.

## 4. What the checks show

*Jobs.* Admission is bounded and permits balance, including under store failures; the one permit lost
for each failed `create_job` is explicit (`broken` in `Holders`, `Waste` in `BoundedPool`) because
the code does lose it. Every job the executor has can be cancelled. `cancel()` acts on stale
readings, but because the event is set before the row is read it only ever marks jobs that will not
run; a completed row is never changed again and always has its history entry and its folder.

*Publication.* Report folders are whole at every moment, and rows and pointer never claim more than
is there; duplicated formats make the publication fail after the folder is in place, without a row
or a pointer. A publisher that lives leaves no staging directory, unless it cannot be removed.

*Streaming.* The incremental counts per key equal those of the whole file wherever the batches end,
and merging the findings of the batches gives those of all cells as the batches read them. What the
rules say of the *file* is another question, because a cell is typed with its batch: a uniqueness
rule misses the rows whose equals were all read as another type and the combinations without any
value, a reference rule reports the rows whose equals were all read as another type, and so on in the
findings below. A file that pandas types alike in its batches and as a whole has the findings of the
run in memory, with the same rows shown (a null_ratio finding shows none when streamed). Cutting the
findings never turns a failed run into a passed one, because the finding that says so is critical. A
profile column that calls itself exact is exact about cells as the batches hold them, 1 and 1.0
apart, even when another column has used up the budget; of the file it is exact only if the file is
typed alike.

*Contract diff.* A change that is classed as nonbreaking or less rejects no accepted file, under two
premises the code needs: extra columns are allowed, and the settings `diff_contracts` does not look
at are the same (section 6).

*Installation.* The program runs only as the release that is installed, from files that match the
manifest. Its locked packages are of that release too, unless a launch was cut off since: then
`environment_valid` may accept a mixture. An undisturbed upgrade leaves no identity file of the
earlier release and lists each moved file in a receipt. Repairs recover from anything a launch that
was cut off may leave, as long as nobody changes the files and the gate accepts them.

*Server start.* Whoever is past `_initialize` has the whole schema, although a process that read an
old version may set the version back and although the migration of two processes may interleave:
the loser of the race for the column fails, and is not followed by another failure. Versions are
set after what they stand for, and the first change of an existing database comes after a copy of
it and its receipt. The browser opens only for a launch whose own server has come up, whatever
else has listened at its port.

*Diagnostics.* One export at a time on the machine. Nothing in the code recognises a stale lock or
flag: a lock file that a killed process left, or that stayed because an unlink in the finally clause
raised, keeps every later export out until somebody removes it, and a flag that an exception left set
keeps its process from reporting until it ends, or until a call that had come in before resets it.
`GuardsHaveHolders` says that there are no other
ways. Retention that runs in several threads at once never removes an export of which there were
not `Keep` newer ones. A capsule says what became of its export, unless two processes share it.

**Findings** (runs that must be violated):

1. `job_lost_cancel`: a late write of `cancel()` can replace the worker's final row by `cancelling`,
   and nothing writes that row again. Pollers that wait for completed, failed or cancelled do not
   see an end (`tests/test_api.py:17-20`). `FinishedIsSettled` shows it is the only way for this to
   happen without a store failure, and that such a job has produced nothing.
2. `streamed_keys`: keys hold the type of the batch's column, which is float where a batch has an
   empty cell and int where it has none. Equal rows of two such batches are not found repeated in a
   combination, rows without any value have no key at all and are duplicates only in memory, and a
   reference rule reports whole numbers as missing that are there. `docs/SCALABLE_EXECUTION.md:11`
   says "The validator never silently switches a rule from exact to approximate semantics" and lists
   "composite-key uniqueness" (:19) and "cross-file `reference_exists` rules" (:20) under "Exact
   across batches"; `docs/ARCHITECTURE.md:39` and `docs/CONTRACT_REFERENCE.md:113` ("Membership is
   exact and disk-backed in streaming mode") agree with it.
3. `rules_widened`: the same of a whole run. A file of one column of whole numbers with an empty cell
   has fewer duplicates when streamed ("single-column uniqueness", :18), fewer cells off a pattern,
   since the text of a number is "1" or "1.0" by its batch ("lengths, patterns", :15), and a profile
   that counts 1 and 1.0 apart and calls that exact, although the counts are to be exact "until its
   declared budget is reached" (:26).
4. `latest_result`: the diagnostics export looks for `result.json`, which publication never writes;
   the test writes it by hand.

## 5. What is proved

Eight modules hold proofs; each theorem is for every value of the constants that the named
assumptions of the module allow. Three state a premise of their own: `ExactIfReadAlike` and
`TypedAlikeExact`, that cells are typed alike (the findings show that it is needed), and
`CompatibleSafe`, that the older contract allows extra columns and that what `diff_contracts`
overlooks stays the same (section 6 tells what happens otherwise).

| Module | Theorem | States |
|---|---|---|
| `JobLifecycle_proofs` | `InductiveInvariant`, `TypeCorrect` | `[]IInv`, `[]TypeOK` |
| | `PermitsBalance`, `InFlightCancellable` | `[]SlotsMatchHolders`, `[]InFlightIsCancellable` |
| | `MarksAreSafe`, `CompletedStays` | `[]MarkOnlyBeforeRunning`, `CompletedIsFinal` |
| | `CompletedEvidence`, `UploadsKept` | `[]CompletedHasEvidence`, `[]UploadsLiveAsLongAsTheJob` |
| | `FinishedSettled` | `[]FinishedIsSettled` |
| | `CancelledNeverPublish` | `CancelledWaitingNeverPublishes` |
| | `ManagerImplementsPool` | `ImplementsPool`, the refinement |
| `RunPublication_proofs` | `PublicationInvariant`, `PublicationTypeCorrect` | `[]IInv`, `[]TypeOK` |
| | `FoldersAreWhole`, `RowsMatchFolders` | `[]FolderIsWhole`, `[]RowsMatchFolder` |
| | `PointerPublished`, `StagingTidied` | `[]PointerIsPublished`, `[]StagingIsTidied` |
| | `PublishersImplement` | `ImplementsPublication`, the refinement |
| `KeyIndex_proofs` | `IndexInvariant`, `IndexExact` | `[]IndexInv`, `[]IndexIsExact` |
| | `AffectedExact`, `UnmatchedExact` | `[]AffectedIsExact`, `[]UnmatchedIsExact` |
| | `SamplesRepeated` | `[]SamplesAreRepeated` |
| | `CountsOfFiles` | the same of the files of `StreamedColumns` |
| | `UniqueExactUpToTypes`, `ReferenceExactUpToTypes` | `[]UniqueUpToTypes`, `[]ReferenceUpToTypes` |
| | `ExactIfReadAlike` | `[](ReadAlike => RowRulesAreExact)` |
| `StreamedRules_proofs` | `RunInvariant` | `[]RunInv` |
| | `FindingsAddUp`, `TypedAlikeExact` | `[]BatchesAddUp`, `[]ExactWhenTypedAlike` |
| | `ProfileHonest`, `VerdictSound` | `[]ProfileIsHonest`, `[]VerdictIsSound` |
| | `CompatibleSafe` | `[]CompatibleIsSafe` |
| `Installation_proofs` | `InstallationInvariant`, `InstallationTypeCorrect` | `[]IInv`, `[]TypeOK` |
| | `CommandsRunTheRelease` | `[]CommandRunsTheRelease` |
| | `RetirementsComplete` | `[]RetirementIsComplete` |
| `ServeCommand_proofs` | `SchemaInvariant` | `[]SchemaInv`, of `StateSchema_proofs` |
| | `VersionsAreHonest`, `OpenDatabasesHaveSchema` | `[]VersionIsHonest`, `[]OpenHasSchema` |
| | `BackupsComeFirst` | `BackupBeforeMigration` |
| | `BrowserOpensOwnServer` | `[]OpenedOwnServer` |
| `DiagnosticsExport_proofs` | `TypeCorrect` | `[]TypeOK` |
| | `NobodyIsLockedOut` | `[]GuardsHaveHolders` |
| | `RetentionKeepsNewest` | `[]NewestAreKept` |
| | `CapsulesTellTheTruth` | `[]CapsuleIsHonest` |

**Jobs.** `IInv` relates, per job, the position of its worker to the other state (`JobOK`): which
positions need the request to have got to the executor (`StartedOK`), a clean row (`FreshOK`), an
unopened validation (`UnopenedOK`), a row that can still be queued (`QueuedRowOK`), the history
(`HistoryOK`), the last write (`FinalOK`), the registry (`RegisteredOK`) and the uploads
(`WorkspaceOK`). `QueueOK` says that the executor's queue holds each waiting job once. The core is
`Doomed`, the state of a job that a `cancel()` has seen queued after setting its event: its event is
set, it has not passed its first checkpoint, its row is one of the early or failed states and it has
no history. Every step of the worker keeps `Doomed`, because the first checkpoint looks at the event
before the first progress report; hence a `CallerWrite` with an old row cannot meet a completed job.
`SlotsMatchHolders` needs `Holders` to grow and shrink by exactly one job with `Acquire` and
`Release`, and the crash to empty it. `CancelledNeverPublish` follows one job: once its event is set
while it waits (`GivenUp`), it stays behind its first checkpoint or ends there. The refinement needs
in addition that `Line` is free of repetitions and that its jobs are those that hold a permit and
have not started (`LineOK`); then the permits taken are the size of line, running set and waste
(`PermitsTaken`), and each step is the step of the pool of that name or invisible to it.

**Publication.** The invariant says, per run, what there is at each step of its publisher: the
reports written so far are those asked for (`WrittenAsAsked`), the staging directory has them and,
from the verification on, the manifest (`StagedOK`), and after `os.replace` the folder has what the
staging directory had, the rows appear only with it and the pointer only with them (`PublishedOK`,
`PointerOK`). `Untouched` lets each action be looked at for its own run only. The refinement follows:
`Replace` shows, `ListArtifacts` lists, `Point` points, and everything else, the deletion of rows by
`INSERT OR REPLACE` included, is invisible, because a run that is being recorded has no rows.

**Key index.** `IndexIsExact` (the index knows how often each key came and in which row first) and
`KnownIsExact` make `AffectedIsExact` inductive: adding the rows of a batch under a key adds their
number, and the three cases of the SQL statement are those of a key that was new, single or
repeated. The rows shown are the first repeated one of the batch of each key, or its first row of
all (`ExamplesAreRepeated`). `StreamedColumns` runs the index on the keys of typed cells. A row has
a key if it says anything (`KeyOfRow`), and two rows have the same key exactly if they are equal and
read as the same types (`SameKey`); so the sums over the keys (`SumOfAffected`, `SumOfUnmatched`)
are the numbers of rows that `UniqueUpToTypes` and `ReferenceUpToTypes` name. No file is excluded.
`ExactIfReadAlike` draws the conclusion for files in which equal rows were read alike and no
combination is empty.

**Streamed rules.** Everything is said of `Frame`, the cells of the file as its batches hold them: a
batch, read like a file of its own, is a stretch of the frame's rows (`InItsBatch`, `BatchIs`),
because a row is typed with its batch in both. `Checks` writes a contract over a frame as a set of
checks, each a rule, a column, a severity and the rows that break it, and `FindingsOf(checks, from,
to)` are their findings in a stretch of rows. `RunInv` says that, `done` rows into the file,
`merged` is `FindingsOf(Checks(contract, Frame), 0, done)`, that `nulls` counts the empty cells of
these rows and that the state of each profile column is honest about them (`HonestAt`: exact counts
if it says so, counts that are no greater otherwise). That a batch keeps it takes four steps: the
findings of a batch are those of the checks of the chunk contract on its rows (`ChecksOfBatch`),
which are the checks of the file cut to these rows and numbered from one (`BatchFindingsMoved`); a
check is known by its rule and its column (`ChecksAreKeyed`), so that merging pairs what belongs
together; and the first rows of two neighbouring stretches, joined and cut, are the first rows of
both (`SampleRowsJoin`). The profiler's loops are recursive functions. Their values are found step
by step from the smallest counterexample (`StepByStep` from `Least`), since an induction theorem
cannot be applied here. At the end, the memory path on the frame is the same checks over all rows
plus what is decided from counts (`StreamedParts`, `InMemoryParts`), and the types of the profile
agree with those of the frame for columns with words (`TypesAlike`), which gives `FindingsAddUp`.
`TypedAlikeExact` needs no more than that the frame is then the file read whole (`FrameAgrees`,
`FrameCounts`). `VerdictSound` needs that there are finitely many findings (`PlainIsFinite`,
`DriftIsFinite`) for most severe ones to exist (`MostSevereIs`).

**Contract diff.** `CompatibleParts` splits a class of change into those of its parts, each no higher;
`RefusesNoMore` shows for each check of a column that a compatible change refuses no new cell, and
`CompatibleFindings` that a file with no finding under the old contract has none under the new one.

**Installation.** The parts of `IInv` say what a stage may rely on: that the gate's facts stay true to
the end of the launch and that packages and application are installed before the program runs
(`StagesOK`); that packages and application are of one release unless a launch was cut off between
them (`TogetherOK`), which is why asking the application for its version is enough; that a pass
knows what it has moved, so that its receipt leaves no file unlisted (`PassOK`); and that, without a
launch that was cut off, all identity files agree with the runtime record by which the stale ones
are recognised (`AgreedOK`).

**Schema.** `SchemaInv` says that a version promises only objects that are there
(`VersionIsHonest`), that a process at statement i has what the statements before it create and that
`looked` is right if it says the column is there (`MigrationOK`), that the database only goes up from
what it was at first (`GrowthOK`), and that, as long as it is what it was, whoever may change it is
behind a copy of it and its receipt (`BackupOK`). `OwnOK` adds, in `ServeCommand`, that a process that
listens, or has opened a browser, has opened its database.

**Diagnostics.** The invariant goes over calls and pairs of calls. Who holds the flag or the lock is at a
step that gives it back, or it was left in a way that `orphaned` and `stuck` record
(`GuardsHaveHolders`, inductive with the types). A call that has written its context was counted
(`CountedOK`, with `PairOK`: two calls whose contexts have the same name were both counted), and it
knows whether there is an export for the capsule it writes (`OutcomeOK`, `CapsuleOK`). What a
retention has still to remove is aged or has `Keep` newer exports (`TodoOK`); an export only ever gets
more newer ones (`NewerGrows`), so that retentions that run at once remove none that one alone would
keep. Most actions change little else than where one call is; they share `QuietStep`.

**Only model-checked.** Every safety property and every action property of a passing run has a theorem,
and so have the refinements of `BoundedPool` and `Publication`. What is left to TLC is liveness, which
the prover does not reach: `WorkersFinish`, `UncancelledReachTerminal`, `ShutdownEnds`,
`PublishersEnd`, `RepairRecovers`, `ServesOnceMigrated`, and `ImplementsFairPool`, the pool with its
fairness. The four violated runs are TLC's counterexamples.

## 6. Seen while modelling

Behaviour that the models show or take over, beside the findings of section 4. What streaming does
to uniqueness, references, patterns, lengths and the profile contradicts documents and is listed
there.

- A baseline approved in memory calls a column of whole numbers "integer"; streamed it is "number" or
  "datetime", so that an unchanged file has a type_changed error. Text that is all digits differs
  likewise. That is why the type drift of such columns is not compared.
- A `create_job` that fails in the store keeps its permit for as long as the process lives.
- A lock file or a flag of the diagnostics that is left behind (section 4) has no owner and no age
  that anybody looks at.
- A support export may lack the context it was made for: each file, the context too, is passed over
  when it cannot be read or is too large (`diagnostics.py:375-376`, `393-399`).
- A backup is skipped for a database file of no bytes (`state_store.py:156-157`). `_connect` has set
  the journal mode by then, which writes a first page, so the models do not have this way.
- `diff_contracts` does not look at patterns, lengths, strict_type, severities, allow_extra_columns or
  privacy settings. In a contract that allows no extra columns it calls the removal of a column
  nonbreaking, and files that still have it are then rejected.
- The stamp of the test packages outlives a repair, which removes them, and `environment_valid` does
  not import them: the next test launch takes the environment for complete.
- A retirement that is cut off is not taken up again: the runtime record, by which a stale identity
  is recognised, is the first file moved. What was moved has no receipt.
- The processes that lose the race for the migration's last column fail to start, once.

## 7. What is left out

Messages, timestamps and contents of reports; the numbers behind most limits (a limit is one of the
ways to fail); read-only endpoints; HTTP and token checks; CSV syntax; privacy findings, regular
expressions and the expression language, which are pure functions over text and floats; parsing,
inheritance and validation of contract documents; the clock behind freshness rules (a value has an
age). In `JobLifecycle` a time limit may strike at any checkpoint, whatever the clock says, and a
crash takes the whole process. SQLite statements of one connection are atomic, and its waits for
locks are not modelled; neither is a backup that fails its integrity check, which ends the start as
any failure does. `LATEST_LAUNCH_STATUS.txt` and the state field of the endpoint record repeat what is
modelled. The support export of the launcher skips preflight and gate and changes nothing here; the
gate's own receipt is read by nobody. Which files go into an export, the context included, and the
redaction of their text are not modelled, nor are the retries of `os.replace` on Windows. The
dashboard's code runs in the browser; the build tools run at the maintainers' machines.

Cells are whole numbers, words or empty: numbers with a fraction, dates and booleans are not, nor are
the texts that pandas reads as something else. A frame's types are those of `read_csv` with
`low_memory=False` (`readers.py:157`, `189`); JSON Lines are not modelled. In `StreamedColumns` the
reference file is cut into batches of the same size as the dataset. In `StreamedRules` the duplicates
of a uniqueness rule are the rows with equal typed cells; that the key index counts these is the
subject of `KeyIndex` and `StreamedColumns`.

## 8. Plan

Written: all modules of section 2, and a theorem for every safety property of section 3. To model, if
they come to share state: the contract registry of the store, and the readers of the endpoint record.
If keys, texts and profile come to depend on the column's type in the whole file, `RowRulesAreExact`
and `StreamedRunIsExact` are the properties to move to the passing runs.
