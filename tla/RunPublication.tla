--------------------------- MODULE RunPublication ---------------------------
(***************************************************************************)
(* publish_run_artifacts of artifacts.py: the reports of a run are staged, *)
(* measured, listed in a manifest, verified, moved into place and recorded *)
(* in the store, and the pointer to the latest completed run follows.      *)
(*                                                                         *)
(* Publishers run at once, one per run: the workers and the demo requests  *)
(* of the dashboard's process, and the processes of the command line, all  *)
(* on one database and one reports folder.  Each may fail at every step,   *)
(* and its process may die at every step.                                  *)
(***************************************************************************)
EXTENDS Naturals, Sequences, FiniteSets

CONSTANTS
    Runs,        \* run identifiers (uuid4().hex: never reused)
    NoRun,       \* there is no latest_completed_run.json yet
    Requests,    \* the sequences of formats a caller may ask for
    MaxFaults,   \* bound: exceptions raised by the file system or the store
    MaxCrashes   \* bound: times that publishers die with their process

ASSUME RunsAssumption     == IsFiniteSet(Runs) /\ NoRun \notin Runs
ASSUME RequestsAssumption == Requests \subseteq Seq(STRING) \ {<<>>}   \* split(","), or the default
ASSUME BoundsAssumption   == MaxFaults \in Nat /\ MaxCrashes \in Nat

VARIABLES
    at,        \* per run: the step its publisher is at
    formats,   \* per run: the formats it was asked for
    written,   \* per run: the report files write_reports has returned, in order
    staging,   \* runs whose staging directory exists
    draft,     \* per run: files in the staging directory
    folder,    \* per run: files under reports/runs/<run_id>, {} when there is none
    recorded,  \* runs in validation_runs
    rows,      \* per run: paths in run_artifacts
    pointer,   \* the run latest_completed_run.json names
    faults, crashes

vars == <<at, formats, written, staging, draft, folder, recorded, rows, pointer,
          faults, crashes>>

-----------------------------------------------------------------------------
(* The files. *)

Supported == {"json", "html", "junit", "sarif"}

ReportOf(format) ==
    CASE format = "json"  -> "data_contract_report.json"
      [] format = "html"  -> "data_contract_report.html"
      [] format = "junit" -> "data_contract_report.xml"
      [] format = "sarif" -> "data_contract_report.sarif"

Reports  == {ReportOf(format) : format \in Supported}
Manifest == "artifact_manifest.json"

\* What a whole folder holds for a request.
Asked(request) == {request[i] : i \in DOMAIN request}
Whole(request) == {ReportOf(format) : format \in Asked(request)} \union {Manifest}

-----------------------------------------------------------------------------
(* The steps of a publisher. *)

Inside == {"write", "limit", "manifest", "verify", "replace", "record", "list", "point"}
Active == {"stage"} \union Inside
Ended  == {"returned", "raised", "littered", "dead"}

Goto(r, there) == at' = [at EXCEPT ![r] = there]

\* except Exception: rmtree of the staging directory, which ignores what it cannot remove,
\* and raise.
Raise(r) ==
    \/ /\ Goto(r, "raised")
       /\ staging' = staging \ {r}
       /\ draft' = [draft EXCEPT ![r] = {}]
    \/ /\ r \in staging /\ UNCHANGED staging
       /\ Goto(r, "littered")
       /\ \E left \in SUBSET draft[r] : draft' = [draft EXCEPT ![r] = left]

\* A validation has ended and its caller publishes it; validate_files has recorded the
\* run in the same store, or not (--no-history).  The folder cannot exist yet.
Call(r) ==
    /\ at[r] = "idle" /\ folder[r] = {}
    /\ Goto(r, "stage")
    /\ \E request \in Requests : formats' = [formats EXCEPT ![r] = request]
    /\ recorded' \in {recorded, recorded \union {r}}
    /\ UNCHANGED <<written, staging, draft, folder, rows, pointer, faults, crashes>>

\* mkdtemp.
Stage(r) ==
    /\ at[r] = "stage"
    /\ Goto(r, "write")
    /\ staging' = staging \union {r}
    /\ UNCHANGED <<formats, written, draft, folder, recorded, rows, pointer, faults, crashes>>

\* Mutant of WriteReport: the first report is taken for all of them.
WriteFirstReport(r) ==
    /\ at[r] = "write"
    /\ LET format == formats[r][1]
       IN /\ format \in Supported
          /\ draft' = [draft EXCEPT ![r] = @ \union {ReportOf(format)}]
          /\ written' = [written EXCEPT ![r] = Append(@, ReportOf(format))]
          /\ Goto(r, "limit")
    /\ UNCHANGED <<formats, staging, folder, recorded, rows, pointer, faults, crashes>>

\* write_reports, one format at a time; a format asked for twice is written twice.
WriteReport(r) ==
    /\ at[r] = "write"
    /\ LET format == formats[r][Len(written[r]) + 1]
       IN /\ format \in Supported
          /\ draft' = [draft EXCEPT ![r] = @ \union {ReportOf(format)}]
          /\ written' = [written EXCEPT ![r] = Append(@, ReportOf(format))]
          /\ Goto(r, IF Len(written'[r]) = Len(formats[r]) THEN "limit" ELSE "write")
    /\ UNCHANGED <<formats, staging, folder, recorded, rows, pointer, faults, crashes>>

\* ReportFormatError.
Unsupported(r) ==
    /\ at[r] = "write" /\ formats[r][Len(written[r]) + 1] \notin Supported
    /\ Raise(r)
    /\ UNCHANGED <<formats, written, folder, recorded, rows, pointer, faults, crashes>>

\* The reports are within max_report_bytes, or they are not.
Measure(r) ==
    /\ at[r] = "limit"
    /\ \/ Goto(r, "manifest") /\ UNCHANGED <<staging, draft>>
       \/ Raise(r)
    /\ UNCHANGED <<formats, written, folder, recorded, rows, pointer, faults, crashes>>

WriteManifest(r) ==
    /\ at[r] = "manifest"
    /\ Goto(r, "verify")
    /\ draft' = [draft EXCEPT ![r] = @ \union {Manifest}]
    /\ UNCHANGED <<formats, written, staging, folder, recorded, rows, pointer, faults, crashes>>

\* Mutant of Verify: the store is told before the folder is moved.
VerifyThenRecord(r) ==
    /\ at[r] = "verify"
    /\ Goto(r, "record")
    /\ UNCHANGED <<formats, written, staging, draft, folder, recorded, rows, pointer,
                   faults, crashes>>

\* Sizes and hashes agree; a difference is one of the faults of Fails.
Verify(r) ==
    /\ at[r] = "verify"
    /\ Goto(r, "replace")
    /\ UNCHANGED <<formats, written, staging, draft, folder, recorded, rows, pointer,
                   faults, crashes>>

\* os.replace(staging, destination).
Replace(r) ==
    /\ at[r] = "replace"
    /\ Goto(r, "record")
    /\ folder' = [folder EXCEPT ![r] = draft[r]]
    /\ staging' = staging \ {r}
    /\ draft' = [draft EXCEPT ![r] = {}]
    /\ UNCHANGED <<formats, written, recorded, rows, pointer, faults, crashes>>

\* Mutant of Record: the pointer is moved before the reports are listed.
RecordThenPoint(r) ==
    /\ at[r] = "record"
    /\ Goto(r, "point")
    /\ recorded' = recorded \union {r}
    /\ rows' = IF r \in recorded THEN rows ELSE [rows EXCEPT ![r] = {}]
    /\ UNCHANGED <<formats, written, staging, draft, folder, pointer, faults, crashes>>

\* get_result is None: record_validation, whose INSERT OR REPLACE deletes the rows
\* that refer to the run.
Record(r) ==
    /\ at[r] = "record"
    /\ Goto(r, "list")
    /\ recorded' = recorded \union {r}
    /\ rows' = IF r \in recorded THEN rows ELSE [rows EXCEPT ![r] = {}]
    /\ UNCHANGED <<formats, written, staging, draft, folder, pointer, faults, crashes>>

\* The primary key (run_id, path) and the foreign key of run_artifacts.
Listable(r) ==
    /\ r \in recorded
    /\ \A i, k \in DOMAIN written[r] : written[r][i] = written[r][k] => i = k

\* record_artifacts: DELETE and INSERT in one transaction...
ListArtifacts(r) ==
    /\ at[r] = "list" /\ Listable(r)
    /\ Goto(r, "point")
    /\ rows' = [rows EXCEPT ![r] = {written[r][i] : i \in DOMAIN written[r]}]
    /\ UNCHANGED <<formats, written, staging, draft, folder, recorded, pointer, faults, crashes>>

\* Mutant of Unlistable: recording is tried again until it succeeds.
UnlistableRetries(r) ==
    /\ at[r] = "list" /\ ~Listable(r)
    /\ Goto(r, "record")
    /\ UNCHANGED <<formats, written, staging, draft, folder, recorded, rows, pointer,
                   faults, crashes>>

\* ... which the constraints may refuse, after the folder is in place.
Unlistable(r) ==
    /\ at[r] = "list" /\ ~Listable(r)
    /\ Raise(r)
    /\ UNCHANGED <<formats, written, folder, recorded, rows, pointer, faults, crashes>>

\* atomic_write_json of the pointer, and return.
Point(r) ==
    /\ at[r] = "point"
    /\ Goto(r, "returned")
    /\ pointer' = r
    /\ UNCHANGED <<formats, written, staging, draft, folder, recorded, rows, faults, crashes>>

\* Mutant of Fails: the staging directory is kept.
FailsUntidily(r) ==
    /\ at[r] \in Active /\ faults < MaxFaults
    /\ faults' = faults + 1
    /\ Goto(r, "raised")
    /\ UNCHANGED <<formats, written, staging, draft, folder, recorded, rows, pointer, crashes>>

\* A step raises and has changed nothing: a full disk, a locked database or file, a
\* report that does not verify.
Fails(r) ==
    /\ at[r] \in Active /\ faults < MaxFaults
    /\ faults' = faults + 1
    /\ Raise(r)
    /\ UNCHANGED <<formats, written, folder, recorded, rows, pointer, crashes>>

\* The publishers of one process stop where they are: no handler runs.
Crash ==
    /\ crashes < MaxCrashes
    /\ crashes' = crashes + 1
    /\ \E dying \in SUBSET {r \in Runs : at[r] \in Active} :
          /\ dying # {}
          /\ at' = [r \in Runs |-> IF r \in dying THEN "dead" ELSE at[r]]
    /\ UNCHANGED <<formats, written, staging, draft, folder, recorded, rows, pointer, faults>>

Publish(r) == \/ Stage(r) \/ WriteReport(r) \/ Unsupported(r) \/ Measure(r)
              \/ WriteManifest(r) \/ Verify(r) \/ Replace(r) \/ Record(r)
              \/ ListArtifacts(r) \/ Unlistable(r) \/ Point(r) \/ Fails(r)

\* Every run has been published, or will not be.
Finished == (\A r \in Runs : at[r] \in Ended) /\ UNCHANGED vars

-----------------------------------------------------------------------------
Init ==
    /\ at = [r \in Runs |-> "idle"]
    /\ formats = [r \in Runs |-> <<>>] /\ written = [r \in Runs |-> <<>>]
    /\ staging = {} /\ draft = [r \in Runs |-> {}] /\ folder = [r \in Runs |-> {}]
    /\ recorded = {} /\ rows = [r \in Runs |-> {}]
    /\ pointer = NoRun
    /\ faults = 0 /\ crashes = 0

Next == (\E r \in Runs : Call(r) \/ Publish(r)) \/ Crash \/ Finished

Spec == Init /\ [][Next]_vars

\* A publisher that was called is a running thread; nothing makes a caller call.
FairSpec == Spec /\ \A r \in Runs : WF_vars(Publish(r))

-----------------------------------------------------------------------------
(* The diagnostics export (_full_export) looks for the latest result: the  *)
(* folder the pointer names, and result.json in it.                        *)

LatestResult == IF pointer = NoRun THEN {} ELSE folder[pointer] \intersect {"result.json"}

-----------------------------------------------------------------------------
\* Every variable keeps the type its Python, file system or SQLite counterpart has.
TypeOK ==
    /\ at \in [Runs -> {"idle"} \union Ended \union Active]
    /\ formats \in [Runs -> Requests \union {<<>>}]
    /\ written \in [Runs -> Seq(Reports)]
    /\ staging \subseteq Runs
    /\ draft \in [Runs -> SUBSET (Reports \union {Manifest})]
    /\ folder \in [Runs -> SUBSET (Reports \union {Manifest})]
    /\ recorded \subseteq Runs
    /\ rows \in [Runs -> SUBSET Reports]
    /\ pointer \in Runs \union {NoRun}
    /\ faults \in 0..MaxFaults /\ crashes \in 0..MaxCrashes

\* A report folder is never seen half-made: it holds every report that was asked for
\* and the manifest, wherever its publisher failed or died.
FolderIsWhole == \A r \in Runs : folder[r] # {} => folder[r] = Whole(formats[r])

\* run_artifacts lists exactly the reports of a folder that is there, of a run that is
\* in the history.
RowsMatchFolder ==
    \A r \in Runs : rows[r] # {} => /\ folder[r] = rows[r] \union {Manifest}
                                    /\ r \in recorded

\* The pointer to the latest completed run names a run whose publication came to its
\* end: it is in the history and its reports are in place and listed.
PointerIsPublished ==
    pointer # NoRun => /\ at[pointer] = "returned" /\ pointer \in recorded
                       /\ rows[pointer] # {}
                       /\ folder[pointer] = rows[pointer] \union {Manifest}

\* Unless its process dies or the directory cannot be removed, a publisher leaves no staging
\* directory, however it ends, and it never keeps one next to the folder made of it.
StagingIsTidied ==
    \A r \in staging : at[r] \in {"dead", "littered", "write", "limit", "manifest", "verify", "replace"}
                       /\ folder[r] = {}

\* A publisher that was called returns or raises, unless its process dies.
PublishersEnd == \A r \in Runs : at[r] = "stage" ~> at[r] \in Ended

\* The diagnostics export of an installation that has completed a run carries its
\* result.
ExportHasLatestResult == pointer # NoRun => LatestResult # {}

-----------------------------------------------------------------------------
(* Publication is what readers may rely on. *)

Readers == INSTANCE Publication WITH
               shown  <- {r \in Runs : folder[r] # {}},
               listed <- {r \in Runs : rows[r] # {}},
               latest <- pointer

\* The steps of publish_run_artifacts, of several publishers at once, with failures
\* and crashes at every step, are steps of Publication or invisible to readers.
ImplementsPublication == Readers!Spec
=============================================================================
