------------------------ MODULE RunPublication_proofs ------------------------
(***************************************************************************)
(* Theorems about RunPublication: whatever is asked for, however many      *)
(* publishers run, fail and die, a folder is whole, the store and the      *)
(* pointer follow it, and readers see what Publication promises.           *)
(***************************************************************************)
EXTENDS RunPublication, TLAPS

-----------------------------------------------------------------------------
(* The inductive invariant: what there is of a run at each step.           *)

Reported(r) == {written[r][i] : i \in DOMAIN written[r]}

Staged == {"write", "limit", "manifest", "verify", "replace"}

\* The reports are those asked for, as far as they are written; a step beyond
\* write_reports has them all.
WrittenAsAsked(r) ==
    /\ Len(written[r]) <= Len(formats[r])
    /\ \A i \in 1..Len(written[r]) : written[r][i] = ReportOf(formats[r][i])
    /\ at[r] \in {"idle", "stage"} => written[r] = <<>>
    /\ at[r] \in Active => formats[r] # <<>>
    /\ at[r] = "write" => Len(written[r]) < Len(formats[r])
    /\ at[r] \in Inside \ {"write"} => Len(written[r]) = Len(formats[r])

\* What the staging directory has.
StagedOK(r) ==
    /\ r \in staging => at[r] \in Staged \union {"dead", "littered"} /\ folder[r] = {}
    /\ at[r] \in {"idle", "stage"} => draft[r] = {}
    /\ at[r] \in {"write", "limit", "manifest"} => draft[r] = Reported(r)
    /\ at[r] \in {"verify", "replace"} => draft[r] = Reported(r) \union {Manifest}
    /\ at[r] \in {"idle", "stage"} \union Staged => folder[r] = {}

\* What comes after os.replace.
PublishedOK(r) ==
    /\ folder[r] # {} => /\ folder[r] = Reported(r) \union {Manifest}
                         /\ Len(written[r]) = Len(formats[r])
    /\ rows[r] # {} => folder[r] # {} /\ rows[r] = Reported(r) /\ r \in recorded
    /\ at[r] \in {"record", "list", "point"} => folder[r] # {}
    /\ at[r] \in {"record", "list"} => rows[r] = {}
    /\ at[r] = "point" => rows[r] # {}

RunOK(r) == WrittenAsAsked(r) /\ StagedOK(r) /\ PublishedOK(r)

PointerOK == pointer # NoRun => at[pointer] = "returned" /\ rows[pointer] # {}

IInv == TypeOK /\ (\A r \in Runs : RunOK(r)) /\ PointerOK

-----------------------------------------------------------------------------
(* The steps. *)

\* The requests are sequences, none of them empty.
LEMMA Sequences ==
  ASSUME TypeOK, NEW r \in Runs
  PROVE  /\ formats[r] \in Seq(STRING) /\ Len(formats[r]) \in Nat
         /\ written[r] \in Seq(Reports) /\ Len(written[r]) \in Nat
  <1>1. formats[r] \in Requests \union {<<>>} /\ written[r] \in Seq(Reports)
    BY DEF TypeOK
  <1>2. <<>> \in Seq(STRING)
    OBVIOUS
  <1>3. formats[r] \in Seq(STRING)
    BY <1>1, <1>2, RequestsAssumption
  <1> QED BY <1>1, <1>3

\* Nothing is said of a run by what happens to the others.
LEMMA Untouched ==
  ASSUME NEW q \in Runs, RunOK(q),
         at'[q] = at[q], formats'[q] = formats[q], written'[q] = written[q],
         draft'[q] = draft[q], folder'[q] = folder[q], rows'[q] = rows[q],
         q \in staging' => q \in staging, q \in recorded => q \in recorded'
  PROVE  RunOK(q)'
  BY DEF RunOK, WrittenAsAsked, StagedOK, PublishedOK, Reported

\* A request is taken.
LEMMA CallKeeps ==
  ASSUME IInv, NEW r \in Runs, Call(r)
  PROVE  IInv'
  <1> USE DEF Call, Goto
  <1>1. TypeOK'
    BY DEF IInv, TypeOK, Active, Inside, Ended
  <1>2. ASSUME NEW q \in Runs \ {r} PROVE RunOK(q)'
    BY Untouched, <1>2 DEF IInv, TypeOK
  <1>3. RunOK(r)'
    <2>1. RunOK(r) /\ at'[r] = "stage" /\ formats'[r] \in Seq(STRING) \ {<<>>}
      BY RequestsAssumption DEF IInv, TypeOK
    <2>2. written'[r] = <<>> /\ folder'[r] = {} /\ rows'[r] = {} /\ draft'[r] = {} /\ r \notin staging'
      BY DEF IInv, TypeOK, RunOK, WrittenAsAsked, StagedOK, PublishedOK, Staged
    <2> QED BY <2>1, <2>2 DEF RunOK, WrittenAsAsked, StagedOK, PublishedOK, Staged, Inside
  <1>4. PointerOK'
    BY DEF IInv, TypeOK, PointerOK
  <1> QED BY <1>1, <1>2, <1>3, <1>4 DEF IInv

\* A report is added to those written before it.
LEMMA WriteReportKeeps ==
  ASSUME IInv, NEW r \in Runs, WriteReport(r)
  PROVE  IInv'
  <1> USE DEF WriteReport, Goto
  <1>1. /\ written[r] \in Seq(Reports) /\ Len(written[r]) \in Nat /\ Len(formats[r]) \in Nat
        /\ Len(written[r]) < Len(formats[r]) /\ RunOK(r)
    BY Sequences DEF IInv, RunOK, WrittenAsAsked
  <1> DEFINE report == ReportOf(formats[r][Len(written[r]) + 1])
  <1>2. report \in Reports
    BY DEF Reports
  <1>3. written' = [written EXCEPT ![r] = Append(@, report)] /\ draft' = [draft EXCEPT ![r] = @ \union {report}]
    OBVIOUS
  <1>4. written'[r] = Append(written[r], report) /\ draft'[r] = draft[r] \union {report}
    BY <1>3 DEF IInv, TypeOK
  <1>5. /\ written'[r] \in Seq(Reports) /\ Len(written'[r]) = Len(written[r]) + 1
        /\ \A i \in 1..Len(written[r]) : written'[r][i] = written[r][i]
        /\ written'[r][Len(written[r]) + 1] = report
    <2> HIDE DEF report
    <2> QED BY <1>1, <1>2, <1>4
  <1>6. at'[r] = (IF Len(written'[r]) = Len(formats[r]) THEN "limit" ELSE "write")
    BY DEF IInv, TypeOK
  <1>7. TypeOK'
    <2>1. written' \in [Runs -> Seq(Reports)] /\ draft' \in [Runs -> SUBSET (Reports \union {Manifest})]
      <3> HIDE DEF report, WriteReport
      <3> QED BY <1>2, <1>3, <1>4, <1>5 DEF IInv, TypeOK
    <2>2. at' \in [Runs -> {"idle"} \union Ended \union Active]
      BY DEF IInv, TypeOK, Active, Inside, Ended
    <2> QED BY <2>1, <2>2 DEF IInv, TypeOK
  <1>8. ASSUME NEW q \in Runs \ {r} PROVE RunOK(q)'
    BY Untouched, <1>8 DEF IInv, TypeOK
  <1>9. RunOK(r)'
    <2>1. Reported(r)' = Reported(r) \union {report}
      <3> HIDE DEF report
      <3>1. DOMAIN written[r] = 1..Len(written[r]) /\ DOMAIN written'[r] = 1..Len(written[r]) + 1
        BY <1>1, <1>5
      <3> QED BY <3>1, <1>1, <1>5 DEF Reported
    <2>2. WrittenAsAsked(r)'
      <3>1. \A i \in 1..Len(written'[r]) : i \in 1..Len(written[r]) \/ i = Len(written[r]) + 1
        BY <1>1, <1>5
      <3>2. \A i \in 1..Len(written'[r]) : written'[r][i] = ReportOf(formats'[r][i])
        BY <3>1, <1>1, <1>5 DEF RunOK, WrittenAsAsked
      <3> HIDE DEF report
      <3> QED BY <3>2, <1>1, <1>5, <1>6 DEF RunOK, WrittenAsAsked, Active, Inside
    <2>3. StagedOK(r)'
      <3> HIDE DEF report
      <3> QED BY <2>1, <1>1, <1>4, <1>6 DEF RunOK, StagedOK, Staged
    <2>4. PublishedOK(r)'
      BY <1>1, <1>6 DEF RunOK, PublishedOK, StagedOK, Staged
    <2> QED BY <2>2, <2>3, <2>4 DEF RunOK
  <1>10. PointerOK'
    BY DEF IInv, TypeOK, PointerOK
  <1> QED BY <1>7, <1>8, <1>9, <1>10 DEF IInv

\* A publisher gives up: its staging directory is removed, as far as it can be, and what was
\* published stays.
LEMMA RaiseKeeps ==
  ASSUME IInv, NEW r \in Runs, at[r] \in Active, Raise(r),
         faults' \in 0..MaxFaults,
         UNCHANGED <<formats, written, folder, recorded, rows, pointer, crashes>>
  PROVE  IInv'
  <1> USE DEF Raise, Goto
  <1>1. TypeOK'
    BY DEF IInv, TypeOK, Active, Inside, Ended
  <1>2. ASSUME NEW q \in Runs \ {r} PROVE RunOK(q)'
    BY Untouched, <1>2 DEF IInv, TypeOK
  <1>3. RunOK(r)'
    <2>1. /\ RunOK(r) /\ at'[r] \in {"raised", "littered"}
          /\ r \in staging' => at'[r] = "littered" /\ r \in staging
      BY DEF IInv, TypeOK
    <2> QED BY <2>1 DEF RunOK, WrittenAsAsked, StagedOK, PublishedOK, Staged, Reported, Active, Inside
  <1>4. PointerOK'
    BY DEF IInv, TypeOK, PointerOK, Active, Inside
  <1> QED BY <1>1, <1>2, <1>3, <1>4 DEF IInv

\* The staging directory is made, empty.
LEMMA StageKeeps ==
  ASSUME IInv, NEW r \in Runs, Stage(r)
  PROVE  IInv'
  <1> USE DEF Stage, Goto
  <1>1. TypeOK'
    BY DEF IInv, TypeOK, Active, Inside, Ended
  <1>2. ASSUME NEW q \in Runs \ {r} PROVE RunOK(q)'
    BY Untouched, <1>2 DEF IInv, TypeOK
  <1>3. RunOK(r)'
    <2>1. RunOK(r) /\ at'[r] = "write" /\ at[r] = "stage" /\ r \in Runs
      BY DEF IInv, TypeOK
    <2>2. formats[r] \in Seq(STRING) /\ formats[r] # <<>> /\ Len(formats[r]) \in Nat
      BY <2>1, Sequences DEF IInv, RunOK, WrittenAsAsked, Active
    <2>3. Len(formats[r]) > 0 /\ written[r] = <<>> /\ Len(written[r]) = 0 /\ Reported(r) = {}
      BY <2>1, <2>2 DEF RunOK, WrittenAsAsked, Reported
    <2> QED BY <2>1, <2>2, <2>3 DEF RunOK, WrittenAsAsked, StagedOK, PublishedOK, Staged, Reported, Active, Inside
  <1>4. PointerOK'
    BY DEF IInv, TypeOK, PointerOK
  <1> QED BY <1>1, <1>2, <1>3, <1>4 DEF IInv

\* The manifest joins the reports.
LEMMA WriteManifestKeeps ==
  ASSUME IInv, NEW r \in Runs, WriteManifest(r)
  PROVE  IInv'
  <1> USE DEF WriteManifest, Goto
  <1>1. TypeOK'
    BY DEF IInv, TypeOK, Active, Inside, Ended
  <1>2. ASSUME NEW q \in Runs \ {r} PROVE RunOK(q)'
    BY Untouched, <1>2 DEF IInv, TypeOK
  <1>3. RunOK(r)'
    <2>1. RunOK(r) /\ at'[r] = "verify" /\ at[r] = "manifest" /\ draft'[r] = draft[r] \union {Manifest}
      BY DEF IInv, TypeOK
    <2> QED BY <2>1 DEF RunOK, WrittenAsAsked, StagedOK, PublishedOK, Staged, Reported, Active, Inside
  <1>4. PointerOK'
    BY DEF IInv, TypeOK, PointerOK
  <1> QED BY <1>1, <1>2, <1>3, <1>4 DEF IInv

\* The files are verified.
LEMMA VerifyKeeps ==
  ASSUME IInv, NEW r \in Runs, Verify(r)
  PROVE  IInv'
  <1> USE DEF Verify, Goto
  <1>1. TypeOK'
    BY DEF IInv, TypeOK, Active, Inside, Ended
  <1>2. ASSUME NEW q \in Runs \ {r} PROVE RunOK(q)'
    BY Untouched, <1>2 DEF IInv, TypeOK
  <1>3. RunOK(r)'
    <2>1. RunOK(r) /\ at'[r] = "replace" /\ at[r] = "verify"
      BY DEF IInv, TypeOK
    <2> QED BY <2>1 DEF RunOK, WrittenAsAsked, StagedOK, PublishedOK, Staged, Reported, Active, Inside
  <1>4. PointerOK'
    BY DEF IInv, TypeOK, PointerOK
  <1> QED BY <1>1, <1>2, <1>3, <1>4 DEF IInv

\* The staging directory becomes the folder.
LEMMA ReplaceKeeps ==
  ASSUME IInv, NEW r \in Runs, Replace(r)
  PROVE  IInv'
  <1> USE DEF Replace, Goto
  <1>1. TypeOK'
    BY DEF IInv, TypeOK, Active, Inside, Ended
  <1>2. ASSUME NEW q \in Runs \ {r} PROVE RunOK(q)'
    BY Untouched, <1>2 DEF IInv, TypeOK
  <1>3. RunOK(r)'
    <2>1. RunOK(r) /\ at'[r] = "record" /\ at[r] = "replace" /\ folder'[r] = draft[r] /\ r \notin staging' 
      BY DEF IInv, TypeOK
    <2> QED BY <2>1 DEF RunOK, WrittenAsAsked, StagedOK, PublishedOK, Staged, Reported, Active, Inside
  <1>4. PointerOK'
    BY DEF IInv, TypeOK, PointerOK
  <1> QED BY <1>1, <1>2, <1>3, <1>4 DEF IInv

\* The run is in the history, and has no rows yet.
LEMMA RecordKeeps ==
  ASSUME IInv, NEW r \in Runs, Record(r)
  PROVE  IInv'
  <1> USE DEF Record, Goto
  <1>1. TypeOK'
    BY DEF IInv, TypeOK, Active, Inside, Ended
  <1>2. ASSUME NEW q \in Runs \ {r} PROVE RunOK(q)'
    BY Untouched, <1>2 DEF IInv, TypeOK
  <1>3. RunOK(r)'
    <2>1. RunOK(r) /\ at'[r] = "list" /\ at[r] = "record" /\ rows'[r] = {} /\ rows[r] = {}
      BY DEF IInv, TypeOK, RunOK, PublishedOK
    <2> QED BY <2>1 DEF RunOK, WrittenAsAsked, StagedOK, PublishedOK, Staged, Reported, Active, Inside
  <1>4. PointerOK'
    BY DEF IInv, TypeOK, PointerOK
  <1> QED BY <1>1, <1>2, <1>3, <1>4 DEF IInv

\* The store lists the reports.
LEMMA ListArtifactsKeeps ==
  ASSUME IInv, NEW r \in Runs, ListArtifacts(r)
  PROVE  IInv'
  <1> USE DEF ListArtifacts, Goto
  <1>1. TypeOK'
    <2>1. Reported(r) \subseteq Reports
      BY Sequences DEF IInv, Reported
    <2> QED BY <2>1 DEF IInv, TypeOK, Active, Inside, Ended, Reported
  <1>2. ASSUME NEW q \in Runs \ {r} PROVE RunOK(q)'
    BY Untouched, <1>2 DEF IInv, TypeOK
  <1>3. RunOK(r)'
    <2>1. RunOK(r) /\ at'[r] = "point" /\ at[r] = "list" /\ rows'[r] = Reported(r) /\ r \in recorded
      BY DEF IInv, TypeOK, Listable, Reported
    <2>2. formats[r] # <<>> /\ Len(written[r]) = Len(formats[r])
      BY <2>1 DEF RunOK, WrittenAsAsked, Active, Inside
    <2>3. written[r] # <<>> /\ written[r] \in Seq(Reports)
      BY <2>2, Sequences DEF IInv
    <2>4. 1 \in DOMAIN written[r]
      BY <2>3
    <2>5. written[r][1] \in Reported(r)
      BY <2>4 DEF Reported
    <2> QED BY <2>1, <2>5 DEF RunOK, WrittenAsAsked, StagedOK, PublishedOK, Staged, Reported, Active, Inside
  <1>4. PointerOK'
    BY DEF IInv, TypeOK, PointerOK
  <1> QED BY <1>1, <1>2, <1>3, <1>4 DEF IInv

\* The reports are within the limit, or the publisher gives up.
LEMMA MeasureKeeps ==
  ASSUME IInv, NEW r \in Runs, Measure(r)
  PROVE  IInv'
  <1>1. CASE Raise(r)
    BY <1>1, RaiseKeeps DEF Measure, IInv, TypeOK, Active, Inside
  <1>2. CASE Goto(r, "manifest") /\ UNCHANGED <<staging, draft>>
    <2> USE <1>2 DEF Measure, Goto
    <2>1. TypeOK'
      BY DEF IInv, TypeOK, Active, Inside, Ended
    <2>2. ASSUME NEW q \in Runs \ {r} PROVE RunOK(q)'
      BY Untouched, <2>2 DEF IInv, TypeOK
    <2>3. RunOK(r) /\ at[r] = "limit" /\ at'[r] = "manifest"
      BY DEF IInv, TypeOK
    <2>4. RunOK(r)'
      BY <2>3 DEF RunOK, WrittenAsAsked, StagedOK, PublishedOK, Staged, Reported, Active, Inside
    <2>5. PointerOK'
      BY DEF IInv, TypeOK, PointerOK
    <2> QED BY <2>1, <2>2, <2>4, <2>5 DEF IInv
  <1> QED BY <1>1, <1>2 DEF Measure

\* The pointer follows a run whose reports are listed.
LEMMA PointKeeps ==
  ASSUME IInv, NEW r \in Runs, Point(r)
  PROVE  IInv'
  <1> USE DEF Point, Goto
  <1>1. TypeOK'
    BY DEF IInv, TypeOK, Active, Inside, Ended
  <1>2. ASSUME NEW q \in Runs \ {r} PROVE RunOK(q)'
    BY Untouched, <1>2 DEF IInv, TypeOK
  <1>3. RunOK(r) /\ at'[r] = "returned" /\ at[r] = "point"
    BY DEF IInv, TypeOK
  <1>4. RunOK(r)'
    BY <1>3 DEF RunOK, WrittenAsAsked, StagedOK, PublishedOK, Staged, Reported, Active, Inside
  <1>5. PointerOK'
    BY <1>3 DEF RunOK, PublishedOK, PointerOK
  <1> QED BY <1>1, <1>2, <1>4, <1>5 DEF IInv

\* The ways to raise.
LEMMA RaisingKeeps ==
  ASSUME IInv, NEW r \in Runs, Unsupported(r) \/ Unlistable(r) \/ Fails(r)
  PROVE  IInv'
  <1>1. at[r] \in Active /\ faults' \in 0..MaxFaults
    BY BoundsAssumption DEF IInv, TypeOK, Unsupported, Unlistable, Fails, Active, Inside
  <1> QED BY <1>1, RaiseKeeps DEF Unsupported, Unlistable, Fails

\* Publishers die where they are.
LEMMA CrashKeeps ==
  ASSUME IInv, Crash
  PROVE  IInv'
  <1>1. PICK dying \in SUBSET {r \in Runs : at[r] \in Active} :
            at' = [r \in Runs |-> IF r \in dying THEN "dead" ELSE at[r]]
    BY DEF Crash
  <1>2. TypeOK'
    BY <1>1, BoundsAssumption DEF Crash, IInv, TypeOK, Ended
  <1>3. ASSUME NEW q \in Runs \ dying PROVE RunOK(q)'
    BY Untouched, <1>1, <1>3 DEF Crash, IInv, TypeOK
  <1>4. ASSUME NEW q \in dying PROVE RunOK(q)'
    <2>1. RunOK(q) /\ at'[q] = "dead" /\ at[q] \in Active /\ q \in Runs
      BY <1>1, <1>4 DEF IInv
    <2> QED BY <2>1 DEF Crash, RunOK, WrittenAsAsked, StagedOK, PublishedOK, Staged, Reported, Active, Inside
  <1>5. PointerOK'
    BY <1>1 DEF Crash, IInv, TypeOK, PointerOK, Active, Inside
  <1> QED BY <1>2, <1>3, <1>4, <1>5 DEF IInv

-----------------------------------------------------------------------------
(* The theorems. *)

\* Nothing has been published at first.
LEMMA Starts == Init => IInv
  <1> SUFFICES ASSUME Init PROVE IInv
    OBVIOUS
  <1>1. TypeOK
    BY BoundsAssumption DEF Init, TypeOK, Ended
  <1>2. ASSUME NEW r \in Runs PROVE RunOK(r)
    BY <1>2 DEF Init, RunOK, WrittenAsAsked, StagedOK, PublishedOK, Staged, Reported, Active, Inside
  <1> QED BY <1>1, <1>2 DEF Init, IInv, PointerOK

\* Every step keeps the invariant.
LEMMA Preserved == IInv /\ [Next]_vars => IInv'
  <1> SUFFICES ASSUME IInv, [Next]_vars PROVE IInv'
    OBVIOUS
  <1>1. ASSUME NEW r \in Runs, Call(r) PROVE IInv'
    BY <1>1, CallKeeps
  <1>2. ASSUME NEW r \in Runs, Publish(r) PROVE IInv'
    BY <1>2, StageKeeps, WriteReportKeeps, MeasureKeeps, WriteManifestKeeps, VerifyKeeps,
       ReplaceKeeps, RecordKeeps, ListArtifactsKeeps, PointKeeps, RaisingKeeps DEF Publish
  <1>3. CASE Crash
    BY <1>3, CrashKeeps
  <1>4. CASE UNCHANGED vars
    BY <1>4 DEF vars, IInv, TypeOK, RunOK, WrittenAsAsked, StagedOK, PublishedOK, Reported, PointerOK
  <1> QED BY <1>1, <1>2, <1>3, <1>4 DEF Next, Finished

\* What is staged, moved, listed and pointed to fits the step each publisher is at,
\* however many there are, whatever they are asked for and wherever they stop.
THEOREM PublicationInvariant == Spec => []IInv
  BY Starts, Preserved, PTL DEF Spec

\* Every variable keeps its type.
THEOREM PublicationTypeCorrect == Spec => []TypeOK
  <1>1. IInv => TypeOK
    BY DEF IInv
  <1> QED BY <1>1, PublicationInvariant, PTL

\* A report folder holds every report that was asked for and the manifest, wherever
\* its publisher failed or died.
THEOREM FoldersAreWhole == Spec => []FolderIsWhole
  <1>1. ASSUME IInv, NEW r \in Runs, folder[r] # {} PROVE folder[r] = Whole(formats[r])
    <2>1. folder[r] = Reported(r) \union {Manifest} /\ Len(written[r]) = Len(formats[r])
      BY <1>1 DEF IInv, RunOK, PublishedOK
    <2>2. DOMAIN written[r] = 1..Len(written[r]) /\ DOMAIN formats[r] = 1..Len(formats[r])
      BY <1>1, Sequences DEF IInv
    <2>3. \A i \in DOMAIN written[r] : written[r][i] = ReportOf(formats[r][i])
      BY <1>1, <2>2 DEF IInv, RunOK, WrittenAsAsked
    <2>4. Reported(r) = {ReportOf(format) : format \in Asked(formats[r])}
      BY <2>1, <2>2, <2>3 DEF Reported, Asked
    <2> QED BY <2>1, <2>4 DEF Whole
  <1>2. IInv => FolderIsWhole
    BY <1>1 DEF FolderIsWhole
  <1> QED BY <1>2, PublicationInvariant, PTL

\* The rows of a run are the reports of its folder, and the run is in the history.
THEOREM RowsMatchFolders == Spec => []RowsMatchFolder
  <1>1. IInv => RowsMatchFolder
    BY DEF IInv, RunOK, PublishedOK, RowsMatchFolder
  <1> QED BY <1>1, PublicationInvariant, PTL

\* The pointer names a run whose publication came to its end.
THEOREM PointerPublished == Spec => []PointerIsPublished
  <1>1. IInv => PointerIsPublished
    BY DEF IInv, TypeOK, RunOK, PublishedOK, PointerOK, PointerIsPublished
  <1> QED BY <1>1, PublicationInvariant, PTL

\* Unless its process dies or the directory cannot be removed, a publisher leaves none.
THEOREM StagingTidied == Spec => []StagingIsTidied
  <1>1. IInv => StagingIsTidied
    BY DEF IInv, TypeOK, RunOK, StagedOK, Staged, StagingIsTidied
  <1> QED BY <1>1, PublicationInvariant, PTL

-----------------------------------------------------------------------------
(* Refinement. *)

\* A folder appears, once and with something in it.
LEMMA ReplaceShows ==
  ASSUME IInv, NEW r \in Runs, Replace(r)
  PROVE  Readers!Show(r)
  <1>1. RunOK(r) /\ folder[r] = {} /\ draft[r] # {}
    BY DEF IInv, RunOK, StagedOK, Staged, Replace
  <1>2. folder' = [folder EXCEPT ![r] = draft[r]] /\ folder \in [Runs -> SUBSET (Reports \union {Manifest})]
    BY DEF IInv, TypeOK, Replace
  <1>3. {q \in Runs : folder'[q] # {}} = {q \in Runs : folder[q] # {}} \union {r}
    BY <1>1, <1>2
  <1> QED BY <1>1, <1>3 DEF Readers!Show, Replace

\* Its reports are listed.
LEMMA ListingLists ==
  ASSUME IInv, NEW r \in Runs, ListArtifacts(r)
  PROVE  Readers!List(r)
  <1>1. RunOK(r) /\ folder[r] # {} /\ rows[r] = {} /\ at'[r] = "point"
    BY DEF IInv, TypeOK, RunOK, PublishedOK, ListArtifacts, Goto
  <1>2. rows'[r] # {}
    BY <1>1, ListArtifactsKeeps DEF IInv, RunOK, PublishedOK
  <1>3. \A q \in Runs \ {r} : rows'[q] = rows[q]
    BY DEF IInv, TypeOK, ListArtifacts
  <1>4. {q \in Runs : rows'[q] # {}} = {q \in Runs : rows[q] # {}} \union {r}
    BY <1>1, <1>2, <1>3
  <1> QED BY <1>1, <1>4 DEF Readers!List, ListArtifacts

\* The pointer moves to a run that is listed, and did not name it before.
LEMMA PointingPoints ==
  ASSUME IInv, NEW r \in Runs, Point(r)
  PROVE  Readers!Point(r)
  <1>1. rows[r] # {} /\ at[r] = "point"
    BY DEF IInv, RunOK, PublishedOK, Point
  <1>2. pointer # r
    BY <1>1, RunsAssumption DEF IInv, PointerOK
  <1> QED BY <1>1, <1>2 DEF Readers!Point, Point

\* Recording deletes the rows of a run that has none.
LEMMA RecordIsInvisible ==
  ASSUME IInv, NEW r \in Runs, Record(r)
  PROVE  rows' = rows
  <1>1. rows[r] = {} /\ rows \in [Runs -> SUBSET Reports]
    BY DEF IInv, TypeOK, RunOK, PublishedOK, Record
  <1> QED BY <1>1 DEF Record

\* The publishers, with their failures and crashes, are what readers may rely on.
THEOREM PublishersImplement == Spec => ImplementsPublication
  <1>1. Init => Readers!Init
    BY DEF Init, Readers!Init
  <1>2. IInv /\ [Next]_vars => [Readers!Next]_(Readers!vars)
    <2> SUFFICES ASSUME IInv, [Next]_vars PROVE Readers!Next \/ UNCHANGED Readers!vars
      OBVIOUS
    <2>1. ASSUME folder' = folder, rows' = rows, pointer' = pointer PROVE UNCHANGED Readers!vars
      BY <2>1 DEF Readers!vars
    <2>2. ASSUME NEW r \in Runs, Replace(r) \/ ListArtifacts(r) \/ Point(r) PROVE Readers!Next
      BY <2>2, ReplaceShows, ListingLists, PointingPoints DEF Readers!Next
    <2>3. ASSUME NEW r \in Runs, Record(r) PROVE UNCHANGED Readers!vars
      BY <2>1, <2>3, RecordIsInvisible DEF Record
    <2>4. ASSUME NEW r \in Runs, Call(r) PROVE UNCHANGED Readers!vars
      BY <2>1, <2>4 DEF Call
    <2>5. ASSUME NEW r \in Runs, Publish(r) PROVE Readers!Next \/ UNCHANGED Readers!vars
      <3>1. CASE Stage(r) \/ WriteReport(r) \/ Unsupported(r) \/ Measure(r) \/ WriteManifest(r)
                 \/ Verify(r) \/ Unlistable(r) \/ Fails(r)
        BY <3>1, <2>1 DEF Stage, WriteReport, Unsupported, Measure, WriteManifest, Verify,
                          Unlistable, Fails
      <3> QED BY <2>5, <3>1, <2>2, <2>3 DEF Publish
    <2>6. CASE Crash \/ UNCHANGED vars
      BY <2>6, <2>1 DEF Crash, vars
    <2> QED BY <2>4, <2>5, <2>6 DEF Next, Finished
  <1> QED BY <1>1, <1>2, PublicationInvariant, PTL DEF Spec, ImplementsPublication, Readers!Spec
=============================================================================
