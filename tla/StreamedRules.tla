--------------------------- MODULE StreamedRules ---------------------------
(***************************************************************************)
(* A file validated a batch at a time (engine.py: _streaming_validate,     *)
(* _merge_stream_finding; streaming.py: StreamingProfiler): each batch is  *)
(* judged by a contract without the rules that need the whole file, its    *)
(* findings are merged into those of the batches before, and what needs    *)
(* the whole file is added up on the way and judged at the end.            *)
(*                                                                         *)
(* pandas types the columns of each batch on their own, so the cells the   *)
(* batches hold need not be those of the file in memory. The repeated rows *)
(* of a uniqueness rule come from the key index (KeyIndex,                 *)
(* StreamedColumns): they are taken here to be the rows whose typed cells  *)
(* are equal.                                                              *)
(***************************************************************************)
EXTENDS ContractRules

CONSTANTS
    Requests,      \* what runs are asked for: a contract and an approved snapshot, or None
    Files,         \* the files they are asked of
    FailOn,        \* the severities a run may fail on
    BatchRows,     \* ResourceLimits.batch_rows
    MaxDistinct    \* ResourceLimits.max_profile_distinct_track

ASSUME BatchAssumption == BatchRows \in Nat \ {0} /\ MaxDistinct \in Nat

\* A header names a column once (pandas numbers a name that comes again).
IsFile(f) ==
    /\ DOMAIN f = {"header", "rows"}
    /\ f.header \in Seq(Columns(f)) /\ IsInjective(f.header)
    /\ f.rows \in Seq([Columns(f) -> Texts \union {Blank}])

ASSUME FileAssumption    == \A f \in Files : IsFile(f)
ASSUME RequestAssumption ==
    \A q \in Requests : IsContract(q.contract) /\ (q.baseline = None \/ IsFiniteSet(DOMAIN q.baseline))
ASSUME FailOnAssumption  == FailOn \subseteq INFO..CRITICAL

VARIABLES
    contract, file, baseline,    \* the arguments of the run
    done,                        \* rows read
    merged,                      \* findings of the batches read, merged
    nulls,                       \* null_counts
    profile                      \* per column of the StreamingProfiler: type_samples, counts
                                 \* and distinct_exact

vars == <<contract, file, baseline, done, merged, nulls, profile>>

-----------------------------------------------------------------------------
(* Reading: pandas types a column by the rows it reads together. *)

TypeOf(texts) == IF Word \in texts THEN "str" ELSE IF Blank \in texts THEN "float" ELSE "int"

\* near: the rows each row is read together with.
ReadWith(f, near) ==
    [header |-> f.header,
     rows   |-> [r \in DOMAIN f.rows |-> [c \in Columns(f) |->
                    IF f.rows[r][c] = Blank THEN Blank
                    ELSE <<TypeOf({f.rows[s][c] : s \in near[r]}), f.rows[r][c]>>]]]

\* read_csv of a whole file.
Whole(f) == ReadWith(f, [r \in DOMAIN f.rows |-> DOMAIN f.rows])

-----------------------------------------------------------------------------
(* Batches. *)

NextRow == IF done + BatchRows < Len(file.rows) THEN done + BatchRows ELSE Len(file.rows)

\* A batch is read like a file of its own.
Batch == Whole([file EXCEPT !.rows = SubSeq(@, done + 1, NextRow)])

\* Mutant of ChunkContract: uniqueness is looked at batch by batch, too.
ChunkContractUnique ==
    [contract EXCEPT
        !.required = {}, !.closed = FALSE,
        !.dataset = {rule \in @ : rule.type \in {"conditional_not_null", "aggregate_reconciliation"}}]

\* chunk_contract: the rules that can be decided row by row.
ChunkContract ==
    [contract EXCEPT
        !.required = {}, !.closed = FALSE,
        !.rules = [c \in DOMAIN @ |-> [@[c] EXCEPT !.unique = FALSE]],
        !.dataset = {rule \in @ : rule.type \in {"conditional_not_null", "aggregate_reconciliation"}}]

BatchFindings ==
    ValidateColumns(ChunkContract, Batch) \union ValidateDatasetRules(ChunkContract.dataset, Batch)

-----------------------------------------------------------------------------
(* _merge_stream_finding. *)

SameKey(f, g) == f.rule = g.rule /\ f.column = g.column

\* The rows of a finding, numbered as in the file.
Moved(f) == [f EXCEPT !.samples = {done + r : r \in @}]

\* Mutant of Joined: the rows of the later batch are shown, and not counted.
JoinedUncounted(f, g) == [f EXCEPT !.samples = SampleRows(@ \union g.samples)]

Joined(f, g) ==
    [f EXCEPT !.affected = @ + g.affected, !.samples = SampleRows(@ \union g.samples)]

Merged(found) ==
    LET new == {Moved(f) : f \in found}
    IN  {f \in merged : \A g \in new : ~SameKey(f, g)}
        \union {g \in new : \A f \in merged : ~SameKey(f, g)}
        \union {Joined(p[1], p[2]) : p \in {q \in merged \X new : SameKey(q[1], q[2])}}

-----------------------------------------------------------------------------
(* StreamingProfiler: the counts of all columns together stay within a budget. *)

Tracked(states) ==
    MapThenSumSet(LAMBDA c : Cardinality({v \in Values : states[c].counts[v] > 0}), DOMAIN states)

\* Mutant of Track: a column whose value could not be tracked still calls itself exact.
TrackQuietly(states, c, value) ==
    IF value = Blank \/ (states[c].counts[value] = 0 /\ Tracked(states) >= MaxDistinct) THEN states
    ELSE [states EXCEPT ![c].counts[value] = @ + 1]

\* One cell of a column, by its typed key: 1 and 1.0 are two. Once a value had to be left out,
\* the column is not looked at again.
Track(states, c, value) ==
    IF value = Blank \/ ~states[c].exact THEN states
    ELSE IF states[c].counts[value] = 0 /\ Tracked(states) >= MaxDistinct
    THEN [states EXCEPT ![c].exact = FALSE]
    ELSE [states EXCEPT ![c].counts[value] = @ + 1]

\* One column of a batch, row by row.
TrackColumn(states, c, rows) ==
    LET after[r \in 0..Len(rows)] == IF r = 0 THEN states ELSE Track(after[r - 1], c, rows[r][c])
    IN  after[Len(rows)]

\* update: column by column.
Update(states, batch) ==
    LET seen == [c \in DOMAIN states |->
                    [states[c] EXCEPT !.seen = @ \union (CellsOf(batch, c) \ {Blank})]]
        after[i \in 0..Len(batch.header)] ==
            IF i = 0 THEN seen ELSE TrackColumn(after[i - 1], batch.header[i], batch.rows)
    IN  after[Len(batch.header)]

\* finalize: types come from the cells read, held as objects, not from a column of a frame.
StreamedType(c) ==
    LET inferred == InferredFromText(profile[c].seen)
    IN  IF inferred = "string" /\ profile[c].seen \subseteq NumberCells THEN "number" ELSE inferred

DistinctCount(c) == Cardinality({v \in Values : profile[c].counts[v] > 0})

DuplicateCount(c) ==
    MapThenSumSet(LAMBDA v : profile[c].counts[v], {v \in Values : profile[c].counts[v] > 1})

-----------------------------------------------------------------------------
Init ==
    /\ \E q \in Requests : contract = q.contract /\ baseline = q.baseline
    /\ file \in Files
    /\ done = 0 /\ merged = {}
    /\ nulls = [c \in Columns(file) |-> 0]
    /\ profile = [c \in Columns(file) |->
                     [seen |-> {}, counts |-> [v \in Values |-> 0], exact |-> TRUE]]

\* One batch.
AddBatch ==
    /\ done < Len(file.rows)
    /\ done' = NextRow
    /\ merged' = Merged(BatchFindings)
    /\ nulls' = [c \in DOMAIN nulls |-> nulls[c] + Cardinality(RowsWith(Batch, c, {Blank}))]
    /\ profile' = Update(profile, Batch)
    /\ UNCHANGED <<contract, file, baseline>>

\* The file is read.
Finished == done = Len(file.rows) /\ UNCHANGED vars

Next == AddBatch \/ Finished

Spec == Init /\ [][Next]_vars

-----------------------------------------------------------------------------
(* The findings of the run, once the file is read. *)

\* The rows of the batch a row is in.
BatchOf(f, r) ==
    {s \in DOMAIN f.rows :
        \E k \in 0..r : {r, s} \subseteq (k * BatchRows + 1)..(k * BatchRows + BatchRows)}

\* The cells of a file as its batches hold them.
ByBatch(f) == ReadWith(f, [r \in DOMAIN f.rows |-> BatchOf(f, r)])

\* Rules over the whole file; a null_ratio shows no rows.
WholeFileFindings ==
    UniqueFindings(contract, ByBatch(file))
    \union (UNION {RowCountFindings(rule, done) : rule \in {d \in contract.dataset : d.type = "row_count"}})
    \union {[Finding(RuleId(rule), rule.column, rule.severity, {}) EXCEPT !.affected = nulls[rule.column]] :
                rule \in {d \in contract.dataset :
                             /\ d.type = "null_ratio" /\ d.column \in Columns(file)
                             /\ NullRatioExceeded(d, nulls[d.column], done)}}

StreamedDrift ==
    IF baseline = None THEN {}
    ELSE DriftFindings(baseline, [c \in Columns(file) |-> [type |-> StreamedType(c), nullable |-> nulls[c] > 0]])

\* The schema is judged by the header alone.
StreamedFindings ==
    SchemaFindings(contract, file) \union merged \union WholeFileFindings \union StreamedDrift

-----------------------------------------------------------------------------
(* Properties. *)

WithoutNullSamples(findings) ==
    {IF f.rule \in {RuleId(d) : d \in {e \in contract.dataset : e.type = "null_ratio"}}
     THEN [f EXCEPT !.samples = {}] ELSE f : f \in findings}

\* The run has the findings of a frame in memory: the same rules broken, by as many rows, the
\* same rows shown (but for null_ratio), the same drift (but for the type of a column without
\* words: numbers are "integer" or "number" in memory and never "integer" when streamed).
FindingsAgree(frame) ==
    LET compared(findings) ==
            {f \in findings : f.rule = <<"drift", "type_changed">> => RowsWith(file, f.column, {Word}) # {}}
    IN  compared(StreamedFindings) =
            compared(WithoutNullSamples(InMemoryFindings(contract, frame, baseline)))

\* The counts the profile calls exact are those of a frame in memory.
CountsAgree(frame) ==
    \A c \in Columns(file) : profile[c].exact =>
        /\ DistinctCount(c) = Cardinality(CellsOf(frame, c) \ {Blank})
        /\ DuplicateCount(c) = Cardinality(Duplicated(frame, c))

\* Whatever the file, its batches add up: the run has the findings the same rules have on all
\* cells at once, typed as the batches read them. This is what _merge_stream_finding, the
\* offsets of the batches and their contract are to do.
BatchesAddUp == done = Len(file.rows) => FindingsAgree(ByBatch(file))

\* A file read in batches is judged and profiled as in memory. Documents say so of every file,
\* and it is not true: see TypedAlike.
StreamedRunIsExact == done = Len(file.rows) => FindingsAgree(Whole(file)) /\ CountsAgree(Whole(file))

\* It is true of the files pandas types alike in its batches and as a whole.
TypedAlike(f) == ByBatch(f) = Whole(f)

ExactWhenTypedAlike == TypedAlike(file) => StreamedRunIsExact

\* Cutting the findings at the limit never turns a failed run into a passed one, a run whose
\* findings were cut is never passed, and what is cut is no more severe than what is kept.
VerdictIsSound ==
    done = Len(file.rows) =>
        LET cut == StreamedFindings \ Reported(StreamedFindings)
        IN  /\ \A failOn \in FailOn :
                   Passed(Reported(StreamedFindings), failOn)
                       <=> Passed(StreamedFindings, failOn) /\ cut = {}
            /\ \A f \in cut, g \in Reported(StreamedFindings) : f.severity <= g.severity

\* Rows read so far in which a column of a frame holds a cell.
RowsSoFar(frame, c, v) == {r \in 1..done : frame.rows[r][c] = v}

\* A column of the profile that is marked exact counts the cells of its batches exactly, even
\* when other columns have used the budget up; the others count no cell that is not there.
ProfileIsHonest ==
    LET frame == ByBatch(file)
    IN  \A c \in Columns(file) :
            LET distinct  == {v \in Values : RowsSoFar(frame, c, v) # {}}
                duplicate == {r \in 1..done : frame.rows[r][c] # Blank
                                              /\ Cardinality(RowsSoFar(frame, c, frame.rows[r][c])) > 1}
            IN  IF profile[c].exact
                THEN /\ DistinctCount(c) = Cardinality(distinct)
                     /\ DuplicateCount(c) = Cardinality(duplicate)
                ELSE /\ DistinctCount(c) < Cardinality(distinct)
                     /\ DuplicateCount(c) <= Cardinality(duplicate)

\* A change classified as nonbreaking or less rejects no file the older contract accepts, as
\* long as extra columns are allowed and the settings the diff overlooks stay the same.
CompatibleIsSafe ==
    done = 0 => \A newer \in {q.contract : q \in Requests}, failOn \in FailOn :
        /\ DiffContracts(contract, newer) <= NONBREAKING
        /\ OverlookedIsSame(contract, newer) /\ ~contract.closed
        /\ Passed(InMemoryFindings(contract, Whole(file), None), failOn)
        => Passed(InMemoryFindings(newer, Whole(file), None), failOn)
=============================================================================
