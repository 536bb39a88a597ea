--------------------------- MODULE ContractRules ---------------------------
(***************************************************************************)
(* What a contract says of a dataset (engine.py: _validate_columns,        *)
(* _validate_dataset_rules, _drift_findings, _summary, the finding limit;  *)
(* drift.py; profiler.py) and of another contract (contract_tools.py:      *)
(* diff_contracts).  Pure operators: StreamedRules applies them to a file  *)
(* that is read in batches and to the same file in memory.                 *)
(*                                                                         *)
(* A frame is what pandas makes of a file: a header and rows of typed      *)
(* cells. A cell is blank, or a whole number or text held as "int", "float"*)
(* or "str": 1, 1.0 and "1" are three cells, and the text of each is its   *)
(* own. Regular expressions and lengths are the sets of cells they refuse. *)
(* unique_combination and reference_exists are in StreamedColumns; privacy *)
(* and the clock behind the freshness rule are left out: a cell has an age.*)
(***************************************************************************)
EXTENDS SequencesExt, Integers

CONSTANTS
    Numbers,         \* whole numbers a file holds
    Word,            \* a text that is no number
    Dates,           \* cells pandas takes for dates; it takes a number for nanoseconds since 1970
    Age,             \* their age in hours
    DateText,        \* cells whose text it takes for a date
    Blank,           \* an empty cell
    None,            \* a setting of a rule that is not there
    SampleLimit,     \* rows a finding shows
    MaxFindings      \* ResourceLimits.max_findings

\* What a file says in a cell that is not empty.
Texts == Numbers \union {Word}

\* Cells of a frame: a type and what the cell says.
Values      == ({"int", "float"} \X Numbers) \union ({"str"} \X Texts)
NumberCells == {v \in Values : v[2] \in Numbers}    \* to_numeric makes a number of these

ASSUME CellAssumption ==
    /\ Numbers \subseteq Nat /\ Word \notin Nat /\ None \notin Int
    /\ Blank \notin Values /\ Blank \notin Texts
    /\ DateText \subseteq Values /\ Dates \subseteq Values /\ Age \in [Dates -> Nat]
ASSUME LimitAssumption == SampleLimit \in Nat \ {0} /\ MaxFindings \in Nat \ {0}

\* Severity, by SEVERITY_ORDER.
INFO == 1
WARNING == 2
ERROR == 3
CRITICAL == 4

-----------------------------------------------------------------------------
(* Contracts, as models.py and compile_contract let them through. *)

ColumnRule ==
    [severity  : INFO..CRITICAL,
     type      : {"any", "string", "integer", "number", "date", "datetime"},
     strict    : BOOLEAN,
     nullable  : BOOLEAN,
     unique    : BOOLEAN,
     minimum   : Int \union {None},
     maximum   : Int \union {None},
     allowed   : (SUBSET Values) \union {None},
     age       : Int \union {None},
     malformed : SUBSET Values]

DatasetRuleTypes == {"row_count", "null_ratio", "conditional_not_null", "aggregate_reconciliation"}

\* A contract requires the columns it has rules for (normalize_required_columns).
IsContract(k) ==
    /\ DOMAIN k = {"name", "id", "description", "required", "closed", "extraSeverity", "rules", "dataset"}
    /\ IsFiniteSet(k.required) /\ DOMAIN k.rules \subseteq k.required
    /\ k.rules \in [DOMAIN k.rules -> ColumnRule]
    /\ k.closed \in BOOLEAN /\ k.extraSeverity \in INFO..CRITICAL
    /\ IsFiniteSet(k.dataset)
    /\ \A d \in k.dataset : d.type \in DatasetRuleTypes /\ d.severity \in INFO..CRITICAL
    /\ \A d, e \in k.dataset : d.name = e.name => d = e

-----------------------------------------------------------------------------
(* Findings. A rule id is a family and a rule in it. *)

\* _sample_rows: the first rows.
SampleRows(rows) == {r \in rows : Cardinality({s \in rows : s < r}) < SampleLimit}

Finding(rule, column, severity, rows) ==
    [rule |-> rule, column |-> column, severity |-> severity,
     affected |-> Cardinality(rows), samples |-> SampleRows(rows)]

\* A rule that looks at rows reports when some row breaks it.
FindingOfRows(rule, column, severity, rows) ==
    IF rows = {} THEN {} ELSE {Finding(rule, column, severity, rows)}

Columns(frame) == ToSet(frame.header)

RowsWith(frame, c, cells) == {r \in DOMAIN frame.rows : frame.rows[r][c] \in cells}

-----------------------------------------------------------------------------
(* Column rules. *)

\* Columns the contract requires and the frame lacks, and the other way round.
SchemaFindings(contract, frame) ==
    {Finding(<<"schema", "required_column">>, c, CRITICAL, {}) : c \in contract.required \ Columns(frame)}
    \union (IF contract.closed
            THEN {Finding(<<"schema", "extra_column">>, c, contract.extraSeverity, {}) :
                      c \in Columns(frame) \ contract.required}
            ELSE {})

\* _invalid_type_mask. The numbers are whole.
InvalidType(type, strict) ==
    CASE type = "string"                -> {v \in Values : strict /\ v[1] # "str"}
      [] type \in {"integer", "number"} -> Values \ NumberCells
      [] type \in {"date", "datetime"}  -> Values \ Dates
      [] OTHER                          -> {}

\* The cells each check of a rule refuses, but for uniqueness.
Refused(rule) ==
    [nullable          |-> IF rule.nullable THEN {} ELSE {Blank},
     type              |-> InvalidType(rule.type, rule.strict),
     minimum           |-> {v \in NumberCells : rule.minimum # None /\ v[2] < rule.minimum},
     maximum           |-> {v \in NumberCells : rule.maximum # None /\ v[2] > rule.maximum},
     malformed         |-> rule.malformed,
     allowed_values    |-> IF rule.allowed = None THEN {} ELSE Values \ rule.allowed,
     maximum_age_hours |-> {d \in Dates : rule.age # None /\ Age[d] > rule.age}]

\* series.notna() & series.duplicated(keep=False)
Duplicated(frame, c) ==
    {r \in DOMAIN frame.rows : /\ frame.rows[r][c] # Blank
                              /\ \E s \in DOMAIN frame.rows \ {r} : frame.rows[s][c] = frame.rows[r][c]}

UniqueFindings(contract, frame) ==
    UNION {FindingOfRows(<<"column", "unique">>, c, contract.rules[c].severity, Duplicated(frame, c)) :
               c \in {d \in DOMAIN contract.rules \intersect Columns(frame) : contract.rules[d].unique}}

ColumnFindings(contract, frame) ==
    UNION {LET refused == Refused(contract.rules[c])
           IN  UNION {FindingOfRows(<<"column", check>>, c, contract.rules[c].severity,
                                    RowsWith(frame, c, refused[check])) : check \in DOMAIN refused} :
               c \in DOMAIN contract.rules \intersect Columns(frame)}

\* _validate_columns
ValidateColumns(contract, frame) ==
    SchemaFindings(contract, frame) \union ColumnFindings(contract, frame)
                                   \union UniqueFindings(contract, frame)

-----------------------------------------------------------------------------
(* Dataset rules. *)

\* Each looks at columns the frame must have; otherwise the rule is passed over.
ColumnsOf(rule) ==
    CASE rule.type = "row_count"                -> {}
      [] rule.type = "null_ratio"               -> {rule.column}
      [] rule.type = "conditional_not_null"     -> {rule.when, rule.column}
      [] rule.type = "aggregate_reconciliation" -> {rule.column, rule.right}

Distance(m, n) == IF m < n THEN n - m ELSE m - n

\* The rows that break a conditional_not_null or an aggregate_reconciliation; the expression
\* of the latter is a column, and equals the cells that equal when_equals.
BreakingRows(rule, rows) ==
    CASE rule.type = "conditional_not_null" ->
            {r \in DOMAIN rows : rows[r][rule.when] \in rule.equals /\ rows[r][rule.column] = Blank}
      [] rule.type = "aggregate_reconciliation" ->
            {r \in DOMAIN rows :
                /\ {rows[r][rule.column], rows[r][rule.right]} \subseteq NumberCells
                /\ Distance(rows[r][rule.column][2], rows[r][rule.right][2]) > rule.tolerance}

\* max_ratio is a fraction; the ratio of an empty frame is 0.
NullRatioExceeded(rule, nulls, rows) == nulls * rule.ratio[2] > rule.ratio[1] * rows

RowCountOutside(rule, rows) ==
    (rule.minimum # None /\ rows < rule.minimum) \/ (rule.maximum # None /\ rows > rule.maximum)

RuleId(rule) == <<rule.type, rule.name>>

RowCountFindings(rule, rows) ==
    IF RowCountOutside(rule, rows) THEN {Finding(RuleId(rule), None, rule.severity, {})} ELSE {}

\* _validate_dataset_rules, one rule.
DatasetRuleFindings(rule, frame) ==
    IF ~(ColumnsOf(rule) \subseteq Columns(frame)) THEN {}
    ELSE IF rule.type = "row_count" THEN RowCountFindings(rule, Len(frame.rows))
    ELSE IF rule.type = "null_ratio" THEN
        LET nulls == RowsWith(frame, rule.column, {Blank})
        IN  IF NullRatioExceeded(rule, Cardinality(nulls), Len(frame.rows))
            THEN {Finding(RuleId(rule), rule.column, rule.severity, nulls)} ELSE {}
    ELSE FindingOfRows(RuleId(rule), rule.column, rule.severity, BreakingRows(rule, frame.rows))

ValidateDatasetRules(rules, frame) == UNION {DatasetRuleFindings(rule, frame) : rule \in rules}

-----------------------------------------------------------------------------
(* Profile and drift. *)

CellsOf(frame, c) == {frame.rows[r][c] : r \in DOMAIN frame.rows}

\* infer_observed_type of objects, by their text. 95% of fewer than 20 is all of them.
InferredFromText(values) ==
    IF values = {} THEN "unknown" ELSE IF values \subseteq DateText THEN "datetime" ELSE "string"

\* infer_observed_type of a column of a frame: by its dtype, if that is one of numbers.
ObservedType(frame, c) ==
    LET values == CellsOf(frame, c) \ {Blank}
        types  == {v[1] : v \in values}
    IN  IF types = {"int"} THEN "integer"
        ELSE IF values # {} /\ types \subseteq {"int", "float"} THEN "number"
        ELSE InferredFromText(values)

\* snapshot_from_profile of profile_dataset: what `baseline create` approves.
Snapshot(frame) ==
    [c \in Columns(frame) |-> [type |-> ObservedType(frame, c), nullable |-> Blank \in CellsOf(frame, c)]]

\* compare_profile, with the severities _drift_findings takes over.
DriftFindings(before, after) ==
    LET both == DOMAIN before \intersect DOMAIN after
    IN  {Finding(<<"drift", "added">>, c, WARNING, {}) : c \in DOMAIN after \ DOMAIN before}
        \union {Finding(<<"drift", "removed">>, c, ERROR, {}) : c \in DOMAIN before \ DOMAIN after}
        \union {Finding(<<"drift", "type_changed">>, c, ERROR, {}) :
                    c \in {d \in both : before[d].type # after[d].type}}
        \union {Finding(<<"drift", "nullability_changed">>, c, WARNING, {}) :
                    c \in {d \in both : ~before[d].nullable /\ after[d].nullable}}

-----------------------------------------------------------------------------
(* The report. *)

\* What a validation in memory finds; without a baseline there is no drift.
InMemoryFindings(contract, frame, baseline) ==
    ValidateColumns(contract, frame) \union ValidateDatasetRules(contract.dataset, frame)
    \union (IF baseline = None THEN {} ELSE DriftFindings(baseline, Snapshot(frame)))

FindingLimit == Finding(<<"runtime", "finding_limit">>, None, CRITICAL, {})

\* The most severe findings. Among equally severe ones category, rule and column decide: any
\* choice here.
MostSevere(n, findings) ==
    CHOOSE kept \in kSubset(n, findings) :
        \A f \in findings \ kept, g \in kept : f.severity <= g.severity

\* Mutant of Reported: the findings beyond the limit are cut and nothing is said of it.
ReportedSilently(findings) ==
    IF Cardinality(findings) <= MaxFindings THEN findings ELSE MostSevere(MaxFindings - 1, findings)

\* The findings of a result: when there are too many, the most severe ones and a word about it.
Reported(findings) ==
    IF Cardinality(findings) <= MaxFindings THEN findings
    ELSE MostSevere(MaxFindings - 1, findings) \union {FindingLimit}

\* _summary
Passed(findings, failOn) == \A f \in findings : f.severity < failOn

-----------------------------------------------------------------------------
(* Two contracts: the classes of change, by _CLASS_ORDER. *)

NONE == 0
DOCUMENTATION == 1
NONBREAKING == 2
POTENTIALLY == 3
BREAKING == 4

Class(changed, class) == IF changed THEN {class} ELSE {}

\* A bound that appears or moves inwards breaks, any other change of it does not.
BoundClass(old, new, inwards) ==
    IF old = new THEN {}
    ELSE IF new # None /\ (old = None \/ inwards) THEN {BREAKING} ELSE {NONBREAKING}

\* Mutant of MinimumClass: the comparison of the maximum.
MinimumClassAsMaximum(old, new) == BoundClass(old, new, new < old)

MinimumClass(old, new) == BoundClass(old, new, new > old)
MaximumClass(old, new) == BoundClass(old, new, new < old)

AllowedClass(old, new) ==
    IF old = new THEN {}
    ELSE IF old = None THEN {BREAKING}
    ELSE IF new = None THEN {NONBREAKING}
    ELSE IF new \subseteq old THEN {BREAKING} ELSE {POTENTIALLY}

RuleClasses(old, new) ==
    Class(old.type # new.type, BREAKING)
    \union Class(old.nullable /\ ~new.nullable, BREAKING)
    \union Class(~old.nullable /\ new.nullable, NONBREAKING)
    \union Class(~old.unique /\ new.unique, BREAKING)
    \union Class(old.unique /\ ~new.unique, NONBREAKING)
    \union MinimumClass(old.minimum, new.minimum)
    \union MaximumClass(old.maximum, new.maximum)
    \union AllowedClass(old.allowed, new.allowed)
    \union MaximumClass(old.age, new.age)

RuleNamed(rules, name) == CHOOSE rule \in rules : rule.name = name

DatasetRuleClasses(old, new) ==
    LET names(rules) == {rule.name : rule \in rules}
    IN  Class(\E name \in names(new) : name \notin names(old)
                                       \/ RuleNamed(old, name) # RuleNamed(new, name), POTENTIALLY)
        \union Class(\E name \in names(old) : name \notin names(new), NONBREAKING)

\* diff_contracts: the classification of the change from one contract to the next.
DiffContracts(older, newer) ==
    LET shared == DOMAIN older.rules \intersect DOMAIN newer.rules
        fresh  == DOMAIN newer.rules \ DOMAIN older.rules
    IN  Max({NONE}
            \union Class(older.name # newer.name, BREAKING)
            \union Class(older.id # newer.id, POTENTIALLY)
            \union Class(older.description # newer.description, DOCUMENTATION)
            \union Class(newer.required \ older.required # {}, BREAKING)
            \union Class(older.required \ newer.required # {}, NONBREAKING)
            \union Class(fresh \ newer.required # {}, POTENTIALLY)
            \union Class(fresh \intersect newer.required # {}, BREAKING)
            \union Class(DOMAIN older.rules \ DOMAIN newer.rules # {}, NONBREAKING)
            \union (UNION {RuleClasses(older.rules[c], newer.rules[c]) : c \in shared})
            \union DatasetRuleClasses(older.dataset, newer.dataset))

\* The settings the diff does not look at.
OverlookedIsSame(older, newer) ==
    /\ older.closed = newer.closed /\ older.extraSeverity = newer.extraSeverity
    /\ \A c \in DOMAIN older.rules \intersect DOMAIN newer.rules :
           /\ older.rules[c].severity = newer.rules[c].severity
           /\ older.rules[c].malformed = newer.rules[c].malformed
           /\ older.rules[c].strict = newer.rules[c].strict
=============================================================================
