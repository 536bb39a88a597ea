--------------------------- MODULE StreamedColumns ---------------------------
(***************************************************************************)
(* The rules that compare rows, on typed columns.  A uniqueness rule has   *)
(* two paths in the engine: streamed, where each batch is read on its own, *)
(* every row becomes a key (composite_key) and KeyIndex counts the keys;   *)
(* and in memory, where pandas compares the values of the whole file.      *)
(* reference_exists goes through the keys on both: reading in memory is    *)
(* reading one batch (BatchRows = MaxRows).  It is looked at beside every  *)
(* uniqueness rule of one column, over the same column.                    *)
(***************************************************************************)
EXTENDS KeyIndex

CONSTANTS
    RuleTypes,       \* the uniqueness rules looked at: "unique", "unique_combination"
    Columns,         \* the columns of a unique_combination
    KeyColumn,       \* the column of the other, and of reference_exists
    Cells,           \* per column: what its cells may say
    Numbers,         \* the cells that are whole numbers
    Blank,           \* an empty cell
    MaxLookup        \* bound: rows of the reference dataset

ASSUME RuleAssumption == RuleTypes \subseteq {"unique", "unique_combination"} /\ KeyColumn \in Columns
ASSUME CellsAssumption == DOMAIN Cells = Columns /\ Blank \notin Numbers /\ MaxLookup \in Nat

VARIABLES
    rule,            \* the type of the rule
    file,            \* the rows of the dataset as they are written
    lookup           \* the rows of the reference dataset of reference_exists

vars == <<rule, file, lookup, indexVars>>

-----------------------------------------------------------------------------
(* The reader. *)

\* The columns of the rule, and what a file may say there.
RuleColumns(type) == IF type = "unique_combination" THEN Columns ELSE {KeyColumn}

Said == UNION {Cells[c] : c \in Columns}

Files(columns, rows) ==
    {f \in UNION {[1..n -> [columns -> Said]] : n \in 0..rows} :
        \A r \in DOMAIN f, c \in columns : f[r][c] \in Cells[c]}

\* The rows that are read together with row r.
BatchOf(f, r) == {s \in DOMAIN f : (s - 1) \div BatchRows = (r - 1) \div BatchRows}

\* pandas infers the type of a column from the rows it has read, and holds whole numbers as
\* floats as soon as one of these rows is empty, and as text as soon as one is.
CellType(f, r, c) ==
    LET said == {f[s][c] : s \in BatchOf(f, r)}
    IN  IF said \subseteq Numbers THEN "int"
        ELSE IF said \subseteq Numbers \union {Blank} THEN "float" ELSE "str"

-----------------------------------------------------------------------------
(* Keys: the type is part of a key, and a row without any value has none. *)

Null == <<"null", Blank>>

ScalarKey(f, r, c) == IF f[r][c] = Blank THEN Null ELSE <<CellType(f, r, c), f[r][c]>>

\* Mutant of CompositeKey: one empty cell and the row has no key.
CompositeKeyOfFullRows(f, r) ==
    IF \E c \in DOMAIN f[r] : f[r][c] = Blank THEN NoKey
    ELSE [c \in DOMAIN f[r] |-> ScalarKey(f, r, c)]

\* Mutant of CompositeKey: a row without any value has a key as well.
CompositeKeyOfAnyRow(f, r) == [c \in DOMAIN f[r] |-> ScalarKey(f, r, c)]

CompositeKey(f, r) ==
    IF \A c \in DOMAIN f[r] : f[r][c] = Blank THEN NoKey
    ELSE [c \in DOMAIN f[r] |-> ScalarKey(f, r, c)]

\* The keys rows can have.
Scalars(c) ==
    {Null} \union {k \in {"int", "float", "str"} \X (Cells[c] \ {Blank}) :
                       k[2] \notin Numbers => k[1] = "str"}

TypedKeys ==
    UNION {{key \in [columns -> UNION {Scalars(c) : c \in columns}] :
               \A c \in columns : key[c] \in Scalars(c)} :
           columns \in {RuleColumns(type) : type \in RuleTypes}}

ASSUME TypedKeysAssumption == TypedKeys \subseteq Keys

\* The keys of the files are what the two batch loops hand to the index.
Init ==
    /\ rule \in RuleTypes
    /\ file \in Files(RuleColumns(rule), MaxRows)
    /\ lookup \in IF RuleColumns(rule) = {KeyColumn} THEN Files({KeyColumn}, MaxLookup) ELSE {<<>>}
    /\ data = [r \in DOMAIN file |-> CompositeKey(file, r)]
    /\ reference = [r \in DOMAIN lookup |-> CompositeKey(lookup, r)]
    /\ Fresh

Next ==
    /\ IndexReference \/ AddBatch \/ Finished
    /\ UNCHANGED <<rule, file, lookup>>

Spec == Init /\ [][Next]_vars

-----------------------------------------------------------------------------
(* A uniqueness rule in memory: series.notna() & series.duplicated(keep=False), *)
(* and frame.duplicated(subset=columns, keep=False), for which empty cells      *)
(* are equal.                                                                   *)

InMemory ==
    {r \in DOMAIN file :
        /\ rule = "unique" => file[r][KeyColumn] # Blank
        /\ \E s \in DOMAIN file : s # r /\ file[s] = file[r]}

Total(share) == MapThenSumSet(LAMBDA k : share[k], {data[r] : r \in DOMAIN data} \ {NoKey})

\* Two rows say the same, and what they say was read as the same type.
SameRead(f, r, g, s) ==
    f[r] = g[s] /\ \A c \in DOMAIN f[r] : f[r][c] # Blank => CellType(f, r, c) = CellType(g, s, c)

Says(r) == \E c \in DOMAIN file[r] : file[r][c] # Blank

\* A streamed run counts the repeated rows that a run of the same file in memory counts, but
\* for those that say nothing at all and those whose equals were all read as another type; and
\* the rows it shows are among those that the run in memory counts.
UniqueUpToTypes ==
    done = Len(data) =>
        /\ Total(affected) = Cardinality({r \in InMemory :
               Says(r) /\ \E s \in DOMAIN file : s # r /\ SameRead(file, r, file, s)})
        /\ samples \subseteq InMemory

(* reference_exists: "every non-null source key exists in the reference dataset". *)

Dangling ==
    {r \in DOMAIN file : Says(r) /\ \A s \in DOMAIN lookup : lookup[s] # file[r]}

\* The rows reported as missing from the reference dataset are those that are, and those whose
\* equals there were all read as another type.
ReferenceUpToTypes ==
    RuleColumns(rule) = {KeyColumn} /\ done = Len(data) =>
        Total(unmatched) = Cardinality(Dangling \union
            {r \in DOMAIN file : Says(r) /\ \A s \in DOMAIN lookup : ~SameRead(file, r, lookup, s)})

\* What the documents promise: as many repeated rows as in memory, and exactly the rows whose
\* cell says what no cell of the reference column says.
RowRulesAreExact ==
    done = Len(data) =>
        /\ Total(affected) = Cardinality(InMemory) /\ samples \subseteq InMemory
        /\ RuleColumns(rule) = {KeyColumn} => Total(unmatched) = Cardinality(Dangling)
=============================================================================
