\* Every file of up to five rows with a column of whole numbers, text and empty cells, and a
\* column that may be empty; every reference dataset of up to three rows.
CONSTANTS
    id = id
    name = name
    n1 = n1
    n2 = n2
    word = word
    RuleTypes = {"unique", "unique_combination"}
    Columns = {id, name}
    KeyColumn = id
    Cells <- MCCells
    Numbers = {n1, n2}
    Blank = Blank
    Keys <- TypedKeys
    NoKey = NoKey
    MaxRows = 5
    MaxLookup = 3
    BatchRows = 2
    SampleLimit = 2
SPECIFICATION Spec
INVARIANTS
    AffectedIsExact
    SamplesAreRepeated
    UniqueUpToTypes
    ReferenceUpToTypes
