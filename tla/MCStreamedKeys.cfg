\* A combination of one column of whole numbers, with empty cells in some batches.
CONSTANTS
    id = id
    name = name
    n1 = n1
    n2 = n2
    word = word
    RuleTypes = {"unique_combination"}
    Columns = {id}
    KeyColumn = id
    Cells <- MCNumbers
    Numbers = {n1, n2}
    Blank = Blank
    Keys <- TypedKeys
    NoKey = NoKey
    MaxRows = 5
    MaxLookup = 2
    BatchRows = 2
    SampleLimit = 2
SPECIFICATION MCWidenedSpec
INVARIANT RowRulesAreExact
