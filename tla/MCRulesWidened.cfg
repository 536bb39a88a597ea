\* A column of whole numbers with one empty cell, read in two batches of two rows.
CONSTANTS
    a = a
    b = b
    Numbers = {1, 2}
    Word = Word
    Dates <- MCDates
    Age <- MCAge
    DateText <- MCDateText
    Blank = Blank
    None = None
    SampleLimit = 2
    MaxFindings = 3
    Requests <- MCWidenedRequests
    Files <- MCWidenedFiles
    FailOn = {2, 3, 4}
    BatchRows = 2
    MaxDistinct = 3
    MaxRows = 4
SPECIFICATION Spec
INVARIANT StreamedRunIsExact
