\* Any file of up to five rows in batches of two, and contracts with every kind of rule.
CONSTANTS
    a = a
    b = b
    Numbers = {1, 2}
    Word = Word
    Dates <- MCDates
    Age <- MCAge
    DateText <- MCDateText
    Blank = Blank
    None = None
    SampleLimit = 2
    MaxFindings = 3
    Requests <- MCRequests
    Files <- MCFiles
    FailOn = {2, 3, 4}
    BatchRows = 2
    MaxDistinct = 3
    MaxRows = 5
SPECIFICATION Spec
INVARIANTS
    
    
    VerdictIsSound
    ProfileIsHonest
    CompatibleIsSafe
