\* Two publishers at once, a failure and a crash anywhere.
CONSTANTS
    Runs = {r1, r2}
    NoRun = NoRun
    Requests <- MCRequests
    MaxFaults = 1
    MaxCrashes = 1
SPECIFICATION FairSpec
INVARIANTS
    FolderIsWhole
    RowsMatchFolder
    PointerIsPublished
    StagingIsTidied
PROPERTIES
    PublishersEnd
    ImplementsPublication
