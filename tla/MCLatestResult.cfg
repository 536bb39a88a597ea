\* One run, nothing fails: the export finds no result in the folder of the latest run.
CONSTANTS
    Runs = {r1}
    NoRun = NoRun
    Requests <- MCDefault
    MaxFaults = 0
    MaxCrashes = 0
SPECIFICATION Spec
INVARIANT ExportHasLatestResult
