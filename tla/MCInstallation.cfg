\* Two releases, extracted over one another once, and two launches that end early.
CONSTANTS
    Releases <- MCReleases
    Nothing = Nothing
    Mixed = Mixed
    MaxExtracts = 1
    MaxFailures = 2
SPECIFICATION FairSpec
INVARIANTS
    CommandRunsTheRelease
    RetirementIsComplete
PROPERTY RepairRecovers
