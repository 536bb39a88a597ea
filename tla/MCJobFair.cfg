\* Two jobs for one permit, a thread that cancels, a shutdown at any time; nothing fails.
CONSTANTS
    Jobs = {j1, j2}
    Callers = {c1}
    NoJob = NoJob
    MaxWorkers = 1
    QueueCapacity = 0
    BatchPercents = {50}
    MaxFaults = 0
    MaxCrashes = 0
SPECIFICATION FairSpec
PROPERTIES
    ImplementsFairPool
    UncancelledReachTerminal
    WorkersFinish
    ShutdownEnds
    CancelledWaitingNeverPublishes
