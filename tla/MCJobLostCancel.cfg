\* One job, one cancel(): the smallest instance in which the late write is lost.
CONSTANTS
    Jobs = {j1}
    Callers = {c1}
    NoJob = NoJob
    MaxWorkers = 1
    QueueCapacity = 0
    BatchPercents = {50}
    MaxFaults = 0
    MaxCrashes = 0
SPECIFICATION FairSpec
PROPERTY JobsReachTerminal
