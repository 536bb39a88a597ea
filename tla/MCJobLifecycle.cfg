\* Two jobs, one worker, a place in the queue, a thread that cancels, one failure of
\* the store and one crash, anywhere.
CONSTANTS
    Jobs = {j1, j2}
    Callers = {c1}
    NoJob = NoJob
    MaxWorkers = 1
    QueueCapacity = 1
    BatchPercents <- MCBatchPercents
    MaxFaults = 1
    MaxCrashes = 1
SPECIFICATION Spec
SYMMETRY MCSymmetry
INVARIANTS
    TypeOK
    SlotsMatchHolders
    InFlightIsCancellable
    MarkOnlyBeforeRunning
    CompletedHasEvidence
    FinishedIsSettled
    UploadsLiveAsLongAsTheJob
PROPERTIES
    CompletedIsFinal
    ImplementsPool
