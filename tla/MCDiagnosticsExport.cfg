\* Three calls of three threads of two processes, within one second, with a fault.
CONSTANTS
    t1 = t1
    t2 = t2
    t3 = t3
    Threads = {t1, t2, t3}
    ProcessOf <- MCProcessOf
    crash = crash
    other = other
    Failures = {crash, other}
    Support = Support
    Free = Free
    Keep = 1
    MaxCalls = 3
    MaxSeconds = 1
    MaxFaults = 1
SPECIFICATION Spec
SYMMETRY MCSymmetry
CHECK_DEADLOCK FALSE
INVARIANTS
    GuardsHaveHolders
    NewestAreKept
    CapsuleIsHonest
