\* A worker is killed after it claimed a continuation, before it took the lease.
SPECIFICATION FairSpec
CONSTANTS
    w1 = w1
    w2 = w2
    d1 = d1
    d2 = d2
    m1 = m1
    NoKey = NoKey
    Worker = {w1, w2}
    Occurrence = {d1}
    Manual = {}
    MaxPages = 3
    MaxSlices = 2
    MaxWaits = 1
    MaxRetries = 1
    MaxLockRetries = 1
    MaxFaults = 1
    MaxSwitches = 0
    OrphanRecovery = TRUE
    Mishaps = {"killed_claim"}
CHECK_DEADLOCK FALSE
PROPERTIES
    ContinuationResumes
