\* The configuration of the job is disabled while a run executes.
SPECIFICATION FairSpec
CONSTANTS
    w1 = w1
    w2 = w2
    d1 = d1
    d2 = d2
    m1 = m1
    NoKey = NoKey
    Worker = {w1, w2}
    Occurrence = {d1}
    Manual = {}
    MaxPages = 3
    MaxSlices = 2
    MaxWaits = 1
    MaxRetries = 1
    MaxLockRetries = 1
    MaxFaults = 0
    MaxSwitches = 1
    OrphanRecovery = TRUE
    Mishaps = {}
CHECK_DEADLOCK FALSE
PROPERTIES
    LostRunReconciled
