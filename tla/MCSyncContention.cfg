\* A planned occurrence and a manual request compete for the job; a fault and the operator in between.
SPECIFICATION Spec
CONSTANTS
    w1 = w1
    w2 = w2
    d1 = d1
    d2 = d2
    m1 = m1
    NoKey = NoKey
    Worker = {w1, w2}
    Occurrence = {d1}
    Manual = {m1}
    MaxPages = 1
    MaxSlices = 1
    MaxWaits = 0
    MaxRetries = 0
    MaxLockRetries = 0
    MaxFaults = 1
    MaxSwitches = 1
    OrphanRecovery = TRUE
    Mishaps = {"killed_claim", "killed_publisher"}
SYMMETRY Perms
CHECK_DEADLOCK FALSE
INVARIANTS
    TypeOK
    RunHoldsLock
    SingleWriter
    EndedNotExecuting
PROPERTIES
    SliceStartedOnce
