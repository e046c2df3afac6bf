\* Planned occurrences only; crashes and lost messages, no operator.
SPECIFICATION FairSpec
CONSTANTS
    w1 = w1
    w2 = w2
    d1 = d1
    d2 = d2
    m1 = m1
    NoKey = NoKey
    Worker = {w1, w2}
    Occurrence = {d1}
    Manual = {}
    MaxPages = 3
    MaxSlices = 2
    MaxWaits = 1
    MaxRetries = 1
    MaxLockRetries = 1
    MaxFaults = 2
    MaxSwitches = 0
    OrphanRecovery = TRUE
    Mishaps = {}
CHECK_DEADLOCK FALSE
INVARIANTS
    PagesCounted
PROPERTIES
    PagesInOrder
    OccurrenceEnds
    ContinuationResumes
    LostRunReconciled
