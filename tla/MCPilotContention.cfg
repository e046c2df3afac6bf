\* Two requests for one release plan, a fault, nobody else at work.
SPECIFICATION Spec
CONSTANTS
    e1 = e1
    None = None
    Key = {k1, k2}
    Env = {e1}
    MaxConcurrent = 2
    MaxFaults = 1
    Release = {r1}
    Performance = {}
    EnvironmentOf <- MCEnvironmentOf
    Worker = {w1}
    MaxVersion = 3
    Operators <- NoOperations
    Live <- OneLive
SYMMETRY Keys
CHECK_DEADLOCK FALSE
INVARIANTS
    TypeOK
    CommandOnce
    EnvironmentExclusive
