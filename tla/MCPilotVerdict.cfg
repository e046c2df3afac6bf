\* One request, two workers that may both have it, and operators on the plan.
SPECIFICATION FairSpec
CONSTANTS
    e1 = e1
    None = None
    Key = {k1}
    Env = {e1}
    MaxConcurrent = 1
    MaxFaults = 1
    Release = {r1}
    Performance = {p1}
    EnvironmentOf <- MCEnvironmentOf
    Worker = {w1, w2}
    MaxVersion = 3
    Operators <- AllOperations
    Live <- OneLive
CHECK_DEADLOCK FALSE
INVARIANTS
    SuccessIsReal
PROPERTIES
    VerdictFinal
    EveryExecutionEnds
