SPECIFICATION Spec
CONSTANTS
    p1 = p1
    p2 = p2
    None = None
    Proc <- OneProc
    Step <- Small
    Kind <- SmallKind
    Deps <- SmallDeps
    MaxPlans = 1
    MaxAttempts = 2
    ParallelReads = 2
    StoredDeadline = FALSE
    MaxCalls = 1
    MaxChecks = 1
    MaxFaults = 0
INVARIANTS
    UncertainNotRepeated
CHECK_DEADLOCK FALSE
