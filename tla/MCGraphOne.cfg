SPECIFICATION FairSpec
CONSTANTS
    p1 = p1
    p2 = p2
    None = None
    Proc <- OneProc
    Step <- Small
    Kind <- SmallKind
    Deps <- SmallDeps
    MaxPlans = 2
    MaxAttempts = 1
    ParallelReads = 2
    StoredDeadline = FALSE
    MaxCalls = 1
    MaxChecks = 1
    MaxFaults = 2
INVARIANT
    EffectsHonest

    
CHECK_DEADLOCK FALSE
